------------------------------ MODULE MCRetrip ------------------------------
(***************************************************************************)
(* Instances of Retrip for TLC.  Sessions and stops are interchangeable.   *)
(***************************************************************************)
EXTENDS Retrip, TLC

MCSymmetry == Permutations(Crew) \cup Permutations(Reviewers) \cup Permutations(Workers)
              \cup Permutations(Stops)

\* Bound of the runs about deciding requests: a day on which no bin is scanned,
\* hence no log is written, and the admin screen starts or completes the source only.
Quiet == /\ \A t \in Trips : log[t] = "None" /\ status[t] # "Cancelled"
         /\ \A a \in Admins : admin[a].op \in {"idle", "status"} /\ admin[a].trip \in {NoTrip, 1}
QuietSpec == Init /\ [][Next /\ Quiet']_vars /\ Fairness

\* Bound of the run about trips: the continuation is not scanned, the admin screen
\* works on the source; a stop is collected or left (Skipped is as pending, Missed as done);
\* two of driver, supervisor and admin are under way at a time
SourceDay == /\ \A t \in Trips \ {1} : log[t] = "None"
             /\ \A s \in Stops : stop[1][s] \in {"Pending", "Collected"}
             /\ \A a \in Admins : admin[a].trip \in {NoTrip, 1}
             /\ Cardinality({a \in Admins : admin[a].op # "idle"})
                  + Cardinality({c \in Crew : crew[c].op # "idle"})
                  + Cardinality({v \in Reviewers : review[v].op # "idle"}) <= 2

=============================================================================
