-------------------------- MODULE MCVehicleBreakdown --------------------------
(* Small instances of VehicleBreakdown.                                    *)
EXTENDS VehicleBreakdown, TLC

CONSTANTS s1, s2, b1, b2, d1, d2

Symmetric == Permutations(Reports) \cup Permutations(Desks)

\* Bounds: the continuations stay as they were opened; the source is closed by
\* completing it, after which no report names it any more, as if it were cancelled;
\* its bins are collected or left, and weigh nothing, so the admin and not the log
\* completes it, its edit form unused; requests cross on one report only, and no
\* report is made on the last continuation
Quiet ==
    /\ \A t \in Trips \ {1} : status[t] \in {"absent", "Scheduled"}
    /\ status[1] # "Cancelled"
    /\ \A a \in Admins : admin[a].op \in {"idle", "status"} /\ admin[a].trip \in {NoTrip, 1}
    /\ ~weighed[1] /\ \A s \in Stops : stop[1][s] \in {"Pending", "Collected"}
    /\ Cardinality({b \in Reports : crossed[b]}) <= 1
    /\ \A b \in Reports : row[b].on # 3

=============================================================================
