----------------------- MODULE MCComplaintEscalation -----------------------
(***************************************************************************)
(* Instances of ComplaintEscalation for TLC: a chain of two levels whose   *)
(* numbers do not follow each other.                                       *)
(***************************************************************************)
EXTENDS ComplaintEscalation

MCChain == {1, 3}
MCLevels == {1, 3}

\* Bound: a rule that has a window for a level has one for those below it (one
\* that starts otherwise is edited first)
Downward == \A l \in timed, k \in Chain : k < l => k \in timed

Tickets == Init /\ [][Next /\ Downward']_vars /\ Fairness

=============================================================================
