----------------------------- MODULE MCDailyTrips ----------------------------
(* Small instances of DailyTrips.                                          *)
EXTENDS DailyTrips

CONSTANTS w1, w2, s1, s2, u1, u2

\* Bound: at most two runs or requests are under way at a time, of any kind
TwoAtWork ==
    Cardinality({w \in Workers : worker[w].op # "idle"})
        + Cardinality({s \in Supervisors : desk[s].op # "idle"}) <= 2

Pairs == Init /\ [][Next /\ TwoAtWork']_vars /\ Fairness

=============================================================================
