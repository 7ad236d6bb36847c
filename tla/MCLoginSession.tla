--------------------------- MODULE MCLoginSession ---------------------------
(* A small instance of LoginSession.                                       *)
EXTENDS LoginSession, TLC

CONSTANTS q1, q2

Symmetric == Permutations({q1, q2})

=============================================================================
