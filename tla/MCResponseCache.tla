--------------------------- MODULE MCResponseCache ---------------------------
(* A small instance of ResponseCache.                                      *)
EXTENDS ResponseCache, TLC

CONSTANTS l1, l2, r1, r2, p1, p2, w1, w2

Symmetric == Permutations({p1, p2}) \cup Permutations({r1, r2})

=============================================================================
