-------------------------- MODULE MCHouseholdStops --------------------------
(* A small instance of HouseholdStops: two requests of the crew and two    *)
(* devices of the customer at once, a trip and its continuation.           *)
EXTENDS HouseholdStops, TLC

CONSTANTS h1, h2, d1, d2

Symmetric == Permutations({h1, h2}) \cup Permutations({d1, d2})

=============================================================================
