--------------------------- MODULE RetripDecision ---------------------------
(***************************************************************************)
(* What the Re-Trip flow promises about a request, without its handlers,   *)
(* locks, clocks or stops: a raised request is decided exactly once, and   *)
(* an approval alone opens a continuation trip, one that no other request  *)
(* was given.                                                              *)
(***************************************************************************)
CONSTANTS Requests, Continuations, NoContinuation

VARIABLES
    decision,   \* TripRetripRequest.status, "none" before the row exists
    successor   \* TripRetripRequest.new_assignment_id

vars == <<decision, successor>>

Verdicts == {"Approved", "Rejected", "Expired"}

Init ==
    /\ decision = [r \in Requests |-> "none"]
    /\ successor = [r \in Requests |-> NoContinuation]

Fresh(n) == \A r \in Requests : successor[r] # n

Raise(r) ==
    /\ decision[r] = "none"
    /\ decision' = [decision EXCEPT ![r] = "Pending"]
    /\ UNCHANGED successor

\* A driver's request is approved from Pending; the web's proceed-next-trip
\* raises and approves a request in one transaction.
Approve(r, n) ==
    /\ decision[r] \in {"none", "Pending"}
    /\ Fresh(n)
    /\ decision' = [decision EXCEPT ![r] = "Approved"]
    /\ successor' = [successor EXCEPT ![r] = n]

Decline(r, verdict) ==
    /\ decision[r] = "Pending"
    /\ decision' = [decision EXCEPT ![r] = verdict]
    /\ UNCHANGED successor

Decide(r) ==
    \/ \E n \in Continuations : Approve(r, n)
    \/ Decline(r, "Rejected")
    \/ Decline(r, "Expired")

Next == \E r \in Requests : Raise(r) \/ Decide(r)

SafeSpec == Init /\ [][Next]_vars

\* The supervisor may never look, but the timeout sweep does
Spec == SafeSpec /\ \A r \in Requests : WF_vars(decision[r] = "Pending" /\ Decide(r))
=============================================================================
