----------------------------- MODULE JobPromise -----------------------------
(***************************************************************************)
(* What a bulk upload or an export promises its user, without the broker,  *)
(* the workers or the clock: it is run once, it ends once, and the one     *)
(* answer the user gets is how the job stood, or an error.                 *)
(***************************************************************************)
EXTENDS Naturals

VARIABLES
    job,    \* status of the job, "none" before it is created
    runs,   \* how often its upload or export was started
    told    \* what the user was answered, "none" before the answer

vars == <<job, runs, told>>

Outcomes == {"COMPLETED", "FAILED"}

Init == job = "none" /\ runs = 0 /\ told = "none"

Create == job = "none" /\ job' = "QUEUED" /\ UNCHANGED <<runs, told>>

Run ==
    /\ job = "QUEUED"
    /\ job' = "PROCESSING"
    /\ runs' = runs + 1
    /\ UNCHANGED told

\* A redelivered message calls off a job that is being run
CallOff == job = "PROCESSING" /\ job' = "INTERRUPTED" /\ UNCHANGED <<runs, told>>

\* The run ends, even one that was called off while it was alive
End ==
    /\ job \in {"PROCESSING", "INTERRUPTED"}
    /\ job' \in Outcomes
    /\ UNCHANGED <<runs, told>>

Tell ==
    /\ told = "none"
    /\ \/ job \notin {"none", "QUEUED"} /\ told' = job
       \/ job # "none" /\ told' = "error"
    /\ UNCHANGED <<job, runs>>

Next == Create \/ Run \/ CallOff \/ End \/ Tell

Spec == Init /\ [][Next]_vars

\* The outcome a user was told is the outcome of the job from then on
ToldStands == told \in Outcomes => job = told

=============================================================================
