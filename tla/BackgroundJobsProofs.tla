------------------------ MODULE BackgroundJobsProofs ------------------------
(***************************************************************************)
(* Theorems about BackgroundJobs: a job's replay starts at most once, the  *)
(* request never leaves an unclaimed job behind, and the request, run_job  *)
(* and Celery together implement JobPromise.                               *)
(***************************************************************************)
EXTENDS BackgroundJobs, TLAPS

Unclaimed == status \in {"none", "QUEUED"}
Busy(p) == step[p] = "work"

\* Nobody is in run_job before the row exists
JobExists ==
    status = "none" =>
        /\ message = "none"
        /\ step[Request] \in {"start", "dead"}
        /\ \A w \in Workers : step[w] = "idle"

StartIsFirst == step[Request] = "start" => status = "none"

\* Whoever got past the claim was preceded by one that won it
PastClaim ==
    \A p \in Processes : step[p] \in {"interrupt", "work", "answer"} => ~Unclaimed

\* The winner is alone, and saves a job that has no outcome of its own yet
OneWinner ==
    /\ \A p, q \in Processes : Busy(p) /\ Busy(q) => p = q
    /\ \A p \in Processes : Busy(p) => status \in {"PROCESSING", "INTERRUPTED"}

RunsCounted == runs <= 1 /\ (Unclaimed => runs = 0)

IInv ==
    /\ TypeOK
    /\ JobExists
    /\ StartIsFirst
    /\ PastClaim
    /\ OneWinner
    /\ RunsCounted
    /\ NeverAnswersQueued

LEMMA ProcessFacts ==
  /\ Request \in Processes
  /\ \A w \in Workers : w \in Processes /\ w # Request /\ w \notin {"none", "queue"}
  /\ Processes = Workers \cup {Request}
BY JobConstants DEF Processes

LEMMA InitInv == Init => IInv
<1> SUFFICES ASSUME Init PROVE IInv
  OBVIOUS
<1>1. TypeOK
  BY ProcessFacts, JobConstants
  DEF Init, TypeOK, Statuses, FinishedStatuses, WorkerSteps, RequestSteps, JobSteps, NotWaiting
<1>2. \A p \in Processes : step[p] \in {"start", "idle"}
  BY DEF Init
<1>3. JobExists /\ StartIsFirst
  BY ProcessFacts DEF Init, JobExists, StartIsFirst
<1>4. PastClaim /\ OneWinner
  BY <1>2 DEF PastClaim, OneWinner, Busy
<1>5. RunsCounted /\ NeverAnswersQueued
  BY DEF Init, RunsCounted, NeverAnswersQueued
<1> QED
  BY <1>1, <1>3, <1>4, <1>5 DEF IInv

\* What the steps of a process do to the types
LEMMA StepTypes ==
  ASSUME TypeOK, NEW p \in Processes, NEW s,
         p = Request => s \in RequestSteps, p # Request => s \in WorkerSteps, Go(p, s)
  PROVE  /\ step' \in [Processes -> WorkerSteps \cup RequestSteps]
         /\ step'[Request] \in RequestSteps /\ \A w \in Workers : step'[w] \in WorkerSteps
         /\ step'[p] = s
         /\ \A q \in Processes : q # p => step'[q] = step[q]
BY ProcessFacts DEF TypeOK, Go

\* The request on its way to its answer, short of run_job
LEMMA RequestInv ==
  ASSUME IInv, StartJob \/ Enqueue \/ BeginWait \/ Poll \/ AnswerAfterRun \/ RequestDies
  PROVE  IInv'
<1> USE ProcessFacts DEF IInv
<1>1. CASE StartJob
  <2>1. Go(Request, "enqueue") /\ "enqueue" \in RequestSteps
    BY <1>1 DEF StartJob, RequestSteps
  <2>2. TypeOK'
    BY <1>1, <2>1, StepTypes DEF StartJob, TypeOK, Statuses
  <2>3. (JobExists /\ StartIsFirst /\ PastClaim /\ OneWinner /\ RunsCounted /\ NeverAnswersQueued)'
    <3>1. status = "none" /\ status' = "QUEUED"
      BY <1>1 DEF StartJob, StartIsFirst
    <3>2. \A q \in Processes : step'[q] \notin JobSteps \cup {"answer", "start"}
      BY <3>1, <2>1, StepTypes DEF JobExists, JobSteps
    <3> QED
      BY <1>1, <3>1, <3>2
      DEF StartJob, JobExists, StartIsFirst, PastClaim, OneWinner, RunsCounted,
          NeverAnswersQueued, Busy, Unclaimed, JobSteps
  <2> QED
    BY <2>2, <2>3
<1>2. CASE Enqueue
  <2>1. PICK s \in {"begin", "claim"} : Go(Request, s) /\ message' \in {"none", "queue"}
    BY <1>2 DEF Enqueue
  <2>2. status # "none"
    BY <1>2 DEF Enqueue, JobExists
  <2>3. TypeOK'
    BY <1>2, <2>1, StepTypes DEF Enqueue, TypeOK, RequestSteps, JobSteps
  <2> QED
    BY <1>2, <2>1, <2>2, <2>3, StepTypes
    DEF Enqueue, JobExists, StartIsFirst, PastClaim, OneWinner, RunsCounted,
        NeverAnswersQueued, Busy, Unclaimed, RequestSteps, JobSteps
<1>3. CASE BeginWait
  <2>1. Go(Request, "wait") /\ status # "none" /\ "wait" \in RequestSteps
    BY <1>3 DEF BeginWait, JobExists, RequestSteps
  <2>2. TypeOK'
    BY <1>3, <2>1, StepTypes, JobConstants DEF BeginWait, TypeOK, NotWaiting
  <2> QED
    BY <1>3, <2>1, <2>2, StepTypes
    DEF BeginWait, JobExists, StartIsFirst, PastClaim, OneWinner, RunsCounted,
        NeverAnswersQueued, Busy, Unclaimed
<1>4. ASSUME step[Request] \in {"wait", "answer"}, NEW a, Respond(a), a = status, a # "QUEUED"
      PROVE  IInv'
  <2>1. Go(Request, "answered") /\ status # "none" /\ "answered" \in RequestSteps
    BY <1>4 DEF Respond, JobExists, RequestSteps
  <2>2. TypeOK'
    BY <1>4, <2>1, StepTypes DEF Respond, TypeOK
  <2> QED
    BY <1>4, <2>1, <2>2, StepTypes
    DEF Respond, JobExists, StartIsFirst, PastClaim, OneWinner, RunsCounted,
        NeverAnswersQueued, Busy, Unclaimed
<1>5. CASE Poll
  <2>1. CASE status \in FinishedStatuses /\ Respond(status)
    BY <1>4, <1>5, <2>1 DEF Poll, FinishedStatuses
  <2>2. CASE Go(Request, "claim") /\ UNCHANGED <<status, message, pickup, elapsed, answer, runs, lost>>
    <3>1. status # "none" /\ "claim" \in RequestSteps
      BY <1>5 DEF Poll, JobExists, RequestSteps, JobSteps
    <3>2. TypeOK'
      BY <2>2, <3>1, StepTypes DEF TypeOK
    <3> QED
      BY <2>2, <3>1, <3>2, StepTypes
      DEF JobExists, StartIsFirst, PastClaim, OneWinner, RunsCounted,
          NeverAnswersQueued, Busy, Unclaimed
  <2>3. CASE ~PickUp /\ TimeOut /\ Respond(status)
    <3>1. elapsed >= pickup
      BY <1>5, <2>3, JobConstants DEF Poll, TimeOut, TypeOK, NotWaiting
    <3> QED
      BY <1>4, <1>5, <2>3, <3>1 DEF Poll, PickUp
  <2> QED
    BY <1>5, <2>1, <2>2, <2>3 DEF Poll
<1>6. CASE AnswerAfterRun
  BY <1>4, <1>6 DEF AnswerAfterRun, PastClaim, Unclaimed
<1>7. CASE RequestDies
  <2>1. Go(Request, "dead") /\ "dead" \in RequestSteps
    BY <1>7 DEF RequestDies, RequestSteps
  <2>2. TypeOK'
    BY <1>7, <2>1, StepTypes DEF RequestDies, TypeOK
  <2> QED
    BY <1>7, <2>1, <2>2, StepTypes
    DEF RequestDies, JobExists, StartIsFirst, PastClaim, OneWinner, RunsCounted,
        NeverAnswersQueued, Busy, Unclaimed
<1> QED
  BY <1>1, <1>2, <1>3, <1>5, <1>6, <1>7

\* Where run_job returns to is a place of its process
LEMMA ReturnedTypes ==
  ASSUME TypeOK, NEW p \in Processes
  PROVE  /\ p = Request => Returned(p) \in {"begin", "answer"}
         /\ p # Request => Returned(p) = "ack"
         /\ p = Request /\ Returned(p) = "begin" => elapsed = NotWaiting
         /\ p = Request /\ Returned(p) = "answer" => elapsed # NotWaiting
         /\ p = Request => Returned(p) \in RequestSteps
         /\ p # Request => Returned(p) \in WorkerSteps
BY DEF Returned, RequestSteps, WorkerSteps

\* run_job, whoever executes it
LEMMA RunJobInv ==
  ASSUME IInv, NEW p \in Processes, Claim(p) \/ Interrupt(p) \/ Finish(p) \/ Raise(p)
  PROVE  IInv'
<1> USE ProcessFacts DEF IInv
<1>0. status # "none"
  <2>1. step[p] \in JobSteps
    BY DEF Claim, Interrupt, Finish, Raise, JobSteps
  <2> QED
    BY <2>1 DEF JobExists, JobSteps
<1>1. CASE Claim(p) /\ Claimable
  <2>1. Go(p, "work") /\ status = "QUEUED" /\ status' = "PROCESSING" /\ runs' = runs + 1
        /\ "work" \in RequestSteps /\ "work" \in WorkerSteps
    BY <1>1 DEF Claim, Claimable, RequestSteps, WorkerSteps, JobSteps
  <2>2. TypeOK'
    BY <1>1, <2>1, StepTypes DEF Claim, TypeOK, Statuses
  <2>3. \A q \in Processes : ~Busy(q)
    BY <2>1 DEF PastClaim, Busy, Unclaimed
  <2>4. OneWinner' /\ RunsCounted'
    BY <2>1, <2>3, StepTypes DEF OneWinner, RunsCounted, Busy, Unclaimed, TypeOK
  <2>5. (JobExists /\ StartIsFirst /\ PastClaim /\ NeverAnswersQueued)'
    BY <1>0, <1>1, <2>1, StepTypes
    DEF Claim, JobExists, StartIsFirst, PastClaim, NeverAnswersQueued, Unclaimed
  <2> QED
    BY <2>2, <2>4, <2>5
<1>2. CASE Claim(p) /\ ~Claimable
  <2>1. Go(p, "interrupt") /\ UNCHANGED <<status, runs, message, pickup, elapsed, answer, lost>>
        /\ ~Unclaimed /\ "interrupt" \in RequestSteps /\ "interrupt" \in WorkerSteps
    BY <1>0, <1>2 DEF Claim, Claimable, Unclaimed, RequestSteps, WorkerSteps, JobSteps
  <2>2. TypeOK'
    BY <2>1, StepTypes DEF TypeOK
  <2> QED
    BY <1>0, <2>1, <2>2, StepTypes
    DEF JobExists, StartIsFirst, PastClaim, OneWinner, RunsCounted, NeverAnswersQueued,
        Busy, Unclaimed
<1>3. CASE Interrupt(p)
  <2>1. Go(p, Returned(p)) /\ UNCHANGED <<runs, message, pickup, elapsed, answer, lost>> /\ ~Unclaimed
    BY <1>3 DEF Interrupt, PastClaim
  <2>2. status' = status \/ (status = "PROCESSING" /\ status' = "INTERRUPTED")
    BY <1>3 DEF Interrupt, AfterInterrupt
  <2>3. TypeOK'
    BY <2>1, <2>2, StepTypes, ReturnedTypes DEF TypeOK, Statuses, FinishedStatuses
  <2> QED
    BY <1>0, <2>1, <2>2, <2>3, StepTypes, ReturnedTypes
    DEF JobExists, StartIsFirst, PastClaim, OneWinner, RunsCounted, NeverAnswersQueued,
        Busy, Unclaimed
<1>4. CASE Finish(p)
  <2>1. Go(p, Returned(p)) /\ UNCHANGED <<runs, message, pickup, elapsed, answer, lost>> /\ ~Unclaimed
        /\ status' \in {"COMPLETED", "FAILED"} /\ Busy(p)
    BY <1>4 DEF Finish, PastClaim, Busy
  <2>2. TypeOK'
    BY <2>1, StepTypes, ReturnedTypes DEF TypeOK, Statuses, FinishedStatuses
  <2>3. \A q \in Processes : ~Busy(q)'
    BY <2>1, StepTypes, ReturnedTypes DEF OneWinner, Busy
  <2> QED
    BY <1>0, <2>1, <2>2, <2>3, StepTypes, ReturnedTypes
    DEF JobExists, StartIsFirst, PastClaim, OneWinner, RunsCounted, NeverAnswersQueued, Unclaimed
<1>5. CASE Raise(p)
  <2>1. PICK s \in {"answered", "begin", "raised"} :
          /\ Go(p, s)
          /\ p = Request => s \in {"answered", "begin"}
          /\ p # Request => s = "raised"
          /\ s = "begin" => elapsed = NotWaiting
          /\ answer' \in {answer, "error"}
    BY <1>5 DEF Raise
  <2>2. UNCHANGED <<status, runs, message, pickup, elapsed, lost>>
    BY <1>5 DEF Raise
  <2>3. (p = Request => s \in RequestSteps) /\ (p # Request => s \in WorkerSteps)
    BY <2>1 DEF RequestSteps, WorkerSteps
  <2>4. TypeOK'
    BY <2>1, <2>2, <2>3, StepTypes DEF TypeOK
  <2> QED
    BY <1>0, <2>1, <2>2, <2>3, <2>4, StepTypes
    DEF JobExists, StartIsFirst, PastClaim, OneWinner, RunsCounted, NeverAnswersQueued,
        Busy, Unclaimed
<1> QED
  BY <1>1, <1>2, <1>3, <1>4, <1>5

\* Celery: delivery, acknowledgement, redelivery, a dying worker
LEMMA CeleryInv ==
  ASSUME IInv, Restore \/ \E w \in Workers : Receive(w) \/ Ack(w) \/ WorkerDies(w)
  PROVE  IInv'
<1> USE ProcessFacts DEF IInv
<1>1. CASE Restore
  <2>1. TypeOK'
    BY <1>1 DEF Restore, TypeOK
  <2> QED
    BY <1>1, <2>1
    DEF Restore, JobExists, StartIsFirst, PastClaim, OneWinner, RunsCounted,
        NeverAnswersQueued, Busy, Unclaimed
<1>2. ASSUME NEW w \in Workers, Receive(w) \/ Ack(w) \/ WorkerDies(w)
      PROVE  IInv'
  <2>1. PICK s \in {"claim", "idle"} : Go(w, s) /\ (s = "claim" => message = "queue")
    BY <1>2 DEF Receive, Ack, WorkerDies
  <2>2. UNCHANGED <<status, pickup, elapsed, answer, runs>> /\ message' \in {"none", message, w}
        /\ (message = "none" => message' = "none") /\ lost' \in {lost, TRUE}
    BY <1>2 DEF Receive, Ack, WorkerDies
  <2>3. s \in WorkerSteps
    BY <2>1 DEF WorkerSteps, JobSteps
  <2>4. TypeOK'
    BY <2>1, <2>2, <2>3, StepTypes DEF TypeOK
  <2> QED
    BY <2>1, <2>2, <2>3, <2>4, StepTypes
    DEF JobExists, StartIsFirst, PastClaim, OneWinner, RunsCounted, NeverAnswersQueued,
        Busy, Unclaimed
<1> QED
  BY <1>1, <1>2

LEMMA TickInv == IInv /\ Tick => IInv'
<1> SUFFICES ASSUME IInv, Tick PROVE IInv'
  OBVIOUS
<1>1. TypeOK'
  BY JobConstants DEF IInv, Tick, TypeOK, NotWaiting
<1> QED
  BY <1>1
  DEF IInv, Tick, JobExists, StartIsFirst, PastClaim, OneWinner, RunsCounted,
      NeverAnswersQueued, Busy, Unclaimed

LEMMA StutterInv == IInv /\ UNCHANGED vars => IInv'
BY DEF vars, IInv, TypeOK, JobExists, StartIsFirst, PastClaim, OneWinner, RunsCounted,
       NeverAnswersQueued, Busy, Unclaimed

LEMMA NextInv == IInv /\ [Next]_vars => IInv'
BY RequestInv, RunJobInv, CeleryInv, TickInv, StutterInv DEF Next

LEMMA Invariance == Spec => []IInv
BY InitInv, NextInv, PTL DEF Spec

(***************************************************************************)
(* The row, the message and every process keep their types: a process is   *)
(* only where the code of wait_for_job, run_job or Celery can be.          *)
(***************************************************************************)
THEOREM JobTypes == Spec => []TypeOK
<1>1. IInv => TypeOK
  BY DEF IInv
<1> QED
  BY <1>1, Invariance, PTL

(***************************************************************************)
(* "A worker that starts later cannot run it a second time" (wait_for_job):*)
(* however many workers there are and however often they die, the replay   *)
(* of a job starts at most once.                                           *)
(***************************************************************************)
THEOREM AtMostOneRun == Spec => []RunsOnce
<1>1. IInv => RunsOnce
  BY DEF IInv, RunsCounted, RunsOnce
<1> QED
  BY <1>1, Invariance, PTL

(***************************************************************************)
(* The request that answers 202 leaves a job that somebody claimed.        *)
(***************************************************************************)
THEOREM AnswersClaimedJob == Spec => []NeverAnswersQueued
<1>1. IInv => NeverAnswersQueued
  BY DEF IInv
<1> QED
  BY <1>1, Invariance, PTL

-----------------------------------------------------------------------------
(* The promise to the user: BackgroundJobs implements JobPromise.          *)

\* The request answers last of all it does
AnswersLast == answer # "none" => Ended

LEMMA AnswerStep == ASSUME IInv, AnswersLast, [Next]_vars PROVE AnswersLast'
<1> USE ProcessFacts DEF AnswersLast
<1>1. ASSUME NEW p \in Processes, NEW s, Go(p, s),
             \/ UNCHANGED answer /\ (p = Request => ~Ended)
             \/ p = Request /\ s = "answered"
      PROVE  AnswersLast'
  BY <1>1 DEF Go, Ended, IInv, TypeOK
<1>2. UNCHANGED <<answer, step>> => AnswersLast'
  BY DEF Ended
<1>3. CASE StartJob
  BY <1>1, <1>3 DEF StartJob, Ended
<1>4. CASE Enqueue
  BY <1>1, <1>4 DEF Enqueue, Ended
<1>5. CASE BeginWait
  BY <1>1, <1>5 DEF BeginWait, Ended
<1>6. CASE Poll
  BY <1>1, <1>6 DEF Poll, Respond, Ended
<1>7. CASE AnswerAfterRun
  BY <1>1, <1>7 DEF AnswerAfterRun, Respond
<1>8. ASSUME NEW p \in Processes, Claim(p) PROVE AnswersLast'
  BY <1>1, <1>8 DEF Claim, Ended
<1>9. ASSUME NEW p \in Processes, Interrupt(p) PROVE AnswersLast'
  BY <1>1, <1>9 DEF Interrupt, Ended
<1>10. ASSUME NEW p \in Processes, Finish(p) PROVE AnswersLast'
  BY <1>1, <1>10 DEF Finish, Ended
<1>11. ASSUME NEW p \in Processes, Raise(p) PROVE AnswersLast'
  BY <1>1, <1>11 DEF Raise, Ended, JobSteps
<1>12. ASSUME NEW w \in Workers, Receive(w) \/ Ack(w) \/ WorkerDies(w) PROVE AnswersLast'
  BY <1>1, <1>12 DEF Receive, Ack, WorkerDies
<1>13. CASE RequestDies
  BY <1>1, <1>13 DEF RequestDies
<1>14. CASE Tick \/ Restore \/ UNCHANGED vars
  BY <1>2, <1>14 DEF Tick, Restore, vars
<1> QED
  BY <1>3, <1>4, <1>5, <1>6, <1>7, <1>8, <1>9, <1>10, <1>11, <1>12, <1>13, <1>14 DEF Next

\* What a step of the request, run_job or Celery is to the user
LEMMA PromiseStep ==
  ASSUME IInv, IInv', AnswersLast, [Next]_vars
  PROVE  [Promise!Next]_Promise!vars
<1> USE ProcessFacts
<1>1. UNCHANGED <<status, runs, answer>> => UNCHANGED Promise!vars
  BY DEF Promise!vars
<1>2. ASSUME NEW a, Respond(a), a = status, step[Request] \in {"wait", "answer"} PROVE Promise!Tell
  <2>1. answer = "none" /\ status # "none"
    BY <1>2 DEF AnswersLast, Ended, IInv, JobExists
  <2>2. status # "QUEUED"
    BY <1>2 DEF Respond, IInv, NeverAnswersQueued
  <2> QED
    BY <1>2, <2>1, <2>2 DEF Respond, Promise!Tell
<1>3. CASE StartJob
  BY <1>3 DEF StartJob, IInv, StartIsFirst, Promise!Next, Promise!Create
<1>4. CASE Poll
  BY <1>1, <1>2, <1>4 DEF Poll, Promise!Next
<1>5. CASE AnswerAfterRun
  BY <1>2, <1>5 DEF AnswerAfterRun, Promise!Next
<1>6. ASSUME NEW p \in Processes, Claim(p) PROVE [Promise!Next]_Promise!vars
  BY <1>1, <1>6 DEF Claim, Claimable, Promise!Next, Promise!Run
<1>7. ASSUME NEW p \in Processes, Interrupt(p) PROVE [Promise!Next]_Promise!vars
  BY <1>1, <1>7 DEF Interrupt, AfterInterrupt, Promise!Next, Promise!CallOff
<1>8. ASSUME NEW p \in Processes, Finish(p) PROVE Promise!Next
  <2>1. status \in {"PROCESSING", "INTERRUPTED"}
    BY <1>8 DEF Finish, IInv, OneWinner, Busy
  <2> QED
    BY <1>8, <2>1 DEF Finish, Promise!Next, Promise!End, Promise!Outcomes
<1>9. ASSUME NEW p \in Processes, Raise(p) PROVE [Promise!Next]_Promise!vars
  <2>1. CASE UNCHANGED answer
    BY <1>1, <1>9, <2>1 DEF Raise
  <2>2. CASE p = Request /\ answer' = "error"
    <3>1. step[Request] \in JobSteps
      BY <1>9, <2>2 DEF Raise
    <3>2. answer = "none" /\ status # "none"
      BY <3>1 DEF AnswersLast, Ended, IInv, JobExists, JobSteps
    <3> QED
      BY <1>9, <2>2, <3>2 DEF Raise, Promise!Next, Promise!Tell
  <2> QED
    BY <1>9, <2>1, <2>2 DEF Raise
<1>10. CASE Tick \/ Enqueue \/ BeginWait \/ Restore \/ RequestDies \/ UNCHANGED vars
            \/ \E w \in Workers : Receive(w) \/ Ack(w) \/ WorkerDies(w)
  BY <1>1, <1>10
  DEF Tick, Enqueue, BeginWait, Restore, RequestDies, Receive, Ack, WorkerDies, vars
<1> QED
  BY <1>3, <1>4, <1>5, <1>6, <1>7, <1>8, <1>9, <1>10 DEF Next

LEMMA AnswerInvariance == Spec => [](IInv /\ AnswersLast)
<1>1. Init => AnswersLast
  BY DEF Init, AnswersLast
<1>2. IInv /\ AnswersLast /\ [Next]_vars => (IInv /\ AnswersLast)'
  BY NextInv, AnswerStep
<1> QED
  BY <1>1, <1>2, InitInv, PTL DEF Spec

(***************************************************************************)
(* For any number of workers and both time-outs: through inline fallbacks, *)
(* redeliveries and deaths (start_job, wait_for_job, run_job) a job is run *)
(* once, ends once and is answered once.                                   *)
(***************************************************************************)
THEOREM PromiseKept == Spec => KeepsPromise
<1>1. Init => Promise!Init
  BY DEF Init, Promise!Init
<1>2. IInv /\ AnswersLast /\ [Next]_vars => [Promise!Next]_Promise!vars
  BY NextInv, PromiseStep
<1> QED
  BY <1>1, <1>2, AnswerInvariance, PTL DEF Spec, KeepsPromise, Promise!Spec

(***************************************************************************)
(* A COMPLETED or FAILED that the user read is what the row says for ever: *)
(* only "The job was interrupted" may be followed by another outcome       *)
(* (run_job's second UPDATE against its final save).                       *)
(***************************************************************************)
THEOREM ToldOutcomeStands == Spec => []Promise!ToldStands
<1>1. Promise!Init => Promise!ToldStands
  BY DEF Promise!Init, Promise!ToldStands, Promise!Outcomes
<1>2. Promise!ToldStands /\ [Promise!Next]_Promise!vars => Promise!ToldStands'
  BY DEF Promise!ToldStands, Promise!Next, Promise!vars, Promise!Create, Promise!Run,
         Promise!CallOff, Promise!End, Promise!Tell, Promise!Outcomes
<1>3. KeepsPromise => []Promise!ToldStands
  BY <1>1, <1>2, PTL DEF KeepsPromise, Promise!Spec
<1> QED
  BY <1>3, PromiseKept

\* What has ended stays ended, and with what the run itself saved
OutcomeStands ==
    [][/\ status \in {"COMPLETED", "FAILED"} => status' = status
       /\ status \in FinishedStatuses => status' \in FinishedStatuses]_vars

(***************************************************************************)
(* COMPLETED and FAILED are final, and a finished job is never queued or   *)
(* processed again, redeliveries included.                                 *)
(***************************************************************************)
THEOREM OutcomeIsFinal == Spec => OutcomeStands
<1> DEFINE Stands == /\ status \in {"COMPLETED", "FAILED"} => status' = status
                     /\ status \in FinishedStatuses => status' \in FinishedStatuses
<1>1. [Promise!Next]_Promise!vars => Stands
  BY DEF Promise!Next, Promise!vars, Promise!Create, Promise!Run, Promise!CallOff, Promise!End,
         Promise!Tell, Promise!Outcomes, FinishedStatuses
<1>2. IInv /\ AnswersLast /\ [Next]_vars => [Stands]_vars
  BY <1>1, NextInv, PromiseStep
<1> QED
  BY <1>2, AnswerInvariance, PTL DEF Spec, OutcomeStands

=============================================================================
