--------------------------- MODULE BackgroundJobs ---------------------------
(***************************************************************************)
(* One bulk upload or Excel export (background_jobs): the request that     *)
(* creates the job, queues it and waits for it, the broker's message, the  *)
(* Celery workers, and run_job, which any of these processes may be        *)
(* executing.  Jobs share nothing but the workers' time.                   *)
(*                                                                         *)
(* The broker delivers a message again when it was not acknowledged: after *)
(* the worker it was with was killed as a whole, or when a task takes      *)
(* longer than the visibility timeout.  A pool process that is killed alone*)
(* has its message acknowledged by the worker's main process, as           *)
(* task_reject_on_worker_lost is not set.  There is never more than one    *)
(* copy, so "message" says where it is: nowhere, in the queue, or with a   *)
(* worker.                                                                 *)
(***************************************************************************)
EXTENDS Integers

CONSTANTS
    Workers,        \* Celery pool processes, the ones that run tasks
    Request,        \* the web process that serves the request
    Pickup, Wait    \* JOB_PICKUP_SECONDS and JOB_WAIT_SECONDS, in ticks

ASSUME JobConstants ==
    /\ Request \notin Workers
    /\ {"none", "queue"} \cap Workers = {}
    /\ Pickup \in Nat /\ Wait \in Nat /\ Pickup <= Wait

Processes == Workers \cup {Request}

\* FAILED with "The job was interrupted" is kept apart as INTERRUPTED
FinishedStatuses == {"COMPLETED", "FAILED", "INTERRUPTED"}
Statuses == {"QUEUED", "PROCESSING"} \cup FinishedStatuses

JobSteps == {"claim", "interrupt", "work"}
WorkerSteps == JobSteps \cup {"idle", "ack", "raised"}
RequestSteps ==
    JobSteps \cup {"start", "enqueue", "begin", "wait", "answer", "answered", "dead"}

NotWaiting == -1

VARIABLES
    status,     \* of the BackgroundJob row, "none" before it exists
    message,    \* "none", "queue" or the worker that has not acknowledged it
    step,       \* where each process stands
    pickup,     \* pickup_seconds of wait_for_job
    elapsed,    \* time since wait_for_job started
    answer,     \* job status the request answered with, "error" for a 500
    runs,       \* replays of the upload or export started
    lost        \* history: a killed pool process took its message with it

vars == <<status, message, step, pickup, elapsed, answer, runs, lost>>

Promise == INSTANCE JobPromise WITH job <- status, told <- answer

Init ==
    /\ status = "none" /\ message = "none"
    /\ step = [p \in Processes |-> IF p = Request THEN "start" ELSE "idle"]
    /\ pickup = 0 /\ elapsed = NotWaiting
    /\ answer = "none"
    /\ runs = 0
    /\ lost = FALSE

Go(p, s) == step' = [step EXCEPT ![p] = s]

Tick ==
    /\ elapsed \in 0..(Wait - 1)
    /\ elapsed' = elapsed + 1
    /\ UNCHANGED <<status, message, step, pickup, answer, runs, lost>>

-----------------------------------------------------------------------------
(* The request *)

StartJob ==
    /\ step[Request] = "start"
    /\ status' = "QUEUED"
    /\ Go(Request, "enqueue")
    /\ UNCHANGED <<message, pickup, elapsed, answer, runs, lost>>

\* With no worker running, as far as the cached ping tells, nothing is queued.
\* When the broker fails, which does not tell whether it has the message, the
\* task runs inline
Enqueue ==
    /\ step[Request] = "enqueue"
    /\ \/ Go(Request, "begin") /\ message' \in {"none", "queue"}
       \/ Go(Request, "claim") /\ message' \in {"none", "queue"}
    /\ UNCHANGED <<status, pickup, elapsed, answer, runs, lost>>

BeginWait ==
    /\ step[Request] = "begin"
    /\ pickup' \in {0, Pickup}
    /\ elapsed' = 0
    /\ Go(Request, "wait")
    /\ UNCHANGED <<status, message, answer, runs, lost>>

Respond(a) ==
    /\ answer' = a
    /\ Go(Request, "answered")
    /\ UNCHANGED <<status, message, pickup, elapsed, runs, lost>>

\* Mutants: the request looks at JOB_WAIT_SECONDS first, or not at all
PickUpUnlessLate == status = "QUEUED" /\ elapsed >= pickup /\ elapsed < Wait
NeverOut == FALSE

PickUp == status = "QUEUED" /\ elapsed >= pickup
TimeOut == elapsed >= Wait

\* One turn of wait_for_job's loop
Poll ==
    /\ step[Request] = "wait"
    /\ \/ status \in FinishedStatuses /\ Respond(status)
       \/ PickUp /\ Go(Request, "claim")
          /\ UNCHANGED <<status, message, pickup, elapsed, answer, runs, lost>>
       \/ /\ status \notin FinishedStatuses /\ ~PickUp
          /\ TimeOut
          /\ Respond(status)

\* After running the job itself it returns the row whatever it says
AnswerAfterRun == step[Request] = "answer" /\ Respond(status)

-----------------------------------------------------------------------------
(* run_job, in a worker or in the request *)

\* Mutant: the inline run of start_job is taken for the one of wait_for_job
ReturnedFromWait(p) == IF p # Request THEN "ack" ELSE "answer"

\* Where run_job returns to: Celery, or the request, which ran it inline from
\* start_job or from wait_for_job
Returned(p) ==
    IF p # Request THEN "ack" ELSE IF elapsed = NotWaiting THEN "begin" ELSE "answer"

\* Mutants: a claim that two processes can win; an interruption of any job; an
\* interrupted job that is left alone
ClaimableAgain == status \in {"QUEUED", "INTERRUPTED"}
InterruptAny == "INTERRUPTED"
InterruptNone == status

Claimable == status = "QUEUED"
AfterInterrupt == IF status = "PROCESSING" THEN "INTERRUPTED" ELSE status

\* The UPDATE ... WHERE status = queued
Claim(p) ==
    /\ step[p] = "claim"
    /\ \/ /\ Claimable
          /\ status' = "PROCESSING"
          /\ runs' = runs + 1
          /\ Go(p, "work")
       \/ ~Claimable /\ Go(p, "interrupt") /\ UNCHANGED <<status, runs>>
    /\ UNCHANGED <<message, pickup, elapsed, answer, lost>>

\* No row claimed: the second UPDATE fails the job if it is being processed
Interrupt(p) ==
    /\ step[p] = "interrupt"
    /\ status' = AfterInterrupt
    /\ Go(p, Returned(p))
    /\ UNCHANGED <<message, pickup, elapsed, answer, runs, lost>>

\* The replay ended, well or with an error, and the row is saved
Finish(p) ==
    /\ step[p] = "work"
    /\ status' \in {"COMPLETED", "FAILED"}
    /\ Go(p, Returned(p))
    /\ UNCHANGED <<message, pickup, elapsed, answer, runs, lost>>

\* A statement of run_job outside its try fails: Celery acknowledges a task
\* that raised, an inline task's exception is kept, wait_for_job's is a 500
Raise(p) ==
    /\ step[p] \in JobSteps
    /\ IF p = Request /\ elapsed # NotWaiting
       THEN Go(p, "answered") /\ answer' = "error"
       ELSE Go(p, IF p = Request THEN "begin" ELSE "raised") /\ UNCHANGED answer
    /\ UNCHANGED <<status, message, pickup, elapsed, runs, lost>>

-----------------------------------------------------------------------------
(* Celery and crashes *)

Receive(w) ==
    /\ message = "queue" /\ step[w] = "idle"
    /\ message' = w
    /\ Go(w, "claim")
    /\ UNCHANGED <<status, pickup, elapsed, answer, runs, lost>>

\* acks_late: after the task; the message may have been restored meanwhile
Ack(w) ==
    /\ step[w] \in {"ack", "raised"}
    /\ message' = IF message = w THEN "none" ELSE message
    /\ Go(w, "idle")
    /\ UNCHANGED <<status, pickup, elapsed, answer, runs, lost>>

Ended == step[Request] \in {"answered", "dead"}

\* The visibility timeout, an hour, outlasts every request (gunicorn --timeout)
Restore ==
    /\ message \in Workers
    /\ step[message] = "idle" \/ Ended
    /\ message' = "queue"
    /\ UNCHANGED <<status, step, pickup, elapsed, answer, runs, lost>>

\* Killed and started again: with its whole worker, which leaves the message to
\* be restored, or alone, and the worker acknowledges what it was at
WorkerDies(w) ==
    /\ step[w] # "idle"
    /\ Go(w, "idle")
    /\ \/ UNCHANGED <<message, lost>>
       \/ message = w /\ message' = "none" /\ lost' = TRUE
    /\ UNCHANGED <<status, pickup, elapsed, answer, runs>>

\* gunicorn kills a request that takes too long
RequestDies ==
    /\ ~Ended
    /\ Go(Request, "dead")
    /\ UNCHANGED <<status, message, pickup, elapsed, answer, runs, lost>>

-----------------------------------------------------------------------------
RequestStep ==
    StartJob \/ Enqueue \/ BeginWait \/ Poll \/ AnswerAfterRun
    \/ Claim(Request) \/ Interrupt(Request) \/ Finish(Request)

Next ==
    \/ Tick
    \/ StartJob \/ Enqueue \/ BeginWait \/ Poll \/ AnswerAfterRun
    \/ \E p \in Processes : Claim(p) \/ Interrupt(p) \/ Finish(p) \/ Raise(p)
    \/ \E w \in Workers : Receive(w) \/ Ack(w) \/ WorkerDies(w)
    \/ Restore
    \/ RequestDies

\* A request is served and its clock runs; some worker, sooner or later, lives
\* through each step of a task; the broker restores what was not acknowledged
Fairness ==
    /\ WF_vars(Tick) /\ WF_vars(RequestStep) /\ WF_vars(Restore)
    /\ SF_vars(\E w \in Workers : Receive(w))
    /\ SF_vars(\E w \in Workers : Claim(w))
    /\ SF_vars(\E w \in Workers : Interrupt(w))
    /\ SF_vars(\E w \in Workers : Finish(w))

Spec == Init /\ [][Next]_vars /\ Fairness

-----------------------------------------------------------------------------
(* Properties *)

\* The row, the message and the processes have their types; a process is only
\* where its code can be, and the clock of wait_for_job runs only inside it
TypeOK ==
    /\ status \in Statuses \cup {"none"}
    /\ message \in {"none", "queue"} \cup Workers
    /\ step \in [Processes -> WorkerSteps \cup RequestSteps]
    /\ step[Request] \in RequestSteps /\ \A w \in Workers : step[w] \in WorkerSteps
    /\ step[Request] \in {"start", "enqueue", "begin"} => elapsed = NotWaiting
    /\ step[Request] \in {"wait", "answer"} => elapsed # NotWaiting
    /\ pickup \in {0, Pickup}
    /\ elapsed \in {NotWaiting} \cup 0..Wait
    /\ answer \in Statuses \cup {"none", "error"}
    /\ runs \in Nat
    /\ lost \in BOOLEAN

\* "Re-running could import rows twice": however the request, its inline
\* fallbacks, the workers and redeliveries meet, the replay starts once.
RunsOnce == runs <= 1

\* "Upload received. It is still being processed.": the request never leaves
\* behind a job that nobody has started, as it then runs the job itself.
NeverAnswersQueued == answer # "QUEUED"

\* Through every fallback, redelivery and death the job is what its user is
\* promised: one run, one outcome, one answer, and a COMPLETED or FAILED that was
\* answered stays what the row says.
KeepsPromise == Promise!Spec

\* A job whose message the broker has is finished in the end, by a worker, by
\* the request or as interrupted, however often whole workers and the request
\* die.  Only two things leave it PROCESSING: a task that raises takes its
\* message with it, and so does a pool process killed alone (run_job's second
\* UPDATE never comes).
QueuedJobFinishes ==
    message # "none" ~>
        status \in FinishedStatuses \/ lost \/ \E w \in Workers : step[w] = "raised"

\* The request ends: with an answer, or with its process.
RequestEnds == step[Request] = "wait" ~> Ended

=============================================================================
