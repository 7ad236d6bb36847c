------------------------------- MODULE Retrip -------------------------------
(***************************************************************************)
(* Re-Trip: a driver ends a trip that still has stops by raising a request *)
(* (trip_lifecycle_viewset), a supervisor approves or rejects it           *)
(* (trip_retrip_viewset), the timeout sweep reminds, escalates and expires *)
(* it (retrip_timeout_service), and the web closes a trip in one step      *)
(* (proceed-next-trip).  Approval ends the source trip and opens a         *)
(* continuation that carries the selected pending stops (retrip_service).  *)
(*                                                                         *)
(* A handler reads rows, then acts on what it read: the steps of one       *)
(* handler are separate actions wherever another transaction can commit in *)
(* between.  A transaction that holds the request's row lock is a reviewer *)
(* in "carry"; until it commits or rolls back nobody else passes the lock. *)
(***************************************************************************)
EXTENDS TripState

CONSTANTS
    Crew,           \* sessions of the driver app on the plan's trips
    Reviewers,      \* supervisor sessions
    Workers,        \* Celery workers that run the timeout sweep
    MaxRequests,    \* bound: requests that may ever be raised
    Reminder,       \* reminder_minutes()
    Escalation,     \* escalation_minutes()
    Timeout         \* timeout_minutes()

\* reminder_minutes and escalation_minutes are capped by timeout_minutes, and
\* every one of them is at least 1
ASSUME RetripConstants ==
    /\ MaxRequests \in Nat \ {0}
    /\ {Reminder, Escalation, Timeout} \subseteq Nat \ {0}
    /\ Reminder <= Timeout
    /\ Escalation <= Timeout

Requests == 1..MaxRequests      \* in the order of created_at
NoRequest == 0

VARIABLES
    reqStatus,      \* TripRetripRequest.status, "none" before the row exists
    assignment,     \* assignment_id
    newAssignment,  \* new_assignment_id
    age,            \* minutes since created_at, no further than Timeout
    reminded,       \* reminder_sent_at is set
    escalated,      \* escalated_at is set
    sent,           \* how often each notification of a request was sent
    crew,           \* start and end handlers between their read and their write
    review,         \* approve, reject and proceed handlers
    sweep           \* ages the rest of a worker's run still works with

reqVars == <<reqStatus, assignment, newAssignment, age, reminded, escalated, sent>>
handlerVars == <<crew, review, sweep>>
vars == <<tripVars, reqVars, handlerVars>>

ReqStatus == {"none", "Pending", "Approved", "Rejected", "Expired"}
Decided == {"Approved", "Rejected", "Expired"}
Notices == {"reminder", "escalation", "expiry"}
NotListed == Timeout + 1    \* the sweep has no work on the row

CrewOff == [op |-> "idle", trip |-> NoTrip, seen |-> "absent", begun |-> FALSE, req |-> NoRequest]
CrewSteps == [op : {"idle", "start", "check", "end"}, trip : Trips \cup {NoTrip},
              seen : TripStatus, begun : BOOLEAN, req : Requests \cup {NoRequest}]

ReviewOff == [op |-> "idle", req |-> NoRequest, trip |-> NoTrip, ended |-> FALSE, begun |-> FALSE,
              kept |-> {}]
ReviewSteps == [op : {"idle", "carry"},
                req : Requests \cup {NoRequest}, trip : Trips \cup {NoTrip},
                ended : BOOLEAN, begun : BOOLEAN, kept : SUBSET Stops]

TypeOK ==
    /\ TripTypeOK
    /\ reqStatus \in [Requests -> ReqStatus]
    /\ assignment \in [Requests -> Trips \cup {NoTrip}]
    /\ newAssignment \in [Requests -> Trips \cup {NoTrip}]
    /\ age \in [Requests -> 0..Timeout]
    /\ reminded \in [Requests -> BOOLEAN]
    /\ escalated \in [Requests -> BOOLEAN]
    /\ sent \in [Requests -> [Notices -> Nat]]
    /\ crew \in [Crew -> CrewSteps]
    /\ review \in [Reviewers -> ReviewSteps]
    /\ sweep \in [Workers -> [Requests -> 0..NotListed]]

Init ==
    /\ TripInit
    /\ reqStatus = [r \in Requests |-> "none"]
    /\ assignment = [r \in Requests |-> NoTrip]
    /\ newAssignment = [r \in Requests |-> NoTrip]
    /\ age = [r \in Requests |-> 0]
    /\ reminded = [r \in Requests |-> FALSE]
    /\ escalated = [r \in Requests |-> FALSE]
    /\ sent = [r \in Requests |-> [n \in Notices |-> 0]]
    /\ crew = [c \in Crew |-> CrewOff]
    /\ review = [v \in Reviewers |-> ReviewOff]
    /\ sweep = [w \in Workers |-> [r \in Requests |-> NotListed]]

-----------------------------------------------------------------------------
(* Requests.                                                               *)

\* Mutants: the decision window compared with >, or with the wrong setting
DueLate(r) == age[r] > Timeout
DueAtReminder(r) == age[r] >= Reminder

Due(r) == age[r] >= Timeout
\* Mutant: select_for_update left out
NeverLocked(r) == FALSE

Locked(r) == \E v \in Reviewers : review[v].op = "carry" /\ review[v].req = r

\* The row that is created next: rows are numbered in creation order
NextRequest(r) == \A q \in Requests : reqStatus[q] = "none" <=> q >= r
\* Mutant: the plan's open continuation is taken instead of a new row
NextOrOpenTrip(n) ==
    \/ \A t \in Trips : status[t] = "absent" <=> t >= n
    \/ n # 1 /\ status[n] = "Scheduled"

NextTrip(n) == \A t \in Trips : status[t] = "absent" <=> t >= n

\* retrip_requests.filter(status=Pending).first(), newest first
NewestPending(t, r) ==
    /\ reqStatus[r] = "Pending" /\ assignment[r] = t
    /\ \A q \in Requests : reqStatus[q] = "Pending" /\ assignment[q] = t => q <= r

Notify(r, notice) == sent' = [sent EXCEPT ![r][notice] = @ + 1]

\* _expire_locked, once it holds the row lock and found the row due
Expire(r) ==
    /\ reqStatus' = [reqStatus EXCEPT ![r] = "Expired"]
    /\ Notify(r, "expiry")
    /\ UNCHANGED <<assignment, newAssignment, age, reminded, escalated>>

\* request_retrip
CreateRequest(r, t) ==
    /\ NextRequest(r)
    /\ reqStatus' = [reqStatus EXCEPT ![r] = "Pending"]
    /\ assignment' = [assignment EXCEPT ![r] = t]
    /\ UNCHANGED <<newAssignment, age, reminded, escalated, sent>>

\* A minute passes for every undecided request
Tick ==
    /\ \E r \in Requests : reqStatus[r] = "Pending" /\ ~Due(r)
    /\ age' = [r \in Requests |->
                 IF reqStatus[r] = "Pending" /\ ~Due(r) THEN age[r] + 1 ELSE age[r]]
    /\ UNCHANGED <<tripVars, reqStatus, assignment, newAssignment, reminded, escalated, sent,
                   handlerVars>>

-----------------------------------------------------------------------------
(* Approval: close the source trip and open its continuation.              *)

\* Mutant: every pending stop is marked carried, ticked or not
CarryAll(src, n, kept) ==
    /\ stop' = [stop EXCEPT ![n] = [s \in Stops |-> IF s \in kept THEN "Pending" ELSE "none"]]
    /\ carriedTo' = [carriedTo EXCEPT
                       ![src] = [s \in Stops |-> IF s \in PendingStops(src) THEN n ELSE @[s]]]

\* Continuation n of src gets one Pending row per kept stop and no other row:
\* the plan's stops are cloned, the missing ones added, the others pruned.
OpenContinuation(src, n, kept) ==
    /\ stop' = [stop EXCEPT ![n] = [s \in Stops |-> IF s \in kept THEN "Pending" ELSE "none"]]
    /\ carriedTo' = [carriedTo EXCEPT
                       ![src] = [s \in Stops |-> IF s \in kept THEN n ELSE @[s]]]

\* The writes of approve_retrip end by re-saving the source's log.  clean refuses
\* a Verified log, a Submitted one without weight, and any log of a Cancelled
\* trip, which rolls everything back; a Submitted log ends the trip once more.
LogSaves(src, now) ==
    \/ log[src] = "None"
    \/ log[src] = "Draft" /\ now # "Cancelled"
    \/ log[src] = "Submitted" /\ now # "Cancelled" /\ weighed[src]

SourceAfter(src, ended) ==
    IF log[src] = "Submitted" THEN "Completed" ELSE StatusAfterEnd(src, ended)

StartAfter(src, ended, begun) ==
    \/ StartedAfterEnd(src, ended, begun)
    \/ log[src] = "Submitted" /\ StatusAfterEnd(src, ended) # "Completed"

CloseInto(src, ended, begun, n, kept) ==
    /\ NextTrip(n)
    /\ LogSaves(src, StatusAfterEnd(src, ended))
    /\ status' = [status EXCEPT ![src] = SourceAfter(src, ended), ![n] = "Scheduled"]
    /\ started' = [started EXCEPT ![src] = StartAfter(src, ended, begun)]
    /\ OpenContinuation(src, n, kept)
    /\ UNCHANGED <<weighed, log, admin, unstamped>>

-----------------------------------------------------------------------------
(* The driver app: start and end of the crew's own trip.                   *)

\* what an end call keeps of the row: whether it had its start stamp
Ending(op, t, begun, r) == [op |-> op, trip |-> t, seen |-> "absent", begun |-> begun, req |-> r]

\* Start answers 409 for a Completed or Cancelled trip
StartRead(c, t) ==
    /\ crew[c].op = "idle" /\ status[t] \in OpenStatus
    /\ crew' = [crew EXCEPT ![c] = [op |-> "start", trip |-> t, seen |-> status[t], begun |-> started[t],
                                        req |-> NoRequest]]
    /\ UNCHANGED <<tripVars, reqVars, review, sweep>>

StartWrite(c) ==
    /\ crew[c].op = "start"
    /\ MarkStarted(crew[c].trip, crew[c].seen, crew[c].begun)
    /\ crew' = [crew EXCEPT ![c] = CrewOff]
    /\ UNCHANGED <<stopVars, admin, unstamped, reqVars, review, sweep>>

\* End answers 409 for a closed trip, then looks for a pending request
EndRead(c, t) ==
    /\ crew[c].op = "idle" /\ status[t] \in OpenStatus
    /\ \/ \E r \in Requests : /\ NewestPending(t, r)
                             /\ crew' = [crew EXCEPT ![c] = Ending("check", t, started[t], r)]
       \/ /\ \A r \in Requests : ~NewestPending(t, r)
          /\ crew' = [crew EXCEPT ![c] = Ending("end", t, started[t], NoRequest)]
    /\ UNCHANGED <<tripVars, reqVars, review, sweep>>

\* The request found is expired here when it is due.  One that is still pending
\* answers 409 (RETRIP_PENDING, CrewGiveUp); a decided one blocks no longer.
EndCheck(c, r) ==
    /\ crew[c].op = "check" /\ crew[c].req = r /\ ~Locked(r)
    /\ \/ reqStatus[r] = "Pending" /\ Due(r) /\ Expire(r)
       \/ reqStatus[r] # "Pending" /\ UNCHANGED reqVars
    /\ crew' = [crew EXCEPT ![c] = Ending("end", crew[c].trip, crew[c].begun, NoRequest)]
    /\ UNCHANGED <<tripVars, review, sweep>>

\* Nothing is left: close the trip here and now
EndClean(c) ==
    /\ crew[c].op = "end" /\ PendingStops(crew[c].trip) = {}
    /\ MarkEnded(crew[c].trip, FALSE, crew[c].begun)
    /\ crew' = [crew EXCEPT ![c] = CrewOff]
    /\ UNCHANGED <<stopVars, admin, unstamped, reqVars, review, sweep>>

\* Stops are left and the driver gives a reason: raise a request
EndRequest(c, r) ==
    /\ crew[c].op = "end" /\ PendingStops(crew[c].trip) # {}
    /\ CreateRequest(r, crew[c].trip)
    /\ crew' = [crew EXCEPT ![c] = CrewOff]
    /\ UNCHANGED <<tripVars, review, sweep>>

\* No reason (REASON_REQUIRED), RETRIP_PENDING, or the session dies before its write
CrewGiveUp(c) ==
    /\ crew[c].op # "idle"
    /\ crew' = [crew EXCEPT ![c] = CrewOff]
    /\ UNCHANGED <<tripVars, reqVars, review, sweep>>

-----------------------------------------------------------------------------
(* Supervisors.  approve_retrip and reject_retrip decide under the request's *)
(* row lock; on a request somebody decided first they change nothing        *)
(* (RetripRequestUnavailable).                                             *)

\* Approve or reject after the decision window: the request is expired instead
DecideTooLate(r) ==
    /\ reqStatus[r] = "Pending" /\ ~Locked(r) /\ Due(r)
    /\ Expire(r)
    /\ UNCHANGED <<tripVars, handlerVars>>

Reject(r) ==
    /\ reqStatus[r] = "Pending" /\ ~Locked(r) /\ ~Due(r)
    /\ reqStatus' = [reqStatus EXCEPT ![r] = "Rejected"]
    /\ UNCHANGED <<tripVars, assignment, newAssignment, age, reminded, escalated, sent, handlerVars>>

\* The trip and its live stops are read first; kept are the ticked ones
Carry(r, src, kept) == [op |-> "carry", req |-> r, trip |-> src,
                        ended |-> status[src] = "Completed",
                        begun |-> src \in {t \in Trips : started[t]}, kept |-> kept]

\* No pending stop, or a ticked one that is not pending: ValueError, no change
ApproveRead(v, r, kept) ==
    /\ review[v].op = "idle"
    /\ reqStatus[r] = "Pending" /\ ~Locked(r) /\ ~Due(r)
    /\ kept # {} /\ kept \subseteq PendingStops(assignment[r])
    /\ review' = [review EXCEPT ![v] = Carry(r, assignment[r], kept)]
    /\ UNCHANGED <<tripVars, reqVars, crew, sweep>>

ApproveCommit(v, n) ==
    LET r == review[v].req IN
    /\ review[v].op = "carry" /\ r # NoRequest
    /\ CloseInto(review[v].trip, review[v].ended, review[v].begun, n, review[v].kept)
    /\ reqStatus' = [reqStatus EXCEPT ![r] = "Approved"]
    /\ newAssignment' = [newAssignment EXCEPT ![r] = n]
    /\ review' = [review EXCEPT ![v] = ReviewOff]
    /\ UNCHANGED <<assignment, age, reminded, escalated, sent, crew, sweep>>

\* The transaction rolls back: the log could not be saved, or the process dies
ReviewAborts(v) ==
    /\ review[v].op = "carry"
    /\ review' = [review EXCEPT ![v] = ReviewOff]
    /\ UNCHANGED <<tripVars, reqVars, crew, sweep>>

-----------------------------------------------------------------------------
(* POST proceed-next-trip/: request and approval in one transaction, which *)
(* looks at no other request of the trip.  Its own request is visible to   *)
(* nobody before the commit.                                               *)

ProceedRead(v, t, kept) ==
    /\ review[v].op = "idle" /\ status[t] \in OpenStatus
    /\ kept # {} /\ kept \subseteq PendingStops(t)
    /\ review' = [review EXCEPT ![v] = Carry(NoRequest, t, kept)]
    /\ UNCHANGED <<tripVars, reqVars, crew, sweep>>

ProceedCommit(v, r, n) ==
    LET src == review[v].trip IN
    /\ review[v].op = "carry" /\ review[v].req = NoRequest
    /\ NextRequest(r)
    /\ CloseInto(src, review[v].ended, review[v].begun, n, review[v].kept)
    /\ reqStatus' = [reqStatus EXCEPT ![r] = "Approved"]
    /\ assignment' = [assignment EXCEPT ![r] = src]
    /\ newAssignment' = [newAssignment EXCEPT ![r] = n]
    /\ review' = [review EXCEPT ![v] = ReviewOff]
    /\ UNCHANGED <<age, reminded, escalated, sent, crew, sweep>>

-----------------------------------------------------------------------------
(* process_retrip_timeouts: every minute a worker lists the pending rows   *)
(* with one value of now, then handles them one transaction at a time.     *)
(* Rows too young for any notice are left out: the run does nothing there. *)

\* Mutant: the query keeps only rows whose window is still open
SweepableInWindow(r) == reqStatus[r] = "Pending" /\ ~Due(r)
Sweepable(r) == reqStatus[r] = "Pending" /\ (age[r] >= Reminder \/ age[r] >= Escalation)

SweepStart(w) ==
    /\ \A r \in Requests : sweep[w][r] = NotListed
    /\ \E r \in Requests : Sweepable(r)
    /\ sweep' = [sweep EXCEPT ![w] =
                   [r \in Requests |-> IF Sweepable(r) THEN age[r] ELSE NotListed]]
    /\ UNCHANGED <<tripVars, reqVars, crew, review>>

RowDone(w, r) == sweep' = [sweep EXCEPT ![w][r] = NotListed]

CanSweep(w, r) == sweep[w][r] # NotListed /\ ~Locked(r)

SweepExpire(w, r) ==
    /\ CanSweep(w, r) /\ reqStatus[r] = "Pending" /\ sweep[w][r] >= Timeout
    /\ Expire(r)
    /\ RowDone(w, r)
    /\ UNCHANGED <<tripVars, crew, review>>

\* Mutant: the reminder is not stamped
EscalateOnly(w, r) ==
    /\ CanSweep(w, r) /\ reqStatus[r] = "Pending" /\ sweep[w][r] < Timeout
    /\ sweep[w][r] >= Escalation /\ ~escalated[r]
    /\ escalated' = [escalated EXCEPT ![r] = TRUE]
    /\ Notify(r, "escalation")
    /\ RowDone(w, r)
    /\ UNCHANGED <<tripVars, reqStatus, assignment, newAssignment, age, reminded, crew, review>>

\* Escalating stamps the reminder too, so no reminder follows an escalation
SweepEscalate(w, r) ==
    /\ CanSweep(w, r) /\ reqStatus[r] = "Pending" /\ sweep[w][r] < Timeout
    /\ sweep[w][r] >= Escalation /\ ~escalated[r]
    /\ escalated' = [escalated EXCEPT ![r] = TRUE]
    /\ reminded' = [reminded EXCEPT ![r] = TRUE]
    /\ Notify(r, "escalation")
    /\ RowDone(w, r)
    /\ UNCHANGED <<tripVars, reqStatus, assignment, newAssignment, age, crew, review>>

SweepRemind(w, r) ==
    /\ CanSweep(w, r) /\ reqStatus[r] = "Pending" /\ sweep[w][r] < Timeout
    /\ ~(sweep[w][r] >= Escalation /\ ~escalated[r])
    /\ sweep[w][r] >= Reminder /\ ~reminded[r]
    /\ reminded' = [reminded EXCEPT ![r] = TRUE]
    /\ Notify(r, "reminder")
    /\ RowDone(w, r)
    /\ UNCHANGED <<tripVars, reqStatus, assignment, newAssignment, age, escalated, crew, review>>

\* Decided meanwhile, or nothing is due for the row yet
SweepSkip(w, r) ==
    /\ CanSweep(w, r)
    /\ \/ reqStatus[r] # "Pending"
       \/ /\ sweep[w][r] < Timeout
          /\ ~(sweep[w][r] >= Escalation /\ ~escalated[r])
          /\ ~(sweep[w][r] >= Reminder /\ ~reminded[r])
    /\ RowDone(w, r)
    /\ UNCHANGED <<tripVars, reqVars, crew, review>>

\* The worker is killed between two rows; the next beat starts over
SweepCrash(w) ==
    /\ \E r \in Requests : sweep[w][r] # NotListed
    /\ sweep' = [sweep EXCEPT ![w] = [r \in Requests |-> NotListed]]
    /\ UNCHANGED <<tripVars, reqVars, crew, review>>

-----------------------------------------------------------------------------
TripStep ==
    /\ \/ \E a \in Admins, plan \in SUBSET Stops : AdminStep(a, plan)
       \/ \E t \in Trips, new \in LogStatus \ {"None"} : ChangeLogStatus(t, new)
       \/ \E t \in Trips, s \in Stops, outcome \in {"Collected", "Skipped", "Missed"}, weight \in BOOLEAN :
            Scan(t, s, outcome, weight)
    /\ UNCHANGED <<reqVars, handlerVars>>

CrewStep(c) ==
    \/ \E t \in Trips : StartRead(c, t) \/ EndRead(c, t)
    \/ StartWrite(c) \/ EndClean(c) \/ CrewGiveUp(c)
    \/ \E r \in Requests : EndCheck(c, r) \/ EndRequest(c, r)

DecideStep == \E r \in Requests : DecideTooLate(r) \/ Reject(r)

ReviewStep(v) ==
    \/ \E kept \in SUBSET Stops :
         \/ \E r \in Requests : ApproveRead(v, r, kept)
         \/ \E t \in Trips : ProceedRead(v, t, kept)
    \/ \E n \in Trips :
         \/ ApproveCommit(v, n)
         \/ \E r \in Requests : ProceedCommit(v, r, n)
    \/ ReviewAborts(v)

SweepRow(w, r) ==
    SweepExpire(w, r) \/ SweepEscalate(w, r) \/ SweepRemind(w, r) \/ SweepSkip(w, r)

SweepStep(w) ==
    SweepStart(w) \/ SweepCrash(w) \/ \E r \in Requests : SweepRow(w, r)

Next ==
    \/ TripStep
    \/ Tick
    \/ \E c \in Crew : CrewStep(c)
    \/ DecideStep
    \/ \E v \in Reviewers : ReviewStep(v)
    \/ \E w \in Workers : SweepStep(w)

Spec == Init /\ [][Next]_vars

\* Minutes pass; beat keeps starting sweeps, and a worker is not killed every
\* time it comes to a row; a transaction that holds a row lock ends.
Fairness ==
    /\ WF_vars(Tick)
    /\ \A w \in Workers :
         /\ WF_vars(SweepStart(w))
         /\ \A r \in Requests : SF_vars(SweepRow(w, r))
    /\ \A v \in Reviewers : WF_vars(ReviewAborts(v))

FairSpec == Spec /\ Fairness

-----------------------------------------------------------------------------
(* What the flow guarantees.                                               *)

\* The row lock of approve_retrip works: while one approval writes, its request
\* stays Pending on the same trip, and no second approval of it is under way.
CarrierHoldsRequest ==
    \A v \in Reviewers : review[v].op = "carry" /\ review[v].req # NoRequest =>
        /\ reqStatus[review[v].req] = "Pending"
        /\ assignment[review[v].req] = review[v].trip
        /\ \A u \in Reviewers :
             review[u].op = "carry" /\ review[u].req = review[v].req => u = v

\* An approval and a continuation belong to each other: an Approved request has
\* one later trip, every trip but the generated one was opened by one request.
ApprovalOwnsContinuation ==
    /\ \A r \in Requests :
         /\ reqStatus[r] = "Approved" <=> newAssignment[r] # NoTrip
         /\ newAssignment[r] # NoTrip => /\ assignment[r] \in Trips
                                         /\ newAssignment[r] > assignment[r]
                                         /\ status[newAssignment[r]] # "absent"
    /\ \A q, r \in Requests : newAssignment[q] = newAssignment[r] /\ q # r =>
         newAssignment[r] = NoTrip
    /\ \A n \in Trips \ {1} : status[n] # "absent" =>
         \E r \in Requests : newAssignment[r] = n

\* "Assigned to Next Trip" never points into the void: a carried stop has its row
\* on the continuation, and an approved request of its trip leads there.
CarriedStopsArrive ==
    \A t \in Trips, s \in Stops : carriedTo[t][s] # NoTrip =>
        /\ stop[carriedTo[t][s]][s] # "none"
        /\ \E r \in Requests : assignment[r] = t /\ newAssignment[r] = carriedTo[t][s]

\* Overlapping sweeps, an end call and a late decision never notify twice
\* (retrip_timeout_service: "overlapping runs never notify twice"), and no
\* reminder is owed once a request has been escalated.
OneNoticeEach ==
    \A r \in Requests :
        /\ sent[r]["expiry"] = IF reqStatus[r] = "Expired" THEN 1 ELSE 0
        /\ sent[r]["escalation"] = IF escalated[r] THEN 1 ELSE 0
        /\ sent[r]["reminder"] = 1 \/ (sent[r]["reminder"] = 0 /\ (reminded[r] => escalated[r]))
        /\ escalated[r] \/ sent[r]["reminder"] = 1 => reminded[r]

\* A sweep decides on the minute it started, others on theirs: still nothing
\* is sent or expired before the request is that old.
NoticesInWindow ==
    \A r \in Requests :
        /\ reqStatus[r] = "Expired" => age[r] = Timeout
        /\ escalated[r] => age[r] >= Escalation
        /\ sent[r]["reminder"] > 0 => age[r] >= Reminder

\* mark_ended backfills the start, so whichever of driver, scanner, admin or
\* approval closes a trip, on however old a copy, a Completed trip has its start,
\* unless a screen's save of the whole row took it or set the status by hand.
CompletedHasStart ==
    \A t \in Trips : status[t] = "Completed" => started[t] \/ unstamped[t]

\* The handlers implement the decision a request is promised
Decision == INSTANCE RetripDecision WITH
    Continuations <- Trips \ {1}, NoContinuation <- NoTrip,
    decision <- reqStatus, successor <- newAssignment

\* Each request is decided once and for all, and only an approval opens a trip,
\* never the one another request was given: no step of any handler does else.
DecidesOnce == Decision!SafeSpec

\* Under FairSpec every request is also decided: a supervisor who never looks
\* leaves it to the sweep (or to the driver's next end) to expire it
DecidesEventually == Decision!Spec

=============================================================================
