---------------------------- MODULE RetripProofs ----------------------------
(***************************************************************************)
(* Theorems about Retrip, for any number of trips, stops, requests,        *)
(* sessions and workers, and any decision windows.                         *)
(***************************************************************************)
EXTENDS Retrip, TLAPS

-----------------------------------------------------------------------------
(* Types.                                                                  *)

\* The admin screen's copies are of the row's own columns
LEMMA AdminStepType ==
  ASSUME TripTypeOK, NEW a \in Admins, NEW plan, AdminStep(a, plan)
  PROVE  TripTypeOK'
<1> DEFINE Copies == admin' \in [Admins -> AdminSteps \cup {AdminOff}]
<1> USE DEF TripTypeOK, stopVars
<1>1. admin[a].op # "idle" => admin[a] \in AdminSteps
  BY DEF AdminOff
<1>2. \A op \in AdminOps, t \in Trips : Loading(op, t) \in AdminSteps
  BY DEF Loading, AdminSteps
<1>3. ASSUME NEW t \in Trips, LoadStatus(a, t) \/ LoadForm(a, t) PROVE TripTypeOK'
  BY <1>2, <1>3 DEF LoadStatus, LoadForm, AdminOps
<1>4. CASE ReloadForm(a)
  <2>1. admin[a].trip \in Trips
    BY <1>1, <1>4 DEF ReloadForm, AdminSteps
  <2> QED
    BY <1>2, <1>4, <2>1 DEF ReloadForm, AdminOps
<1>5. CASE AdminStart(a)
  BY <1>5 DEF AdminStart, MarkStarted, Done, TripStatus
<1>6. CASE AdminComplete(a)
  BY <1>6 DEF AdminComplete, MarkEnded, Done, StatusAfterEnd, StartedAfterEnd, TripStatus
<1>7. ASSUME NEW t, NEW new \in TripStatus, NEW begun \in BOOLEAN, SaveRow(t, new, begun), Copies,
             UNCHANGED stopVars
      PROVE  TripTypeOK'
  BY <1>7 DEF SaveRow
<1>8. /\ admin[a].op # "idle" => admin[a].begun \in BOOLEAN /\ admin[a].seen \in TripStatus
      /\ "Cancelled" \in TripStatus
  BY <1>1 DEF AdminSteps, TripStatus
<1>9. Done(a) => Copies
  BY DEF Done
<1>10. ASSUME NEW op \in AdminOps, admin[a].op # "idle", admin' = [admin EXCEPT ![a].op = op]
       PROVE  Copies
  <2>1. [admin[a] EXCEPT !.op = op] \in AdminSteps
    BY <1>1, <1>10 DEF AdminSteps
  <2> QED
    BY <1>10, <2>1
<1>11. CASE AdminCancel(a)
  BY <1>7, <1>8, <1>9, <1>11 DEF AdminCancel
<1>12. CASE AdminEdit(a)
  <2>1. PICK new \in TripStatus : SaveRow(admin[a].trip, new, admin[a].begun)
    BY <1>8, <1>12 DEF AdminEdit
  <2>2. admin[a].begun \in BOOLEAN /\ UNCHANGED stopVars /\ Copies
    BY <1>8, <1>10, <1>12 DEF AdminEdit, AdminOps
  <2> QED
    BY <1>7, <2>1, <2>2
<1>13. CASE CheckForm(a)
  <2>1. Copies
    BY <1>10, <1>13 DEF CheckForm, AdminOps
  <2> QED
    BY <1>13, <2>1 DEF CheckForm
<1>14. CASE FormStops(a, plan)
  <2>1. Copies
    BY <1>9, <1>14 DEF FormStops
  <2>2. PICK form \in [Stops -> StopStatus \ {"none"}] :
          stop' = [stop EXCEPT ![admin[a].trip] =
                     [s \in Stops |-> IF stop[admin[a].trip][s] # "none" THEN form[s]
                                      ELSE IF s \in plan THEN "Pending" ELSE "none"]]
    BY <1>14 DEF FormStops
  <2>3. stop' \in [Trips -> [Stops -> StopStatus]]
    BY <2>2 DEF StopStatus
  <2> QED
    BY <1>14, <2>1, <2>3 DEF FormStops
<1>15. CASE AdminGiveUp(a)
  BY <1>9, <1>15 DEF AdminGiveUp
<1> QED
  BY <1>3, <1>4, <1>5, <1>6, <1>11, <1>12, <1>13, <1>14, <1>15 DEF AdminStep

\* The trip variables keep their types in every step of a screen or a scan
LEMMA TripStepType == TypeOK /\ TripStep => TypeOK'
<1> SUFFICES ASSUME TypeOK, TripStep PROVE TypeOK'
  OBVIOUS
<1> USE DEF TypeOK, TripTypeOK, reqVars, handlerVars
<1>1. ASSUME NEW a \in Admins, NEW plan, AdminStep(a, plan) PROVE TypeOK'
  BY <1>1, AdminStepType DEF TripStep
<1>4. ASSUME NEW t \in Trips, NEW new \in LogStatus \ {"None"}, ChangeLogStatus(t, new) PROVE TypeOK'
  BY <1>4 DEF TripStep, ChangeLogStatus
<1>5. ASSUME NEW t \in Trips, NEW s \in Stops, NEW outcome \in {"Collected", "Skipped", "Missed"},
             NEW weight \in BOOLEAN, Scan(t, s, outcome, weight)
      PROVE  TypeOK'
  <2>1. stop' \in [Trips -> [Stops -> StopStatus]]
    BY <1>5 DEF Scan, Resolve, StopStatus
  <2>2. weighed' \in [Trips -> BOOLEAN]
    BY <1>5 DEF Scan, Resolve
  <2>3. log' \in [Trips -> LogStatus]
    BY <1>5 DEF Scan, Resolve, LogStatus
  <2>4. status' \in [Trips -> TripStatus] /\ started' \in [Trips -> BOOLEAN]
    BY <1>5 DEF Scan, Resolve, MarkEnded, StatusAfterEnd, StartedAfterEnd, TripStatus
  <2> QED
    BY <1>5, <2>1, <2>2, <2>3, <2>4 DEF TripStep, Scan, Resolve
<1> QED
  BY <1>1, <1>4, <1>5 DEF TripStep

\* Expiring a request, wherever it happens, keeps the request's types
LEMMA ExpireType ==
  ASSUME TypeOK, NEW r \in Requests, Expire(r)
  PROVE  /\ reqStatus' \in [Requests -> ReqStatus]
         /\ sent' \in [Requests -> [Notices -> Nat]]
         /\ UNCHANGED <<assignment, newAssignment, age, reminded, escalated>>
BY DEF TypeOK, Expire, Notify, ReqStatus, Notices

\* So do the trips that a crew's start or end closes or opens
LEMMA CrewStepType ==
  ASSUME TypeOK, NEW c \in Crew, CrewStep(c)
  PROVE  TypeOK'
<1> USE DEF TypeOK, TripTypeOK, tripVars, stopVars, reqVars
<1>0. CrewOff \in CrewSteps
  BY DEF CrewOff, CrewSteps, TripStatus
<1>1. ASSUME NEW t \in Trips, StartRead(c, t) PROVE TypeOK'
  BY <1>1 DEF StartRead, CrewSteps
<1>2. ASSUME NEW t \in Trips, EndRead(c, t) PROVE TypeOK'
  <2>1. \A r \in Requests \cup {NoRequest} : /\ Ending("check", t, started[t], r) \in CrewSteps
                                            /\ Ending("end", t, started[t], r) \in CrewSteps
    BY DEF Ending, CrewSteps, TripStatus
  <2>2. ASSUME NEW step \in CrewSteps, crew' = [crew EXCEPT ![c] = step] PROVE TypeOK'
    BY <1>2, <2>2 DEF EndRead
  <2> QED
    BY <1>2, <2>1, <2>2 DEF EndRead
<1>3. CASE StartWrite(c)
  BY <1>0, <1>3 DEF StartWrite, MarkStarted, TripStatus, CrewSteps
<1>4. ASSUME NEW r \in Requests, EndCheck(c, r) PROVE TypeOK'
  <2>1. Ending("end", crew[c].trip, crew[c].begun, NoRequest) \in CrewSteps
    BY DEF Ending, CrewSteps, TripStatus
  <2>2. CASE Expire(r)
    BY <1>4, <2>1, <2>2, ExpireType DEF EndCheck
  <2> QED
    BY <1>4, <2>1, <2>2 DEF EndCheck
<1>5. CASE EndClean(c)
  BY <1>0, <1>5 DEF EndClean, MarkEnded, StatusAfterEnd, StartedAfterEnd, TripStatus
<1>6. ASSUME NEW r \in Requests, EndRequest(c, r) PROVE TypeOK'
  BY <1>0, <1>6 DEF EndRequest, CreateRequest, ReqStatus, CrewSteps
<1>7. CASE CrewGiveUp(c)
  BY <1>0, <1>7 DEF CrewGiveUp
<1> QED
  BY <1>1, <1>2, <1>3, <1>4, <1>5, <1>6, <1>7 DEF CrewStep

\* Supervisors' decisions
LEMMA DecideStepType == TypeOK /\ DecideStep => TypeOK'
<1> SUFFICES ASSUME TypeOK, NEW r \in Requests, DecideTooLate(r) \/ Reject(r) PROVE TypeOK'
  BY DEF DecideStep
<1>1. CASE DecideTooLate(r)
  BY <1>1, ExpireType DEF DecideTooLate, TypeOK, TripTypeOK, tripVars, stopVars, handlerVars
<1>2. CASE Reject(r)
  BY <1>2 DEF Reject, TypeOK, TripTypeOK, tripVars, stopVars, handlerVars, ReqStatus
<1> QED
  BY <1>1, <1>2

\* The writes of an approval: two trips, the source's pointers, the new stops
LEMMA CloseIntoType ==
  ASSUME TypeOK, NEW src \in Trips \cup {NoTrip}, NEW ended \in BOOLEAN,
         NEW begun \in BOOLEAN, NEW n \in Trips, NEW kept \in SUBSET Stops,
         CloseInto(src, ended, begun, n, kept)
  PROVE  TripTypeOK'
<1>1. status' \in [Trips -> TripStatus]
  <2>1. src \in Trips => SourceAfter(src, ended) \in TripStatus
    BY DEF SourceAfter, StatusAfterEnd, TypeOK, TripTypeOK, TripStatus
  <2>2. src \notin Trips => status' = [status EXCEPT ![n] = "Scheduled"]
    BY DEF CloseInto, TypeOK, TripTypeOK
  <2> QED
    BY <2>1, <2>2 DEF CloseInto, TypeOK, TripTypeOK, TripStatus
<1>2. started' \in [Trips -> BOOLEAN]
  BY DEF CloseInto, StartAfter, StartedAfterEnd, TypeOK, TripTypeOK
<1>3. stop' \in [Trips -> [Stops -> StopStatus]]
  <2> DEFINE row == [s \in Stops |-> IF s \in kept THEN "Pending" ELSE "none"]
  <2>1. row \in [Stops -> StopStatus]
    BY DEF StopStatus
  <2>2. stop \in [Trips -> [Stops -> StopStatus]]
    BY DEF TypeOK, TripTypeOK
  <2>3. stop' = [stop EXCEPT ![n] = row]
    BY DEF CloseInto, OpenContinuation
  <2> HIDE DEF row
  <2> QED
    BY <2>1, <2>2, <2>3
<1>4. carriedTo' \in [Trips -> [Stops -> Trips \cup {NoTrip}]]
  <2>1. carriedTo \in [Trips -> [Stops -> Trips \cup {NoTrip}]]
    BY DEF TypeOK, TripTypeOK
  <2>2. carriedTo' = [carriedTo EXCEPT ![src] = [s \in Stops |-> IF s \in kept THEN n ELSE @[s]]]
    BY DEF CloseInto, OpenContinuation
  <2>3. \A t \in Trips : carriedTo'[t] \in [Stops -> Trips \cup {NoTrip}]
    BY <2>1, <2>2
  <2> QED
    BY <2>1, <2>2, <2>3
<1> QED
  BY <1>1, <1>2, <1>3, <1>4 DEF CloseInto, TypeOK, TripTypeOK

LEMMA ReviewStepType ==
  ASSUME TypeOK, NEW v \in Reviewers, ReviewStep(v)
  PROVE  TypeOK'
<1>1. ReviewOff \in ReviewSteps
  BY DEF ReviewOff, ReviewSteps
<1>2. \A r \in Requests \cup {NoRequest}, t \in Trips \cup {NoTrip}, kept \in SUBSET Stops :
        Carry(r, t, kept) \in ReviewSteps
  BY DEF Carry, ReviewSteps
<1>3. ASSUME NEW kept \in SUBSET Stops, NEW r \in Requests, ApproveRead(v, r, kept) PROVE TypeOK'
  BY <1>2, <1>3 DEF ApproveRead, TypeOK, TripTypeOK, tripVars, stopVars, reqVars
<1>4. ASSUME NEW kept \in SUBSET Stops, NEW t \in Trips, ProceedRead(v, t, kept) PROVE TypeOK'
  BY <1>2, <1>4 DEF ProceedRead, TypeOK, TripTypeOK, tripVars, stopVars, reqVars
<1>5. /\ review[v].trip \in Trips \cup {NoTrip} /\ review[v].ended \in BOOLEAN
      /\ review[v].begun \in BOOLEAN /\ review[v].kept \in SUBSET Stops /\ review[v].req \in Requests \cup {NoRequest}
  BY DEF TypeOK, ReviewSteps
<1>6. ASSUME NEW n \in Trips, ApproveCommit(v, n) PROVE TypeOK'
  <2>1. TripTypeOK'
    BY <1>5, <1>6, CloseIntoType DEF ApproveCommit
  <2> QED
    BY <1>1, <1>5, <1>6, <2>1 DEF ApproveCommit, TypeOK, ReqStatus
<1>7. ASSUME NEW n \in Trips, NEW r \in Requests, ProceedCommit(v, r, n) PROVE TypeOK'
  <2>1. TripTypeOK'
    BY <1>5, <1>7, CloseIntoType DEF ProceedCommit
  <2> QED
    BY <1>1, <1>5, <1>7, <2>1 DEF ProceedCommit, TypeOK, ReqStatus
<1>8. CASE ReviewAborts(v)
  BY <1>1, <1>8 DEF ReviewAborts, TypeOK, TripTypeOK, tripVars, stopVars, reqVars
<1> QED
  BY <1>3, <1>4, <1>6, <1>7, <1>8 DEF ReviewStep

\* The sweep works with ages it read, never with anything else
LEMMA SweepStepType ==
  ASSUME TypeOK, NEW w \in Workers, SweepStep(w)
  PROVE  TypeOK'
<1> USE RetripConstants DEF TypeOK, TripTypeOK, tripVars, stopVars, reqVars, NotListed
<1>1. CASE SweepStart(w)
  BY <1>1 DEF SweepStart
<1>2. CASE SweepCrash(w)
  BY <1>2 DEF SweepCrash
<1>3. ASSUME NEW r \in Requests, RowDone(w, r) PROVE sweep' \in [Workers -> [Requests -> 0..NotListed]]
  BY <1>3 DEF RowDone
<1>4. ASSUME NEW r \in Requests, SweepExpire(w, r) PROVE TypeOK'
  BY <1>3, <1>4, ExpireType DEF SweepExpire
<1>5. ASSUME NEW r \in Requests, SweepEscalate(w, r) PROVE TypeOK'
  BY <1>3, <1>5 DEF SweepEscalate, Notify, Notices
<1>6. ASSUME NEW r \in Requests, SweepRemind(w, r) PROVE TypeOK'
  BY <1>3, <1>6 DEF SweepRemind, Notify, Notices
<1>7. ASSUME NEW r \in Requests, SweepSkip(w, r) PROVE TypeOK'
  BY <1>3, <1>7 DEF SweepSkip
<1> QED
  BY <1>1, <1>2, <1>4, <1>5, <1>6, <1>7 DEF SweepStep, SweepRow

LEMMA TickType == TypeOK /\ Tick => TypeOK'
BY RetripConstants DEF Tick, Due, TypeOK, TripTypeOK, tripVars, stopVars, handlerVars

LEMMA InitType == Init => TypeOK
BY TripConstants, RetripConstants
   DEF Init, TripInit, TypeOK, TripTypeOK, Trips, NoTrip, Requests, NotListed, CrewOff, CrewSteps,
       ReviewOff, ReviewSteps, TripStatus, StopStatus, LogStatus, ReqStatus, Notices, NoRequest

LEMMA NextType == TypeOK /\ [Next]_vars => TypeOK'
<1> SUFFICES ASSUME TypeOK, [Next]_vars PROVE TypeOK'
  OBVIOUS
<1>1. CASE UNCHANGED vars
  BY <1>1 DEF vars, tripVars, stopVars, reqVars, handlerVars, TypeOK, TripTypeOK
<1> QED
  BY <1>1, TripStepType, TickType, CrewStepType, DecideStepType, ReviewStepType, SweepStepType
     DEF Next

\* Every reachable state is well typed: no handler stores a status, an age or a
\* row number outside its range, whatever the interleaving
THEOREM TypeCorrect == Spec => []TypeOK
<1> QED
  BY InitType, NextType, PTL DEF Spec

-----------------------------------------------------------------------------
(* What a step can do to the requests and to the set of existing trips.    *)
(* Whoever takes it, a step is one of the four below.                      *)

Exists(t) == t \in Trips /\ status[t] # "absent"

\* Handlers and requests refer to rows that exist
RowsExist ==
    /\ status[1] # "absent"
    /\ \A r \in Requests : reqStatus[r] # "none" => Exists(assignment[r])
    /\ \A v \in Reviewers : review[v].op = "carry" => Exists(review[v].trip)
    /\ \A c \in Crew : crew[c].op # "idle" => Exists(crew[c].trip)
    /\ \A a \in Admins : admin[a].op # "idle" => Exists(admin[a].trip) /\ admin[a].seen # "absent"

IInv == TypeOK /\ RowsExist /\ CarrierHoldsRequest /\ ApprovalOwnsContinuation

SameTrips == \A t \in Trips : status'[t] = "absent" <=> status[t] = "absent"
NewTrip(n) == /\ n # 1 /\ status[n] = "absent"
              /\ \A t \in Trips : status'[t] = "absent" <=> status[t] = "absent" /\ t # n
SameRequests == UNCHANGED <<reqStatus, assignment, newAssignment>>

RaiseStep(r, t) ==
    /\ SameTrips /\ reqStatus[r] = "none" /\ Exists(t)
    /\ reqStatus' = [reqStatus EXCEPT ![r] = "Pending"]
    /\ assignment' = [assignment EXCEPT ![r] = t]
    /\ UNCHANGED <<newAssignment, review>>

DeclineStep(r) ==
    /\ SameTrips /\ reqStatus[r] = "Pending" /\ ~Locked(r)
    /\ \E verdict \in {"Rejected", "Expired"} : reqStatus' = [reqStatus EXCEPT ![r] = verdict]
    /\ UNCHANGED <<assignment, newAssignment, review>>

OpenStep(v, r, n) ==
    LET src == review[v].trip IN
    /\ NewTrip(n) /\ Exists(src) /\ src < n
    /\ \/ reqStatus[r] = "Pending" /\ assignment[r] = src /\ review[v].req = r
       \/ reqStatus[r] = "none" /\ review[v].req = NoRequest
    /\ review[v].op = "carry" /\ review' = [review EXCEPT ![v] = ReviewOff]
    /\ reqStatus' = [reqStatus EXCEPT ![r] = "Approved"]
    /\ assignment' = [assignment EXCEPT ![r] = src]
    /\ newAssignment' = [newAssignment EXCEPT ![r] = n]

IdleStep ==
    /\ SameTrips /\ SameRequests
    /\ \/ UNCHANGED review
       \/ \E v \in Reviewers : review' = [review EXCEPT ![v] = ReviewOff]
       \/ \E v \in Reviewers, r \in Requests, kept \in SUBSET Stops :
            /\ reqStatus[r] = "Pending" /\ ~Locked(r)
            /\ review' = [review EXCEPT ![v] = Carry(r, assignment[r], kept)]
       \/ \E v \in Reviewers, t \in Trips, kept \in SUBSET Stops :
            /\ Exists(t)
            /\ review' = [review EXCEPT ![v] = Carry(NoRequest, t, kept)]

RequestStep ==
    \/ IdleStep
    \/ \E r \in Requests, t \in Trips : RaiseStep(r, t)
    \/ \E r \in Requests : DeclineStep(r)
    \/ \E v \in Reviewers, r \in Requests, n \in Trips : OpenStep(v, r, n)

\* The admin screen writes only rows that it found, and never unmakes one
LEMMA AdminKeepsTrips == ASSUME IInv, NEW a \in Admins, NEW plan, AdminStep(a, plan) PROVE SameTrips
<1>1. status \in [Trips -> TripStatus]
  BY DEF IInv, TypeOK, TripTypeOK
<1>2. admin[a].op # "idle" => status[admin[a].trip] # "absent" /\ admin[a].seen # "absent"
  BY DEF IInv, RowsExist, Exists
<1>3. ASSUME NEW t, NEW new, status[t] # "absent", new # "absent", status' = [status EXCEPT ![t] = new]
      PROVE  SameTrips
  BY <1>1, <1>3 DEF SameTrips
<1>4. ASSUME UNCHANGED status PROVE SameTrips
  BY <1>4 DEF SameTrips
<1>5. CASE AdminStart(a)
  BY <1>1, <1>2, <1>5 DEF AdminStart, MarkStarted, SameTrips
<1>6. CASE AdminComplete(a)
  BY <1>2, <1>3, <1>6 DEF AdminComplete, MarkEnded, StatusAfterEnd
<1>7. CASE AdminCancel(a)
  BY <1>2, <1>3, <1>7 DEF AdminCancel, SaveRow
<1>8. CASE AdminEdit(a)
  BY <1>2, <1>3, <1>8 DEF AdminEdit, SaveRow
<1> QED
  BY <1>4, <1>5, <1>6, <1>7, <1>8 DEF AdminStep, LoadStatus, LoadForm, ReloadForm,
                                          CheckForm, FormStops, AdminGiveUp

LEMMA TripStepKind == IInv /\ TripStep => IdleStep
<1> SUFFICES ASSUME IInv, TripStep PROVE IdleStep
  OBVIOUS
<1>1. SameRequests /\ UNCHANGED review
  BY DEF TripStep, reqVars, handlerVars, SameRequests
<1>2. ASSUME NEW a \in Admins, NEW plan, AdminStep(a, plan) PROVE SameTrips
  BY <1>2, AdminKeepsTrips
<1>3. ASSUME NEW t \in Trips, NEW new, ChangeLogStatus(t, new) PROVE SameTrips
  BY <1>3 DEF ChangeLogStatus, SameTrips
<1>4. ASSUME NEW t \in Trips, NEW s \in Stops, NEW outcome, NEW weight, Scan(t, s, outcome, weight)
      PROVE  SameTrips
  <2>1. status[t] # "absent"
    BY <1>4 DEF Scan, Resolve, IsActive, Unfinished, Visible
  <2>2. UNCHANGED status \/ MarkEnded(t, status[t] = "Completed", started[t])
    BY <1>4 DEF Scan, Resolve
  <2> QED
    BY <2>1, <2>2 DEF MarkEnded, StatusAfterEnd, SameTrips, IInv, TypeOK, TripTypeOK
<1> QED
  BY <1>1, <1>2, <1>3, <1>4 DEF TripStep, IdleStep

LEMMA ExpireKind ==
  ASSUME NEW r \in Requests, Expire(r), reqStatus[r] = "Pending", ~Locked(r), UNCHANGED review, SameTrips
  PROVE  DeclineStep(r)
BY DEF Expire, DeclineStep

LEMMA CrewStepKind == ASSUME IInv, NEW c \in Crew, CrewStep(c) PROVE RequestStep
<1>1. ASSUME NEW t \in Trips, StartRead(c, t) \/ EndRead(c, t) PROVE IdleStep
  BY <1>1 DEF StartRead, EndRead, tripVars, stopVars, reqVars, IdleStep, SameTrips, SameRequests
<1>2. CASE StartWrite(c)
  BY <1>2 DEF StartWrite, MarkStarted, IInv, TypeOK, TripTypeOK, RowsExist, Exists, reqVars,
              RequestStep, IdleStep, SameTrips, SameRequests
<1>3. CASE EndClean(c)
  BY <1>3 DEF EndClean, MarkEnded, StatusAfterEnd, IInv, TypeOK, TripTypeOK, RowsExist, Exists,
              reqVars, RequestStep, IdleStep, SameTrips, SameRequests
<1>4. CASE CrewGiveUp(c)
  BY <1>4 DEF CrewGiveUp, tripVars, stopVars, reqVars, RequestStep, IdleStep, SameTrips, SameRequests
<1>5. ASSUME NEW r \in Requests, EndCheck(c, r) PROVE RequestStep
  <2>1. SameTrips /\ UNCHANGED review
    BY <1>5 DEF EndCheck, tripVars, stopVars, SameTrips
  <2>2. CASE UNCHANGED reqVars
    BY <2>1, <2>2 DEF RequestStep, IdleStep, SameRequests, reqVars
  <2>3. CASE Expire(r) /\ reqStatus[r] = "Pending"
    BY <1>5, <2>1, <2>3, ExpireKind DEF EndCheck, RequestStep
  <2> QED
    BY <1>5, <2>2, <2>3 DEF EndCheck
<1>6. ASSUME NEW r \in Requests, EndRequest(c, r) PROVE RequestStep
  <2>1. reqStatus[r] = "none"
    BY <1>6, RetripConstants DEF EndRequest, CreateRequest, NextRequest, Requests
  <2>2. Exists(crew[c].trip)
    BY <1>6 DEF EndRequest, IInv, RowsExist
  <2>3. RaiseStep(r, crew[c].trip)
    BY <1>6, <2>1, <2>2 DEF EndRequest, CreateRequest, tripVars, stopVars, SameTrips, RaiseStep
  <2> QED
    BY <2>2, <2>3 DEF RequestStep, Exists
<1> QED
  BY <1>1, <1>2, <1>3, <1>4, <1>5, <1>6 DEF CrewStep, RequestStep

LEMMA DecideStepKind == IInv /\ DecideStep => RequestStep
<1> SUFFICES ASSUME IInv, NEW r \in Requests, DecideTooLate(r) \/ Reject(r) PROVE RequestStep
  BY DEF DecideStep
<1>1. SameTrips /\ UNCHANGED review
  BY DEF DecideTooLate, Reject, tripVars, stopVars, handlerVars, SameTrips
<1>2. CASE DecideTooLate(r)
  BY <1>1, <1>2, ExpireKind DEF DecideTooLate, RequestStep
<1>3. CASE Reject(r)
  BY <1>1, <1>3 DEF Reject, DeclineStep, RequestStep
<1> QED
  BY <1>2, <1>3

\* Opening continuation n: it is the only trip that appears, and a later one
LEMMA CloseIntoKind ==
  ASSUME IInv, NEW src, Exists(src), NEW ended \in BOOLEAN, NEW begun, NEW n \in Trips, NEW kept,
         CloseInto(src, ended, begun, n, kept)
  PROVE  NewTrip(n) /\ src < n
<1>1. 1 \in Trips
  BY TripConstants DEF Trips
<1>2. status[n] = "absent" /\ n # 1
  BY <1>1 DEF CloseInto, NextTrip, IInv, RowsExist, Trips
<1>3. src < n
  BY DEF CloseInto, NextTrip, Exists, Trips
<1>4. SourceAfter(src, ended) # "absent"
  BY DEF SourceAfter, StatusAfterEnd, Exists
<1>5. status' = [status EXCEPT ![src] = SourceAfter(src, ended), ![n] = "Scheduled"]
  BY DEF CloseInto
<1> QED
  BY <1>2, <1>3, <1>4, <1>5 DEF NewTrip, IInv, TypeOK, TripTypeOK, Exists

\* An approval that commits, and a web close, open the continuation they found room for
LEMMA ApproveOpens ==
  ASSUME IInv, NEW v \in Reviewers, NEW n \in Trips, ApproveCommit(v, n)
  PROVE  OpenStep(v, review[v].req, n) /\ review[v].req \in Requests
<1>1. Exists(review[v].trip) /\ review[v].ended \in BOOLEAN
  BY DEF ApproveCommit, IInv, RowsExist, TypeOK, ReviewSteps
<1>2. review[v].req \in Requests /\ reqStatus[review[v].req] = "Pending"
      /\ assignment[review[v].req] = review[v].trip
  BY DEF ApproveCommit, IInv, TypeOK, ReviewSteps, CarrierHoldsRequest
<1>3. NewTrip(n) /\ review[v].trip < n
  BY <1>1, CloseIntoKind DEF ApproveCommit
<1>4. assignment' = [assignment EXCEPT ![review[v].req] = review[v].trip]
  BY <1>2 DEF ApproveCommit, IInv, TypeOK
<1> QED
  BY <1>1, <1>2, <1>3, <1>4 DEF ApproveCommit, OpenStep

LEMMA ProceedOpens ==
  ASSUME IInv, NEW v \in Reviewers, NEW n \in Trips, NEW r \in Requests, ProceedCommit(v, r, n)
  PROVE  OpenStep(v, r, n)
<1>1. Exists(review[v].trip) /\ review[v].ended \in BOOLEAN
  BY DEF ProceedCommit, IInv, RowsExist, TypeOK, ReviewSteps
<1>2. reqStatus[r] = "none"
  BY RetripConstants DEF ProceedCommit, NextRequest, Requests
<1>3. NewTrip(n) /\ review[v].trip < n
  BY <1>1, CloseIntoKind DEF ProceedCommit
<1> QED
  BY <1>1, <1>2, <1>3 DEF ProceedCommit, OpenStep

LEMMA ReviewStepKind == ASSUME IInv, NEW v \in Reviewers, ReviewStep(v) PROVE RequestStep
<1>1. ASSUME NEW kept \in SUBSET Stops, NEW r \in Requests, ApproveRead(v, r, kept) PROVE IdleStep
  BY <1>1 DEF ApproveRead, IdleStep, SameTrips, SameRequests, tripVars, stopVars, reqVars
<1>2. ASSUME NEW kept \in SUBSET Stops, NEW t \in Trips, ProceedRead(v, t, kept) PROVE IdleStep
  <2>1. Exists(t)
    BY <1>2 DEF ProceedRead, OpenStatus, Exists
  <2> QED
    BY <1>2, <2>1 DEF ProceedRead, IdleStep, SameTrips, SameRequests, tripVars, stopVars, reqVars
<1>3. CASE ReviewAborts(v)
  BY <1>3 DEF ReviewAborts, RequestStep, IdleStep, SameTrips, SameRequests, tripVars, stopVars, reqVars
<1> QED
  BY <1>1, <1>2, <1>3, ApproveOpens, ProceedOpens DEF ReviewStep, RequestStep

LEMMA SweepStepKind == ASSUME IInv, NEW w \in Workers, SweepStep(w) PROVE RequestStep
<1>1. CASE SweepStart(w) \/ SweepCrash(w)
  BY <1>1 DEF SweepStart, SweepCrash, RequestStep, IdleStep, SameTrips, SameRequests, tripVars, stopVars, reqVars
<1>2. ASSUME NEW r \in Requests, SweepExpire(w, r) PROVE RequestStep
  <2>1. SameTrips /\ UNCHANGED review
    BY <1>2 DEF SweepExpire, tripVars, stopVars, SameTrips
  <2> QED
    BY <1>2, <2>1, ExpireKind DEF SweepExpire, CanSweep, RequestStep
<1>3. ASSUME NEW r \in Requests, SweepEscalate(w, r) \/ SweepRemind(w, r) \/ SweepSkip(w, r) PROVE IdleStep
  BY <1>3 DEF SweepEscalate, SweepRemind, SweepSkip, IdleStep, SameTrips, SameRequests, tripVars, stopVars, reqVars
<1> QED
  BY <1>1, <1>2, <1>3 DEF SweepStep, SweepRow, RequestStep

\* Every step of the system is one of the four kinds
LEMMA StepKind == IInv /\ Next => RequestStep
<1>1. IInv /\ Tick => IdleStep
  BY DEF Tick, IdleStep, SameTrips, SameRequests, tripVars, stopVars, handlerVars
<1> QED
  BY <1>1, TripStepKind, CrewStepKind, DecideStepKind, ReviewStepKind, SweepStepKind
     DEF Next, RequestStep

-----------------------------------------------------------------------------
(* The invariants hold whichever kind of step is taken.                    *)

LEMMA InitInv == Init => IInv
<1> SUFFICES ASSUME Init PROVE IInv
  OBVIOUS
<1>1. 1 \in Trips /\ NoTrip \notin Trips
  BY TripConstants DEF Trips, NoTrip
<1>2. TypeOK
  BY InitType
<1>3. status[1] = "Scheduled" /\ \A n \in Trips \ {1} : status[n] = "absent"
  BY <1>1 DEF Init, TripInit
<1>4. \A r \in Requests : reqStatus[r] = "none" /\ newAssignment[r] = NoTrip
  BY DEF Init
<1>5. \A v \in Reviewers : review[v].op = "idle"
  BY DEF Init, ReviewOff
<1>6. \A c \in Crew : crew[c].op = "idle"
  BY DEF Init, CrewOff
<1>7. \A a \in Admins : admin[a].op = "idle"
  BY DEF Init, TripInit, AdminOff
<1> QED
  BY <1>1, <1>2, <1>3, <1>4, <1>5, <1>6, <1>7
     DEF IInv, RowsExist, Exists, CarrierHoldsRequest, ApprovalOwnsContinuation

\* No step removes a trip
LEMMA TripsStay ==
  ASSUME IInv, RequestStep, NEW t, Exists(t)
  PROVE  Exists(t)'
<1>1. CASE SameTrips
  BY <1>1 DEF SameTrips, Exists
<1>2. ASSUME NEW n, NewTrip(n) PROVE Exists(t)'
  BY <1>2 DEF NewTrip, Exists
<1> QED
  BY <1>1, <1>2 DEF RequestStep, IdleStep, RaiseStep, DeclineStep, OpenStep

\* Nobody else touches the copies of the crew's handlers, or of the admin screen
LEMMA CrewOnly == Next => UNCHANGED crew \/ \E c \in Crew : CrewStep(c)
<1>1. TripStep \/ Tick \/ DecideStep => UNCHANGED crew
  BY DEF TripStep, Tick, DecideStep, DecideTooLate, Reject, handlerVars
<1>2. ASSUME NEW v \in Reviewers, ReviewStep(v) PROVE UNCHANGED crew
  BY <1>2 DEF ReviewStep, ApproveRead, ProceedRead, ApproveCommit, ProceedCommit, ReviewAborts
<1>3. ASSUME NEW w \in Workers, SweepStep(w) PROVE UNCHANGED crew
  BY <1>3 DEF SweepStep, SweepStart, SweepCrash, SweepRow, SweepExpire, SweepEscalate, SweepRemind, SweepSkip
<1> QED
  BY <1>1, <1>2, <1>3 DEF Next

LEMMA AdminOnly == Next => UNCHANGED admin \/ \E a \in Admins, plan \in SUBSET Stops : AdminStep(a, plan)
<1>1. TripStep => UNCHANGED admin \/ \E a \in Admins, plan \in SUBSET Stops : AdminStep(a, plan)
  BY DEF TripStep, ChangeLogStatus, Scan, Resolve
<1>2. Tick \/ DecideStep => UNCHANGED admin
  BY DEF Tick, DecideStep, DecideTooLate, Reject, tripVars, stopVars
<1>3. ASSUME NEW c \in Crew, CrewStep(c) PROVE UNCHANGED admin
  BY <1>3 DEF CrewStep, StartRead, StartWrite, EndRead, EndCheck, EndClean, EndRequest, CrewGiveUp, tripVars, stopVars
<1>4. ASSUME NEW v \in Reviewers, ReviewStep(v) PROVE UNCHANGED admin
  BY <1>4 DEF ReviewStep, ApproveRead, ProceedRead, ApproveCommit, ProceedCommit, ReviewAborts, CloseInto, tripVars, stopVars
<1>5. ASSUME NEW w \in Workers, SweepStep(w) PROVE UNCHANGED admin
  BY <1>5 DEF SweepStep, SweepStart, SweepCrash, SweepRow, SweepExpire, SweepEscalate, SweepRemind,
              SweepSkip, tripVars, stopVars
<1> QED
  BY <1>1, <1>2, <1>3, <1>4, <1>5 DEF Next

\* The crew's handlers keep working on an existing trip
LEMMA CrewRows ==
  ASSUME IInv, Next, RequestStep, NEW c \in Crew, crew'[c].op # "idle"
  PROVE  Exists(crew[c].trip)'
<1>1. \A t : Exists(t) => t \in Trips /\ status'[t] # "absent"
  BY TripsStay DEF Exists
<1>2. crew \in [Crew -> CrewSteps]
  BY DEF IInv, TypeOK
<1>3. CASE UNCHANGED crew
  BY <1>1, <1>3 DEF IInv, RowsExist, Exists
<1>4. ASSUME NEW d \in Crew, CrewStep(d) PROVE Exists(crew[c].trip)'
  <2>1. ASSUME NEW t \in Trips, StartRead(d, t) \/ EndRead(d, t) PROVE Exists(crew[c].trip)'
    <3>1. Exists(t)
      BY <2>1 DEF StartRead, EndRead, OpenStatus, Exists
    <3>2. c = d => crew'[c].trip = t
      BY <1>2, <2>1 DEF StartRead, EndRead, Ending
    <3>3. c # d => crew'[c] = crew[c]
      BY <1>2, <2>1 DEF StartRead, EndRead
    <3> QED
      BY <1>1, <3>1, <3>2, <3>3 DEF IInv, RowsExist, Exists
  <2>2. CASE StartWrite(d) \/ EndClean(d) \/ CrewGiveUp(d) \/ \E r \in Requests : EndRequest(d, r)
    <3>1. crew' = [crew EXCEPT ![d] = CrewOff]
      BY <2>2 DEF StartWrite, EndClean, CrewGiveUp, EndRequest
    <3>2. c # d /\ crew'[c] = crew[c]
      BY <1>2, <3>1 DEF CrewOff
    <3> QED
      BY <1>1, <3>2 DEF IInv, RowsExist, Exists
  <2>3. ASSUME NEW r \in Requests, EndCheck(d, r) PROVE Exists(crew[c].trip)'
    <3>1. crew[d].op # "idle" /\ crew' = [crew EXCEPT ![d] = Ending("end", crew[d].trip, crew[d].begun, NoRequest)]
      BY <2>3 DEF EndCheck
    <3>2. crew'[c].trip = crew[c].trip /\ crew[c].op # "idle"
      BY <1>2, <3>1 DEF Ending
    <3> QED
      BY <1>1, <3>2 DEF IInv, RowsExist, Exists
  <2> QED
    BY <1>4, <2>1, <2>2, <2>3 DEF CrewStep
<1> QED
  BY <1>3, <1>4, CrewOnly

\* So does the admin screen
LEMMA AdminRows ==
  ASSUME IInv, Next, RequestStep, NEW a \in Admins, admin'[a].op # "idle"
  PROVE  Exists(admin[a].trip)' /\ admin'[a].seen # "absent"
<1>1. \A t : Exists(t) => t \in Trips /\ status'[t] # "absent"
  BY TripsStay DEF Exists
<1>2. admin \in [Admins -> AdminSteps \cup {AdminOff}]
  BY DEF IInv, TypeOK, TripTypeOK
<1>3. ASSUME admin'[a] = admin[a] PROVE Exists(admin[a].trip)' /\ admin'[a].seen # "absent"
  BY <1>1, <1>3 DEF IInv, RowsExist, Exists
<1>4. ASSUME NEW b \in Admins, NEW plan, AdminStep(b, plan)
      PROVE  Exists(admin[a].trip)' /\ admin'[a].seen # "absent"
  <2>1. ASSUME NEW t, NEW op, Exists(t), admin' = [admin EXCEPT ![b] = Loading(op, t)]
        PROVE  Exists(admin[a].trip)' /\ admin'[a].seen # "absent"
    <3>1. CASE a = b
      BY <1>1, <1>2, <2>1, <3>1 DEF Loading, Exists
    <3> QED
      BY <1>2, <1>3, <2>1, <3>1
  <2>2. ASSUME NEW t \in Trips, LoadStatus(b, t) \/ LoadForm(b, t)
        PROVE  Exists(admin[a].trip)' /\ admin'[a].seen # "absent"
    BY <2>1, <2>2 DEF LoadStatus, LoadForm, Exists
  <2>3. CASE ReloadForm(b)
    <3>1. Exists(admin[b].trip)
      BY <2>3 DEF ReloadForm, IInv, RowsExist
    <3> QED
      BY <2>1, <2>3, <3>1 DEF ReloadForm
  <2>4. CASE Done(b)
    BY <1>2, <1>3, <2>4 DEF Done, AdminOff
  <2>5. ASSUME NEW op, admin[b].op # "idle", admin' = [admin EXCEPT ![b].op = op]
        PROVE  Exists(admin[a].trip)' /\ admin'[a].seen # "absent"
    <3>1. admin'[a].trip = admin[a].trip /\ admin'[a].seen = admin[a].seen /\ admin[a].op # "idle"
      BY <1>2, <2>5 DEF AdminSteps, AdminOff
    <3> QED
      BY <1>1, <3>1 DEF IInv, RowsExist, Exists
  <2>6. CASE CheckForm(b) \/ AdminEdit(b)
    BY <2>5, <2>6 DEF CheckForm, AdminEdit
  <2> QED
    BY <1>4, <2>2, <2>3, <2>4, <2>6 DEF AdminStep, AdminStart, AdminComplete, AdminCancel, FormStops, AdminGiveUp
<1>5. CASE UNCHANGED admin
  BY <1>3, <1>5
<1> QED
  BY <1>4, <1>5, AdminOnly

\* What review can become
LEMMA ReviewRows ==
  ASSUME IInv, RequestStep, TypeOK', NEW v \in Reviewers, review'[v].op = "carry"
  PROVE  \/ review'[v] = review[v]
         \/ \E t \in Trips, kept \in SUBSET Stops : Exists(t) /\ review'[v] = Carry(NoRequest, t, kept)
         \/ \E r \in Requests, kept \in SUBSET Stops :
              /\ reqStatus[r] = "Pending" /\ ~Locked(r) /\ SameTrips /\ SameRequests
              /\ \A u \in Reviewers : u # v => review'[u] = review[u]
              /\ review'[v] = Carry(r, assignment[r], kept)
<1>1. review \in [Reviewers -> ReviewSteps]
  BY DEF IInv, TypeOK
<1>2. CASE UNCHANGED review
  BY <1>2
<1>3. ASSUME NEW u \in Reviewers, review' = [review EXCEPT ![u] = ReviewOff] PROVE review'[v] = review[v]
  BY <1>1, <1>3 DEF ReviewOff
<1>4. ASSUME NEW u \in Reviewers, NEW r \in Requests, NEW kept \in SUBSET Stops,
             reqStatus[r] = "Pending" /\ ~Locked(r),
             review' = [review EXCEPT ![u] = Carry(r, assignment[r], kept)], SameTrips, SameRequests
      PROVE  \/ review'[v] = review[v]
             \/ /\ \A x \in Reviewers : x # v => review'[x] = review[x]
                /\ review'[v] = Carry(r, assignment[r], kept)
  BY <1>1, <1>4
<1>5. ASSUME NEW u \in Reviewers, NEW t \in Trips, NEW kept \in SUBSET Stops, Exists(t),
             review' = [review EXCEPT ![u] = Carry(NoRequest, t, kept)]
      PROVE  review'[v] = review[v] \/ review'[v] = Carry(NoRequest, t, kept)
  BY <1>1, <1>5
<1>6. ASSUME IdleStep PROVE
         \/ review'[v] = review[v]
         \/ \E t \in Trips, kept \in SUBSET Stops : Exists(t) /\ review'[v] = Carry(NoRequest, t, kept)
         \/ \E r \in Requests, kept \in SUBSET Stops :
              /\ reqStatus[r] = "Pending" /\ ~Locked(r) /\ SameTrips /\ SameRequests
              /\ \A u \in Reviewers : u # v => review'[u] = review[u]
              /\ review'[v] = Carry(r, assignment[r], kept)
  BY <1>2, <1>3, <1>4, <1>5, <1>6 DEF IdleStep
<1> QED
  BY <1>2, <1>3, <1>6 DEF RequestStep, RaiseStep, DeclineStep, OpenStep

LEMMA RowsStep == IInv /\ Next => RowsExist'
<1> SUFFICES ASSUME IInv, Next PROVE RowsExist'
  OBVIOUS
<1>1. RequestStep /\ TypeOK'
  BY StepKind, NextType DEF IInv
<1>2. \A t : Exists(t) => Exists(t)'
  BY <1>1, TripsStay
<1>3. status'[1] # "absent"
  <2>1. Exists(1)
    BY TripConstants DEF Exists, Trips, IInv, RowsExist
  <2> QED
    BY <1>2, <2>1 DEF Exists
<1>4. ASSUME NEW r \in Requests, reqStatus'[r] # "none" PROVE Exists(assignment[r])'
  <2>1. CASE assignment'[r] = assignment[r] /\ reqStatus[r] # "none"
    BY <1>2, <2>1 DEF IInv, RowsExist, Exists
  <2>2. CASE Exists(assignment'[r])
    BY <1>2, <2>2 DEF Exists
  <2>3. IdleStep => assignment'[r] = assignment[r] /\ reqStatus[r] # "none"
    BY <1>4 DEF IdleStep, SameRequests
  <2>4. ASSUME NEW q \in Requests, NEW t \in Trips, RaiseStep(q, t)
        PROVE  Exists(assignment'[r]) \/ (assignment'[r] = assignment[r] /\ reqStatus[r] # "none")
    BY <1>4, <2>4 DEF RaiseStep, IInv, TypeOK
  <2>5. ASSUME NEW q \in Requests, DeclineStep(q) PROVE assignment'[r] = assignment[r] /\ reqStatus[r] # "none"
    BY <1>4, <2>5 DEF DeclineStep, IInv, TypeOK
  <2>6. ASSUME NEW v \in Reviewers, NEW q \in Requests, NEW n \in Trips, OpenStep(v, q, n)
        PROVE  Exists(assignment'[r]) \/ (assignment'[r] = assignment[r] /\ reqStatus[r] # "none")
    BY <1>4, <2>6 DEF OpenStep, IInv, TypeOK
  <2> QED
    BY <1>1, <2>1, <2>2, <2>3, <2>4, <2>5, <2>6 DEF RequestStep
<1>5. ASSUME NEW v \in Reviewers, review'[v].op = "carry" PROVE Exists(review[v].trip)'
  <2>1. CASE review'[v] = review[v]
    BY <1>2, <1>5, <2>1 DEF IInv, RowsExist, Exists
  <2>2. ASSUME NEW t, Exists(t), review'[v].trip = t PROVE Exists(review[v].trip)'
    BY <1>2, <2>2 DEF Exists
  <2>3. ASSUME NEW r \in Requests, reqStatus[r] = "Pending" PROVE Exists(assignment[r])
    BY <2>3 DEF IInv, RowsExist
  <2>4. \A r, t, kept : Carry(r, t, kept).trip = t
    BY DEF Carry
  <2>5. CASE \E t \in Trips, kept \in SUBSET Stops : Exists(t) /\ review'[v] = Carry(NoRequest, t, kept)
    BY <2>2, <2>4, <2>5
  <2>6. CASE \E r \in Requests, kept \in SUBSET Stops :
               reqStatus[r] = "Pending" /\ review'[v] = Carry(r, assignment[r], kept)
    BY <2>2, <2>3, <2>4, <2>6
  <2> QED
    BY <1>1, <1>5, <2>1, <2>5, <2>6, ReviewRows
<1>6. \A c \in Crew : crew'[c].op # "idle" => Exists(crew[c].trip)'
  BY <1>1, CrewRows
<1>7. \A a \in Admins : admin'[a].op # "idle" => Exists(admin[a].trip)' /\ admin'[a].seen # "absent"
  BY <1>1, AdminRows
<1> QED
  BY <1>3, <1>4, <1>5, <1>6, <1>7 DEF RowsExist, Exists

\* A request that an approval holds keeps its state until that approval ends
LEMMA HeldRequest ==
  ASSUME IInv, RequestStep, NEW v \in Reviewers, review[v].op = "carry", review'[v] = review[v],
         review[v].req # NoRequest
  PROVE  reqStatus'[review[v].req] = "Pending" /\ assignment'[review[v].req] = review[v].trip
<1> DEFINE r == review[v].req
<1>1. r \in Requests /\ reqStatus[r] = "Pending" /\ assignment[r] = review[v].trip
  BY DEF IInv, TypeOK, ReviewSteps, CarrierHoldsRequest
<1>2. Locked(r)
  BY DEF Locked
<1>3. CASE IdleStep
  BY <1>1, <1>3 DEF IdleStep, SameRequests
<1>4. ASSUME NEW q \in Requests, NEW t \in Trips, RaiseStep(q, t) PROVE reqStatus'[r] = "Pending" /\ assignment'[r] = assignment[r]
  BY <1>1, <1>4 DEF RaiseStep, IInv, TypeOK
<1>5. ASSUME NEW q \in Requests, DeclineStep(q) PROVE reqStatus'[r] = "Pending" /\ assignment'[r] = assignment[r]
  BY <1>1, <1>2, <1>5 DEF DeclineStep, IInv, TypeOK
<1>6. ASSUME NEW u \in Reviewers, NEW q \in Requests, NEW n \in Trips, OpenStep(u, q, n)
      PROVE  reqStatus'[r] = "Pending" /\ assignment'[r] = assignment[r]
  <2>1. u # v
    BY <1>6 DEF OpenStep, ReviewOff, IInv, TypeOK
  <2>2. q # r
    BY <1>1, <1>6, <2>1 DEF OpenStep, IInv, CarrierHoldsRequest
  <2> QED
    BY <1>1, <1>6, <2>2 DEF OpenStep, IInv, TypeOK
<1> QED
  BY <1>1, <1>3, <1>4, <1>5, <1>6 DEF RequestStep

LEMMA CarrierStep == IInv /\ Next => CarrierHoldsRequest'
<1> SUFFICES ASSUME IInv, Next, NEW v \in Reviewers, review'[v].op = "carry", review'[v].req # NoRequest
             PROVE  /\ reqStatus'[review'[v].req] = "Pending"
                    /\ assignment'[review'[v].req] = review'[v].trip
                    /\ \A u \in Reviewers :
                         review'[u].op = "carry" /\ review'[u].req = review'[v].req => u = v
  BY DEF CarrierHoldsRequest
<1>1. RequestStep /\ TypeOK'
  BY StepKind, NextType DEF IInv
<1>2. \A r, t, kept : Carry(r, t, kept).trip = t /\ Carry(r, t, kept).req = r
  BY DEF Carry
<1>3. CASE review'[v] = review[v]
  <2>1. Locked(review[v].req)
    BY <1>3 DEF Locked
  <2>2. ASSUME NEW u \in Reviewers, review'[u].op = "carry", review'[u].req = review'[v].req PROVE u = v
    <3>1. CASE review'[u] = review[u]
      BY <1>3, <2>2, <3>1 DEF IInv, CarrierHoldsRequest
    <3> QED
      BY <1>1, <1>2, <1>3, <2>1, <2>2, <3>1, ReviewRows
  <2> QED
    BY <1>1, <1>3, <2>2, HeldRequest
<1>4. ASSUME NEW r \in Requests, NEW kept \in SUBSET Stops,
             reqStatus[r] = "Pending", ~Locked(r), SameRequests,
             \A u \in Reviewers : u # v => review'[u] = review[u],
             review'[v] = Carry(r, assignment[r], kept)
      PROVE  /\ reqStatus'[review'[v].req] = "Pending"
             /\ assignment'[review'[v].req] = review'[v].trip
             /\ \A u \in Reviewers :
                  review'[u].op = "carry" /\ review'[u].req = review'[v].req => u = v
  <2>1. reqStatus'[r] = "Pending" /\ assignment'[r] = assignment[r]
    BY <1>4 DEF SameRequests
  <2>2. ASSUME NEW u \in Reviewers, review'[u].op = "carry", review'[u].req = r, u # v PROVE FALSE
    BY <1>4, <2>2 DEF Locked
  <2> QED
    BY <1>2, <1>4, <2>1, <2>2
<1>5. ASSUME NEW t, NEW kept, review'[v] = Carry(NoRequest, t, kept) PROVE FALSE
  BY <1>2, <1>5
<1>6. \/ review'[v] = review[v]
      \/ \E r \in Requests, kept \in SUBSET Stops :
           /\ reqStatus[r] = "Pending" /\ ~Locked(r) /\ SameTrips /\ SameRequests
           /\ \A u \in Reviewers : u # v => review'[u] = review[u]
           /\ review'[v] = Carry(r, assignment[r], kept)
  BY <1>1, <1>5, ReviewRows
<1> QED
  BY <1>3, <1>4, <1>6

LEMMA OwnsStep == IInv /\ Next => ApprovalOwnsContinuation'
<1> SUFFICES ASSUME IInv, Next PROVE ApprovalOwnsContinuation'
  OBVIOUS
<1>1. RequestStep /\ TypeOK' /\ RowsExist'
  BY StepKind, NextType, RowsStep DEF IInv
<1>2. reqStatus \in [Requests -> ReqStatus] /\ newAssignment \in [Requests -> Trips \cup {NoTrip}]
      /\ assignment \in [Requests -> Trips \cup {NoTrip}]
  BY DEF IInv, TypeOK
<1> DEFINE Same == SameTrips /\ UNCHANGED newAssignment
<1>3. ASSUME Same, \A r \in Requests : newAssignment[r] # NoTrip => assignment'[r] = assignment[r],
             \A r \in Requests : reqStatus'[r] = "Approved" <=> reqStatus[r] = "Approved"
      PROVE  ApprovalOwnsContinuation'
  BY <1>2, <1>3 DEF SameTrips, ApprovalOwnsContinuation, IInv
<1>4. CASE IdleStep
  BY <1>3, <1>4 DEF IdleStep, SameRequests
<1>5. ASSUME NEW r \in Requests, NEW t \in Trips, RaiseStep(r, t) PROVE ApprovalOwnsContinuation'
  <2>1. newAssignment[r] = NoTrip
    BY <1>5 DEF RaiseStep, IInv, ApprovalOwnsContinuation
  <2> QED
    BY <1>2, <1>3, <1>5, <2>1 DEF RaiseStep
<1>6. ASSUME NEW r \in Requests, DeclineStep(r) PROVE ApprovalOwnsContinuation'
  BY <1>2, <1>3, <1>6 DEF DeclineStep
<1>7. ASSUME NEW v \in Reviewers, NEW r \in Requests, NEW n \in Trips, OpenStep(v, r, n)
      PROVE  ApprovalOwnsContinuation'
  <2>1. n \in Trips /\ n # NoTrip
    BY DEF Trips, NoTrip
  <2>2. \A q \in Requests : newAssignment[q] # n
    BY <1>7, <2>1 DEF OpenStep, NewTrip, IInv, ApprovalOwnsContinuation
  <2>3. \A q \in Requests : q # r => /\ newAssignment'[q] = newAssignment[q]
                                     /\ assignment'[q] = assignment[q]
                                     /\ reqStatus'[q] = reqStatus[q]
    BY <1>2, <1>7 DEF OpenStep
  <2>4. /\ newAssignment'[r] = n /\ reqStatus'[r] = "Approved"
        /\ assignment'[r] \in Trips /\ assignment'[r] < n
    BY <1>2, <1>7 DEF OpenStep, Exists
  <2>5. status'[n] # "absent" /\ \A t \in Trips : status[t] # "absent" => status'[t] # "absent"
    BY <1>7 DEF OpenStep, NewTrip
  <2>6. \A t \in Trips : status'[t] # "absent" => t = n \/ status[t] # "absent"
    BY <1>7 DEF OpenStep, NewTrip
  <2>7. newAssignment[r] = NoTrip
    BY <1>7 DEF OpenStep, IInv, ApprovalOwnsContinuation
  <2>8. \A q \in Requests :
          /\ reqStatus'[q] = "Approved" <=> newAssignment'[q] # NoTrip
          /\ newAssignment'[q] # NoTrip => /\ assignment'[q] \in Trips
                                           /\ newAssignment'[q] > assignment'[q]
                                           /\ status'[newAssignment'[q]] # "absent"
    <3>1. ASSUME NEW q \in Requests, q # r
          PROVE  /\ reqStatus'[q] = "Approved" <=> newAssignment'[q] # NoTrip
                 /\ newAssignment'[q] # NoTrip => /\ assignment'[q] \in Trips
                                                  /\ newAssignment'[q] > assignment'[q]
                                                  /\ status'[newAssignment'[q]] # "absent"
      BY <1>2, <2>3, <2>5, <3>1 DEF IInv, ApprovalOwnsContinuation
    <3>2. n > assignment'[r]
      BY <2>4 DEF Trips
    <3> QED
      BY <2>1, <2>4, <2>5, <3>1, <3>2
  <2>9. \A p, q \in Requests : newAssignment'[p] = newAssignment'[q] /\ p # q => newAssignment'[q] = NoTrip
    BY <2>2, <2>3, <2>4 DEF IInv, ApprovalOwnsContinuation
  <2>10. ASSUME NEW m \in Trips \ {1}, status'[m] # "absent" PROVE \E q \in Requests : newAssignment'[q] = m
    <3>1. CASE m = n
      BY <2>4, <3>1
    <3>2. CASE m # n
      <4>1. PICK q \in Requests : newAssignment[q] = m
        BY <2>6, <2>10, <3>2 DEF IInv, ApprovalOwnsContinuation
      <4>2. q # r
        BY <2>7, <4>1 DEF Trips, NoTrip
      <4> QED
        BY <2>3, <4>1, <4>2
    <3> QED
      BY <3>1, <3>2
  <2> QED
    BY <2>8, <2>9, <2>10 DEF ApprovalOwnsContinuation
<1> QED
  BY <1>1, <1>4, <1>5, <1>6, <1>7 DEF RequestStep

LEMMA InvStep == IInv /\ [Next]_vars => IInv'
<1> SUFFICES ASSUME IInv, [Next]_vars PROVE IInv'
  OBVIOUS
<1>1. CASE Next
  BY <1>1, NextType, RowsStep, CarrierStep, OwnsStep DEF IInv
<1>2. CASE UNCHANGED vars
  BY <1>2, NextType
     DEF vars, tripVars, stopVars, reqVars, handlerVars, IInv, RowsExist, Exists, CarrierHoldsRequest,
         ApprovalOwnsContinuation
<1> QED
  BY <1>1, <1>2

LEMMA Invariant == Spec => []IInv
BY InitInv, InvStep, PTL DEF Spec

\* The row lock of approve_retrip: for any number of supervisors and workers, a
\* request under approval stays Pending and is under one approval only
THEOREM LockHolds == Spec => []CarrierHoldsRequest
<1>1. IInv => CarrierHoldsRequest
  BY DEF IInv
<1> QED
  BY <1>1, Invariant, PTL

\* Approved requests and continuation trips are in one-to-one correspondence
THEOREM Ownership == Spec => []ApprovalOwnsContinuation
<1>1. IInv => ApprovalOwnsContinuation
  BY DEF IInv
<1> QED
  BY <1>1, Invariant, PTL

-----------------------------------------------------------------------------
(* The start stamp, which every handler that closes a trip has to backfill. *)

Stamped(t) == started[t] \/ unstamped[t]

\* A handler backfills no stamp that its copy of the trip has (an approval no
\* stamp of a trip it read Completed), so it relies on what the row had then
StampInv ==
    /\ CompletedHasStart
    /\ \A a \in Admins : admin[a].op # "idle" /\ admin[a].begun => Stamped(admin[a].trip)
    /\ \A c \in Crew : crew[c].op # "idle" /\ crew[c].begun => Stamped(crew[c].trip)
    /\ \A v \in Reviewers :
         review[v].op = "carry" /\ (review[v].begun \/ review[v].ended) => Stamped(review[v].trip)

\* No step takes a stamp back or completes a trip without one unless it is a
\* save of the whole row, which is on record from then on
StampStep ==
    /\ \A t \in Trips : started[t] \/ unstamped[t] => started'[t] \/ unstamped'[t]
    /\ \A t \in Trips : status'[t] = "Completed" => started'[t] \/ unstamped'[t]

LEMMA AdminStamps ==
  ASSUME TypeOK, StampInv, NEW a \in Admins, NEW plan, AdminStep(a, plan)
  PROVE  StampStep
<1> USE DEF StampStep, CompletedHasStart, Stamped, TypeOK, TripTypeOK
<1>0. CompletedHasStart /\ (admin[a].op # "idle" /\ admin[a].begun => Stamped(admin[a].trip))
  BY DEF StampInv
<1>1. CASE AdminStart(a)
  BY <1>0, <1>1 DEF AdminStart, MarkStarted
<1>2. CASE AdminComplete(a)
  BY <1>0, <1>2 DEF AdminComplete, MarkEnded, StatusAfterEnd, StartedAfterEnd
<1>3. ASSUME NEW t, NEW new, NEW begun \in BOOLEAN, SaveRow(t, new, begun) PROVE StampStep
  BY <1>0, <1>3 DEF SaveRow
<1>4. CASE AdminCancel(a) \/ AdminEdit(a)
  <2>1. admin[a].begun \in BOOLEAN
    <3>1. CASE admin[a] \in AdminSteps
      BY <3>1 DEF AdminSteps
    <3>2. CASE admin[a] = AdminOff
      BY <3>2 DEF AdminOff
    <3> QED
      BY <3>1, <3>2
  <2>2. CASE AdminCancel(a)
    BY <1>3, <2>1, <2>2 DEF AdminCancel
  <2>3. CASE AdminEdit(a)
    BY <1>3, <2>1, <2>3 DEF AdminEdit
  <2> QED
    BY <1>4, <2>2, <2>3
<1>5. CASE UNCHANGED <<status, started, unstamped>>
  BY <1>0, <1>5
<1> QED
  BY <1>1, <1>2, <1>4, <1>5 DEF AdminStep, LoadStatus, LoadForm, ReloadForm,
                                          CheckForm, FormStops, AdminGiveUp

LEMMA TripStamps == TypeOK /\ StampInv /\ TripStep => StampStep
<1> SUFFICES ASSUME TypeOK, StampInv, TripStep PROVE StampStep
  OBVIOUS
<1> USE DEF StampStep, StampInv, CompletedHasStart, TypeOK, TripTypeOK
<1>1. ASSUME NEW t \in Trips, NEW new, ChangeLogStatus(t, new) PROVE StampStep
  BY <1>1 DEF ChangeLogStatus
<1>2. ASSUME NEW t \in Trips, NEW s \in Stops, NEW outcome, NEW weight, Scan(t, s, outcome, weight)
      PROVE  StampStep
  <2>1. UNCHANGED <<status, started>> \/ MarkEnded(t, status[t] = "Completed", started[t])
    BY <1>2 DEF Scan, Resolve
  <2>2. started[t] /\ UNCHANGED unstamped
    BY <1>2 DEF Scan, Resolve
  <2> QED
    BY <2>1, <2>2 DEF MarkEnded, StatusAfterEnd, StartedAfterEnd
<1> QED
  BY <1>1, <1>2, AdminStamps DEF TripStep

LEMMA CrewStamps ==
  ASSUME TypeOK, StampInv, NEW c \in Crew, CrewStep(c)
  PROVE  StampStep
<1> USE DEF StampStep, StampInv, CompletedHasStart, Stamped, TypeOK, TripTypeOK
<1>1. CASE UNCHANGED <<status, started, unstamped>>
  BY <1>1
<1>2. CASE StartWrite(c)
  BY <1>2 DEF StartWrite, MarkStarted
<1>3. CASE EndClean(c)
  BY <1>3 DEF EndClean, MarkEnded, StatusAfterEnd, StartedAfterEnd
<1> QED
  BY <1>1, <1>2, <1>3 DEF CrewStep, StartRead, EndRead, CrewGiveUp, EndCheck, EndRequest, tripVars, stopVars

LEMMA CloseIntoStamps ==
  ASSUME TypeOK, CompletedHasStart, NEW src, NEW ended \in BOOLEAN, NEW begun \in BOOLEAN,
         NEW n \in Trips, NEW kept, CloseInto(src, ended, begun, n, kept),
         begun \/ ended => Stamped(src)
  PROVE  StampStep
<1>1. UNCHANGED unstamped /\ \A t \in Trips : started[t] => started'[t]
  BY DEF CloseInto, StartAfter, StartedAfterEnd, TypeOK, TripTypeOK
<1>2. ASSUME NEW t \in Trips, status'[t] = "Completed" PROVE started'[t] \/ unstamped'[t]
  <2>1. CASE t = src
    BY <1>1, <2>1 DEF CloseInto, StartAfter, StartedAfterEnd, Stamped, TypeOK, TripTypeOK
  <2>2. CASE t # src
    BY <1>1, <1>2, <2>2 DEF CloseInto, CompletedHasStart, TypeOK, TripTypeOK
  <2> QED
    BY <2>1, <2>2
<1> QED
  BY <1>1, <1>2 DEF StampStep

LEMMA ReviewStamps ==
  ASSUME TypeOK, StampInv, NEW v \in Reviewers, ReviewStep(v)
  PROVE  StampStep
<1>1. CASE UNCHANGED <<status, started, unstamped>>
  BY <1>1 DEF StampStep, StampInv, CompletedHasStart
<1>2. review[v].ended \in BOOLEAN /\ review[v].begun \in BOOLEAN
  BY DEF TypeOK, ReviewSteps
<1>3. ASSUME NEW n \in Trips, ApproveCommit(v, n) PROVE StampStep
  BY <1>2, <1>3, CloseIntoStamps DEF ApproveCommit, StampInv
<1>4. ASSUME NEW n \in Trips, NEW r \in Requests, ProceedCommit(v, r, n) PROVE StampStep
  BY <1>2, <1>4, CloseIntoStamps DEF ProceedCommit, StampInv
<1> QED
  BY <1>1, <1>3, <1>4 DEF ReviewStep, ApproveRead, ProceedRead, ReviewAborts, tripVars, stopVars

LEMMA NextStamps == IInv /\ StampInv /\ Next => StampStep
<1> SUFFICES ASSUME IInv, StampInv, Next PROVE StampStep
  OBVIOUS
<1>1. TypeOK
  BY DEF IInv
<1>2. CASE UNCHANGED tripVars
  BY <1>2 DEF tripVars, stopVars, StampStep, StampInv, CompletedHasStart
<1>3. DecideStep \/ Tick \/ (\E w \in Workers : SweepStep(w)) => UNCHANGED tripVars
  BY DEF DecideStep, DecideTooLate, Reject, Tick, SweepStep, SweepStart, SweepCrash, SweepRow,
         SweepExpire, SweepEscalate, SweepRemind, SweepSkip
<1> QED
  BY <1>1, <1>2, <1>3, TripStamps, CrewStamps, ReviewStamps DEF Next

\* A copy with a stamp was made of a row with a stamp
LEMMA AdminCopies ==
  ASSUME IInv, StampInv, StampStep, Next, RowsExist', NEW a \in Admins, admin'[a].op # "idle", admin'[a].begun
  PROVE  started'[admin'[a].trip] \/ unstamped'[admin'[a].trip]
<1>1. admin'[a].trip \in Trips /\ admin \in [Admins -> AdminSteps \cup {AdminOff}]
  BY DEF RowsExist, Exists, IInv, TypeOK, TripTypeOK
<1>2. CASE admin'[a] = admin[a]
  BY <1>1, <1>2 DEF StampInv, Stamped, StampStep
<1>3. ASSUME NEW op, NEW t, admin'[a] = Loading(op, t) PROVE started[admin'[a].trip]
  BY <1>3 DEF Loading
<1>4. started[admin'[a].trip] => started'[admin'[a].trip] \/ unstamped'[admin'[a].trip]
  BY <1>1 DEF StampStep
<1>5. ASSUME NEW b \in Admins, NEW plan, AdminStep(b, plan), admin'[a] # admin[a]
      PROVE  started'[admin'[a].trip] \/ unstamped'[admin'[a].trip]
  <2>1. ASSUME NEW op, NEW t, admin' = [admin EXCEPT ![b] = Loading(op, t)] PROVE admin'[a] = Loading(op, t)
    BY <1>1, <1>5, <2>1
  <2>2. ~Done(b)
    BY <1>1, <1>5 DEF Done, AdminOff
  <2>3. CASE ReloadForm(b)
    BY <1>3, <1>4, <2>1, <2>3 DEF ReloadForm
  <2>4. ASSUME NEW t, LoadStatus(b, t) \/ LoadForm(b, t) PROVE started[admin'[a].trip]
    BY <1>3, <2>1, <2>4 DEF LoadStatus, LoadForm
  <2>5. ASSUME NEW op, admin[b].op # "idle", admin' = [admin EXCEPT ![b].op = op]
        PROVE  started'[admin'[a].trip] \/ unstamped'[admin'[a].trip]
    <3>1. admin'[a].trip = admin[a].trip /\ admin'[a].begun = admin[a].begun /\ admin[a].op # "idle"
      <4>1. a = b /\ admin[b] \in AdminSteps
        BY <1>1, <1>5, <2>5 DEF AdminOff
      <4> QED
        BY <1>1, <2>5, <4>1 DEF AdminSteps
    <3> QED
      BY <1>1, <3>1 DEF StampInv, Stamped, StampStep
  <2>6. CASE CheckForm(b) \/ AdminEdit(b)
    BY <2>5, <2>6 DEF CheckForm, AdminEdit
  <2> QED
    BY <1>5, <1>4, <2>2, <2>3, <2>4, <2>6
       DEF AdminStep, AdminStart, AdminComplete, AdminCancel, FormStops, AdminGiveUp
<1>6. UNCHANGED admin \/ \E b \in Admins, plan \in SUBSET Stops : AdminStep(b, plan)
  BY AdminOnly
<1> QED
  BY <1>2, <1>5, <1>6

LEMMA CrewCopies ==
  ASSUME IInv, StampInv, StampStep, Next, RowsExist', NEW c \in Crew, crew'[c].op # "idle", crew'[c].begun
  PROVE  started'[crew'[c].trip] \/ unstamped'[crew'[c].trip]
<1>1. crew'[c].trip \in Trips /\ crew \in [Crew -> CrewSteps]
  BY DEF RowsExist, Exists, IInv, TypeOK
<1>2. CASE crew[c].op # "idle" /\ crew'[c].trip = crew[c].trip /\ crew[c].begun
  BY <1>1, <1>2 DEF StampInv, Stamped, StampStep
<1>3. ASSUME NEW d \in Crew, CrewStep(d), crew'[c] # crew[c]
      PROVE  \/ started[crew'[c].trip]
             \/ crew[c].op # "idle" /\ crew'[c].trip = crew[c].trip /\ crew[c].begun
  <2>1. ASSUME NEW t \in Trips, StartRead(d, t) \/ EndRead(d, t) PROVE started[crew'[c].trip]
    <3>1. c = d
      BY <1>1, <1>3, <2>1 DEF StartRead, EndRead
    <3> QED
      BY <1>1, <2>1, <3>1 DEF StartRead, EndRead, Ending
  <2>2. ~(crew' = [crew EXCEPT ![d] = CrewOff])
    BY <1>1, <1>3 DEF CrewOff
  <2>3. ASSUME NEW r \in Requests, EndCheck(d, r)
        PROVE  crew[c].op # "idle" /\ crew'[c].trip = crew[c].trip /\ crew[c].begun
    <3>1. c = d
      BY <1>1, <1>3, <2>3 DEF EndCheck
    <3> QED
      BY <1>1, <2>3, <3>1 DEF EndCheck, Ending
  <2> QED
    BY <1>3, <2>1, <2>2, <2>3 DEF CrewStep, StartWrite, EndClean, CrewGiveUp, EndRequest
<1>4. UNCHANGED crew \/ \E d \in Crew : CrewStep(d)
  BY CrewOnly
<1> QED
  BY <1>1, <1>2, <1>3, <1>4 DEF StampStep

LEMMA ReviewCopies ==
  ASSUME IInv, StampInv, StampStep, Next, RowsExist', NEW v \in Reviewers, review'[v].op = "carry",
         review'[v].begun \/ review'[v].ended
  PROVE  started'[review'[v].trip] \/ unstamped'[review'[v].trip]
<1>1. review'[v].trip \in Trips /\ RequestStep /\ TypeOK'
  BY StepKind, NextType DEF RowsExist, Exists, IInv
<1>2. CASE review'[v] = review[v]
  BY <1>1, <1>2 DEF StampInv, Stamped, StampStep
<1>3. \A r, t, kept : /\ Carry(r, t, kept).trip = t
                      /\ Carry(r, t, kept).begun => started[t]
                      /\ Carry(r, t, kept).ended <=> status[t] = "Completed"
  BY DEF Carry
<1>4. ASSUME NEW r, NEW t, NEW kept, review'[v] = Carry(r, t, kept)
      PROVE  started[review'[v].trip] \/ unstamped[review'[v].trip]
  BY <1>1, <1>3, <1>4 DEF StampInv, CompletedHasStart
<1>5. review'[v] = review[v] \/ \E r, t, kept : review'[v] = Carry(r, t, kept)
  BY <1>1, ReviewRows
<1> QED
  BY <1>1, <1>2, <1>4, <1>5 DEF StampStep

LEMMA StampInvStep == IInv /\ StampInv /\ [Next]_vars => StampInv'
<1> SUFFICES ASSUME IInv, StampInv, [Next]_vars PROVE StampInv'
  OBVIOUS
<1>1. CASE UNCHANGED vars
  BY <1>1 DEF vars, tripVars, stopVars, handlerVars, StampInv, CompletedHasStart, Stamped
<1>2. CASE Next
  <2>1. StampStep /\ RowsExist'
    BY <1>2, NextStamps, InvStep DEF IInv
  <2> QED
    BY <1>2, <2>1, AdminCopies, CrewCopies, ReviewCopies DEF StampInv, StampStep, CompletedHasStart, Stamped
<1> QED
  BY <1>1, <1>2

LEMMA InitStamps == Init => StampInv
BY DEF Init, TripInit, StampInv, CompletedHasStart, ReviewOff, CrewOff, AdminOff

\* Whichever of driver, scanner, approval or admin closes a trip, on however old a
\* copy of it, mark_ended leaves no Completed trip without its actual start; the
\* exception is a trip whose whole row a cancel or the edit form has saved over
\* its stamp, or completed by hand without one
THEOREM StartStamped == Spec => []CompletedHasStart
<1>1. IInv /\ StampInv /\ [Next]_vars => (IInv /\ StampInv)'
  BY InvStep, StampInvStep
<1>2. Init => IInv /\ StampInv
  BY InitInv, InitStamps
<1>3. IInv /\ StampInv => CompletedHasStart
  BY DEF StampInv
<1> QED
  BY <1>1, <1>2, <1>3, PTL DEF Spec

-----------------------------------------------------------------------------
(* Every step of Retrip is a step or a stutter of RetripDecision.          *)

LEMMA InitDecides == Init => Decision!Init
BY DEF Init, Decision!Init

LEMMA StepDecides == IInv /\ Next => [Decision!Next]_Decision!vars
<1> SUFFICES ASSUME IInv, Next PROVE [Decision!Next]_Decision!vars
  OBVIOUS
<1>1. RequestStep
  BY StepKind
<1>2. CASE IdleStep
  BY <1>2 DEF IdleStep, SameRequests, Decision!vars
<1>3. ASSUME NEW r \in Requests, NEW t \in Trips, RaiseStep(r, t) PROVE Decision!Next
  BY <1>3 DEF RaiseStep, Decision!Next, Decision!Raise
<1>4. ASSUME NEW r \in Requests, DeclineStep(r) PROVE Decision!Next
  BY <1>4 DEF DeclineStep, Decision!Next, Decision!Decide, Decision!Decline
<1>5. ASSUME NEW v \in Reviewers, NEW r \in Requests, NEW n \in Trips, OpenStep(v, r, n) PROVE Decision!Next
  <2>1. n \in Trips \ {1} /\ n # NoTrip
    BY <1>5 DEF OpenStep, NewTrip, Trips, NoTrip
  <2>2. Decision!Fresh(n)
    BY <1>5, <2>1 DEF OpenStep, NewTrip, IInv, ApprovalOwnsContinuation, Decision!Fresh
  <2>3. Decision!Approve(r, n)
    BY <1>5, <2>2 DEF OpenStep, Decision!Approve
  <2> QED
    BY <2>1, <2>3 DEF Decision!Next, Decision!Decide
<1> QED
  BY <1>1, <1>2, <1>3, <1>4, <1>5 DEF RequestStep

\* The whole flow, with its stale reads, locks and timeouts, decides every
\* request at most once and opens a continuation for an approval alone
THEOREM Refinement == Spec => DecidesOnce
<1>1. IInv /\ [Next]_vars => [Decision!Next]_Decision!vars
  <2>1. UNCHANGED vars => UNCHANGED Decision!vars
    BY DEF vars, reqVars, Decision!vars
  <2> QED
    BY <2>1, StepDecides
<1> QED
  BY <1>1, InitDecides, Invariant, PTL DEF Spec, DecidesOnce, Decision!SafeSpec

-----------------------------------------------------------------------------
(* The notifications: each is sent once, and none before its time, although *)
(* a sweep decides on the minute it started.                               *)


\* A sweep that is under way never believes a request older than it is
SweepNotAhead ==
    \A w \in Workers, r \in Requests : sweep[w][r] # NotListed => sweep[w][r] <= age[r]

NoticeInv == OneNoticeEach /\ NoticesInWindow /\ SweepNotAhead

\* What a step may do to the notices: nothing, ...
NoNotice ==
    /\ UNCHANGED <<age, reminded, escalated, sent>>
    /\ \A r \in Requests : reqStatus'[r] = "Expired" <=> reqStatus[r] = "Expired"

\* ... expire a request whose window has passed, or drop rows from a sweep
ExpiryOf(r) == Expire(r) /\ reqStatus[r] = "Pending" /\ age[r] = Timeout
SweepShrinks ==
    \A w \in Workers, r \in Requests : sweep'[w][r] = NotListed \/ sweep'[w][r] = sweep[w][r]

LEMMA AgeFacts == TypeOK => /\ \A r \in Requests : age[r] \in Nat /\ age[r] <= Timeout
                            /\ \A w \in Workers, r \in Requests : sweep[w][r] \in 0..NotListed
                            /\ Timeout \in Nat /\ Reminder \in Nat /\ Escalation \in Nat
                            /\ NotListed = Timeout + 1
BY RetripConstants DEF TypeOK, NotListed

LEMMA NoNoticeStep == ASSUME TypeOK, NoticeInv, NoNotice, SweepShrinks PROVE NoticeInv'
<1>1. OneNoticeEach'
  BY DEF NoticeInv, OneNoticeEach, NoNotice
<1>2. NoticesInWindow'
  BY DEF NoticeInv, NoticesInWindow, NoNotice
<1>3. SweepNotAhead'
  BY DEF NoticeInv, SweepNotAhead, SweepShrinks, NoNotice, NotListed
<1> QED
  BY <1>1, <1>2, <1>3 DEF NoticeInv

LEMMA ExpiryStep ==
  ASSUME TypeOK, NoticeInv, NEW r \in Requests, ExpiryOf(r), SweepShrinks
  PROVE  NoticeInv'
<1>1. /\ reqStatus' = [reqStatus EXCEPT ![r] = "Expired"]
      /\ UNCHANGED <<age, reminded, escalated>>
      /\ sent' = [sent EXCEPT ![r]["expiry"] = @ + 1]
  BY DEF ExpiryOf, Expire, Notify
<1>2. sent[r]["expiry"] = 0
  BY DEF ExpiryOf, NoticeInv, OneNoticeEach
<1>3. /\ reqStatus'[r] = "Expired" /\ sent'[r]["expiry"] = 1
      /\ \A q \in Requests : q # r => reqStatus'[q] = reqStatus[q] /\ sent'[q] = sent[q]
      /\ sent'[r]["reminder"] = sent[r]["reminder"] /\ sent'[r]["escalation"] = sent[r]["escalation"]
  BY <1>1, <1>2 DEF TypeOK, Notices
<1>4. OneNoticeEach'
  BY <1>1, <1>3 DEF NoticeInv, OneNoticeEach
<1>5. NoticesInWindow'
  BY <1>1, <1>3 DEF NoticeInv, NoticesInWindow, ExpiryOf
<1>6. SweepNotAhead'
  BY <1>1 DEF NoticeInv, SweepNotAhead, SweepShrinks, NotListed
<1> QED
  BY <1>4, <1>5, <1>6 DEF NoticeInv

LEMMA TickNotices == TypeOK /\ NoticeInv /\ Tick => NoticeInv'
<1> SUFFICES ASSUME TypeOK, NoticeInv, Tick PROVE NoticeInv'
  OBVIOUS
<1>1. UNCHANGED <<reqStatus, reminded, escalated, sent, sweep>>
  BY DEF Tick, handlerVars
<1>2. \A r \in Requests : age'[r] \in Nat /\ age'[r] >= age[r] /\ (reqStatus[r] # "Pending" => age'[r] = age[r])
  BY AgeFacts DEF Tick
<1>3. OneNoticeEach'
  BY <1>1 DEF NoticeInv, OneNoticeEach
<1>4. NoticesInWindow'
  BY <1>1, <1>2, AgeFacts DEF NoticeInv, NoticesInWindow
<1>5. SweepNotAhead'
  BY <1>1, <1>2, AgeFacts DEF NoticeInv, SweepNotAhead, NotListed
<1> QED
  BY <1>3, <1>4, <1>5 DEF NoticeInv

LEMMA SweepNotices ==
  ASSUME TypeOK, NoticeInv, NEW w \in Workers, SweepStep(w)
  PROVE  NoticeInv'
<1>1. CASE SweepStart(w)
  <2>1. UNCHANGED reqVars /\ \A x \in Workers, r \in Requests :
          sweep'[x][r] = sweep[x][r] \/ sweep'[x][r] = age[r] \/ sweep'[x][r] = NotListed
    BY <1>1 DEF SweepStart, TypeOK
  <2> QED
    BY <2>1, AgeFacts DEF reqVars, NoticeInv, OneNoticeEach, NoticesInWindow, SweepNotAhead, NotListed
<1>2. CASE SweepCrash(w)
  <2>1. NoNotice /\ SweepShrinks
    BY <1>2 DEF SweepCrash, reqVars, NoNotice, SweepShrinks, TypeOK
  <2> QED
    BY <2>1, NoNoticeStep
<1>3. ASSUME NEW r \in Requests, RowDone(w, r) PROVE SweepShrinks
  BY <1>3 DEF RowDone, SweepShrinks, TypeOK
<1>4. ASSUME NEW r \in Requests, CanSweep(w, r) PROVE sweep[w][r] <= age[r]
  BY <1>4 DEF CanSweep, NoticeInv, SweepNotAhead
<1>5. ASSUME NEW r \in Requests, SweepExpire(w, r) PROVE NoticeInv'
  <2>1. age[r] = Timeout
    BY <1>4, <1>5, AgeFacts DEF SweepExpire
  <2> QED
    BY <1>3, <1>5, <2>1, ExpiryStep DEF SweepExpire, ExpiryOf
<1>6. ASSUME NEW r \in Requests, SweepEscalate(w, r) PROVE NoticeInv'
  <2>1. age[r] >= Escalation /\ SweepShrinks
    BY <1>3, <1>4, <1>6, AgeFacts DEF SweepEscalate
  <2>2. /\ UNCHANGED <<reqStatus, age>>
        /\ escalated[r] = FALSE /\ escalated'[r] = TRUE /\ reminded'[r] = TRUE
        /\ \A q \in Requests : q # r => /\ sent'[q] = sent[q] /\ escalated'[q] = escalated[q]
                                        /\ reminded'[q] = reminded[q]
        /\ sent'[r]["escalation"] = sent[r]["escalation"] + 1
        /\ sent'[r]["expiry"] = sent[r]["expiry"] /\ sent'[r]["reminder"] = sent[r]["reminder"]
    BY <1>6 DEF SweepEscalate, Notify, Notices, TypeOK
  <2>3. sent[r]["escalation"] = 0
    BY <2>2 DEF NoticeInv, OneNoticeEach
  <2>4. OneNoticeEach'
    BY <2>2, <2>3 DEF NoticeInv, OneNoticeEach
  <2>5. NoticesInWindow'
    BY <2>1, <2>2 DEF NoticeInv, NoticesInWindow
  <2>6. SweepNotAhead'
    BY <2>1, <2>2 DEF NoticeInv, SweepNotAhead, SweepShrinks, NotListed
  <2> QED
    BY <2>4, <2>5, <2>6 DEF NoticeInv
<1>7. ASSUME NEW r \in Requests, SweepRemind(w, r) PROVE NoticeInv'
  <2>1. age[r] >= Reminder /\ SweepShrinks
    BY <1>3, <1>4, <1>7, AgeFacts DEF SweepRemind
  <2>2. /\ UNCHANGED <<reqStatus, age, escalated>>
        /\ ~reminded[r] /\ reminded'[r] = TRUE
        /\ \A q \in Requests : q # r => sent'[q] = sent[q] /\ reminded'[q] = reminded[q]
        /\ sent'[r]["reminder"] = sent[r]["reminder"] + 1
        /\ sent'[r]["expiry"] = sent[r]["expiry"] /\ sent'[r]["escalation"] = sent[r]["escalation"]
    BY <1>7 DEF SweepRemind, Notify, Notices, TypeOK
  <2>3. sent[r]["reminder"] = 0
    BY <2>2 DEF NoticeInv, OneNoticeEach
  <2>4. OneNoticeEach'
    BY <2>2, <2>3 DEF NoticeInv, OneNoticeEach
  <2>5. NoticesInWindow'
    BY <2>1, <2>2 DEF NoticeInv, NoticesInWindow
  <2>6. SweepNotAhead'
    BY <2>1, <2>2 DEF NoticeInv, SweepNotAhead, SweepShrinks, NotListed
  <2> QED
    BY <2>4, <2>5, <2>6 DEF NoticeInv
<1>8. ASSUME NEW r \in Requests, SweepSkip(w, r) PROVE NoticeInv'
  BY <1>3, <1>8, NoNoticeStep DEF SweepSkip, reqVars, NoNotice
<1> QED
  BY <1>1, <1>2, <1>5, <1>6, <1>7, <1>8 DEF SweepStep, SweepRow

LEMMA OthersNotices ==
  ASSUME IInv, TypeOK, NoticeInv,
         TripStep \/ DecideStep \/ (\E c \in Crew : CrewStep(c)) \/ (\E v \in Reviewers : ReviewStep(v))
  PROVE  NoticeInv'
<1>1. UNCHANGED sweep => SweepShrinks
  BY DEF SweepShrinks
<1>2. CASE TripStep
  BY <1>1, <1>2, NoNoticeStep DEF TripStep, reqVars, handlerVars, NoNotice
<1>3. ASSUME NEW r \in Requests, Due(r), reqStatus[r] = "Pending", Expire(r), UNCHANGED sweep PROVE NoticeInv'
  <2>1. age[r] = Timeout
    BY <1>3, AgeFacts DEF Due
  <2> QED
    BY <1>1, <1>3, <2>1, ExpiryStep DEF ExpiryOf
<1>4. ASSUME NEW r \in Requests, DecideTooLate(r) PROVE NoticeInv'
  BY <1>3, <1>4 DEF DecideTooLate, handlerVars
<1>5. ASSUME NEW r \in Requests, Reject(r) PROVE NoticeInv'
  BY <1>1, <1>5, NoNoticeStep DEF Reject, handlerVars, NoNotice, TypeOK
<1>6. ASSUME NEW c \in Crew, CrewStep(c) PROVE NoticeInv'
  <2>1. ASSUME NEW t \in Trips, StartRead(c, t) \/ EndRead(c, t) PROVE NoticeInv'
    BY <1>1, <2>1, NoNoticeStep DEF StartRead, EndRead, reqVars, NoNotice
  <2>2. CASE StartWrite(c) \/ EndClean(c) \/ CrewGiveUp(c)
    BY <1>1, <2>2, NoNoticeStep DEF StartWrite, EndClean, CrewGiveUp, reqVars, NoNotice
  <2>3. ASSUME NEW r \in Requests, EndCheck(c, r) PROVE NoticeInv'
    BY <1>1, <1>3, <2>3, NoNoticeStep DEF EndCheck, reqVars, NoNotice
  <2>4. ASSUME NEW r \in Requests, EndRequest(c, r) PROVE NoticeInv'
    <3>1. reqStatus[r] = "none" /\ reqStatus' = [reqStatus EXCEPT ![r] = "Pending"]
      BY <2>4, RetripConstants DEF EndRequest, CreateRequest, NextRequest, Requests
    <3> QED
      BY <1>1, <2>4, <3>1, NoNoticeStep DEF EndRequest, CreateRequest, NoNotice, TypeOK
  <2> QED
    BY <1>6, <2>1, <2>2, <2>3, <2>4 DEF CrewStep
<1>7. ASSUME NEW v \in Reviewers, ReviewStep(v) PROVE NoticeInv'
  <2>1. ASSUME NEW r \in Requests, NEW kept, ApproveRead(v, r, kept) PROVE NoticeInv'
    BY <1>1, <2>1, NoNoticeStep DEF ApproveRead, reqVars, NoNotice
  <2>2. ASSUME NEW t, NEW kept, ProceedRead(v, t, kept) PROVE NoticeInv'
    BY <1>1, <2>2, NoNoticeStep DEF ProceedRead, reqVars, NoNotice
  <2>3. ASSUME NEW n, ApproveCommit(v, n) PROVE NoticeInv'
    <3>1. reqStatus[review[v].req] = "Pending"
      BY <2>3 DEF ApproveCommit, IInv, CarrierHoldsRequest
    <3> QED
      BY <1>1, <2>3, <3>1, NoNoticeStep DEF ApproveCommit, NoNotice, TypeOK
  <2>4. ASSUME NEW n, NEW r \in Requests, ProceedCommit(v, r, n) PROVE NoticeInv'
    <3>1. reqStatus[r] = "none"
      BY <2>4, RetripConstants DEF ProceedCommit, NextRequest, Requests
    <3> QED
      BY <1>1, <2>4, <3>1, NoNoticeStep DEF ProceedCommit, NoNotice, TypeOK
  <2>5. CASE ReviewAborts(v)
    BY <1>1, <2>5, NoNoticeStep DEF ReviewAborts, reqVars, NoNotice
  <2> QED
    BY <1>7, <2>1, <2>2, <2>3, <2>4, <2>5 DEF ReviewStep
<1> QED
  BY <1>2, <1>4, <1>5, <1>6, <1>7 DEF DecideStep

LEMMA NoticeStep == IInv /\ NoticeInv /\ [Next]_vars => NoticeInv'
<1> SUFFICES ASSUME IInv, NoticeInv, [Next]_vars PROVE NoticeInv'
  OBVIOUS
<1>1. TypeOK
  BY DEF IInv
<1>2. CASE UNCHANGED vars
  BY <1>1, <1>2, NoNoticeStep DEF vars, reqVars, handlerVars, NoNotice, SweepShrinks
<1>3. CASE Next
  BY <1>1, <1>3, TickNotices, SweepNotices, OthersNotices DEF Next
<1> QED
  BY <1>2, <1>3

LEMMA InitNotices == Init => NoticeInv
BY DEF Init, NoticeInv, OneNoticeEach, NoticesInWindow, SweepNotAhead, Notices

LEMMA NoticeInvariant == Spec => [](IInv /\ NoticeInv)
BY InitInv, InitNotices, InvStep, NoticeStep, PTL DEF Spec

\* However many workers' sweeps overlap with end calls and late decisions, each
\* notification of a request is sent exactly once, and matches its stamps
THEOREM NoticesOnce == Spec => []OneNoticeEach
<1>1. NoticeInv => OneNoticeEach
  BY DEF NoticeInv
<1> QED
  BY <1>1, NoticeInvariant, PTL

\* For all settings of the three windows, nothing is sent or expired early
THEOREM NoticesOnTime == Spec => []NoticesInWindow
<1>1. NoticeInv => NoticesInWindow
  BY DEF NoticeInv
<1> QED
  BY <1>1, NoticeInvariant, PTL

-----------------------------------------------------------------------------
(* The stops a continuation carries.                                       *)

HasStop(t, s) == stop[t][s] # "none"

\* A trip that is not created yet has no stop rows
NoStopsYet == \A t \in Trips, s \in Stops : status[t] = "absent" => ~HasStop(t, s)

\* What an approval is about to carry are rows of its source trip
KeptAreStops ==
    \A v \in Reviewers : review[v].op = "carry" =>
        \A s \in review[v].kept : HasStop(review[v].trip, s)

StopInv == NoStopsYet /\ KeptAreStops /\ CarriedStopsArrive

\* A scan or a screen removes and carries no stop and opens no continuation; the
\* edit form adds stops, but only to a trip that exists
SameStops ==
    /\ UNCHANGED <<carriedTo, newAssignment>>
    /\ \A t \in Trips, s \in Stops : HasStop(t, s) => HasStop(t, s)'
    /\ \A t \in Trips, s \in Stops : HasStop(t, s)' => HasStop(t, s) \/ status[t] # "absent"

LEMMA StopsStay == UNCHANGED <<stop, carriedTo, newAssignment>> => SameStops
BY DEF SameStops, HasStop

LEMMA TripStops == IInv /\ TripStep => SameStops
<1> SUFFICES ASSUME IInv, TripStep PROVE SameStops
  OBVIOUS
<1>0. TypeOK
  BY DEF IInv
<1>1. ASSUME NEW t \in Trips, NEW s \in Stops, NEW outcome \in {"Collected", "Skipped", "Missed"},
             NEW weight, Scan(t, s, outcome, weight)
      PROVE  SameStops
  <2>1. /\ stop' = [stop EXCEPT ![t][s] = outcome] /\ UNCHANGED carriedTo
        /\ stop[t][s] # "none" /\ UNCHANGED newAssignment
    BY <1>1 DEF Scan, Resolve, PendingStops, TripStep, reqVars
  <2>2. \A u \in Trips, x \in Stops : stop'[u][x] = stop[u][x] \/ (u = t /\ x = s /\ stop'[u][x] = outcome)
    BY <1>0, <2>1 DEF TypeOK, TripTypeOK
  <2> QED
    BY <2>1, <2>2 DEF SameStops, HasStop
<1>2. ASSUME NEW a \in Admins, NEW plan, FormStops(a, plan) PROVE SameStops
  <2>1. admin[a].trip \in Trips /\ status[admin[a].trip] # "absent"
    BY <1>2 DEF FormStops, IInv, RowsExist, Exists
  <2>2. PICK form \in [Stops -> StopStatus \ {"none"}] :
          stop' = [stop EXCEPT ![admin[a].trip] =
                     [s \in Stops |-> IF stop[admin[a].trip][s] # "none" THEN form[s]
                                      ELSE IF s \in plan THEN "Pending" ELSE "none"]]
    BY <1>2 DEF FormStops
  <2>3. \A t \in Trips : t # admin[a].trip => stop'[t] = stop[t]
    BY <1>0, <2>2 DEF TypeOK, TripTypeOK
  <2>4. \A s \in Stops : stop[admin[a].trip][s] # "none" => stop'[admin[a].trip][s] # "none"
    BY <1>0, <2>1, <2>2 DEF TypeOK, TripTypeOK
  <2>5. UNCHANGED <<carriedTo, newAssignment>>
    BY <1>2 DEF FormStops, TripStep, reqVars
  <2> QED
    BY <2>1, <2>3, <2>4, <2>5 DEF SameStops, HasStop
<1> QED
  BY <1>1, <1>2, StopsStay
     DEF TripStep, AdminStep, LoadStatus, LoadForm, ReloadForm, CheckForm, AdminStart, AdminComplete,
         AdminCancel, AdminEdit, AdminGiveUp, ChangeLogStatus, stopVars, reqVars

\* The writes of an approval: continuation n of the reviewer's trip
CarryStep(v, n) ==
    LET src == review[v].trip IN
    /\ review[v].op = "carry"
    /\ OpenContinuation(src, n, review[v].kept)
    /\ \E r \in Requests : OpenStep(v, r, n)

\* Whatever anyone does, either no stop appears, disappears or is carried, or a
\* continuation opens; and whoever begins an approval has read the stops it ticks
ReviewKeeps ==
    \A v \in Reviewers : review'[v].op = "carry" =>
        \/ review'[v] = review[v]
        \/ \A s \in review'[v].kept : HasStop(review'[v].trip, s)

LEMMA ReviewStops ==
  ASSUME IInv, NEW v \in Reviewers, ReviewStep(v)
  PROVE  (SameStops /\ ReviewKeeps) \/ \E n \in Trips : CarryStep(v, n)
<1>1. review \in [Reviewers -> ReviewSteps]
  BY DEF IInv, TypeOK
<1>2. \A t, s : s \in PendingStops(t) => HasStop(t, s)
  BY DEF PendingStops, HasStop
<1>3. \A r, t, kept : Carry(r, t, kept).trip = t /\ Carry(r, t, kept).kept = kept
  BY DEF Carry
<1>4. ASSUME NEW kept \in SUBSET Stops, NEW r \in Requests, ApproveRead(v, r, kept)
      PROVE  SameStops /\ ReviewKeeps
  <2>1. SameStops
    BY <1>4, StopsStay DEF ApproveRead, tripVars, stopVars, reqVars
  <2>2. review' = [review EXCEPT ![v] = Carry(r, assignment[r], kept)] /\ kept \subseteq PendingStops(assignment[r])
    BY <1>4 DEF ApproveRead
  <2>3. \A u \in Reviewers : review'[u] = review[u] \/ review'[u] = Carry(r, assignment[r], kept)
    BY <1>1, <2>2
  <2> QED
    BY <1>2, <1>3, <2>1, <2>2, <2>3 DEF ReviewKeeps
<1>5. ASSUME NEW kept \in SUBSET Stops, NEW t \in Trips, ProceedRead(v, t, kept)
      PROVE  SameStops /\ ReviewKeeps
  <2>1. SameStops
    BY <1>5, StopsStay DEF ProceedRead, tripVars, stopVars, reqVars
  <2>2. review' = [review EXCEPT ![v] = Carry(NoRequest, t, kept)] /\ kept \subseteq PendingStops(t)
    BY <1>5 DEF ProceedRead
  <2>3. \A u \in Reviewers : review'[u] = review[u] \/ review'[u] = Carry(NoRequest, t, kept)
    BY <1>1, <2>2
  <2> QED
    BY <1>2, <1>3, <2>1, <2>2, <2>3 DEF ReviewKeeps
<1>6. ASSUME NEW n \in Trips, ApproveCommit(v, n) PROVE CarryStep(v, n)
  <2>1. OpenStep(v, review[v].req, n) /\ review[v].req \in Requests
    BY <1>6, ApproveOpens
  <2> QED
    BY <1>6, <2>1 DEF ApproveCommit, CloseInto, CarryStep
<1>7. ASSUME NEW n \in Trips, NEW r \in Requests, ProceedCommit(v, r, n) PROVE CarryStep(v, n)
  <2>1. OpenStep(v, r, n)
    BY <1>7, ProceedOpens
  <2> QED
    BY <1>7, <2>1 DEF ProceedCommit, CloseInto, CarryStep
<1>8. CASE ReviewAborts(v)
  <2>1. SameStops /\ review' = [review EXCEPT ![v] = ReviewOff]
    BY <1>8, StopsStay DEF ReviewAborts, tripVars, stopVars, reqVars
  <2>2. \A u \in Reviewers : review'[u] = review[u] \/ review'[u].op = "idle"
    BY <1>1, <2>1 DEF ReviewOff
  <2> QED
    BY <2>1, <2>2 DEF ReviewKeeps
<1> QED
  BY <1>4, <1>5, <1>6, <1>7, <1>8 DEF ReviewStep

LEMMA NextStops ==
  ASSUME IInv, Next
  PROVE  (SameStops /\ ReviewKeeps) \/ \E v \in Reviewers, n \in Trips : CarryStep(v, n)
<1>1. UNCHANGED review => ReviewKeeps
  BY DEF ReviewKeeps
<1>2. CASE TripStep
  BY <1>1, <1>2, TripStops DEF TripStep, handlerVars
<1>3. CASE Tick
  BY <1>1, <1>3, StopsStay DEF Tick, tripVars, stopVars, handlerVars
<1>4. ASSUME NEW c \in Crew, CrewStep(c) PROVE SameStops /\ ReviewKeeps
  BY <1>1, <1>4, StopsStay
     DEF CrewStep, StartRead, StartWrite, EndRead, EndCheck, EndClean, EndRequest, CrewGiveUp,
         Expire, CreateRequest, tripVars, stopVars, reqVars
<1>5. CASE DecideStep
  BY <1>1, <1>5, StopsStay DEF DecideStep, DecideTooLate, Reject, Expire, tripVars, stopVars, handlerVars
<1>6. ASSUME NEW w \in Workers, SweepStep(w) PROVE SameStops /\ ReviewKeeps
  BY <1>1, <1>6, StopsStay
     DEF SweepStep, SweepStart, SweepCrash, SweepRow, SweepExpire, SweepEscalate, SweepRemind,
         SweepSkip, Expire, tripVars, stopVars, reqVars
<1> QED
  BY <1>2, <1>3, <1>4, <1>5, <1>6, ReviewStops DEF Next

\* A request that was given a continuation keeps both its trips
LEMMA ApprovedStays ==
  ASSUME IInv, RequestStep, NEW r \in Requests, newAssignment[r] # NoTrip
  PROVE  assignment'[r] = assignment[r] /\ newAssignment'[r] = newAssignment[r]
<1>1. reqStatus[r] = "Approved"
  BY DEF IInv, ApprovalOwnsContinuation
<1> QED
  BY <1>1 DEF RequestStep, IdleStep, SameRequests, RaiseStep, DeclineStep, OpenStep, IInv, TypeOK

\* Any other step leaves every stop where it is
LEMMA NothingCarried ==
  ASSUME IInv, IInv', StopInv, RequestStep, SameStops, ReviewKeeps
  PROVE  StopInv'
<1>1. \A t \in Trips : status'[t] = "absent" => status[t] = "absent"
  BY DEF RequestStep, IdleStep, RaiseStep, DeclineStep, OpenStep, SameTrips, NewTrip
<1>2. NoStopsYet'
  BY <1>1 DEF StopInv, NoStopsYet, SameStops
<1>3. KeptAreStops'
  <2> SUFFICES ASSUME NEW v \in Reviewers, review'[v].op = "carry", NEW s \in review'[v].kept
               PROVE  stop'[review'[v].trip][s] # "none"
    BY DEF KeptAreStops, HasStop
  <2>1. HasStop(review'[v].trip, s)
    BY DEF StopInv, KeptAreStops, ReviewKeeps
  <2>2. review'[v].trip \in Trips
    BY DEF IInv, RowsExist, Exists
  <2>3. s \in Stops
    BY DEF IInv, TypeOK, ReviewSteps
  <2> QED
    BY <2>1, <2>2, <2>3 DEF SameStops, HasStop
<1>5. ASSUME NEW t \in Trips, NEW s \in Stops, carriedTo'[t][s] # NoTrip
      PROVE  /\ stop'[carriedTo'[t][s]][s] # "none"
             /\ \E r \in Requests : assignment'[r] = t /\ newAssignment'[r] = carriedTo'[t][s]
  <2>1. carriedTo[t][s] \in Trips /\ carriedTo'[t][s] = carriedTo[t][s]
    BY <1>5 DEF SameStops, IInv, TypeOK, TripTypeOK
  <2>2. PICK r \in Requests : assignment[r] = t /\ newAssignment[r] = carriedTo[t][s]
    BY <1>5, <2>1 DEF StopInv, CarriedStopsArrive
  <2>3. HasStop(carriedTo[t][s], s)
    BY <1>5, <2>1 DEF StopInv, CarriedStopsArrive, HasStop
  <2> QED
    BY <1>5, <2>1, <2>2, <2>3, ApprovedStays DEF SameStops, HasStop
<1> QED
  BY <1>2, <1>3, <1>5 DEF StopInv, CarriedStopsArrive, HasStop

\* Opening a continuation fills a trip nothing pointed to, with rows of its source
LEMMA CarryArrives ==
  ASSUME IInv, IInv', StopInv, NEW v \in Reviewers, NEW n \in Trips, CarryStep(v, n)
  PROVE  StopInv'
<1> DEFINE src  == review[v].trip
           kept == review[v].kept
<1>1. PICK r \in Requests : OpenStep(v, r, n)
  BY DEF CarryStep
<1>2. /\ src \in Trips /\ src # n /\ status[n] = "absent" /\ n # NoTrip
      /\ \A t \in Trips : status'[t] = "absent" => status[t] = "absent" /\ t # n
      /\ kept \in SUBSET Stops
  BY <1>1 DEF OpenStep, NewTrip, Exists, Trips, NoTrip, CarryStep, IInv, TypeOK, ReviewSteps
<1>3. \A s \in kept : HasStop(src, s)
  BY DEF CarryStep, StopInv, KeptAreStops
<1>4. \A t \in Trips, s \in Stops :
        /\ t # n => HasStop(t, s)' = HasStop(t, s)
        /\ HasStop(n, s)' = (s \in kept)
        /\ carriedTo'[t][s] = IF t = src /\ s \in kept THEN n ELSE carriedTo[t][s]
  <2> DEFINE row == [s \in Stops |-> IF s \in kept THEN "Pending" ELSE "none"]
  <2>1. stop' = [stop EXCEPT ![n] = row]
    BY DEF CarryStep, OpenContinuation
  <2>2. \A s \in Stops : row[s] # "none" <=> s \in kept
    OBVIOUS
  <2>3. carriedTo' = [carriedTo EXCEPT ![src] = [s \in Stops |-> IF s \in kept THEN n ELSE @[s]]]
    BY DEF CarryStep, OpenContinuation
  <2>4. \A t \in Trips, s \in Stops :
          carriedTo'[t][s] = IF t = src /\ s \in kept THEN n ELSE carriedTo[t][s]
    BY <1>2, <2>3 DEF IInv, TypeOK, TripTypeOK
  <2> HIDE DEF row, src, kept
  <2>5. \A t \in Trips : stop'[t] = IF t = n THEN row ELSE stop[t]
    BY <2>1 DEF IInv, TypeOK, TripTypeOK
  <2> QED
    BY <2>2, <2>4, <2>5 DEF HasStop
<1>5. NoStopsYet'
  BY <1>2, <1>4 DEF StopInv, NoStopsYet
<1>6. \A s \in Stops : ~HasStop(n, s)
  BY <1>2 DEF StopInv, NoStopsYet
<1>7. KeptAreStops'
  <2> SUFFICES ASSUME NEW u \in Reviewers, review'[u].op = "carry", NEW s \in review'[u].kept
               PROVE  stop'[review'[u].trip][s] # "none"
    BY DEF KeptAreStops, HasStop
  <2>1. review'[u] = review[u]
    BY <1>1 DEF OpenStep, ReviewOff, IInv, TypeOK
  <2>2. review[u].trip \in Trips /\ review[u].trip # n /\ s \in Stops
    BY <1>2, <2>1 DEF IInv, RowsExist, Exists, TypeOK, ReviewSteps
  <2>3. HasStop(review[u].trip, s)
    BY <2>1 DEF StopInv, KeptAreStops
  <2> QED
    BY <1>4, <2>1, <2>2, <2>3 DEF HasStop
<1>8. /\ assignment'[r] = src /\ newAssignment'[r] = n
      /\ \A q \in Requests : q # r => assignment'[q] = assignment[q] /\ newAssignment'[q] = newAssignment[q]
  BY <1>1 DEF OpenStep, IInv, TypeOK
<1>9. \A q \in Requests : q # r /\ newAssignment[q] # NoTrip =>
        /\ newAssignment[q] \in Trips /\ newAssignment[q] # n
        /\ assignment[q] \in Trips /\ assignment[q] # n
  BY <1>2 DEF IInv, TypeOK, ApprovalOwnsContinuation, RowsExist, Exists
<1>10. newAssignment[r] = NoTrip
  BY <1>1 DEF OpenStep, IInv, ApprovalOwnsContinuation
<1>11. ASSUME NEW t \in Trips, NEW s \in Stops, carriedTo'[t][s] # NoTrip
       PROVE  /\ stop'[carriedTo'[t][s]][s] # "none"
              /\ \E q \in Requests : assignment'[q] = t /\ newAssignment'[q] = carriedTo'[t][s]
  <2>1. CASE t = src /\ s \in kept
    <3>1. carriedTo'[t][s] = n /\ stop'[n][s] # "none"
      BY <1>4, <2>1 DEF HasStop
    <3> QED
      BY <1>8, <2>1, <3>1
  <2>2. CASE ~(t = src /\ s \in kept)
    <3>1. carriedTo'[t][s] = carriedTo[t][s] /\ carriedTo[t][s] # NoTrip
      BY <1>4, <1>11, <2>2
    <3>2. HasStop(carriedTo[t][s], s) /\ \E q \in Requests : assignment[q] = t /\ newAssignment[q] = carriedTo[t][s]
      BY <3>1 DEF StopInv, CarriedStopsArrive, HasStop
    <3>3. PICK q \in Requests : assignment[q] = t /\ newAssignment[q] = carriedTo[t][s]
      BY <3>2
    <3>4. q # r /\ carriedTo[t][s] \in Trips /\ carriedTo[t][s] # n
      BY <1>9, <1>10, <3>1, <3>3
    <3>5. stop'[carriedTo'[t][s]][s] # "none"
      BY <1>4, <3>1, <3>2, <3>4 DEF HasStop
    <3> QED
      BY <1>8, <3>1, <3>3, <3>4, <3>5
  <2> QED
    BY <2>1, <2>2
<1> QED
  BY <1>5, <1>7, <1>11 DEF StopInv, CarriedStopsArrive, HasStop

LEMMA StopStep == IInv /\ StopInv /\ [Next]_vars => StopInv'
<1> SUFFICES ASSUME IInv, StopInv, [Next]_vars PROVE StopInv'
  OBVIOUS
<1>1. IInv'
  BY InvStep
<1>2. CASE Next
  BY <1>1, <1>2, StepKind, NextStops, NothingCarried, CarryArrives
<1>3. CASE UNCHANGED vars
  BY <1>3 DEF vars, tripVars, stopVars, reqVars, handlerVars, StopInv, NoStopsYet, KeptAreStops,
              CarriedStopsArrive, HasStop
<1> QED
  BY <1>2, <1>3

LEMMA InitStops == Init => StopInv
<1> SUFFICES ASSUME Init PROVE StopInv
  OBVIOUS
<1>1. \A t \in Trips, s \in Stops : status[t] = "absent" => stop[t][s] = "none"
  BY DEF Init, TripInit
<1> QED
  BY <1>1 DEF Init, TripInit, StopInv, NoStopsYet, KeptAreStops, CarriedStopsArrive, HasStop, ReviewOff

\* For any number of stops, trips and supervisors, whatever is scanned, cancelled
\* or closed while an approval is under way: a stop marked "Assigned to Next
\* Trip" is on the trip an approved request of its trip leads to
\* (approve_retrip, clone_collection_points)
THEOREM CarriedArrive == Spec => []CarriedStopsArrive
<1>1. IInv /\ StopInv /\ [Next]_vars => (IInv /\ StopInv)'
  BY InvStep, StopStep
<1>2. Init => IInv /\ StopInv
  BY InitInv, InitStops
<1>3. StopInv => CarriedStopsArrive
  BY DEF StopInv
<1> QED
  BY <1>1, <1>2, <1>3, PTL DEF Spec

=============================================================================
