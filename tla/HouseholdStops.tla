--------------------------- MODULE HouseholdStops ---------------------------
(***************************************************************************)
(* One household on the trips of one day: its stop on the first trip and   *)
(* on the continuations a supervisor opens.  The crew marks the stop       *)
(* Collect Later or Not Available or records the waste; the customer taps  *)
(* "I'm home now" (app/services/customer_availability); a miss of a stop   *)
(* flagged that way opens a MISSED_PICKUP ticket.                          *)
(*                                                                         *)
(* Only the tap locks the stop's row.  A mark writes its own columns from  *)
(* a copy, each of its statements commits on its own, and the ticket       *)
(* follows the mark: what happens in between is what this module is about. *)
(* Every writer here sets is_collected together with status, so status     *)
(* stands for both.                                                        *)
(***************************************************************************)
EXTENDS Naturals

CONSTANTS
    N,          \* bound: trips of the day, the first and its continuations
    Handlers,   \* requests of the crew the web processes serve at once
    Devices,    \* devices the customer is logged in on
    MaxMarks,   \* bound: requests of the crew
    MaxTaps     \* bound: taps of the customer

ASSUME StopConstants == {N, MaxMarks, MaxTaps} \subseteq Nat /\ N > 0

VARIABLES
    trip,       \* status of each trip, "none" before it is opened
    stop,       \* the household's row on each trip
    crew,       \* the request each handler serves
    tap,        \* the request of each of the customer's devices
    approval,   \* the supervisor's approval of a Re-Trip
    alerts,     \* times the crew was told of the customer, per stop
    tickets,    \* tickets of each stop's idempotency key, by who opened them
    said,       \* the customer has said so for the stop, before the approval if it
                \* is carried over (history)
    miss,       \* what was known when the miss of each stop was recorded (history)
    marks,      \* requests of the crew so far
    taps        \* taps so far

vars == <<trip, stop, crew, tap, approval, alerts, tickets, said, miss, marks, taps>>

-----------------------------------------------------------------------------

Trips == 1..N
STATUS_PENDING == "Pending"
STATUS_COLLECTED == "Collected"
STATUS_COLLECT_LATER == "Collect Later"
STATUS_MISSED == "Not Available"
Marks == {STATUS_MISSED, STATUS_COLLECT_LATER, STATUS_COLLECTED}
Statuses == {"none", STATUS_PENDING, STATUS_MISSED, STATUS_COLLECT_LATER, STATUS_COLLECTED}
TripStatuses == {"none", "Scheduled", "In Progress", "Completed"}

\* flagged: customer_available_at is set
Stop(status, flagged) == [status |-> status, flagged |-> flagged]
NoStop == Stop("none", FALSE)

\* mark: what the crew reports; flagged: customer_available_at as loaded; said: the
\* truth about it then
Request(op, t, mark, flagged, known) ==
    [op |-> op, trip |-> t, mark |-> mark, flagged |-> flagged, said |-> known]
NoRequest == Request("idle", 1, STATUS_COLLECTED, FALSE, FALSE)

\* running: the trip was In Progress in the snapshot of the transaction
Tap(op, t, running) == [op |-> op, trip |-> t, running |-> running]
NoTap == Tap("idle", 1, FALSE)

Approval(op, t, flagged, known) ==
    [op |-> op, trip |-> t, flagged |-> flagged, said |-> known]
NoApproval == Approval("idle", 1, FALSE, FALSE)

\* "told": the customer had said so before the stop was loaded; "untold": not; a
\* miss is "excused" when its request was cut short before the ticket was there
Misses == {"none", "told", "untold", "excused"}

Stops == [status : Statuses, flagged : BOOLEAN]
Requests == [op : {"idle", "gated", "loaded", "look", "file"}, trip : Trips, mark : Marks,
             flagged : BOOLEAN, said : BOOLEAN]
Taps == [op : {"idle", "chosen", "alert"}, trip : Trips, running : BOOLEAN]
Approvals == [op : {"idle", "read"}, trip : Trips, flagged : BOOLEAN, said : BOOLEAN]

TypeOK ==
    /\ trip \in [Trips -> TripStatuses]
    /\ stop \in [Trips -> Stops]
    /\ \A t \in Trips : trip[t] = "none" <=> stop[t].status = "none"
    /\ crew \in [Handlers -> Requests]
    /\ tap \in [Devices -> Taps]
    /\ approval \in Approvals
    /\ alerts \in [Trips -> Nat]
    /\ tickets \in [Trips -> [Handlers -> Nat]]
    /\ said \in [Trips -> BOOLEAN]
    /\ miss \in [Trips -> Misses]
    /\ marks \in 0..MaxMarks
    /\ taps \in 0..MaxTaps

Init ==
    /\ trip = [t \in Trips |-> IF t = 1 THEN "Scheduled" ELSE "none"]
    /\ stop = [t \in Trips |-> IF t = 1 THEN Stop(STATUS_PENDING, FALSE) ELSE NoStop]
    /\ crew = [h \in Handlers |-> NoRequest]
    /\ tap = [d \in Devices |-> NoTap]
    /\ approval = NoApproval
    /\ alerts = [t \in Trips |-> 0]
    /\ tickets = [t \in Trips |-> [h \in Handlers |-> 0]]
    /\ said = [t \in Trips |-> FALSE]
    /\ miss = [t \in Trips |-> "none"]
    /\ marks = 0
    /\ taps = 0

-----------------------------------------------------------------------------
\* The trips

mark_started(t) ==
    /\ trip[t] = "Scheduled"
    /\ trip' = [trip EXCEPT ![t] = "In Progress"]
    /\ UNCHANGED <<stop, crew, tap, approval, alerts, tickets, said, miss, marks, taps>>

\* By the driver when no stop is left, by the office at any time; a trip never
\* started gets its start here
mark_ended(t) ==
    /\ trip[t] \in {"Scheduled", "In Progress"}
    /\ trip' = [trip EXCEPT ![t] = "Completed"]
    /\ UNCHANGED <<stop, crew, tap, approval, alerts, tickets, said, miss, marks, taps>>

\* approve_retrip: the pending stops and their flags are those of its snapshot
ApproveReads(t) ==
    /\ approval.op = "idle"
    /\ t + 1 \in Trips
    /\ trip[t] = "In Progress"
    /\ trip[t + 1] = "none"
    /\ stop[t].status \notin {STATUS_COLLECTED, STATUS_MISSED}
    /\ approval' = Approval("read", t, stop[t].flagged, said[t])
    /\ UNCHANGED <<trip, stop, crew, tap, alerts, tickets, said, miss, marks, taps>>

\* Mutants of Carried: the continuation gets no row; its row is not flagged
CarriedNothing(flagged) == NoStop
CarriedFresh(flagged) == Stop(STATUS_PENDING, FALSE)

\* The stop of a continuation: fresh, but still flagged
Carried(flagged) == Stop(STATUS_PENDING, flagged)

ApproveCommits ==
    LET t == approval.trip IN
    /\ approval.op = "read"
    /\ trip' = [trip EXCEPT ![t] = "Completed", ![t + 1] = "Scheduled"]
    /\ stop' = [stop EXCEPT ![t + 1] = Carried(approval.flagged)]
    /\ said' = [said EXCEPT ![t + 1] = approval.said]
    /\ approval' = NoApproval
    /\ UNCHANGED <<crew, tap, alerts, tickets, miss, marks, taps>>

ApproveAborts ==
    /\ approval.op = "read"
    /\ approval' = NoApproval
    /\ UNCHANGED <<trip, stop, crew, tap, alerts, tickets, said, miss, marks, taps>>

-----------------------------------------------------------------------------
\* The crew's requests

Serve(h, request) == crew' = [crew EXCEPT ![h] = request]

\* require_trip_started: an ended trip has a start too
HasStart(t) == trip[t] \in {"In Progress", "Completed"}

\* mark_household_status, finalize_waste_collection: the gate
Report(h, t, mark) ==
    /\ crew[h].op = "idle"
    /\ HasStart(t)
    /\ marks < MaxMarks
    /\ marks' = marks + 1
    /\ Serve(h, Request("gated", t, mark, FALSE, FALSE))
    /\ UNCHANGED <<trip, stop, tap, approval, alerts, tickets, said, miss, taps>>

\* A collected household is refused
Load(h) ==
    LET t == crew[h].trip IN
    /\ crew[h].op = "gated"
    /\ crew[h].mark # STATUS_COLLECTED
    /\ Serve(h, IF stop[t].status = STATUS_COLLECTED THEN NoRequest
                ELSE Request("loaded", t, crew[h].mark, stop[t].flagged, said[t]))
    /\ UNCHANGED <<trip, stop, tap, approval, alerts, tickets, said, miss, marks, taps>>

\* mark_status saves its columns over whatever the row has become; with a miss
\* of a stop it knows as flagged it goes on to the ticket
mark_status(h) ==
    LET r == crew[h]
        missed == r.mark = STATUS_MISSED IN
    /\ r.op = "loaded"
    /\ stop' = [stop EXCEPT ![r.trip].status = r.mark]
    /\ miss' = [miss EXCEPT ![r.trip] = IF ~missed THEN "none"
                                        ELSE IF r.said THEN "told" ELSE "untold"]
    /\ Serve(h, IF missed /\ r.flagged THEN [r EXCEPT !.op = "look"] ELSE NoRequest)
    /\ UNCHANGED <<trip, tap, approval, alerts, tickets, said, marks, taps>>

\* finalize_waste_collection commits the WasteCollection together with the stop
mark_collected(h) ==
    LET t == crew[h].trip IN
    /\ crew[h].op = "gated"
    /\ crew[h].mark = STATUS_COLLECTED
    /\ stop' = [stop EXCEPT ![t].status = STATUS_COLLECTED]
    /\ miss' = [miss EXCEPT ![t] = "none"]
    /\ Serve(h, NoRequest)
    /\ UNCHANGED <<trip, tap, approval, alerts, tickets, said, marks, taps>>

\* Mutant of missed_pickup_ticket: every miss opens its own
NeverFound(t) == FALSE

\* missed_pickup_ticket: the key is the stop's, not the customer's
missed_pickup_ticket(t) == \E h \in Handlers : tickets[t][h] > 0

raise_missed_pickup_ticket(h) ==
    /\ crew[h].op = "look"
    /\ Serve(h, IF missed_pickup_ticket(crew[h].trip) THEN NoRequest
                ELSE [crew[h] EXCEPT !.op = "file"])
    /\ UNCHANGED <<trip, stop, tap, approval, alerts, tickets, said, miss, marks, taps>>

_create_ticket(h) ==
    /\ crew[h].op = "file"
    /\ tickets' = [tickets EXCEPT ![crew[h].trip][h] = @ + 1]
    /\ Serve(h, NoRequest)
    /\ UNCHANGED <<trip, stop, tap, approval, alerts, said, miss, marks, taps>>

\* The process dies, a transaction is rolled back, or the complaint masters are
\* missing: a ticket failure is logged and forgotten
CutShort(h) ==
    LET t == crew[h].trip IN
    /\ crew[h].op # "idle"
    /\ miss' = IF crew[h].op \in {"look", "file"} /\ miss[t] = "told"
               THEN [miss EXCEPT ![t] = "excused"] ELSE miss
    /\ Serve(h, NoRequest)
    /\ UNCHANGED <<trip, stop, tap, approval, alerts, tickets, said, marks, taps>>

-----------------------------------------------------------------------------
\* The customer's taps

\* todays_stop: the row that was not carried away
Todays(t) == trip[t] # "none" /\ (t + 1 \in Trips => trip[t + 1] = "none")

\* The transaction begins: the stop is chosen and the trip is read as of now
ImHome(d, t) ==
    /\ tap[d].op = "idle"
    /\ Todays(t)
    /\ taps < MaxTaps
    /\ taps' = taps + 1
    /\ tap' = [tap EXCEPT ![d] = Tap("chosen", t, trip[t] = "In Progress")]
    /\ UNCHANGED <<trip, stop, crew, approval, alerts, tickets, said, miss, marks>>

\* Mutant of FirstTap: every tap alerts
AnyTap(t) == TRUE

\* One alert per stop
FirstTap(t) == ~stop[t].flagged

\* select_for_update reads the row as it is now and keeps it until the commit
mark_customer_available(d) ==
    LET t == tap[d].trip
        accepted == stop[t].status = STATUS_COLLECT_LATER /\ tap[d].running /\ FirstTap(t) IN
    /\ tap[d].op = "chosen"
    /\ stop' = IF accepted THEN [stop EXCEPT ![t].flagged = TRUE] ELSE stop
    /\ said' = IF accepted THEN [said EXCEPT ![t] = TRUE] ELSE said
    /\ tap' = [tap EXCEPT ![d] = IF accepted THEN Tap("alert", t, TRUE) ELSE NoTap]
    /\ UNCHANGED <<trip, crew, approval, alerts, tickets, miss, marks, taps>>

_alert_crew(d) ==
    /\ tap[d].op = "alert"
    /\ alerts' = [alerts EXCEPT ![tap[d].trip] = @ + 1]
    /\ tap' = [tap EXCEPT ![d] = NoTap]
    /\ UNCHANGED <<trip, stop, crew, approval, tickets, said, miss, marks, taps>>

\* The process dies, before the commit or between the commit and the alert
TapLost(d) ==
    /\ tap[d].op # "idle"
    /\ tap' = [tap EXCEPT ![d] = NoTap]
    /\ UNCHANGED <<trip, stop, crew, approval, alerts, tickets, said, miss, marks, taps>>

-----------------------------------------------------------------------------

CrewStep(h) ==
    \/ \E t \in Trips, mark \in Marks : Report(h, t, mark)
    \/ Load(h)
    \/ mark_status(h)
    \/ mark_collected(h)
    \/ raise_missed_pickup_ticket(h)
    \/ _create_ticket(h)
    \/ CutShort(h)

CustomerStep(d) ==
    \/ \E t \in Trips : ImHome(d, t)
    \/ mark_customer_available(d)
    \/ _alert_crew(d)
    \/ TapLost(d)

TripStep ==
    \/ \E t \in Trips : mark_started(t) \/ mark_ended(t) \/ ApproveReads(t)
    \/ ApproveCommits
    \/ ApproveAborts

Next ==
    \/ \E h \in Handlers : CrewStep(h)
    \/ \E d \in Devices : CustomerStep(d)
    \/ TripStep

Spec == Init /\ [][Next]_vars

-----------------------------------------------------------------------------

\* However many devices the customer taps on, and however their requests cross
\* the crew's marks and the supervisor's approval, the crew is told of one stop
\* at most once (mark_customer_available: "a second tap must not spam the crew").
OneAlert == \A t \in Trips : alerts[t] <= 1

\* The miss of a household that said it was home is on record: once no request is
\* about to open the ticket, the stop has one, on the first trip as on a
\* continuation, and whatever tickets the household's other stops have
\* (mark_status, raise_missed_pickup_ticket, approve_retrip). What the customer
\* said counts from the moment the crew's request loads the stop, or the approval
\* reads it; a ticket that failed is excused, as raise_missed_pickup_ticket never
\* raises.
MissOnRecord ==
    \A t \in Trips :
        /\ miss[t] = "told"
        /\ \A h \in Handlers : crew[h].trip = t => crew[h].op \notin {"look", "file"}
        => missed_pickup_ticket(t)

\* Repeating a mark opens no second ticket of the stop: one handler opens at most
\* one, and a second takes two requests under way at once, both having looked
\* before either opened its own (raise_missed_pickup_ticket: "Idempotent").
TicketsNeedOverlap == \A t \in Trips, h \in Handlers : tickets[t][h] <= 1

=============================================================================
