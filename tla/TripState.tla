------------------------------ MODULE TripState ------------------------------
(***************************************************************************)
(* The rows every daily-operations component shares: the day's trips       *)
(* (DailyTripAssignment), their collection stops and their trip logs, with *)
(* the model methods that move a trip through its life and the operations  *)
(* of the admin screens and of the bin scanner.                            *)
(*                                                                         *)
(* Trips are numbered in the order they are created: trip 1 is the day's   *)
(* generated assignment, the others are continuations opened by Re-Trip.   *)
(* The number stands for both unique_id and scheduled_time, by which the   *)
(* operator app orders a crew's trips.                                     *)
(***************************************************************************)
EXTENDS Naturals, FiniteSets

CONSTANTS
    Stops,      \* the stops the source trip has, identified by (collection point, bin)
    Admins,     \* sessions of the admin screen
    MaxTrips    \* bound: assignments that may exist on the plan's day

ASSUME TripConstants == MaxTrips \in Nat \ {0}

VARIABLES
    status,     \* DailyTripAssignment.status, "absent" before the row exists
    started,    \* actual_start_at is stamped
    stop,       \* stop[t][s]: DailyTripCollectionPoint.status, "none" if t has no such row
    carriedTo,  \* carried_to_assignment_id of a source stop
    weighed,    \* some bin event of the trip recorded a weight above zero
    log,        \* DailyTripLog.log_status, "None" before the row exists
    admin,      \* requests of the admin screen, with the copy of the row they loaded
    unstamped   \* history: a save of the whole row took t's start, or completed it without one

stopVars == <<stop, carriedTo, weighed, log>>
tripVars == <<status, started, stopVars, admin, unstamped>>

Trips == 1..MaxTrips
NoTrip == 0

TripStatus == {"absent", "Scheduled", "In Progress", "Completed", "Cancelled"}
OpenStatus == {"Scheduled", "In Progress"}
StopStatus == {"none", "Pending", "Skipped", "Collected", "Missed"}
ResolvedStop == {"Collected", "Missed"}
LogStatus == {"None", "Draft", "Submitted", "Verified"}

AdminOff == [op |-> "idle", trip |-> NoTrip, seen |-> "absent", begun |-> FALSE]
AdminOps == {"status", "form", "edit", "save", "stops"}
AdminSteps == [op : AdminOps, trip : Trips, seen : TripStatus, begun : BOOLEAN]

TripTypeOK ==
    /\ status \in [Trips -> TripStatus]
    /\ started \in [Trips -> BOOLEAN]
    /\ stop \in [Trips -> [Stops -> StopStatus]]
    /\ carriedTo \in [Trips -> [Stops -> Trips \cup {NoTrip}]]
    /\ weighed \in [Trips -> BOOLEAN]
    /\ log \in [Trips -> LogStatus]
    /\ admin \in [Admins -> AdminSteps \cup {AdminOff}]
    /\ unstamped \in [Trips -> BOOLEAN]

\* Generation left one Scheduled trip with its stops cloned
TripInit ==
    /\ status = [t \in Trips |-> IF t = 1 THEN "Scheduled" ELSE "absent"]
    /\ started = [t \in Trips |-> FALSE]
    /\ stop = [t \in Trips |-> [s \in Stops |-> IF t = 1 THEN "Pending" ELSE "none"]]
    /\ carriedTo = [t \in Trips |-> [s \in Stops |-> NoTrip]]
    /\ weighed = [t \in Trips |-> FALSE]
    /\ log = [t \in Trips |-> "None"]
    /\ admin = [a \in Admins |-> AdminOff]
    /\ unstamped = [t \in Trips |-> FALSE]

-----------------------------------------------------------------------------
(* Queries of the model and of the operator app.                           *)

\* pending_bin_stops: a Skipped (collect later) stop is still pending.  A stop
\* that was carried over keeps its status and so stays pending on its source.
PendingStops(t) == {s \in Stops : stop[t][s] \in {"Pending", "Skipped"}}

\* assignment_is_finished
Finished(t) == status[t] = "Completed" \/ PendingStops(t) = {}

Visible == {t \in Trips : status[t] \notin {"absent", "Cancelled"}}
Unfinished == {t \in Visible : ~Finished(t)}

\* find_active_assignment_for_operator: the earliest trip with work left, and
\* when none has work left the earliest trip, whatever its status.
IsActive(t) ==
    LET pool == IF Unfinished # {} THEN Unfinished ELSE Visible
    IN  t \in pool /\ \A u \in pool : t <= u

-----------------------------------------------------------------------------
(* The lifecycle methods.  A caller holds an instance it loaded earlier, so *)
(* each decides on the status it saw and writes over the current row.      *)

\* mark_started on an instance loaded with status seen and start stamp begun
MarkStarted(t, seen, begun) ==
    /\ status' = [status EXCEPT ![t] = IF seen = "Scheduled" THEN "In Progress" ELSE @]
    /\ started' = [started EXCEPT ![t] = @ \/ ~begun]

\* mark_ended only skips a trip it saw Completed (ended): it also closes a
\* Cancelled one.  An instance loaded without a start stamp (begun) gets one.
StatusAfterEnd(t, ended) == IF ended THEN status[t] ELSE "Completed"

\* Mutant: the start is not backfilled
StartNotBackfilled(t, ended, begun) == started[t]
StartedAfterEnd(t, ended, begun) == started[t] \/ (~ended /\ ~begun)

MarkEnded(t, ended, begun) ==
    /\ status' = [status EXCEPT ![t] = StatusAfterEnd(t, ended)]
    /\ started' = [started EXCEPT ![t] = StartedAfterEnd(t, ended, begun)]

-----------------------------------------------------------------------------
(* The admin screen.  A request loads the row and writes later: the two    *)
(* lifecycle methods name their columns, a cancel and the edit form save   *)
(* every column of the copy.                                               *)

Loading(op, t) == [op |-> op, trip |-> t, seen |-> status[t], begun |-> started[t]]

\* PATCH trip-assignments/{id}/status/
LoadStatus(a, t) ==
    /\ admin[a].op = "idle" /\ status[t] # "absent"
    /\ admin' = [admin EXCEPT ![a] = Loading("status", t)]
    /\ UNCHANGED <<status, started, stopVars, unstamped>>

\* PATCH trip-assignments/{id}/: "Only Scheduled assignments can be edited.",
\* then update loads the row a second time
LoadForm(a, t) ==
    /\ admin[a].op = "idle" /\ status[t] = "Scheduled"
    /\ admin' = [admin EXCEPT ![a] = Loading("form", t)]
    /\ UNCHANGED <<status, started, stopVars, unstamped>>

ReloadForm(a) ==
    /\ admin[a].op = "form"
    /\ admin' = [admin EXCEPT ![a] = Loading("edit", admin[a].trip)]
    /\ UNCHANGED <<status, started, stopVars, unstamped>>

Done(a) == admin' = [admin EXCEPT ![a] = AdminOff]

\* The copy goes Scheduled -> In Progress -> Completed
AdminStart(a) ==
    /\ admin[a].op = "status" /\ admin[a].seen = "Scheduled"
    /\ MarkStarted(admin[a].trip, admin[a].seen, admin[a].begun)
    /\ Done(a)
    /\ UNCHANGED <<stopVars, unstamped>>

AdminComplete(a) ==
    /\ admin[a].op = "status" /\ admin[a].seen = "In Progress"
    /\ MarkEnded(admin[a].trip, FALSE, admin[a].begun)
    /\ Done(a)
    /\ UNCHANGED <<stopVars, unstamped>>

\* save(): all columns as the copy has them, the start stamp too
SaveRow(t, new, begun) ==
    /\ status' = [status EXCEPT ![t] = new]
    /\ started' = [started EXCEPT ![t] = begun]
    /\ unstamped' = [unstamped EXCEPT ![t] =
                        @ \/ (~begun /\ (started[t] \/ new = "Completed"))]

\* Cancelled is accepted from every status, Completed included
AdminCancel(a) ==
    /\ admin[a].op = "status"
    /\ SaveRow(admin[a].trip, "Cancelled", admin[a].begun)
    /\ Done(a)
    /\ UNCHANGED stopVars

\* "Trip plan already assigned for this date.": no other trip of the day is open
CheckForm(a) ==
    /\ admin[a].op = "edit"
    /\ \A u \in Trips \ {admin[a].trip} : status[u] \in {"absent", "Cancelled"}
    /\ admin' = [admin EXCEPT ![a].op = "save"]
    /\ UNCHANGED <<status, started, stopVars, unstamped>>

\* The form may set any status
AdminEdit(a) ==
    /\ admin[a].op = "save"
    /\ \E new \in {admin[a].seen} \cup (TripStatus \ {"absent"}) :
         SaveRow(admin[a].trip, new, admin[a].begun)
    /\ admin' = [admin EXCEPT ![a].op = "stops"]
    /\ UNCHANGED stopVars

\* After the row come the stops: one Pending row for each stop of the plan that
\* the trip lacks, then the form's own values for the rows it named
FormStops(a, plan) ==
    LET t == admin[a].trip IN
    /\ admin[a].op = "stops"
    /\ \E form \in [Stops -> StopStatus \ {"none"}] :
         stop' = [stop EXCEPT ![t] =
                    [s \in Stops |-> IF stop[t][s] # "none" THEN form[s]
                                     ELSE IF s \in plan THEN "Pending" ELSE "none"]]
    /\ Done(a)
    /\ UNCHANGED <<status, started, carriedTo, weighed, log, unstamped>>

\* The answer is an error, or the process dies
AdminGiveUp(a) ==
    /\ admin[a].op # "idle"
    /\ Done(a)
    /\ UNCHANGED <<status, started, stopVars, unstamped>>

AdminStep(a, plan) ==
    \/ \E t \in Trips : LoadStatus(a, t) \/ LoadForm(a, t)
    \/ ReloadForm(a) \/ CheckForm(a) \/ AdminEdit(a) \/ FormStops(a, plan)
    \/ AdminStart(a) \/ AdminComplete(a) \/ AdminCancel(a) \/ AdminGiveUp(a)

\* PATCH daily-trip-logs/{id}/change-status/: a bulk update, past save() and clean()
ChangeLogStatus(t, new) ==
    /\ log[t] \notin {"None", new}
    /\ log' = [log EXCEPT ![t] = new]
    /\ UNCHANGED <<status, started, stop, carriedTo, weighed, admin, unstamped>>

-----------------------------------------------------------------------------
(* POST scan-bin/: resolve one stop of the crew's active trip.  Saving the  *)
(* bin event creates the trip's log; the scan that resolves the last stop  *)
(* then submits the log when some weight was recorded, and saving a        *)
(* Submitted log ends the trip.                                            *)

\* the write of a scan on trip t, whichever trip the crew's active one is
Resolve(t, s, outcome, weight) ==
    /\ started[t]
    /\ s \in PendingStops(t)
    /\ stop' = [stop EXCEPT ![t][s] = outcome]
    /\ weighed' = [weighed EXCEPT ![t] = @ \/ (outcome = "Collected" /\ weight)]
    /\ LET done == PendingStops(t) = {s} /\ outcome \in ResolvedStop
           writable == log[t] # "Verified"
       IN  /\ log' = [log EXCEPT ![t] =
                        IF done /\ writable
                        THEN IF weighed'[t] THEN "Submitted" ELSE "Draft"
                        ELSE IF @ = "None" THEN "Draft" ELSE @]
           /\ IF done /\ writable /\ weighed'[t]
              THEN MarkEnded(t, status[t] = "Completed", started[t])
              ELSE UNCHANGED <<status, started>>
    /\ UNCHANGED <<carriedTo, admin, unstamped>>

Scan(t, s, outcome, weight) == IsActive(t) /\ Resolve(t, s, outcome, weight)

=============================================================================
