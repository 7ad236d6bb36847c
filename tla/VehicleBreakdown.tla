--------------------------- MODULE VehicleBreakdown ---------------------------
(***************************************************************************)
(* A vehicle breaks down on a trip: the driver reports it, the office may  *)
(* edit, delete or reject the report, or verify it, which opens a          *)
(* continuation for a replacement vehicle and crew and carries the pending *)
(* stops over (vehicle_breakdown_viewset and _serializer,                  *)
(* retrip_service.create_breakdown_continuation).                          *)
(*                                                                         *)
(* Nothing locks a report.  A request loads it, checks its copy and writes *)
(* later; an edit checks one copy and saves the whole of a second one.     *)
(* Unlike Re-Trip, the source trip stays open and its carried stops can    *)
(* still be collected by its own crew.                                     *)
(***************************************************************************)
EXTENDS TripState

CONSTANTS
    Reports,    \* VehicleBreakdown rows that may ever be created
    Desks,      \* office requests on them
    Planned     \* the stops of the trip plan, which every new trip is given

ASSUME BreakdownConstants == Planned \subseteq Stops

VARIABLES
    row,        \* row[b]: the report's columns
    source,     \* source[n]: the trip that n's remarks name as the one it continues
    desk,       \* the request each desk is making, with the copy it works on
    crossed     \* crossed[b]: two requests on b have been under way at once

breakdownVars == <<row, source, desk, crossed>>
vars == <<tripVars, breakdownVars>>

Approvals == {"Pending", "Approved", "Rejected"}
Rows == [on : Trips \cup {NoTrip}, approval : Approvals, next : Trips \cup {NoTrip},
         deleted : BOOLEAN]
NoRow == [on |-> NoTrip, approval |-> "Pending", next |-> NoTrip, deleted |-> FALSE]
Reported(b) == row[b].on # NoTrip

DeskOps == {"edit", "save", "delete", "reject", "verify", "carry"}
Request(op, b, copy, kept) == [op |-> op, report |-> b, copy |-> copy, kept |-> kept]
Requests == [op : DeskOps, report : Reports, copy : Rows, kept : SUBSET Stops]
DeskOff == [op |-> "idle"]
Busy(d, b) == desk[d].op # "idle" /\ desk[d].report = b

TypeOK ==
    /\ TripTypeOK
    /\ row \in [Reports -> Rows]
    /\ source \in [Trips -> Trips \cup {NoTrip}]
    /\ desk \in [Desks -> Requests \cup {DeskOff}]
    /\ crossed \in [Reports -> BOOLEAN]

Init ==
    /\ TripInit
    /\ row = [b \in Reports |-> NoRow]
    /\ source = [t \in Trips |-> NoTrip]
    /\ desk = [d \in Desks |-> DeskOff]
    /\ crossed = [b \in Reports |-> FALSE]

-----------------------------------------------------------------------------
(* Reporting.                                                              *)

\* trip_assignment_id is unique over all rows, deleted ones included
Untaken(b, t) == \A c \in Reports \ {b} : row[c].on # t

\* Refused for a completed or cancelled trip
Report(b, t) ==
    /\ ~Reported(b) /\ Untaken(b, t)
    /\ status[t] \in OpenStatus
    /\ row' = [row EXCEPT ![b] = [NoRow EXCEPT !.on = t]]
    /\ UNCHANGED <<tripVars, source, desk, crossed>>

-----------------------------------------------------------------------------
(* The office.  Every request begins with get_object, which does not find  *)
(* a deleted report, and a check of the copy it returned.                  *)

Begin(d, op, b) ==
    /\ desk[d].op = "idle"
    /\ Reported(b) /\ ~row[b].deleted
    /\ desk' = [desk EXCEPT ![d] = Request(op, b, row[b], {})]
    /\ crossed' = [crossed EXCEPT ![b] = @ \/ \E e \in Desks : Busy(e, b)]
    /\ UNCHANGED <<tripVars, row, source>>

\* Mutant: update without its look at the approval
BeginAnyEdit(d, b) == Begin(d, "edit", b)

\* "Approved breakdown records are read-only."
BeginEdit(d, b) == row[b].approval # "Approved" /\ Begin(d, "edit", b)
BeginDelete(d, b) == row[b].approval # "Approved" /\ Begin(d, "delete", b)
BeginReject(d, b) == row[b].approval = "Pending" /\ Begin(d, "reject", b)

\* Mutant: only a rejected report is refused
BeginUnlessRejected(d, b) == row[b].approval # "Rejected" /\ Begin(d, "verify", b)
BeginVerify(d, b) == row[b].approval = "Pending" /\ Begin(d, "verify", b)

\* The request is answered with an error, or its process dies
GiveUp(d) ==
    /\ desk[d].op # "idle"
    /\ desk' = [desk EXCEPT ![d] = DeskOff]
    /\ UNCHANGED <<tripVars, row, source, crossed>>

\* The request's last write, which leaves the report as given
Conclude(d, columns) ==
    /\ row' = [row EXCEPT ![desk[d].report] = columns]
    /\ desk' = [desk EXCEPT ![d] = DeskOff]
    /\ UNCHANGED crossed

InDb(d) == row[desk[d].report]

\* After the check, update loads the report a second time
EditReload(d) ==
    /\ desk[d].op = "edit" /\ ~InDb(d).deleted
    /\ desk' = [desk EXCEPT ![d] = Request("save", desk[d].report, InDb(d), {})]
    /\ UNCHANGED <<tripVars, row, source, crossed>>

\* All columns are written from that copy.  The form may move the report to
\* another open trip.
EditSave(d, t) ==
    /\ desk[d].op = "save"
    /\ t = desk[d].copy.on \/ status[t] \in OpenStatus
    /\ Untaken(desk[d].report, t)
    /\ Conclude(d, [desk[d].copy EXCEPT !.on = t])
    /\ UNCHANGED <<tripVars, source>>

\* perform_destroy names its columns
Delete(d) ==
    /\ desk[d].op = "delete"
    /\ Conclude(d, [InDb(d) EXCEPT !.deleted = TRUE])
    /\ UNCHANGED <<tripVars, source>>

\* Mutant: the report's status is written where its approval belongs
RejectWrongColumn(d) ==
    /\ desk[d].op = "reject"
    /\ Conclude(d, [InDb(d) EXCEPT !.approval = "REJECTED"])
    /\ UNCHANGED <<tripVars, source>>

Reject(d) ==
    /\ desk[d].op = "reject"
    /\ Conclude(d, [InDb(d) EXCEPT !.approval = "Rejected"])
    /\ UNCHANGED <<tripVars, source>>

-----------------------------------------------------------------------------
(* Verification: one transaction that reads the pending stops of the trip  *)
(* the copy names, whatever that trip's status, and then writes.           *)

\* The ticked stops must be pending; a household trip ticks them all
VerifyRead(d, kept) ==
    /\ desk[d].op = "verify"
    /\ kept # {} /\ kept \subseteq PendingStops(desk[d].copy.on)
    /\ desk' = [desk EXCEPT ![d] = Request("carry", desk[d].report, desk[d].copy, kept)]
    /\ UNCHANGED <<tripVars, row, source, crossed>>

\* Mutant: the replacement starts with no stop, to be filled by hand
EmptyContinuation(src, n, kept) ==
    /\ stop' = [stop EXCEPT ![n] = [s \in Stops |-> "none"]]
    /\ carriedTo' = [carriedTo EXCEPT
                       ![src] = [s \in Stops |-> IF s \in kept THEN n ELSE @[s]]]

\* The plan's stops are cloned and pruned to the kept ones.  A kept stop that
\* the plan lacks gets no row, unlike in a Re-Trip.
Replace(src, n, kept) ==
    /\ stop' = [stop EXCEPT
                  ![n] = [s \in Stops |-> IF s \in kept \cap Planned THEN "Pending" ELSE "none"]]
    /\ carriedTo' = [carriedTo EXCEPT
                       ![src] = [s \in Stops |-> IF s \in kept THEN n ELSE @[s]]]

VerifyCommit(d, n) ==
    LET src == desk[d].copy.on IN
    /\ desk[d].op = "carry"
    /\ \A t \in Trips : status[t] = "absent" <=> t >= n
    /\ status' = [status EXCEPT ![n] = "Scheduled"]
    /\ Replace(src, n, desk[d].kept)
    /\ source' = [source EXCEPT ![n] = src]
    /\ Conclude(d, [InDb(d) EXCEPT !.approval = "Approved", !.next = n])
    /\ UNCHANGED <<started, weighed, log, admin, unstamped>>

-----------------------------------------------------------------------------
\* The crews and the admin screen.  The replacement has a crew of its own, so
\* each visible trip is somebody's active one.
TripStep ==
    /\ \/ \E a \in Admins : AdminStep(a, Planned)
       \/ \E t \in Visible, s \in Stops, outcome \in {"Collected", "Skipped", "Missed"}, weight \in BOOLEAN :
            Resolve(t, s, outcome, weight)
    /\ UNCHANGED breakdownVars

DeskStep(d) ==
    \/ \E b \in Reports :
         BeginEdit(d, b) \/ BeginDelete(d, b) \/ BeginReject(d, b) \/ BeginVerify(d, b)
    \/ EditReload(d) \/ Delete(d) \/ Reject(d) \/ GiveUp(d)
    \/ \E t \in Trips : EditSave(d, t) \/ VerifyCommit(d, t)
    \/ \E kept \in SUBSET Stops : VerifyRead(d, kept)

Next ==
    \/ TripStep
    \/ \E b \in Reports, t \in Trips : Report(b, t)
    \/ \E d \in Desks : DeskStep(d)

Spec == Init /\ [][Next]_vars

-----------------------------------------------------------------------------
(* What the flow guarantees.                                               *)

\* A stop marked as carried leads to the trip that continues its own, and has
\* its row there if the plan knows the stop (create_breakdown_continuation).
CarriedStopsArrive ==
    \A t \in Trips, s \in Stops : carriedTo[t][s] # NoTrip =>
        /\ source[carriedTo[t][s]] = t
        /\ s \in Planned => stop[carriedTo[t][s]][s] # "none"

\* A trip is replaced once (one breakdown per trip, approved once, never moved
\* after its approval), unless two requests on a report have crossed.
ReplacedOnce ==
    (\A b \in Reports : ~crossed[b]) =>
        \A m, n \in Trips : source[m] = source[n] /\ source[m] # NoTrip => m = n

\* An approved report stands, its trip and its continuation too ("Approved
\* breakdown records are read-only."), unless two requests on it have crossed.
ApprovalStands ==
    [][\A b \in Reports : row[b].approval = "Approved" => row'[b] = row[b] \/ crossed[b]]_vars

=============================================================================
