------------------------ MODULE ComplaintEscalation ------------------------
(***************************************************************************)
(* One complaint ticket: its status, its place on the Staff Hierarchy and  *)
(* its escalation deadline (complaint_escalation), the officers' requests  *)
(* on it (ticket_viewset), edits of the SLA rule that governs it           *)
(* (reschedule_open_tickets), citizens' cleanup photos (complaint_cleanup) *)
(* and the sweep that hops an overdue ticket to the next level.            *)
(*                                                                         *)
(* A request loads the ticket once (get_object) and writes from that copy; *)
(* only escalate_ticket and the cleanup review read it again under its row *)
(* lock.  Each request is therefore a read step, which fills "seen", and a *)
(* write step; a transaction keeps the rows it wrote locked to its end, so *)
(* all its writes are one step.  Tickets share nothing but the sweep,      *)
(* which handles each one in a transaction of its own.                     *)
(***************************************************************************)
EXTENDS Integers, Sequences

CONSTANTS
    Sessions,       \* logged-in officers, admins and citizens
    Levels,         \* hierarchy levels of the ticket's area
    Chain,          \* those open to escalation with staff who cover the area
    Window,         \* ticks a level has to resolve a ticket
    Targets,        \* bound: statuses officers and edits set
    Assignees,      \* bound: staff members requests assign, by their level; 0
                    \* is one whose role has none
    MaxCalls        \* bound: requests that may ever be made on the ticket

ASSUME EscalationConstants ==
    /\ Levels \subseteq Nat \ {0}
    /\ Chain \subseteq Levels
    /\ Window \in Nat \ {0} /\ MaxCalls \in Nat
    /\ Assignees \subseteq Levels \cup {0}
    /\ Targets \subseteq {"OPEN", "ESCALATED", "REOPENED", "RESOLVED", "CLOSED"}

NoDue == -1                     \* next_escalation_due_at IS NULL
Due == {NoDue} \cup 0..Window   \* else the ticks left; 0 is overdue

\* assigned_staff_id: a staff member, by level, or nobody
NoStaff == -1
Staff == Levels \cup {0, NoStaff}

\* OPEN stands for SUBMITTED, ASSIGNED and IN_PROGRESS, CLOSED also for
\* REJECTED and CANCELLED: the code treats the members of each group alike
Statuses == {"OPEN", "ESCALATED", "REOPENED", "RESOLVED", "CLOSED"}
ClosedStatusCodes == {"RESOLVED", "CLOSED"}

VARIABLES
    status,         \* the ticket's status, "none" before it exists
    level,          \* escalation_level
    escalated,      \* is_escalated
    due,            \* next_escalation_due_at
    assigned,       \* assigned_staff_id
    hist,           \* ComplaintEscalationHistory
    reports,        \* status of each ComplaintCleanupReport
    ruled,          \* an SLA rule governs the ticket
    timed,          \* levels the rule has a window for
    seen,           \* what each session's request in progress has loaded
    sweep,          \* where the sweep stands with this ticket
    calls,          \* requests made so far
    overwritten     \* history: a copy's level or is_escalated was written over
                    \* a row that had moved on since the copy was loaded

position == <<level, escalated, hist, assigned, overwritten>>
ticket == <<status, due, position>>
rule == <<ruled, timed>>
vars == <<ticket, reports, rule, seen, sweep, calls>>

Open(s) == s \in Statuses \ ClosedStatusCodes
Overdue == Open(status) /\ due = 0

\* A session's request: what it does and what of the ticket it loaded, as far
\* as its writes depend on it
Copy(op, st, l, d, esc, want, i) ==
    [op |-> op, status |-> st, level |-> l, due |-> d, escalated |-> esc,
     assigned |-> NoStaff, want |-> want, report |-> i]

About(op, i) == Copy(op, "none", 0, NoDue, FALSE, "none", i)
Idle == About("idle", 0)
LoadedDue(op) == Copy(op, "none", 0, due, FALSE, "none", 0)
LoadedClock(op) == Copy(op, "none", level, due, FALSE, "none", 0)
LoadedFlag(op) == Copy(op, "none", 0, NoDue, escalated, "none", 0)
LoadedChange(want) == Copy("change", status, level, due, FALSE, want, 0)
LoadedRow(want) ==
    [Copy("edit", status, level, due, escalated, want, 0) EXCEPT !.assigned = assigned]

\* A copy that may be placed also carries the staff member the level goes by
ToPlace(c, staff) == [c EXCEPT !.assigned = IF c.level = 0 THEN staff ELSE NoStaff]

Init ==
    /\ status = "none" /\ level = 0 /\ escalated = FALSE /\ due = NoDue
    /\ assigned = NoStaff /\ hist = <<>> /\ reports = <<>>
    /\ ruled \in BOOLEAN
    /\ timed \in IF ruled THEN SUBSET Chain ELSE {{}}
    /\ seen = [u \in Sessions |-> Idle]
    /\ sweep = "idle"
    /\ calls = 0
    /\ overwritten = FALSE

-----------------------------------------------------------------------------
(* The hierarchy and the deadlines *)

\* _next_level_staff: the first level above l that has staff, if any
NextLevel(l) == {m \in Chain : m > l /\ \A k \in Chain : k > l => m <= k}

\* Mutant: an assigned staff member's ticket enters one level too high
EntryAbove(staff) == IF staff \in Levels THEN {staff + 1} ELSE NextLevel(0)

\* set_initial_escalation: the level of the staff member who is assigned, else
\* the lowest level with staff, if any
EntryLevel(staff) == IF staff \in Levels THEN {staff} ELSE NextLevel(0)

LevelDue(l) == IF l \in timed THEN Window ELSE NoDue

\* The deadline after stop_escalation_clock and restart_escalation_clock on a
\* copy c: both save only when the copy they were given differs
DueAfterStop(c) == IF c.due = NoDue THEN due ELSE NoDue
DueAfterRestart(c) ==
    IF LevelDue(c.level) = NoDue /\ c.due = NoDue THEN due ELSE LevelDue(c.level)

Tick ==
    LET Age(d) == IF d > 0 THEN d - 1 ELSE d
    IN  /\ due' = Age(due)
        /\ seen' = [u \in Sessions |-> [seen[u] EXCEPT !.due = Age(@)]]
        /\ UNCHANGED <<status, position, reports, rule, sweep, calls>>

-----------------------------------------------------------------------------
(* Requests *)

Begin(u, request) ==
    /\ calls < MaxCalls
    /\ seen[u].op = "idle"
    /\ seen' = [seen EXCEPT ![u] = request]
    /\ calls' = calls + 1

End(u) == seen' = [seen EXCEPT ![u] = Idle] /\ UNCHANGED <<rule, sweep, calls>>

\* perform_create saves the row, then apply_routing_and_sla places that copy
Create(u) ==
    /\ status = "none" /\ seen[u].op = "idle"
    /\ assigned' \in Assignees \cup {NoStaff}
    /\ status' = "OPEN"
    /\ seen' = [seen EXCEPT ![u] = ToPlace(About("place", 0), assigned')]
    /\ UNCHANGED <<level, escalated, due, hist, reports, rule, sweep, calls, overwritten>>

\* The level goes by the staff member the copy names; if it names nobody, the
\* level's own staff member is assigned
Place(u) ==
    /\ seen[u].op \in {"place", "reschedule"}
    /\ seen[u].level = 0
    /\ \/ /\ ruled /\ seen[u].due = NoDue
          /\ level' \in EntryLevel(seen[u].assigned)
          /\ due' = LevelDue(level')
          /\ assigned' = IF seen[u].assigned = NoStaff THEN level' ELSE assigned
          /\ overwritten' = (overwritten \/ level # 0)
          /\ UNCHANGED <<status, escalated, hist>>
       \/ /\ ~ruled \/ seen[u].due # NoDue \/ EntryLevel(seen[u].assigned) = {}
          /\ UNCHANGED ticket
    /\ End(u)
    /\ UNCHANGED reports

\* The serializer saves the rule's windows; on commit the ticket is rescheduled
EditRule(u) ==
    /\ ruled' = TRUE
    /\ timed' \in SUBSET Chain
    /\ Begin(u, About("rule", 0))
    /\ UNCHANGED <<ticket, reports, sweep>>

RescheduleRead(u) ==
    /\ seen[u].op = "rule"
    /\ seen' = [seen EXCEPT ![u] = IF Open(status)
                                   THEN ToPlace(LoadedClock("reschedule"), assigned) ELSE Idle]
    /\ UNCHANGED <<ticket, reports, rule, sweep, calls>>

\* The window counts from when the copy's level was reached, so any of it may
\* be left; a deadline equal to the copy's is not written
RescheduleWrite(u) ==
    /\ seen[u].op = "reschedule" /\ seen[u].level # 0
    /\ \E d \in IF seen[u].level \in timed THEN 0..Window ELSE {NoDue} :
         due' = d \/ (d = seen[u].due /\ due' = due)
    /\ End(u)
    /\ UNCHANGED <<status, position, reports>>

\* get_object and the checks each request makes on what it loaded
Read(u) ==
    /\ status # "none"
    /\ \/ Begin(u, LoadedDue("resolve"))
       \/ \E s \in Targets : Begin(u, LoadedChange(s))
       \/ \E s \in Targets : Begin(u, LoadedRow(s))
       \/ Begin(u, LoadedFlag("assign"))
       \/ status = "RESOLVED" /\ Begin(u, LoadedClock("reopen"))
       \/ Open(status) /\ Begin(u, About("escalate", 0))
    /\ UNCHANGED <<ticket, reports, rule, sweep>>

Resolve(u) ==
    /\ seen[u].op = "resolve"
    /\ status' = "RESOLVED"
    /\ due' = DueAfterStop(seen[u])
    /\ End(u)
    /\ UNCHANGED <<position, reports>>

\* change_status: the clock stops, restarts or runs on by the status it left
ChangeStatus(u) ==
    /\ seen[u].op = "change"
    /\ status' = seen[u].want
    /\ due' = IF ~Open(seen[u].want) THEN DueAfterStop(seen[u])
              ELSE IF ~Open(seen[u].status) THEN DueAfterRestart(seen[u])
              ELSE due
    /\ End(u)
    /\ UNCHANGED <<position, reports>>

Reopen(u) ==
    /\ seen[u].op = "reopen"
    /\ status' = "REOPENED"
    /\ due' = DueAfterRestart(seen[u])
    /\ End(u)
    /\ UNCHANGED <<position, reports>>

\* assign: of a ticket it saw escalated it writes escalated_to_staff_id alone
Assign(u) ==
    /\ seen[u].op = "assign"
    /\ \/ seen[u].escalated /\ UNCHANGED assigned
       \/ ~seen[u].escalated /\ assigned' \in Assignees
    /\ End(u)
    /\ UNCHANGED <<status, due, level, escalated, hist, overwritten, reports>>

\* PATCH /tickets/{id}/: the serializer sets the fields it was sent, the staff
\* member among them, and saves the whole row from its copy
Edit(u) ==
    /\ seen[u].op = "edit"
    /\ status' \in {seen[u].status, seen[u].want}
    /\ level' = seen[u].level /\ escalated' = seen[u].escalated /\ due' = seen[u].due
    /\ assigned' \in Assignees \cup {NoStaff, seen[u].assigned}
    /\ overwritten' = (overwritten \/ <<level, escalated>> # <<seen[u].level, seen[u].escalated>>)
    /\ End(u)
    /\ UNCHANGED <<hist, reports>>

-----------------------------------------------------------------------------
(* Escalation *)

\* Mutants: a hop that writes no history; a sweep that leaves the deadline of a
\* ticket at the top
HopUnlogged ==
    /\ level' \in NextLevel(level)
    /\ escalated' = TRUE
    /\ due' = LevelDue(level')
    /\ status' = "ESCALATED"
    /\ UNCHANGED <<hist, assigned, overwritten>>

SweepForgets ==
    /\ sweep = "top"
    /\ sweep' = "idle"
    /\ UNCHANGED <<ticket, reports, rule, seen, calls>>

\* escalate_ticket with a level above: everything from the locked row
Hop ==
    /\ level' \in NextLevel(level)
    /\ escalated' = TRUE
    /\ due' = LevelDue(level')
    /\ status' = "ESCALATED"
    /\ hist' = Append(hist, [from |-> level, to |-> level'])
    /\ UNCHANGED <<assigned, overwritten>>

Escalate(u) ==
    /\ seen[u].op = "escalate"
    /\ Hop \/ (NextLevel(level) = {} /\ UNCHANGED ticket)
    /\ End(u)
    /\ UNCHANGED reports

\* The sweep lists the overdue tickets, then escalates each; GET_LOCK keeps a
\* second sweep out, and a worker that dies lets go of it
SweepPick ==
    /\ sweep = "idle"
    /\ Overdue
    /\ sweep' = "picked"
    /\ UNCHANGED <<ticket, reports, rule, seen, calls>>

SweepHop ==
    /\ sweep = "picked"
    /\ Hop
    /\ sweep' = "idle"
    /\ UNCHANGED <<reports, rule, seen, calls>>

\* ValueError: no level above; the deadline is cleared by a later statement
SweepTop ==
    /\ sweep = "picked" /\ NextLevel(level) = {}
    /\ sweep' = "top"
    /\ UNCHANGED <<ticket, reports, rule, seen, calls>>

SweepClear ==
    /\ sweep = "top"
    /\ due' = NoDue
    /\ sweep' = "idle"
    /\ UNCHANGED <<status, position, reports, rule, seen, calls>>

SweepDies ==
    /\ sweep # "idle"
    /\ sweep' = "idle"
    /\ UNCHANGED <<ticket, reports, rule, seen, calls>>

-----------------------------------------------------------------------------
(* Cleanup photos *)

Pending == {i \in DOMAIN reports : reports[i] = "PENDING"}

\* verify-cleanup needs an open ticket and no report waiting; review takes the
\* newest one that waits
PhotoRead(u) ==
    /\ \/ Open(status) /\ Pending = {} /\ Begin(u, About("submit", 0))
       \/ \E i \in Pending, op \in {"approve", "reject"} :
            (\A j \in Pending : j <= i) /\ Begin(u, About(op, i))
    /\ UNCHANGED <<ticket, reports, rule, sweep>>

Submit(u) ==
    /\ seen[u].op = "submit"
    /\ reports' = Append(reports, "PENDING")
    /\ End(u)
    /\ UNCHANGED ticket

\* Mutants: a review trusts what it loaded, of the report or of the ticket
NotLookedAtAgain(i) == TRUE
ApproveAnyTicket(u) ==
    /\ seen[u].op = "approve"
    /\ reports[seen[u].report] = "PENDING"
    /\ reports' = [reports EXCEPT ![seen[u].report] = "APPROVED"]
    /\ status' = "CLOSED"
    /\ due' = NoDue
    /\ End(u)
    /\ UNCHANGED position

\* A review locks the report and looks at it again
StillPending(i) == reports[i] = "PENDING"

\* An approval then locks the ticket, which must still be open
Approve(u) ==
    /\ seen[u].op = "approve"
    /\ StillPending(seen[u].report)
    /\ Open(status)
    /\ reports' = [reports EXCEPT ![seen[u].report] = "APPROVED"]
    /\ status' = "CLOSED"
    /\ due' = NoDue
    /\ End(u)
    /\ UNCHANGED position

Reject(u) ==
    /\ seen[u].op = "reject"
    /\ StillPending(seen[u].report)
    /\ reports' = [reports EXCEPT ![seen[u].report] = "REJECTED"]
    /\ End(u)
    /\ UNCHANGED ticket

\* An error or a lost connection: the transaction rolls back
GiveUp(u) ==
    /\ seen[u].op # "idle"
    /\ End(u)
    /\ UNCHANGED <<ticket, reports>>

-----------------------------------------------------------------------------
Request(u) ==
    \/ Create(u) \/ Place(u) \/ EditRule(u) \/ RescheduleRead(u) \/ RescheduleWrite(u)
    \/ Read(u) \/ Resolve(u) \/ ChangeStatus(u) \/ Reopen(u) \/ Assign(u) \/ Edit(u)
    \/ Escalate(u) \/ PhotoRead(u) \/ Submit(u) \/ Approve(u) \/ Reject(u) \/ GiveUp(u)

Next ==
    \/ Tick
    \/ SweepPick \/ SweepHop \/ SweepTop \/ SweepClear \/ SweepDies
    \/ \E u \in Sessions : Request(u)

\* Time passes, beat enqueues the sweep for ever, and no worker dies on every sweep
Fairness ==
    /\ WF_vars(Tick)
    /\ WF_vars(SweepPick)
    /\ SF_vars(SweepHop) /\ SF_vars(SweepTop) /\ SF_vars(SweepClear)

Spec == Init /\ [][Next]_vars /\ Fairness

-----------------------------------------------------------------------------
(* Properties *)

\* The state every handler leaves behind has its type, the copies included
TypeOK ==
    /\ status \in Statuses \cup {"none"}
    /\ level \in Levels \cup {0} /\ assigned \in Staff
    /\ escalated \in BOOLEAN /\ ruled \in BOOLEAN /\ overwritten \in BOOLEAN
    /\ due \in Due
    /\ timed \in SUBSET Chain
    /\ hist \in Seq([from : Levels \cup {0}, to : Chain])
    /\ reports \in Seq({"PENDING", "APPROVED", "REJECTED"})
    /\ sweep \in {"idle", "picked", "top"}
    /\ calls \in 0..MaxCalls
    /\ seen \in [Sessions -> [op : {"idle", "place", "rule", "reschedule", "resolve", "change",
                                   "edit", "reopen", "assign", "escalate", "submit", "approve",
                                   "reject"},
                             status : Statuses \cup {"none"}, level : Levels \cup {0}, due : Due,
                             escalated : BOOLEAN, assigned : Staff, want : Statuses \cup {"none"}, report : Nat]]

\* However hops, placements, assignments and edits overlap, the escalation
\* history is one climb up the hierarchy that ends at the level the ticket is
\* at, each hop from where the hop before it led, and the ticket counts as
\* escalated exactly when it has one: is_passed_over, which says who may still
\* act, and _level_started_at, from which a window counts, are computed from
\* that history.  The one excuse is a copy's level written over a row that had
\* moved on (Edit, Place); escalate_ticket never needs it.
EscalationOnRecord ==
    /\ escalated => hist # <<>>
    /\ ~overwritten =>
          /\ \A i \in 1..Len(hist) - 1 : hist[i].to = hist[i + 1].from
          /\ hist # <<>> => escalated /\ level = hist[Len(hist)].to

\* A cleanup report is reviewed once: two officers who both opened it cannot
\* both decide it, and what was decided stays.
ReviewedOnce ==
    [][\A i \in DOMAIN reports :
          reports[i] # "PENDING" => i \in DOMAIN reports' /\ reports'[i] = reports[i]]_vars

\* Approving a photo closes a ticket that was still open at that moment and
\* stops its clock, whatever happened since the officer loaded it.
ApprovalCloses ==
    [][\A i \in DOMAIN reports :
          reports[i] = "PENDING" /\ reports'[i] = "APPROVED"
          => Open(status) /\ status' = "CLOSED" /\ due' = NoDue]_vars

\* An overdue open ticket does not stay so: the sweep hops it or, at the top
\* of the chain, takes its deadline away.
OverdueIsHandled == Overdue ~> ~Overdue

=============================================================================
