----------------------------- MODULE DailyTrips -----------------------------
(***************************************************************************)
(* The trips of one day and the "no collection" notices that stop them:    *)
(* daily_trip_scheduler and generate_daily_trips (the runs that generate), *)
(* daily_trip_generation (one plan's trip, under the plan's row lock),     *)
(* daily_service_notice (declare, revoke and the messages after commit)    *)
(* and the screens that write assignments without that lock.               *)
(*                                                                         *)
(* MySQL is used at Django's default level, READ COMMITTED: a statement    *)
(* sees what was committed when it ran, and what a transaction writes is   *)
(* seen when it commits.  All plans are active, approved and due today.    *)
(* Re-Trip continuations are the subject of Retrip and are left out, as is *)
(* the run status kept for the scheduler screen.                           *)
(***************************************************************************)
EXTENDS Naturals, FiniteSets

CONSTANTS
    N,           \* number of plans; runs and requests take them in the order 1..N
    Owned,       \* the plans people work on by hand
    Workers,     \* processes that run the generators
    Supervisors, \* requests of the supervisor app
    Users,       \* drivers' and admins' requests on an assignment
    MaxTrips     \* bound: assignments of a plan on the day

ASSUME DayConstants ==
    /\ N \in Nat \ {0}
    /\ Owned \subseteq 1..N
    /\ MaxTrips \in Nat \ {0}
    /\ Workers \cap Supervisors = {}
    /\ "free" \notin Workers \cup Supervisors

VARIABLES
    notice,      \* notice[p]: status of the plan's notice for the day
    trip,        \* trip[p][i]: the plan's i-th assignment of the day
    holder,      \* holder[p]: who holds the plan's row lock
    claimed,     \* the day's automatic run has been claimed
    job,         \* job[mode]: who holds the scheduler's named lock
    worker,      \* the run each worker is in
    desk,        \* the request each supervisor is making
    user,        \* the request each user is making, with the row it loaded
    told,        \* told[p]: the last message sent to the plan's crew, and
                 \* whether a change of the notice crossed it (history)
    broken       \* a run or a request has died or failed

vars == <<notice, trip, holder, claimed, job, worker, desk, user, told, broken>>

-----------------------------------------------------------------------------
(* Assignments.                                                            *)

Plans == 1..N
Slots == 1..MaxTrips
Statuses == {"Scheduled", "In Progress", "Completed", "Cancelled"}

\* by: who created the row.  tagged: its remarks begin with "No collection
\* today:".  kept: "deleted" is is_deleted; "revived" is a row whose deletion
\* was overwritten.  collected: some stop of it is collected.
NoTrip == [status |-> "none", by |-> "none", tagged |-> FALSE, kept |-> "yes", collected |-> FALSE]
NewTrip(by) == [status |-> "Scheduled", by |-> by, tagged |-> FALSE, kept |-> "yes", collected |-> FALSE]
TripRows == [status : Statuses \cup {"none"}, by : {"none", "generator", "admin"},
             tagged : BOOLEAN, kept : {"yes", "deleted", "revived"}, collected : BOOLEAN]

Free(p) == {i \in Slots : trip[p][i].status = "none"}
Live(p) == {i \in Slots \ Free(p) : trip[p][i].kept # "deleted"}
First(S) == CHOOSE i \in S : \A j \in S : i <= j

\* existing_assignment_for_plan: cancelled assignments count, deleted do not
Existing(p) == Live(p) # {}

\* The serializer's check: another assignment that is not cancelled
Conflict(p, i) == \E j \in Live(p) \ {i} : trip[p][j].status # "Cancelled"

-----------------------------------------------------------------------------
(* Processes.                                                              *)

Modes == {"auto", "manual", "daily"}
NamedModes == {"auto", "manual"}
Actors == Workers \cup Supervisors

Working(op, mode, p) == [op |-> op, mode |-> mode, plan |-> p]
WorkerOff == Working("idle", "daily", 1)
WorkerOps == {"idle", "job", "peek", "lock", "look", "insert"}

\* todo: plans still to come, or notices to send messages about; done: plans
\* staged in the open transaction, or the notice read before its message;
\* rows: assignments locked by a declaration
Sitting(op, todo, done, rows) == [op |-> op, todo |-> todo, done |-> done, rows |-> rows]
NoRows == [p \in Plans |-> {}]
DeskOff == Sitting("idle", {}, {}, NoRows)
DeskOps == {"idle", "select lock", "select look", "declare lock", "declare check",
            "declare rows", "tell notice", "send notice", "tell restored", "send restored"}

\* of the loaded copy only two things are used: was it started, was it tagged
Having(op, p, i, started, tagged) ==
    [op |-> op, plan |-> p, slot |-> i, started |-> started, tagged |-> tagged]
UserOff == Having("idle", 1, 1, FALSE, FALSE)
UserOps == {"idle", "start", "end", "edit", "cancel", "create"}

Message(word, crossed) == [word |-> word, crossed |-> crossed]
Messages == [word : {"none", "notice", "restored"}, crossed : BOOLEAN]

\* What a message says of the notice
Meaning(word) == IF word = "notice" THEN "ACTIVE" ELSE "REVOKED"

TypeOK ==
    /\ notice \in [Plans -> {"none", "ACTIVE", "REVOKED"}]
    /\ trip \in [Plans -> [Slots -> TripRows]]
    /\ holder \in [Plans -> Actors \cup {"free"}]
    /\ claimed \in BOOLEAN
    /\ job \in [NamedModes -> Workers \cup {"free"}]
    /\ worker \in [Workers -> [op : WorkerOps, mode : Modes, plan : Plans]]
    /\ desk \in [Supervisors -> [op : DeskOps, todo : SUBSET Plans, done : SUBSET Plans,
                                 rows : [Plans -> SUBSET Slots]]]
    /\ user \in [Users -> [op : UserOps, plan : Plans, slot : Slots, started : BOOLEAN, tagged : BOOLEAN]]
    /\ told \in [Plans -> Messages]
    /\ broken \in BOOLEAN

Init ==
    /\ notice = [p \in Plans |-> "none"]
    /\ trip = [p \in Plans |-> [i \in Slots |-> NoTrip]]
    /\ holder = [p \in Plans |-> "free"]
    /\ claimed = FALSE
    /\ job = [m \in NamedModes |-> "free"]
    /\ worker = [w \in Workers |-> WorkerOff]
    /\ desk = [s \in Supervisors |-> DeskOff]
    /\ user = [u \in Users |-> UserOff]
    /\ told = [p \in Plans |-> Message("none", FALSE)]
    /\ broken = FALSE

Release(a) == [p \in Plans |-> IF holder[p] = a THEN "free" ELSE holder[p]]

\* An assignment a declaration has locked can be written by nobody else
Unlocked(p, i) == \A s \in Supervisors : i \notin desk[s].rows[p]

-----------------------------------------------------------------------------
(* Generator runs: the beat's tick, an admin's forced run and generate-daily. *)

Work(w, op, p) == worker' = [worker EXCEPT ![w] = Working(op, worker[w].mode, p)]

\* The first tick after the run time claims the day (cache.add)
Tick(w) ==
    /\ worker[w].op = "idle" /\ ~claimed
    /\ claimed' = TRUE
    /\ worker' = [worker EXCEPT ![w] = Working("job", "auto", 1)]
    /\ UNCHANGED <<notice, trip, holder, job, desk, user, told, broken>>

AskRun(w, mode) ==
    /\ worker[w].op = "idle"
    /\ worker' = [worker EXCEPT ![w] = Working(IF mode = "manual" THEN "job" ELSE "peek", mode, 1)]
    /\ UNCHANGED <<notice, trip, holder, claimed, job, desk, user, told, broken>>

\* GET_LOCK with no wait: a run of the same mode under way means nothing to do
GetJob(w) ==
    LET m == worker[w].mode
    IN  /\ worker[w].op = "job"
        /\ IF job[m] = "free"
           THEN job' = [job EXCEPT ![m] = w] /\ Work(w, "peek", 1)
           ELSE worker' = [worker EXCEPT ![w] = WorkerOff] /\ UNCHANGED job
        /\ UNCHANGED <<notice, trip, holder, claimed, desk, user, told, broken>>

JobAfter(w) == [m \in NamedModes |-> IF job[m] = w THEN "free" ELSE job[m]]

\* Mutant: one plan too many
ContinuePast(w) ==
    IF worker[w].plan <= N
    THEN Work(w, "peek", worker[w].plan + 1) /\ UNCHANGED job
    ELSE worker' = [worker EXCEPT ![w] = WorkerOff] /\ job' = JobAfter(w)

\* On to the next plan, or the end of the run
Continue(w) ==
    IF worker[w].plan < N
    THEN Work(w, "peek", worker[w].plan + 1) /\ UNCHANGED job
    ELSE worker' = [worker EXCEPT ![w] = WorkerOff] /\ job' = JobAfter(w)

\* Mutant: a plan that is passed by ends the run
PeekEnds(w) ==
    LET p == worker[w].plan
    IN  /\ worker[w].op = "peek"
        /\ IF notice[p] = "ACTIVE" \/ Existing(p)
           THEN worker' = [worker EXCEPT ![w] = WorkerOff] /\ job' = JobAfter(w)
           ELSE Work(w, "lock", p) /\ UNCHANGED job
        /\ UNCHANGED <<notice, trip, holder, claimed, desk, user, told, broken>>

\* A plan under a notice, or with an assignment, is passed by without a lock
Peek(w) ==
    LET p == worker[w].plan
    IN  /\ worker[w].op = "peek"
        /\ IF notice[p] = "ACTIVE" \/ Existing(p)
           THEN Continue(w)
           ELSE Work(w, "lock", p) /\ UNCHANGED job
        /\ UNCHANGED <<notice, trip, holder, claimed, desk, user, told, broken>>

Lock(w) ==
    LET p == worker[w].plan
    IN  /\ worker[w].op = "lock" /\ holder[p] = "free"
        /\ holder' = [holder EXCEPT ![p] = w]
        /\ Work(w, "look", p)
        /\ UNCHANGED <<notice, trip, claimed, job, desk, user, told, broken>>

\* Mutant: only the notice is looked at again
LookNoticeOnly(w) ==
    LET p == worker[w].plan
    IN  /\ worker[w].op = "look"
        /\ IF notice[p] = "ACTIVE"
           THEN Continue(w) /\ holder' = Release(w)
           ELSE Work(w, "insert", p) /\ UNCHANGED <<job, holder>>
        /\ UNCHANGED <<notice, trip, claimed, desk, user, told, broken>>

\* Mutant: only the assignments are looked at again
LookTripsOnly(w) ==
    LET p == worker[w].plan
    IN  /\ worker[w].op = "look"
        /\ IF Existing(p)
           THEN Continue(w) /\ holder' = Release(w)
           ELSE Work(w, "insert", p) /\ UNCHANGED <<job, holder>>
        /\ UNCHANGED <<notice, trip, claimed, desk, user, told, broken>>

\* generate_assignment_for_plan looks again under the lock
Look(w) ==
    LET p == worker[w].plan
    IN  /\ worker[w].op = "look"
        /\ IF notice[p] = "ACTIVE" \/ Existing(p)
           THEN Continue(w) /\ holder' = Release(w)
           ELSE Work(w, "insert", p) /\ UNCHANGED <<job, holder>>
        /\ UNCHANGED <<notice, trip, claimed, desk, user, told, broken>>

Created(p, by) == [trip[p] EXCEPT ![First(Free(p))] = NewTrip(by)]

Insert(w) ==
    LET p == worker[w].plan
    IN  /\ worker[w].op = "insert" /\ Free(p) # {}
        /\ trip' = [trip EXCEPT ![p] = Created(p, "generator")]
        /\ holder' = Release(w)
        /\ Continue(w)
        /\ UNCHANGED <<notice, claimed, desk, user, told, broken>>

\* The worker dies, or a statement fails and the whole run ends with it: the
\* transaction is rolled back, the locks go, and the day stays claimed
RunDies(w) ==
    /\ worker[w].op # "idle"
    /\ worker' = [worker EXCEPT ![w] = WorkerOff]
    /\ holder' = Release(w)
    /\ job' = JobAfter(w)
    /\ broken' = TRUE
    /\ UNCHANGED <<notice, trip, claimed, desk, user, told>>

-----------------------------------------------------------------------------
(* The supervisor app: one transaction over the plans it names.            *)

Sit(s, op, todo, done, rows) == desk' = [desk EXCEPT ![s] = Sitting(op, todo, done, rows)]
Next1(s) == First(desk[s].todo)

AskSelected(s, ids) ==
    /\ desk[s].op = "idle"
    /\ Sit(s, "select lock", ids, {}, NoRows)
    /\ UNCHANGED <<notice, trip, holder, claimed, job, worker, user, told, broken>>

AskNoCollection(s, ids) ==
    /\ desk[s].op = "idle"
    /\ Sit(s, "declare lock", ids, {}, NoRows)
    /\ UNCHANGED <<notice, trip, holder, claimed, job, worker, user, told, broken>>

SelectLock(s) ==
    /\ desk[s].op = "select lock" /\ desk[s].todo # {}
    /\ holder[Next1(s)] = "free"
    /\ holder' = [holder EXCEPT ![Next1(s)] = s]
    /\ Sit(s, "select look", desk[s].todo, desk[s].done, NoRows)
    /\ UNCHANGED <<notice, trip, claimed, job, worker, user, told, broken>>

SelectLook(s) ==
    LET p == Next1(s)
        skip == notice[p] = "ACTIVE" \/ Existing(p)
    IN  /\ desk[s].op = "select look"
        /\ Sit(s, "select lock", desk[s].todo \ {p},
               IF skip THEN desk[s].done ELSE desk[s].done \cup {p}, NoRows)
        /\ UNCHANGED <<notice, trip, holder, claimed, job, worker, user, told, broken>>

\* What the transaction inserted is seen from here on
SelectCommit(s) ==
    /\ desk[s].op = "select lock" /\ desk[s].todo = {}
    /\ \A p \in desk[s].done : Free(p) # {}
    /\ trip' = [p \in Plans |-> IF p \in desk[s].done THEN Created(p, "generator") ELSE trip[p]]
    /\ holder' = Release(s)
    /\ desk' = [desk EXCEPT ![s] = DeskOff]
    /\ UNCHANGED <<notice, claimed, job, worker, user, told, broken>>

DeclareLock(s) ==
    /\ desk[s].op = "declare lock" /\ desk[s].todo # {}
    /\ holder[Next1(s)] = "free"
    /\ holder' = [holder EXCEPT ![Next1(s)] = s]
    /\ Sit(s, "declare check", desk[s].todo, desk[s].done, desk[s].rows)
    /\ UNCHANGED <<notice, trip, claimed, job, worker, user, told, broken>>

\* One refused plan rolls the whole request back
Refuse(s) == holder' = Release(s) /\ desk' = [desk EXCEPT ![s] = DeskOff]

\* A notice that is there is returned as it is; a started trip refuses
DeclareCheck(s) ==
    LET p == Next1(s)
        started == \E i \in Live(p) : trip[p][i].status \in {"In Progress", "Completed"}
    IN  /\ desk[s].op = "declare check"
        /\ IF notice[p] = "ACTIVE"
           THEN /\ Sit(s, "declare lock", desk[s].todo \ {p}, desk[s].done, desk[s].rows)
                /\ UNCHANGED holder
           ELSE IF started THEN Refuse(s)
           ELSE /\ Sit(s, "declare rows", desk[s].todo, desk[s].done, desk[s].rows)
                /\ UNCHANGED holder
        /\ UNCHANGED <<notice, trip, claimed, job, worker, user, told, broken>>

\* Only now are the assignments locked, and their stops looked at
DeclareRows(s) ==
    LET p == Next1(s)
    IN  /\ desk[s].op = "declare rows"
        /\ IF \E i \in Live(p) : trip[p][i].collected
           THEN Refuse(s)
           ELSE /\ Sit(s, "declare lock", desk[s].todo \ {p}, desk[s].done \cup {p},
                       [desk[s].rows EXCEPT ![p] = Live(p)])
                /\ UNCHANGED holder
        /\ UNCHANGED <<notice, trip, claimed, job, worker, user, told, broken>>

CancelledByNotice(row) ==
    IF row.status = "Scheduled"
    THEN [status |-> "Cancelled", by |-> row.by, tagged |-> TRUE, kept |-> row.kept,
          collected |-> row.collected]
    ELSE row

DeclareCommit(s) ==
    LET d == desk[s]
    IN  /\ d.op = "declare lock" /\ d.todo = {}
        /\ notice' = [p \in Plans |-> IF p \in d.done THEN "ACTIVE" ELSE notice[p]]
        /\ trip' = [p \in Plans |-> [i \in Slots |->
                      IF i \in d.rows[p] THEN CancelledByNotice(trip[p][i]) ELSE trip[p][i]]]
        /\ holder' = Release(s)
        /\ Sit(s, "tell notice", d.done, {}, NoRows)
        /\ UNCHANGED <<claimed, job, worker, user, told, broken>>

RestoredByRevoke(row) ==
    IF row.status = "Cancelled" /\ row.tagged /\ row.kept # "deleted"
    THEN [status |-> "Scheduled", by |-> row.by, tagged |-> FALSE, kept |-> row.kept,
          collected |-> row.collected]
    ELSE row

\* Under the notice's row lock, without the plan's
Revoke(s, p) ==
    /\ desk[s].op = "idle" /\ notice[p] = "ACTIVE"
    /\ \A i \in Slots : Unlocked(p, i)
    /\ notice' = [notice EXCEPT ![p] = "REVOKED"]
    /\ trip' = [trip EXCEPT ![p] = [i \in Slots |-> RestoredByRevoke(trip[p][i])]]
    /\ Sit(s, "tell restored", {p}, {}, NoRows)
    /\ UNCHANGED <<holder, claimed, job, worker, user, told, broken>>

\* After the commit: the notice is read again, and the message is sent only
\* if it still stands as it was left
Tell(s, op, status, send) ==
    /\ desk[s].op = op
    /\ IF desk[s].todo = {} THEN desk' = [desk EXCEPT ![s] = DeskOff]
       ELSE IF notice[Next1(s)] = status
       THEN Sit(s, send, desk[s].todo, {Next1(s)}, NoRows)
       ELSE Sit(s, op, desk[s].todo \ {Next1(s)}, {}, NoRows)
    /\ UNCHANGED <<notice, trip, holder, claimed, job, worker, user, told, broken>>

\* Nothing holds the notice between that reading and the message
Send(s, op, word, tell) ==
    /\ desk[s].op = op
    /\ told' = [told EXCEPT ![Next1(s)] =
                  Message(word, Next1(s) \in desk[s].done /\ notice[Next1(s)] # Meaning(word))]
    /\ Sit(s, tell, desk[s].todo \ {Next1(s)}, {}, NoRows)
    /\ UNCHANGED <<notice, trip, holder, claimed, job, worker, user, broken>>

\* Mutant: the notice is not read again
DispatchUnread(s) ==
    \/ /\ desk[s].op = "tell notice"
       /\ desk' = [desk EXCEPT ![s] = IF desk[s].todo = {} THEN DeskOff
                                      ELSE Sitting("send notice", desk[s].todo, {}, NoRows)]
       /\ UNCHANGED <<notice, trip, holder, claimed, job, worker, user, told, broken>>
    \/ Send(s, "send notice", "notice", "tell notice")

DispatchNotice(s) ==
    Tell(s, "tell notice", "ACTIVE", "send notice") \/ Send(s, "send notice", "notice", "tell notice")

DispatchRestoration(s) ==
    \/ Tell(s, "tell restored", "REVOKED", "send restored")
    \/ Send(s, "send restored", "restored", "tell restored")

RequestDies(s) ==
    /\ desk[s].op # "idle"
    /\ desk' = [desk EXCEPT ![s] = DeskOff]
    /\ holder' = Release(s)
    /\ broken' = TRUE
    /\ UNCHANGED <<notice, trip, claimed, job, worker, user, told>>

-----------------------------------------------------------------------------
(* Requests on one assignment.  Each loads the row, decides on its copy,   *)
(* and saves some columns or all of them; none takes the plan's lock.      *)

Load(u, op, p, i, started, tagged) ==
    /\ user[u].op = "idle" /\ i \in Live(p)
    /\ user' = [user EXCEPT ![u] = Having(op, p, i, started, tagged)]
    /\ UNCHANGED <<notice, trip, holder, claimed, job, worker, desk, told, broken>>

\* The driver app refuses a trip that is completed or cancelled
LoadDrive(u, p, i) ==
    /\ trip[p][i].status \in {"Scheduled", "In Progress"}
    /\ \/ Load(u, "start", p, i, trip[p][i].status = "In Progress", FALSE)
       \/ Load(u, "end", p, i, FALSE, FALSE)

\* The form edits scheduled trips only and refuses a second trip of the day
LoadEdit(u, p, i) ==
    /\ trip[p][i].status = "Scheduled" /\ ~Conflict(p, i)
    /\ Load(u, "edit", p, i, FALSE, trip[p][i].tagged)

LoadCancel(u, p, i) == Load(u, "cancel", p, i, FALSE, trip[p][i].tagged)

Save(u, row) ==
    /\ Unlocked(user[u].plan, user[u].slot)
    /\ trip' = [trip EXCEPT ![user[u].plan] = [@ EXCEPT ![user[u].slot] = row]]
    /\ user' = [user EXCEPT ![u] = UserOff]
    /\ UNCHANGED <<notice, holder, claimed, job, worker, desk, told, broken>>

InDb(u) == trip[user[u].plan][user[u].slot]

\* mark_started saves the status when the copy is not yet In Progress; the
\* first scan starts a trip too, and collects a stop
Start(u) ==
    /\ user[u].op = "start"
    /\ \E c \in {TRUE, InDb(u).collected} :
          Save(u, [InDb(u) EXCEPT !.collected = c,
                     !.status = IF user[u].started THEN @ ELSE "In Progress"])

\* mark_ended
End(u) ==
    /\ user[u].op = "end"
    /\ Save(u, [InDb(u) EXCEPT !.status = "Completed"])

\* Every column is written from the copy, is_deleted included
Whole(u, status) ==
    [status |-> status, by |-> InDb(u).by, tagged |-> user[u].tagged,
     kept |-> IF InDb(u).kept = "deleted" THEN "revived" ELSE InDb(u).kept,
     collected |-> InDb(u).collected]

Edit(u) ==
    /\ user[u].op = "edit"
    /\ \E status \in Statuses, c \in BOOLEAN :     \* the form also marks stops, collected or not
         Save(u, [Whole(u, status) EXCEPT !.collected = c])

Cancel(u) ==
    /\ user[u].op = "cancel"
    /\ Save(u, Whole(u, "Cancelled"))

\* perform_destroy names its columns
Delete(u, p, i) ==
    /\ user[u].op = "idle" /\ i \in Live(p)
    /\ Unlocked(p, i)
    /\ Free(p) # {}
    /\ trip' = [trip EXCEPT ![p] = [@ EXCEPT ![i] =
                 [trip[p][i] EXCEPT !.status = "Cancelled", !.kept = "deleted"]]]
    /\ UNCHANGED <<notice, holder, claimed, job, worker, desk, user, told, broken>>

\* The form refuses a second trip of the day, then inserts
AskCreate(u, p) ==
    /\ user[u].op = "idle"
    /\ ~Conflict(p, 0)
    /\ user' = [user EXCEPT ![u] = Having("create", p, 1, FALSE, FALSE)]
    /\ UNCHANGED <<notice, trip, holder, claimed, job, worker, desk, told, broken>>

\* Bound: the last slot is left to the generators, the creation is dropped
Create(u) ==
    LET p == user[u].plan
    IN  /\ user[u].op = "create"
        /\ trip' = [trip EXCEPT ![p] = IF Cardinality(Free(p)) > 1 THEN Created(p, "admin") ELSE @]
        /\ user' = [user EXCEPT ![u] = UserOff]
        /\ UNCHANGED <<notice, holder, claimed, job, worker, desk, told, broken>>

-----------------------------------------------------------------------------

WorkerStep(w) == GetJob(w) \/ Peek(w) \/ Lock(w) \/ Look(w) \/ Insert(w)

DeskStep(s) ==
    \/ SelectLock(s) \/ SelectLook(s) \/ SelectCommit(s)
    \/ DeclareLock(s) \/ DeclareCheck(s) \/ DeclareRows(s) \/ DeclareCommit(s)
    \/ DispatchNotice(s) \/ DispatchRestoration(s)

UserStep(u) == Start(u) \/ End(u) \/ Edit(u) \/ Cancel(u) \/ Create(u)

Next ==
    \/ \E w \in Workers :
          Tick(w) \/ (\E m \in {"manual", "daily"} : AskRun(w, m)) \/ WorkerStep(w) \/ RunDies(w)
    \/ \E s \in Supervisors :
          \/ \E ids \in (SUBSET Owned) \ {{}} : AskSelected(s, ids) \/ AskNoCollection(s, ids)
          \/ \E p \in Owned : Revoke(s, p)
          \/ DeskStep(s) \/ RequestDies(s)
    \/ \E u \in Users :
          \/ \E p \in Owned : AskCreate(u, p) \/ \E i \in Slots :
                LoadDrive(u, p, i) \/ LoadEdit(u, p, i) \/ LoadCancel(u, p, i) \/ Delete(u, p, i)
          \/ UserStep(u)

Spec == Init /\ [][Next]_vars

\* The beat ticks every minute; a run and a request that were begun go on
Fairness ==
    /\ WF_vars(\E w \in Workers : Tick(w))
    /\ \A w \in Workers : SF_vars(WorkerStep(w))
    /\ \A s \in Supervisors : SF_vars(DeskStep(s))

FairSpec == Spec /\ Fairness

-----------------------------------------------------------------------------
(* Properties.                                                             *)

\* However many runs, taps and retries overlap, and whatever people delete
\* in between, "re-running for the same date never creates a second
\* scheduler-generated assignment" beside one that was never deleted.
OneGeneratedTrip ==
    \A p \in Plans : \A i, j \in Slots :
        (\A k \in {i, j} : trip[p][k].by = "generator" /\ trip[p][k].kept = "yes") => i = j

\* No trip is generated for a plan whose collection has been called off:
\* "generation cannot race a service cancellation after checking the notice".
NoticeHoldsGeneration ==
    [][\A p \in Plans :
         (\E i \in Free(p) : (trip[p][i].by)' = "generator") => notice'[p] # "ACTIVE"]_vars

\* The day's run is claimed once, and yet every plan that is due gets its
\* trip or has been called off, unless something died or failed.
DuePlansServed ==
    \A p \in Plans : <>(Free(p) # Slots \/ notice[p] = "ACTIVE" \/ broken)

\* However declarations and revocations of several requests follow and
\* overtake one another, the crew is told what stands, as long as it stands
\* and nothing died.  One window is left: a message goes out all the same
\* when its notice was changed after it had been read again.
CrewIsTold ==
    \A p \in Plans : \A word \in {"notice", "restored"} :
        notice[p] = Meaning(word)
            ~> notice[p] # Meaning(word) \/ told[p].word = word \/ told[p].crossed \/ broken

=============================================================================
