--------------------------- MODULE DailyTripsProofs ---------------------------
(* What DailyTrips keeps for any number of plans, trips, runs, supervisors *)
(* and users: the plan's row lock excludes, and so no trip is generated    *)
(* twice or under a notice.                                                *)
EXTENDS DailyTrips, FiniteSetTheorems, TLAPS

USE DayConstants

\* A set of numbers that is not empty has a first one: the intervals up to its
\* members are well-founded by inclusion.
LEMMA FirstIn ==
    ASSUME NEW S \in SUBSET Nat, S # {} PROVE First(S) \in S /\ \A j \in S : First(S) <= j
<1>1. PICK i \in S : TRUE
  OBVIOUS
<1> DEFINE I == 0..i
           T == {0..j : j \in {k \in S : k <= i}}
<1>2. IsFiniteSet(I) /\ IsWellFoundedOn(StrictSubsetOrdering(I), FiniteSubsetsOf(I))
  BY FS_Interval, FS_StrictSubsetOrderingWellFounded
<1>3. T \subseteq FiniteSubsetsOf(I) /\ T # {}
  <2>1. ASSUME NEW j \in S, j <= i PROVE 0..j \in FiniteSubsetsOf(I)
    <3>1. 0..j \subseteq I /\ IsFiniteSet(0..j)
      BY <2>1, FS_Interval
    <3> QED BY <3>1 DEF FiniteSubsetsOf
  <2>2. 0..i \in T
    OBVIOUS
  <2> QED BY <2>1, <2>2
<1>4. PICK x \in T : \A y \in T : ~(<<y, x>> \in StrictSubsetOrdering(I))
  BY <1>2, <1>3, WFMin
<1>5. PICK m \in S : m <= i /\ x = 0..m
  OBVIOUS
<1>6. ASSUME NEW j \in S, ~(m <= j) PROVE FALSE
  <2>1. 0..j \in T /\ 0..j \subseteq 0..m /\ 0..j # 0..m
    BY <1>5, <1>6
  <2>2. <<0..j, 0..m>> \in StrictSubsetOrdering(I)
    BY <2>1, <1>5 DEF StrictSubsetOrdering
  <2> QED BY <2>1, <2>2, <1>4, <1>5
<1>7. \A j \in S : m <= j
  BY <1>6
<1> QED BY <1>7 DEF First

-----------------------------------------------------------------------------
(* The invariant.                                                          *)

\* A slot that was never written belongs to nobody
FreeIsBare == \A p \in Plans : \A i \in Slots : trip[p][i].status = "none" => trip[p][i].by = "none"

\* A run past its lock has the lock
WorkerHolds == \A w \in Workers : worker[w].op \in {"look", "insert"} => holder[worker[w].plan] = w

LockingOps == {"select lock", "select look", "declare lock", "declare check", "declare rows"}
LookingOps == {"select look", "declare check", "declare rows"}

\* A request holds the locks of the plans it has been through, and of the one
\* it is looking at
DeskHolds ==
    \A s \in Supervisors :
        /\ desk[s].op \in LookingOps => desk[s].todo # {} /\ holder[Next1(s)] = s
        /\ desk[s].op \in LockingOps => \A p \in desk[s].done : holder[p] = s

Generated(p) == {i \in Slots : trip[p][i].by = "generator" /\ trip[p][i].kept = "yes"}

\* What a trip is about to be generated for
Ready(p) == notice[p] # "ACTIVE" /\ Generated(p) = {}

WorkerReady == \A w \in Workers : worker[w].op = "insert" => Ready(worker[w].plan)

DeskReady ==
    \A s \in Supervisors :
        desk[s].op \in {"select lock", "select look"} => \A p \in desk[s].done : Ready(p)

IInv == TypeOK /\ FreeIsBare /\ WorkerHolds /\ DeskHolds /\ WorkerReady /\ DeskReady /\ OneGeneratedTrip

-----------------------------------------------------------------------------
(* Types.                                                                  *)

RowTypes ==
    /\ notice \in [Plans -> {"none", "ACTIVE", "REVOKED"}]
    /\ trip \in [Plans -> [Slots -> TripRows]]
LockTypes ==
    /\ holder \in [Plans -> Actors \cup {"free"}]
    /\ job \in [NamedModes -> Workers \cup {"free"}]
WorkerTypes == worker \in [Workers -> [op : WorkerOps, mode : Modes, plan : Plans]]
DeskTypes ==
    desk \in [Supervisors -> [op : DeskOps, todo : SUBSET Plans, done : SUBSET Plans,
                              rows : [Plans -> SUBSET Slots]]]
UserTypes ==
    user \in [Users -> [op : UserOps, plan : Plans, slot : Slots, started : BOOLEAN, tagged : BOOLEAN]]
FlagTypes ==
    /\ claimed \in BOOLEAN
    /\ told \in [Plans -> Messages]
    /\ broken \in BOOLEAN

LEMMA TypesApart ==
    /\ TypeOK <=> RowTypes /\ LockTypes /\ WorkerTypes /\ DeskTypes /\ UserTypes /\ FlagTypes
    /\ TypeOK' <=> RowTypes' /\ LockTypes' /\ WorkerTypes' /\ DeskTypes' /\ UserTypes' /\ FlagTypes'
BY DEF TypeOK, RowTypes, LockTypes, WorkerTypes, DeskTypes, UserTypes, FlagTypes

LEMMA NextIsPlan ==
    ASSUME DeskTypes, NEW s \in Supervisors, desk[s].todo # {} PROVE Next1(s) \in desk[s].todo
<1>1. desk[s].todo \in SUBSET Nat
  BY DEF DeskTypes, Plans
<1> QED BY <1>1, FirstIn DEF Next1

LEMMA ReleaseType ==
    ASSUME LockTypes, NEW a \in Actors PROVE Release(a) \in [Plans -> Actors \cup {"free"}]
BY DEF LockTypes, Release

LEMMA JobAfterType ==
    ASSUME LockTypes, NEW w \in Workers PROVE JobAfter(w) \in [NamedModes -> Workers \cup {"free"}]
BY DEF LockTypes, JobAfter

LEMMA CreatedType ==
    ASSUME RowTypes, NEW p \in Plans, NEW by \in {"generator", "admin"}
    PROVE  Created(p, by) \in [Slots -> TripRows]
BY DEF RowTypes, Created, NewTrip, TripRows, Statuses

\* The plan a run moves to is a plan
LEMMA ContinueType ==
    ASSUME LockTypes, WorkerTypes, NEW w \in Workers, Continue(w)
    PROVE  WorkerTypes' /\ job' \in [NamedModes -> Workers \cup {"free"}]
<1>1. CASE worker[w].plan < N
  <2>1. worker[w].plan + 1 \in Plans
    BY <1>1 DEF WorkerTypes, Plans
  <2> QED BY <1>1, <2>1 DEF Continue, Work, Working, WorkerTypes, WorkerOps, LockTypes
<1>2. CASE ~(worker[w].plan < N)
  <2>1. WorkerTypes'
    BY <1>2 DEF Continue, WorkerOff, Working, WorkerTypes, WorkerOps, Modes, Plans
  <2> QED BY <1>2, <2>1, JobAfterType DEF Continue
<1> QED BY <1>1, <1>2

LEMMA WorkerTypeStep ==
    ASSUME TypeOK, NEW w \in Workers,
           Tick(w) \/ (\E m \in {"manual", "daily"} : AskRun(w, m)) \/ WorkerStep(w) \/ RunDies(w)
    PROVE  TypeOK'
<1> USE TypesApart
<1> USE DEF Work, Working, WorkerOff, WorkerTypes, WorkerOps, Modes, Actors
<1>0. RowTypes /\ LockTypes /\ WorkerTypes /\ DeskTypes /\ UserTypes /\ FlagTypes
  OBVIOUS
<1>r. Release(w) \in [Plans -> Actors \cup {"free"}]
  BY <1>0, ReleaseType
<1>f. UNCHANGED <<claimed, told, broken>> => FlagTypes'
  BY <1>0 DEF FlagTypes
<1>d. UNCHANGED <<desk, user>> => DeskTypes' /\ UserTypes'
  BY <1>0 DEF DeskTypes, UserTypes
<1>t. UNCHANGED <<notice, trip>> => RowTypes'
  BY <1>0 DEF RowTypes
<1>l. UNCHANGED <<holder, job>> => LockTypes'
  BY <1>0 DEF LockTypes
<1>1. CASE Tick(w)
  <2>1. WorkerTypes' BY <1>0, <1>1 DEF Tick, Plans
  <2>2. FlagTypes' BY <1>0, <1>1 DEF Tick, FlagTypes
  <2> QED BY <2>1, <2>2, <1>1, <1>d, <1>t, <1>l DEF Tick
<1>2. ASSUME NEW m \in {"manual", "daily"}, AskRun(w, m) PROVE TypeOK'
  <2>1. WorkerTypes' BY <1>0, <1>2 DEF AskRun, Plans
  <2> QED BY <2>1, <1>2, <1>f, <1>d, <1>t, <1>l DEF AskRun
<1>3. CASE GetJob(w)
  <2>1. WorkerTypes' BY <1>0, <1>3 DEF GetJob, Plans
  <2>2. LockTypes' BY <1>0, <1>3 DEF GetJob, LockTypes, NamedModes
  <2> QED BY <2>1, <2>2, <1>3, <1>f, <1>d, <1>t DEF GetJob
<1>4. CASE Peek(w)
  <2>1. WorkerTypes' /\ job' \in [NamedModes -> Workers \cup {"free"}]
    BY <1>0, <1>4, ContinueType DEF Peek, LockTypes
  <2>2. LockTypes' BY <1>0, <2>1, <1>4 DEF Peek, LockTypes
  <2> QED BY <2>1, <2>2, <1>4, <1>f, <1>d, <1>t DEF Peek
<1>5. CASE Lock(w)
  <2>1. WorkerTypes' BY <1>0, <1>5 DEF Lock
  <2>2. LockTypes' BY <1>0, <1>5 DEF Lock, LockTypes
  <2> QED BY <2>1, <2>2, <1>5, <1>f, <1>d, <1>t DEF Lock
<1>6. CASE Look(w)
  <2>1. WorkerTypes' /\ job' \in [NamedModes -> Workers \cup {"free"}]
    BY <1>0, <1>6, ContinueType DEF Look, LockTypes
  <2>2. LockTypes' BY <1>0, <2>1, <1>6, <1>r DEF Look, LockTypes
  <2> QED BY <2>1, <2>2, <1>6, <1>f, <1>d, <1>t DEF Look
<1>7. CASE Insert(w)
  <2>1. WorkerTypes' /\ job' \in [NamedModes -> Workers \cup {"free"}]
    BY <1>0, <1>7, ContinueType DEF Insert
  <2>2. LockTypes' BY <2>1, <1>7, <1>r DEF Insert, LockTypes
  <2>3. worker[w].plan \in Plans BY <1>0
  <2>4. Created(worker[w].plan, "generator") \in [Slots -> TripRows]
    BY <1>0, <2>3, CreatedType
  <2>5. RowTypes' BY <1>0, <2>3, <2>4, <1>7 DEF Insert, RowTypes
  <2> QED BY <2>1, <2>2, <2>5, <1>7, <1>f, <1>d DEF Insert
<1>8. CASE RunDies(w)
  <2>1. WorkerTypes' BY <1>0, <1>8 DEF RunDies, Plans
  <2>2. LockTypes' BY <1>0, <1>8, <1>r, JobAfterType DEF RunDies, LockTypes
  <2>3. FlagTypes' BY <1>0, <1>8 DEF RunDies, FlagTypes
  <2> QED BY <2>1, <2>2, <2>3, <1>8, <1>d, <1>t DEF RunDies
<1> QED BY <1>1, <1>2, <1>3, <1>4, <1>5, <1>6, <1>7, <1>8 DEF WorkerStep

LEMMA SitType ==
    ASSUME DeskTypes, NEW s \in Supervisors, NEW op \in DeskOps, NEW todo \in SUBSET Plans,
           NEW done \in SUBSET Plans, NEW rows \in [Plans -> SUBSET Slots], Sit(s, op, todo, done, rows)
    PROVE  DeskTypes'
BY DEF DeskTypes, Sit, Sitting

LEMMA LiveIsSlots == ASSUME NEW p PROVE Live(p) \in SUBSET Slots
BY DEF Live

\* The requests of the supervisor app; those that look at a plan have one
LEMMA DeskTypeStep ==
    ASSUME TypeOK, DeskHolds, NEW s \in Supervisors,
           \/ \E ids \in (SUBSET Owned) \ {{}} : AskSelected(s, ids) \/ AskNoCollection(s, ids)
           \/ \E p \in Owned : Revoke(s, p)
           \/ DeskStep(s) \/ RequestDies(s)
    PROVE  TypeOK'
<1> USE TypesApart
<1>0. RowTypes /\ LockTypes /\ WorkerTypes /\ DeskTypes /\ UserTypes /\ FlagTypes
  OBVIOUS
<1>s. /\ {} \in SUBSET Plans /\ NoRows \in [Plans -> SUBSET Slots]
      /\ desk[s].todo \in SUBSET Plans /\ desk[s].done \in SUBSET Plans
      /\ desk[s].rows \in [Plans -> SUBSET Slots]
  BY <1>0 DEF DeskTypes, NoRows
<1>n. desk[s].todo # {} => Next1(s) \in Plans
  BY <1>0, <1>s, NextIsPlan
<1>o. desk[s].op \in LookingOps => desk[s].todo # {}
  BY DEF DeskHolds
<1>r. Release(s) \in [Plans -> Actors \cup {"free"}]
  BY <1>0, ReleaseType DEF Actors
<1>off. desk' = [desk EXCEPT ![s] = DeskOff] => DeskTypes'
  <2>1. DeskOff = Sitting("idle", {}, {}, NoRows)
    BY DEF DeskOff
  <2>2. "idle" \in DeskOps
    BY DEF DeskOps
  <2> QED BY <1>0, <1>s, <2>1, <2>2, SitType DEF Sit
<1>f. UNCHANGED <<claimed, told, broken>> => FlagTypes'
  BY <1>0 DEF FlagTypes
<1>d. UNCHANGED <<worker, user>> => WorkerTypes' /\ UserTypes'
  BY <1>0 DEF WorkerTypes, UserTypes
<1>t. UNCHANGED <<notice, trip>> => RowTypes'
  BY <1>0 DEF RowTypes
<1>l. UNCHANGED <<holder, job>> => LockTypes'
  BY <1>0 DEF LockTypes
<1>h. holder' = Release(s) /\ UNCHANGED job => LockTypes'
  BY <1>0, <1>r DEF LockTypes
<1>1. ASSUME NEW ids \in SUBSET Owned, AskSelected(s, ids) PROVE TypeOK'
  <2>1. DeskTypes' BY <1>0, <1>s, <1>1, SitType DEF AskSelected, Plans, DeskOps
  <2> QED BY <2>1, <1>1, <1>f, <1>d, <1>t, <1>l DEF AskSelected
<1>2. ASSUME NEW ids \in SUBSET Owned, AskNoCollection(s, ids) PROVE TypeOK'
  <2>1. DeskTypes' BY <1>0, <1>s, <1>2, SitType DEF AskNoCollection, Plans, DeskOps
  <2> QED BY <2>1, <1>2, <1>f, <1>d, <1>t, <1>l DEF AskNoCollection
<1>3. ASSUME NEW p \in Owned, Revoke(s, p) PROVE TypeOK'
  <2>1. p \in Plans
    BY DEF Plans
  <2>2. DeskTypes' BY <1>0, <1>s, <1>3, <2>1, SitType DEF Revoke, DeskOps
  <2>3. [i \in Slots |-> RestoredByRevoke(trip[p][i])] \in [Slots -> TripRows]
    <3>1. ASSUME NEW row \in TripRows PROVE RestoredByRevoke(row) \in TripRows
      BY DEF RestoredByRevoke, TripRows, Statuses
    <3>2. \A i \in Slots : trip[p][i] \in TripRows
      BY <1>0, <2>1 DEF RowTypes
    <3> QED BY <3>1, <3>2
  <2>4. RowTypes' BY <1>0, <1>3, <2>1, <2>3 DEF Revoke, RowTypes
  <2> QED BY <2>2, <2>4, <1>3, <1>f, <1>d, <1>l DEF Revoke
<1>4. CASE SelectLock(s)
  <2>1. DeskTypes' BY <1>0, <1>s, <1>4, SitType DEF SelectLock, DeskOps
  <2>2. LockTypes' BY <1>0, <1>4, <1>n DEF SelectLock, LockTypes, Actors
  <2> QED BY <2>1, <2>2, <1>4, <1>f, <1>d, <1>t DEF SelectLock
<1>5. CASE SelectLook(s)
  <2>1. Next1(s) \in Plans BY <1>5, <1>n, <1>o DEF SelectLook, LookingOps
  <2>2. DeskTypes' BY <1>0, <1>s, <1>5, <2>1, SitType DEF SelectLook, DeskOps
  <2> QED BY <2>2, <1>5, <1>f, <1>d, <1>t, <1>l DEF SelectLook
<1>6. CASE SelectCommit(s)
  <2>1. DeskTypes' BY <1>6, <1>off DEF SelectCommit
  <2>2. RowTypes' BY <1>0, <1>6, CreatedType DEF SelectCommit, RowTypes
  <2> QED BY <2>1, <2>2, <1>6, <1>f, <1>d, <1>h DEF SelectCommit
<1>7. CASE DeclareLock(s)
  <2>1. DeskTypes' BY <1>0, <1>s, <1>7, SitType DEF DeclareLock, DeskOps
  <2>2. LockTypes' BY <1>0, <1>7, <1>n DEF DeclareLock, LockTypes, Actors
  <2> QED BY <2>1, <2>2, <1>7, <1>f, <1>d, <1>t DEF DeclareLock
<1>8. CASE DeclareCheck(s)
  <2>1. DeskTypes' /\ LockTypes'
    BY <1>0, <1>s, <1>8, <1>off, <1>h, <1>l, SitType DEF DeclareCheck, DeskOps, Refuse
  <2> QED BY <2>1, <1>8, <1>f, <1>d, <1>t DEF DeclareCheck
<1>9. CASE DeclareRows(s)
  <2>1. Next1(s) \in Plans BY <1>9, <1>n, <1>o DEF DeclareRows, LookingOps
  <2>2. [desk[s].rows EXCEPT ![Next1(s)] = Live(Next1(s))] \in [Plans -> SUBSET Slots]
    BY <1>s, <2>1, LiveIsSlots
  <2>3. DeskTypes' /\ LockTypes'
    BY <1>0, <1>s, <1>9, <2>1, <2>2, <1>off, <1>h, <1>l, SitType DEF DeclareRows, DeskOps, Refuse
  <2> QED BY <2>3, <1>9, <1>f, <1>d, <1>t DEF DeclareRows
<1>10. CASE DeclareCommit(s)
  <2>1. DeskTypes' BY <1>0, <1>s, <1>10, SitType DEF DeclareCommit, DeskOps
  <2>2. \A p \in Plans : \A i \in Slots : CancelledByNotice(trip[p][i]) \in TripRows
    <3>1. ASSUME NEW row \in TripRows PROVE CancelledByNotice(row) \in TripRows
      BY DEF CancelledByNotice, TripRows, Statuses
    <3> QED BY <1>0, <3>1 DEF RowTypes
  <2>3. RowTypes' BY <1>0, <1>10, <2>2 DEF DeclareCommit, RowTypes
  <2> QED BY <2>1, <2>3, <1>10, <1>f, <1>d, <1>h DEF DeclareCommit
<1>11. ASSUME NEW op, NEW status, NEW send \in DeskOps, op \in DeskOps, Tell(s, op, status, send)
       PROVE  TypeOK'
  <2>1. desk[s].todo # {} => {Next1(s)} \in SUBSET Plans
    BY <1>n
  <2>2. DeskTypes' BY <1>0, <1>s, <1>11, <1>off, <2>1, SitType DEF Tell
  <2> QED BY <2>2, <1>11, <1>f, <1>d, <1>t, <1>l DEF Tell
<1>12. ASSUME NEW op, NEW what \in {"notice", "restored"}, NEW tell \in DeskOps, Send(s, op, what, tell)
       PROVE  TypeOK'
  <2>1. DeskTypes' BY <1>0, <1>s, <1>12, SitType DEF Send
  <2>2. \A crossed \in BOOLEAN : Message(what, crossed) \in Messages
    BY DEF Message, Messages
  <2>3. told' \in [Plans -> Messages]
    BY <1>0, <1>12, <2>2 DEF Send, FlagTypes
  <2>4. FlagTypes' BY <1>0, <1>12, <2>3 DEF Send, FlagTypes
  <2> QED BY <2>1, <2>4, <1>12, <1>d, <1>t, <1>l DEF Send
<1>13. CASE DispatchNotice(s) \/ DispatchRestoration(s)
  BY <1>13, <1>11, <1>12 DEF DispatchNotice, DispatchRestoration, DeskOps
<1>14. CASE RequestDies(s)
  <2>1. FlagTypes' BY <1>0, <1>14 DEF RequestDies, FlagTypes
  <2> QED BY <2>1, <1>14, <1>off, <1>d, <1>t, <1>h DEF RequestDies
<1> QED
  BY <1>1, <1>2, <1>3, <1>4, <1>5, <1>6, <1>7, <1>8, <1>9, <1>10, <1>13, <1>14 DEF DeskStep

LEMMA UserTypeStep ==
    ASSUME TypeOK, NEW u \in Users,
           \/ \E p \in Owned : AskCreate(u, p) \/ \E i \in Slots :
                LoadDrive(u, p, i) \/ LoadEdit(u, p, i) \/ LoadCancel(u, p, i) \/ Delete(u, p, i)
           \/ UserStep(u)
    PROVE  TypeOK'
<1> USE TypesApart
<1>0. RowTypes /\ LockTypes /\ WorkerTypes /\ DeskTypes /\ UserTypes /\ FlagTypes
  OBVIOUS
<1>1. UNCHANGED <<holder, claimed, job, worker, desk, told, broken>>
      => LockTypes' /\ WorkerTypes' /\ DeskTypes' /\ FlagTypes'
  BY <1>0 DEF LockTypes, WorkerTypes, DeskTypes, FlagTypes
<1>2. UNCHANGED <<notice, trip>> => RowTypes'
  BY <1>0 DEF RowTypes
<1>3. user[u].plan \in Plans /\ user[u].slot \in Slots /\ user[u].tagged \in BOOLEAN
  BY <1>0 DEF UserTypes
<1>4. user' = [user EXCEPT ![u] = UserOff] => UserTypes'
  BY <1>0 DEF UserTypes, UserOff, Having, UserOps, Plans, Slots
<1>5. ASSUME NEW row \in TripRows, Save(u, row) PROVE TypeOK'
  <2>1. RowTypes' BY <1>0, <1>3, <1>5 DEF Save, RowTypes
  <2> QED BY <2>1, <1>1, <1>4, <1>5 DEF Save
<1>6. InDb(u) \in TripRows
  BY <1>0, <1>3 DEF InDb, RowTypes
<1>7. \A status \in Statuses : Whole(u, status) \in TripRows
  BY <1>3, <1>6 DEF Whole, TripRows
<1>8. ASSUME NEW p \in Owned, AskCreate(u, p) PROVE TypeOK'
  <2>1. UserTypes' BY <1>0, <1>8 DEF AskCreate, UserTypes, Having, UserOps, Plans, Slots
  <2> QED BY <2>1, <1>1, <1>2, <1>8 DEF AskCreate
<1>9. ASSUME NEW p \in Owned, NEW i \in Slots, NEW op \in UserOps, NEW started \in BOOLEAN,
             NEW tagged \in BOOLEAN, Load(u, op, p, i, started, tagged)
      PROVE  TypeOK'
  <2>1. UserTypes' BY <1>0, <1>9 DEF Load, UserTypes, Having, Plans
  <2> QED BY <2>1, <1>1, <1>2, <1>9 DEF Load
<1>10. ASSUME NEW p \in Owned, NEW i \in Slots,
              LoadDrive(u, p, i) \/ LoadEdit(u, p, i) \/ LoadCancel(u, p, i)
       PROVE  TypeOK'
  <2>1. trip[p][i].tagged \in BOOLEAN /\ (trip[p][i].status = "In Progress") \in BOOLEAN
    BY <1>0 DEF RowTypes, TripRows, Plans
  <2>2. {"start", "end", "edit", "cancel"} \subseteq UserOps
    BY DEF UserOps
  <2> QED BY <1>9, <1>10, <2>1, <2>2 DEF LoadDrive, LoadEdit, LoadCancel
<1>11. ASSUME NEW p \in Owned, NEW i \in Slots, Delete(u, p, i) PROVE TypeOK'
  <2>1. [trip[p][i] EXCEPT !.status = "Cancelled", !.kept = "deleted"] \in TripRows
    <3>1. ASSUME NEW row \in TripRows
          PROVE  [row EXCEPT !.status = "Cancelled", !.kept = "deleted"] \in TripRows
      BY DEF TripRows, Statuses
    <3>2. trip[p][i] \in TripRows
      BY <1>0 DEF RowTypes, Plans
    <3> QED BY <3>1, <3>2
  <2>2. RowTypes' BY <1>0, <1>11, <2>1 DEF Delete, RowTypes, Plans
  <2>3. UserTypes' BY <1>0, <1>11 DEF Delete, UserTypes
  <2> QED BY <2>2, <2>3, <1>1, <1>11 DEF Delete
<1>12. CASE Start(u)
  <2>1. PICK c \in {TRUE, InDb(u).collected} :
          Save(u, [InDb(u) EXCEPT !.collected = c,
                     !.status = IF user[u].started THEN @ ELSE "In Progress"])
    BY <1>12 DEF Start
  <2>2. [InDb(u) EXCEPT !.collected = c,
                     !.status = IF user[u].started THEN @ ELSE "In Progress"] \in TripRows
    BY <1>6 DEF TripRows, Statuses
  <2> QED BY <1>5, <2>1, <2>2
<1>13. CASE End(u)
  <2>1. [InDb(u) EXCEPT !.status = "Completed"] \in TripRows
    BY <1>6 DEF TripRows, Statuses
  <2> QED BY <1>5, <1>13, <2>1 DEF End
<1>14. CASE Cancel(u)
  BY <1>5, <1>7, <1>14 DEF Cancel, Statuses
<1>15. CASE Edit(u)
  <2>1. PICK status \in Statuses, c \in BOOLEAN : Save(u, [Whole(u, status) EXCEPT !.collected = c])
    BY <1>15 DEF Edit
  <2>2. Whole(u, status) \in TripRows
    BY <1>7
  <2>3. [Whole(u, status) EXCEPT !.collected = c] \in TripRows
    BY <2>2 DEF TripRows
  <2> QED BY <1>5, <2>1, <2>3
<1>16. CASE Create(u)
  <2>1. Created(user[u].plan, "admin") \in [Slots -> TripRows]
    BY <1>0, <1>3, CreatedType
  <2>2. RowTypes' BY <1>0, <1>3, <1>16, <2>1 DEF Create, RowTypes
  <2> QED BY <2>2, <1>1, <1>4, <1>16 DEF Create
<1> QED BY <1>8, <1>10, <1>11, <1>12, <1>13, <1>14, <1>15, <1>16 DEF UserStep

-----------------------------------------------------------------------------
(* What a step of one actor does to rows, notices and locks.  A step of a  *)
(* user, who takes no lock, is counted as one of actor "free".             *)

KeepsRow(p, i) ==
    /\ trip'[p][i].status = "none" => trip'[p][i].by = "none"
    /\ trip'[p][i].by = "generator" =>
          trip[p][i].by = "generator" /\ (trip'[p][i].kept = "yes" => trip[p][i].kept = "yes")

\* One trip is generated for a plan that is ready for it, under its lock
Generates(p, a) ==
    /\ Ready(p) /\ holder[p] = a /\ notice'[p] # "ACTIVE"
    /\ \E k : /\ \A i \in Slots \ {k} : KeepsRow(p, i)
              /\ k \in Slots => trip'[p][k].status # "none"

RowStep(a) ==
    \A p \in Plans :
        /\ (\A i \in Slots : KeepsRow(p, i)) \/ Generates(p, a)
        /\ notice'[p] = "ACTIVE" => notice[p] = "ACTIVE" \/ holder[p] = a

\* Locks are taken when they are free and given up by those who hold them
LockStep(a) ==
    \A p \in Plans : holder'[p] = holder[p] \/ (holder[p] = "free" /\ holder'[p] = a) \/ holder[p] = a

LEMMA RowsUnchanged == ASSUME FreeIsBare, UNCHANGED <<notice, trip>>, NEW a PROVE RowStep(a)
BY DEF RowStep, KeepsRow, FreeIsBare

LEMMA CreatedKeeps ==
    ASSUME RowTypes, FreeIsBare, NEW p \in Plans, NEW by \in {"generator", "admin"}
    PROVE  /\ \A i \in Slots \ {First(Free(p))} : Created(p, by)[i] = trip[p][i]
           /\ First(Free(p)) \in Slots => Created(p, by)[First(Free(p))] = NewTrip(by)
BY DEF RowTypes, Created

LEMMA WorkerRows ==
    ASSUME IInv, NEW w \in Workers,
           Tick(w) \/ (\E m \in {"manual", "daily"} : AskRun(w, m)) \/ WorkerStep(w) \/ RunDies(w)
    PROVE  RowStep(w) /\ LockStep(w)
<1>0. TypeOK /\ FreeIsBare /\ RowTypes /\ LockTypes /\ worker[w].plan \in Plans
  BY TypesApart DEF IInv, WorkerTypes
<1>1. CASE Insert(w)
  <2> DEFINE p == worker[w].plan
             k == First(Free(p))
  <2>1. Ready(p) /\ holder[p] = w
    BY <1>1 DEF IInv, WorkerHolds, WorkerReady, Insert
  <2>2. notice' = notice /\ trip' = [trip EXCEPT ![p] = Created(p, "generator")] /\ holder' = Release(w)
    BY <1>1 DEF Insert
  <2>3. trip'[p] = Created(p, "generator") /\ \A q \in Plans \ {p} : trip'[q] = trip[q]
    BY <1>0, <2>2 DEF RowTypes
  <2>4. \A i \in Slots \ {k} : trip'[p][i] = trip[p][i]
    BY <1>0, <2>3, CreatedKeeps
  <2>5. k \in Slots => trip'[p][k] = NewTrip("generator")
    BY <1>0, <2>3, CreatedKeeps
  <2>6. \A i \in Slots \ {k} : KeepsRow(p, i)
    BY <1>0, <2>4 DEF KeepsRow, FreeIsBare
  <2>7. Generates(p, w)
    <3>1. k \in Slots => trip'[p][k].status # "none"
      BY <2>5 DEF NewTrip
    <3> QED BY <2>1, <2>2, <2>6, <3>1 DEF Generates, Ready
  <2>8. \A q \in Plans \ {p} : \A i \in Slots : KeepsRow(q, i)
    BY <1>0, <2>3 DEF KeepsRow, FreeIsBare
  <2>9. LockStep(w)
    BY <1>0, <2>2 DEF LockStep, Release
  <2> QED BY <2>2, <2>7, <2>8, <2>9 DEF RowStep
<1>2. CASE ~Insert(w)
  <2>1. UNCHANGED <<notice, trip>>
    BY <1>2 DEF Tick, AskRun, WorkerStep, GetJob, Peek, Lock, Look, RunDies
  <2>2. holder' = holder \/ holder' = Release(w) \/ Lock(w)
    BY <1>2 DEF Tick, AskRun, WorkerStep, GetJob, Peek, Look, RunDies
  <2>3. LockStep(w)
    BY <1>0, <2>2 DEF LockStep, Release, Lock, LockTypes
  <2> QED BY <1>0, <2>1, <2>3, RowsUnchanged
<1> QED BY <1>1, <1>2

LEMMA DeskRows ==
    ASSUME IInv, NEW s \in Supervisors,
           \/ \E ids \in (SUBSET Owned) \ {{}} : AskSelected(s, ids) \/ AskNoCollection(s, ids)
           \/ \E p \in Owned : Revoke(s, p)
           \/ DeskStep(s) \/ RequestDies(s)
    PROVE  RowStep(s) /\ LockStep(s)
<1>0. TypeOK /\ FreeIsBare /\ RowTypes /\ LockTypes /\ DeskTypes
  BY TypesApart DEF IInv
<1>1. CASE SelectCommit(s)
  <2>1. notice' = notice /\ holder' = Release(s)
    BY <1>1 DEF SelectCommit
  <2>2. ASSUME NEW p \in Plans, p \in desk[s].done PROVE Generates(p, s)
    <3> DEFINE k == First(Free(p))
    <3>1. Ready(p) /\ holder[p] = s
      BY <1>1, <2>2 DEF IInv, DeskHolds, DeskReady, SelectCommit, LockingOps
    <3>2. trip'[p] = Created(p, "generator")
      BY <1>1, <2>2 DEF SelectCommit
    <3>3. \A i \in Slots \ {k} : trip'[p][i] = trip[p][i]
      BY <1>0, <3>2, CreatedKeeps
    <3>4. k \in Slots => trip'[p][k] = NewTrip("generator")
      BY <1>0, <3>2, CreatedKeeps
    <3>5. k \in Slots => trip'[p][k].status # "none"
      BY <3>4 DEF NewTrip
    <3>6. \A i \in Slots \ {k} : KeepsRow(p, i)
      BY <1>0, <3>3 DEF KeepsRow, FreeIsBare
    <3> QED BY <2>1, <3>1, <3>5, <3>6 DEF Generates, Ready
  <2>3. ASSUME NEW p \in Plans, p \notin desk[s].done PROVE \A i \in Slots : KeepsRow(p, i)
    <3>1. trip'[p] = trip[p]
      BY <1>1, <2>3 DEF SelectCommit
    <3> QED BY <1>0, <3>1 DEF KeepsRow, FreeIsBare
  <2>4. LockStep(s)
    BY <1>0, <2>1 DEF LockStep, Release
  <2> QED BY <2>1, <2>2, <2>3, <2>4 DEF RowStep
<1>2. CASE DeclareCommit(s)
  <2>1. ASSUME NEW p \in Plans, NEW i \in Slots PROVE KeepsRow(p, i)
    <3>1. trip'[p][i] = IF i \in desk[s].rows[p] THEN CancelledByNotice(trip[p][i]) ELSE trip[p][i]
      BY <1>2 DEF DeclareCommit
    <3>2. /\ trip'[p][i].by = trip[p][i].by /\ trip'[p][i].kept = trip[p][i].kept
          /\ trip'[p][i].status = "none" => trip[p][i].status = "none"
      BY <3>1 DEF CancelledByNotice
    <3> QED BY <1>0, <3>2 DEF KeepsRow, FreeIsBare
  <2>2. ASSUME NEW p \in Plans, notice'[p] = "ACTIVE" PROVE notice[p] = "ACTIVE" \/ holder[p] = s
    <3>1. desk[s].op = "declare lock" /\ notice' = [q \in Plans |-> IF q \in desk[s].done THEN "ACTIVE" ELSE notice[q]]
      BY <1>2 DEF DeclareCommit
    <3> QED BY <2>2, <3>1 DEF IInv, DeskHolds, LockingOps
  <2>3. LockStep(s)
    BY <1>0, <1>2 DEF LockStep, Release, DeclareCommit
  <2> QED BY <2>1, <2>2, <2>3 DEF RowStep
<1>3. ASSUME NEW q \in Owned, Revoke(s, q) PROVE RowStep(s) /\ LockStep(s)
  <2>0. q \in Plans
    BY DEF Plans
  <2>1. notice' = [notice EXCEPT ![q] = "REVOKED"] /\ holder' = holder
    BY <1>3 DEF Revoke
  <2>2. ASSUME NEW p \in Plans, NEW i \in Slots PROVE KeepsRow(p, i)
    <3>1. trip'[p][i] = trip[p][i] \/ trip'[p][i] = RestoredByRevoke(trip[p][i])
      BY <1>0, <1>3, <2>0 DEF Revoke, RowTypes
    <3>2. /\ trip'[p][i].by = trip[p][i].by /\ trip'[p][i].kept = trip[p][i].kept
          /\ trip'[p][i].status = "none" => trip[p][i].status = "none"
      BY <3>1 DEF RestoredByRevoke
    <3> QED BY <1>0, <3>2 DEF KeepsRow, FreeIsBare
  <2>3. \A p \in Plans : notice'[p] = "ACTIVE" => notice[p] = "ACTIVE"
    BY <1>0, <2>0, <2>1 DEF RowTypes
  <2> QED BY <2>1, <2>2, <2>3 DEF RowStep, LockStep
<1>4. CASE /\ ~SelectCommit(s) /\ ~DeclareCommit(s)
           /\ \A q \in Owned : ~Revoke(s, q)
  <2>1. UNCHANGED <<notice, trip>>
    BY <1>4 DEF AskSelected, AskNoCollection, DeskStep, SelectLock, SelectLook, DeclareLock,
         DeclareCheck, DeclareRows, DispatchNotice, DispatchRestoration, Tell, Send, RequestDies
  <2>2. holder' = holder \/ holder' = Release(s) \/ SelectLock(s) \/ DeclareLock(s)
    BY <1>4 DEF AskSelected, AskNoCollection, DeskStep, SelectLook, Refuse,
         DeclareCheck, DeclareRows, DispatchNotice, DispatchRestoration, Tell, Send, RequestDies
  <2>3. ASSUME NEW n, holder[n] = "free", holder' = [holder EXCEPT ![n] = s] PROVE LockStep(s)
    BY <1>0, <2>3 DEF LockStep, LockTypes
  <2>4. LockStep(s)
    BY <1>0, <2>2, <2>3 DEF LockStep, Release, SelectLock, DeclareLock
  <2> QED BY <1>0, <2>1, <2>4, RowsUnchanged
<1> QED BY <1>1, <1>2, <1>3, <1>4

LEMMA UserRows ==
    ASSUME IInv, NEW u \in Users,
           \/ \E p \in Owned : AskCreate(u, p) \/ \E i \in Slots :
                LoadDrive(u, p, i) \/ LoadEdit(u, p, i) \/ LoadCancel(u, p, i) \/ Delete(u, p, i)
           \/ UserStep(u)
    PROVE  RowStep("free") /\ UNCHANGED <<holder, worker, desk>>
<1>0. TypeOK /\ FreeIsBare /\ RowTypes /\ user[u].plan \in Plans /\ user[u].slot \in Slots
  BY TypesApart DEF IInv, UserTypes
<1>1. ASSUME NEW p \in Owned,
             \/ AskCreate(u, p)
             \/ \E i \in Slots : LoadDrive(u, p, i) \/ LoadEdit(u, p, i) \/ LoadCancel(u, p, i)
      PROVE  RowStep("free") /\ UNCHANGED <<holder, worker, desk>>
  <2>1. UNCHANGED <<notice, trip, holder, worker, desk>>
    BY <1>1 DEF AskCreate, LoadDrive, LoadEdit, LoadCancel, Load
  <2> QED BY <1>0, <2>1, RowsUnchanged
<1>2. ASSUME NEW p \in Plans, NEW i \in Slots, NEW row, trip' = [trip EXCEPT ![p] = [@ EXCEPT ![i] = row]],
             row.by = trip[p][i].by, row.status = "none" => trip[p][i].status = "none",
             row.kept = "yes" => trip[p][i].kept = "yes", notice' = notice
      PROVE  RowStep("free")
  <2>1. trip'[p][i] = row
    BY <1>0, <1>2 DEF RowTypes
  <2>2. KeepsRow(p, i)
    BY <1>0, <1>2, <2>1 DEF KeepsRow, FreeIsBare
  <2>3. ASSUME NEW q \in Plans, NEW j \in Slots, q # p \/ j # i PROVE KeepsRow(q, j)
    <3>1. trip'[q][j] = trip[q][j]
      BY <1>0, <1>2, <2>3 DEF RowTypes
    <3> QED BY <1>0, <3>1 DEF KeepsRow, FreeIsBare
  <2>4. \A q \in Plans : \A j \in Slots : KeepsRow(q, j)
    BY <2>2, <2>3
  <2> QED BY <1>2, <2>4 DEF RowStep
<1>3. ASSUME NEW p \in Owned, NEW i \in Slots, Delete(u, p, i)
      PROVE  RowStep("free") /\ UNCHANGED <<holder, worker, desk>>
  <2> DEFINE row == [trip[p][i] EXCEPT !.status = "Cancelled", !.kept = "deleted"]
  <2>0. p \in Plans /\ trip[p][i] \in TripRows
    BY <1>0 DEF RowTypes, Plans
  <2>1. ASSUME NEW r \in TripRows
        PROVE  /\ [r EXCEPT !.status = "Cancelled", !.kept = "deleted"].by = r.by
               /\ [r EXCEPT !.status = "Cancelled", !.kept = "deleted"].status = "Cancelled"
               /\ [r EXCEPT !.status = "Cancelled", !.kept = "deleted"].kept = "deleted"
    BY <2>1 DEF TripRows
  <2>2. row.by = trip[p][i].by /\ row.status = "Cancelled" /\ row.kept = "deleted"
    BY <2>0, <2>1
  <2>3. /\ trip' = [trip EXCEPT ![p] = [@ EXCEPT ![i] = row]] /\ notice' = notice
        /\ UNCHANGED <<holder, worker, desk>>
    BY <1>3 DEF Delete
  <2> HIDE DEF row
  <2> QED BY <1>2, <2>0, <2>2, <2>3
<1>4. ASSUME NEW row, Save(u, row), row.by = InDb(u).by, row.status = "none" => InDb(u).status = "none",
             row.kept = "yes" => InDb(u).kept = "yes"
      PROVE  RowStep("free") /\ UNCHANGED <<holder, worker, desk>>
  BY <1>0, <1>2, <1>4 DEF Save, InDb
<1>5. InDb(u) \in TripRows
  BY <1>0 DEF InDb, RowTypes
<1>6. CASE Start(u)
  <2>1. PICK c \in {TRUE, InDb(u).collected} :
          Save(u, [InDb(u) EXCEPT !.collected = c,
                     !.status = IF user[u].started THEN @ ELSE "In Progress"])
    BY <1>6 DEF Start
  <2> DEFINE row == [InDb(u) EXCEPT !.collected = c,
                     !.status = IF user[u].started THEN @ ELSE "In Progress"]
  <2>2. /\ row.by = InDb(u).by /\ row.kept = InDb(u).kept
        /\ row.status = "none" => InDb(u).status = "none"
    BY <1>5 DEF TripRows
  <2>3. Save(u, row)
    BY <2>1
  <2> HIDE DEF row
  <2> QED BY <1>4, <2>2, <2>3
<1>7. CASE End(u)
  <2> DEFINE row == [InDb(u) EXCEPT !.status = "Completed"]
  <2>1. row.by = InDb(u).by /\ row.kept = InDb(u).kept /\ row.status = "Completed"
    BY <1>5 DEF TripRows
  <2>2. Save(u, row)
    BY <1>7 DEF End
  <2> HIDE DEF row
  <2> QED BY <1>4, <2>1, <2>2
<1>8. CASE Edit(u) \/ Cancel(u)
  <2>1. PICK status \in Statuses, c \in BOOLEAN :
          Save(u, Whole(u, status)) \/ Save(u, [Whole(u, status) EXCEPT !.collected = c])
    BY <1>8 DEF Edit, Cancel, Statuses
  <2> DEFINE edited == [Whole(u, status) EXCEPT !.collected = c]
  <2>2. /\ Whole(u, status).by = InDb(u).by
        /\ Whole(u, status).status # "none"
        /\ Whole(u, status).kept = "yes" => InDb(u).kept = "yes"
    BY DEF Whole, Statuses
  <2>3. edited.by = InDb(u).by /\ edited.status # "none" /\ (edited.kept = "yes" => InDb(u).kept = "yes")
    BY DEF Whole, Statuses
  <2>4. Save(u, Whole(u, status)) \/ Save(u, edited)
    BY <2>1
  <2> HIDE DEF edited
  <2> QED BY <1>4, <2>2, <2>3, <2>4
<1>9. CASE Create(u)
  <2> DEFINE p == user[u].plan
             k == First(Free(p))
  <2>1. /\ trip' = [trip EXCEPT ![p] = IF Cardinality(Free(p)) > 1 THEN Created(p, "admin") ELSE @]
        /\ notice' = notice /\ UNCHANGED <<holder, worker, desk>>
    BY <1>9 DEF Create
  <2>2. ASSUME NEW q \in Plans, trip'[q] = trip[q] PROVE \A i \in Slots : KeepsRow(q, i)
    BY <1>0, <2>2 DEF KeepsRow, FreeIsBare
  <2>3. ASSUME trip'[p] = Created(p, "admin") PROVE \A i \in Slots : KeepsRow(p, i)
    <3>1. ASSUME NEW i \in Slots, i # k PROVE KeepsRow(p, i)
      <4>1. trip'[p][i] = trip[p][i]
        BY <1>0, <2>3, <3>1, CreatedKeeps
      <4> QED BY <1>0, <4>1 DEF KeepsRow, FreeIsBare
    <3>2. ASSUME k \in Slots PROVE KeepsRow(p, k)
      <4>1. trip'[p][k] = NewTrip("admin")
        BY <1>0, <2>3, <3>2, CreatedKeeps
      <4> QED BY <4>1 DEF KeepsRow, NewTrip
    <3> QED BY <3>1, <3>2
  <2>4. \A q \in Plans : trip'[q] = trip[q] \/ (q = p /\ trip'[q] = Created(p, "admin"))
    BY <1>0, <2>1 DEF RowTypes
  <2>5. \A q \in Plans : \A i \in Slots : KeepsRow(q, i)
    BY <2>2, <2>3, <2>4
  <2> QED BY <2>1, <2>5 DEF RowStep
<1> QED BY <1>1, <1>3, <1>6, <1>7, <1>8, <1>9 DEF UserStep

-----------------------------------------------------------------------------
(* The invariant is kept: by the actor that moves, and for the others.     *)

LEMMA RowsKeep ==
    ASSUME IInv, NEW a, RowStep(a)
    PROVE  FreeIsBare' /\ OneGeneratedTrip'
<1>1. ASSUME NEW p \in Plans, NEW i \in Slots
      PROVE  trip'[p][i].status = "none" => trip'[p][i].by = "none"
  BY <1>1 DEF RowStep, Generates, KeepsRow
<1>2. ASSUME NEW p \in Plans, NEW i \in Slots, NEW j \in Slots,
             \A k \in {i, j} : trip'[p][k].by = "generator" /\ trip'[p][k].kept = "yes"
      PROVE  i = j
  <2>1. CASE \A k \in Slots : KeepsRow(p, k)
    BY <1>2, <2>1 DEF IInv, OneGeneratedTrip, KeepsRow
  <2>2. CASE Generates(p, a)
    BY <1>2, <2>2 DEF Generates, Ready, Generated, KeepsRow
  <2> QED BY <2>1, <2>2 DEF RowStep
<1>3. FreeIsBare'
  BY <1>1 DEF FreeIsBare
<1>4. OneGeneratedTrip'
  BY <1>2 DEF OneGeneratedTrip
<1> QED BY <1>3, <1>4

\* What somebody else's lock guards stays ready
LEMMA ReadyKept ==
    ASSUME NEW a, RowStep(a), NEW p \in Plans, Ready(p), holder[p] # a
    PROVE  Ready(p)'
<1>1. notice'[p] # "ACTIVE" /\ \A i \in Slots : KeepsRow(p, i)
  BY DEF RowStep, Generates, Ready
<1>2. Generated(p)' = {}
  BY <1>1 DEF Ready, Generated, KeepsRow
<1> QED BY <1>1, <1>2 DEF Ready

\* A run and a request, and what its locks make sure of
RunSafe(w) ==
    /\ worker[w].op \in {"look", "insert"} => holder[worker[w].plan] = w
    /\ worker[w].op = "insert" => Ready(worker[w].plan)

SittingSafe(s) ==
    /\ desk[s].op \in LookingOps => desk[s].todo # {} /\ holder[Next1(s)] = s
    /\ desk[s].op \in LockingOps => \A p \in desk[s].done : holder[p] = s
    /\ desk[s].op \in {"select lock", "select look"} => \A p \in desk[s].done : Ready(p)

AllSafe == (\A w \in Workers : RunSafe(w)) /\ (\A s \in Supervisors : SittingSafe(s))

LEMMA SafeParts ==
    /\ AllSafe <=> WorkerHolds /\ DeskHolds /\ WorkerReady /\ DeskReady
    /\ AllSafe' <=> WorkerHolds' /\ DeskHolds' /\ WorkerReady' /\ DeskReady'
BY DEF AllSafe, RunSafe, SittingSafe, WorkerHolds, DeskHolds, WorkerReady, DeskReady

\* A lock that somebody else holds stays with its holder
LEMMA LockKept ==
    ASSUME NEW a, LockStep(a), NEW p \in Plans, holder[p] # a, holder[p] # "free"
    PROVE  holder'[p] = holder[p]
BY DEF LockStep

LEMMA RunUndisturbed ==
    ASSUME IInv, NEW a, RowStep(a), LockStep(a), NEW w \in Workers, w # a, worker'[w] = worker[w]
    PROVE  RunSafe(w)'
<1> DEFINE p == worker[w].plan
<1>1. p \in Plans /\ w # "free"
  BY TypesApart DEF IInv, WorkerTypes
<1>2. RunSafe(w)
  BY SafeParts DEF IInv, AllSafe
<1>3. ASSUME worker[w].op \in {"look", "insert"} PROVE holder'[p] = w
  <2>1. holder[p] = w
    BY <1>2, <1>3 DEF RunSafe
  <2> QED BY <1>1, <2>1, LockKept
<1>4. ASSUME worker[w].op = "insert" PROVE Ready(p)'
  <2>1. holder[p] = w /\ Ready(p)
    BY <1>2, <1>4 DEF RunSafe
  <2>2. \A q \in Plans : Ready(q) /\ holder[q] # a => Ready(q)'
    BY ReadyKept
  <2>3. notice'[p] # "ACTIVE" /\ {i \in Slots : trip'[p][i].by = "generator" /\ trip'[p][i].kept = "yes"} = {}
    BY <1>1, <2>1, <2>2 DEF Ready, Generated
  <2> QED BY <2>3 DEF Ready, Generated
<1> QED BY <1>3, <1>4 DEF RunSafe

LEMMA SittingUndisturbed ==
    ASSUME IInv, NEW a, RowStep(a), LockStep(a), NEW s \in Supervisors, s # a, desk'[s] = desk[s]
    PROVE  SittingSafe(s)'
<1>1. DeskTypes /\ s # "free" /\ desk[s].done \subseteq Plans
  BY TypesApart DEF IInv, DeskTypes
<1>2. SittingSafe(s)
  BY SafeParts DEF IInv, AllSafe
<1>3. Next1(s)' = Next1(s)
  BY DEF Next1
<1>4. ASSUME NEW p \in Plans, holder[p] = s PROVE holder'[p] = s /\ (Ready(p) => Ready(p)')
  BY <1>1, <1>4, LockKept, ReadyKept
<1>5. desk[s].op \in LookingOps => desk[s].todo # {} /\ holder'[Next1(s)] = s
  <2>1. desk[s].op \in LookingOps => Next1(s) \in Plans
    BY <1>1, <1>2, NextIsPlan DEF SittingSafe, DeskTypes
  <2> QED BY <1>2, <1>4, <2>1 DEF SittingSafe
<1>6. desk[s].op \in LockingOps => \A p \in desk[s].done : holder'[p] = s
  BY <1>1, <1>2, <1>4 DEF SittingSafe
<1>7. desk[s].op \in {"select lock", "select look"} => \A p \in desk[s].done : Ready(p)'
  BY <1>1, <1>2, <1>4 DEF SittingSafe, LockingOps
<1> QED BY <1>3, <1>5, <1>6, <1>7 DEF SittingSafe

\* A run reaches its insertion only from a look at the notice and the trips
LEMMA RunMoves ==
    ASSUME IInv, NEW w \in Workers,
           Tick(w) \/ (\E m \in {"manual", "daily"} : AskRun(w, m)) \/ WorkerStep(w) \/ RunDies(w)
    PROVE  RunSafe(w)' /\ (\A v \in Workers \ {w} : worker'[v] = worker[v]) /\ desk' = desk
<1>0. /\ worker \in [Workers -> [op : WorkerOps, mode : Modes, plan : Plans]]
      /\ holder \in [Plans -> Actors \cup {"free"}]
  BY TypesApart DEF IInv, WorkerTypes, LockTypes
<1> DEFINE p == worker[w].plan
<1>1. ASSUME NEW op, NEW mode, NEW q, op \notin {"look", "insert"},
             worker' = [worker EXCEPT ![w] = Working(op, mode, q)]
      PROVE  RunSafe(w)' /\ (\A v \in Workers \ {w} : worker'[v] = worker[v])
  <2>1. worker'[w].op = op /\ (\A v \in Workers \ {w} : worker'[v] = worker[v])
    BY <1>0, <1>1 DEF Working
  <2> QED BY <1>1, <2>1 DEF RunSafe
<1>2. ASSUME Continue(w) PROVE RunSafe(w)' /\ (\A v \in Workers \ {w} : worker'[v] = worker[v])
  BY <1>1, <1>2 DEF Continue, Work, WorkerOff
<1>3. CASE Tick(w) \/ (\E m \in {"manual", "daily"} : AskRun(w, m)) \/ GetJob(w) \/ RunDies(w)
  <2>1. desk' = desk
    BY <1>3 DEF Tick, AskRun, GetJob, RunDies
  <2> QED BY <1>1, <1>3, <2>1 DEF Tick, AskRun, GetJob, RunDies, Work, WorkerOff
<1>4. CASE Peek(w)
  BY <1>1, <1>2, <1>4 DEF Peek, Work
<1>5. CASE Lock(w)
  <2>1. worker'[w].op = "look" /\ worker'[w].plan = p /\ holder'[p] = w
    BY <1>0, <1>5 DEF Lock, Work, Working
  <2> QED BY <1>0, <1>5, <2>1 DEF Lock, Work, RunSafe
<1>6. CASE Look(w)
  <2>1. CASE notice[p] = "ACTIVE" \/ Existing(p)
    BY <1>2, <1>6, <2>1 DEF Look
  <2>2. CASE ~(notice[p] = "ACTIVE" \/ Existing(p))
    <3>1. holder[p] = w /\ FreeIsBare /\ p \in Plans
      BY <1>0, <1>6 DEF IInv, WorkerHolds, Look
    <3>2. /\ worker' = [worker EXCEPT ![w] = Working("insert", worker[w].mode, p)]
          /\ UNCHANGED <<notice, trip, holder, desk>>
      BY <1>6, <2>2 DEF Look, Work
    <3>3. worker'[w].plan = p /\ \A v \in Workers \ {w} : worker'[v] = worker[v]
      BY <1>0, <3>2 DEF Working
    <3>4. Generated(p) = {}
      BY <2>2, <3>1 DEF Generated, Existing, Live, Free, FreeIsBare
    <3>5. {i \in Slots : trip'[p][i].by = "generator" /\ trip'[p][i].kept = "yes"} = {}
      BY <3>2, <3>4 DEF Generated
    <3> QED BY <2>2, <3>1, <3>2, <3>3, <3>5 DEF RunSafe, Ready, Generated
  <2> QED BY <2>1, <2>2
<1>7. CASE Insert(w)
  BY <1>2, <1>7 DEF Insert
<1> QED BY <1>3, <1>4, <1>5, <1>6, <1>7 DEF WorkerStep

\* A request stages a trip only after a look at the notice and the trips, and
\* goes on holding what it has locked
LEMMA DeskMoves ==
    ASSUME IInv, NEW s \in Supervisors,
           \/ \E ids \in (SUBSET Owned) \ {{}} : AskSelected(s, ids) \/ AskNoCollection(s, ids)
           \/ \E p \in Owned : Revoke(s, p)
           \/ DeskStep(s) \/ RequestDies(s)
    PROVE  SittingSafe(s)' /\ (\A r \in Supervisors \ {s} : desk'[r] = desk[r]) /\ worker' = worker
<1>0. DeskTypes /\ RowTypes /\ holder \in [Plans -> Actors \cup {"free"}] /\ FreeIsBare
  BY TypesApart DEF IInv, LockTypes
<1>t. desk[s].done \subseteq Plans /\ desk[s].todo \subseteq Plans
  BY <1>0 DEF DeskTypes
<1>n. desk[s].todo # {} => Next1(s) \in Plans
  BY <1>0, <1>t, NextIsPlan
<1>i. SittingSafe(s)
  BY SafeParts DEF IInv, AllSafe
<1>w. worker' = worker
  BY DEF AskSelected, AskNoCollection, Revoke, DeskStep, SelectLock, SelectLook, SelectCommit, DeclareLock,
         DeclareCheck, DeclareRows, DeclareCommit, DispatchNotice, DispatchRestoration, Tell, Send,
         RequestDies
<1> DEFINE Goal == SittingSafe(s)' /\ (\A r \in Supervisors \ {s} : desk'[r] = desk[r])
<1>1. ASSUME NEW op, NEW todo, NEW done, NEW rows, Sit(s, op, todo, done, rows)
      PROVE  /\ desk'[s].op = op /\ desk'[s].todo = todo /\ desk'[s].done = done
             /\ \A r \in Supervisors \ {s} : desk'[r] = desk[r]
  BY <1>0, <1>1 DEF Sit, Sitting, DeskTypes
<1>2. ASSUME NEW op, NEW todo, NEW done, NEW rows, op \notin LockingOps, Sit(s, op, todo, done, rows)
      PROVE  Goal
  <2>1. desk'[s].op = op /\ op \notin LookingOps /\ op \notin {"select lock", "select look"}
    BY <1>1, <1>2 DEF LockingOps, LookingOps
  <2> QED BY <1>1, <1>2, <2>1 DEF SittingSafe
<1>off. ASSUME desk' = [desk EXCEPT ![s] = DeskOff] PROVE Goal
  <2>1. Sit(s, "idle", {}, {}, NoRows) /\ "idle" \notin LockingOps
    BY <1>off DEF Sit, DeskOff, LockingOps
  <2> QED BY <1>2, <2>1
<1>3. ASSUME NEW ids, AskSelected(s, ids) \/ AskNoCollection(s, ids) PROVE Goal
  <2>1. PICK op \in {"select lock", "declare lock"} : Sit(s, op, ids, {}, NoRows)
    BY <1>3 DEF AskSelected, AskNoCollection
  <2>2. desk'[s].op = op /\ desk'[s].done = {} /\ op \notin LookingOps
    BY <1>1, <2>1 DEF LookingOps
  <2> QED BY <1>1, <2>1, <2>2 DEF SittingSafe
<1>4. ASSUME NEW p \in Owned, Revoke(s, p) PROVE Goal
  BY <1>2, <1>4 DEF Revoke, LockingOps
<1>5. CASE SelectLock(s) \/ DeclareLock(s)
  <2> DEFINE n == Next1(s)
  <2>1. /\ n \in Plans /\ holder[n] = "free" /\ holder' = [holder EXCEPT ![n] = s]
        /\ UNCHANGED <<notice, trip>> /\ desk[s].todo # {}
        /\ desk[s].op \in LockingOps
    BY <1>5, <1>n DEF SelectLock, DeclareLock, LockingOps
  <2>2. PICK op \in {"select look", "declare check"}, rows \in {NoRows, desk[s].rows} :
            /\ Sit(s, op, desk[s].todo, desk[s].done, rows)
            /\ op = "select look" => desk[s].op = "select lock"
    BY <1>5 DEF SelectLock, DeclareLock
  <2>3. /\ desk'[s].op = op /\ desk'[s].todo = desk[s].todo /\ desk'[s].done = desk[s].done
        /\ \A r \in Supervisors \ {s} : desk'[r] = desk[r]
    BY <1>1, <2>2
  <2>4. Next1(s)' = n
    BY <2>3 DEF Next1
  <2>5. holder'[n] = s /\ \A p \in desk[s].done : holder'[p] = s
    BY <1>0, <1>i, <1>t, <2>1 DEF SittingSafe
  <2>6. op = "select look" => \A p \in desk[s].done : Ready(p)'
    BY <1>i, <2>1, <2>2 DEF SittingSafe, Ready, Generated
  <2>7. op \notin {"select lock"}
    BY <2>2
  <2> QED BY <1>w, <2>1, <2>3, <2>4, <2>5, <2>6, <2>7 DEF SittingSafe
<1>6. CASE SelectLook(s)
  <2> DEFINE n == Next1(s)
             skip == notice[n] = "ACTIVE" \/ Existing(n)
  <2>1. desk[s].todo # {} /\ holder[n] = s /\ n \in Plans
    BY <1>6, <1>i, <1>n DEF SelectLook, SittingSafe, LookingOps
  <2>2. /\ desk[s].op = "select look" /\ UNCHANGED <<notice, trip, holder>>
        /\ Sit(s, "select lock", desk[s].todo \ {n},
               IF skip THEN desk[s].done ELSE desk[s].done \cup {n}, NoRows)
    BY <1>6 DEF SelectLook
  <2>3. /\ desk'[s].op = "select lock" /\ desk'[s].done \subseteq desk[s].done \cup {n}
        /\ skip => desk'[s].done = desk[s].done
        /\ \A r \in Supervisors \ {s} : desk'[r] = desk[r]
    BY <1>1, <2>2
  <2>4. ~skip => Ready(n)
    BY <1>0, <2>1 DEF Ready, Generated, Existing, Live, Free, FreeIsBare
  <2>5. \A p \in desk'[s].done : holder[p] = s /\ Ready(p)
    BY <1>i, <2>1, <2>2, <2>3, <2>4 DEF SittingSafe, LockingOps
  <2>6. \A p \in desk'[s].done : holder'[p] = s /\ Ready(p)'
    BY <2>2, <2>5 DEF Ready, Generated
  <2> QED BY <1>w, <2>3, <2>6 DEF SittingSafe, LookingOps
<1>7. CASE SelectCommit(s) \/ RequestDies(s)
  BY <1>7, <1>off DEF SelectCommit, RequestDies
<1>8. CASE DeclareCheck(s) \/ DeclareRows(s)
  <2> DEFINE n == Next1(s)
  <2>1. CASE Refuse(s)
    BY <1>w, <1>off, <2>1 DEF Refuse
  <2>2. CASE ~Refuse(s)
    <3>1. /\ desk[s].op \in {"declare check", "declare rows"} /\ UNCHANGED <<notice, trip, holder>>
          /\ desk[s].todo # {} /\ holder[n] = s
      BY <1>8, <1>i, <2>2 DEF DeclareCheck, DeclareRows, SittingSafe, LookingOps
    <3>2. PICK rows : \/ Sit(s, "declare lock", desk[s].todo \ {n}, desk[s].done, rows)
                      \/ Sit(s, "declare lock", desk[s].todo \ {n}, desk[s].done \cup {n}, rows)
                      \/ Sit(s, "declare rows", desk[s].todo, desk[s].done, rows)
      BY <1>8, <2>2 DEF DeclareCheck, DeclareRows
    <3>3. /\ desk'[s].op \in {"declare lock", "declare rows"} /\ desk'[s].done \subseteq desk[s].done \cup {n}
          /\ desk'[s].op = "declare rows" => desk'[s].todo = desk[s].todo
          /\ \A r \in Supervisors \ {s} : desk'[r] = desk[r]
      <4>1. CASE Sit(s, "declare lock", desk[s].todo \ {n}, desk[s].done, rows)
        BY <1>0, <4>1 DEF Sit, Sitting, DeskTypes
      <4>2. CASE Sit(s, "declare lock", desk[s].todo \ {n}, desk[s].done \cup {n}, rows)
        BY <1>0, <4>2 DEF Sit, Sitting, DeskTypes
      <4>3. CASE Sit(s, "declare rows", desk[s].todo, desk[s].done, rows)
        BY <1>1, <4>3
      <4> QED BY <3>2, <4>1, <4>2, <4>3
    <3>4. desk'[s].op = "declare rows" => Next1(s)' = n
      BY <3>3 DEF Next1
    <3>5. \A p \in desk'[s].done : holder'[p] = s
      BY <1>i, <3>1, <3>3 DEF SittingSafe, LockingOps
    <3> QED BY <1>w, <3>1, <3>3, <3>4, <3>5 DEF SittingSafe, LookingOps
  <2> QED BY <2>1, <2>2
<1>9. CASE DeclareCommit(s) \/ DispatchNotice(s) \/ DispatchRestoration(s)
  BY <1>2, <1>9, <1>off DEF DeclareCommit, DispatchNotice, DispatchRestoration, Tell, Send, LockingOps
<1> QED
  BY <1>w, <1>3, <1>4, <1>5, <1>6, <1>7, <1>8, <1>9 DEF DeskStep

-----------------------------------------------------------------------------
(* The theorems.                                                           *)

LEMMA InitInv == Init => IInv
<1> SUFFICES ASSUME Init PROVE IInv
  OBVIOUS
<1>1. 1 \in Plans /\ 1 \in Slots /\ NoTrip \in TripRows
  BY DEF Plans, Slots, NoTrip, TripRows
<1>2. RowTypes /\ LockTypes /\ FlagTypes
  BY <1>1 DEF Init, RowTypes, LockTypes, FlagTypes, Message, Messages
<1>3. WorkerTypes /\ UserTypes
  BY <1>1 DEF Init, WorkerTypes, UserTypes, WorkerOff, Working, WorkerOps, Modes, UserOff, Having, UserOps
<1>4. DeskTypes
  BY DEF Init, DeskTypes, DeskOff, Sitting, NoRows, DeskOps
<1>5. FreeIsBare /\ OneGeneratedTrip
  BY DEF Init, FreeIsBare, OneGeneratedTrip, NoTrip
<1>6. \A w \in Workers : RunSafe(w)
  BY DEF Init, RunSafe, WorkerOff, Working
<1>7. \A s \in Supervisors : SittingSafe(s)
  BY DEF Init, SittingSafe, DeskOff, Sitting, LookingOps, LockingOps
<1> QED
  BY <1>2, <1>3, <1>4, <1>5, <1>6, <1>7, TypesApart, SafeParts DEF IInv, AllSafe

\* Every step is a worker's, a supervisor's or a user's
LEMMA StepRows == ASSUME IInv, Next PROVE IInv' /\ \E a \in Actors \cup {"free"} : RowStep(a)
<1>0. TypeOK /\ DeskHolds /\ Actors = Workers \cup Supervisors
  BY DEF IInv, Actors
<1>1. ASSUME TypeOK', AllSafe', NEW a \in Actors \cup {"free"}, RowStep(a)
      PROVE  IInv' /\ \E b \in Actors \cup {"free"} : RowStep(b)
  BY <1>1, RowsKeep, SafeParts DEF IInv
<1>2. ASSUME NEW w \in Workers,
             Tick(w) \/ (\E m \in {"manual", "daily"} : AskRun(w, m)) \/ WorkerStep(w) \/ RunDies(w)
      PROVE  IInv' /\ \E b \in Actors \cup {"free"} : RowStep(b)
  <2>1. RowStep(w) /\ LockStep(w) /\ TypeOK'
    BY <1>0, <1>2, WorkerRows, WorkerTypeStep
  <2>2. RunSafe(w)' /\ (\A v \in Workers \ {w} : worker'[v] = worker[v]) /\ desk' = desk
    BY <1>2, RunMoves
  <2>3. \A v \in Workers \ {w} : RunSafe(v)'
    BY <2>1, <2>2, RunUndisturbed
  <2>4. \A s \in Supervisors : SittingSafe(s)'
    BY <2>1, <2>2, SittingUndisturbed
  <2> QED BY <1>0, <1>1, <2>1, <2>2, <2>3, <2>4 DEF AllSafe
<1>3. ASSUME NEW s \in Supervisors,
             \/ \E ids \in (SUBSET Owned) \ {{}} : AskSelected(s, ids) \/ AskNoCollection(s, ids)
             \/ \E p \in Owned : Revoke(s, p)
             \/ DeskStep(s) \/ RequestDies(s)
      PROVE  IInv' /\ \E b \in Actors \cup {"free"} : RowStep(b)
  <2>1. RowStep(s) /\ LockStep(s) /\ TypeOK'
    BY <1>0, <1>3, DeskRows, DeskTypeStep
  <2>2. SittingSafe(s)' /\ (\A r \in Supervisors \ {s} : desk'[r] = desk[r]) /\ worker' = worker
    BY <1>3, DeskMoves
  <2>3. \A v \in Workers : RunSafe(v)'
    BY <2>1, <2>2, RunUndisturbed
  <2>4. \A r \in Supervisors \ {s} : SittingSafe(r)'
    BY <2>1, <2>2, SittingUndisturbed
  <2> QED BY <1>0, <1>1, <2>1, <2>2, <2>3, <2>4 DEF AllSafe
<1>4. ASSUME NEW u \in Users,
             \/ \E p \in Owned : AskCreate(u, p) \/ \E i \in Slots :
                  LoadDrive(u, p, i) \/ LoadEdit(u, p, i) \/ LoadCancel(u, p, i) \/ Delete(u, p, i)
             \/ UserStep(u)
      PROVE  IInv' /\ \E b \in Actors \cup {"free"} : RowStep(b)
  <2>1. RowStep("free") /\ TypeOK' /\ UNCHANGED <<holder, worker, desk>>
    BY <1>0, <1>4, UserRows, UserTypeStep
  <2>2. LockStep("free")
    BY <2>1 DEF LockStep
  <2>3. \A v \in Workers : RunSafe(v)'
    BY <2>1, <2>2, RunUndisturbed
  <2>4. \A s \in Supervisors : SittingSafe(s)'
    BY <2>1, <2>2, SittingUndisturbed
  <2> QED BY <1>1, <2>1, <2>3, <2>4 DEF AllSafe
<1> QED BY <1>2, <1>3, <1>4 DEF Next

LEMMA StutterInv == IInv /\ UNCHANGED vars => IInv'
<1> SUFFICES ASSUME IInv, UNCHANGED vars PROVE IInv'
  OBVIOUS
<1>1. TypeOK' /\ FreeIsBare' /\ OneGeneratedTrip'
  BY DEF IInv, vars, TypeOK, FreeIsBare, OneGeneratedTrip
<1>2. WorkerHolds' /\ DeskHolds'
  BY DEF IInv, vars, WorkerHolds, DeskHolds, Next1
<1>3. WorkerReady' /\ DeskReady'
  BY DEF IInv, vars, WorkerReady, DeskReady, Ready, Generated
<1> QED BY <1>1, <1>2, <1>3 DEF IInv

LEMMA Invariant == Spec => []IInv
<1>1. IInv /\ [Next]_vars => IInv'
  BY StepRows, StutterInv
<1> QED BY InitInv, <1>1, PTL DEF Spec

\* For any number of plans, runs and people every variable keeps its type: no
\* run walks past the last plan and no request looks at a plan it does not have
THEOREM DayTypes == Spec => []TypeOK
<1>1. IInv => TypeOK
  BY DEF IInv
<1> QED BY <1>1, Invariant, PTL

\* "re-running for the same date never creates a second scheduler-generated
\* assignment": the look under the plan's lock is enough, whatever overlaps
THEOREM GeneratedOnce == Spec => []OneGeneratedTrip
<1>1. IInv => OneGeneratedTrip
  BY DEF IInv
<1> QED BY <1>1, Invariant, PTL

\* "generation cannot race a service cancellation after checking the notice":
\* a notice becomes active under the same lock that its reader still holds
THEOREM NoticeRespected == Spec => NoticeHoldsGeneration
<1> DEFINE Held == \A p \in Plans :
               (\E i \in Free(p) : (trip[p][i].by)' = "generator") => notice'[p] # "ACTIVE"
<1>1. ASSUME IInv, NEW a, RowStep(a), NEW p \in Plans, NEW i \in Free(p), trip'[p][i].by = "generator"
      PROVE  notice'[p] # "ACTIVE"
  <2>1. i \in Slots /\ trip[p][i].by = "none"
    BY <1>1 DEF Free, FreeIsBare, IInv
  <2>2. ~KeepsRow(p, i)
    BY <1>1, <2>1 DEF KeepsRow
  <2> QED BY <1>1, <2>1, <2>2 DEF RowStep, Generates
<1>2. ASSUME IInv, Next PROVE Held
  BY <1>1, <1>2, StepRows
<1>3. ASSUME IInv, UNCHANGED vars PROVE Held
  BY <1>3 DEF vars, Free, FreeIsBare, IInv
<1>4. IInv /\ [Next]_vars => [Held]_vars
  BY <1>2, <1>3
<1> QED BY <1>4, Invariant, PTL DEF Spec, NoticeHoldsGeneration

-----------------------------------------------------------------------------
(* The locks: who holds a plan's row or a mode's name, and who waits.      *)

\* A run holds one plan's lock at a time, and only to look and insert
RunHolds(w) ==
    \A p \in Plans : holder[p] = w => worker[w].op \in {"look", "insert"} /\ worker[w].plan = p

\* A request has been through the plans it holds: those to come come later
SittingHolds(s) ==
    \A p \in Plans : holder[p] = s =>
        /\ desk[s].op \in LockingOps
        /\ \A q \in desk[s].todo : p <= q /\ (desk[s].op \notin LookingOps => p < q)

\* A run has its mode's name exactly from GET_LOCK to its end
HasJob(w) ==
    /\ worker[w].op = "job" => worker[w].mode \in NamedModes
    /\ \A m \in NamedModes : job[m] = w <=> worker[w].mode = m /\ worker[w].op \notin {"idle", "job"}

LockInv ==
    /\ \A w \in Workers : RunHolds(w) /\ HasJob(w)
    /\ \A s \in Supervisors : SittingHolds(s)

\* Nobody is given a lock but the process that steps
LockMoves(a) == \A p \in Plans : holder'[p] \in {holder[p], a, "free"}

LEMMA LocksOfOthers ==
    ASSUME NEW a \in Actors \cup {"free"}, LockMoves(a)
    PROVE  /\ \A w \in Workers \ {a} : worker'[w] = worker[w] /\ RunHolds(w) => RunHolds(w)'
           /\ \A s \in Supervisors \ {a} : desk'[s] = desk[s] /\ SittingHolds(s) => SittingHolds(s)'
<1>1. ASSUME NEW b \in Actors, b # a, NEW p \in Plans, holder'[p] = b PROVE holder[p] = b
  BY <1>1 DEF LockMoves, Actors
<1> QED BY <1>1 DEF RunHolds, SittingHolds, Actors

LEMMA ReleasedLocks ==
    ASSUME LockTypes, NEW a \in Actors, holder' = Release(a)
    PROVE  LockMoves(a) /\ \A p \in Plans : holder'[p] # a
BY DEF Release, LockMoves, Actors, LockTypes

LEMMA JobsOfOthers ==
    ASSUME NEW w \in Workers, LockTypes,
           \/ UNCHANGED job
           \/ job' = JobAfter(w)
           \/ \E m \in NamedModes : job[m] = "free" /\ job' = [job EXCEPT ![m] = w],
           NEW v \in Workers, v # w, worker'[v] = worker[v], HasJob(v)
    PROVE  HasJob(v)'
<1>1. \A m \in NamedModes : job'[m] = v <=> job[m] = v
  BY DEF JobAfter, LockTypes
<1> QED BY <1>1 DEF HasJob

\* A run that goes on keeps its name, one that ends gives it up
LEMMA ContinueJob ==
    ASSUME LockTypes, WorkerTypes, NEW w \in Workers, HasJob(w), worker[w].op \notin {"idle", "job"}, Continue(w)
    PROVE  HasJob(w)' /\ (UNCHANGED job \/ job' = JobAfter(w))
<1>1. CASE worker[w].plan < N
  <2>1. /\ worker' = [worker EXCEPT ![w] = Working("peek", worker[w].mode, worker[w].plan + 1)]
        /\ UNCHANGED job
    BY <1>1 DEF Continue, Work
  <2>2. worker'[w].op = "peek" /\ worker'[w].mode = worker[w].mode
    BY <2>1 DEF Working, WorkerTypes
  <2> QED BY <2>1, <2>2 DEF HasJob
<1>2. CASE ~(worker[w].plan < N)
  <2>1. worker'[w].op = "idle" /\ job' = JobAfter(w)
    BY <1>2 DEF Continue, WorkerOff, Working, WorkerTypes
  <2>2. \A m \in NamedModes : job'[m] # w
    BY <2>1 DEF JobAfter, LockTypes
  <2> QED BY <2>1, <2>2 DEF HasJob
<1> QED BY <1>1, <1>2

\* A run takes a plan's lock when it holds none
LEMMA RunLocks ==
    ASSUME IInv, NEW w \in Workers, RunHolds(w), HasJob(w),
           Tick(w) \/ (\E m \in {"manual", "daily"} : AskRun(w, m)) \/ WorkerStep(w) \/ RunDies(w)
    PROVE  /\ RunHolds(w)' /\ HasJob(w)' /\ LockMoves(w)
           /\ \/ UNCHANGED job
              \/ job' = JobAfter(w)
              \/ \E m \in NamedModes : job[m] = "free" /\ job' = [job EXCEPT ![m] = w]
<1>0. LockTypes /\ WorkerTypes /\ w \in Actors /\ w # "free"
  BY TypesApart DEF IInv, Actors
<1> DEFINE p == worker[w].plan
<1>p. p \in Plans
  BY <1>0 DEF WorkerTypes
<1>1. ASSUME UNCHANGED holder, worker[w].op \notin {"look", "insert"} PROVE RunHolds(w)' /\ LockMoves(w)
  BY <1>1 DEF RunHolds, LockMoves
<1>2. ASSUME holder' = Release(w) PROVE RunHolds(w)' /\ LockMoves(w)
  BY <1>0, <1>2, ReleasedLocks DEF RunHolds
<1>3. ASSUME NEW op, NEW mode, NEW q, worker' = [worker EXCEPT ![w] = Working(op, mode, q)]
      PROVE  worker'[w].op = op /\ worker'[w].mode = mode /\ worker'[w].plan = q
  BY <1>0, <1>3 DEF Working, WorkerTypes
<1>4. CASE Tick(w)
  <2>1. /\ worker[w].op = "idle" /\ UNCHANGED <<holder, job>>
        /\ worker'[w].op = "job" /\ worker'[w].mode = "auto"
    BY <1>3, <1>4 DEF Tick
  <2>2. HasJob(w)'
    BY <2>1 DEF HasJob, NamedModes
  <2> QED BY <1>1, <2>1, <2>2
<1>5. ASSUME NEW m \in {"manual", "daily"}, AskRun(w, m)
      PROVE  RunHolds(w)' /\ HasJob(w)' /\ LockMoves(w) /\ UNCHANGED job
  <2>1. /\ worker[w].op = "idle" /\ UNCHANGED <<holder, job>>
        /\ worker'[w].op = (IF m = "manual" THEN "job" ELSE "peek") /\ worker'[w].mode = m
    BY <1>3, <1>5 DEF AskRun
  <2>2. HasJob(w)'
    BY <2>1 DEF HasJob, NamedModes
  <2> QED BY <1>1, <2>1, <2>2
<1>6. CASE GetJob(w)
  <2> DEFINE m == worker[w].mode
  <2>1. worker[w].op = "job" /\ UNCHANGED holder /\ m \in NamedModes
    BY <1>6 DEF GetJob, HasJob
  <2>2. CASE job[m] = "free"
    <3>1. /\ job' = [job EXCEPT ![m] = w]
          /\ worker'[w].op = "peek" /\ worker'[w].mode = m
      BY <1>3, <1>6, <2>2 DEF GetJob, Work
    <3>2. HasJob(w)'
      BY <1>0, <2>1, <3>1 DEF HasJob, LockTypes
    <3> QED BY <1>1, <2>1, <2>2, <3>1, <3>2
  <2>3. CASE job[m] # "free"
    <3>1. UNCHANGED job /\ worker'[w].op = "idle"
      BY <1>3, <1>6, <2>3 DEF GetJob, WorkerOff
    <3>2. HasJob(w)'
      BY <2>1, <3>1 DEF HasJob
    <3> QED BY <1>1, <2>1, <3>1, <3>2
  <2> QED BY <2>2, <2>3
<1>7. ASSUME NEW op, op \notin {"idle", "job"}, worker[w].op \notin {"idle", "job"},
             Work(w, op, p), UNCHANGED job
      PROVE  HasJob(w)'
  <2>1. worker'[w].op = op /\ worker'[w].mode = worker[w].mode
    BY <1>3, <1>7 DEF Work
  <2> QED BY <1>7, <2>1 DEF HasJob
<1>8. CASE Peek(w)
  <2>1. worker[w].op = "peek" /\ UNCHANGED holder
    BY <1>8 DEF Peek
  <2>2. HasJob(w)' /\ (UNCHANGED job \/ job' = JobAfter(w))
    BY <1>0, <1>7, <1>8, <2>1, ContinueJob DEF Peek
  <2> QED BY <1>1, <2>1, <2>2
<1>9. CASE Lock(w)
  <2>1. /\ worker[w].op = "lock" /\ holder' = [holder EXCEPT ![p] = w]
        /\ Work(w, "look", p) /\ UNCHANGED job
    BY <1>9 DEF Lock
  <2>2. worker'[w].op = "look" /\ worker'[w].plan = p
    BY <1>3, <2>1 DEF Work
  <2>3. \A q \in Plans : holder[q] # w
    BY <2>1 DEF RunHolds
  <2>4. RunHolds(w)' /\ LockMoves(w)
    BY <1>0, <1>p, <2>1, <2>2, <2>3 DEF RunHolds, LockMoves, LockTypes
  <2> QED BY <1>7, <2>1, <2>4
<1>10. CASE Look(w)
  <2>1. worker[w].op = "look"
    BY <1>10 DEF Look
  <2>2. CASE Continue(w) /\ holder' = Release(w)
    BY <1>0, <1>2, <2>1, <2>2, ContinueJob
  <2>3. CASE Work(w, "insert", p) /\ UNCHANGED <<job, holder>>
    <3>1. worker'[w].op = "insert" /\ worker'[w].plan = p
      BY <1>3, <2>3 DEF Work
    <3>2. RunHolds(w)' /\ LockMoves(w)
      BY <2>3, <3>1 DEF RunHolds, LockMoves
    <3> QED BY <1>7, <2>1, <2>3, <3>2
  <2> QED BY <1>10, <2>2, <2>3 DEF Look
<1>11. CASE Insert(w)
  BY <1>0, <1>2, <1>11, ContinueJob DEF Insert
<1>12. CASE RunDies(w)
  <2>1. worker'[w].op = "idle" /\ holder' = Release(w) /\ job' = JobAfter(w)
    BY <1>3, <1>12 DEF RunDies, WorkerOff
  <2>2. \A m \in NamedModes : job'[m] # w
    BY <1>0, <2>1 DEF JobAfter, LockTypes
  <2>3. HasJob(w)'
    BY <2>1, <2>2 DEF HasJob
  <2> QED BY <1>2, <2>1, <2>3
<1> QED BY <1>4, <1>5, <1>6, <1>8, <1>9, <1>10, <1>11, <1>12 DEF WorkerStep

\* A request takes the first of the plans to come, and has it behind it when
\* it goes on
LEMMA SittingLocks ==
    ASSUME IInv, NEW s \in Supervisors, SittingHolds(s),
           \/ \E ids \in (SUBSET Owned) \ {{}} : AskSelected(s, ids) \/ AskNoCollection(s, ids)
           \/ \E p \in Owned : Revoke(s, p)
           \/ DeskStep(s) \/ RequestDies(s)
    PROVE  SittingHolds(s)' /\ LockMoves(s) /\ UNCHANGED job
<1>0. DeskTypes /\ LockTypes /\ s \in Actors /\ s # "free" /\ DeskHolds
  BY TypesApart DEF IInv, Actors
<1>t. desk[s].todo \in SUBSET Nat /\ desk[s].todo \subseteq Plans /\ Plans \subseteq Nat
  BY <1>0 DEF DeskTypes, Plans
<1>j. UNCHANGED job
  BY DEF AskSelected, AskNoCollection, Revoke, DeskStep, SelectLock, SelectLook, SelectCommit, DeclareLock,
         DeclareCheck, DeclareRows, DeclareCommit, DispatchNotice, DispatchRestoration, Tell, Send,
         RequestDies
<1> DEFINE Goal == SittingHolds(s)' /\ LockMoves(s)
           n == Next1(s)
<1>n. desk[s].todo # {} => n \in desk[s].todo /\ \A q \in desk[s].todo : n <= q
  BY <1>t, FirstIn DEF Next1
<1>1. ASSUME NEW op, NEW todo, NEW done, NEW rows, Sit(s, op, todo, done, rows)
      PROVE  desk'[s].op = op /\ desk'[s].todo = todo
  BY <1>0, <1>1 DEF Sit, Sitting, DeskTypes
<1>2. ASSUME UNCHANGED holder, desk[s].op \notin LockingOps PROVE Goal
  BY <1>2 DEF SittingHolds, LockMoves
<1>3. ASSUME holder' = Release(s) PROVE Goal
  BY <1>0, <1>3, ReleasedLocks DEF SittingHolds
<1>4. ASSUME NEW ids, AskSelected(s, ids) \/ AskNoCollection(s, ids) PROVE Goal
  BY <1>2, <1>4 DEF AskSelected, AskNoCollection, LockingOps
<1>5. ASSUME NEW p \in Owned, Revoke(s, p) PROVE Goal
  BY <1>2, <1>5 DEF Revoke, LockingOps
<1>6. CASE SelectLock(s) \/ DeclareLock(s)
  <2>1. /\ desk[s].op \in LockingOps \ LookingOps /\ desk[s].todo # {}
        /\ holder' = [holder EXCEPT ![n] = s]
    BY <1>6 DEF SelectLock, DeclareLock, LockingOps, LookingOps
  <2>2. desk'[s].op \in LookingOps /\ desk'[s].todo = desk[s].todo
    <3>1. \/ Sit(s, "select look", desk[s].todo, desk[s].done, NoRows)
          \/ Sit(s, "declare check", desk[s].todo, desk[s].done, desk[s].rows)
      BY <1>6 DEF SelectLock, DeclareLock
    <3> QED BY <1>1, <3>1 DEF LookingOps
  <2>3. \A p \in Plans : holder'[p] = s => p = n \/ holder[p] = s
    BY <1>0, <2>1 DEF LockTypes
  <2>4. ASSUME NEW p \in Plans, holder'[p] = s, NEW q \in desk[s].todo PROVE p <= q
    BY <1>t, <1>n, <2>1, <2>3, <2>4 DEF SittingHolds
  <2>5. LookingOps \subseteq LockingOps
    BY DEF LookingOps, LockingOps
  <2>6. SittingHolds(s)'
    BY <2>2, <2>4, <2>5 DEF SittingHolds
  <2>7. LockMoves(s)
    BY <1>0, <2>1 DEF LockMoves, LockTypes
  <2> QED BY <1>j, <2>6, <2>7
<1>7. CASE SelectLook(s) \/ DeclareCheck(s) \/ DeclareRows(s)
  <2>1. CASE Refuse(s)
    BY <1>3, <1>j, <2>1 DEF Refuse
  <2>2. CASE ~Refuse(s)
    <3>1. UNCHANGED holder /\ desk[s].op \in LookingOps /\ desk[s].todo # {}
      BY <1>0, <1>7, <2>2 DEF SelectLook, DeclareCheck, DeclareRows, LookingOps, DeskHolds
    <3>2. \/ desk'[s].op \in LockingOps /\ desk'[s].todo = desk[s].todo \ {n}
          \/ desk'[s].op \in LookingOps /\ desk'[s].todo = desk[s].todo
      <4>1. PICK op, done, rows :
                \/ op \in {"select lock", "declare lock"} /\ Sit(s, op, desk[s].todo \ {n}, done, rows)
                \/ op = "declare rows" /\ Sit(s, op, desk[s].todo, done, rows)
        BY <1>7, <2>2 DEF SelectLook, DeclareCheck, DeclareRows
      <4> QED BY <1>1, <4>1 DEF LookingOps, LockingOps
    <3>3. ASSUME NEW p \in Plans, holder'[p] = s PROVE \A q \in desk[s].todo : p <= q
      BY <3>1, <3>3 DEF SittingHolds
    <3>4. ASSUME NEW p \in Plans, holder'[p] = s, NEW q \in desk[s].todo \ {n} PROVE p < q
      BY <1>t, <1>n, <3>1, <3>3, <3>4
    <3>5. LookingOps \subseteq LockingOps
      BY DEF LookingOps, LockingOps
    <3>6. SittingHolds(s)'
      BY <1>t, <3>2, <3>3, <3>4, <3>5 DEF SittingHolds
    <3> QED BY <1>j, <3>1, <3>6 DEF LockMoves
  <2> QED BY <2>1, <2>2
<1>8. CASE SelectCommit(s) \/ DeclareCommit(s) \/ RequestDies(s)
  BY <1>3, <1>8 DEF SelectCommit, DeclareCommit, RequestDies
<1>9. CASE DispatchNotice(s) \/ DispatchRestoration(s)
  BY <1>2, <1>9 DEF DispatchNotice, DispatchRestoration, Tell, Send, LockingOps
<1> QED BY <1>j, <1>4, <1>5, <1>6, <1>7, <1>8, <1>9 DEF DeskStep

\* Every step keeps the locks in order
LEMMA LockStepKeeps == IInv /\ LockInv /\ [Next]_vars => LockInv'
<1> SUFFICES ASSUME IInv, LockInv, [Next]_vars PROVE LockInv'
  OBVIOUS
<1>0. LockTypes /\ WorkerTypes
  BY TypesApart DEF IInv
<1>1. ASSUME NEW w \in Workers,
             Tick(w) \/ (\E m \in {"manual", "daily"} : AskRun(w, m)) \/ WorkerStep(w) \/ RunDies(w)
      PROVE  LockInv'
  <2>1. RunHolds(w) /\ HasJob(w)
    BY DEF LockInv
  <2>2. /\ RunHolds(w)' /\ HasJob(w)' /\ LockMoves(w)
        /\ \/ UNCHANGED job
           \/ job' = JobAfter(w)
           \/ \E m \in NamedModes : job[m] = "free" /\ job' = [job EXCEPT ![m] = w]
    BY <1>1, <2>1, RunLocks
  <2>3. (\A v \in Workers \ {w} : worker'[v] = worker[v]) /\ desk' = desk
    BY <1>1, RunMoves
  <2>4. ASSUME NEW v \in Workers, v # w PROVE RunHolds(v)' /\ HasJob(v)'
    <3>1. RunHolds(v)'
      BY <2>2, <2>3, <2>4, LocksOfOthers DEF LockInv, Actors
    <3>2. HasJob(v)'
      BY <1>0, <2>2, <2>3, <2>4, JobsOfOthers DEF LockInv
    <3> QED BY <3>1, <3>2
  <2>5. ASSUME NEW s \in Supervisors PROVE SittingHolds(s)'
    BY <2>2, <2>3, LocksOfOthers DEF LockInv, Actors
  <2> QED BY <2>2, <2>4, <2>5 DEF LockInv
<1>2. ASSUME NEW s \in Supervisors,
             \/ \E ids \in (SUBSET Owned) \ {{}} : AskSelected(s, ids) \/ AskNoCollection(s, ids)
             \/ \E p \in Owned : Revoke(s, p)
             \/ DeskStep(s) \/ RequestDies(s)
      PROVE  LockInv'
  <2>1. SittingHolds(s)
    BY DEF LockInv
  <2>2. SittingHolds(s)' /\ LockMoves(s) /\ UNCHANGED job
    BY <1>2, <2>1, SittingLocks
  <2>3. (\A r \in Supervisors \ {s} : desk'[r] = desk[r]) /\ worker' = worker
    BY <1>2, DeskMoves
  <2>4. ASSUME NEW v \in Workers PROVE RunHolds(v)' /\ HasJob(v)'
    <3>1. RunHolds(v)'
      BY <2>2, <2>3, LocksOfOthers DEF LockInv, Actors
    <3>2. HasJob(v)'
      BY <2>2, <2>3 DEF LockInv, HasJob
    <3> QED BY <3>1, <3>2
  <2>5. ASSUME NEW r \in Supervisors, r # s PROVE SittingHolds(r)'
    BY <2>2, <2>3, <2>5, LocksOfOthers DEF LockInv, Actors
  <2> QED BY <2>2, <2>4, <2>5 DEF LockInv
<1>3. ASSUME UNCHANGED <<holder, job, worker, desk>> PROVE LockInv'
  BY <1>3 DEF LockInv, RunHolds, HasJob, SittingHolds
<1>4. ASSUME NEW u \in Users,
             \/ \E p \in Owned : AskCreate(u, p) \/ \E i \in Slots :
                  LoadDrive(u, p, i) \/ LoadEdit(u, p, i) \/ LoadCancel(u, p, i) \/ Delete(u, p, i)
             \/ UserStep(u)
      PROVE  UNCHANGED <<holder, job, worker, desk>>
  BY <1>4 DEF AskCreate, LoadDrive, LoadEdit, LoadCancel, Load, Delete, UserStep, Start, End, Edit, Cancel,
              Create, Save
<1>5. CASE UNCHANGED vars
  BY <1>3, <1>5 DEF vars
<1> QED BY <1>1, <1>2, <1>3, <1>4, <1>5 DEF Next

LEMMA LockInvariance == Spec => [](IInv /\ LockInv)
<1>1. Init => LockInv
  <2> SUFFICES ASSUME Init PROVE LockInv
    OBVIOUS
  <2>1. \A w \in Workers : RunHolds(w) /\ HasJob(w)
    BY DEF Init, RunHolds, HasJob, WorkerOff, Working
  <2>2. \A s \in Supervisors : SittingHolds(s)
    BY DEF Init, SittingHolds
  <2> QED BY <2>1, <2>2 DEF LockInv
<1> QED BY <1>1, LockStepKeeps, Invariant, PTL DEF Spec

\* The plan whose row lock a process has asked for and does not have yet
Asks(a) ==
    {p \in Plans : \/ a \in Workers /\ worker[a].op = "lock" /\ worker[a].plan = p
                   \/ /\ a \in Supervisors /\ desk[a].op \in {"select lock", "declare lock"}
                      /\ desk[a].todo # {} /\ Next1(a) = p}

\* Along a chain of processes that wait for each other the plans go up
LEMMA WaitsAscend ==
    ASSUME IInv, LockInv, NEW a \in Actors, NEW p \in Plans, holder[p] = a, NEW q \in Asks(a)
    PROVE  p < q
<1>1. CASE a \in Workers
  <2>1. worker[a].op \in {"look", "insert"} /\ a \notin Supervisors
    BY <1>1 DEF LockInv, RunHolds
  <2> QED BY <1>1, <2>1 DEF Asks
<1>2. CASE a \in Supervisors
  <2>1. DeskTypes /\ SittingHolds(a) /\ a \notin Workers
    BY <1>2, TypesApart DEF IInv, LockInv
  <2>2. desk[a].op \in {"select lock", "declare lock"} /\ desk[a].todo # {} /\ Next1(a) = q
    BY <2>1 DEF Asks
  <2>3. q \in desk[a].todo
    BY <1>2, <2>1, <2>2, NextIsPlan
  <2> QED BY <2>1, <2>2, <2>3 DEF SittingHolds, LookingOps
<1> QED BY <1>1, <1>2 DEF Actors

\* Some processes wait for nobody but each other
CircularWait == \E D \in (SUBSET Actors) \ {{}} : \A a \in D : \E p \in Asks(a) : holder[p] \in D

\* Runs, selections and declarations never lock each other out: _owned_plans
\* hands the plans to the loops in one order whatever order the request names
\* them in, and a generator gives a plan back before it asks for the next
THEOREM NoDeadlock == Spec => []~CircularWait
<1>1. ASSUME IInv, LockInv PROVE ~CircularWait
  <2> SUFFICES ASSUME NEW D \in (SUBSET Actors) \ {{}}, \A a \in D : \E p \in Asks(a) : holder[p] \in D
               PROVE  FALSE
    BY DEF CircularWait
  <2> DEFINE Q == {p \in Plans : holder[p] \in D /\ \E a \in D : p \in Asks(a)}
             R == {N - p : p \in Q}
  <2>0. ASSUME NEW a \in D PROVE \E p \in Q : p \in Asks(a)
    BY DEF Asks
  <2>1. Q # {} /\ Q \subseteq 1..N
    <3>1. PICK a \in D : TRUE
      OBVIOUS
    <3>2. \E p \in Q : p \in Asks(a)
      BY <2>0
    <3> QED BY <3>2 DEF Plans
  <2>2. R \in SUBSET Nat /\ R # {}
    BY <2>1
  <2>3. First(R) \in R /\ \A j \in R : First(R) <= j
    BY <2>2, FirstIn
  <2>4. PICK p \in Q : First(R) = N - p
    BY <2>3
  <2>5. PICK q \in Asks(holder[p]) : holder[q] \in D
    OBVIOUS
  <2>6. q \in Q
    BY <2>4, <2>5 DEF Asks
  <2>7. p < q
    BY <1>1, <2>4, <2>5, WaitsAscend
  <2>8. First(R) <= N - q
    BY <2>3, <2>6
  <2> QED BY <2>1, <2>4, <2>6, <2>7, <2>8
<1> QED BY <1>1, LockInvariance, PTL

\* Every lock on a plan is of a transaction that is still open
LocksAreInUse ==
    \A p \in Plans :
        /\ \A w \in Workers : holder[p] = w => worker[w].op \in {"look", "insert"} /\ worker[w].plan = p
        /\ \A s \in Supervisors : holder[p] = s => desk[s].op \in LockingOps

\* A refused declaration, a run or a request that dies and a commit all leave
\* the plan's row free: no lock is left behind for the next run to wait on
THEOREM NoLockLeft == Spec => []LocksAreInUse
<1>1. LockInv => LocksAreInUse
  BY DEF LockInv, RunHolds, SittingHolds, LocksAreInUse
<1> QED BY <1>1, LockInvariance, PTL

\* Two runs of a mode that has a name are never both past its GET_LOCK
OneRunPerMode ==
    \A m \in NamedModes : \A v, w \in Workers :
        (\A x \in {v, w} : worker[x].mode = m /\ worker[x].op \notin {"idle", "job"}) => v = w

\* Of the beat's ticks and of an admin's forced runs one at a time gets to the
\* plans, whichever worker takes it and however the one before it ended
THEOREM RunsAlone == Spec => []OneRunPerMode
<1>1. LockInv => OneRunPerMode
  BY DEF LockInv, HasJob, OneRunPerMode
<1> QED BY <1>1, LockInvariance, PTL

-----------------------------------------------------------------------------
(* The messages: whoever changed a notice last owes the crew a message.    *)

\* What is to be said of a notice, and by a request at which points
Tellers(status) ==
    IF status = "ACTIVE" THEN {"tell notice", "send notice"} ELSE {"tell restored", "send restored"}
Owes(s, p) == p \in desk[s].todo /\ desk[s].op \in Tellers(notice[p])

Settled(p) ==
    \/ notice[p] = "none"
    \/ notice[p] = Meaning(told[p].word) /\ told[p].word # "none"
    \/ told[p].crossed
    \/ broken

\* No crew is left with the wrong word unless some request still has to tell
\* it, its message was crossed, or something died
ToldOrOwed == \A p \in Plans : Settled(p) \/ \E s \in Supervisors : Owes(s, p)

SendOps == {"send notice", "send restored"}
DispatchOps == SendOps \cup {"tell notice", "tell restored"}

\* A message is about the notice that was read for it
SendsWhatItRead ==
    \A s \in Supervisors : desk[s].op \in SendOps => desk[s].todo # {} /\ Next1(s) \in desk[s].done

\* A step of a request that had nothing to tell, and leaves the notices alone
LEMMA OthersTell ==
    ASSUME TypeOK, SendsWhatItRead, ToldOrOwed, UNCHANGED <<notice, told>>, broken => broken',
           NEW s \in Supervisors,
           desk[s].op \notin DispatchOps \/ desk' = desk \/ broken',
           \A r \in Supervisors \ {s} : desk'[r] = desk[r],
           desk' = desk \/ desk'[s].op \notin SendOps
    PROVE  SendsWhatItRead' /\ ToldOrOwed'
<1>1. ASSUME NEW r \in Supervisors, desk'[r].op \in SendOps
      PROVE  desk'[r].todo # {} /\ Next1(r)' \in desk'[r].done
  BY <1>1 DEF SendsWhatItRead, Next1
<1>2. ASSUME NEW p \in Plans PROVE Settled(p)' \/ \E r \in Supervisors : Owes(r, p)'
  <2>1. Settled(p) => Settled(p)'
    BY DEF Settled
  <2>2. ASSUME NEW r \in Supervisors, Owes(r, p) PROVE Owes(r, p)' \/ broken'
    <3>1. desk[r].op \in DispatchOps
      BY <2>2 DEF Owes, Tellers, DispatchOps, SendOps
    <3>2. desk'[r] = desk[r] \/ broken'
      BY <3>1
    <3> QED BY <2>2, <3>2 DEF Owes
  <2>3. broken' => Settled(p)'
    BY DEF Settled
  <2> QED BY <2>1, <2>2, <2>3 DEF ToldOrOwed
<1> QED BY <1>1, <1>2 DEF SendsWhatItRead, ToldOrOwed

\* A request that tells or sends: what it drops it did not owe, or has sent
LEMMA TellKeeps ==
    ASSUME TypeOK, SendsWhatItRead, ToldOrOwed, NEW s \in Supervisors,
           NEW status \in {"ACTIVE", "REVOKED"}, NEW op, NEW send,
           {op, send} = Tellers(status), op \notin SendOps, Tell(s, op, status, send)
    PROVE  SendsWhatItRead' /\ ToldOrOwed'
<1>0. DeskTypes /\ RowTypes
  BY TypesApart
<1>1. desk'[s] \in {DeskOff, Sitting(send, desk[s].todo, {Next1(s)}, NoRows),
                    Sitting(op, desk[s].todo \ {Next1(s)}, {}, NoRows)}
      /\ \A r \in Supervisors \ {s} : desk'[r] = desk[r]
  BY <1>0 DEF Tell, Sit, DeskTypes
<1>2. ASSUME NEW r \in Supervisors, desk'[r].op \in SendOps
      PROVE  desk'[r].todo # {} /\ Next1(r)' \in desk'[r].done
  <2>1. CASE r # s
    BY <1>1, <1>2, <2>1 DEF SendsWhatItRead, Next1
  <2>2. CASE r = s
    <3>1. desk[s].todo # {} /\ desk'[s] = Sitting(send, desk[s].todo, {Next1(s)}, NoRows)
      <4>1. DeskOff.op \notin SendOps /\ Sitting(op, desk[s].todo \ {Next1(s)}, {}, NoRows).op \notin SendOps
        BY DEF DeskOff, Sitting, SendOps
      <4>2. desk'[s] # DeskOff /\ desk'[s] # Sitting(op, desk[s].todo \ {Next1(s)}, {}, NoRows)
        BY <1>2, <2>2, <4>1
      <4>3. CASE desk[s].todo = {}
        BY <1>0, <4>2, <4>3 DEF Tell, DeskTypes
      <4> QED BY <1>1, <4>2, <4>3
    <3> QED BY <2>2, <3>1 DEF Sitting, Next1
  <2> QED BY <2>1, <2>2
<1>3. ASSUME NEW p \in Plans PROVE Settled(p)' \/ \E r \in Supervisors : Owes(r, p)'
  <2>1. Settled(p) => Settled(p)'
    BY DEF Settled, Tell
  <2>2. ASSUME NEW r \in Supervisors, r # s, Owes(r, p) PROVE Owes(r, p)'
    BY <1>1, <2>2 DEF Owes, Tell
  <2>3. ASSUME Owes(s, p) PROVE Owes(s, p)' \/ Settled(p)'
    <3>1. desk[s].todo # {} /\ op \in Tellers(notice[p]) /\ p \in desk[s].todo /\ desk[s].op = op
      BY <2>3 DEF Owes, Tell
    <3>2. (notice[p] = "ACTIVE") <=> (status = "ACTIVE")
      BY <3>1 DEF Tellers, SendOps
    <3>3. CASE notice[Next1(s)] = status
      <4>1. desk'[s] = Sitting(send, desk[s].todo, {Next1(s)}, NoRows)
        BY <1>0, <3>1, <3>3 DEF Tell, Sit, DeskTypes
      <4>2. send \in Tellers(notice[p])
        BY <3>2 DEF Tellers
      <4> QED BY <3>1, <4>1, <4>2 DEF Owes, Sitting, Tell
    <3>4. CASE notice[Next1(s)] # status
      <4>1. desk'[s] = Sitting(op, desk[s].todo \ {Next1(s)}, {}, NoRows)
        BY <1>0, <3>1, <3>4 DEF Tell, Sit, DeskTypes
      <4>2. CASE p # Next1(s)
        BY <3>1, <4>1, <4>2 DEF Owes, Sitting, Tell
      <4>3. CASE p = Next1(s)
        <5>1. notice[p] = "none" /\ notice' = notice
          BY <1>0, <3>2, <3>4, <4>3 DEF RowTypes, Tell
        <5> QED BY <5>1 DEF Settled
      <4> QED BY <4>2, <4>3
    <3> QED BY <3>3, <3>4
  <2> QED BY <2>1, <2>2, <2>3 DEF ToldOrOwed
<1> QED BY <1>2, <1>3 DEF SendsWhatItRead, ToldOrOwed

LEMMA SendKeeps ==
    ASSUME TypeOK, SendsWhatItRead, ToldOrOwed, NEW s \in Supervisors,
           NEW word \in {"notice", "restored"}, NEW op \in SendOps, NEW tell,
           tell \notin SendOps, Tellers(Meaning(word)) = {op, tell}, Send(s, op, word, tell)
    PROVE  SendsWhatItRead' /\ ToldOrOwed'
<1>0. DeskTypes /\ FlagTypes
  BY TypesApart
<1>1. /\ desk'[s] = Sitting(tell, desk[s].todo \ {Next1(s)}, {}, NoRows)
      /\ \A r \in Supervisors \ {s} : desk'[r] = desk[r]
  BY <1>0 DEF Send, Sit, DeskTypes
<1>2. desk[s].op = op /\ Next1(s) \in desk[s].done /\ Next1(s) \in Plans
  BY <1>0 DEF Send, SendsWhatItRead, DeskTypes
<1>3. ASSUME NEW r \in Supervisors, desk'[r].op \in SendOps
      PROVE  desk'[r].todo # {} /\ Next1(r)' \in desk'[r].done
  <2>1. r # s
    BY <1>1, <1>3 DEF Sitting
  <2> QED BY <1>1, <1>3, <2>1 DEF SendsWhatItRead, Next1
<1>4. ASSUME NEW p \in Plans PROVE Settled(p)' \/ \E r \in Supervisors : Owes(r, p)'
  <2>1. CASE p = Next1(s)
    <3>1. told'[p] = Message(word, notice[p] # Meaning(word))
      BY <1>0, <1>2, <2>1 DEF Send, FlagTypes
    <3>2. /\ notice' = notice /\ told'[p].word = word
          /\ told'[p].crossed = (notice[p] # Meaning(word))
      <4>1. notice' = notice
        BY DEF Send
      <4> QED BY <3>1, <4>1 DEF Message
    <3>3. CASE notice[p] = Meaning(word)
      BY <3>2, <3>3 DEF Settled
    <3>4. CASE notice[p] # Meaning(word)
      BY <3>2, <3>4 DEF Settled
    <3> QED BY <3>3, <3>4
  <2>2. CASE p # Next1(s)
    <3>1. notice' = notice /\ told'[p] = told[p] /\ broken' = broken
      BY <1>0, <2>2 DEF Send, FlagTypes
    <3>2. Settled(p) => Settled(p)'
      BY <3>1 DEF Settled
    <3>3. ASSUME NEW r \in Supervisors, r # s, Owes(r, p) PROVE Owes(r, p)'
      BY <1>1, <3>1, <3>3 DEF Owes
    <3>4. ASSUME Owes(s, p) PROVE Owes(s, p)' \/ Settled(p)'
      <4>1. p \in desk'[s].todo /\ desk'[s].op = tell
        BY <1>1, <2>2, <3>4 DEF Owes, Sitting
      <4>2. op \in Tellers(notice[p]) /\ op \in Tellers(Meaning(word))
        BY <1>2, <3>4 DEF Owes
      <4>3. Tellers(notice[p]) = Tellers(Meaning(word))
        BY <4>2 DEF Tellers, SendOps
      <4> QED BY <3>1, <4>1, <4>3 DEF Owes
    <3> QED BY <3>2, <3>3, <3>4 DEF ToldOrOwed
  <2> QED BY <2>1, <2>2
<1> QED BY <1>3, <1>4 DEF SendsWhatItRead, ToldOrOwed

\* A declaration and a revocation owe the message of what they wrote
LEMMA ChangeOwes ==
    ASSUME TypeOK, SendsWhatItRead, ToldOrOwed, NEW s \in Supervisors, desk[s].op \notin DispatchOps,
           NEW S \in SUBSET Plans, NEW status \in {"ACTIVE", "REVOKED"}, NEW op \in Tellers(status),
           op \notin SendOps, Sit(s, op, S, {}, NoRows), UNCHANGED <<told, broken>>,
           notice' = [p \in Plans |-> IF p \in S THEN status ELSE notice[p]]
    PROVE  SendsWhatItRead' /\ ToldOrOwed'
<1>0. DeskTypes
  BY TypesApart
<1>1. /\ desk'[s] = Sitting(op, S, {}, NoRows)
      /\ \A r \in Supervisors \ {s} : desk'[r] = desk[r]
  BY <1>0 DEF Sit, DeskTypes
<1>2. ASSUME NEW r \in Supervisors, desk'[r].op \in SendOps
      PROVE  desk'[r].todo # {} /\ Next1(r)' \in desk'[r].done
  <2>1. r # s
    BY <1>1, <1>2 DEF Sitting
  <2> QED BY <1>1, <1>2, <2>1 DEF SendsWhatItRead, Next1
<1>3. ASSUME NEW p \in Plans PROVE Settled(p)' \/ \E r \in Supervisors : Owes(r, p)'
  <2>1. CASE p \in S
    BY <1>1, <2>1 DEF Owes, Sitting
  <2>2. CASE p \notin S
    <3>1. notice'[p] = notice[p]
      BY <2>2
    <3>2. Settled(p) => Settled(p)'
      BY <3>1 DEF Settled
    <3>3. ASSUME NEW r \in Supervisors, Owes(r, p) PROVE r # s /\ Owes(r, p)'
      <4>1. r # s
        BY <3>3 DEF Owes, Tellers, DispatchOps, SendOps
      <4> QED BY <1>1, <3>1, <3>3, <4>1 DEF Owes
    <3> QED BY <3>2, <3>3 DEF ToldOrOwed
  <2> QED BY <2>1, <2>2
<1> QED BY <1>2, <1>3 DEF SendsWhatItRead, ToldOrOwed

LEMMA DeskTells ==
    ASSUME TypeOK, SendsWhatItRead, ToldOrOwed, NEW s \in Supervisors,
           \/ \E ids \in (SUBSET Owned) \ {{}} : AskSelected(s, ids) \/ AskNoCollection(s, ids)
           \/ \E p \in Owned : Revoke(s, p)
           \/ DeskStep(s) \/ RequestDies(s)
    PROVE  SendsWhatItRead' /\ ToldOrOwed'
<1>0. DeskTypes /\ RowTypes
  BY TypesApart
<1>1. ASSUME UNCHANGED <<notice, told, broken>>, desk[s].op \notin DispatchOps,
             \/ desk' = [desk EXCEPT ![s] = DeskOff]
             \/ \E op \in DeskOps \ SendOps : \E todo, done, rows : Sit(s, op, todo, done, rows)
      PROVE  SendsWhatItRead' /\ ToldOrOwed'
  <2>1. /\ \A r \in Supervisors \ {s} : desk'[r] = desk[r]
        /\ desk'[s].op \notin SendOps
    <3>1. CASE desk' = [desk EXCEPT ![s] = DeskOff]
      BY <1>0, <3>1 DEF Sitting, DeskOff, DeskTypes, SendOps
    <3>2. ASSUME NEW op \in DeskOps \ SendOps, NEW todo, NEW done, NEW rows, Sit(s, op, todo, done, rows)
          PROVE  desk'[s].op \notin SendOps /\ \A r \in Supervisors \ {s} : desk'[r] = desk[r]
      BY <1>0, <3>2 DEF Sit, Sitting, DeskTypes
    <3> QED BY <1>1, <3>1, <3>2
  <2> QED BY <1>1, <2>1, OthersTell
<1> DEFINE Quiet ==
        \/ \E ids \in (SUBSET Owned) \ {{}} : AskSelected(s, ids) \/ AskNoCollection(s, ids)
        \/ SelectLock(s) \/ SelectLook(s) \/ SelectCommit(s)
        \/ DeclareLock(s) \/ DeclareCheck(s) \/ DeclareRows(s)
<1>2. CASE Quiet
  <2>1. UNCHANGED <<notice, told, broken>>
    BY <1>2 DEF AskSelected, AskNoCollection, SelectLock, SelectLook, SelectCommit, DeclareLock,
                DeclareCheck, DeclareRows
  <2>2. desk[s].op \notin DispatchOps
    BY <1>2 DEF AskSelected, AskNoCollection, SelectLock, SelectLook, SelectCommit, DeclareLock,
                DeclareCheck, DeclareRows, DispatchOps, SendOps
  <2>3. /\ {"select lock", "select look", "declare lock", "declare check", "declare rows"}
              \subseteq DeskOps \ SendOps
    BY DEF DeskOps, SendOps
  <2>4. \/ desk' = [desk EXCEPT ![s] = DeskOff]
        \/ \E op \in DeskOps \ SendOps : \E todo, done, rows : Sit(s, op, todo, done, rows)
    BY <1>2, <2>3 DEF AskSelected, AskNoCollection, SelectLock, SelectLook, SelectCommit, DeclareLock,
                DeclareCheck, DeclareRows, Refuse
  <2> QED BY <1>1, <2>1, <2>2, <2>4
<1>3. CASE DeclareCommit(s)
  <2>1. /\ desk[s].done \in SUBSET Plans /\ desk[s].op \notin DispatchOps
        /\ "tell notice" \in Tellers("ACTIVE") /\ "tell notice" \notin SendOps
    BY <1>0, <1>3 DEF DeskTypes, DeclareCommit, DispatchOps, SendOps, Tellers
  <2> QED BY <1>3, <2>1, ChangeOwes DEF DeclareCommit
<1>4. ASSUME NEW p \in Owned, Revoke(s, p) PROVE SendsWhatItRead' /\ ToldOrOwed'
  <2>1. /\ {p} \in SUBSET Plans /\ desk[s].op \notin DispatchOps
        /\ "tell restored" \in Tellers("REVOKED") /\ "tell restored" \notin SendOps
    BY <1>4 DEF Plans, Revoke, DispatchOps, SendOps, Tellers
  <2>2. notice' = [q \in Plans |-> IF q \in {p} THEN "REVOKED" ELSE notice[q]]
    BY <1>0, <1>4 DEF Revoke, RowTypes
  <2> QED BY <1>4, <2>1, <2>2, ChangeOwes DEF Revoke
<1>5. CASE DispatchNotice(s)
  <2>1. /\ Tellers("ACTIVE") = {"tell notice", "send notice"} /\ Meaning("notice") = "ACTIVE"
        /\ "tell notice" \notin SendOps /\ "send notice" \in SendOps
    BY DEF Tellers, SendOps, Meaning
  <2>2. CASE Tell(s, "tell notice", "ACTIVE", "send notice")
    BY <2>1, <2>2, TellKeeps
  <2>3. CASE Send(s, "send notice", "notice", "tell notice")
    BY <2>1, <2>3, SendKeeps
  <2> QED BY <1>5, <2>2, <2>3 DEF DispatchNotice
<1>6. CASE DispatchRestoration(s)
  <2>1. /\ Tellers("REVOKED") = {"tell restored", "send restored"} /\ Meaning("restored") = "REVOKED"
        /\ "tell restored" \notin SendOps /\ "send restored" \in SendOps
    BY DEF Tellers, SendOps, Meaning
  <2>2. CASE Tell(s, "tell restored", "REVOKED", "send restored")
    BY <2>1, <2>2, TellKeeps
  <2>3. CASE Send(s, "send restored", "restored", "tell restored")
    BY <2>1, <2>3, SendKeeps
  <2> QED BY <1>6, <2>2, <2>3 DEF DispatchRestoration
<1>7. CASE RequestDies(s)
  <2>1. /\ \A r \in Supervisors \ {s} : desk'[r] = desk[r]
        /\ desk'[s].op \notin SendOps
    BY <1>0, <1>7 DEF RequestDies, DeskOff, Sitting, DeskTypes, SendOps
  <2> QED BY <1>7, <2>1, OthersTell DEF RequestDies
<1> QED BY <1>2, <1>3, <1>4, <1>5, <1>6, <1>7 DEF DeskStep

LEMMA TellingKept == IInv /\ SendsWhatItRead /\ ToldOrOwed /\ [Next]_vars => SendsWhatItRead' /\ ToldOrOwed'
<1> SUFFICES ASSUME IInv, SendsWhatItRead, ToldOrOwed, [Next]_vars PROVE SendsWhatItRead' /\ ToldOrOwed'
  OBVIOUS
<1>0. TypeOK
  BY DEF IInv
<1>1. ASSUME UNCHANGED <<notice, told, desk>>, broken => broken' PROVE SendsWhatItRead' /\ ToldOrOwed'
  <2>1. SendsWhatItRead'
    BY <1>1 DEF SendsWhatItRead, Next1
  <2>2. ASSUME NEW p \in Plans PROVE Settled(p)' \/ \E r \in Supervisors : Owes(r, p)'
    BY <1>1 DEF ToldOrOwed, Settled, Owes
  <2> QED BY <2>1, <2>2 DEF ToldOrOwed
<1>2. ASSUME NEW w \in Workers,
             Tick(w) \/ (\E m \in {"manual", "daily"} : AskRun(w, m)) \/ WorkerStep(w) \/ RunDies(w)
      PROVE  UNCHANGED <<notice, told, desk>> /\ (broken => broken')
  BY <1>2 DEF Tick, AskRun, WorkerStep, GetJob, Peek, Lock, Look, Insert, RunDies
<1>3. ASSUME NEW u \in Users,
             \/ \E p \in Owned : AskCreate(u, p) \/ \E i \in Slots :
                  LoadDrive(u, p, i) \/ LoadEdit(u, p, i) \/ LoadCancel(u, p, i) \/ Delete(u, p, i)
             \/ UserStep(u)
      PROVE  UNCHANGED <<notice, told, desk>> /\ (broken => broken')
  <2>1. ASSUME NEW p \in Owned, NEW i \in Slots,
               LoadDrive(u, p, i) \/ LoadEdit(u, p, i) \/ LoadCancel(u, p, i) \/ Delete(u, p, i)
        PROVE  UNCHANGED <<notice, told, desk, broken>>
    BY <2>1 DEF LoadDrive, LoadEdit, LoadCancel, Load, Delete
  <2>2. ASSUME NEW row, Save(u, row) PROVE UNCHANGED <<notice, told, desk, broken>>
    BY <2>2 DEF Save
  <2>3. Start(u) => UNCHANGED <<notice, told, desk, broken>>
    BY <2>2 DEF Start
  <2>4. End(u) \/ Edit(u) \/ Cancel(u) => UNCHANGED <<notice, told, desk, broken>>
    BY <2>2 DEF End, Edit, Cancel
  <2>5. Create(u) \/ (\E p \in Owned : AskCreate(u, p)) => UNCHANGED <<notice, told, desk, broken>>
    BY DEF Create, AskCreate
  <2> QED BY <1>3, <2>1, <2>3, <2>4, <2>5 DEF UserStep
<1>4. CASE Next
  BY <1>0, <1>1, <1>2, <1>3, <1>4, DeskTells DEF Next
<1>5. CASE UNCHANGED vars
  BY <1>1, <1>5 DEF vars
<1> QED BY <1>4, <1>5

\* Each declaration and revocation answers for its own message after the
\* commit, and reads the notice again: whatever overtakes it, either the last
\* message says what stands, or some request still has it to say, or a change
\* crossed that message, or something died
THEOREM CrewIsToldOrOwed == Spec => []ToldOrOwed
<1>1. Init => SendsWhatItRead /\ ToldOrOwed
  <2>1. DeskOff.op \notin SendOps
    BY DEF DeskOff, Sitting, SendOps
  <2>2. Init => SendsWhatItRead
    BY <2>1 DEF Init, SendsWhatItRead
  <2>3. Init => ToldOrOwed
    BY DEF Init, ToldOrOwed, Settled
  <2> QED BY <2>2, <2>3
<1>2. IInv /\ SendsWhatItRead /\ ToldOrOwed /\ [Next]_vars => SendsWhatItRead' /\ ToldOrOwed'
  BY TellingKept
<1> QED BY <1>1, <1>2, Invariant, PTL DEF Spec

===============================================================================
