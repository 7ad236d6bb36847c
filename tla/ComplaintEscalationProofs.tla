--------------------- MODULE ComplaintEscalationProofs ---------------------
(***************************************************************************)
(* Theorems about ComplaintEscalation: its types, that the escalation      *)
(* history is one climb to the level the ticket is at unless a stale copy  *)
(* was written over it, and what a cleanup review may do.                  *)
(***************************************************************************)
EXTENDS ComplaintEscalation, SequenceTheorems, TLAPS

\* What a request loaded was true once: only a ticket with a history was seen
\* escalated, its statuses are a ticket's, and the report it is about exists
CopiesOnRecord ==
    \A u \in Sessions :
        /\ seen[u].escalated => hist # <<>>
        /\ seen[u].op \in {"approve", "reject"} => seen[u].report \in DOMAIN reports
        /\ seen[u].op \in {"change", "edit"} => {seen[u].status, seen[u].want} \subseteq Statuses

\* Before the ticket exists nothing has been loaded or written
Unborn ==
    status = "none" =>
        /\ level = 0 /\ hist = <<>> /\ reports = <<>> /\ ~escalated
        /\ sweep = "idle" /\ due = NoDue
        /\ \A u \in Sessions : seen[u].level = 0 /\ ~seen[u].escalated
                               /\ seen[u].op \in {"idle", "rule"}

IInv == TypeOK /\ EscalationOnRecord /\ CopiesOnRecord /\ Unborn

Copies == [op : {"idle", "place", "rule", "reschedule", "resolve", "change",
               "edit", "reopen", "assign", "escalate", "submit", "approve", "reject"},
         status : Statuses \cup {"none"}, level : Levels \cup {0}, due : Due,
         escalated : BOOLEAN, assigned : Staff, want : Statuses \cup {"none"}, report : Nat]

HopRecord == [from : Levels \cup {0}, to : Chain]

LEMMA DueFacts ==
  /\ NoDue \in Due /\ 0 \in Due /\ Window \in Due
  /\ \A l : LevelDue(l) \in Due
  /\ \A d \in 0..Window : d \in Due
BY EscalationConstants DEF Due, LevelDue, NoDue

LEMMA IdleCopy == Idle \in Copies
BY DueFacts DEF Idle, About, Copy, Copies, Staff

LEMMA InitInv == Init => IInv
<1> SUFFICES ASSUME Init PROVE IInv
  OBVIOUS
<1>1. seen \in [Sessions -> Copies]
  BY IdleCopy DEF Init
<1>2. hist \in Seq(HopRecord) /\ reports \in Seq({"PENDING", "APPROVED", "REJECTED"})
  BY DEF Init
<1>3. calls \in 0..MaxCalls /\ timed \in SUBSET Chain
  BY EscalationConstants DEF Init
<1>4. TypeOK
  BY <1>1, <1>2, <1>3, DueFacts DEF Init, TypeOK, Copies, HopRecord, Staff
<1>5. EscalationOnRecord /\ CopiesOnRecord /\ Unborn
  BY DEF Init, EscalationOnRecord, CopiesOnRecord, Unborn, Idle, About, Copy
<1> QED
  BY <1>4, <1>5 DEF IInv

-----------------------------------------------------------------------------
(* What the steps of a request do to the copies *)

LEMMA TypeFacts ==
  ASSUME TypeOK
  PROVE  /\ seen \in [Sessions -> Copies]
         /\ hist \in Seq(HopRecord)
         /\ due \in Due /\ level \in Levels \cup {0} /\ status \in Statuses \cup {"none"}
         /\ escalated \in BOOLEAN
BY DEF TypeOK, Copies, HopRecord

\* A request that begins with a copy of the ticket as it is
LEMMA BeginTypes ==
  ASSUME TypeOK, NEW u \in Sessions, NEW c \in Copies, Begin(u, c)
  PROVE  /\ seen' \in [Sessions -> Copies]
         /\ calls' \in 0..MaxCalls
         /\ seen'[u] = c /\ \A v \in Sessions : v # u => seen'[v] = seen[v]
<1>1. seen \in [Sessions -> Copies] /\ calls \in 0..MaxCalls
  BY TypeFacts DEF TypeOK
<1>2. calls' \in 0..MaxCalls
  BY <1>1, EscalationConstants DEF Begin
<1> QED
  BY <1>1, <1>2 DEF Begin

LEMMA EndTypes ==
  ASSUME TypeOK, NEW u \in Sessions, End(u)
  PROVE  /\ seen' \in [Sessions -> Copies]
         /\ seen'[u] = Idle /\ \A v \in Sessions : v # u => seen'[v] = seen[v]
         /\ UNCHANGED <<ruled, timed, sweep, calls>>
BY TypeFacts, IdleCopy DEF End, rule

LEMMA CopyTypes ==
  ASSUME TypeOK, NEW s \in Statuses, NEW i \in Nat,
         NEW op \in {"idle", "place", "rule", "reschedule", "resolve", "change",
                     "edit", "reopen", "assign", "escalate", "submit", "approve", "reject"}
  PROVE  /\ {About(op, i), LoadedDue(op), LoadedClock(op), LoadedFlag(op), LoadedChange(s),
             LoadedRow(s)} \subseteq Copies
         /\ \A c \in Copies, staff \in Staff :
              /\ ToPlace(c, staff) \in Copies
              /\ ToPlace(c, staff).op = c.op /\ ToPlace(c, staff).level = c.level
              /\ ToPlace(c, staff).escalated = c.escalated
<1>1. {About(op, i), LoadedDue(op), LoadedClock(op), LoadedFlag(op), LoadedChange(s)}
         \subseteq Copies
  BY TypeFacts, DueFacts DEF Copies, Copy, About, LoadedDue, LoadedClock, LoadedFlag,
     LoadedChange, Staff
<1>2. LoadedRow(s) \in Copies
  BY TypeFacts, DueFacts DEF Copies, Copy, LoadedRow, Staff, TypeOK
<1>3. \A c \in Copies, staff \in Staff :
        /\ ToPlace(c, staff) \in Copies
        /\ ToPlace(c, staff).op = c.op /\ ToPlace(c, staff).level = c.level
        /\ ToPlace(c, staff).escalated = c.escalated
  BY DEF ToPlace, Copies, Staff
<1> QED
  BY <1>1, <1>2, <1>3

\* A copy just made was seen escalated only with a history
LEMMA CopyRecorded ==
  ASSUME IInv, NEW s, NEW i, NEW op,
         NEW c \in {About(op, i), LoadedDue(op), LoadedClock(op), LoadedFlag(op),
                    LoadedChange(s), LoadedRow(s)}
  PROVE  c.escalated => hist # <<>>
BY DEF IInv, EscalationOnRecord, Copy, About, LoadedDue, LoadedClock, LoadedFlag,
       LoadedChange, LoadedRow

\* A step that leaves the ticket where it is leaves the record right
LEMMA RecordKept ==
  ASSUME IInv, UNCHANGED <<level, escalated, hist, overwritten>>
  PROVE  EscalationOnRecord'
BY DEF IInv, EscalationOnRecord

-----------------------------------------------------------------------------
(* The kinds of step: a request ends, a request begins, the sweep moves on, *)
(* the ticket hops                                                          *)

ReportStatuses == {"PENDING", "APPROVED", "REJECTED"}

LEMMA Born ==
  ASSUME IInv, NEW u \in Sessions, seen[u].op \notin {"idle", "rule"}
  PROVE  status \in Statuses
BY DEF IInv, Unborn, TypeOK

\* A request ends and leaves the history alone
LEMMA EndStep ==
  ASSUME IInv, NEW u \in Sessions, End(u), hist' = hist, EscalationOnRecord',
         level' \in Levels \cup {0}, assigned' \in Staff,
         escalated' \in BOOLEAN, overwritten' \in BOOLEAN,
         due' \in Due, reports' \in Seq(ReportStatuses), DOMAIN reports \subseteq DOMAIN reports',
         status' \in Statuses \/ UNCHANGED <<ticket, reports>>
  PROVE  IInv'
<1>1. TypeOK
  BY DEF IInv
<1>2. /\ seen' \in [Sessions -> Copies]
      /\ seen'[u] = Idle /\ \A v \in Sessions : v # u => seen'[v] = seen[v]
      /\ UNCHANGED <<ruled, timed, sweep, calls>>
  BY <1>1, EndTypes
<1>3. Idle.level = 0 /\ ~Idle.escalated /\ Idle.op = "idle"
  BY DEF Idle, About, Copy
<1>4. status' \in Statuses \cup {"none"}
  BY <1>1 DEF TypeOK, ticket
<1>5. TypeOK'
  BY <1>1, <1>2, <1>4 DEF TypeOK, Copies, ReportStatuses
<1>6. CopiesOnRecord'
  BY <1>2, <1>3 DEF IInv, CopiesOnRecord
<1>7. Unborn'
  BY <1>2, <1>3 DEF IInv, Unborn, ticket, position, Statuses
<1> QED
  BY <1>5, <1>6, <1>7 DEF IInv

\* A request begins with a copy of the ticket
LEMMA BeginStep ==
  ASSUME IInv, NEW u \in Sessions, NEW c \in Copies, Begin(u, c),
         c.escalated => hist # <<>>,
         c.op \in {"approve", "reject"} => c.report \in DOMAIN reports,
         c.op \in {"change", "edit"} => {c.status, c.want} \subseteq Statuses,
         status # "none" \/ c = About("rule", 0),
         UNCHANGED <<ticket, reports, sweep>>, ruled' \in BOOLEAN, timed' \in SUBSET Chain
  PROVE  IInv'
<1>1. TypeOK
  BY DEF IInv
<1>2. /\ seen' \in [Sessions -> Copies] /\ calls' \in 0..MaxCalls
      /\ seen'[u] = c /\ \A v \in Sessions : v # u => seen'[v] = seen[v]
  BY <1>1, BeginTypes
<1>3. TypeOK'
  BY <1>1, <1>2 DEF TypeOK, Copies, ticket, position
<1>4. EscalationOnRecord'
  BY RecordKept DEF ticket, position
<1>5. CopiesOnRecord'
  BY <1>2 DEF IInv, CopiesOnRecord, ticket, position
<1>6. Unborn'
  BY <1>2 DEF IInv, Unborn, ticket, position, About, Copy
<1> QED
  BY <1>3, <1>4, <1>5, <1>6 DEF IInv

\* The sweep moves on, and at most the deadline changes
LEMMA SweepStep ==
  ASSUME IInv, status # "none", due' \in Due, sweep' \in {"idle", "picked", "top"},
         UNCHANGED <<status, position, reports, rule, seen, calls>>
  PROVE  IInv'
<1>1. TypeOK'
  BY DEF IInv, TypeOK, rule, position
<1>2. EscalationOnRecord'
  BY RecordKept DEF position
<1>3. CopiesOnRecord' /\ Unborn'
  BY DEF IInv, CopiesOnRecord, Unborn, position
<1> QED
  BY <1>1, <1>2, <1>3 DEF IInv

\* A hop adds the level it goes to to the history, from where the last one led
LEMMA HopStep ==
  ASSUME IInv, Hop, UNCHANGED <<reports, rule, calls>>,
         sweep' \in {"idle", "picked", "top"}, seen' \in [Sessions -> Copies],
         \A u \in Sessions : seen'[u] = seen[u] \/ seen'[u] = Idle
  PROVE  IInv'
<1> DEFINE entry == [from |-> level, to |-> level']
<1>1. level' \in Chain /\ level' \in Levels
  BY EscalationConstants DEF Hop, NextLevel
<1>2. entry \in HopRecord
  BY <1>1 DEF HopRecord, IInv, TypeOK
<1>3. hist \in Seq(HopRecord) /\ hist' = Append(hist, entry)
  BY DEF IInv, TypeOK, HopRecord, Hop
<1>4. /\ hist' \in Seq(HopRecord) /\ hist' # <<>>
      /\ Len(hist) + 1 \in DOMAIN hist' /\ hist'[Len(hist) + 1] = entry
      /\ \A i \in DOMAIN hist : i \in DOMAIN hist' /\ hist'[i] = hist[i]
  <2> HIDE DEF entry
  <2> QED BY <1>2, <1>3
<1>5. Len(hist') = Len(hist) + 1 /\ Len(hist) \in Nat /\ DOMAIN hist = 1..Len(hist)
  <2> HIDE DEF entry
  <2> QED BY <1>2, <1>3
<1>6. LevelDue(level') \in Due
  BY DueFacts
<1>7. TypeOK'
  BY <1>1, <1>4, <1>6 DEF IInv, TypeOK, Hop, HopRecord, Copies, rule, Statuses
<1>8. EscalationOnRecord'
  <2>1. hist'[Len(hist')].to = level' /\ escalated' /\ overwritten' = overwritten
    BY <1>4, <1>5 DEF Hop
  <2>2. ASSUME ~overwritten, NEW i \in 1..Len(hist') - 1
        PROVE  hist'[i].to = hist'[i + 1].from
    <3>1. CASE i = Len(hist)
      <4>1. i \in DOMAIN hist /\ hist # <<>>
        BY <1>5, <2>2, <3>1
      <4>2. hist[i].to = level
        BY <2>2, <3>1, <4>1 DEF IInv, EscalationOnRecord
      <4> QED BY <1>4, <3>1, <4>1, <4>2
    <3>2. CASE i # Len(hist)
      <4> DEFINE n == Len(hist)
      <4>1. i \in 1..n - 1
        <5>1. n \in Nat /\ i \in 1..(n + 1) - 1 /\ i # n
          BY <1>5, <2>2, <3>2
        <5> HIDE DEF n
        <5> QED BY <5>1
      <4>2. i \in DOMAIN hist /\ i + 1 \in DOMAIN hist
        BY <1>5, <4>1
      <4>3. hist[i].to = hist[i + 1].from
        BY <2>2, <4>1 DEF IInv, EscalationOnRecord
      <4> QED BY <1>4, <4>2, <4>3
    <3> QED BY <3>1, <3>2
  <2> QED BY <1>4, <2>1, <2>2 DEF EscalationOnRecord
<1>9. Idle.level = 0 /\ ~Idle.escalated /\ Idle.op = "idle"
  BY DEF Idle, About, Copy
<1>10. CopiesOnRecord'
  BY <1>4, <1>9 DEF IInv, CopiesOnRecord
<1>11. Unborn'
  BY DEF Unborn, Hop
<1> QED
  BY <1>7, <1>8, <1>10, <1>11 DEF IInv

-----------------------------------------------------------------------------
(* The steps *)

LEMMA TickStep == IInv /\ Tick => IInv'
<1> SUFFICES ASSUME IInv, Tick PROVE IInv'
  OBVIOUS
<1> DEFINE Age(d) == IF d > 0 THEN d - 1 ELSE d
<1>1. /\ due' = Age(due)
      /\ seen' = [u \in Sessions |-> [seen[u] EXCEPT !.due = Age(@)]]
      /\ UNCHANGED <<status, position, reports, rule, sweep, calls>>
  BY DEF Tick
<1>2. \A d \in Due : Age(d) \in Due /\ Age(NoDue) = NoDue
  BY EscalationConstants DEF Due, NoDue
<1>3. TypeOK
  BY DEF IInv
<1>4. due \in Due /\ \A u \in Sessions : seen[u].due \in Due /\ seen[u] \in Copies
  BY <1>3, TypeFacts DEF Copies
<1> HIDE DEF Age
<1>5. \A u \in Sessions : /\ seen'[u] \in Copies
                         /\ seen'[u].op = seen[u].op /\ seen'[u].level = seen[u].level
                         /\ seen'[u].escalated = seen[u].escalated
                         /\ seen'[u].report = seen[u].report
                         /\ seen'[u].status = seen[u].status /\ seen'[u].want = seen[u].want
  BY <1>1, <1>2, <1>4 DEF Copies
<1>6. seen' \in [Sessions -> Copies]
  BY <1>1, <1>5
<1>7. TypeOK'
  BY <1>1, <1>2, <1>3, <1>4, <1>6 DEF TypeOK, Copies, rule, position
<1>8. EscalationOnRecord'
  BY <1>1, RecordKept DEF position
<1>9. CopiesOnRecord'
  BY <1>1, <1>5 DEF IInv, CopiesOnRecord, position
<1>10. Unborn'
  BY <1>1, <1>2, <1>4, <1>5 DEF IInv, Unborn, position
<1> QED
  BY <1>7, <1>8, <1>9, <1>10 DEF IInv

LEMMA SweepSteps ==
  IInv /\ (SweepPick \/ SweepHop \/ SweepTop \/ SweepClear \/ SweepDies) => IInv'
<1> SUFFICES ASSUME IInv PROVE (SweepPick \/ SweepHop \/ SweepTop \/ SweepClear \/ SweepDies) => IInv'
  OBVIOUS
<1>1. due \in Due /\ NoDue \in Due /\ seen \in [Sessions -> Copies]
  BY TypeFacts, DueFacts DEF IInv
<1>2. sweep # "idle" => status # "none"
  BY DEF IInv, Unborn
<1>3. CASE SweepPick
  BY <1>1, <1>3, SweepStep DEF SweepPick, ticket, Overdue, Open, Statuses
<1>4. CASE SweepHop
  BY <1>1, <1>4, HopStep DEF SweepHop
<1>5. CASE SweepTop
  BY <1>1, <1>2, <1>5, SweepStep DEF SweepTop, ticket
<1>6. CASE SweepClear
  BY <1>1, <1>2, <1>6, SweepStep DEF SweepClear
<1>7. CASE SweepDies
  BY <1>1, <1>2, <1>7, SweepStep DEF SweepDies, ticket
<1> QED
  BY <1>3, <1>4, <1>5, <1>6, <1>7

\* Steps that begin a request
LEMMA BeginSteps ==
  ASSUME IInv, NEW u \in Sessions
  PROVE  EditRule(u) \/ Read(u) \/ PhotoRead(u) => IInv'
<1>1. TypeOK
  BY DEF IInv
<1>2. ruled \in BOOLEAN /\ timed \in SUBSET Chain
  BY <1>1 DEF TypeOK
<1>3. CASE EditRule(u)
  <2>1. About("rule", 0) \in Copies /\ About("rule", 0).level = 0
        /\ ~About("rule", 0).escalated /\ About("rule", 0).op = "rule"
    BY <1>1, CopyTypes DEF About, Copy, Statuses
  <2> QED
    BY <1>3, <2>1, BeginStep DEF EditRule
<1>4. CASE Read(u)
  <2>1. UNCHANGED <<ticket, reports, sweep>> /\ ruled' = ruled /\ timed' = timed
        /\ status # "none"
    BY <1>4 DEF Read, rule
  <2>2. ASSUME NEW c \in Copies, Begin(u, c),
               c.escalated => hist # <<>>, c.op \notin {"approve", "reject"},
               c.op \in {"change", "edit"} => {c.status, c.want} \subseteq Statuses
        PROVE  IInv'
    BY <1>2, <2>1, <2>2, BeginStep
  <2>3. Targets \subseteq Statuses
    BY EscalationConstants DEF Statuses
  <2>4. CASE Begin(u, LoadedDue("resolve"))
    <3>1. LoadedDue("resolve") \in Copies
      BY <1>1, CopyTypes DEF Statuses
    <3>2. LoadedDue("resolve").op = "resolve"
      BY DEF LoadedDue, Copy
    <3> QED BY <2>2, <2>4, <3>1, <3>2, CopyRecorded
  <2>5. ASSUME NEW s \in Targets, Begin(u, LoadedChange(s)) PROVE IInv'
    <3>1. LoadedChange(s) \in Copies
      BY <1>1, <2>3, CopyTypes
    <3>2. LoadedChange(s).op = "change" /\ {LoadedChange(s).status, LoadedChange(s).want} \subseteq Statuses
      BY <1>1, <2>1, <2>3 DEF LoadedChange, Copy, TypeOK
    <3> QED BY <2>2, <2>5, <3>1, <3>2, CopyRecorded
  <2>6. ASSUME NEW s \in Targets, Begin(u, LoadedRow(s)) PROVE IInv'
    <3>1. LoadedRow(s) \in Copies
      BY <1>1, <2>3, CopyTypes
    <3>2. LoadedRow(s).op = "edit" /\ {LoadedRow(s).status, LoadedRow(s).want} \subseteq Statuses
      BY <1>1, <2>1, <2>3 DEF LoadedRow, Copy, TypeOK
    <3> QED BY <2>2, <2>6, <3>1, <3>2, CopyRecorded
  <2>7. CASE Begin(u, LoadedClock("reopen"))
    <3>1. LoadedClock("reopen") \in Copies
      BY <1>1, CopyTypes DEF Statuses
    <3>2. LoadedClock("reopen").op = "reopen"
      BY DEF LoadedClock, Copy
    <3> QED BY <2>2, <2>7, <3>1, <3>2, CopyRecorded
  <2>8. CASE Begin(u, About("escalate", 0))
    <3>1. About("escalate", 0) \in Copies
      BY <1>1, CopyTypes DEF Statuses
    <3>2. About("escalate", 0).op = "escalate"
      BY DEF About, Copy
    <3> QED BY <2>2, <2>8, <3>1, <3>2, CopyRecorded
  <2>9. CASE Begin(u, LoadedFlag("assign"))
    <3>1. LoadedFlag("assign") \in Copies
      BY <1>1, CopyTypes DEF Statuses
    <3>2. LoadedFlag("assign").op = "assign"
      BY DEF LoadedFlag, Copy
    <3> QED BY <2>2, <2>9, <3>1, <3>2, CopyRecorded
  <2> QED
    BY <1>4, <2>4, <2>5, <2>6, <2>7, <2>8, <2>9 DEF Read
<1>5. CASE PhotoRead(u)
  <2>1. UNCHANGED <<ticket, reports, sweep>> /\ ruled' = ruled /\ timed' = timed
    BY <1>5 DEF PhotoRead, rule
  <2>2. reports # <<>> => status # "none"
    BY DEF IInv, Unborn
  <2>3. CASE Open(status) /\ Begin(u, About("submit", 0))
    <3>1. About("submit", 0) \in Copies
      BY <1>1, CopyTypes DEF Statuses
    <3>2. About("submit", 0).op = "submit" /\ status # "none"
      BY <2>3 DEF About, Copy, Open, Statuses
    <3> QED BY <1>2, <2>1, <2>3, <3>1, <3>2, CopyRecorded, BeginStep
  <2>4. ASSUME NEW i \in Pending, NEW op \in {"approve", "reject"}, Begin(u, About(op, i))
        PROVE  IInv'
    <3>1. i \in DOMAIN reports /\ i \in Nat /\ reports # <<>>
      BY <1>1 DEF Pending, TypeOK
    <3>2. About(op, i) \in Copies
      BY <1>1, <3>1, CopyTypes DEF Statuses
    <3>3. About(op, i).report = i /\ About(op, i).op = op
      BY DEF About, Copy
    <3> QED BY <1>2, <2>1, <2>2, <2>4, <3>1, <3>2, <3>3, CopyRecorded, BeginStep
  <2> QED
    BY <1>5, <2>3, <2>4 DEF PhotoRead
<1> QED
  BY <1>3, <1>4, <1>5

\* The ticket is created, and a rescheduling request loads it
LEMMA LoadSteps ==
  ASSUME IInv, NEW u \in Sessions
  PROVE  Create(u) \/ RescheduleRead(u) => IInv'
<1>1. TypeOK /\ seen \in [Sessions -> Copies]
  BY TypeFacts DEF IInv
<1>2. Idle.level = 0 /\ ~Idle.escalated /\ Idle.op = "idle" /\ Idle \in Copies
  BY IdleCopy DEF Idle, About, Copy
<1>3. CASE Create(u)
  <2>1. /\ level = 0 /\ hist = <<>> /\ reports = <<>> /\ ~escalated
        /\ \A v \in Sessions : seen[v].level = 0 /\ ~seen[v].escalated
                               /\ seen[v].op \in {"idle", "rule"}
    BY <1>3 DEF Create, IInv, Unborn
  <2> DEFINE c == ToPlace(About("place", 0), assigned')
  <2>2. assigned' \in Staff /\ About("place", 0) \in Copies
    BY <1>1, <1>3, CopyTypes, EscalationConstants DEF Create, Staff, Statuses
  <2>3. About("place", 0).level = 0 /\ ~About("place", 0).escalated
        /\ About("place", 0).op = "place"
    BY DEF About, Copy
  <2>4. c \in Copies /\ c.level = 0 /\ ~c.escalated /\ c.op = "place"
    BY <1>1, <2>2, <2>3, CopyTypes DEF Statuses
  <2>5. seen' = [seen EXCEPT ![u] = c]
    BY <1>3 DEF Create
  <2> HIDE DEF c
  <2>6. /\ seen' \in [Sessions -> Copies]
        /\ \A v \in Sessions : seen'[v] = seen[v] \/ seen'[v] = c
    BY <1>1, <2>4, <2>5
  <2>7. TypeOK'
    BY <1>1, <1>3, <2>2, <2>6 DEF Create, TypeOK, Copies, Statuses, rule
  <2>8. EscalationOnRecord'
    BY <1>3, RecordKept DEF Create
  <2>9. CopiesOnRecord'
    BY <2>1, <2>4, <2>6 DEF CopiesOnRecord
  <2>10. Unborn'
    BY <1>3 DEF Create, Unborn
  <2> QED
    BY <2>7, <2>8, <2>9, <2>10 DEF IInv
<1>4. CASE RescheduleRead(u)
  <2> DEFINE c == IF Open(status) THEN ToPlace(LoadedClock("reschedule"), assigned) ELSE Idle
  <2>1. /\ seen' = [seen EXCEPT ![u] = c]
        /\ UNCHANGED <<ticket, reports, ruled, timed, sweep, calls>>
    BY <1>4 DEF RescheduleRead, rule
  <2>2. LoadedClock("reschedule") \in Copies /\ assigned \in Staff
    BY <1>1, CopyTypes DEF Statuses, TypeOK
  <2>3. ~LoadedClock("reschedule").escalated /\ LoadedClock("reschedule").op = "reschedule"
    BY DEF LoadedClock, Copy
  <2>4. /\ c \in Copies /\ ~c.escalated
        /\ c.op \notin {"approve", "reject", "change", "edit"}
    BY <1>1, <1>2, <2>2, <2>3, CopyTypes DEF Statuses
  <2>5. status = "none" => c = Idle
    BY DEF Open, Statuses
  <2> HIDE DEF c
  <2>6. /\ seen' \in [Sessions -> Copies]
        /\ seen'[u] = c /\ \A v \in Sessions : v # u => seen'[v] = seen[v]
    BY <1>1, <2>1, <2>4
  <2>7. TypeOK'
    BY <1>1, <2>1, <2>6 DEF TypeOK, Copies, ticket, position
  <2>8. EscalationOnRecord'
    BY <2>1, RecordKept DEF ticket, position
  <2>9. CopiesOnRecord'
    BY <2>1, <2>4, <2>6 DEF IInv, CopiesOnRecord, ticket, position
  <2>10. Unborn'
    BY <1>2, <2>1, <2>5, <2>6 DEF IInv, Unborn, ticket, position
  <2> QED
    BY <2>7, <2>8, <2>9, <2>10 DEF IInv
<1> QED
  BY <1>3, <1>4

\* Writes from a copy
LEMMA WriteSteps ==
  ASSUME IInv, NEW u \in Sessions
  PROVE  Place(u) \/ RescheduleWrite(u) \/ Resolve(u) \/ ChangeStatus(u) \/ Reopen(u)
         \/ Assign(u) \/ Edit(u) => IInv'
<1>1. TypeOK /\ seen[u] \in Copies /\ due \in Due
  BY TypeFacts DEF IInv
<1>2. /\ level \in Levels \cup {0} /\ assigned \in Staff /\ escalated \in BOOLEAN
      /\ overwritten \in BOOLEAN /\ reports \in Seq(ReportStatuses)
  BY <1>1 DEF TypeOK, ReportStatuses
<1>3. UNCHANGED position => EscalationOnRecord'
  BY RecordKept DEF position
<1>4. /\ {seen[u].status, seen[u].want} \subseteq Statuses \cup {"none"}
      /\ seen[u].level \in Levels \cup {0} /\ seen[u].assigned \in Staff
      /\ seen[u].due \in Due /\ seen[u].escalated \in BOOLEAN
      /\ Assignees \cup {NoStaff} \subseteq Staff
  BY <1>1, EscalationConstants DEF Copies, Staff
<1>5. NoDue \in Due /\ (\A l : LevelDue(l) \in Due) /\ \A d \in 0..Window : d \in Due
  BY DueFacts
<1>6. DueAfterStop(seen[u]) \in Due /\ DueAfterRestart(seen[u]) \in Due
  BY <1>1, <1>5 DEF DueAfterStop, DueAfterRestart
<1>7. CASE Place(u)
  <2>1. status \in Statuses
    BY <1>7, Born DEF Place
  <2>2. EntryLevel(seen[u].assigned) \subseteq Levels \ {0}
    BY EscalationConstants DEF EntryLevel, NextLevel
  <2>3. level' \in Levels \cup {0} /\ due' \in Due /\ assigned' \in Staff
        /\ overwritten' \in BOOLEAN
    BY <1>1, <1>2, <1>5, <1>7, <2>2 DEF Place, ticket, position, Staff
  <2>4. CASE UNCHANGED ticket
    BY <1>2, <1>3, <1>7, <2>1, <2>3, <2>4, EndStep DEF Place, ticket, position
  <2>5. CASE /\ UNCHANGED <<status, escalated, hist>>
             /\ overwritten' = (overwritten \/ level # 0)
    <3>1. ~overwritten' => hist = <<>>
      <4>1. SUFFICES ASSUME ~overwritten, level = 0, hist # <<>> PROVE FALSE
        BY <2>5
      <4>2. hist \in Seq(HopRecord) /\ Len(hist) \in DOMAIN hist
        BY <1>1, <4>1 DEF TypeOK, HopRecord
      <4>3. hist[Len(hist)] \in HopRecord
        BY <4>2
      <4>4. hist[Len(hist)].to \in Chain
        BY <4>3 DEF HopRecord
      <4> QED BY <4>1, <4>4, EscalationConstants DEF IInv, EscalationOnRecord
    <3>2. EscalationOnRecord'
      BY <2>5, <3>1 DEF IInv, EscalationOnRecord
    <3> QED
      BY <1>2, <1>7, <2>1, <2>3, <2>5, <3>2, EndStep DEF Place
  <2> QED
    BY <1>7, <2>4, <2>5 DEF Place
<1>8. CASE RescheduleWrite(u)
  <2>1. status \in Statuses
    BY <1>8, Born DEF RescheduleWrite
  <2>2. due' \in Due
    BY <1>1, <1>5, <1>8 DEF RescheduleWrite
  <2> QED
    BY <1>2, <1>3, <1>8, <2>1, <2>2, EndStep DEF RescheduleWrite, position
<1>9. CASE Resolve(u)
  BY <1>2, <1>3, <1>6, <1>9, EndStep DEF Resolve, Statuses, position
<1>10. CASE ChangeStatus(u)
  <2>1. seen[u].want \in Statuses
    BY <1>10 DEF ChangeStatus, IInv, CopiesOnRecord
  <2>2. due' \in Due
    BY <1>1, <1>6, <1>10 DEF ChangeStatus
  <2> QED
    BY <1>2, <1>3, <1>10, <2>1, <2>2, EndStep DEF ChangeStatus, position
<1>11. CASE Reopen(u)
  BY <1>2, <1>3, <1>6, <1>11, EndStep DEF Reopen, Statuses, position
<1>12. CASE Edit(u)
  <2>1. {seen[u].status, seen[u].want} \subseteq Statuses
    BY <1>12 DEF Edit, IInv, CopiesOnRecord
  <2>2. overwritten' \in BOOLEAN /\ assigned' \in Staff
    BY <1>4, <1>12 DEF Edit
  <2>3. escalated' => hist # <<>>
    BY <1>12 DEF Edit, IInv, CopiesOnRecord
  <2>4. ~overwritten' => UNCHANGED <<level, escalated, overwritten>>
    BY <1>2, <1>12 DEF Edit
  <2>5. EscalationOnRecord'
    BY <1>12, <2>3, <2>4 DEF Edit, IInv, EscalationOnRecord
  <2> QED
    BY <1>2, <1>4, <1>12, <2>1, <2>2, <2>5, EndStep DEF Edit
<1>13. CASE Assign(u)
  <2>1. status \in Statuses
    BY <1>13, Born DEF Assign
  <2>2. assigned' \in Staff
    BY <1>2, <1>4, <1>13 DEF Assign
  <2>3. EscalationOnRecord'
    BY <1>13, RecordKept DEF Assign
  <2> QED
    BY <1>1, <1>2, <1>13, <2>1, <2>2, <2>3, EndStep DEF Assign
<1> QED
  BY <1>7, <1>8, <1>9, <1>10, <1>11, <1>12, <1>13

LEMMA EscalateStep == ASSUME IInv, NEW u \in Sessions, Escalate(u) PROVE IInv'
<1>1. TypeOK
  BY DEF IInv
<1>2. status \in Statuses
  BY Born DEF Escalate
<1>3. CASE Hop
  <2>1. /\ seen' \in [Sessions -> Copies] /\ UNCHANGED <<rule, sweep, calls>>
        /\ \A v \in Sessions : seen'[v] = seen[v] \/ seen'[v] = Idle
    BY <1>1, EndTypes DEF Escalate, rule
  <2>2. sweep' \in {"idle", "picked", "top"} /\ reports' = reports
    BY <1>1, <2>1 DEF TypeOK, Escalate
  <2> QED
    BY <1>3, <2>1, <2>2, HopStep
<1>4. CASE UNCHANGED ticket
  <2>1. /\ level \in Levels \cup {0} /\ escalated \in BOOLEAN /\ due \in Due
        /\ assigned \in Staff /\ overwritten \in BOOLEAN /\ reports \in Seq(ReportStatuses)
    BY <1>1 DEF TypeOK, ReportStatuses
  <2>2. EscalationOnRecord'
    BY <1>4, RecordKept DEF ticket, position
  <2> QED
    BY <1>2, <1>4, <2>1, <2>2, EndStep DEF Escalate, ticket, position
<1> QED
  BY <1>3, <1>4 DEF Escalate

\* The cleanup requests, and a request that comes to nothing
LEMMA PhotoSteps ==
  ASSUME IInv, NEW u \in Sessions
  PROVE  Submit(u) \/ Approve(u) \/ Reject(u) \/ GiveUp(u) => IInv'
<1>1. TypeOK
  BY DEF IInv
<1>2. /\ level \in Levels \cup {0} /\ escalated \in BOOLEAN /\ due \in Due
      /\ assigned \in Staff /\ overwritten \in BOOLEAN /\ reports \in Seq(ReportStatuses)
      /\ NoDue \in Due
      /\ UNCHANGED position => EscalationOnRecord'
  BY <1>1, DueFacts, RecordKept DEF TypeOK, ReportStatuses, position
<1>3. CASE Submit(u)
  <2>1. reports' \in Seq(ReportStatuses) /\ DOMAIN reports \subseteq DOMAIN reports'
    <3>1. "PENDING" \in ReportStatuses
      BY DEF ReportStatuses
    <3>2. reports' = Append(reports, "PENDING")
      BY <1>3 DEF Submit
    <3> QED BY <1>2, <3>1, <3>2
  <2>2. status \in Statuses
    BY <1>3, Born DEF Submit
  <2> QED
    BY <1>2, <1>3, <2>1, <2>2, EndStep DEF Submit, ticket, position
<1>4. ASSUME NEW decision \in ReportStatuses, seen[u].op \in {"approve", "reject"},
             reports' = [reports EXCEPT ![seen[u].report] = decision]
      PROVE  reports' \in Seq(ReportStatuses) /\ DOMAIN reports' = DOMAIN reports
  <2>1. seen[u].report \in 1..Len(reports)
    BY <1>2, <1>4 DEF IInv, CopiesOnRecord
  <2> QED
    BY <1>2, <1>4, <2>1, ExceptSeq
<1>5. CASE Approve(u)
  <2>1. reports' \in Seq(ReportStatuses) /\ DOMAIN reports' = DOMAIN reports
    BY <1>4, <1>5 DEF Approve, ReportStatuses
  <2> QED
    BY <1>2, <1>5, <2>1, EndStep DEF Approve, Statuses, position
<1>6. CASE Reject(u)
  <2>1. reports' \in Seq(ReportStatuses) /\ DOMAIN reports' = DOMAIN reports
    BY <1>4, <1>6 DEF Reject, ReportStatuses
  <2>2. status \in Statuses
    BY <1>6, Born DEF Reject
  <2> QED
    BY <1>2, <1>6, <2>1, <2>2, EndStep DEF Reject, ticket, position
<1>7. CASE GiveUp(u)
  BY <1>2, <1>7, EndStep DEF GiveUp, ticket, position
<1> QED
  BY <1>3, <1>5, <1>6, <1>7

LEMMA StutterStep == IInv /\ UNCHANGED vars => IInv'
<1> SUFFICES ASSUME IInv, UNCHANGED vars PROVE IInv'
  OBVIOUS
<1>1. UNCHANGED <<status, level, escalated, due, hist, assigned, overwritten, reports, ruled,
                  timed, seen, sweep, calls>>
  BY DEF vars, ticket, position, rule
<1> QED
  BY <1>1 DEF IInv, TypeOK, EscalationOnRecord, CopiesOnRecord, Unborn, Copies

LEMMA NextInv == IInv /\ [Next]_vars => IInv'
<1> SUFFICES ASSUME IInv, [Next]_vars PROVE IInv'
  OBVIOUS
<1>1. ASSUME NEW u \in Sessions, Request(u) PROVE IInv'
  BY <1>1, BeginSteps, LoadSteps, WriteSteps, EscalateStep, PhotoSteps DEF Request
<1> QED
  BY <1>1, TickStep, SweepSteps, StutterStep DEF Next

-----------------------------------------------------------------------------
(* Theorems *)

LEMMA Invariance == Spec => []IInv
BY InitInv, NextInv, PTL DEF Spec

\* The ticket, the history, the reports and every copy a request holds keep
\* their types.
THEOREM TicketTypes == Spec => []TypeOK
<1>1. IInv => TypeOK
  BY DEF IInv
<1> QED
  BY <1>1, Invariance, PTL

\* For every hierarchy and any number of sessions, whatever hops, placements by
\* the staff assigned meanwhile and whole-row edits overlap, the escalation
\* history is one climb to the level the ticket is at, unless a copy's level
\* was written over a row that had moved on.
THEOREM HistoryIsOneClimb == Spec => []EscalationOnRecord
<1>1. IInv => EscalationOnRecord
  BY DEF IInv
<1> QED
  BY <1>1, Invariance, PTL

\* What a step does to the reports: nothing, a new one at the end, or the
\* decision of one that was waiting
LEMMA ReportStep ==
  ASSUME IInv, [Next]_vars
  PROVE  \/ reports' = reports
         \/ reports' = Append(reports, "PENDING")
         \/ \E u \in Sessions : /\ Approve(u) \/ Reject(u)
                               /\ seen[u].report \in 1..Len(reports)
                               /\ reports[seen[u].report] = "PENDING"
<1>1. CASE UNCHANGED vars
  BY <1>1 DEF vars
<1>2. CASE Tick \/ SweepPick \/ SweepHop \/ SweepTop \/ SweepClear \/ SweepDies
  BY <1>2 DEF Tick, SweepPick, SweepHop, SweepTop, SweepClear, SweepDies
<1>3. ASSUME NEW u \in Sessions, Request(u)
      PROVE  \/ reports' = reports
             \/ reports' = Append(reports, "PENDING")
             \/ Approve(u) \/ Reject(u)
  BY <1>3 DEF Request, Create, Place, EditRule, RescheduleRead, RescheduleWrite, Read, Resolve,
              ChangeStatus, Reopen, Assign, Edit, Escalate, PhotoRead, Submit, GiveUp
<1>4. ASSUME NEW u \in Sessions, Approve(u) \/ Reject(u)
      PROVE  seen[u].report \in 1..Len(reports) /\ reports[seen[u].report] = "PENDING"
  <2>1. reports \in Seq(ReportStatuses)
    BY DEF IInv, TypeOK, ReportStatuses
  <2>2. seen[u].report \in DOMAIN reports
    BY <1>4 DEF IInv, CopiesOnRecord, Approve, Reject
  <2> QED
    BY <1>4, <2>1, <2>2 DEF Approve, Reject, StillPending
<1> QED
  BY <1>1, <1>2, <1>3, <1>4 DEF Next

\* A decided cleanup report keeps its decision: of any number of officers who
\* opened it, one decides.
THEOREM DecidedReportStays == Spec => ReviewedOnce
<1>1. ASSUME IInv, [Next]_vars
      PROVE  \A i \in DOMAIN reports :
                reports[i] # "PENDING" => i \in DOMAIN reports' /\ reports'[i] = reports[i]
  <2>1. reports \in Seq(ReportStatuses)
    BY <1>1 DEF IInv, TypeOK, ReportStatuses
  <2>2. CASE reports' = reports
    BY <2>2
  <2>3. CASE reports' = Append(reports, "PENDING")
    BY <2>1, <2>3
  <2>4. ASSUME NEW u \in Sessions, Approve(u) \/ Reject(u),
               reports[seen[u].report] = "PENDING"
        PROVE  \A i \in DOMAIN reports :
                  reports[i] # "PENDING" => i \in DOMAIN reports' /\ reports'[i] = reports[i]
    BY <2>1, <2>4 DEF Approve, Reject
  <2> QED
    BY <1>1, <2>2, <2>3, <2>4, ReportStep
<1> QED
  BY <1>1, Invariance, PTL DEF Spec, ReviewedOnce

\* An approved photo closed a ticket that was open at that very step, and left
\* it without a deadline.
THEOREM ApprovalClosesOpenTicket == Spec => ApprovalCloses
<1>1. ASSUME IInv, [Next]_vars
      PROVE  \A i \in DOMAIN reports :
                reports[i] = "PENDING" /\ reports'[i] = "APPROVED"
                => Open(status) /\ status' = "CLOSED" /\ due' = NoDue
  <2>1. reports \in Seq(ReportStatuses)
    BY <1>1 DEF IInv, TypeOK, ReportStatuses
  <2>2. CASE reports' = reports
    BY <2>2
  <2>3. CASE reports' = Append(reports, "PENDING")
    BY <2>1, <2>3
  <2>4. ASSUME NEW u \in Sessions, Approve(u)
        PROVE  Open(status) /\ status' = "CLOSED" /\ due' = NoDue
    BY <2>4 DEF Approve
  <2>5. ASSUME NEW u \in Sessions, Reject(u), NEW i \in DOMAIN reports,
               reports[i] = "PENDING"
        PROVE  reports'[i] # "APPROVED"
    BY <2>1, <2>5 DEF Reject
  <2> QED
    BY <1>1, <2>2, <2>3, <2>4, <2>5, ReportStep
<1> QED
  BY <1>1, Invariance, PTL DEF Spec, ApprovalCloses

=============================================================================
