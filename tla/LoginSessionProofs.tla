-------------------------- MODULE LoginSessionProofs --------------------------
(* What LoginSession keeps for any number of workers and all settings of   *)
(* its times: how long an ended session is let in, and that a user who     *)
(* keeps working is never logged out as idle.                              *)
EXTENDS LoginSession, TLAPS

DecidingOps == {"load", "put", "judge", "touch"}

\* What a worker knows of its call: one that is being decided began lately, one
\* that closes knows as what, and what it saw closed is closed
CallSafe(c) ==
    /\ c.op \in DecidingOps =>
          c.kind \in {"use", "beat"} /\ c.began <= now /\ now <= c.began + Latency
    /\ c.op = "touch" => c.kind = "beat"
    /\ c.op \in DecidingOps \cup {"idle"} => c.type = Open
    /\ c.op \in {"put", "judge"} =>
          /\ c.copy.seen \in {"open", "closed"}
          /\ c.copy.seen = "closed" => Closed
    /\ c.op \in {"read", "write"} => c.type \in Types
    /\ c.op = "uncache" /\ c.type # Open => Closed

\* A copy seen open was read before the row had been closed for long
CopyLate(c) ==
    c.copy.seen = "open" =>
        /\ c.op = "put" => since + c.began <= now
        /\ c.op = "judge" => since + c.began <= now + TTL + Latency

CachedSafe ==
    /\ ~Closed => since = 0
    /\ cached.seen = "closed" => Closed
    /\ cached.seen = "open" => since + cached.loaded <= now + Latency

Safe == CachedSafe /\ \A a \in Workers : CallSafe(work[a]) /\ CopyLate(work[a])

USE SessionConstants

\* Every step of a request, a sweep, the user or the clock keeps the types.
LEMMA TypeStep == ASSUME TypeOK, [Next]_vars PROVE TypeOK'
<1> USE DEF TypeOK, Time, Calls, States, Ops, Row, State, Call, Validating, Closing, Off, NoState, Open, Types
<1>1. ASSUME NEW x \in {now, Horizon}, Act(x) PROVE TypeOK'
  BY <1>1 DEF Act
<1>2. CASE Tick
  <2>1. now' \in Time /\ now' >= now
    BY <1>2 DEF Tick
  <2>2. since' \in 0..(Window + 1)
    BY <1>2 DEF Tick, VR!Aged, Window
  <2>3. idled' \in BOOLEAN
    BY <1>2, Zenon DEF Tick
  <2> QED BY <1>2, <2>1, <2>2, <2>3 DEF Tick
<1>3. ASSUME NEW x \in sent, Lose(x) PROVE TypeOK'
  BY <1>3 DEF Lose
<1>4. ASSUME NEW a \in Workers, Use(a) PROVE TypeOK'
  BY <1>4 DEF Use, Validate, Do
<1>5. ASSUME NEW a \in Workers, NEW x \in sent, Heartbeat(a, x) PROVE TypeOK'
  BY <1>5 DEF Heartbeat, Validate, Do
<1>6. ASSUME NEW a \in Workers, NEW reason \in {"manual", "idle_timeout"}, Logout(a, reason) PROVE TypeOK'
  BY <1>6 DEF Logout, Do
<1>7. ASSUME NEW a \in Workers, Sweep(a) PROVE TypeOK'
  <2>1. CASE SweepIdle(a)
    BY <2>1 DEF SweepIdle, Do
  <2>2. CASE SweepExpired(a)
    BY <2>2 DEF SweepExpired, Do
  <2> QED BY <1>7, <2>1, <2>2 DEF Sweep
<1>8. ASSUME NEW a \in Workers, Load(a) PROVE TypeOK'
  BY <1>8 DEF Load, InRow, Do
<1>9. ASSUME NEW a \in Workers, Put(a) PROVE TypeOK'
  BY <1>9 DEF Put, Do
<1>10. ASSUME NEW a \in Workers, Refuse(a) PROVE TypeOK'
  BY <1>10 DEF Refuse, Finish, Do
<1>11. ASSUME NEW a \in Workers, Expire(a) PROVE TypeOK'
  BY <1>11 DEF Expire, Do
<1>12. ASSUME NEW a \in Workers, Accept(a) PROVE TypeOK'
  BY <1>12 DEF Accept, Finish, Do
<1>13. ASSUME NEW a \in Workers, Touch(a) PROVE TypeOK'
  BY <1>13 DEF Touch, Reported, Do
<1>14. ASSUME NEW a \in Workers, Read(a) PROVE TypeOK'
  BY <1>14 DEF Read, Do
<1>15. ASSUME NEW a \in Workers, Write(a) PROVE TypeOK'
  BY <1>15 DEF Write, Do
<1>16. ASSUME NEW a \in Workers, Uncache(a) PROVE TypeOK'
  BY <1>16 DEF Uncache, Finish, Do
<1>17. ASSUME NEW a \in Workers, Die(a) PROVE TypeOK'
  BY <1>17 DEF Die, Finish, Do
<1>18. CASE UNCHANGED vars
  BY <1>18 DEF vars
<1> QED BY <1>1, <1>2, <1>3, <1>4, <1>5, <1>6, <1>7, <1>8, <1>9, <1>10, <1>11, <1>12, <1>13,
           <1>14, <1>15, <1>16, <1>17, <1>18, Zenon DEF Next, Step


\* One worker's call changes and the others' stay.
LEMMA DoStep ==
  ASSUME TypeOK, NEW a \in Workers, NEW c, Do(a, c)
  PROVE  work'[a] = c /\ \A b \in Workers : b # a => work'[b] = work[b]
  BY DEF TypeOK, Do

\* A worker's step that leaves the row, the cache and the clock alone keeps
\* what is known of every call once it does of its own.
LEMMA SafeDo ==
  ASSUME TypeOK, Safe, NEW a \in Workers, NEW c, Do(a, c), UNCHANGED <<now, row, cached, since>>,
         CallSafe(c), CopyLate(c)
  PROVE  Safe'
<1>1. work'[a] = c /\ \A b \in Workers : b # a => work'[b] = work[b]
  BY DoStep
<1>2. \A b \in Workers : CallSafe(work'[b]) /\ CopyLate(work'[b])
  BY <1>1 DEF Safe
<1> QED BY <1>2 DEF Safe, CachedSafe, CallSafe, CopyLate, Closed

\* So does one that closes the row or removes the cached state.
LEMMA SafeClose ==
  ASSUME TypeOK, Safe, NEW a \in Workers, NEW c, Do(a, c), UNCHANGED <<now, since>>,
         Closed => Closed', cached' \in {cached, NoState}, CallSafe(c)', CopyLate(c)
  PROVE  Safe'
<1>1. work'[a] = c /\ \A b \in Workers : b # a => work'[b] = work[b]
  BY DoStep
<1>2. CachedSafe'
  BY DEF Safe, CachedSafe, NoState, State
<1>3. ASSUME NEW b \in Workers PROVE CallSafe(work[b])' /\ CopyLate(work[b])'
  <2>1. CASE b = a
    BY <1>1, <2>1 DEF CallSafe, CopyLate
  <2>2. CASE b # a
    <3>1. work'[b] = work[b] /\ CallSafe(work[b]) /\ CopyLate(work[b])
      BY <1>1, <2>2 DEF Safe
    <3> QED BY <3>1 DEF CallSafe, CopyLate
  <2> QED BY <2>1, <2>2
<1> QED BY <1>2, <1>3 DEF Safe

\* The cached state that validate_session takes for fresh is not too old.
LEMMA ValidateSafe ==
  ASSUME TypeOK, Safe, NEW a \in Workers, NEW kind \in {"use", "beat"}, NEW stamp \in Time,
         Validate(a, kind, stamp), UNCHANGED <<now, row, cached, since>>
  PROVE  Safe'
<1> USE DEF CallSafe, CopyLate, Validating, Call, State, NoState, DecidingOps
<1>1. CASE Fresh(cached, now)
  <2> DEFINE c == Validating("judge", kind, now, stamp, State(cached.seen, cached.last, 0))
  <2>1. Do(a, c)
    BY <1>1 DEF Validate
  <2>2. cached.seen \in {"open", "closed"} /\ now <= cached.loaded + TTL
    BY <1>1 DEF Fresh, TypeOK, States
  <2>3. CallSafe(c)
    BY <2>2 DEF TypeOK, Time, Safe, CachedSafe
  <2>4. CopyLate(c)
    BY <2>2 DEF TypeOK, Time, States, Window, Safe, CachedSafe
  <2> HIDE DEF c, CallSafe, CopyLate
  <2> QED BY <2>1, <2>3, <2>4, SafeDo
<1>2. CASE ~Fresh(cached, now)
  <2> DEFINE c == Validating("load", kind, now, stamp, NoState)
  <2>1. Do(a, c)
    BY <1>2 DEF Validate
  <2>2. CallSafe(c) /\ CopyLate(c)
    BY DEF TypeOK, Time
  <2> HIDE DEF c, CallSafe, CopyLate
  <2> QED BY <2>1, <2>2, SafeDo
<1> QED BY <1>1, <1>2

\* Every step keeps what is known of the cached state and of the calls.
LEMMA SafeStep == ASSUME TypeOK, Safe, [Next]_vars PROVE Safe'
<1> USE DEF CallSafe, CopyLate, Validating, Closing, Off, Call, State, NoState, DecidingOps
<1>1. CASE UNCHANGED <<now, row, cached, work, since>>
  BY <1>1 DEF Safe, CachedSafe, Closed
<1>2. CASE Tick
  <2>1. now' = now + 1 /\ UNCHANGED <<row, work>> /\ cached' \in {cached, NoState}
    BY <1>2 DEF Tick
  <2>2. since' <= since + 1 /\ since' \in Nat /\ (~Closed => since' = since)
    BY <1>2 DEF Tick, VR!Aged, TypeOK, Window
  <2>3. CachedSafe'
    BY <2>1, <2>2 DEF Safe, CachedSafe, Closed, TypeOK, Time, States
  <2>4. ASSUME NEW a \in Workers PROVE CallSafe(work[a])' /\ CopyLate(work[a])'
    <3>1. CallSafe(work[a]) /\ CopyLate(work[a]) /\ work[a].began \in Nat
      BY DEF Safe, TypeOK, Calls, Time
    <3>2. work[a].op \in DecidingOps => now - work[a].began < Latency
      BY <1>2 DEF Tick, Deciding
    <3>3. now \in Nat /\ since \in Nat
      BY DEF TypeOK, Time, Window
    <3>4. CallSafe(work[a])'
      BY <2>1, <3>1, <3>2, <3>3 DEF Closed
    <3>5. CopyLate(work[a])'
      BY <2>1, <2>2, <3>1, <3>3
    <3> QED BY <3>4, <3>5
  <2> QED BY <2>3, <2>4 DEF Safe
<1>3. ASSUME NEW a \in Workers, Use(a) PROVE Safe'
  BY <1>3, ValidateSafe DEF Use, Time
<1>4. ASSUME NEW a \in Workers, NEW x \in sent, Heartbeat(a, x) PROVE Safe'
  BY <1>4, ValidateSafe DEF Heartbeat, TypeOK
<1>5. ASSUME NEW a \in Workers, NEW reason \in {"manual", "idle_timeout"}, Logout(a, reason)
      PROVE Safe'
  BY <1>5, SafeDo DEF Logout, Types
<1>6. ASSUME NEW a \in Workers, Sweep(a) PROVE Safe'
  BY <1>6, SafeDo DEF Sweep, SweepIdle, SweepExpired, Types
<1>7. ASSUME NEW a \in Workers, Load(a) PROVE Safe'
  <2> DEFINE c == Validating("put", work[a].kind, work[a].began, work[a].stamp, InRow)
  <2>1. CallSafe(work[a]) /\ work[a].op = "load" /\ Do(a, c) /\ UNCHANGED <<now, row, cached, since>>
    BY <1>7 DEF Safe, Load
  <2>2. InRow.seen \in {"open", "closed"} /\ (InRow.seen = "closed" <=> Closed)
    BY DEF InRow
  <2>3. CallSafe(c)
    BY <2>1, <2>2
  <2>4. CopyLate(c)
    BY <2>1, <2>2 DEF Safe, CachedSafe, TypeOK, Calls, Time
  <2> HIDE DEF c, CallSafe, CopyLate
  <2> QED BY <2>1, <2>3, <2>4, SafeDo
<1>8. ASSUME NEW a \in Workers, Put(a) PROVE Safe'
  <2> DEFINE c == Validating("judge", work[a].kind, work[a].began, work[a].stamp, work[a].copy)
  <2>1. CallSafe(work[a]) /\ CopyLate(work[a]) /\ work[a].op = "put" /\ Do(a, c)
    BY <1>8 DEF Safe, Put
  <2>2. /\ cached' = State(work[a].copy.seen, work[a].copy.last, now)
        /\ UNCHANGED <<now, row, since>>
    BY <1>8 DEF Put
  <2>3. CachedSafe'
    BY <2>1, <2>2 DEF Safe, CachedSafe, Closed, TypeOK, Calls, Time, Window
  <2>4. work'[a] = c /\ \A b \in Workers : b # a => work'[b] = work[b]
    BY <2>1, DoStep
  <2>5. work'[a].copy = work[a].copy /\ work'[a].began = work[a].began
        /\ work'[a].kind = work[a].kind /\ work'[a].op = "judge" /\ work'[a].type = Open
    BY <2>4
  <2>6. ASSUME NEW b \in Workers, b # a PROVE CallSafe(work[b])' /\ CopyLate(work[b])'
    BY <2>2, <2>4, <2>6 DEF Safe, Closed
  <2>7. CallSafe(work[a])'
    BY <2>1, <2>2, <2>5 DEF Closed
  <2>8. CopyLate(work[a])'
    <3>1. now \in Nat /\ since \in Nat /\ work[a].began \in Nat
      BY DEF TypeOK, Calls, Time, Window
    <3> QED BY <2>1, <2>2, <2>5, <3>1
  <2> QED BY <2>3, <2>6, <2>7, <2>8 DEF Safe
<1>9. ASSUME NEW a \in Workers, Refuse(a) \/ Die(a) PROVE Safe'
  BY <1>9, SafeDo DEF Refuse, Die, Finish
<1>10. ASSUME NEW a \in Workers, Expire(a) PROVE Safe'
  BY <1>10, SafeDo DEF Expire, Types
<1>11. ASSUME NEW a \in Workers, Accept(a) PROVE Safe'
  <2>1. CallSafe(work[a]) /\ work[a].op = "judge" /\ UNCHANGED <<now, row, cached, since>>
    BY <1>11 DEF Safe, Accept
  <2> QED BY <1>11, <2>1, SafeDo DEF Accept, Finish
<1>12. ASSUME NEW a \in Workers, Touch(a) PROVE Safe'
  <2>1. row'.type = row.type
    BY <1>12 DEF Touch, Row
  <2> QED BY <1>12, <2>1, SafeClose DEF Touch, Closed
<1>13. ASSUME NEW a \in Workers, Read(a) PROVE Safe'
  <2>1. CallSafe(work[a]) /\ work[a].op = "read" /\ UNCHANGED <<now, row, cached, since>>
    BY <1>13 DEF Safe, Read
  <2> QED BY <1>13, <2>1, SafeDo DEF Read
<1>14. ASSUME NEW a \in Workers, Write(a) PROVE Safe'
  <2>1. work[a].type \in Types
    BY <1>14 DEF Safe, Write
  <2>2. Closed'
    BY <1>14, <2>1 DEF Write, Row, Closed, Types, Open
  <2> QED BY <1>14, <2>2, SafeClose DEF Write
<1>15. ASSUME NEW a \in Workers, Uncache(a) PROVE Safe'
  BY <1>15, SafeClose DEF Uncache, Finish, Closed
<1> QED BY <1>1, <1>2, <1>3, <1>4, <1>5, <1>6, <1>7, <1>8, <1>9, <1>10, <1>11, <1>12, <1>13,
           <1>14, <1>15, Zenon DEF Next, Step, Act, Lose, vars

\* At the login nothing is cached and nobody works.
LEMMA InitSafe == Init => TypeOK /\ Safe
<1> SUFFICES ASSUME Init PROVE TypeOK /\ Safe
  OBVIOUS
<1>1. TypeOK
  <2>1. idled \in BOOLEAN /\ limited \in BOOLEAN /\ prompt \in BOOLEAN
    BY Zenon DEF Init
  <2> QED BY <2>1 DEF Init, TypeOK, Time, Window, Row, Off, Call, Calls, Ops, NoState, State, States, Open, Types
<1>2. Safe
  BY DEF Init, Safe, CachedSafe, CallSafe, CopyLate, DecidingOps, NoState, State, Closed, Row, Off, Call, Open
<1> QED BY <1>1, <1>2

LEMMA SafeAlways == Spec => [](TypeOK /\ Safe)
<1>1. TypeOK /\ Safe /\ [Next]_vars => (TypeOK /\ Safe)'
  BY TypeStep, SafeStep
<1> QED BY InitSafe, <1>1, PTL DEF Spec

\* The row, the cache, the calls and the clocks keep their types.
THEOREM SessionTypes == Spec => []TypeOK
  BY SafeAlways, PTL

\* A step of a session is a step of the abstract bounded-staleness read, or
\* changes nothing it sees.
LEMMA StepSimulation ==
  ASSUME TypeOK, Safe, [Next]_vars
  PROVE  [VR!Next]_<<IF Closed THEN 1 ELSE 0, [v \in 0..1 |-> IF v = 0 THEN since ELSE 0], judged>>
<1> DEFINE version == IF Closed THEN 1 ELSE 0
           age == [v \in 0..1 |-> IF v = 0 THEN since ELSE 0]
<1> SUFFICES [VR!Next]_<<version, age, judged>>
  OBVIOUS
<1>1. CASE UNCHANGED <<row, since, judged>>
  BY <1>1 DEF Closed
<1>2. ASSUME NEW v \in 0..1, v <= version, age[v] <= Window, judged' = v, UNCHANGED <<row, since>>
      PROVE VR!Next
  BY <1>2 DEF VR!Next, VR!Serve, VR!Versions, Closed
<1>3. CASE Tick
  <2>1. UNCHANGED <<row, judged>> /\ since' = IF Closed THEN VR!Aged(since) ELSE since
    BY <1>3 DEF Tick
  <2>2. version' = version
    BY <2>1 DEF Closed
  <2>3. age' = VR!Ages(version, age)
    BY <2>1 DEF VR!Ages, VR!Versions
  <2> QED BY <2>1, <2>2, <2>3 DEF VR!Next, VR!Elapse
<1>4. ASSUME NEW a \in Workers, Refuse(a) PROVE VR!Next
  <2>1. Closed /\ judged' = 1 /\ UNCHANGED <<row, since>>
    BY <1>4 DEF Refuse, Safe, CallSafe
  <2>2. version = 1 /\ age[1] = 0
    BY <2>1
  <2> QED BY <1>2, <2>1, <2>2 DEF TypeOK, Window
<1>5. ASSUME NEW a \in Workers, Accept(a) PROVE VR!Next
  <2>1. /\ work[a].op = "judge" /\ work[a].copy.seen = "open"
        /\ judged' = 0 /\ UNCHANGED <<row, since>>
    BY <1>5 DEF Accept
  <2>2. since + work[a].began <= now + TTL + Latency /\ now <= work[a].began + Latency
    BY <2>1 DEF Safe, CallSafe, CopyLate, DecidingOps
  <2>3. age[0] <= Window
    <3>1. now \in Nat /\ since \in Nat /\ work[a].began \in Nat /\ age[0] = since
      BY DEF TypeOK, Calls, Time, Window
    <3> HIDE DEF age
    <3> QED BY <2>2, <3>1 DEF Window
  <2> QED BY <1>2, <2>1, <2>3
<1>6. ASSUME NEW a \in Workers, Touch(a) PROVE UNCHANGED <<version, age, judged>>
  BY <1>6 DEF Touch, Row, Closed
<1>7. ASSUME NEW a \in Workers, Write(a) PROVE [VR!Next]_<<version, age, judged>>
  <2>1. UNCHANGED <<since, judged>> /\ row'.type \in Types
    BY <1>7 DEF Write, Row, Safe, CallSafe
  <2>2. Closed'
    BY <2>1 DEF Closed, Types, Open
  <2> QED BY <2>1, <2>2 DEF VR!Next, VR!Publish
<1>8. ASSUME NEW a \in Workers, Uncache(a) PROVE [VR!Next]_<<version, age, judged>>
  <2>1. UNCHANGED <<row, since>> /\ (judged' = judged \/ (judged' = 1 /\ Closed))
    BY <1>8 DEF Uncache, Safe, CallSafe
  <2>2. CASE judged' = judged
    BY <1>1, <2>1, <2>2
  <2>3. CASE judged' = 1 /\ Closed
    <3>1. version = 1 /\ age[1] = 0
      BY <2>3
    <3> QED BY <1>2, <2>1, <2>3, <3>1 DEF TypeOK, Window
  <2> QED BY <2>1, <2>2, <2>3
<1> HIDE DEF version, age
<1> QED BY <1>1, <1>3, <1>4, <1>5, <1>6, <1>7, <1>8 DEF Next, Step, Sweep, Act, Lose, Use,
           Heartbeat, Logout, SweepIdle, SweepExpired, Load, Put, Expire, Read, Die, vars

\* Whatever a slow validation puts back into the cache, no request is let in on
\* a session that ended more than TTL + 2 * Latency ago (validate_session), and
\* none opens it again.
THEOREM EndedIsRefused == Spec => EndedSessionRefused
<1>1. Init => VR!Init
  BY DEF Init, VR!Init, VR!Versions, Closed, Row, Open
<1> QED BY <1>1, SafeAlways, StepSimulation, PTL DEF Spec, EndedSessionRefused, VR!Spec

-------------------------------------------------------------------------------
(* A user who keeps working.                                               *)

Late == Delay + Latency

\* A heartbeat on its way: in the network, or being decided and recorded
Beating(a) == work[a].op \in DecidingOps /\ work[a].kind = "beat"
Pending(x) == x \in sent \/ \E a \in Workers : Beating(a) /\ work[a].stamp = x

BeatsYoung ==
    /\ \A x \in sent : x <= now /\ now <= x + Delay
    /\ \A a \in Workers :
          Beating(a) => work[a].stamp <= work[a].began /\ work[a].began <= work[a].stamp + Delay

\* Every moment is soon after an activity that is recorded or on its way
Covered(w) == (\E x \in Time : Pending(x) /\ x <= w /\ w < x + Idle) \/ w < row.last + Late + Idle

RowYoung ==
    ~Closed => /\ Pending(active) \/ active <= row.last + Late
               /\ \A w \in 0..now : Covered(w)

\* A copy held open was no older, when it was taken, than a row may be
CopyYoung(c) ==
    c.copy.seen = "open" =>
        /\ c.op = "put" => c.began <= c.copy.last + Idle + 2 * Late
        /\ c.op = "judge" => c.began <= c.copy.last + Idle + 2 * Late + Latency + TTL

CopiesYoung ==
    /\ cached.seen = "open" => cached.loaded <= cached.last + Idle + 2 * Late + Latency
    /\ \A a \in Workers : CopyYoung(work[a])

NoIdleVerdict ==
    /\ row.type # "idle_timeout"
    /\ \A a \in Workers : work[a].type # "idle_timeout"

Busy == now < active + Idle /\ BeatsYoung /\ RowYoung /\ CopiesYoung /\ NoIdleVerdict

\* A user who was idle once stays so: a busy one was busy before.
LEMMA StillBusy ==
  ASSUME [Next]_vars, prompt', ~idled'
  PROVE  prompt /\ ~idled
<1>1. CASE Tick
  BY <1>1, Zenon DEF Tick
<1>2. CASE UNCHANGED <<idled, prompt>>
  BY <1>2
<1> QED BY <1>1, <1>2 DEF Next, Step, Sweep, Act, Lose, Use, Heartbeat, Logout, SweepIdle,
     SweepExpired, Load, Put, Refuse, Expire, Accept, Touch, Read, Write, Uncache, Die, vars

LEMMA LateNat == Late \in Nat /\ Idle + Grace >= Idle + 2 * Late + Latency + TTL
  BY GraceCovers DEF Late

\* A heartbeat on its way is at most Delay + Latency old.
LEMMA PendingYoung ==
  ASSUME TypeOK, Safe, BeatsYoung, NEW x \in Time, Pending(x)
  PROVE  x <= now /\ now <= x + Late
<1>1. CASE x \in sent
  BY <1>1 DEF BeatsYoung, TypeOK, Time, Late
<1>2. ASSUME NEW a \in Workers, Beating(a), work[a].stamp = x PROVE x <= now /\ now <= x + Late
  <2>1. work[a].began <= now /\ now <= work[a].began + Latency
    BY <1>2 DEF Safe, CallSafe, Beating
  <2>2. x <= work[a].began /\ work[a].began <= x + Delay
    BY <1>2 DEF BeatsYoung
  <2>3. work[a].began \in Nat /\ now \in Nat /\ x \in Nat
    BY DEF TypeOK, Calls, Time
  <2> QED BY <2>1, <2>2, <2>3 DEF Late
<1> QED BY <1>1, <1>2 DEF Pending

\* An open row's last activity is not far back.
LEMMA RowIsYoung ==
  ASSUME TypeOK, Safe, BeatsYoung, RowYoung, ~Closed
  PROVE  now <= row.last + Idle + 2 * Late
<1>1. now \in Nat /\ row.last \in Nat /\ now \in Time
  BY DEF TypeOK, Time
<1> DEFINE w == row.last + Idle + Late
<1>2. CASE w <= now
  <2>1. w \in 0..now
    BY <1>1, <1>2, LateNat
  <2>2. Covered(w)
    BY <2>1 DEF RowYoung
  <2>3. PICK x \in Time : Pending(x) /\ x <= w
    BY <1>1, <2>2, LateNat DEF Covered
  <2>4. now <= x + Late
    BY <2>3, PendingYoung
  <2> QED BY <1>1, <2>3, <2>4, LateNat DEF Time
<1>3. CASE ~(w <= now)
  BY <1>1, <1>3, LateNat
<1> QED BY <1>2, <1>3

\* A user who has not been idle did something less than Idle ago.
LEMMA ActiveStep ==
  ASSUME TypeOK, prompt, ~idled, ~idled', now < active + Idle, [Next]_vars
  PROVE  now' < active' + Idle
<1>1. now \in Nat /\ active \in Nat
  BY DEF TypeOK, Time
<1>2. CASE Tick
  <2>1. now' = now + 1 /\ active' = active
    BY <1>2 DEF Tick
  <2>2. ~(now + 1 - active >= Idle)
    BY <1>2, Zenon DEF Tick
  <2> QED BY <1>1, <2>1, <2>2
<1>3. ASSUME NEW x \in {now, Horizon}, Act(x) PROVE now' < active' + Idle
  BY <1>1, <1>3 DEF Act
<1>4. CASE UNCHANGED <<now, active>>
  BY <1>4
<1> QED BY <1>2, <1>3, <1>4 DEF Next, Step, Sweep, Lose, Use, Heartbeat, Logout, SweepIdle,
     SweepExpired, Load, Put, Refuse, Expire, Accept, Touch, Read, Write, Uncache, Die, vars

\* A step of a worker other than taking up a heartbeat
Working(a) ==
    \/ Use(a) \/ Sweep(a) \/ Step(a) \/ Die(a)
    \/ \E reason \in {"manual", "idle_timeout"} : Logout(a, reason)

\* The call and the report it brings are the same as before
SameBeat(a) == work'[a].stamp = work[a].stamp /\ work'[a].began = work[a].began

\* Once taken up, a heartbeat keeps its time, and the other workers theirs.
LEMMA WorkStep ==
  ASSUME TypeOK, NEW a \in Workers, Working(a)
  PROVE  /\ UNCHANGED <<now, sent>>
         /\ \A b \in Workers : b # a => work'[b] = work[b]
         /\ Beating(a)' => Beating(a) /\ SameBeat(a)
<1> DEFINE Goal == /\ UNCHANGED <<now, sent>>
                   /\ \A b \in Workers : b # a => work'[b] = work[b]
                   /\ Beating(a)' => Beating(a) /\ SameBeat(a)
<1> SUFFICES Goal
  OBVIOUS
<1> USE DEF TypeOK, Do, Finish, Beating, SameBeat, DecidingOps, Validating, Closing, Off, Call
<1>1. CASE Use(a)
  BY <1>1 DEF Use, Validate
<1>2. CASE Sweep(a)
  BY <1>2 DEF Sweep, SweepIdle, SweepExpired
<1>3. CASE Load(a)
  BY <1>3 DEF Load
<1>4. CASE Put(a)
  BY <1>4 DEF Put
<1>5. CASE Refuse(a)
  BY <1>5 DEF Refuse
<1>6. CASE Expire(a)
  BY <1>6 DEF Expire
<1>7. CASE Accept(a)
  BY <1>7 DEF Accept
<1>8. CASE Touch(a)
  BY <1>8 DEF Touch
<1>9. CASE Read(a)
  BY <1>9 DEF Read
<1>10. CASE Write(a)
  BY <1>10 DEF Write
<1>11. CASE Uncache(a)
  BY <1>11 DEF Uncache
<1>12. CASE Die(a)
  BY <1>12 DEF Die
<1>13. ASSUME NEW reason \in {"manual", "idle_timeout"}, Logout(a, reason) PROVE Goal
  BY <1>13 DEF Logout
<1> HIDE DEF Goal
<1> QED BY <1>1, <1>2, <1>3, <1>4, <1>5, <1>6, <1>7, <1>8, <1>9, <1>10, <1>11, <1>12, <1>13,
           Zenon DEF Working, Step

\* A prompt browser's heartbeats are sent at once, arrive within Delay and are
\* decided from then on.
LEMMA BeatsStep ==
  ASSUME TypeOK, Safe, prompt, BeatsYoung, [Next]_vars
  PROVE  BeatsYoung'
<1> USE DEF BeatsYoung
<1>1. ASSUME NEW x \in {now, Horizon}, Act(x) PROVE BeatsYoung'
  BY <1>1 DEF Act, TypeOK, Time, Beating
<1>2. CASE Tick
  BY <1>2 DEF Tick, TypeOK, Time, Beating
<1>3. ASSUME NEW a \in Workers, NEW x \in sent, Heartbeat(a, x) PROVE BeatsYoung'
  <2>1. /\ work'[a].stamp = x /\ work'[a].began = now
        /\ \A b \in Workers : b # a => work'[b] = work[b]
    BY <1>3 DEF Heartbeat, Validate, Do, TypeOK, Validating, Call
  <2>2. sent' \subseteq sent /\ now' = now
    BY <1>3 DEF Heartbeat
  <2>3. x <= now /\ now <= x + Delay
    OBVIOUS
  <2> QED BY <2>1, <2>2, <2>3 DEF Beating
<1>4. ASSUME NEW a \in Workers, Working(a) PROVE BeatsYoung'
  BY <1>4, WorkStep DEF SameBeat, Beating
<1>5. CASE UNCHANGED vars
  BY <1>5 DEF vars, Beating
<1>6. ASSUME NEW x \in sent, Lose(x) PROVE BeatsYoung'
  BY <1>6 DEF Lose
<1> QED BY <1>1, <1>2, <1>3, <1>4, <1>5, <1>6, Zenon DEF Next, Working

\* Copies are taken of a row that is young, and are used soon.
LEMMA CopiesStep ==
  ASSUME TypeOK, Safe, BeatsYoung, RowYoung, CopiesYoung, [Next]_vars
  PROVE  CopiesYoung'
<1> USE LateNat DEF CopyYoung
<1>0. now \in Nat /\ \A a \in Workers : work[a].began \in Nat /\ work[a].copy.last \in Nat
  BY DEF TypeOK, Time, Calls, States
<1>1. CASE UNCHANGED work /\ cached' \in {cached, NoState}
  BY <1>1 DEF CopiesYoung, NoState, State
<1>2. ASSUME NEW a \in Workers, NEW c, Do(a, c), cached' \in {cached, NoState}, CopyYoung(c)
      PROVE CopiesYoung'
  BY <1>2, DoStep DEF CopiesYoung, NoState, State
<1>3. ASSUME NEW a \in Workers, NEW kind, NEW stamp, Validate(a, kind, stamp), UNCHANGED cached
      PROVE CopiesYoung'
  <2>1. CASE Fresh(cached, now)
    <3>1. Do(a, Validating("judge", kind, now, stamp, State(cached.seen, cached.last, 0)))
      BY <1>3, <2>1 DEF Validate
    <3>2. cached.loaded \in Nat /\ cached.last \in Nat
      BY DEF TypeOK, States, Time
    <3>3. cached.seen = "open" => now <= cached.last + Idle + 2 * Late + Latency + TTL
      BY <1>0, <2>1, <3>2 DEF Fresh, CopiesYoung
    <3> QED BY <1>2, <1>3, <3>1, <3>3 DEF Validating, Call, State
  <2>2. CASE ~Fresh(cached, now)
    BY <1>2, <1>3, <2>2 DEF Validate, Validating, Call, NoState, State
  <2> QED BY <2>1, <2>2
<1>4. ASSUME NEW a \in Workers, Load(a) PROVE CopiesYoung'
  <2>1. work[a].began <= now
    BY <1>4 DEF Load, Safe, CallSafe, DecidingOps
  <2>2. InRow.seen = "open" => now <= InRow.last + Idle + 2 * Late
    BY RowIsYoung DEF InRow, State
  <2>3. InRow.last \in Nat
    BY DEF InRow, State, TypeOK, Time
  <2>4. InRow.seen = "open" => work[a].began <= InRow.last + Idle + 2 * Late
    BY <1>0, <2>1, <2>2, <2>3
  <2> QED BY <1>2, <1>4, <2>4 DEF Load, Validating, Call
<1>5. ASSUME NEW a \in Workers, Put(a) PROVE CopiesYoung'
  <2> DEFINE c == work[a]
  <2>1. c.op = "put" /\ now <= c.began + Latency
    BY <1>5 DEF Put, Safe, CallSafe, DecidingOps
  <2>2. c.copy.seen = "open" => c.began <= c.copy.last + Idle + 2 * Late
    BY <2>1 DEF CopiesYoung
  <2>3. Do(a, Validating("judge", c.kind, c.began, c.stamp, c.copy))
        /\ cached' = State(c.copy.seen, c.copy.last, now)
    BY <1>5 DEF Put
  <2>4. /\ work'[a].op = "judge" /\ work'[a].copy = c.copy /\ work'[a].began = c.began
        /\ \A b \in Workers : b # a => work'[b] = work[b]
    BY <2>3, DoStep DEF Validating, Call
  <2>5. cached'.seen = "open" => cached'.loaded <= cached'.last + Idle + 2 * Late + Latency
    BY <1>0, <2>1, <2>2, <2>3 DEF State
  <2>6. c.copy.seen = "open" => c.began <= c.copy.last + Idle + 2 * Late + Latency + TTL
    BY <1>0, <2>2
  <2> QED BY <2>4, <2>5, <2>6 DEF CopiesYoung
<1>6. ASSUME NEW a \in Workers, NEW c, Do(a, c), c.copy = NoState, cached' \in {cached, NoState}
      PROVE CopiesYoung'
  BY <1>2, <1>6 DEF NoState, State
<1>7. ASSUME NEW a \in Workers, Use(a) PROVE CopiesYoung'
  BY <1>3, <1>7 DEF Use
<1>8. ASSUME NEW a \in Workers, NEW x \in sent, Heartbeat(a, x) PROVE CopiesYoung'
  BY <1>3, <1>8 DEF Heartbeat
<1>9. ASSUME NEW a \in Workers, NEW reason \in {"manual", "idle_timeout"}, Logout(a, reason)
      PROVE CopiesYoung'
  BY <1>6, <1>9 DEF Logout, Closing, Call
<1>10. ASSUME NEW a \in Workers, Sweep(a) PROVE CopiesYoung'
  BY <1>6, <1>10 DEF Sweep, SweepIdle, SweepExpired, Closing, Call
<1>11. ASSUME NEW a \in Workers, Refuse(a) \/ Expire(a) \/ Accept(a) PROVE CopiesYoung'
  BY <1>6, <1>11 DEF Refuse, Expire, Accept, Finish, Off, Closing, Validating, Call
<1>12. ASSUME NEW a \in Workers, Touch(a) \/ Read(a) \/ Write(a) \/ Uncache(a) \/ Die(a)
       PROVE CopiesYoung'
  BY <1>6, <1>12 DEF Touch, Read, Write, Uncache, Die, Finish, Off, Closing, Call
<1> QED BY <1>1, <1>4, <1>5, <1>7, <1>8, <1>9, <1>10, <1>11, <1>12, Zenon
       DEF Next, Step, Act, Tick, Lose, vars

\* validate_session finds no copy of a young row too old.
LEMMA NoExpiry == ASSUME TypeOK, CopiesYoung, NEW a \in Workers, Expire(a) PROVE FALSE
<1>1. /\ work[a].op = "judge" /\ work[a].copy.seen = "open"
      /\ work[a].began > work[a].copy.last + Idle + Grace
  BY DEF Expire, IdleTooLong
<1>2. work[a].began <= work[a].copy.last + Idle + 2 * Late + Latency + TTL
  BY <1>1 DEF CopiesYoung, CopyYoung
<1>3. work[a].began \in Nat /\ work[a].copy.last \in Nat
  BY DEF TypeOK, Calls, States, Time
<1> QED BY <1>1, <1>2, <1>3, LateNat

\* Nobody finds a busy user idle.
LEMMA VerdictStep ==
  ASSUME TypeOK, Safe, prompt, Busy, [Next]_vars
  PROVE  NoIdleVerdict'
<1> USE LateNat DEF Busy
<1>0. now \in Nat /\ active \in Nat /\ row.last \in Nat
  BY DEF TypeOK, Time
<1>1. ASSUME NEW a \in Workers, NEW c, Do(a, c), UNCHANGED row, c.type # "idle_timeout"
      PROVE NoIdleVerdict'
  BY <1>1, DoStep DEF NoIdleVerdict
<1>2. ASSUME NEW a \in Workers, Expire(a) PROVE FALSE
  BY <1>2, NoExpiry
<1>3. ASSUME NEW a \in Workers, SweepIdle(a) PROVE FALSE
  <2>1. ~Closed /\ row.last + Idle + Grace < now
    BY <1>3 DEF SweepIdle, IdleDue, Deadline
  <2>2. now <= row.last + Idle + 2 * Late
    BY <2>1, RowIsYoung
  <2> QED BY <1>0, <2>1, <2>2
<1>4. ASSUME NEW a \in Workers, NEW reason \in {"manual", "idle_timeout"}, Logout(a, reason)
      PROVE NoIdleVerdict'
  <2>1. reason # "idle_timeout"
    BY <1>0, <1>4 DEF Logout
  <2> QED BY <1>1, <1>4, <2>1 DEF Logout, Closing, Call
<1>5. ASSUME NEW a \in Workers, SweepExpired(a) PROVE NoIdleVerdict'
  BY <1>1, <1>5 DEF SweepExpired, Closing, Call
<1>6. ASSUME NEW a \in Workers, NEW x \in sent, Use(a) \/ Heartbeat(a, x) PROVE NoIdleVerdict'
  BY <1>1, <1>6 DEF Use, Heartbeat, Validate, Validating, Call, Open
<1>7. ASSUME NEW a \in Workers, Use(a) PROVE NoIdleVerdict'
  BY <1>1, <1>7 DEF Use, Validate, Validating, Call, Open
<1>8. ASSUME NEW a \in Workers, Load(a) \/ Put(a) \/ Accept(a) PROVE NoIdleVerdict'
  BY <1>1, <1>8 DEF Load, Put, Accept, Finish, Off, Validating, Call, Open
<1>9. ASSUME NEW a \in Workers, Refuse(a) \/ Uncache(a) \/ Die(a) PROVE NoIdleVerdict'
  BY <1>1, <1>9 DEF Refuse, Uncache, Die, Finish, Off, Call, Open
<1>10. ASSUME NEW a \in Workers, Touch(a) PROVE NoIdleVerdict'
  <2>1. row'.type = row.type /\ Do(a, Closing("uncache", "beat", Open))
    BY <1>10 DEF Touch, Row
  <2> QED BY <2>1, DoStep DEF NoIdleVerdict, Closing, Call, Open
<1>11. ASSUME NEW a \in Workers, Read(a) PROVE NoIdleVerdict'
  <2>1. work[a].type # "idle_timeout"
    BY DEF NoIdleVerdict
  <2> QED BY <1>1, <1>11, <2>1 DEF Read, Closing, Call
<1>12. ASSUME NEW a \in Workers, Write(a) PROVE NoIdleVerdict'
  <2>1. work[a].type # "idle_timeout"
    BY DEF NoIdleVerdict
  <2>2. row'.type = work[a].type /\ Do(a, Closing("uncache", work[a].kind, work[a].type))
    BY <1>12 DEF Write, Row
  <2> QED BY <2>1, <2>2, DoStep DEF NoIdleVerdict, Closing, Call
<1>13. CASE UNCHANGED <<row, work>>
  BY <1>13 DEF NoIdleVerdict
<1> QED BY <1>2, <1>3, <1>4, <1>5, <1>6, <1>7, <1>8, <1>9, <1>10, <1>11, <1>12, <1>13
       DEF Next, Step, Sweep, Act, Tick, Lose, vars

\* Until the row is closed each moment is soon after an activity that is
\* recorded, or will be.
LEMMA RowStep ==
  ASSUME TypeOK, Safe, prompt, ~idled, ~idled', Busy, [Next]_vars
  PROVE  RowYoung'
<1> USE LateNat DEF Busy
<1>0. /\ now \in Nat /\ active \in Nat /\ row.last \in Nat /\ active <= now
      /\ \A a \in Workers : work[a].stamp \in Time /\ work[a].began \in Nat
  BY DEF TypeOK, Time, Calls
<1>1. ASSUME \A x \in Time : Pending(x) => Pending(x)', row' = row, now' = now,
             active' = active \/ Pending(active)'
      PROVE RowYoung'
  <2> SUFFICES ASSUME ~Closed' PROVE RowYoung'
    BY DEF RowYoung
  <2>1. ~Closed /\ active \in Time
    BY <1>1 DEF Closed, TypeOK, Time
  <2>2. (Pending(active) \/ active <= row.last + Late)'
    BY <1>1, <2>1 DEF RowYoung
  <2>3. ASSUME NEW w \in 0..now PROVE Covered(w)'
    <3>1. Covered(w)
      BY <2>1 DEF RowYoung
    <3> QED BY <1>1, <3>1 DEF Covered
  <2> QED BY <1>1, <2>2, <2>3 DEF RowYoung
<1>2. ASSUME NEW x \in {now, Horizon}, Act(x) PROVE RowYoung'
  BY <1>1, <1>2 DEF Act, Pending, Beating
<1>3. CASE Tick
  <2> SUFFICES ASSUME ~Closed' PROVE RowYoung'
    BY DEF RowYoung
  <2>1. now' = now + 1 /\ UNCHANGED <<row, work, sent, active>>
    BY <1>3 DEF Tick
  <2>2. ~Closed /\ \A x : Pending(x)' <=> Pending(x)
    BY <2>1 DEF Closed, Pending, Beating
  <2>3. (Pending(active) \/ active <= row.last + Late)'
    BY <2>1, <2>2 DEF RowYoung
  <2>4. now + 1 < active + Idle
    BY <2>1, ActiveStep
  <2>5. ASSUME NEW w \in 0..now PROVE Covered(w)'
    BY <2>1, <2>2 DEF RowYoung, Covered
  <2>6. Covered(now)'
    <3>1. CASE Pending(active)
      <4>1. active \in Time
        BY DEF TypeOK, Time
      <4> QED BY <1>0, <2>1, <2>2, <2>4, <3>1, <4>1 DEF Covered
    <3>2. CASE active <= row.last + Late
      BY <1>0, <2>1, <2>4, <3>2 DEF Covered
    <3> QED BY <2>2, <3>1, <3>2 DEF RowYoung
  <2>7. \A w \in 0..now' : w \in 0..now \/ w = now'
    BY <1>0, <2>1
  <2> QED BY <2>3, <2>5, <2>6, <2>7 DEF RowYoung
<1>4. ASSUME NEW a \in Workers, NEW x \in sent, Heartbeat(a, x) PROVE RowYoung'
  <2>1. /\ work'[a].stamp = x /\ Beating(a)'
        /\ \A b \in Workers : b # a => work'[b] = work[b]
    BY <1>4 DEF Heartbeat, Validate, Do, TypeOK, Validating, Call, Beating, DecidingOps
  <2>2. ~Beating(a) /\ sent' = sent \ {x} /\ UNCHANGED <<now, row, active>>
    BY <1>4 DEF Heartbeat, Beating, DecidingOps
  <2>3. ASSUME NEW y \in Time, Pending(y) PROVE Pending(y)'
    BY <2>1, <2>2, <2>3 DEF Pending, Beating
  <2> QED BY <1>1, <2>2, <2>3
<1>5. ASSUME NEW a \in Workers, Working(a), row' = row, active' = active,
             Beating(a) => Beating(a)' /\ SameBeat(a)
      PROVE RowYoung'
  <2>1. ASSUME NEW y \in Time, Pending(y) PROVE Pending(y)'
    BY <1>5, <2>1, WorkStep DEF Pending, Beating, SameBeat
  <2> QED BY <1>1, <1>5, <2>1, WorkStep
<1>6. ASSUME NEW a \in Workers, Use(a) \/ Sweep(a) \/ Read(a) \/ Uncache(a) PROVE RowYoung'
  BY <1>5, <1>6 DEF Working, Step, Use, Sweep, SweepIdle, SweepExpired, Read, Uncache, Beating, DecidingOps
<1>7. ASSUME NEW a \in Workers, NEW reason \in {"manual", "idle_timeout"}, Logout(a, reason)
      PROVE RowYoung'
  BY <1>5, <1>7 DEF Working, Logout, Beating, DecidingOps
<1>8. ASSUME NEW a \in Workers, Load(a) PROVE RowYoung'
  <2>1. work'[a] = Validating("put", work[a].kind, work[a].began, work[a].stamp, InRow)
    BY <1>8, DoStep DEF Load
  <2> QED BY <1>5, <1>8, <2>1 DEF Working, Step, Load, Beating, SameBeat, DecidingOps, Validating, Call
<1>9. ASSUME NEW a \in Workers, Put(a) PROVE RowYoung'
  <2>1. work'[a] = Validating("judge", work[a].kind, work[a].began, work[a].stamp, work[a].copy)
    BY <1>9, DoStep DEF Put
  <2> QED BY <1>5, <1>9, <2>1 DEF Working, Step, Put, Beating, SameBeat, DecidingOps, Validating, Call
<1>10. ASSUME NEW a \in Workers, Refuse(a) PROVE RowYoung'
  <2>1. Closed /\ row' = row
    BY <1>10 DEF Refuse, Safe, CallSafe
  <2> QED BY <2>1 DEF RowYoung, Closed
<1>11. ASSUME NEW a \in Workers, Accept(a) PROVE RowYoung'
  <2>1. work[a].kind = "beat" =>
          work'[a] = Validating("touch", "beat", work[a].began, work[a].stamp, NoState)
    BY <1>11, DoStep DEF Accept
  <2> QED BY <1>5, <1>11, <2>1 DEF Working, Step, Accept, Beating, SameBeat, DecidingOps, Validating, Call
<1>12. ASSUME NEW a \in Workers, Touch(a) PROVE RowYoung'
  <2> SUFFICES ASSUME ~Closed' PROVE RowYoung'
    BY DEF RowYoung
  <2> DEFINE x == work[a].stamp
  <2>1. Beating(a) /\ x \in Time /\ x \in Nat
    BY <1>0, <1>12 DEF Touch, Safe, CallSafe, Beating, DecidingOps, Time
  <2>2. Pending(x)
    BY <2>1 DEF Pending
  <2>3. x <= now /\ now <= x + Late
    BY <2>1, <2>2, PendingYoung
  <2>4. UNCHANGED <<now, active>> /\ row'.last = x
    BY <1>0, <1>12, <2>1, <2>3 DEF Touch, Closed, Row, Reported
  <2>5. (Pending(active) \/ active <= row.last + Late)'
    BY <1>0, <2>1, <2>3, <2>4
  <2>6. ASSUME NEW w \in 0..now PROVE Covered(w)'
    <3>1. w < x + Late + Idle
      BY <1>0, <2>1, <2>3, SessionConstants
    <3> QED BY <2>4, <3>1 DEF Covered
  <2> QED BY <2>4, <2>5, <2>6 DEF RowYoung
<1>13. ASSUME NEW a \in Workers, Write(a) PROVE RowYoung'
  <2>1. work[a].type \in Types
    BY <1>13 DEF Safe, CallSafe, Write
  <2> QED BY <1>13, <2>1 DEF Write, Row, RowYoung, Closed, Types, Open
<1>14. ASSUME NEW a \in Workers, Die(a) PROVE RowYoung'
  BY <1>5, <1>14 DEF Working, Die, Beating
<1>15. ASSUME NEW a \in Workers, Expire(a) PROVE RowYoung'
  BY <1>15, NoExpiry
<1>16. CASE UNCHANGED vars
  BY <1>1, <1>16 DEF vars, Pending, Beating
<1> QED BY <1>2, <1>3, <1>4, <1>6, <1>7, <1>8, <1>9, <1>10, <1>11, <1>12, <1>13, <1>14, <1>15,
           <1>16 DEF Next, Step, Lose

\* The user's first activity is the login.
LEMMA InitBusy == Init => Busy
<1> SUFFICES ASSUME Init PROVE Busy
  OBVIOUS
<1>1. now = 0 /\ active = 0 /\ sent = {} /\ row = Row(Open, 0) /\ cached = NoState
      /\ \A a \in Workers : work[a] = Off
  BY DEF Init
<1>2. RowYoung
  BY <1>1, LateNat DEF RowYoung, Covered, Row
<1> QED BY <1>1, <1>2 DEF Busy, BeatsYoung, Beating, DecidingOps, CopiesYoung, CopyYoung,
       NoIdleVerdict, NoState, State, Row, Off, Call, Open

\* A user of a prompt browser who never stops for Idle is not logged out as
\* idle, by validate_session or by the sweep, whatever stale state they decide
\* on and in whatever order the heartbeats arrive (_IDLE_GRACE_SECONDS).
THEOREM NeverIdle == Spec => []NeverIdledOut
<1> DEFINE J == prompt /\ ~idled => Busy
<1>1. Init => J
  BY InitBusy
<1>2. TypeOK /\ Safe /\ J /\ [Next]_vars => J'
  <2> SUFFICES ASSUME TypeOK, Safe, J, [Next]_vars, prompt', ~idled' PROVE Busy'
    OBVIOUS
  <2>1. prompt /\ ~idled /\ Busy
    BY StillBusy
  <2>2. now < active + Idle /\ BeatsYoung /\ RowYoung /\ CopiesYoung
    BY <2>1 DEF Busy
  <2> HIDE DEF J
  <2> QED BY <2>1, <2>2, ActiveStep, BeatsStep, CopiesStep, VerdictStep, RowStep DEF Busy
<1>3. J => NeverIdledOut
  BY DEF Busy, NoIdleVerdict, NeverIdledOut
<1> HIDE DEF J
<1> QED BY SafeAlways, <1>1, <1>2, <1>3, PTL DEF Spec

=============================================================================
