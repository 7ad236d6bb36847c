------------------------- MODULE ResponseCacheProofs -------------------------
(* What ResponseCache keeps for any number of lists, rows, workers and     *)
(* writes: the bound on the age of what is served, and the refinement.     *)
EXTENDS ResponseCache, TLAPS

\* The version the table holds, and those to come, have never been overwritten
CurrentIsYoung == \A v \in Versions : v >= db => age[v] = 0

\* A reader in the middle of a GET has something it was asked for
AskKnown == \A p \in Readers : reader[p].op # "idle" => reader[p].ask \in Asks

IInv == TypeOK /\ AskKnown /\ CurrentIsYoung /\ EntryFresh

\* A key is one of the two scopes' keys whatever a request asks for: a
\* retrieve's is the shared detail key (build_cache_key).
LEMMA KeyType == \A ask \in Asks : Key(ask) \in Keys
  BY DEF Asks, Keys, Key

\* A step of a reader, a writer or the clock leaves every variable in its type.
LEMMA TypeStep == ASSUME TypeOK, AskKnown, [Next]_vars PROVE TypeOK'
<1> USE CacheConstants DEF TypeOK, Reading, Later, Writing, Versions, Scopes
<1>1. ASSUME NEW p \in Readers, NEW ask \in Asks, Hit(p, ask) PROVE TypeOK'
  BY <1>1, KeyType DEF Hit, Answer
<1>2. ASSUME NEW p \in Readers, NEW ask \in Asks, Miss(p, ask) PROVE TypeOK'
  BY <1>2 DEF Miss, ReaderOps
<1>3. ASSUME NEW p \in Readers, Query(p) PROVE TypeOK'
  BY <1>3 DEF Query, ReaderOps
<1>4. ASSUME NEW p \in Readers, Store(p) PROVE TypeOK'
  <2>1. reader' \in [Readers -> [op : ReaderOps, ask : Asks \cup {NoAsk}, version : Versions,
                               keys : SUBSET Keys, wait : 0..Latency]]
    BY <1>4 DEF Store, ReaderOps
  <2>2. Stored(reader[p].ask, reader[p].version)
          \in [about : Asks \cup {NoAsk}, version : Versions, left : 0..TTL]
    BY <1>4 DEF Stored
  <2>3. entry' \in [Keys -> [about : Asks \cup {NoAsk}, version : Versions, left : 0..TTL]]
    BY <1>4, <2>2 DEF Store
  <2> QED BY <1>4, <2>1, <2>3 DEF Store
<1>5. ASSUME NEW p \in Readers, ReadIndex(p) PROVE TypeOK'
  <2>1. Scope(Key(reader[p].ask)) \in Scopes
    BY DEF Scope, Scopes
  <2>2. reader[p] \in [op : ReaderOps, ask : Asks \cup {NoAsk}, version : Versions,
                        keys : SUBSET Keys, wait : 0..Latency]
    OBVIOUS
  <2>3. \A keys \in SUBSET Keys : Later("track", reader[p], keys) \in
          [op : ReaderOps, ask : Asks \cup {NoAsk}, version : Versions,
           keys : SUBSET Keys, wait : 0..Latency]
    BY <2>2 DEF ReaderOps
  <2> QED BY <1>5, <2>1, <2>3 DEF ReadIndex, Read
<1>6. ASSUME NEW p \in Readers, Track(p) PROVE TypeOK'
  <2> DEFINE k == Key(reader[p].ask)
  <2>1. ReaderOff \in [op : ReaderOps, ask : Asks \cup {NoAsk}, version : Versions,
                       keys : SUBSET Keys, wait : 0..Latency]
    BY DEF ReaderOff, ReaderOps, Versions
  <2>2. k \in Keys
    BY <1>6, KeyType DEF Track, AskKnown
  <2>3. answer' \in [asked : Asks \cup {NoAsk}, about : Asks \cup {NoAsk}, version : Versions]
    BY <1>6 DEF Track, Answer
  <2>4. index' \in [Scopes -> SUBSET Keys]
    <3>1. reader[p].keys \cup {k} \in SUBSET Keys
      BY <2>2
    <3> HIDE DEF k
    <3> QED BY <1>6, <3>1 DEF Track, k
  <2> QED BY <1>6, <2>1, <2>3, <2>4 DEF Track
<1>7. ASSUME NEW w \in Writers, Commit(w) PROVE TypeOK'
  BY <1>7 DEF Commit, WriterOps, Versions
<1>8. ASSUME NEW w \in Writers, GetIndex(w) PROVE TypeOK'
  BY <1>8 DEF GetIndex, Read, WriterOps
<1>9. ASSUME NEW w \in Writers, DeleteKeys(w) PROVE TypeOK'
  BY <1>9 DEF DeleteKeys, WriterOps, NoEntry, Versions
<1>10. ASSUME NEW w \in Writers, DropIndex(w) PROVE TypeOK'
  BY <1>10 DEF DropIndex, WriterOps, WriterOff, Scopes
<1>11. ASSUME NEW w \in Writers, Crash(w) PROVE TypeOK'
  BY <1>11 DEF Crash, WriterOps, WriterOff, Scopes
<1>14. CASE CommitElsewhere
  BY <1>14 DEF CommitElsewhere, Versions
<1>12. CASE Tick
  <2>1. age' \in [Versions -> 0..(Window + 1)]
    BY <1>12 DEF Tick, VR!Ages, VR!Aged, VR!Versions, Versions, Window
  <2>2. entry' \in [Keys -> [about : Asks \cup {NoAsk}, version : Versions, left : 0..TTL]]
    BY <1>12 DEF Tick, Expire, NoEntry, Versions
  <2>3. reader' \in [Readers -> [op : ReaderOps, ask : Asks \cup {NoAsk}, version : Versions,
                               keys : SUBSET Keys, wait : 0..Latency]]
    <3> SUFFICES ASSUME NEW p \in Readers
                 PROVE reader'[p] \in [op : ReaderOps, ask : Asks \cup {NoAsk},
                        version : Versions, keys : SUBSET Keys, wait : 0..Latency]
      BY <1>12 DEF Tick
    <3>1. CASE HoldsRow(p)
      BY <1>12, <3>1 DEF Tick, Older
    <3>2. CASE ~HoldsRow(p)
      BY <1>12, <3>2 DEF Tick
    <3> QED BY <3>1, <3>2
  <2> QED BY <1>12, <2>1, <2>2, <2>3 DEF Tick
<1>13. CASE UNCHANGED vars
  BY <1>13 DEF vars
<1> QED
  BY <1>1, <1>2, <1>3, <1>4, <1>5, <1>6, <1>7, <1>8, <1>9, <1>10, <1>11, <1>12, <1>13, <1>14
  DEF Next, ReaderStep, WriterStep

\* Only a request that was made is answered.
LEMMA AskStep == ASSUME TypeOK, AskKnown, [Next]_vars PROVE AskKnown'
<1> USE DEF TypeOK, AskKnown, Reading, Later
<1>1. CASE UNCHANGED reader
  BY <1>1
<1>2. ASSUME NEW p \in Readers, NEW ask \in Asks, Miss(p, ask) PROVE AskKnown'
  BY <1>2 DEF Miss
<1>3. ASSUME NEW p \in Readers, ReaderStep(p) PROVE AskKnown'
  <2>1. CASE Query(p)
    BY <2>1 DEF Query
  <2>2. CASE Store(p)
    BY <2>2 DEF Store
  <2>3. CASE ReadIndex(p)
    BY <2>3 DEF ReadIndex
  <2>4. CASE Track(p)
    BY <2>4 DEF Track, ReaderOff
  <2> QED BY <1>3, <2>1, <2>2, <2>3, <2>4 DEF ReaderStep
<1>4. CASE Tick
  BY <1>4 DEF Tick, Older
<1> QED
  BY <1>1, <1>2, <1>3, <1>4 DEF Next, WriterStep, Hit, Commit, GetIndex, DeleteKeys,
     DropIndex, Crash, CommitElsewhere, vars

\* The current version has age 0 until it is overwritten.
LEMMA YoungStep == ASSUME IInv, [Next]_vars PROVE CurrentIsYoung'
<1> USE DEF IInv, TypeOK, CurrentIsYoung, Versions
<1>1. CASE UNCHANGED <<db, age>>
  BY <1>1
<1>2. ASSUME NEW w \in Writers, Commit(w) PROVE CurrentIsYoung'
  BY <1>2, CacheConstants DEF Commit
<1>3. CASE Tick
  BY <1>3, CacheConstants DEF Tick, VR!Ages, VR!Versions
<1>4. CASE CommitElsewhere
  BY <1>4, CacheConstants DEF CommitElsewhere
<1> QED
  BY <1>1, <1>2, <1>3, <1>4 DEF Next, ReaderStep, WriterStep, Hit, Miss, Query, Store, ReadIndex,
     Track, GetIndex, DeleteKeys, DropIndex, Crash, vars

\* No step stores, keeps or ages a response beyond the window.
LEMMA FreshStep == ASSUME IInv, [Next]_vars PROVE EntryFresh'
<1>0. age' \in [Versions -> 0..(Window + 1)] /\ entry' \in
        [Keys -> [about : Asks \cup {NoAsk}, version : Versions, left : 0..TTL]]
  BY TypeStep DEF IInv, TypeOK
<1> USE CacheConstants DEF IInv, TypeOK, Versions, Window, Reading, Later
<1> DEFINE Kept == \A k \in Keys :
              entry'[k] = entry[k] \/ entry'[k].left = 0
           SameRows == \A p \in Readers : HoldsRow(p)' =>
              /\ HoldsRow(p)
              /\ reader'[p].version = reader[p].version
              /\ reader'[p].wait = reader[p].wait
<1>1. ASSUME Kept, SameRows, UNCHANGED <<db, age>> PROVE EntryFresh'
  <2>1. \A k \in Keys : entry'[k].left > 0 => entry'[k] = entry[k]
    BY <1>1
  <2> HIDE DEF IInv, TypeOK
  <2>2. EntryFresh
    BY DEF IInv
  <2> QED BY <1>1, <2>1, <2>2 DEF EntryFresh
<1>2. ASSUME NEW p \in Readers, NEW ask \in Asks, Hit(p, ask) PROVE EntryFresh'
  BY <1>2, <1>1 DEF Hit, HoldsRow
<1>3. ASSUME NEW p \in Readers, NEW ask \in Asks, Miss(p, ask) PROVE EntryFresh'
  BY <1>3, <1>1 DEF Miss, HoldsRow
<1>4. ASSUME NEW p \in Readers, Query(p) PROVE EntryFresh'
  <2>1. age[db] = 0
    BY DEF CurrentIsYoung
  <2>2. \A q \in Readers : HoldsRow(q)' => reader'[q].version <= db
                                           /\ age[reader'[q].version] <= reader'[q].wait
    BY <1>4, <2>1 DEF Query, HoldsRow, EntryFresh
  <2>3. UNCHANGED <<db, age, entry>>
    BY <1>4 DEF Query
  <2> HIDE DEF IInv, TypeOK
  <2> QED BY <2>2, <2>3 DEF EntryFresh, IInv
<1>5. ASSUME NEW p \in Readers, Store(p) PROVE EntryFresh'
  <2>1. reader[p].version <= db /\ age[reader[p].version] <= Latency
    BY <1>5 DEF Store, HoldsRow, EntryFresh
  <2>2. \A k \in Keys : entry'[k] = entry[k]
             \/ entry'[k] = Stored(reader[p].ask, reader[p].version)
    BY <1>5 DEF Store
  <2>3. \A k \in Keys : entry'[k].left > 0 =>
           entry'[k].version <= db /\ age[entry'[k].version] + entry'[k].left <= TTL + Latency
    <3> SUFFICES ASSUME NEW k \in Keys, entry'[k].left > 0
                 PROVE entry'[k].version <= db
                       /\ age[entry'[k].version] + entry'[k].left <= TTL + Latency
      OBVIOUS
    <3>1. CASE entry'[k] = entry[k]
      BY <3>1 DEF EntryFresh
    <3>2. CASE entry'[k] = Stored(reader[p].ask, reader[p].version)
      <4>1. entry'[k].version = reader[p].version /\ entry'[k].left = TTL
        BY <3>2 DEF Stored
      <4>2. age[reader[p].version] \in Nat
        BY DEF HoldsRow
      <4> QED BY <2>1, <4>1, <4>2
    <3> QED BY <2>2, <3>1, <3>2
  <2>4. SameRows
    BY <1>5 DEF Store, HoldsRow
  <2>5. UNCHANGED <<db, age>>
    BY <1>5 DEF Store
  <2> QED BY <2>3, <2>4, <2>5 DEF EntryFresh
<1>6. ASSUME NEW p \in Readers, ReadIndex(p) PROVE EntryFresh'
  BY <1>6, <1>1 DEF ReadIndex, HoldsRow
<1>7. ASSUME NEW p \in Readers, Track(p) PROVE EntryFresh'
  BY <1>7, <1>1 DEF Track, HoldsRow, ReaderOff
<1>8. CASE CommitElsewhere \/ \E w \in Writers : Commit(w)
  <2>1. db' = db + 1 /\ UNCHANGED <<age, entry, reader>>
    BY <1>8 DEF Commit, CommitElsewhere
  <2>2. EntryFresh /\ db \in Nat
    OBVIOUS
  <2>3. /\ \A k \in Keys : entry[k].version \in Nat
        /\ \A p \in Readers : reader[p].version \in Nat
    OBVIOUS
  <2> HIDE DEF IInv, TypeOK
  <2> QED BY <2>1, <2>2, <2>3 DEF EntryFresh, HoldsRow
<1>9. ASSUME NEW w \in Writers, GetIndex(w) \/ DropIndex(w) \/ Crash(w) PROVE EntryFresh'
  BY <1>9, <1>1 DEF GetIndex, DropIndex, Crash, HoldsRow
<1>10. ASSUME NEW w \in Writers, DeleteKeys(w) PROVE EntryFresh'
  BY <1>10, <1>1 DEF DeleteKeys, HoldsRow, NoEntry
<1>11. CASE Tick
  <2>1. \A v \in Versions : age'[v] <= age[v] + 1
    BY <1>11 DEF Tick, VR!Ages, VR!Aged, VR!Versions
  <2>2. \A k \in Keys : entry'[k].left > 0 =>
          /\ entry[k].left > 0
          /\ entry'[k].version = entry[k].version
          /\ entry'[k].left = entry[k].left - 1
    BY <1>11 DEF Tick, Expire, NoEntry
  <2>3. \A p \in Readers : HoldsRow(p)' =>
          /\ HoldsRow(p)
          /\ reader'[p].version = reader[p].version
          /\ reader'[p].wait = reader[p].wait + 1
    <3> SUFFICES ASSUME NEW p \in Readers, HoldsRow(p)'
                 PROVE /\ HoldsRow(p)
                       /\ reader'[p].version = reader[p].version
                       /\ reader'[p].wait = reader[p].wait + 1
      OBVIOUS
    <3>1. HoldsRow(p)
      BY <1>11 DEF Tick, HoldsRow
    <3>2. reader'[p] = Older(reader[p])
      BY <1>11, <3>1 DEF Tick
    <3> QED BY <3>1, <3>2 DEF Older
  <2>4. db' = db
    BY <1>11 DEF Tick
  <2>5. \A k \in Keys : entry'[k].left > 0 =>
          entry'[k].version <= db /\ age'[entry'[k].version] + entry'[k].left <= Window
    <3> SUFFICES ASSUME NEW k \in Keys, entry'[k].left > 0
                 PROVE entry'[k].version <= db
                       /\ age'[entry'[k].version] + entry'[k].left <= Window
      OBVIOUS
    <3>1. age[entry[k].version] + entry[k].left <= Window /\ entry[k].version <= db
      BY <2>2 DEF EntryFresh
    <3>2. age'[entry[k].version] <= age[entry[k].version] + 1
      BY <2>1
    <3>3. age' \in [Versions -> Nat]
      BY <1>0
    <3>4. entry[k].version \in Versions /\ entry[k].left \in Nat /\ age[entry[k].version] \in Nat
      OBVIOUS
    <3>5. age'[entry[k].version] \in Nat
      BY <3>3, <3>4
    <3>6. entry'[k].version = entry[k].version /\ entry'[k].left = entry[k].left - 1
      BY <2>2
    <3>7. Window \in Nat
      OBVIOUS
    <3> HIDE DEF IInv, TypeOK, Versions, Window
    <3> QED BY <3>1, <3>2, <3>4, <3>5, <3>6, <3>7
  <2>6. \A p \in Readers : HoldsRow(p)' =>
          reader'[p].version <= db /\ age'[reader'[p].version] <= reader'[p].wait
    <3> SUFFICES ASSUME NEW p \in Readers, HoldsRow(p)'
                 PROVE reader'[p].version <= db
                       /\ age'[reader'[p].version] <= reader'[p].wait
      OBVIOUS
    <3>1. reader[p].version <= db /\ age[reader[p].version] <= reader[p].wait
      BY <2>3 DEF EntryFresh
    <3>2. age'[reader[p].version] <= age[reader[p].version] + 1
      BY <2>1
    <3>3. age' \in [Versions -> Nat]
      BY <1>0
    <3>4. reader[p].version \in Versions /\ reader[p].wait \in Nat
      OBVIOUS
    <3>5. age[reader[p].version] \in Nat /\ age'[reader[p].version] \in Nat
      BY <3>3, <3>4
    <3>6. reader'[p].version = reader[p].version /\ reader'[p].wait = reader[p].wait + 1
      BY <2>3
    <3> HIDE DEF IInv, TypeOK, Versions, Window
    <3> QED BY <3>1, <3>2, <3>4, <3>5, <3>6
  <2> QED BY <2>4, <2>5, <2>6 DEF EntryFresh
<1>12. CASE UNCHANGED vars
  BY <1>12, <1>1 DEF vars, HoldsRow
<1> QED
  BY <1>2, <1>3, <1>4, <1>5, <1>6, <1>7, <1>8, <1>9, <1>10, <1>11, <1>12
  DEF Next, ReaderStep, WriterStep

\* Nothing is stored, recorded or overwritten at the start.
LEMMA InitInv == Init => IInv
  BY CacheConstants DEF Init, IInv, Reading, Writing, TypeOK, AskKnown, CurrentIsYoung, EntryFresh, NoEntry, ReaderOff,
     WriterOff, HoldsRow, Versions, Window, Scopes, ReaderOps, WriterOps

LEMMA Inductive == Spec => []IInv
<1>1. IInv /\ [Next]_vars => IInv'
  BY TypeStep, AskStep, YoungStep, FreshStep DEF IInv
<1> QED BY InitInv, <1>1, PTL DEF Spec

\* Every variable of the cache, its readers and its writers keeps its type.
THEOREM TypeCorrect == Spec => []TypeOK
<1>1. IInv => TypeOK
  BY DEF IInv
<1> QED BY Inductive, <1>1, PTL

\* An entry's remaining life and the age of its version never exceed the
\* window together, whatever Redis call fails and whoever dies (cache_set's
\* timeout, decorators.py).
THEOREM FreshEntries == Spec => []EntryFresh
<1>1. IInv => EntryFresh
  BY DEF IInv
<1> QED BY Inductive, <1>1, PTL

\* A step of the cache is a step of the abstract bounded-staleness read, or
\* changes nothing it sees.
LEMMA StepSimulation ==
  ASSUME IInv, [Next]_vars
  PROVE  [VR!Next]_<<db, age, answer.version>>
<1> USE CacheConstants DEF IInv, TypeOK, Versions, Window
<1>1. ASSUME NEW v \in Versions, v <= db, age[v] <= Window, answer'.version = v,
             UNCHANGED <<db, age>>
      PROVE VR!Next
  BY <1>1 DEF VR!Next, VR!Serve, VR!Versions
<1>2. ASSUME NEW p \in Readers, NEW ask \in Asks, Hit(p, ask) PROVE VR!Next
  <2> DEFINE e == entry[Key(ask)]
  <2>1. e.version \in Versions /\ e.version <= db /\ age[e.version] <= Window
    BY <1>2, KeyType DEF Hit, EntryFresh
  <2> QED BY <1>1, <1>2, <2>1 DEF Hit, Answer
<1>3. ASSUME NEW p \in Readers, Track(p) PROVE VR!Next
  <2>1. /\ reader[p].version \in Versions
        /\ reader[p].version <= db
        /\ age[reader[p].version] <= Window
    BY <1>3 DEF Track, HoldsRow, EntryFresh
  <2> QED BY <1>1, <1>3, <2>1 DEF Track, Answer
<1>4. CASE CommitElsewhere \/ \E w \in Writers : Commit(w)
  BY <1>4 DEF Commit, CommitElsewhere, VR!Next, VR!Publish
<1>5. CASE Tick
  BY <1>5 DEF Tick, VR!Next, VR!Elapse
<1>6. CASE UNCHANGED <<db, age, answer>>
  BY <1>6
<1> QED
  BY <1>2, <1>3, <1>4, <1>5, <1>6 DEF Next, ReaderStep, WriterStep, Miss, Query, Store,
     ReadIndex, GetIndex, DeleteKeys, DropIndex, Crash, vars

\* What @cache_api serves was in the table at most TTL + Latency ago, through
\* lost index updates, failed Redis calls and dead writers.
THEOREM BoundedStaleness == Spec => AnswersBounded
<1>1. Init => VR!Init
  BY DEF Init, VR!Init, Versions, VR!Versions
<1> QED BY Inductive, <1>1, StepSimulation, PTL DEF Spec, AnswersBounded, VR!Spec

-----------------------------------------------------------------------------
(* One request at a time: a write of the viewset's own is seen at once.    *)

Live(k) == entry[k].left > 0
Recorded(k) == Live(k) => k \in index[Scope(k)]
Exact(k) == Live(k) => k \in index[Scope(k)] /\ entry[k].version >= own

Reads(p) == reader[p].op # "idle"
Writes(w) == writer[w].op # "idle"

\* Nobody begins before the one under way is done
OneAtATime ==
    /\ \A p, q \in Readers : Reads(p) /\ Reads(q) => p = q
    /\ \A w, x \in Writers : Writes(w) /\ Writes(x) => w = x
    /\ \A p \in Readers, w \in Writers : ~(Reads(p) /\ Writes(w))

\* A GET holds the data's version; only its own key may be stored and not yet
\* recorded, and it will write that key's index back as it stands
GetExact(p) ==
    /\ \A k \in Keys : Exact(k) \/ (HoldsRow(p) /\ k = Key(reader[p].ask) /\ entry[k].version >= own)
    /\ HoldsRow(p) => reader[p].version = db
    /\ reader[p].op = "track" => reader[p].keys = index[Scope(Key(reader[p].ask))]

\* An invalidation finds every live entry recorded, deletes what the index of
\* its scope names, and leaves the scopes it has been through empty
DropExact(w) ==
    \A k \in Keys :
        /\ Recorded(k)
        /\ Scope(k) = writer[w].scope /\ writer[w].op = "delete" /\ Live(k) => k \in writer[w].keys
        /\ Scope(k) = writer[w].scope /\ writer[w].op = "drop" => ~Live(k)
        /\ Scope(k) = "list" /\ writer[w].scope = "detail" => ~Live(k)

AllExact == \A k \in Keys : Exact(k)

SerialInv ==
    serial => /\ OneAtATime
              /\ \A p \in Readers : Reads(p) => GetExact(p)
              /\ \A w \in Writers : Writes(w) => DropExact(w)
              /\ Idle => AllExact

LEMMA ScopeType == \A k \in Keys : Scope(k) \in Scopes
BY DEF Scope, Scopes

\* A request begins only when nobody is busy, so nobody overtakes it
LEMMA OneAtATimeStep ==
  ASSUME TypeOK, serial, OneAtATime, [Next]_vars
  PROVE  OneAtATime'
<1>1. ASSUME \A p \in Readers : Reads(p)' => Reads(p), \A w \in Writers : Writes(w)' => Writes(w)
      PROVE  OneAtATime'
  BY <1>1 DEF OneAtATime
<1>2. ASSUME NEW p \in Readers, NEW ask \in Asks, Miss(p, ask) PROVE OneAtATime'
  BY <1>2 DEF Miss, MayBegin, Idle, OneAtATime, Reads, Writes, TypeOK
<1>3. ASSUME NEW w \in Writers, Commit(w) PROVE OneAtATime'
  BY <1>3 DEF Commit, MayBegin, Idle, OneAtATime, Reads, Writes, TypeOK
<1>4. CASE UNCHANGED reader /\ UNCHANGED writer
  BY <1>1, <1>4 DEF Reads, Writes
<1>5. ASSUME NEW p \in Readers, ReaderStep(p) PROVE OneAtATime'
  <2>1. Reads(p) /\ UNCHANGED writer
    BY <1>5 DEF ReaderStep, Query, Store, ReadIndex, Track, Reads
  <2>2. \A q \in Readers : q # p => reader'[q] = reader[q]
    BY <1>5 DEF ReaderStep, Query, Store, ReadIndex, Track, TypeOK
  <2> QED
    BY <1>1, <2>1, <2>2 DEF Reads, Writes
<1>6. ASSUME NEW w \in Writers, WriterStep(w) \/ Crash(w) PROVE OneAtATime'
  <2>1. Writes(w) /\ UNCHANGED reader
    BY <1>6 DEF WriterStep, GetIndex, DeleteKeys, DropIndex, Crash, Writes
  <2>2. \A x \in Writers : x # w => writer'[x] = writer[x]
    BY <1>6 DEF WriterStep, GetIndex, DeleteKeys, DropIndex, Crash, TypeOK
  <2> QED
    BY <1>1, <2>1, <2>2 DEF Reads, Writes
<1>7. CASE Tick
  <2>1. UNCHANGED writer /\ \A p \in Readers : reader'[p].op = reader[p].op
    BY <1>7 DEF Tick, Older, Reading
  <2> QED
    BY <1>1, <2>1 DEF Reads, Writes
<1> QED
  BY <1>2, <1>3, <1>4, <1>5, <1>6, <1>7 DEF Next, Hit, CommitElsewhere, vars

\* With one request at a time, only what that request is about can be inexact
LEMMA OnlyReader ==
  ASSUME OneAtATime', NEW p \in Readers, Reads(p)', GetExact(p)'
  PROVE  SerialInv'
BY DEF SerialInv, OneAtATime, Idle, Reads

LEMMA OnlyWriter ==
  ASSUME OneAtATime', NEW w \in Writers, Writes(w)', DropExact(w)'
  PROVE  SerialInv'
BY DEF SerialInv, OneAtATime, Idle, Writes

LEMMA NobodyBusy ==
  ASSUME OneAtATime', AllExact', Idle'
  PROVE  SerialInv'
BY DEF SerialInv, Idle, Reads, Writes

\* A GET, from its miss to its answer: only its own key changes
LEMMA GetSerial ==
  ASSUME TypeOK, AskKnown, serial, OneAtATime, OneAtATime', NEW p \in Readers, GetExact(p), ReaderStep(p)
  PROVE  SerialInv'
<1> DEFINE key == Key(reader[p].ask)
<1>1. key \in Keys /\ Scope(key) \in Scopes /\ ~MayFail
  BY KeyType, ScopeType DEF ReaderStep, Query, Store, ReadIndex, Track, AskKnown, MayFail
<1>2. CASE Query(p)
  <2>1. /\ reader'[p] = Reading("store", reader[p].ask, db, {}, 0) /\ ~HoldsRow(p)
        /\ UNCHANGED <<db, own, entry, index>>
    BY <1>2 DEF Query, HoldsRow, TypeOK
  <2>2. Reads(p)' /\ GetExact(p)'
    BY <2>1 DEF Reads, GetExact, HoldsRow, Exact, Live, Reading
  <2> QED
    BY <2>2, OnlyReader
<1>3. CASE Store(p)
  <2>1. /\ reader'[p] = Later("index", reader[p], {}) /\ HoldsRow(p)
        /\ entry' = [entry EXCEPT ![key] = Stored(reader[p].ask, reader[p].version)]
        /\ UNCHANGED <<db, own, index>>
    BY <1>1, <1>3 DEF Store, HoldsRow, TypeOK
  <2>2. /\ entry'[key].version >= own
        /\ \A k \in Keys : k # key => entry'[k] = entry[k]
    BY <1>1, <2>1 DEF Stored, GetExact, TypeOK
  <2>3. reader'[p].op = "index" /\ reader'[p].ask = reader[p].ask /\ reader'[p].version = db
    BY <2>1 DEF GetExact, Later, Reading
  <2>4. GetExact(p)'
    BY <2>1, <2>2, <2>3 DEF GetExact, HoldsRow, Exact, Live
  <2> QED
    BY <2>3, <2>4, OnlyReader DEF Reads
<1>4. CASE ReadIndex(p)
  <2>1. /\ reader'[p] = Later("track", reader[p], index[Scope(key)]) /\ HoldsRow(p)
        /\ UNCHANGED <<db, own, entry, index>>
    BY <1>1, <1>4 DEF ReadIndex, Read, HoldsRow, TypeOK
  <2>2. /\ reader'[p].op = "track" /\ reader'[p].ask = reader[p].ask /\ reader'[p].version = db
        /\ reader'[p].keys = index[Scope(key)]
    BY <2>1 DEF GetExact, Later, Reading
  <2>3. GetExact(p)'
    BY <2>1, <2>2 DEF GetExact, HoldsRow, Exact, Live
  <2> QED
    BY <2>2, <2>3, OnlyReader DEF Reads
<1>5. CASE Track(p)
  <2>1. /\ reader' = [reader EXCEPT ![p] = ReaderOff] /\ UNCHANGED <<db, own, entry, writer>>
        /\ index' = [index EXCEPT ![Scope(key)] = reader[p].keys \cup {key}]
        /\ reader[p].keys = index[Scope(key)]
    BY <1>1, <1>5 DEF Track, GetExact
  <2>2. \A k \in Keys : index[Scope(k)] \subseteq index'[Scope(k)]
    BY <1>1, <2>1, ScopeType DEF TypeOK
  <2>3. key \in index'[Scope(key)]
    BY <1>1, <2>1 DEF TypeOK
  <2>4. AllExact'
    BY <2>1, <2>2, <2>3 DEF GetExact, AllExact, Exact, Live
  <2>5. Idle'
    BY <1>5, <2>1 DEF Track, OneAtATime, Idle, Reads, Writes, ReaderOff, Reading, TypeOK
  <2> QED
    BY <2>4, <2>5, NobodyBusy
<1> QED
  BY <1>2, <1>3, <1>4, <1>5 DEF ReaderStep

\* An invalidation, one scope after the other: it empties what it has been through
LEMMA DropSerial ==
  ASSUME TypeOK, serial, OneAtATime, OneAtATime', NEW w \in Writers, DropExact(w), WriterStep(w)
  PROVE  SerialInv'
<1> DEFINE scope == writer[w].scope
<1>1. scope \in Scopes /\ ~MayFail
  BY DEF TypeOK, MayFail
<1>2. CASE GetIndex(w)
  <2>1. /\ writer'[w] = Writing("delete", scope, index[scope])
        /\ UNCHANGED <<entry, index>>
    BY <1>1, <1>2 DEF GetIndex, Read, TypeOK
  <2>2. writer'[w].op = "delete" /\ writer'[w].scope = scope /\ writer'[w].keys = index[scope]
    BY <2>1 DEF Writing
  <2>3. DropExact(w)'
    BY <2>1, <2>2 DEF DropExact, Recorded, Live
  <2> QED
    BY <2>2, <2>3, OnlyWriter DEF Writes
<1>3. CASE DeleteKeys(w)
  <2>1. /\ writer'[w] = Writing("drop", scope, {}) /\ writer[w].op = "delete"
        /\ entry' = [k \in Keys |-> IF k \in writer[w].keys THEN NoEntry ELSE entry[k]]
        /\ UNCHANGED index
    BY <1>1, <1>3 DEF DeleteKeys, TypeOK
  <2>2. writer'[w].op = "drop" /\ writer'[w].scope = scope
    BY <2>1 DEF Writing
  <2>3. \A k \in Keys : Live(k)' => Live(k) /\ k \notin writer[w].keys
    BY <2>1 DEF Live, NoEntry
  <2>4. DropExact(w)'
    BY <2>1, <2>2, <2>3 DEF DropExact, Recorded
  <2> QED
    BY <2>2, <2>4, OnlyWriter DEF Writes
<1>4. CASE DropIndex(w)
  <2>1. /\ writer[w].op = "drop" /\ index' = [index EXCEPT ![scope] = {}] /\ UNCHANGED <<db, entry, reader>>
    BY <1>1, <1>4 DEF DropIndex
  <2>2. \A k \in Keys : Recorded(k)' /\ (Scope(k) = scope => ~Live(k)')
    BY <2>1, ScopeType DEF DropExact, Recorded, Live, TypeOK
  <2>3. CASE scope = "list"
    <3>1. writer'[w] = Writing("index", "detail", {})
      BY <1>4, <2>3 DEF DropIndex, TypeOK
    <3>2. writer'[w].op = "index" /\ writer'[w].scope = "detail"
      BY <3>1 DEF Writing
    <3>3. DropExact(w)'
      BY <2>2, <2>3, <3>2 DEF DropExact
    <3> QED
      BY <3>2, <3>3, OnlyWriter DEF Writes
  <2>4. CASE scope = "detail"
    <3>1. writer' = [writer EXCEPT ![w] = WriterOff]
      BY <1>4, <2>4 DEF DropIndex
    <3>2. \A k \in Keys : ~Live(k)'
      BY <2>1, <2>2, <2>4, ScopeType DEF DropExact, Live, Scopes
    <3>3. AllExact'
      BY <3>2 DEF AllExact, Exact
    <3>4. Idle'
      BY <2>1, <3>1 DEF OneAtATime, Idle, Reads, Writes, WriterOff, Writing, TypeOK
    <3> QED
      BY <3>3, <3>4, NobodyBusy
  <2> QED
    BY <1>1, <2>3, <2>4 DEF Scopes
<1> QED
  BY <1>2, <1>3, <1>4 DEF WriterStep

\* Time passes: entries only leave, and they leave their records behind
LEMMA TickSerial ==
  ASSUME TypeOK, SerialInv, serial, OneAtATime', Tick
  PROVE  SerialInv'
<1>1. UNCHANGED <<db, own, index, writer, serial>>
  BY DEF Tick
<1>2. \A k \in Keys : Live(k)' => Live(k) /\ entry'[k].version = entry[k].version
  <2>1. \A e : e.left \in Nat /\ Expire(e).left > 0 => e.left > 1 /\ Expire(e).version = e.version
    BY DEF Expire, NoEntry
  <2>2. \A k \in Keys : entry'[k] = Expire(entry[k]) /\ entry[k].left \in Nat
    BY CacheConstants DEF Tick, TypeOK
  <2> QED
    BY <2>1, <2>2 DEF Live
<1>3. \A p \in Readers : /\ reader'[p].op = reader[p].op /\ reader'[p].ask = reader[p].ask
                         /\ reader'[p].version = reader[p].version /\ reader'[p].keys = reader[p].keys
  BY DEF Tick, Older, Reading
<1>4. \A k \in Keys : Recorded(k) => Recorded(k)'
  BY <1>1, <1>2 DEF Recorded
<1>5. \A k \in Keys : Exact(k) => Exact(k)'
  BY <1>1, <1>2 DEF Exact
<1>6. Idle' => AllExact'
  BY <1>1, <1>3, <1>5 DEF SerialInv, Idle, AllExact
<1>7. ASSUME NEW p \in Readers, Reads(p)' PROVE GetExact(p)'
  <2>1. GetExact(p) /\ HoldsRow(p)' = HoldsRow(p)
    BY <1>3, <1>7 DEF SerialInv, Reads, HoldsRow
  <2>2. \A k \in Keys : Exact(k)' \/ (HoldsRow(p)' /\ k = Key(reader'[p].ask) /\ entry'[k].version >= own')
    BY <1>1, <1>2, <1>3, <1>5, <2>1 DEF GetExact, Exact
  <2> QED
    BY <1>1, <1>3, <2>1, <2>2 DEF GetExact
<1>8. ASSUME NEW w \in Writers, Writes(w)' PROVE DropExact(w)'
  <2>1. DropExact(w)
    BY <1>1, <1>8 DEF SerialInv, Writes
  <2> QED
    BY <1>1, <1>2, <1>4, <2>1 DEF DropExact
<1> QED
  BY <1>6, <1>7, <1>8 DEF SerialInv

LEMMA SerialStep == ASSUME IInv, SerialInv, [Next]_vars PROVE SerialInv'
<1>1. serial' = serial
  BY DEF Next, ReaderStep, WriterStep, Hit, Miss, Query, Store, ReadIndex, Track, Commit,
         CommitElsewhere, GetIndex, DeleteKeys, DropIndex, Crash, Tick, vars
<1>2. CASE ~serial
  BY <1>1, <1>2 DEF SerialInv
<1>3. CASE serial
  <2>1. TypeOK /\ AskKnown /\ OneAtATime /\ OneAtATime'
    BY <1>3, OneAtATimeStep DEF IInv, SerialInv
  <2>2. CASE UNCHANGED <<db, own, entry, index, reader, writer>>
    <3>1. \A k \in Keys : Exact(k)' = Exact(k) /\ Recorded(k)' = Recorded(k) /\ Live(k)' = Live(k)
      BY <2>2 DEF Exact, Recorded, Live
    <3>2. \A p \in Readers : Reads(p)' = Reads(p) /\ GetExact(p)' = GetExact(p)
      BY <2>2, <3>1 DEF Reads, GetExact, HoldsRow
    <3>3. \A w \in Writers : Writes(w)' = Writes(w) /\ DropExact(w)' = DropExact(w)
      BY <2>2, <3>1 DEF Writes, DropExact
    <3>4. Idle' = Idle /\ AllExact' = AllExact
      BY <2>2, <3>1 DEF Idle, AllExact
    <3> QED
      BY <1>3, <2>1, <3>2, <3>3, <3>4 DEF SerialInv
  <2>3. ASSUME NEW p \in Readers, NEW ask \in Asks, Miss(p, ask) PROVE SerialInv'
    <3>1. AllExact /\ UNCHANGED <<db, own, entry, index>>
      BY <1>3, <2>3 DEF Miss, MayBegin, SerialInv
    <3>2. reader'[p].op = "query"
      BY <2>1, <2>3 DEF Miss, Reading, TypeOK
    <3>3. GetExact(p)'
      BY <3>1, <3>2 DEF AllExact, GetExact, Exact, Live, HoldsRow
    <3> QED
      BY <2>1, <3>2, <3>3, OnlyReader DEF Reads
  <2>4. ASSUME NEW w \in Writers, Commit(w) PROVE SerialInv'
    <3>1. AllExact /\ UNCHANGED <<entry, index>>
      BY <1>3, <2>4 DEF Commit, MayBegin, SerialInv
    <3>2. writer'[w].op = "index" /\ writer'[w].scope = "list"
      BY <2>1, <2>4 DEF Commit, Writing, TypeOK
    <3>3. DropExact(w)'
      BY <3>1, <3>2 DEF AllExact, DropExact, Exact, Recorded, Live
    <3> QED
      BY <2>1, <3>2, <3>3, OnlyWriter DEF Writes
  <2>8. CASE CommitElsewhere
    <3>1. AllExact /\ Idle /\ UNCHANGED <<own, entry, index, reader, writer>>
      BY <1>3, <2>8 DEF CommitElsewhere, MayBegin, SerialInv
    <3>2. AllExact' /\ Idle'
      BY <3>1 DEF AllExact, Exact, Live, Idle
    <3> QED
      BY <2>1, <3>2, NobodyBusy
  <2>5. ASSUME NEW p \in Readers, ReaderStep(p) PROVE SerialInv'
    <3>1. GetExact(p)
      BY <1>3, <2>5 DEF SerialInv, Reads, ReaderStep, Query, Store, ReadIndex, Track
    <3> QED
      BY <1>3, <2>1, <2>5, <3>1, GetSerial
  <2>6. ASSUME NEW w \in Writers, WriterStep(w) PROVE SerialInv'
    <3>1. DropExact(w)
      BY <1>3, <2>6 DEF SerialInv, Writes, WriterStep, GetIndex, DeleteKeys, DropIndex
    <3> QED
      BY <1>3, <2>1, <2>6, <3>1, DropSerial
  <2>7. CASE Tick
    BY <1>3, <2>1, <2>7, TickSerial
  <2> QED
    BY <1>3, <2>2, <2>3, <2>4, <2>5, <2>6, <2>7, <2>8 DEF Next, Hit, Crash, MayFail, vars
<1> QED
  BY <1>2, <1>3

LEMMA InitSerial == Init => SerialInv
BY DEF Init, SerialInv, OneAtATime, AllExact, Exact, Live, NoEntry, Reads, Writes,
       ReaderOff, WriterOff, Reading, Writing

\* On the development server, where one request runs at a time and Redis
\* answers, invalidate_on_commit lets no request see what was there before the
\* viewset's own last write, whatever other viewsets write meanwhile: between
\* two requests every entry is at least as new, and recorded where the next
\* write will look for it.
THEOREM OwnWritesAreSeen == Spec => []SerialReadsOwnWrites
<1>1. SerialInv => SerialReadsOwnWrites
  BY DEF SerialInv, SerialReadsOwnWrites, AllExact, Exact, Live
<1>2. IInv /\ SerialInv /\ [Next]_vars => SerialInv'
  BY SerialStep
<1> QED
  BY Inductive, InitSerial, <1>1, <1>2, PTL DEF Spec

-----------------------------------------------------------------------------
(* An overwritten version leaves Redis and does not come back: what safety *)
(* there is in StaleEntryGoes.                                             *)

\* No live entry holds version v, and no GET is about to store it
Gone(v) ==
    /\ \A k \in Keys : entry[k].left > 0 => entry[k].version # v
    /\ \A p \in Readers : HoldsRow(p) => reader[p].version # v

\* Whatever was lost or crashed, Redis and the requests have let go of every
\* version overwritten TTL + Latency ago
OldIsGone == \A v \in Versions : age[v] >= Window => Gone(v)

\* Only a query brings a version in, and it reads the current one
GoneStays == \A v \in Versions : v < db /\ Gone(v) => Gone(v)'

\* Where the version of a live entry comes from: it was there, or a GET stored it
EntryKnown ==
    \A k \in Keys : entry'[k].left > 0 =>
        \/ entry[k].left > 0 /\ entry'[k].version = entry[k].version
        \/ \E p \in Readers : HoldsRow(p) /\ entry'[k].version = reader[p].version

\* Where the version a GET holds comes from: it held it, or it has just queried
ReaderKnown ==
    \A p \in Readers : HoldsRow(p)' =>
        \/ HoldsRow(p) /\ reader'[p].version = reader[p].version
        \/ reader'[p].version = db

LEMMA VersionsKnown == ASSUME IInv, [Next]_vars PROVE EntryKnown /\ ReaderKnown
<1> USE DEF HoldsRow, Reading, Later
<1>1. TypeOK
  BY DEF IInv
<1>2. UNCHANGED entry => EntryKnown
  BY DEF EntryKnown
<1>3. UNCHANGED reader => ReaderKnown
  BY DEF ReaderKnown
<1>4. ASSUME NEW p \in Readers, NEW ask \in Asks, Hit(p, ask) \/ Miss(p, ask)
      PROVE  EntryKnown /\ ReaderKnown
  BY <1>1, <1>2, <1>3, <1>4 DEF Hit, Miss, ReaderKnown, TypeOK
<1>5. ASSUME NEW p \in Readers, Query(p) PROVE EntryKnown /\ ReaderKnown
  BY <1>1, <1>2, <1>5 DEF Query, ReaderKnown, TypeOK
<1>6. ASSUME NEW p \in Readers, Store(p) PROVE EntryKnown /\ ReaderKnown
  <2>1. \A k \in Keys : entry'[k] = entry[k] \/ entry'[k] = Stored(reader[p].ask, reader[p].version)
    BY <1>1, <1>6 DEF Store, TypeOK
  <2>2. EntryKnown
    BY <1>6, <2>1 DEF Store, Stored, EntryKnown
  <2>3. ReaderKnown
    BY <1>1, <1>6 DEF Store, ReaderKnown, TypeOK
  <2> QED
    BY <2>2, <2>3
<1>7. ASSUME NEW p \in Readers, ReadIndex(p) \/ Track(p) PROVE EntryKnown /\ ReaderKnown
  BY <1>1, <1>2, <1>7 DEF ReadIndex, Track, ReaderOff, ReaderKnown, TypeOK
<1>8. ASSUME NEW w \in Writers, Commit(w) \/ WriterStep(w) \/ Crash(w)
      PROVE  EntryKnown /\ ReaderKnown
  <2>1. UNCHANGED reader
    BY <1>8 DEF Commit, WriterStep, GetIndex, DeleteKeys, DropIndex, Crash
  <2>2. ASSUME DeleteKeys(w) PROVE EntryKnown
    BY <1>1, <2>2 DEF DeleteKeys, NoEntry, EntryKnown, TypeOK
  <2>3. ASSUME ~DeleteKeys(w) PROVE EntryKnown
    BY <1>2, <1>8, <2>3 DEF Commit, WriterStep, GetIndex, DropIndex, Crash
  <2> QED
    BY <1>3, <2>1, <2>2, <2>3
<1>11. CASE CommitElsewhere
  BY <1>2, <1>3, <1>11 DEF CommitElsewhere
<1>9. CASE Tick
  <2>1. \A k \in Keys : entry'[k].left > 0 =>
          entry[k].left > 0 /\ entry'[k].version = entry[k].version
    BY <1>1, <1>9, CacheConstants DEF Tick, Expire, NoEntry, TypeOK
  <2>2. \A p \in Readers : reader'[p].op = reader[p].op /\ reader'[p].version = reader[p].version
    BY <1>1, <1>9 DEF Tick, Older, TypeOK
  <2> QED
    BY <2>1, <2>2 DEF EntryKnown, ReaderKnown
<1>10. CASE UNCHANGED vars
  BY <1>2, <1>3, <1>10 DEF vars
<1> QED
  BY <1>4, <1>5, <1>6, <1>7, <1>8, <1>9, <1>10, <1>11 DEF Next, ReaderStep

\* However many writers died and index updates were lost: TTL + Latency after a
\* version was overwritten, no key holds it and no GET will store it
\* (cache_set's timeout, the worker's request timeout)
THEOREM StaleIsGone == Spec => []OldIsGone
<1>1. IInv => OldIsGone
  <2> SUFFICES ASSUME IInv, NEW v \in Versions, age[v] >= Window PROVE Gone(v)
    BY DEF OldIsGone
  <2> USE CacheConstants DEF IInv, TypeOK, Window
  <2>1. ASSUME NEW k \in Keys, entry[k].left > 0, entry[k].version = v PROVE FALSE
    <3>1. age[v] + entry[k].left <= Window
      BY <2>1 DEF EntryFresh
    <3>2. age[v] \in Nat /\ entry[k].left \in Nat
      OBVIOUS
    <3> QED
      BY <2>1, <3>1, <3>2
  <2>2. ASSUME NEW p \in Readers, HoldsRow(p), reader[p].version = v PROVE FALSE
    <3>1. age[v] <= reader[p].wait
      BY <2>2 DEF EntryFresh
    <3>2. age[v] \in Nat /\ reader[p].wait \in 0..Latency
      OBVIOUS
    <3> QED
      BY <3>1, <3>2
  <2> QED
    BY <2>1, <2>2 DEF Gone
<1> QED
  BY Inductive, <1>1, PTL

\* Once gone it does not come back: a slow GET cannot store an overwritten
\* version after Redis and every request have let go of it (cache_api's query
\* comes before its cache_set, and reads the committed table)
THEOREM StaleStaysGone == Spec => [][GoneStays]_vars
<1>1. IInv /\ [Next]_vars => GoneStays
  <2> SUFFICES ASSUME IInv, [Next]_vars, NEW v \in Versions, v < db, Gone(v) PROVE Gone(v)'
    BY DEF GoneStays
  <2>1. EntryKnown /\ ReaderKnown
    BY VersionsKnown
  <2>2. \A k \in Keys : entry'[k].left > 0 => entry'[k].version # v
    BY <2>1 DEF EntryKnown, Gone
  <2>3. v # db
    BY DEF IInv, TypeOK, Versions
  <2>4. \A p \in Readers : HoldsRow(p)' => reader'[p].version # v
    BY <2>1, <2>3 DEF ReaderKnown, Gone
  <2> QED
    BY <2>2, <2>4 DEF Gone
<1> QED
  BY Inductive, <1>1, PTL DEF Spec

=============================================================================
