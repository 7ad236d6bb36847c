---------------------------- MODULE ResponseCache ----------------------------
(***************************************************************************)
(* app/cache: the cache-aside layer in front of the master viewsets.  A     *)
(* GET looks its key up in Redis, and on a miss queries the database,      *)
(* stores the response with a time to live and records the key in the      *)
(* index of its scope.  A write commits and then drops every key the index *)
(* of each of its scopes names.  None of this is one atomic step: every    *)
(* Redis call stands alone, may fail (the failure is swallowed) and runs   *)
(* between the calls of other requests.                                    *)
(*                                                                         *)
(* One viewset is modelled, and the data its responses are made of: a      *)
(* version number.  Part of that data is another viewset's (a state's      *)
(* response holds its country's name), whose writes drop no key of this    *)
(* one.  The query parameters and the user of a request are one thing      *)
(* here, the listing it asks for; the index outlives every entry (24 hours *)
(* against ten minutes), so its own expiry changes nothing and is left out.*)
(***************************************************************************)
EXTENDS Naturals, FiniteSets

CONSTANTS
    Lists,      \* list requests told apart by their parameters and user
    Long,       \* those that differ only where the key is cut off, or in all
                \* but the last value of a parameter
    Rows,       \* rows a retrieve request may ask for
    Readers,    \* worker threads answering GETs
    Writers,    \* worker threads serving a write
    TTL,        \* time to live of an entry
    Latency,    \* longest a worker may take from its query to its last step
    MaxWrites   \* bound: committed writes

ASSUME CacheConstants ==
    /\ TTL \in Nat \ {0}
    /\ Latency \in Nat
    /\ MaxWrites \in Nat
    /\ Long \subseteq Lists
    /\ {"detail", "long"} \cap Lists = {}
    /\ Lists \cap Rows = {}

VARIABLES
    db,         \* version of the data
    own,        \* history: the version the viewset's own last write made
    age,        \* age[v]: time since version v was overwritten
    entry,      \* entry[k]: the response stored under key k and its time left
    index,      \* index[s]: the keys recorded for scope s
    reader,     \* the GET each reader is answering
    writer,     \* the invalidation each writer is running
    answer,     \* the last response sent: asked for, about, version
    serial      \* one request at a time, no failures: the development server

vars == <<db, own, age, entry, index, reader, writer, answer, serial>>

Asks == Lists \cup Rows
NoAsk == "none"
Versions == 0..MaxWrites
Window == TTL + Latency

VR == INSTANCE VersionedRead WITH MaxVersion <- MaxWrites, version <- db, seen <- answer.version

-----------------------------------------------------------------------------
(* Keys and scopes.                                                        *)

Keys == Lists \cup {"detail", "long"}
Scopes == {"list", "detail"}

\* build_cache_key is given the query parameters and the user.  The row a
\* retrieve asks for is in the path and in neither, so all retrieves share a
\* key; the fingerprint comes last, and 250 characters are kept.
Key(ask) == IF ask \in Rows THEN "detail" ELSE IF ask \in Long THEN "long" ELSE ask

Scope(k) == IF k = "detail" THEN "detail" ELSE "list"

\* left = 0: the key is not in Redis
NoEntry == [about |-> NoAsk, version |-> 0, left |-> 0]

\* Mutant: one unit more than the configured ttl
StoredLonger(ask, v) == [about |-> ask, version |-> v, left |-> TTL + 1]

Stored(ask, v) == [about |-> ask, version |-> v, left |-> TTL]

ReaderOps == {"idle", "query", "store", "index", "track"}
WriterOps == {"idle", "index", "delete", "drop"}
Reading(op, ask, v, keys, wait) ==
    [op |-> op, ask |-> ask, version |-> v, keys |-> keys, wait |-> wait]
Writing(op, scope, keys) == [op |-> op, scope |-> scope, keys |-> keys]
Later(op, r, keys) == Reading(op, r.ask, r.version, keys, r.wait)
ReaderOff == Reading("idle", NoAsk, 0, {}, 0)
WriterOff == Writing("idle", "list", {})

TypeOK ==
    /\ db \in Versions /\ own \in 0..db
    /\ age \in [Versions -> 0..(Window + 1)]
    /\ entry \in [Keys -> [about : Asks \cup {NoAsk}, version : Versions, left : 0..TTL]]
    /\ index \in [Scopes -> SUBSET Keys]
    /\ reader \in [Readers -> [op : ReaderOps, ask : Asks \cup {NoAsk}, version : Versions,
                               keys : SUBSET Keys, wait : 0..Latency]]
    /\ writer \in [Writers -> [op : WriterOps, scope : Scopes, keys : SUBSET Keys]]
    /\ answer \in [asked : Asks \cup {NoAsk}, about : Asks \cup {NoAsk}, version : Versions]
    /\ serial \in BOOLEAN

Init ==
    /\ db = 0 /\ own = 0
    /\ age = [v \in Versions |-> 0]
    /\ entry = [k \in Keys |-> NoEntry]
    /\ index = [s \in Scopes |-> {}]
    /\ reader = [p \in Readers |-> ReaderOff]
    /\ writer = [w \in Writers |-> WriterOff]
    /\ answer = [asked |-> NoAsk, about |-> NoAsk, version |-> 0]
    /\ serial \in BOOLEAN

Idle == (\A p \in Readers : reader[p].op = "idle") /\ (\A w \in Writers : writer[w].op = "idle")
MayBegin == serial => Idle
MayFail == ~serial

-----------------------------------------------------------------------------
(* A GET.                                                                  *)

Answer(ask, about, v) == answer' = [asked |-> ask, about |-> about, version |-> v]

\* The key is in Redis: its response is sent as it is
Hit(p, ask) ==
    /\ reader[p].op = "idle" /\ MayBegin
    /\ entry[Key(ask)].left > 0
    /\ Answer(ask, entry[Key(ask)].about, entry[Key(ask)].version)
    /\ UNCHANGED <<db, own, age, entry, index, reader, writer, serial>>

\* The key is not there, or the get failed
Miss(p, ask) ==
    /\ reader[p].op = "idle" /\ MayBegin
    /\ entry[Key(ask)].left = 0 \/ MayFail
    /\ reader' = [reader EXCEPT ![p] = Reading("query", ask, 0, {}, 0)]
    /\ UNCHANGED <<db, own, age, entry, index, writer, answer, serial>>

Query(p) ==
    /\ reader[p].op = "query"
    /\ reader' = [reader EXCEPT ![p] = Reading("store", reader[p].ask, db, {}, 0)]
    /\ UNCHANGED <<db, own, age, entry, index, writer, answer, serial>>

Store(p) ==
    /\ reader[p].op = "store"
    /\ \/ entry' = [entry EXCEPT ![Key(reader[p].ask)] = Stored(reader[p].ask, reader[p].version)]
       \/ MayFail /\ UNCHANGED entry
    /\ reader' = [reader EXCEPT ![p] = Later("index", reader[p], {})]
    /\ UNCHANGED <<db, own, age, index, writer, answer, serial>>

\* A get that failed reads as an empty index
Read(s) == {index[s]} \cup (IF MayFail THEN {{}} ELSE {})

ReadIndex(p) ==
    /\ reader[p].op = "index"
    /\ \E keys \in Read(Scope(Key(reader[p].ask))) :
          reader' = [reader EXCEPT ![p] = Later("track", reader[p], keys)]
    /\ UNCHANGED <<db, own, age, entry, index, writer, answer, serial>>

\* The index is written back with the key added; then the response is sent
Track(p) ==
    LET k == Key(reader[p].ask)
    IN  /\ reader[p].op = "track"
        /\ \/ index' = [index EXCEPT ![Scope(k)] = reader[p].keys \cup {k}]
           \/ MayFail /\ UNCHANGED index
        /\ Answer(reader[p].ask, reader[p].ask, reader[p].version)
        /\ reader' = [reader EXCEPT ![p] = ReaderOff]
        /\ UNCHANGED <<db, own, age, entry, writer, serial>>

-----------------------------------------------------------------------------
(* A write of the viewset's: it commits, and its on_commit hook            *)
(* invalidates both scopes.                                                *)

\* Mutant: the hook names the detail scope alone
CommitDetailOnly(w) ==
    /\ writer[w].op = "idle" /\ MayBegin
    /\ db < MaxWrites
    /\ db' = db + 1 /\ own' = db + 1
    /\ writer' = [writer EXCEPT ![w] = Writing("index", "detail", {})]
    /\ UNCHANGED <<age, entry, index, reader, answer, serial>>

Commit(w) ==
    /\ writer[w].op = "idle" /\ MayBegin
    /\ db < MaxWrites
    /\ db' = db + 1 /\ own' = db + 1
    /\ writer' = [writer EXCEPT ![w] = Writing("index", "list", {})]
    /\ UNCHANGED <<age, entry, index, reader, answer, serial>>

\* A write of what the responses contain that names neither of their scopes
CommitElsewhere ==
    /\ MayBegin
    /\ db < MaxWrites
    /\ db' = db + 1
    /\ UNCHANGED <<own, age, entry, index, reader, writer, answer, serial>>

GetIndex(w) ==
    /\ writer[w].op = "index"
    /\ \E keys \in Read(writer[w].scope) :
          writer' = [writer EXCEPT ![w] = Writing("delete", writer[w].scope, keys)]
    /\ UNCHANGED <<db, own, age, entry, index, reader, answer, serial>>

DeleteKeys(w) ==
    /\ writer[w].op = "delete"
    /\ \/ entry' = [k \in Keys |-> IF k \in writer[w].keys THEN NoEntry ELSE entry[k]]
       \/ MayFail /\ UNCHANGED entry
    /\ writer' = [writer EXCEPT ![w] = Writing("drop", writer[w].scope, {})]
    /\ UNCHANGED <<db, own, age, index, reader, answer, serial>>

\* The index itself is deleted; the detail scope comes after the list scope
DropIndex(w) ==
    /\ writer[w].op = "drop"
    /\ \/ index' = [index EXCEPT ![writer[w].scope] = {}]
       \/ MayFail /\ UNCHANGED index
    /\ writer' = [writer EXCEPT ![w] =
                    IF writer[w].scope = "list"
                    THEN Writing("index", "detail", {})
                    ELSE WriterOff]
    /\ UNCHANGED <<db, own, age, entry, reader, answer, serial>>

\* The process dies after its commit: the rest of the invalidation never runs
Crash(w) ==
    /\ writer[w].op # "idle" /\ MayFail
    /\ writer' = [writer EXCEPT ![w] = WriterOff]
    /\ UNCHANGED <<db, own, age, entry, index, reader, answer, serial>>

-----------------------------------------------------------------------------

HoldsRow(p) == reader[p].op \in {"store", "index", "track"}

\* Mutant: the entry is stored without a timeout
NeverExpire(e) == e

\* Redis drops an entry when its time is up
Expire(e) ==
    IF e.left <= 1 THEN NoEntry
    ELSE [about |-> e.about, version |-> e.version, left |-> e.left - 1]

Older(r) == Reading(r.op, r.ask, r.version, r.keys, r.wait + 1)

Tick ==
    /\ \A p \in Readers : HoldsRow(p) => reader[p].wait < Latency
    /\ age' = VR!Ages(db, age)
    /\ entry' = [k \in Keys |-> Expire(entry[k])]
    /\ reader' = [p \in Readers |-> IF HoldsRow(p) THEN Older(reader[p]) ELSE reader[p]]
    /\ UNCHANGED <<db, own, index, writer, answer, serial>>

ReaderStep(p) == Query(p) \/ Store(p) \/ ReadIndex(p) \/ Track(p)
WriterStep(w) == GetIndex(w) \/ DeleteKeys(w) \/ DropIndex(w)

Next ==
    \/ \E p \in Readers : (\E ask \in Asks : Hit(p, ask) \/ Miss(p, ask)) \/ ReaderStep(p)
    \/ \E w \in Writers : Commit(w) \/ WriterStep(w) \/ Crash(w)
    \/ CommitElsewhere
    \/ Tick

\* Time passes, and a request that is being answered is answered
Fairness == WF_vars(Tick) /\ \A p \in Readers : WF_vars(ReaderStep(p))

Spec == Init /\ [][Next]_vars

FairSpec == Spec /\ Fairness

-----------------------------------------------------------------------------
(* Properties.                                                             *)

\* What @cache_api promises whatever is lost, reordered or crashes: every
\* response is what the data was at most TTL + Latency ago.
AnswersBounded == VR!Spec

\* An entry can be served only while the version in it is young enough, and
\* what a reader is about to store is no older than its own query.
EntryFresh ==
    /\ \A k \in Keys : entry[k].left > 0 =>
          entry[k].version <= db /\ age[entry[k].version] + entry[k].left <= Window
    /\ \A p \in Readers : HoldsRow(p) =>
          reader[p].version <= db /\ age[reader[p].version] <= reader[p].wait

\* Where requests run one at a time and Redis answers, a write of the viewset's
\* own is seen by every request after it: between two requests every entry is
\* recorded in its index and none is older than that write.  (Another viewset's
\* write is seen when the entry's time is up.)
SerialReadsOwnWrites ==
    serial /\ Idle => \A k \in Keys :
        entry[k].left > 0 => k \in index[Scope(k)] /\ entry[k].version >= own

\* An overwritten version is gone from Redis at last, and no slow request
\* brings it back, even though an index update was lost or a writer died.
StaleEntryGoes ==
    \A v \in Versions :
        v < db ~> [](\A k \in Keys : entry[k].left > 0 => entry[k].version # v)

\* A response is about what was asked for: "every param that can affect the
\* response" is part of the key (keys.py).
AnswersTheRequest == answer.asked = answer.about

=============================================================================
