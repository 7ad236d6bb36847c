---------------------------- MODULE VersionedRead ----------------------------
(***************************************************************************)
(* What a cache of a database promises its readers: a value served is one  *)
(* the database held at some moment of the last Window units of time.      *)
(***************************************************************************)
EXTENDS Naturals

CONSTANTS
    MaxVersion, \* bound: writes that may happen
    Window      \* how long ago a served value may have been overwritten

VARIABLES
    version,    \* the version the database holds
    age,        \* age[v]: time since version v was overwritten, 0 while it is not
    seen        \* the version last served to a reader

Versions == 0..MaxVersion

\* Ages are not told apart beyond the window
Aged(a) == IF a > Window THEN a ELSE a + 1

Ages(now, a) == [v \in Versions |-> IF v < now THEN Aged(a[v]) ELSE a[v]]

Init ==
    /\ version = 0
    /\ age = [v \in Versions |-> 0]
    /\ seen = 0

Publish ==
    /\ version < MaxVersion
    /\ version' = version + 1
    /\ UNCHANGED <<age, seen>>

Elapse ==
    /\ age' = Ages(version, age)
    /\ UNCHANGED <<version, seen>>

Serve(v) ==
    /\ v <= version
    /\ age[v] <= Window
    /\ seen' = v
    /\ UNCHANGED <<version, age>>

Next == Publish \/ Elapse \/ \E v \in Versions : Serve(v)

Spec == Init /\ [][Next]_<<version, age, seen>>

=============================================================================
