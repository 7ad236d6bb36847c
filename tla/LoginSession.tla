---------------------------- MODULE LoginSession ----------------------------
(***************************************************************************)
(* app/services/login_session: one login row is one session.  Every        *)
(* authenticated request, token refresh and heartbeat asks                 *)
(* validate_session whether the session has ended, from a cached copy of   *)
(* the row; heartbeats move its last activity; a logout, an idle verdict   *)
(* of validate_session and the periodic sweep close it.  None of them      *)
(* locks the row, and each database or cache call stands alone.            *)
(*                                                                         *)
(* Time is counted from the login.  The time stamped as the logout follows *)
(* from the verdict and is left out, and so are tokens minted before       *)
(* sessions were tracked.                                                  *)
(***************************************************************************)
EXTENDS Naturals, FiniteSets

CONSTANTS
    Workers,    \* threads of the web and Celery processes; a sweep runs in both
    TTL,        \* _STATE_TTL_SECONDS
    Idle,       \* LOGIN_IDLE_TIMEOUT_SECONDS
    Grace,      \* _IDLE_GRACE_SECONDS
    Lifetime,   \* session_lifetime()
    Delay,      \* longest a prompt browser's heartbeat is under way
    Latency,    \* longest a request takes to be decided and recorded
    MaxSent,    \* bound: heartbeats under way at once
    Horizon     \* bound: the clock stops here

ASSUME SessionConstants ==
    /\ {TTL, Idle, Grace, Lifetime, Delay, Latency, MaxSent, Horizon} \subseteq Nat
    /\ Idle > 0

\* With the code's 60 and 120 seconds: twice the delay of a heartbeat and three
\* times that of a request make no more than a minute
ASSUME GraceCovers == Grace >= TTL + 2 * Delay + 3 * Latency

VARIABLES
    now,        \* the clock
    row,        \* logout_type and last_activity_at of the login row
    cached,     \* the state cached under the session's key
    work,       \* the call each worker is in
    sent,       \* activity times of the heartbeats under way
    active,     \* when the user of a prompt browser last did something
    idled,      \* the user has once done nothing for as long as Idle
    since,      \* how long the row has been closed
    judged,     \* the last request was decided on an open (0) or closed (1) row
    limited,    \* a web session; a mobile session has no idle limit
    prompt      \* the browser reports activity at once and nothing is lost

vars == <<now, row, cached, work, sent, active, idled, since, judged, limited, prompt>>

-----------------------------------------------------------------------------

Time == 0..Horizon
Types == {"manual", "idle_timeout", "token_expired"}
Open == "open"
Window == TTL + 2 * Latency

Row(type, last) == [type |-> type, last |-> last]
State(seen, last, loaded) == [seen |-> seen, last |-> last, loaded |-> loaded]
NoState == State("none", 0, 0)
States == [seen : {"none", "open", "closed"}, last : Time, loaded : Time]

\* kind: what called; began: its clock; stamp: the reported activity; copy: the
\* state it holds; type: as what it is about to close the session
Call(op, kind, began, stamp, copy, type) ==
    [op |-> op, kind |-> kind, began |-> began, stamp |-> stamp, copy |-> copy, type |-> type]
Off == Call("idle", "use", 0, 0, NoState, Open)
Validating(op, kind, began, stamp, copy) == Call(op, kind, began, stamp, copy, Open)
Closing(op, kind, type) == Call(op, kind, 0, 0, NoState, type)
Ops == {"idle", "load", "put", "judge", "touch", "read", "write", "uncache"}
Calls == [op : Ops, kind : {"use", "beat", "logout", "sweep"}, began : Time, stamp : Time,
          copy : States, type : Types \cup {Open}]

Closed == row.type # Open

TypeOK ==
    /\ now \in Time
    /\ row \in [type : Types \cup {Open}, last : 0..now]
    /\ cached \in States
    /\ work \in [Workers -> Calls]
    /\ sent \subseteq Time
    /\ active \in 0..now
    /\ idled \in BOOLEAN
    /\ since \in 0..(Window + 1)
    /\ judged \in {0, 1}
    /\ limited \in BOOLEAN
    /\ prompt \in BOOLEAN

Init ==
    /\ now = 0
    /\ row = Row(Open, 0)
    /\ cached = NoState
    /\ work = [a \in Workers |-> Off]
    /\ sent = {}
    /\ active = 0
    /\ idled = FALSE
    /\ since = 0
    /\ judged = 0
    /\ limited \in BOOLEAN
    /\ prompt \in BOOLEAN /\ (prompt => limited)

\* The sessions that ended, for the reader of a versioned table
VR == INSTANCE VersionedRead WITH
        MaxVersion <- 1,
        version <- IF Closed THEN 1 ELSE 0,
        age <- [v \in 0..1 |-> IF v = 0 THEN since ELSE 0],
        seen <- judged

Do(a, call) == work' = [work EXCEPT ![a] = call]
Finish(a) == Do(a, Off)

-----------------------------------------------------------------------------
(* The user and the browser.                                               *)

\* The web client reports an activity by a heartbeat that carries its time; one
\* that is not prompt may have a clock that is ahead
Act(x) ==
    /\ limited
    /\ x \in sent \/ Cardinality(sent) < MaxSent
    /\ IF prompt THEN x = now /\ active' = now ELSE UNCHANGED active
    /\ sent' = sent \cup {x}
    /\ UNCHANGED <<now, row, cached, work, idled, since, judged, limited, prompt>>

Lose(x) ==
    /\ ~prompt /\ x \in sent
    /\ sent' = sent \ {x}
    /\ UNCHANGED <<now, row, cached, work, active, idled, since, judged, limited, prompt>>

Fresh(state, t) == state.seen # "none" /\ t <= state.loaded + TTL

Deciding(a) == work[a].op \in {"load", "put", "judge", "touch"}

\* Redis drops the state TTL after it was put there
Tick ==
    /\ now < Horizon
    /\ \A a \in Workers : Deciding(a) => now - work[a].began < Latency
    /\ prompt => \A x \in sent : now - x < Delay
    /\ now' = now + 1
    /\ idled' = (idled \/ (prompt /\ now + 1 - active >= Idle))
    /\ since' = IF Closed THEN VR!Aged(since) ELSE since
    /\ cached' = IF Fresh(cached, now + 1) THEN cached ELSE NoState
    /\ UNCHANGED <<row, work, sent, active, judged, limited, prompt>>

-----------------------------------------------------------------------------
(* validate_session.                                                       *)

\* The clock is read and the cache asked; only a fresh state is used
Validate(a, kind, stamp) ==
    IF Fresh(cached, now)
    THEN Do(a, Validating("judge", kind, now, stamp, State(cached.seen, cached.last, 0)))
    ELSE Do(a, Validating("load", kind, now, stamp, NoState))

\* An authenticated request, or the refresh of its token
Use(a) ==
    /\ work[a].op = "idle"
    /\ Validate(a, "use", 0)
    /\ UNCHANGED <<now, row, cached, sent, active, idled, since, judged, limited, prompt>>

Heartbeat(a, x) ==
    /\ work[a].op = "idle"
    /\ x \in sent
    /\ sent' = sent \ {x}
    /\ Validate(a, "beat", x)
    /\ UNCHANGED <<now, row, cached, active, idled, since, judged, limited, prompt>>

InRow == State(IF Closed THEN "closed" ELSE "open", row.last, 0)

\* _load_state: the row is read, and only then is loaded_at taken
Load(a) ==
    LET c == work[a]
    IN  /\ c.op = "load"
        /\ Do(a, Validating("put", c.kind, c.began, c.stamp, InRow))
        /\ UNCHANGED <<now, row, cached, sent, active, idled, since, judged, limited, prompt>>

Put(a) ==
    LET c == work[a]
    IN  /\ c.op = "put"
        /\ cached' = State(c.copy.seen, c.copy.last, now)
        /\ Do(a, Validating("judge", c.kind, c.began, c.stamp, c.copy))
        /\ UNCHANGED <<now, row, sent, active, idled, since, judged, limited, prompt>>

\* Mutant: no tolerance for the heartbeats
IdleAtOnce(last, t) == limited /\ t > last + Idle

IdleTooLong(last, t) == limited /\ t > last + Idle + Grace

Refuse(a) ==
    LET c == work[a]
    IN  /\ c.op = "judge" /\ c.copy.seen = "closed"
        /\ judged' = 1
        /\ Finish(a)
        /\ UNCHANGED <<now, row, cached, sent, active, idled, since, limited, prompt>>

\* The session ended when the limit ran out after the last activity known
Expire(a) ==
    LET c == work[a]
    IN  /\ c.op = "judge" /\ c.copy.seen = "open"
        /\ IdleTooLong(c.copy.last, c.began)
        /\ Do(a, Closing("read", c.kind, "idle_timeout"))
        /\ UNCHANGED <<now, row, cached, sent, active, idled, since, judged, limited, prompt>>

\* A request goes on to its view; a heartbeat goes on to be recorded
Accept(a) ==
    LET c == work[a]
    IN  /\ c.op = "judge" /\ c.copy.seen = "open"
        /\ ~IdleTooLong(c.copy.last, c.began)
        /\ judged' = 0
        /\ IF c.kind = "beat"
           THEN Do(a, Validating("touch", "beat", c.began, c.stamp, NoState))
           ELSE Finish(a)
        /\ UNCHANGED <<now, row, cached, sent, active, idled, since, limited, prompt>>

\* Mutant: the client's clock is trusted
ReportedAhead(x) == x

\* _parse_client_time
Reported(x) == IF x < now THEN x ELSE now

\* Mutant: the whole row is saved from the copy
TouchSaves(a) ==
    /\ work[a].op = "touch"
    /\ row' = Row(Open, Reported(work[a].stamp))
    /\ Do(a, Closing("uncache", "beat", Open))
    /\ UNCHANGED <<now, cached, sent, active, idled, since, judged, limited, prompt>>

\* touch_session: only an open row takes the activity
Touch(a) ==
    /\ work[a].op = "touch"
    /\ row' = IF Closed THEN row ELSE Row(row.type, Reported(work[a].stamp))
    /\ Do(a, Closing("uncache", "beat", Open))
    /\ UNCHANGED <<now, cached, sent, active, idled, since, judged, limited, prompt>>

-----------------------------------------------------------------------------
(* close_session, and who calls it.                                        *)

\* The web client says manual or, when the limit is reached, idle; a reason of
\* token_expired is handled as manual is
Logout(a, reason) ==
    /\ work[a].op = "idle"
    /\ prompt /\ reason = "idle_timeout" => active + Idle <= now
    /\ Do(a, Closing("read", "logout", reason))
    /\ UNCHANGED <<now, row, cached, sent, active, idled, since, judged, limited, prompt>>

Deadline == row.last + Idle
IdleDue == limited /\ Deadline <= Lifetime /\ Deadline + Grace < now

\* close_stale_sessions lists the open rows and decides on what it read
SweepIdle(a) ==
    /\ work[a].op = "idle" /\ ~Closed
    /\ IdleDue
    /\ Do(a, Closing("read", "sweep", "idle_timeout"))
    /\ UNCHANGED <<now, row, cached, sent, active, idled, since, judged, limited, prompt>>

SweepExpired(a) ==
    /\ work[a].op = "idle" /\ ~Closed
    /\ ~IdleDue /\ Lifetime < now
    /\ Do(a, Closing("read", "sweep", "token_expired"))
    /\ UNCHANGED <<now, row, cached, sent, active, idled, since, judged, limited, prompt>>

Read(a) ==
    /\ work[a].op = "read"
    /\ Do(a, Closing(IF Closed THEN "uncache" ELSE "write", work[a].kind, work[a].type))
    /\ UNCHANGED <<now, row, cached, sent, active, idled, since, judged, limited, prompt>>

\* The copy was open when it was read; the row is not looked at again
Write(a) ==
    /\ work[a].op = "write"
    /\ row' = Row(work[a].type, row.last)
    /\ Do(a, Closing("uncache", work[a].kind, work[a].type))
    /\ UNCHANGED <<now, cached, sent, active, idled, since, judged, limited, prompt>>

\* The end of touch_session and of close_session
Uncache(a) ==
    LET c == work[a]
    IN  /\ c.op = "uncache"
        /\ cached' = NoState
        /\ judged' = IF c.kind \in {"use", "beat"} /\ c.type # Open THEN 1 ELSE judged
        /\ Finish(a)
        /\ UNCHANGED <<now, row, sent, active, idled, since, limited, prompt>>

\* A process dies; a prompt browser's heartbeat is not among what is lost
Die(a) ==
    /\ work[a].op # "idle"
    /\ ~(prompt /\ work[a].kind = "beat")
    /\ Finish(a)
    /\ UNCHANGED <<now, row, cached, sent, active, idled, since, judged, limited, prompt>>

-----------------------------------------------------------------------------

Step(a) ==
    \/ Load(a) \/ Put(a) \/ Refuse(a) \/ Expire(a) \/ Accept(a) \/ Touch(a)
    \/ Read(a) \/ Write(a) \/ Uncache(a)

Sweep(a) == SweepIdle(a) \/ SweepExpired(a)

Next ==
    \/ (\E x \in {now, Horizon} : Act(x)) \/ Tick \/ \E x \in sent : Lose(x)
    \/ \E a \in Workers :
          \/ Use(a) \/ \E x \in sent : Heartbeat(a, x)
          \/ \E reason \in {"manual", "idle_timeout"} : Logout(a, reason)
          \/ Sweep(a) \/ Step(a) \/ Die(a)

Spec == Init /\ [][Next]_vars

-----------------------------------------------------------------------------
(* Properties.                                                             *)

\* A session that has ended is refused: however a slow validation puts back
\* the state that a logout removed from the cache, no request is let in on a
\* row that was closed more than TTL + 2 * Latency ago, and none reopens it.
EndedSessionRefused == VR!Spec

\* A user who never stops for Idle is never logged out as idle, neither by
\* validate_session nor by the sweep, on whatever stale state they decide
\* and in whatever order the heartbeats arrive (_IDLE_GRACE_SECONDS).
NeverIdledOut ==
    prompt /\ ~idled =>
        /\ row.type # "idle_timeout"
        /\ \A a \in Workers : work[a].type # "idle_timeout"

=============================================================================
