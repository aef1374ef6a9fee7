---------------------------- MODULE McpSupervisor ----------------------------
(***************************************************************************)
(* One MCP server's start, stop and restart: the supervisor                *)
(* (server/mcp/supervisor.py), the session manager it opens sessions with  *)
(* (server/mcp/session.py), the listing lock (server/mcp/discovery.py) and *)
(* the user's verbs (server/services/mcp_service.py).                      *)
(*                                                                         *)
(* A generation number is only ever compared with the newest one, so the   *)
(* model keeps who moved it last (cur).  An epoch of the session manager   *)
(* is likewise a mark on the starts that a drop overtook.                  *)
(***************************************************************************)
EXTENDS Integers, FiniteSets

CONSTANTS
    MaxPlans,           \* bound: start plans that exist at once, cancelled ones included
    MaxVerbs,           \* bound: the user's verbs under way at once
    Gaps,               \* len(FIRST_START_GAPS_S): further attempts of a first plan
    MaxReconnects,      \* MAX_RECONNECTS
    WritesMayFail,      \* a state write may raise (a locked database)
    MaxEvents           \* bound: the user's verbs, calls that fail, probes that drop the session,
                        \* re-lists and state writes that fail, together

ASSUME SupervisorAssumption ==
    /\ MaxPlans \in Nat \ {0}
    /\ {MaxVerbs, Gaps, MaxReconnects, MaxEvents} \subseteq Nat /\ WritesMayFail \in BOOLEAN

Nobody == 0
Plan == 1 .. MaxPlans
UserVerb == MaxPlans + 1 .. MaxPlans + MaxVerbs
GiveUp == MaxPlans + MaxVerbs + 1
Verb == UserVerb \union {GiveUp}
Someone == Plan \union Verb
Relister == MaxPlans + MaxVerbs + 2

\* needs_auth is written, probed and left as parked is: "parked" stands for both.
Failures == {"failed", "parked"}
States == {"off", "starting", "ready"} \union Failures

VARIABLES
    \* --- the MCPServer row
    exists, allowed, state,
    \* --- the supervisor
    plan,               \* the plans (_run)
    inflight,           \* _inflight[sid]
    attempt,            \* whose future is _attempt_fut[sid]
    cur,                \* who moved _gen[sid] last
    setLock,            \* who is inside _set
    verb,               \* the verbs under way
    reconnects,
    tick, tickMoved,    \* the state the tick read, and whether the generation moved since
    \* --- the session manager and the listing
    session,            \* a live session is cached
    listing,            \* who holds the listing lock: a plan or the re-list
    dying,              \* a call dropped its session and has not told the supervisor yet
    relist, relistMoved,
    \* --- bounds and history
    events,
    stopped             \* the user switched the server off and has not stopped it since

rowVars == <<exists, allowed, state>>
supVars == <<inflight, attempt, cur, setLock, reconnects>>
tickVars == <<tick, tickMoved>>
sessionVars == <<session, listing, dying, relist, relistMoved>>
ghostVars == <<events, stopped>>
vars == <<rowVars, plan, supVars, verb, tickVars, sessionVars, ghostVars>>

Pcs == {"idle", "queued", "read", "mark", "marking", "open", "opening", "listing", "settle",
        "settling", "sleep", "ending"}

TypeOK ==
    /\ exists \in BOOLEAN /\ allowed \in BOOLEAN /\ state \in States
    /\ plan \in [Plan -> [pc : Pcs, kind : {"first", "once", "restart"}, result : States,
                          over : {"no", "before", "during"}, stopping : BOOLEAN, tries : 0 .. Gaps]]
    /\ inflight \in Plan \union {Nobody} /\ attempt \in Plan \union {Nobody}
    /\ cur \in Someone \union {Nobody} /\ setLock \in Someone \union {Nobody}
    /\ verb \in [Verb -> [pc : {"idle", "begin", "wait", "check", "set", "setting"},
                          kind : {"none", "off", "on", "forget", "giveUp"},
                          waits : Plan \union {Nobody}, running : BOOLEAN]]
    /\ reconnects \in 0 .. MaxReconnects + 1
    /\ tick \in States \union {"idle"} /\ tickMoved \in BOOLEAN
    /\ session \in BOOLEAN /\ listing \in Plan \union {Nobody, Relister} /\ dying \in BOOLEAN
    /\ relist \in {"idle", "listing", "failed"} /\ relistMoved \in BOOLEAN
    /\ events \in 0 .. MaxEvents /\ stopped \in BOOLEAN

NoPlan == [pc |-> "idle", kind |-> "once", result |-> "off", over |-> "no", stopping |-> FALSE, tries |-> 0]
\* _run up to its first await: the user's own start does not queue for a slot.
NewOf(kind) == [NoPlan EXCEPT !.pc = IF kind = "restart" THEN "read" ELSE "queued", !.kind = kind]
NoVerb == [pc |-> "idle", kind |-> "none", waits |-> Nobody, running |-> FALSE]

\* reset_for_boot has run, or failed, which leaves the last run's `ready`; start_all
\* has given a switched-on server its first plan.
Init ==
    /\ exists = TRUE /\ allowed \in BOOLEAN
    /\ state \in (IF allowed THEN {"starting", "ready"} ELSE {"off", "ready"})
    /\ plan = [p \in Plan |-> IF allowed /\ p = 1 THEN NewOf("first") ELSE NoPlan]
    /\ inflight = (IF allowed THEN 1 ELSE Nobody) /\ attempt = inflight /\ cur = inflight
    /\ setLock = Nobody /\ reconnects = 0
    /\ verb = [v \in Verb |-> NoVerb]
    /\ tick = "idle" /\ tickMoved = FALSE
    /\ session = FALSE /\ listing = Nobody /\ dying = FALSE /\ relist = "idle" /\ relistMoved = FALSE
    /\ events = 0 /\ stopped = FALSE

-----------------------------------------------------------------------------
(* Shared pieces. *)

\* _bump: a tick and a re-list under way see that the generation moved.
Bump(w) == cur' = w /\ tickMoved' = (tick # "idle") /\ relistMoved' = (relist # "idle")

\* MCPSessionManager.drop: an open still running will not cache, a listing ends.
Overtaken(pl) ==
    [p \in Plan |-> CASE pl[p].pc = "open" -> [pl[p] EXCEPT !.over = "before"]
                      [] pl[p].pc \in {"opening", "listing"} -> [pl[p] EXCEPT !.over = "during"]
                      [] OTHER -> pl[p]]

\* cancel() of a plan: it unwinds at its next step (where it holds no lock and no
\* session, how far it had come no longer matters).
Stopped(pl, p) ==
    IF p = Nobody THEN pl
    ELSE [pl EXCEPT ![p].stopping = TRUE,
                    ![p].pc = IF @ \in {"marking", "opening", "listing", "settling"} THEN @ ELSE "ending"]

\* Mutant of Replaced: the plan in flight is left running.
Replaced_LeftRunning(pl) == pl

\* _new_plan cancels the plan in flight.
Replaced(pl) == Stopped(pl, inflight)

\* _new_plan: a new plan in a free slot, of the newest generation.
NewPlan(kind) ==
    \E p \in Plan :
        /\ plan[p].pc = "idle" /\ \A q \in 1 .. p - 1 : plan[q].pc # "idle"
        /\ plan' = [Replaced(plan) EXCEPT ![p] = NewOf(kind)]
        /\ inflight' = p /\ attempt' = p /\ Bump(p)

\* _plan_done and the attempt's finally: what a plan that ended leaves.
Ended(p) ==
    /\ inflight' = IF inflight = p THEN Nobody ELSE inflight
    /\ attempt' = IF attempt = p THEN Nobody ELSE attempt

\* Something happens to the server.
Event == events < MaxEvents /\ events' = events + 1

Free(lock, w) == IF lock = w THEN Nobody ELSE lock

-----------------------------------------------------------------------------
(* A plan: attempts to start the server. *)

At(p, pc) == plan[p].pc = pc /\ ~plan[p].stopping
Go(p, pc) == plan' = [plan EXCEPT ![p].pc = pc]
Gives(p, r) == plan' = [plan EXCEPT ![p].pc = "settle", ![p].result = r]

\* _attempt_limited: one of the MAX_CONCURRENT slots.
GetSlot(p) ==
    /\ At(p, "queued") /\ Go(p, "read")
    /\ UNCHANGED <<rowVars, supVars, verb, tickVars, sessionVars, ghostVars>>

\* _attempt reads the row.  A switched-off server is not started by a background
\* plan, and the current one leaves no session running under the `off` it writes.
ReadRow(p) ==
    /\ At(p, "read")
    /\ LET off == [plan EXCEPT ![p].pc = "settle", ![p].result = "off"]
       IN  \/ /\ exists /\ (allowed \/ plan[p].kind = "restart")
              /\ Go(p, "mark") /\ UNCHANGED session
           \/ /\ exists /\ ~allowed /\ plan[p].kind # "restart" /\ cur = p
              /\ plan' = Overtaken(off) /\ session' = FALSE
           \/ /\ exists /\ ~allowed /\ plan[p].kind # "restart" /\ cur # p
              /\ plan' = off /\ UNCHANGED session
           \/ ~exists /\ plan' = off /\ UNCHANGED session
    /\ UNCHANGED <<rowVars, supVars, verb, tickVars, listing, dying, relist, relistMoved, ghostVars>>

\* _set: the generation is checked under the lock that is kept until the commit.
MayWrite(w) == setLock = Nobody /\ cur = w

\* A fresh process: the cached session goes.
Fresh(p) ==
    /\ session' = FALSE
    /\ plan' = [Overtaken(plan) EXCEPT ![p].pc = "open", ![p].over = "no"]

\* `starting` is written, by the current plan only, and the old session dropped.
MarkEnter(p) ==
    /\ At(p, "mark") /\ setLock = Nobody
    /\ \/ cur = p /\ setLock' = p /\ Go(p, "marking") /\ UNCHANGED session
       \/ cur # p /\ UNCHANGED setLock /\ Fresh(p)
    /\ UNCHANGED <<rowVars, inflight, attempt, cur, reconnects, verb, tickVars, listing, dying, relist,
                   relistMoved, ghostVars>>

Write(s) == state' = IF exists THEN s ELSE state

MarkCommit(p) ==
    /\ At(p, "marking") /\ Write("starting") /\ setLock' = Nobody /\ Fresh(p)
    /\ UNCHANGED <<exists, allowed, inflight, attempt, cur, reconnects, verb, tickVars, listing, dying,
                   relist, relistMoved, ghostVars>>

\* connect_and_discover, under the listing lock: the row is gone (ServerGone), the
\* server is held for review (parked), or the open begins.
OpenBegin(p) ==
    /\ At(p, "open") /\ listing = Nobody
    /\ \/ ~exists /\ session' = FALSE /\ UNCHANGED listing
          /\ plan' = Overtaken([plan EXCEPT ![p].pc = "settle", ![p].result = "off"])
       \/ exists /\ Gives(p, "parked") /\ UNCHANGED <<session, listing>>
       \/ exists /\ Go(p, "opening") /\ listing' = p /\ UNCHANGED session
    /\ UNCHANGED <<rowVars, supVars, verb, tickVars, dying, relist, relistMoved, ghostVars>>

\* _entry: an open that a drop or a forget overtook is closed, never cached.
MayCache(p) == plan[p].over # "during"

OpenOk(p) ==
    /\ At(p, "opening")
    /\ \/ MayCache(p) /\ session' = TRUE /\ Go(p, "listing") /\ UNCHANGED listing
       \/ ~MayCache(p) /\ Gives(p, "starting") /\ listing' = Nobody /\ UNCHANGED session
    /\ UNCHANGED <<rowVars, supVars, verb, tickVars, dying, relist, relistMoved, ghostVars>>

OpenFails(p, r) ==
    /\ At(p, "opening") /\ Gives(p, r) /\ listing' = Nobody
    /\ UNCHANGED <<rowVars, supVars, verb, tickVars, session, dying, relist, relistMoved, ghostVars>>

\* list_tools and _write succeeded.  A superseded start closes what it opened unless
\* a newer plan does; one whose session was dropped meanwhile has failed.
ListOk(p) ==
    LET newer == inflight \notin {Nobody, p}
        pl(r) == [plan EXCEPT ![p].pc = "settle", ![p].result = r]
    IN  /\ At(p, "listing") /\ listing' = Nobody
        /\ \/ cur # p /\ ~newer /\ session' = FALSE /\ plan' = Overtaken(pl("starting"))
           \/ cur # p /\ newer /\ UNCHANGED session /\ plan' = pl("starting")
           \/ cur = p /\ UNCHANGED session
              /\ plan' = pl(IF plan[p].over = "no" THEN "ready" ELSE "failed")
        /\ UNCHANGED <<rowVars, supVars, verb, tickVars, dying, relist, relistMoved, ghostVars>>

\* A page failed, or the tools changed: the session it ran on is dropped.
ListFails(p, r) ==
    /\ At(p, "listing") /\ listing' = Nobody /\ session' = FALSE
    /\ plan' = Overtaken([plan EXCEPT ![p].pc = "settle", ![p].result = r])
    /\ UNCHANGED <<rowVars, supVars, verb, tickVars, dying, relist, relistMoved, ghostVars>>

\* A first plan tries again after a failed attempt.
Again(p) == plan[p].kind = "first" /\ plan[p].result = "failed" /\ plan[p].tries < Gaps

AfterAttempt(p) ==
    IF Again(p)
    THEN /\ Go(p, "sleep") /\ attempt' = Free(attempt, p) /\ UNCHANGED inflight
    ELSE /\ plan' = [plan EXCEPT ![p] = NoPlan] /\ Ended(p)

\* _settle: an overtaken start and a superseded one write nothing.
SettleEnter(p) ==
    /\ At(p, "settle")
    /\ \/ plan[p].result # "starting" /\ MayWrite(p) /\ setLock' = p /\ Go(p, "settling")
          /\ UNCHANGED <<inflight, attempt>>
       \/ (plan[p].result = "starting" \/ (setLock = Nobody /\ cur # p))
          /\ AfterAttempt(p) /\ UNCHANGED setLock
    /\ UNCHANGED <<rowVars, cur, reconnects, verb, tickVars, sessionVars, ghostVars>>

Settled(p) == IF Again(p) THEN "starting" ELSE plan[p].result

SettleCommit(p) ==
    /\ At(p, "settling") /\ Write(Settled(p)) /\ setLock' = Nobody /\ AfterAttempt(p)
    /\ UNCHANGED <<exists, allowed, cur, reconnects, verb, tickVars, sessionVars, ghostVars>>

SleepOver(p) ==
    /\ At(p, "sleep")
    /\ plan' = [plan EXCEPT ![p].pc = "queued", ![p].tries = @ + 1] /\ attempt' = p
    /\ UNCHANGED <<rowVars, inflight, cur, setLock, reconnects, verb, tickVars, sessionVars, ghostVars>>

\* The write raised: the plan crashes.
WriteFails(p) ==
    /\ plan[p].pc \in {"marking", "settling"} /\ ~plan[p].stopping /\ WritesMayFail /\ Event
    /\ setLock' = Nobody
    /\ plan' = [plan EXCEPT ![p] = NoPlan] /\ Ended(p)
    /\ UNCHANGED <<rowVars, cur, reconnects, verb, tickVars, sessionVars, stopped>>

\* A cancelled plan ends.  A listing drops the session it ran on; a write on its way
\* may still land; whoever awaits the plan goes on.
Unwind(p) ==
    /\ plan[p].stopping /\ plan[p].pc # "idle"
    /\ \/ UNCHANGED state
       \/ plan[p].pc = "marking" /\ Write("starting")
       \/ plan[p].pc = "settling" /\ Write(Settled(p))
    /\ LET pl == [plan EXCEPT ![p] = NoPlan]
           cut == plan[p].pc = "listing" /\ session
       IN  /\ plan' = IF cut THEN Overtaken(pl) ELSE pl
           /\ session' = (session /\ ~cut)
    /\ Ended(p)
    /\ setLock' = Free(setLock, p) /\ listing' = Free(listing, p)
    /\ verb' = [v \in Verb |-> [verb[v] EXCEPT !.waits = Free(@, p)]]
    /\ UNCHANGED <<exists, allowed, cur, reconnects, tickVars, dying, relist, relistMoved, ghostVars>>

-----------------------------------------------------------------------------
(* The verbs: the switch, delete, Connect, an edit, and the supervisor giving up. *)

Busy == \E v \in Verb : verb[v].kind \in {"off", "forget", "giveUp"} /\ verb[v].pc \in {"wait", "set", "setting"}

Step(v, pc) == verb' = [verb EXCEPT ![v].pc = pc]
Finish(v) == verb' = [verb EXCEPT ![v] = NoVerb]

\* The user's next verb.
Starts(v) == v \in UserVerb /\ verb[v].pc = "idle" /\ \A u \in UserVerb : u < v => verb[u].pc # "idle"

\* set_host_allowed commits the switch, delete_server the delete, before the supervisor is told.
Ask(v, kind) ==
    /\ Event /\ Starts(v) /\ exists
    /\ verb' = [verb EXCEPT ![v].pc = "begin", ![v].kind = kind]
    /\ allowed' = (kind = "on")
    /\ exists' = (kind # "forget") /\ state' = IF kind = "forget" THEN "off" ELSE state
    /\ UNCHANGED <<plan, supVars, tickVars, sessionVars, stopped>>

\* set_enabled(off), forget and _give_up: the generation moves and the plan is cancelled.
StopBegin(v) ==
    /\ verb[v].pc = "begin" /\ verb[v].kind \in {"off", "forget", "giveUp"}
    /\ Bump(v)
    /\ plan' = Stopped(plan, inflight) /\ inflight' = Nobody
    /\ verb' = [verb EXCEPT ![v].pc = "wait", ![v].waits = inflight]
    /\ stopped' = (stopped \/ verb[v].kind = "off")
    /\ UNCHANGED <<rowVars, attempt, setLock, reconnects, tick, session, listing, dying, relist, events>>

\* Once the plan has unwound: off and forget drop the session, give-up writes first.
StopDrop(v) ==
    /\ verb[v].pc = "wait" /\ verb[v].waits = Nobody
    /\ \/ verb[v].kind = "off" /\ Step(v, "set") /\ session' = FALSE /\ plan' = Overtaken(plan)
          /\ UNCHANGED reconnects
       \/ verb[v].kind = "forget" /\ Finish(v) /\ session' = FALSE /\ plan' = Overtaken(plan)
          /\ reconnects' = 0
       \/ verb[v].kind = "giveUp" /\ Step(v, "set") /\ reconnects' = 0 /\ UNCHANGED <<session, plan>>
    /\ UNCHANGED <<rowVars, inflight, attempt, cur, setLock, tickVars, listing, dying, relist, relistMoved, ghostVars>>

\* Mutant of VerbEnter: the generation is checked without the lock.
VerbEnter_Unlocked(v) ==
    /\ verb[v].pc = "set"
    /\ IF cur = v THEN Step(v, "setting") ELSE Finish(v)
    /\ UNCHANGED <<rowVars, plan, supVars, tickVars, sessionVars, ghostVars>>

\* _set of a verb, its check; a superseded verb ends.
VerbEnter(v) ==
    /\ verb[v].pc = "set" /\ setLock = Nobody
    /\ \/ MayWrite(v) /\ setLock' = v /\ Step(v, "setting")
       \/ cur # v /\ UNCHANGED setLock /\ Finish(v)
    /\ UNCHANGED <<rowVars, plan, inflight, attempt, cur, reconnects, tickVars, sessionVars, ghostVars>>

\* ... and its commit, which fails with the database.  Give-up drops the session
\* afterwards either way, unless a newer plan has started.
VerbCommit(v) ==
    /\ verb[v].pc = "setting" /\ verb[v].kind \in {"off", "giveUp"}
    /\ \/ Write(IF v = GiveUp THEN "failed" ELSE "off") /\ UNCHANGED events
       \/ WritesMayFail /\ Event /\ UNCHANGED state
    /\ setLock' = Free(setLock, v)
    /\ LET cut == v = GiveUp /\ cur = v
       IN  session' = (session /\ ~cut) /\ plan' = IF cut THEN Overtaken(plan) ELSE plan
    /\ Finish(v)
    /\ UNCHANGED <<exists, allowed, inflight, attempt, cur, reconnects, tickVars, listing, dying, relist,
                   relistMoved, stopped>>

\* set_enabled(on): nothing to do for a server that runs or starts.
OnBegin(v) ==
    /\ verb[v].pc = "begin" /\ verb[v].kind = "on"
    /\ LET running == session \/ inflight # Nobody
       IN  IF running
           THEN /\ verb' = [verb EXCEPT ![v].pc = "check", ![v].running = TRUE]
                /\ UNCHANGED <<cur, tickMoved, relistMoved>>
           ELSE Step(v, "set") /\ Bump(v)
    /\ UNCHANGED <<rowVars, plan, inflight, attempt, setLock, reconnects, tick, session, listing,
                   dying, relist, ghostVars>>

OnCheck(v) ==
    /\ verb[v].pc = "check"
    /\ IF exists /\ state \in {"starting", "ready"}
       THEN Finish(v) /\ UNCHANGED <<cur, tickMoved, relistMoved>>
       ELSE Step(v, "set") /\ Bump(v)
    /\ UNCHANGED <<rowVars, plan, inflight, attempt, setLock, reconnects, tick, session, listing,
                   dying, relist, ghostVars>>

\* `starting` is written and the server scheduled; a failed write schedules nothing.
OnCommit(v) ==
    /\ verb[v].pc = "setting" /\ verb[v].kind = "on"
    /\ Finish(v) /\ setLock' = Free(setLock, v)
    /\ \/ /\ Write("starting") /\ UNCHANGED events
          /\ \/ verb[v].running /\ NewPlan("once")
             \/ ~verb[v].running /\ inflight = Nobody /\ ~session /\ NewPlan("first")
             \/ ~verb[v].running /\ (inflight # Nobody \/ session)
                /\ UNCHANGED <<plan, inflight, attempt, cur, tickMoved, relistMoved>>
       \/ /\ WritesMayFail /\ Event
          /\ UNCHANGED <<state, plan, inflight, attempt, cur, tickMoved, relistMoved>>
    /\ UNCHANGED <<exists, allowed, reconnects, tick, session, listing, dying, relist, stopped>>

\* restart (Connect, Reconnect): joins an attempt that runs, otherwise replaces the plan.
Connect ==
    /\ Event /\ exists
    /\ UNCHANGED verb /\ stopped' = FALSE
    /\ IF attempt = Nobody \/ plan[attempt].pc = "queued"
       THEN NewPlan("restart")
       ELSE UNCHANGED <<plan, inflight, attempt, cur, tickMoved, relistMoved>>
    /\ UNCHANGED <<rowVars, setLock, reconnects, tick, session, listing, dying, relist>>

\* restart_after_edit: the fresh start first, then the drop.
EditSchedules ==
    /\ Event /\ exists
    /\ UNCHANGED verb /\ NewPlan("once") /\ session' = FALSE
    /\ UNCHANGED <<rowVars, setLock, reconnects, tick, listing, dying, relist, stopped>>

-----------------------------------------------------------------------------
(* Sessions that die, re-lists, the tick and the boot. *)

LoseSession == session /\ session' = FALSE /\ plan' = Overtaken(plan)

\* call_tool failed: _drop_after_call drops the session, then tells the supervisor.
CallFails ==
    /\ Event /\ LoseSession /\ ~dying /\ dying' = TRUE
    /\ UNCHANGED <<rowVars, supVars, verb, tickVars, listing, relist, relistMoved, stopped>>

\* A listing outside the supervisor failed (the health probe): nobody is told.
SilentDrop ==
    /\ Event /\ LoseSession
    /\ UNCHANGED <<rowVars, supVars, verb, tickVars, listing, dying, relist, relistMoved, stopped>>

\* _on_dropped: a fresh start, or giving up after too many real drops.
OnDropped ==
    \/ /\ reconnects >= MaxReconnects /\ verb[GiveUp].pc = "idle"
       /\ verb' = [verb EXCEPT ![GiveUp].pc = "begin", ![GiveUp].kind = "giveUp"]
       /\ reconnects' = MaxReconnects + 1
       /\ UNCHANGED <<plan, inflight, attempt, cur, tickMoved, relistMoved>>
    \/ /\ NewPlan("once")
       /\ \/ UNCHANGED reconnects
          \/ reconnects < MaxReconnects /\ reconnects' = reconnects + 1
       /\ UNCHANGED verb

CallTold ==
    /\ dying /\ dying' = FALSE /\ OnDropped
    /\ UNCHANGED <<rowVars, setLock, tick, session, listing, relist, ghostVars>>

\* _relist on the live session, when no attempt runs.
RelistBegin ==
    /\ Event
    /\ relist = "idle" /\ session /\ attempt = Nobody /\ listing = Nobody
    /\ relist' = "listing" /\ relistMoved' = FALSE /\ listing' = Relister
    /\ UNCHANGED <<rowVars, plan, supVars, verb, tickVars, session, dying, stopped>>

RelistEnds ==
    /\ relist = "listing" /\ listing' = Nobody
    /\ \/ relist' = "idle" /\ UNCHANGED <<session, plan>>
       \/ relist' = "failed" /\ IF session THEN LoseSession ELSE UNCHANGED <<session, plan>>
    /\ UNCHANGED <<rowVars, supVars, verb, tickVars, dying, relistMoved, ghostVars>>

\* A re-list that finds its session gone restarts the server, unless somebody
\* dropped it on purpose or is starting it.
RelistSawDeath == ~session /\ attempt = Nobody /\ ~relistMoved

RelistTold ==
    /\ relist = "failed" /\ relist' = "idle"
    /\ IF RelistSawDeath THEN OnDropped
       ELSE UNCHANGED <<plan, inflight, attempt, cur, tickMoved, relistMoved, verb, reconnects>>
    /\ UNCHANGED <<rowVars, setLock, tick, session, listing, dying, ghostVars>>

\* Mutant of TickSees: a `ready` row is taken at its word.
TickSees_NotReady == state # "ready" /\ (state = "starting" \/ allowed)

\* Mutant of TickSees: only retries that are due.
TickSees_Retries == state \in Failures /\ allowed

\* The rows the tick looks at: a retry that is due, a `starting` or a `ready`
\* nobody may answer for, and a switched-on server still `off`.
TickSees == state \in {"starting", "ready"} \/ allowed

\* _tick reads the rows ...
TickReads ==
    /\ tick = "idle" /\ exists
    /\ TickSees
    /\ tick' = state /\ tickMoved' = FALSE
    /\ UNCHANGED <<rowVars, plan, supVars, verb, sessionVars, ghostVars>>

\* _still: nothing has acted on the server since.
Still == exists /\ state = tick /\ ~Busy /\ ~tickMoved

\* ... and starts the server if that still holds and no start is on its way.
TickActs ==
    /\ tick # "idle" /\ tick' = "idle"
    /\ IF /\ Still /\ inflight = Nobody
          /\ tick = "ready" => ~session /\ attempt = Nobody
          /\ tick = "off" => attempt = Nobody
       THEN NewPlan("once") ELSE UNCHANGED <<plan, inflight, attempt, cur, tickMoved, relistMoved>>
    /\ UNCHANGED <<rowVars, setLock, reconnects, verb, session, listing, dying, relist, ghostVars>>

-----------------------------------------------------------------------------
PlanStep(p) ==
    \/ GetSlot(p) \/ ReadRow(p) \/ MarkEnter(p) \/ MarkCommit(p)
    \/ OpenBegin(p) \/ OpenOk(p) \/ ListOk(p) \/ SettleEnter(p) \/ SettleCommit(p) \/ SleepOver(p)
    \/ WriteFails(p) \/ Unwind(p)
    \/ \E r \in Failures : OpenFails(p, r) \/ ListFails(p, r)

VerbStep(v) ==
    \/ StopBegin(v) \/ StopDrop(v) \/ VerbEnter(v) \/ VerbCommit(v)
    \/ OnBegin(v) \/ OnCheck(v) \/ OnCommit(v)

TickStep == TickReads \/ TickActs

Next ==
    \/ TickStep \/ CallFails \/ SilentDrop \/ CallTold
    \/ RelistBegin \/ RelistEnds \/ RelistTold
    \/ \E p \in Plan : PlanStep(p)
    \/ Connect \/ EditSchedules
    \/ \E v \in Verb : VerbStep(v) \/ \E kind \in {"off", "on", "forget"} : Ask(v, kind)

\* Every coroutine that is ready runs, the loop ticks, and an open and a listing end
\* within their budgets.
Spec ==
    /\ Init /\ [][Next]_vars
    /\ \A p \in Plan : WF_vars(PlanStep(p))
    /\ \A v \in Verb : WF_vars(VerbStep(v))
    /\ WF_vars(TickStep) /\ WF_vars(CallTold) /\ WF_vars(RelistEnds) /\ WF_vars(RelistTold)

-----------------------------------------------------------------------------
\* Nothing acts on the server.
Quiet ==
    /\ \A p \in Plan : plan[p].pc = "idle"
    /\ \A v \in Verb : verb[v].pc = "idle"
    /\ ~dying /\ relist = "idle"

(* Once everything has settled, no process runs for a server that is `off`, was   *)
(* deleted, or was switched off and not connected since, whichever start, Connect, *)
(* drop or re-list raced the verb.                                                *)
OffHasNoProcess ==
    Quiet /\ (~exists \/ state = "off" \/ (~allowed /\ stopped)) => ~session

(* One plan is in flight per server: the others are being cancelled.              *)
OnePlan == Cardinality({p \in Plan : plan[p].pc # "idle" /\ ~plan[p].stopping}) <= 1

(* A `ready` with no session behind it does not last: the drop's own restart or   *)
(* the tick finds it.                                                             *)
ReadyIsBacked == exists /\ state = "ready" /\ ~session ~> (session \/ state # "ready" \/ ~exists)

(* A switched-on server does not stay `off` or `starting`: its start is answered, *)
(* also after a failed write, a lost session or an overtaken open.                *)
StartIsAnswered ==
    exists /\ allowed /\ state \in {"off", "starting"}
        ~> (~exists \/ ~allowed \/ state \in {"ready"} \union Failures)
=============================================================================
