---------------------------- MODULE SubSessions ----------------------------
(***************************************************************************)
(* Sub-sessions of one conversation: conversations of their own, each      *)
(* started by one above it and run as a background job                     *)
(* (server/services/sub_sessions.py).  A tree has limits: its depth, the   *)
(* children each conversation may start, the jobs alive at once, and what  *)
(* they may all spend together, read from the runs' saved budgets before   *)
(* each model request (check_tree_spend, arslan/execution_budget.py).      *)
(*                                                                         *)
(* Starts wait for one lock, and every await inside it is a place where    *)
(* the starting turn can be stopped or the process die.  Runs go on beside *)
(* each other; a response is charged in memory and saved later.            *)
(***************************************************************************)
EXTENDS Integers, FiniteSets, FiniteSetsExt

CONSTANTS
    Root,               \* the conversation at the top (the commander)
    Child,              \* bound: the sub-sessions ever made
    Call,               \* bound: the calls of start
    NoOne,              \* stands for no conversation and no call
    MaxDepth,           \* MAX_DEPTH
    MaxChildren,        \* MAX_CHILDREN: per layer, what one conversation may start
    MaxAlive,           \* MAX_ALIVE
    MaxConcurrent,      \* background_jobs.MAX_CONCURRENT
    UsdCap,             \* the per-run dollar cap, in units
    TreeCapMultiplier,  \* TREE_CAP_MULTIPLIER
    MaxPrice,           \* bound: the dearest response
    MaxRestarts         \* bound

Limit == TreeCapMultiplier * UsdCap

ASSUME SubSessionsAssumption ==
    /\ IsFiniteSet(Child) /\ Root \notin Child /\ NoOne \notin Child \union Call \union {Root}
    /\ MaxDepth \in Nat \ {0, 1} /\ MaxChildren \in [1 .. MaxDepth - 1 -> Nat]
    /\ MaxAlive \in Nat /\ MaxConcurrent \in Nat \ {0}
    /\ UsdCap \in Nat \ {0} /\ TreeCapMultiplier \in Nat \ {0} /\ MaxPrice \in Nat /\ MaxRestarts \in Nat

VARIABLES
    \* --- stored
    parent,     \* parent_id of a sub-session's row; NoOne: no such row
    saved,      \* what the row of its task says its run has spent
    \* --- the process
    restarts,
    lock,       \* _starting: the call that holds it
    calls,      \* per call of start: new, waiting, counted, created, over
    under,      \* per call: the conversation it starts from
    child,      \* per call: the sub-session it made
    job,        \* per sub-session: none, queued, running, finished
    step,       \* where its run is: idle, saved (its request's snapshot), sent
    usd         \* what it has really spent

vars == <<parent, saved, restarts, lock, calls, under, child, job, step, usd>>

Made == {c \in Child : parent[c] # NoOne}
Conversations == Made \union {Root}

TypeOK ==
    /\ parent \in [Child -> Child \union {Root, NoOne}] /\ saved \in [Child -> Nat] /\ usd \in [Child -> Nat]
    /\ restarts \in 0 .. MaxRestarts /\ lock \in Call \union {NoOne}
    /\ calls \in [Call -> {"new", "waiting", "counted", "created", "over"}]
    /\ under \in [Call -> Child \union {Root, NoOne}] /\ child \in [Call -> Child \union {NoOne}]
    /\ job \in [Child -> {"none", "queued", "running", "finished"}]
    /\ step \in [Child -> {"idle", "saved", "sent"}]

Init ==
    /\ parent = [c \in Child |-> NoOne]
    /\ saved = [c \in Child |-> 0] /\ usd = [c \in Child |-> 0]
    /\ restarts = 0 /\ lock = NoOne
    /\ calls = [s \in Call |-> "new"] /\ under = [s \in Call |-> NoOne] /\ child = [s \in Call |-> NoOne]
    /\ job = [c \in Child |-> "none"] /\ step = [c \in Child |-> "idle"]

-----------------------------------------------------------------------------
(* What start counts. *)

\* depth: the layer of a conversation, 1 at the top, counting at most MAX_DEPTH.
Above(c) == IF c = Root THEN Root ELSE parent[c]
Depth(c) ==
    LET up[n \in 0 .. MaxDepth] == IF n = 0 THEN c ELSE Above(up[n - 1])
    IN  1 + Cardinality({n \in 0 .. MaxDepth - 2 : up[n] # Root})
Children(p) == {c \in Child : parent[c] = p}

Running == {c \in Child : job[c] = "running"}
Active == {c \in Child : job[c] \in {"queued", "running"}}

\* The counts a start has to pass.
MayStart(p) ==
    /\ Depth(p) < MaxDepth
    /\ Cardinality(Children(p)) < MaxChildren[Depth(p)]
    /\ Cardinality(Active) < MaxAlive

-----------------------------------------------------------------------------
(* start. *)

\* What the call keeps in memory ends with it, and its lock.
Ends(s) ==
    /\ calls' = [calls EXCEPT ![s] = "over"] /\ lock' = IF lock = s THEN NoOne ELSE lock
    /\ under' = [under EXCEPT ![s] = NoOne] /\ child' = [child EXCEPT ![s] = NoOne]

\* A turn of the commander or of a sub-session asks for one more.
CallStart(s, p) ==
    /\ calls[s] = "new" /\ p \in Conversations
    /\ calls' = [calls EXCEPT ![s] = "waiting"] /\ under' = [under EXCEPT ![s] = p]
    /\ UNCHANGED <<parent, saved, restarts, lock, child, job, step, usd>>

\* Mutant of Count: without `async with _starting`.
Count_Unlocked(s) ==
    /\ calls[s] = "waiting"
    /\ IF MayStart(under[s])
       THEN calls' = [calls EXCEPT ![s] = "counted"] /\ UNCHANGED <<lock, under, child>>
       ELSE Ends(s)
    /\ UNCHANGED <<parent, saved, restarts, job, step, usd>>

\* With the lock: the counts, read up to the moment the jobs are counted (rows of
\* the tree change under this lock only).  A start that is refused lets it go.
Count(s) ==
    /\ calls[s] = "waiting" /\ lock = NoOne
    /\ IF MayStart(under[s])
       THEN lock' = s /\ calls' = [calls EXCEPT ![s] = "counted"] /\ UNCHANGED <<under, child>>
       ELSE Ends(s)
    /\ UNCHANGED <<parent, saved, restarts, job, step, usd>>

\* create_child and its commit.
CreateChild(s, c) ==
    /\ calls[s] = "counted" /\ c \notin Made
    /\ parent' = [parent EXCEPT ![c] = under[s]]
    /\ calls' = [calls EXCEPT ![s] = "created"] /\ child' = [child EXCEPT ![s] = c]
    /\ UNCHANGED <<saved, restarts, lock, under, job, step, usd>>

\* Its brief is stored as its first message and its job waits for a slot.
StartJob(s) ==
    /\ calls[s] = "created"
    /\ job' = [job EXCEPT ![child[s]] = "queued"]
    /\ Ends(s)
    /\ UNCHANGED <<parent, saved, restarts, step, usd>>

\* The starting turn is stopped, or a write fails, at any await: the lock is let go,
\* a row that was committed stays, without a job.
StartCut(s) ==
    /\ calls[s] \in {"waiting", "counted", "created"}
    /\ Ends(s)
    /\ UNCHANGED <<parent, saved, restarts, job, step, usd>>

-----------------------------------------------------------------------------
(* The run of a sub-session and what it spends. *)

GetSlot(c) ==
    /\ job[c] = "queued" /\ Cardinality(Running) < MaxConcurrent
    /\ job' = [job EXCEPT ![c] = "running"]
    /\ UNCHANGED <<parent, saved, restarts, lock, calls, under, child, step, usd>>

\* Mutant of BeforeModel: the request goes out on the last tool's snapshot.
BeforeModel_NoSave(c) ==
    /\ job[c] = "running" /\ step[c] = "idle" /\ usd[c] < UsdCap
    /\ step' = [step EXCEPT ![c] = "saved"]
    /\ UNCHANGED <<parent, saved, restarts, lock, calls, under, child, job, usd>>

\* model_request: the run's own cap; then its snapshot is saved (checkpoint
\* "before_model").
BeforeModel(c) ==
    /\ job[c] = "running" /\ step[c] = "idle" /\ usd[c] < UsdCap
    /\ saved' = [saved EXCEPT ![c] = usd[c]]
    /\ step' = [step EXCEPT ![c] = "saved"]
    /\ UNCHANGED <<parent, restarts, lock, calls, under, child, job, usd>>

Sum(f, S) == MapThenSumSet(LAMBDA c : f[c], S)

\* tree_spend: what the rows of the whole tree say.
TreeSpend == Sum(saved, Made)

\* check_tree_spend: below the limit the request goes out.
CheckTreeSpend(c) ==
    /\ job[c] = "running" /\ step[c] = "saved" /\ TreeSpend < Limit
    /\ step' = [step EXCEPT ![c] = "sent"]
    /\ UNCHANGED <<parent, saved, restarts, lock, calls, under, child, job, usd>>

\* The response, and its price (charge_usd); one without a price costs nothing here.
Respond(c, price) ==
    /\ job[c] = "running" /\ step[c] = "sent"
    /\ usd' = [usd EXCEPT ![c] = @ + price] /\ step' = [step EXCEPT ![c] = "idle"]
    /\ UNCHANGED <<parent, saved, restarts, lock, calls, under, child, job>>

\* The checkpoints around a tool.
AroundTool(c) ==
    /\ job[c] = "running" /\ step[c] = "idle" /\ saved[c] # usd[c]
    /\ saved' = [saved EXCEPT ![c] = usd[c]]
    /\ UNCHANGED <<parent, restarts, lock, calls, under, child, job, step, usd>>

\* The run is over: answered, stopped, past its own cap (check_request) or the
\* tree's (TreeLimitReached), out of time.  Its stop checkpoint saves what was
\* charged, or cannot be written.
RunEnds(c) ==
    /\ job[c] = "running"
    /\ job' = [job EXCEPT ![c] = "finished"] /\ step' = [step EXCEPT ![c] = "idle"]
    /\ saved' = [saved EXCEPT ![c] = usd[c]] \/ UNCHANGED saved
    /\ UNCHANGED <<parent, restarts, lock, calls, under, child, usd>>

\* Stopped before it had a slot.
StopQueued(c) ==
    /\ job[c] = "queued" /\ job' = [job EXCEPT ![c] = "finished"]
    /\ UNCHANGED <<parent, saved, restarts, lock, calls, under, child, step, usd>>

\* The process dies and comes back: the rows stay, no job goes on.
Restart ==
    /\ restarts < MaxRestarts /\ restarts' = restarts + 1
    /\ lock' = NoOne
    /\ calls' = [s \in Call |-> IF calls[s] = "new" THEN "new" ELSE "over"]
    /\ job' = [c \in Child |-> IF c \in Active THEN "finished" ELSE job[c]]
    /\ step' = [c \in Child |-> "idle"]
    /\ under' = [s \in Call |-> NoOne] /\ child' = [s \in Call |-> NoOne]
    /\ UNCHANGED <<parent, saved, usd>>

-----------------------------------------------------------------------------
Next ==
    \/ \E s \in Call :
          \/ \E p \in Conversations : CallStart(s, p)
          \/ Count(s) \/ \E c \in Child : CreateChild(s, c)
          \/ StartJob(s) \/ StartCut(s)
    \/ \E c \in Child :
          \/ GetSlot(c) \/ BeforeModel(c) \/ CheckTreeSpend(c)
          \/ \E price \in 0 .. MaxPrice : Respond(c, price)
          \/ AroundTool(c) \/ RunEnds(c) \/ StopQueued(c)
    \/ Restart

Spec == Init /\ [][Next]_vars

-----------------------------------------------------------------------------
(* Properties. *)

\* However starts of one tree race, are cut off or are repeated after a restart,
\* no conversation has more children than its layer allows, nobody on the last
\* layer has any, and no more jobs are alive than one tree may have: the lock in
\* start covers the counts and everything that changes them.
TreeWithinLimits ==
    /\ \A p \in Conversations :
          Children(p) # {} => Depth(p) < MaxDepth /\ Cardinality(Children(p)) <= MaxChildren[Depth(p)]
    /\ Cardinality(Active) <= MaxAlive

\* What the rows do not know of: the responses of ended runs that were never saved.
Lost == Sum([c \in Child |-> usd[c] - saved[c]], Child \ Running)
Spent == Sum(usd, Child)

\* Runs that look at the tree's spending beside each other overshoot its limit by at
\* most one response each, and a run that dies takes at most its last response out
\* of the count (check_tree_spend reads what is saved; every request saves first).
SpendIsBounded ==
    /\ Spent - Lost <= Limit - 1 + MaxConcurrent * MaxPrice
    /\ \A c \in Child : usd[c] - saved[c] \in 0 .. MaxPrice
=============================================================================
