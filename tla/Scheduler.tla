------------------------------ MODULE Scheduler ------------------------------
(***************************************************************************)
(* One scheduled task: its row, the run rows of its fires, the loop that   *)
(* fires it when it is due, the fires themselves and the requests of the   *)
(* Scheduled page (server/services/scheduler.py and                        *)
(* server/api/scheduled_tasks.py).                                         *)
(*                                                                         *)
(* The database is read and written in separate awaits: a step that reads  *)
(* the task keeps what it read (a Snapshot) and its commit writes only the *)
(* columns it changed from that reading, as the ORM does.  An INSERT that  *)
(* is flushed first holds the write lock, so _fire_body's first commit and *)
(* a skip are one step.                                                    *)
(*                                                                         *)
(* Time is only what the code compares: a due time is in the past ("due")  *)
(* or still ahead ("future").                                              *)
(***************************************************************************)
EXTENDS Integers, FiniteSets

CONSTANTS
    MaxFires,           \* bound: the fires, each one _fire(task) with a run row of its own
    PauseAfter,         \* PAUSE_AFTER_FAILURES
    CronMayEnd,         \* the schedule may run out of future slots
    SweepMayFail,       \* the orphan sweep may raise
    MaxRequests,        \* bound: requests of the Scheduled page
    MaxCrashes,         \* bound: process deaths
    MaxPeriods          \* bound: times the clock makes the task due

ASSUME SchedulerAssumption ==
    /\ MaxFires \in Nat /\ PauseAfter \in Nat \ {0}
    /\ CronMayEnd \in BOOLEAN /\ SweepMayFail \in BOOLEAN
    /\ {MaxRequests, MaxCrashes, MaxPeriods} \subseteq Nat

Fire == 1 .. MaxFires

VARIABLES
    \* --- the ScheduledTask row
    exists, enabled, reason, failures, nextDue,
    \* --- the ScheduledTaskRun rows: a fire's row and how it reads
    row,
    \* --- the fires
    pc,                 \* idle, entering, running, ended, recording, done, killed
    ending,             \* how the fire's turn ended
    read,               \* what record_outcome read of the task, per fire
    \* --- the loop and one request of the page
    loop,               \* sweep, sweeping, waiting, listed
    swept,              \* the rows the sweep's query returned
    request,            \* the request in progress and what it read
    \* --- bounds and history
    requests, crashes, periods,
    sweepFailed,        \* this process's sweep raised
    skips,              \* skipped_overlap rows since the task last became due
    late                \* fires the loop started since the task was last disabled (capped at 2)

taskVars == <<exists, enabled, reason, failures, nextDue>>
fireVars == <<pc, ending, read>>
loopVars == <<loop, swept, sweepFailed>>
boundVars == <<requests, crashes, periods>>
historyVars == <<skips, late>>
vars == <<taskVars, row, fireVars, loopVars, request, boundVars, historyVars>>

Dues == {"none", "due", "future"}
Reasons == {"none", "failures", "noFuture"}
Endings == {"ok", "failed", "cancelled"}
Snapshot == [enabled : BOOLEAN, reason : Reasons, failures : 0 .. MaxFires,
             nextDue : Dues, open : BOOLEAN]
NoRequest == [kind |-> "none"]

TypeOK ==
    /\ exists \in BOOLEAN /\ enabled \in BOOLEAN /\ reason \in Reasons
    /\ failures \in 0 .. MaxFires /\ nextDue \in Dues
    /\ row \in [Fire -> {"none", "open", "orphan"} \union Endings]
    /\ pc \in [Fire -> {"idle", "entering", "running", "ended", "recording", "done", "killed"}]
    /\ ending \in [Fire -> Endings \union {"none"}]
    /\ read \in [Fire -> Snapshot]
    /\ loop \in {"sweep", "sweeping", "waiting", "listed"} /\ swept \subseteq Fire
    /\ request = NoRequest \/ request \in [kind : {"pause", "resume", "update"}, was : Snapshot]
    /\ requests \in 0 .. MaxRequests /\ crashes \in 0 .. MaxCrashes /\ periods \in 0 .. MaxPeriods
    /\ sweepFailed \in BOOLEAN /\ skips \in 0 .. 2 /\ late \in 0 .. 2

\* The columns of the task row; "open" says whether the fire's own row is still NULL.
Current(open) == [enabled |-> enabled, reason |-> reason, failures |-> failures,
                  nextDue |-> nextDue, open |-> open]

Unread == [enabled |-> FALSE, reason |-> "none", failures |-> 0, nextDue |-> "none", open |-> FALSE]

\* create_scheduled_task has run; the process has just started.
Init ==
    /\ exists = TRUE /\ enabled = TRUE /\ reason = "none" /\ failures = 0 /\ nextDue = "future"
    /\ row = [f \in Fire |-> "none"]
    /\ pc = [f \in Fire |-> "idle"] /\ ending = [f \in Fire |-> "none"]
    /\ read = [f \in Fire |-> Unread]
    /\ loop = "sweep" /\ swept = {} /\ sweepFailed = FALSE
    /\ request = NoRequest
    /\ requests = 0 /\ crashes = 0 /\ periods = 0 /\ skips = 0 /\ late = 0

-----------------------------------------------------------------------------
(* Committing: a column changes only if the step gave it another value than it read. *)

Merge(now, was, new) == IF was = new THEN now ELSE new

\* A new due time is a new instant, so it is written; "keep" leaves the column alone.
MergeDue(was, new) == IF new = "keep" \/ (was = "none" /\ new = "none") THEN nextDue ELSE new

Commit(was, e, r, n, d) ==
    /\ enabled' = Merge(enabled, was.enabled, e)
    /\ reason' = Merge(reason, was.reason, r)
    /\ failures' = Merge(failures, was.failures, n)
    /\ nextDue' = MergeDue(was.nextDue, d)

\* _pause_no_future, or the next slot strictly after now.
AdvanceOrPause(was, n) ==
    \/ Commit(was, was.enabled, was.reason, n, "future")
    \/ CronMayEnd /\ Commit(was, FALSE, "noFuture", n, "none")

Capped(n) == IF n < 2 THEN n + 1 ELSE 2

\* _supervise: the next fire.
Starts(f) == pc[f] = "idle" /\ \A g \in 1 .. f - 1 : pc[g] # "idle"

HasInflight == \E f \in Fire : row[f] = "open"

-----------------------------------------------------------------------------
(* The clock and the loop. *)

\* The due time arrives.
BecomeDue ==
    /\ nextDue = "future" /\ periods < MaxPeriods
    /\ nextDue' = "due" /\ periods' = periods + 1 /\ skips' = 0
    /\ UNCHANGED <<exists, enabled, reason, failures, row, fireVars, loopVars, request, requests, crashes, late>>

\* Mutant of SweepRead: the rows of the last process are not looked for.
SweepRead_NoOrphans ==
    /\ loop = "sweep" /\ loop' = "sweeping" /\ swept' = {}
    /\ UNCHANGED <<taskVars, row, fireVars, sweepFailed, request, boundVars, historyVars>>

\* sweep_orphans: the query, then the commit of the rows it returned.
SweepRead ==
    /\ loop = "sweep" /\ loop' = "sweeping"
    /\ swept' = {f \in Fire : row[f] = "open"}
    /\ UNCHANGED <<taskVars, row, fireVars, sweepFailed, request, boundVars, historyVars>>

SweepWrite ==
    /\ loop = "sweeping" /\ loop' = "waiting" /\ swept' = {}
    /\ row' = [f \in Fire |-> IF f \in swept /\ row[f] # "none" THEN "orphan" ELSE row[f]]
    /\ UNCHANGED <<taskVars, fireVars, sweepFailed, request, boundVars, historyVars>>

\* watch_loop goes on without it (a failure with nothing to sweep is like a success).
SweepFails ==
    /\ SweepMayFail /\ loop = "sweeping" /\ swept # {}
    /\ loop' = "waiting" /\ swept' = {} /\ sweepFailed' = TRUE
    /\ UNCHANGED <<taskVars, row, fireVars, request, boundVars, historyVars>>

\* Mutant of DueTasks: a disabled task whose due time was left behind is listed.
DueTasks_Disabled == exists /\ nextDue = "due"

\* due_tasks: enabled, and its due time has come.
DueTasks == exists /\ enabled /\ nextDue = "due"

\* tick: the list of due tasks is read once ...
TickList ==
    /\ loop = "waiting" /\ DueTasks
    /\ loop' = "listed"
    /\ UNCHANGED <<taskVars, row, fireVars, swept, sweepFailed, request, boundVars, historyVars>>

\* ... and each is fired if no run row of it is open, whatever happened meanwhile.
TickFire(f) ==
    /\ loop = "listed" /\ ~HasInflight /\ Starts(f)
    /\ loop' = "waiting" /\ pc' = [pc EXCEPT ![f] = "entering"]
    /\ late' = IF enabled THEN late ELSE Capped(late)
    /\ UNCHANGED <<taskVars, row, ending, read, swept, sweepFailed, request, boundVars, skips>>

\* Mutant of RecordSkipOverlap: the skip leaves the period as it was.
RecordSkipOverlap_SamePeriod ==
    /\ loop = "listed" /\ HasInflight /\ loop' = "waiting" /\ skips' = Capped(skips)
    /\ UNCHANGED <<taskVars, row, fireVars, swept, sweepFailed, request, boundVars, late>>

\* record_skip_overlap: the skip row and, in the same commit, the next due time.
RecordSkipOverlap ==
    /\ loop = "listed" /\ HasInflight
    /\ loop' = "waiting" /\ skips' = Capped(skips)
    /\ AdvanceOrPause(Current(FALSE), failures)
    /\ UNCHANGED <<exists, row, fireVars, swept, sweepFailed, request, boundVars, late>>

\* The bound on fires: a tick that would need one more finds nothing to do.
TickSpent ==
    /\ loop = "listed" /\ ~HasInflight /\ \A f \in Fire : pc[f] # "idle"
    /\ loop' = "waiting"
    /\ UNCHANGED <<taskVars, row, fireVars, swept, sweepFailed, request, boundVars, historyVars>>

-----------------------------------------------------------------------------
(* A fire. *)

\* _fire, execute_entry: the fire's durable task is created, or cannot be (its
\* conversation is temporary, loading its context raised): nothing is recorded.
EntryFails(f) ==
    /\ pc[f] = "entering"
    /\ pc' = [pc EXCEPT ![f] = "done"]
    /\ UNCHANGED <<taskVars, row, ending, read, loopVars, request, boundVars, historyVars>>

\* _fire_body: the open row and the next due time, in one commit.
Insert(f) ==
    /\ pc[f] = "entering" /\ exists
    /\ row' = [row EXCEPT ![f] = "open"]
    /\ pc' = [pc EXCEPT ![f] = "running"]
    /\ AdvanceOrPause(Current(FALSE), failures)
    /\ UNCHANGED <<exists, ending, read, loopVars, request, boundVars, historyVars>>

\* run_arslan_turn returns or raises.
TurnEnds(f, how) ==
    /\ pc[f] = "running"
    /\ pc' = [pc EXCEPT ![f] = "ended"] /\ ending' = [ending EXCEPT ![f] = how]
    /\ UNCHANGED <<taskVars, row, read, loopVars, request, boundVars, historyVars>>

\* record_outcome, its reads.
RecordRead(f) ==
    /\ pc[f] = "ended"
    /\ pc' = [pc EXCEPT ![f] = IF exists THEN "recording" ELSE "done"]
    /\ read' = [read EXCEPT ![f] = IF exists THEN Current(row[f] = "open") ELSE Unread]
    /\ UNCHANGED <<taskVars, row, ending, loopVars, request, boundVars, historyVars>>

\* Mutant of Finalize: the outcome goes to whichever rows are open.
Finalize_LatestOpen(f) ==
    row' = [g \in Fire |-> IF row[g] = "open" THEN ending[f] ELSE row[g]]

\* The fire's own row, unless it was already finalized when read.
Finalize(f) ==
    row' = [row EXCEPT ![f] = IF read[f].open /\ exists THEN ending[f] ELSE @]

\* Mutant of Counts: a cancel counts as a failure.
Counts_Cancel(how) == how # "ok"

\* count_failure: a user's cancel is not a failure of the task.
Counts(how) == how = "failed"

\* record_outcome, its commit.
RecordCommit(f) ==
    LET was == read[f]
        n == was.failures + 1
    IN  /\ pc[f] = "recording"
        /\ pc' = [pc EXCEPT ![f] = "done"] /\ read' = [read EXCEPT ![f] = Unread]
        /\ Finalize(f)
        /\ IF ~exists THEN UNCHANGED taskVars
           ELSE /\ \/ ending[f] = "ok" /\ was.enabled /\ AdvanceOrPause(was, 0)
                   \/ ending[f] = "ok" /\ ~was.enabled /\ Commit(was, FALSE, was.reason, 0, "none")
                   \/ Counts(ending[f]) /\ n >= PauseAfter /\ Commit(was, FALSE, "failures", n, "none")
                   \/ Counts(ending[f]) /\ n < PauseAfter /\ Commit(was, was.enabled, was.reason, n, "keep")
                   \/ ending[f] # "ok" /\ ~Counts(ending[f]) /\ UNCHANGED <<enabled, reason, failures, nextDue>>
                /\ UNCHANGED exists
        /\ UNCHANGED <<ending, loopVars, request, boundVars, historyVars>>

\* task_service.cancel of the fire's task: CancelledError leaves _fire_body, which
\* catches Exception only.
Cancel(f) ==
    /\ pc[f] \in {"running", "ended", "recording"}
    /\ pc' = [pc EXCEPT ![f] = "killed"] /\ read' = [read EXCEPT ![f] = Unread]
    /\ ending' = [ending EXCEPT ![f] = "none"]
    /\ UNCHANGED <<taskVars, row, loopVars, request, boundVars, historyVars>>

-----------------------------------------------------------------------------
(* The Scheduled page.  A request reads the task, then commits what it changed. *)

\* fire_scheduled_task_now: refused only while a run row is open.
FireNow(f) ==
    /\ requests < MaxRequests /\ exists /\ ~HasInflight /\ Starts(f)
    /\ requests' = requests + 1 /\ pc' = [pc EXCEPT ![f] = "entering"]
    /\ UNCHANGED <<taskVars, row, ending, read, loopVars, request, crashes, periods, historyVars>>

\* _load_task of pause, resume and update (one that changes the schedule).
RequestRead(kind) ==
    /\ requests < MaxRequests /\ exists /\ request = NoRequest
    /\ requests' = requests + 1
    /\ request' = [kind |-> kind, was |-> Current(FALSE)]
    /\ UNCHANGED <<taskVars, row, fireVars, loopVars, crashes, periods, historyVars>>

\* compute_next_due, forward from now: a stale interval task is due at once.  A
\* schedule with no future slot is a 422, and nothing is written (RequestRefused).
ComputeNextDue(on) == IF on THEN {"due", "future"} ELSE {"none"}

PauseCommit(was) == Commit(was, FALSE, was.reason, was.failures, "none")

ResumeCommit(was) == \E d \in ComputeNextDue(TRUE) : Commit(was, TRUE, "none", 0, d)

UpdateCommit(was) ==
    \E d \in ComputeNextDue(was.enabled) : Commit(was, was.enabled, was.reason, was.failures, d)

RequestCommit ==
    /\ request # NoRequest /\ exists
    /\ \/ request.kind = "pause" /\ PauseCommit(request.was)
       \/ request.kind = "resume" /\ ResumeCommit(request.was)
       \/ request.kind = "update" /\ UpdateCommit(request.was)
    /\ request' = NoRequest
    /\ skips' = IF nextDue' = "due" THEN 0 ELSE skips
    /\ late' = IF enabled' THEN 0 ELSE late
    /\ UNCHANGED <<exists, row, fireVars, loopVars, boundVars>>

\* The quota is used up, the schedule has no future slot, or the task went meanwhile.
RequestRefused ==
    /\ request # NoRequest /\ (request.kind # "pause" \/ ~exists)
    /\ request' = NoRequest
    /\ UNCHANGED <<taskVars, row, fireVars, loopVars, boundVars, historyVars>>

\* delete_scheduled_task: the run rows go with the task.
Delete ==
    /\ requests < MaxRequests /\ exists
    /\ requests' = requests + 1
    /\ exists' = FALSE /\ enabled' = FALSE /\ reason' = "none" /\ failures' = 0 /\ nextDue' = "none"
    /\ row' = [f \in Fire |-> "none"]
    /\ UNCHANGED <<fireVars, loopVars, request, crashes, periods, historyVars>>

\* The process dies and another starts: only the rows are left.
Crash ==
    /\ crashes < MaxCrashes
    /\ crashes' = crashes + 1
    /\ pc' = [f \in Fire |-> IF pc[f] = "idle" THEN "idle" ELSE IF pc[f] = "killed" THEN "killed" ELSE "done"]
    /\ read' = [f \in Fire |-> Unread]
    /\ loop' = "sweep" /\ swept' = {} /\ sweepFailed' = FALSE /\ request' = NoRequest
    /\ UNCHANGED <<taskVars, row, ending, requests, periods, historyVars>>

-----------------------------------------------------------------------------
FireStep(f) ==
    \/ Insert(f) \/ EntryFails(f) \/ RecordRead(f) \/ RecordCommit(f)
    \/ \E how \in Endings : TurnEnds(f, how)

LoopStep ==
    \/ SweepRead \/ SweepWrite \/ SweepFails \/ TickList \/ RecordSkipOverlap \/ TickSpent
    \/ \E f \in Fire : TickFire(f)

RequestStep ==
    \/ \E kind \in {"pause", "resume", "update"} : RequestRead(kind)
    \/ RequestCommit \/ RequestRefused \/ Delete \/ \E f \in Fire : FireNow(f)

Next ==
    \/ BecomeDue \/ LoopStep \/ RequestStep \/ Crash
    \/ \E f \in Fire : FireStep(f) \/ Cancel(f)

\* The event loop runs every ready coroutine, and a turn ends: its model calls and
\* tools have time limits and, unattended, it never waits for a card.
Spec ==
    /\ Init /\ [][Next]_vars
    /\ WF_vars(LoopStep)
    /\ \A f \in Fire : WF_vars(FireStep(f))

-----------------------------------------------------------------------------
(* What a run row tells is what happened to its own fire, never to another that *)
(* ran at the same time (S6).                                                   *)
RowTellsItsFire == \A f \in Fire : row[f] \in Endings => row[f] = ending[f]

(* The auto-pause counts failures only: never a fire that succeeded, and never  *)
(* one the user cancelled, whatever commits in between (count_failure).         *)
OnlyFailuresCount ==
    LET failed == Cardinality({f \in Fire : ending[f] = "failed"})
    IN  failures <= failed /\ (reason = "failures" => failed >= PauseAfter)

(* A fire that outlives its period is skipped once a period, not once a tick    *)
(* (I3, record_skip_overlap).                                                   *)
OneSkipPerPeriod == skips <= 1

(* Once disabled, by the user, by its failures or for want of slots, the loop   *)
(* starts at most the one fire it had already listed, whichever stale reading   *)
(* of the task another commit writes back afterwards.                           *)
DisabledGoesQuiet == late <= 1

(* An open row is closed, by its fire or by the next process's sweep, unless    *)
(* the task's cancel killed the fire or the sweep itself failed: the            *)
(* single-flight gate does not stay shut.                                       *)
GateReopens ==
    \A f \in Fire : row[f] = "open" ~> (row[f] # "open" \/ pc[f] = "killed" \/ sweepFailed)

(* "EVERY exit records an outcome against that exact row" (scheduler.py:451).   *)
EveryExitRecords == \A f \in Fire : row[f] = "open" ~> row[f] # "open"

=============================================================================
