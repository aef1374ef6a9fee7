----------------------------- MODULE TaskLedger -----------------------------
(***************************************************************************)
(* The durable life of ONE task: its row, its attempts and its action      *)
(* journal (server/services/task_repository.py), driven by the in-process  *)
(* runner of each attempt (TaskRuntime, _run and _launch in                *)
(* server/services/task_service.py) and by the user's controls             *)
(* (server/api/tasks.py, server/ws/arslan.py).                             *)
(*                                                                         *)
(* Every repository call is one SQLite transaction guarded by the row's    *)
(* version, so each is one step here; a call made with a stale version is  *)
(* refused and changes nothing.  Everything between two repository calls   *)
(* is an await, where another actor, a stop or a crash may come in.        *)
(***************************************************************************)
EXTENDS Integers

CONSTANTS
    Intent,         \* exact tool calls (tool key and arguments: the intent hash)
    Effect,         \* Effect[i]: what the call can change (effect_of)
    Driver,         \* "host": a chat turn, "background": a job beside the chat
    MaxAttempts,    \* bound: attempts of the task
    MaxRevisions    \* bound: revisions of its goal

Effects == {"read", "local_write", "external_write", "destructive"}

ASSUME LedgerAssumption ==
    /\ Effect \in [Intent -> Effects]
    /\ Driver \in {"host", "background"}
    /\ MaxAttempts \in Nat \ {0}
    /\ MaxRevisions \in Nat \ {0}

Attempts == 1 .. MaxAttempts
Attempts0 == Attempts \union {0}   \* 0: no attempt
Revisions == 1 .. MaxRevisions
\* A journal row is unique per (spec_revision, intent_hash): uq_task_action_intent.
Key == Revisions \X Intent
NoKey == <<0, 0>>

Phases == {"absent", "running", "waiting_user", "succeeded", "failed", "cancelled"}
Statuses == {"none", "prepared", "in_flight", "succeeded", "failed", "uncertain", "not_applied"}
Unsettled == {"prepared", "in_flight", "uncertain"}
Pauses == {"none", "review", "reconcile", "goal_changed", "interrupted", "cancelled", "other"}

VARIABLES
    \* --- the row in companion_tasks
    phase, attempt, cancelRequested, rev, pause,
    projectMoved,   \* the project's version is not the one the row recorded
    \* --- task_actions
    status, owner,
    \* --- the process
    up,
    active,         \* _active: the attempt whose _run task is not done, 0 for none
    launching,      \* the attempt whose start is committed and whose _launch is still to come
    pc, key, recon, \* per attempt: where _run is, its current action, reconciliation_required
    stopSignal,     \* per attempt: task.cancel() was called, CancelledError not yet seen
    cancelling,     \* task_service.cancel is between its commit and task.cancel()
    \* --- history, read by the properties only
    done,           \* how often the effect of an action really happened (capped at 2)
    vouched         \* a person recorded "not applied" for it

rowVars == <<phase, attempt, cancelRequested, rev, pause, projectMoved>>
journalVars == <<status, owner>>
procVars == <<up, active, launching, pc, key, recon, stopSignal, cancelling>>
ghostVars == <<done, vouched>>
vars == <<rowVars, journalVars, procVars, ghostVars>>

\* Where _run of an attempt is.  "raised": an exception is being recorded; "cut":
\* CancelledError was seen and the cancel record is still to be written; "stopping":
\* the stop checkpoint is still to be written; "dead": nothing of it is left.
Live == {"body", "prepared", "tool"}
PCs == {"none", "dead", "raised", "cut", "stopping"} \union Live

TypeOK ==
    /\ phase \in Phases /\ attempt \in Attempts0 /\ cancelRequested \in BOOLEAN
    /\ rev \in Revisions /\ pause \in Pauses /\ projectMoved \in BOOLEAN
    /\ status \in [Key -> Statuses] /\ owner \in [Key -> Attempts0]
    /\ up \in BOOLEAN /\ active \in Attempts0 /\ launching \in Attempts0
    /\ pc \in [Attempts -> PCs] /\ key \in [Attempts -> Key \union {NoKey}]
    /\ recon \in [Attempts -> BOOLEAN] /\ stopSignal \in [Attempts -> BOOLEAN]
    /\ cancelling \in BOOLEAN
    /\ done \in [Key -> {0, 1, 2}] /\ vouched \in [Key -> BOOLEAN]

Init ==
    /\ phase = "absent" /\ attempt = 0 /\ cancelRequested = FALSE
    /\ rev = 1 /\ pause = "none" /\ projectMoved = FALSE
    /\ status = [k \in Key |-> "none"] /\ owner = [k \in Key |-> 0]
    /\ up = TRUE /\ active = 0 /\ launching = 0
    /\ pc = [a \in Attempts |-> "none"] /\ key = [a \in Attempts |-> NoKey]
    /\ recon = [a \in Attempts |-> FALSE] /\ stopSignal = [a \in Attempts |-> FALSE]
    /\ cancelling = FALSE
    /\ done = [k \in Key |-> 0] /\ vouched = [k \in Key |-> FALSE]

-----------------------------------------------------------------------------
(* What the repository checks before it writes. *)

IsWrite(k) == Effect[k[2]] # "read"

\* The "uncertain" query of start, finish and accept_review.
Unresolved(k) == IsWrite(k) /\ status[k] \in Unsettled
ReconciliationRequired == \E k \in Key : Unresolved(k)

\* _active without its project check, and with it.
ActiveRow(a) == ~cancelRequested /\ phase = "running" /\ attempt = a
ActiveInScope(a) == ActiveRow(a) /\ ~projectMoved

\* _mark_uncertain: every open action of the task, whatever its revision or effect.
MarkUncertain == [k \in Key |-> IF status[k] \in {"prepared", "in_flight"} THEN "uncertain" ELSE status[k]]

\* TaskRepository.cancel: by task id alone.  Repeating it is harmless, a
\* succeeded task refuses it (the caller gets task_already_finished).
CancelRow ==
    IF phase \in {"cancelled", "succeeded"}
    THEN UNCHANGED <<phase, cancelRequested, pause, status>>
    ELSE /\ phase' = "cancelled" /\ cancelRequested' = TRUE /\ pause' = "cancelled"
         /\ status' = MarkUncertain

\* The effect of an action, happening at most once more.
Happens(k) == done' = [done EXCEPT ![k] = IF @ < 2 THEN @ + 1 ELSE @]
MayHappen(k) == (IsWrite(k) /\ Happens(k)) \/ UNCHANGED done
\* A tool that is cut off may or may not have done its work.
EffectOfCutTool(a) == IF pc[a] = "tool" THEN MayHappen(key[a]) ELSE UNCHANGED done

-----------------------------------------------------------------------------
(* Starting an attempt. *)

\* run_turn: create and start in one transaction; _launch follows.
RunTurn ==
    /\ up /\ phase = "absent"
    /\ phase' = "running" /\ attempt' = 1 /\ launching' = 1
    /\ UNCHANGED <<cancelRequested, rev, pause, projectMoved, journalVars, up, active, pc, key,
                   recon, stopSignal, cancelling, ghostVars>>

\* A resume runs under the conversation's turn lock, held until its _launch
\* returns.  A chat task's first attempt held it too; a job's first did not.
TurnLockFree == launching = 0 /\ (active = 0 \/ (Driver = "background" /\ active = 1))

\* Mutant of Resume: start without its search for unresolved writes.
Resume_SkipsReconciliation ==
    /\ up /\ TurnLockFree /\ ~projectMoved /\ attempt < MaxAttempts
    /\ phase \in {"waiting_user", "failed", "cancelled"}
    /\ phase' = "running" /\ attempt' = attempt + 1 /\ cancelRequested' = FALSE /\ pause' = "none"
    /\ launching' = attempt + 1
    /\ UNCHANGED <<rev, projectMoved, journalVars, up, active, pc, key, recon, stopSignal,
                   cancelling, ghostVars>>

\* prepare_resume: start(explicit_resume=True).
Resume ==
    /\ up /\ TurnLockFree
    /\ phase \in {"waiting_user", "failed", "cancelled"}
    /\ ~projectMoved /\ ~ReconciliationRequired
    /\ attempt < MaxAttempts
    /\ phase' = "running" /\ attempt' = attempt + 1 /\ cancelRequested' = FALSE /\ pause' = "none"
    /\ launching' = attempt + 1
    /\ UNCHANGED <<rev, projectMoved, journalVars, up, active, pc, key, recon, stopSignal,
                   cancelling, ghostVars>>

\* Mutant of Launch: no look at _active.
Launch_Always ==
    /\ up /\ launching # 0 /\ launching' = 0
    /\ active' = launching /\ pc' = [pc EXCEPT ![launching] = "body"]
    /\ UNCHANGED <<rowVars, journalVars, up, key, recon, stopSignal, cancelling, ghostVars>>

\* _launch: one _run per task; while an older one is not done it raises
\* task_already_running and the row stays as start left it.
Launch ==
    /\ up /\ launching # 0 /\ launching' = 0
    /\ IF active = 0
       THEN active' = launching /\ pc' = [pc EXCEPT ![launching] = "body"]
       ELSE UNCHANGED <<active, pc>>
    /\ UNCHANGED <<rowVars, journalVars, up, key, recon, stopSignal, cancelling, ghostVars>>

-----------------------------------------------------------------------------
(* The turn of attempt a: TaskRuntime.execute_tool, one call after another. *)

\* What a runner keeps in memory ends with its turn.
TurnOver(a) == key' = [key EXCEPT ![a] = NoKey] /\ recon' = [recon EXCEPT ![a] = FALSE]
Running(a) == up /\ pc[a] \in Live /\ ~stopSignal[a]

\* prepare_action.  A read gets a digest of its own; a write is refused while the
\* same intent of this revision is settled as done or not settled at all.
PrepareAction(a, k) ==
    /\ Running(a) /\ pc[a] = "body" /\ ActiveInScope(a)
    /\ k[1] = rev
    /\ IsWrite(k) => status[k] \in {"none", "not_applied", "failed"}
    /\ status' = [status EXCEPT ![k] = "prepared"] /\ owner' = [owner EXCEPT ![k] = a]
    /\ pc' = [pc EXCEPT ![a] = "prepared"] /\ key' = [key EXCEPT ![a] = k]
    /\ UNCHANGED <<rowVars, up, active, launching, recon, stopSignal, cancelling, ghostVars>>

\* checkpoint("before_tool") and action_started; the executor is invoked with no
\* await in between.
ActionStarted(a) ==
    /\ Running(a) /\ pc[a] = "prepared" /\ ActiveInScope(a)
    /\ status[key[a]] = "prepared" /\ owner[key[a]] = a
    /\ status' = [status EXCEPT ![key[a]] = "in_flight"]
    /\ pc' = [pc EXCEPT ![a] = "tool"]
    /\ UNCHANGED <<rowVars, owner, up, active, launching, key, recon, stopSignal, cancelling, ghostVars>>

\* What the executor can come back with.  "refused": ok is false (tool_failed);
\* "known": a failure known_local_failure recognises; "raised": it raised.
Outcomes == {"ok", "refused", "known", "raised"}

\* Mutants of RecordedStatus: a tool's error taken at its word; its outcome stored as it came.
RecordedStatus_ErrorIsFailure(effect, outcome) == IF outcome = "ok" THEN "succeeded" ELSE "failed"
RecordedStatus_Raw(effect, outcome) == IF outcome = "ok" THEN "succeeded" ELSE outcome

\* The status action_finished writes: a write that failed is uncertain, unless our
\* own local tool refused it or the failure is a known local one.
RecordedStatus(effect, outcome) ==
    IF outcome = "ok" THEN "succeeded"
    ELSE IF \/ effect = "read" \/ outcome = "known"
            \/ effect = "local_write" /\ outcome = "refused"
         THEN "failed" ELSE "uncertain"

\* Whether the effect happened, given how the call came back (external): the code
\* trusts a clean refusal and a known local failure to have left none.
LeftNoEffect(k, outcome) ==
    \/ ~IsWrite(k) \/ outcome = "known"
    \/ Effect[k[2]] = "local_write" /\ outcome = "refused"
EffectOf(k, outcome) ==
    \/ LeftNoEffect(k, outcome) /\ UNCHANGED done
    \/ ~LeftNoEffect(k, outcome) /\ outcome = "ok" /\ Happens(k)
    \/ ~LeftNoEffect(k, outcome) /\ outcome # "ok" /\ MayHappen(k)

\* action_finished, and the sticky reconciliation_required flag.
ActionFinished(a, outcome) ==
    /\ Running(a) /\ pc[a] = "tool" /\ ActiveInScope(a)
    /\ status[key[a]] = "in_flight" /\ owner[key[a]] = a
    /\ status' = [status EXCEPT ![key[a]] = RecordedStatus(Effect[key[a][2]], outcome)]
    /\ EffectOf(key[a], outcome)
    /\ recon' = [recon EXCEPT ![a] = @ \/ (IsWrite(key[a]) /\ outcome \notin {"ok", "known"})]
    /\ pc' = [pc EXCEPT ![a] = "body"] /\ key' = [key EXCEPT ![a] = NoKey]
    /\ UNCHANGED <<rowVars, owner, up, active, launching, stopSignal, cancelling, vouched>>

-----------------------------------------------------------------------------
(* How _run ends. *)

\* Mutant of FinishTurn: the checks passed, so it succeeded, whatever is unknown.
FinishTurn_IgnoresUnknown(a) ==
    /\ Running(a) /\ pc[a] = "body" /\ ActiveInScope(a)
    /\ phase' = "succeeded" /\ pause' = "none"
    /\ pc' = [pc EXCEPT ![a] = "stopping"] /\ TurnOver(a)
    /\ UNCHANGED <<attempt, cancelRequested, rev, projectMoved, journalVars, up, active, launching,
                   stopSignal, cancelling, ghostVars>>

\* The body returned: checkpoint("attempt_output"), the checks, repo.finish.
FinishTurn(a) ==
    /\ Running(a) /\ pc[a] = "body" /\ ActiveInScope(a)
    /\ \/ ~recon[a] /\ ~ReconciliationRequired /\ phase' = "succeeded" /\ pause' = "none"
       \/ recon[a] /\ phase' = "waiting_user" /\ pause' = "reconcile"
       \/ ~recon[a] /\ phase' = "waiting_user" /\ pause' \in {"review", "other"}
       \/ ~recon[a] /\ phase' = "failed" /\ pause' = "other"
    /\ pc' = [pc EXCEPT ![a] = "stopping"] /\ TurnOver(a)
    /\ UNCHANGED <<attempt, cancelRequested, rev, projectMoved, journalVars, up, active, launching,
                   stopSignal, cancelling, ghostVars>>

\* The body returned, but a child Run consumed its own cancellation
\* (runtime.cancelled): the containing task is cancelled too.
FinishCancelledRun(a) ==
    /\ Running(a)
    /\ CancelRow /\ EffectOfCutTool(a)
    /\ pc' = [pc EXCEPT ![a] = "stopping"] /\ TurnOver(a)
    /\ UNCHANGED <<attempt, rev, projectMoved, owner, up, active, launching, stopSignal,
                   cancelling, vouched>>

\* Anything else the body ends with: the wall-clock limit (asyncio.timeout), a
\* refused repository call (task_cancelled, task_attempt_stale,
\* task_project_changed), a busy database (task_version_conflict), a spent budget.
BodyRaises(a) ==
    /\ Running(a) /\ EffectOfCutTool(a)
    /\ pc' = [pc EXCEPT ![a] = "raised"] /\ TurnOver(a)
    /\ UNCHANGED <<rowVars, journalVars, up, active, launching, stopSignal, cancelling,
                   vouched>>

\* Mutant of FinishRaised: finish by task id, not fenced by attempt and cancel.
FinishRaised_Unfenced(a) ==
    /\ up /\ pc[a] = "raised" /\ ~stopSignal[a]
    /\ phase' \in {"waiting_user", "failed"} /\ pause' = "other"
    /\ pc' = [pc EXCEPT ![a] = "stopping"]
    /\ UNCHANGED <<attempt, cancelRequested, rev, projectMoved, journalVars, up, active, launching,
                   key, recon, stopSignal, cancelling, ghostVars>>

\* except Exception: finish(waiting_user | failed), unless the row is cancelled
\* already or belongs to another attempt (finish raises; the row is left alone).
FinishRaised(a) ==
    /\ up /\ pc[a] = "raised" /\ ~stopSignal[a]
    /\ IF ActiveRow(a)
       THEN phase' \in {"waiting_user", "failed"} /\ pause' = "other"
       ELSE UNCHANGED <<phase, pause>>
    /\ pc' = [pc EXCEPT ![a] = "stopping"]
    /\ UNCHANGED <<attempt, cancelRequested, rev, projectMoved, journalVars, up, active, launching,
                   key, recon, stopSignal, cancelling, ghostVars>>

\* CancelledError.  In the body it leads to the cancel record; while an exception
\* is being recorded it ends the handler with nothing recorded.
SeeStop(a) ==
    /\ up /\ stopSignal[a] /\ pc[a] \in Live \union {"raised"}
    /\ EffectOfCutTool(a)
    /\ pc' = [pc EXCEPT ![a] = IF @ = "raised" THEN "stopping" ELSE "cut"] /\ TurnOver(a)
    /\ stopSignal' = [stopSignal EXCEPT ![a] = FALSE]
    /\ UNCHANGED <<rowVars, journalVars, up, active, launching, cancelling, vouched>>

\* _record_cancel, a kept task of its own: repo.cancel(task_id).
RecordCancel(a) ==
    /\ up /\ pc[a] = "cut"
    /\ CancelRow
    /\ pc' = [pc EXCEPT ![a] = "stopping"]
    /\ UNCHANGED <<attempt, rev, projectMoved, owner, up, active, launching, key, recon, stopSignal,
                   cancelling, ghostVars>>

\* Mutant of StopCheckpoint: the child ends and _active keeps it.
StopCheckpoint_KeepsActive(a) ==
    /\ up /\ pc[a] = "stopping"
    /\ pc' = [pc EXCEPT ![a] = "dead"]
    /\ stopSignal' = [stopSignal EXCEPT ![a] = FALSE]
    /\ UNCHANGED <<rowVars, journalVars, up, active, launching, key, recon, cancelling, ghostVars>>

\* The stop checkpoint (retain_stopped): counters only; then the child is done.
StopCheckpoint(a) ==
    /\ up /\ pc[a] = "stopping"
    /\ pc' = [pc EXCEPT ![a] = "dead"]
    /\ active' = IF active = a THEN 0 ELSE active
    /\ stopSignal' = [stopSignal EXCEPT ![a] = FALSE]
    /\ UNCHANGED <<rowVars, journalVars, up, launching, key, recon, cancelling, ghostVars>>

\* The cancellation keeps coming: the shielded waits end, the child is done, and
\* its kept record and stop checkpoint go on without it.
LeaveEarly(a) ==
    /\ up /\ stopSignal[a] /\ pc[a] \in {"cut", "stopping"} /\ active = a
    /\ active' = 0
    /\ stopSignal' = [stopSignal EXCEPT ![a] = FALSE]
    /\ UNCHANGED <<rowVars, journalVars, up, launching, pc, key, recon, cancelling, ghostVars>>

-----------------------------------------------------------------------------
(* The user, the project and the process. *)

\* task_service.cancel, first half: the durable cancel.
UserCancel ==
    /\ up /\ phase \notin {"absent", "succeeded"} /\ ~cancelling
    /\ CancelRow
    /\ cancelling' = TRUE
    /\ UNCHANGED <<attempt, rev, projectMoved, owner, up, active, launching, pc, key, recon,
                   stopSignal, done, vouched>>

\* task_service.cancel, second half (after the browser's): whatever _active holds now.
UserCancelSignals ==
    /\ up /\ cancelling /\ cancelling' = FALSE
    /\ stopSignal' = [a \in Attempts |-> stopSignal[a] \/ a = active]
    /\ UNCHANGED <<rowVars, journalVars, up, active, launching, pc, key, recon, ghostVars>>

\* The task awaiting _launch is cancelled (background_jobs.stop; a turn torn
\* down): the cancel reaches the child, or comes before _launch made one.
ParentStopped ==
    /\ up
    /\ \/ /\ active # 0 /\ ~stopSignal[active]
          /\ stopSignal' = [stopSignal EXCEPT ![active] = TRUE]
          /\ UNCHANGED launching
       \/ /\ launching # 0 /\ launching' = 0
          /\ UNCHANGED stopSignal
    /\ UNCHANGED <<rowVars, journalVars, up, active, pc, key, recon, cancelling, done, vouched>>

\* reconcile_action: the user's verdict on an uncertain action.
Reconcile(k, applied) ==
    /\ up /\ phase \notin {"absent", "running"}
    /\ status[k] = "uncertain"
    /\ status' = [status EXCEPT ![k] = IF applied THEN "succeeded" ELSE "not_applied"]
    /\ vouched' = [vouched EXCEPT ![k] = @ \/ ~applied]
    /\ UNCHANGED <<rowVars, owner, procVars, done>>

AcceptReview ==
    /\ up /\ phase = "waiting_user" /\ pause = "review" /\ ~ReconciliationRequired
    /\ phase' = "succeeded" /\ pause' = "none"
    /\ UNCHANGED <<attempt, cancelRequested, rev, projectMoved, journalVars, procVars, ghostVars>>

\* revise: a new goal, the project as it is now; cancel_requested stays.
Revise ==
    /\ up /\ phase \notin {"absent", "running"} /\ rev < MaxRevisions
    /\ rev' = rev + 1 /\ phase' = "waiting_user" /\ pause' = "goal_changed" /\ projectMoved' = FALSE
    /\ UNCHANGED <<attempt, cancelRequested, journalVars, procVars, ghostVars>>

\* PUT /projects/{id}: the project's version moves on.
EditProject ==
    /\ up /\ phase # "absent" /\ ~projectMoved /\ projectMoved' = TRUE
    /\ UNCHANGED <<phase, attempt, cancelRequested, rev, pause, journalVars, procVars, ghostVars>>

\* The process dies: a tool that was running may have done its work.
Crash ==
    /\ up /\ up' = FALSE
    /\ \/ UNCHANGED done
       \/ \E a \in Attempts : pc[a] = "tool" /\ IsWrite(key[a]) /\ Happens(key[a])
    /\ active' = 0 /\ launching' = 0 /\ cancelling' = FALSE
    /\ pc' = [a \in Attempts |-> IF pc[a] = "none" THEN "none" ELSE "dead"]
    /\ key' = [a \in Attempts |-> NoKey] /\ recon' = [a \in Attempts |-> FALSE]
    /\ stopSignal' = [a \in Attempts |-> FALSE]
    /\ UNCHANGED <<rowVars, journalVars, vouched>>

\* recover_interrupted, then report_interrupted for a job.
Boot ==
    /\ ~up /\ up' = TRUE
    /\ IF phase = "running"
       THEN /\ status' = MarkUncertain
            /\ IF Driver = "background"
               THEN phase' = "cancelled" /\ cancelRequested' = TRUE /\ pause' = "interrupted"
               ELSE phase' = "waiting_user" /\ pause' = "interrupted" /\ UNCHANGED cancelRequested
       ELSE UNCHANGED <<phase, cancelRequested, pause, status>>
    /\ UNCHANGED <<attempt, rev, projectMoved, owner, active, launching, pc, key, recon, stopSignal,
                   cancelling, done, vouched>>

-----------------------------------------------------------------------------
Turn(a) ==
    \/ \E k \in Key : PrepareAction(a, k)
    \/ ActionStarted(a)
    \/ \E outcome \in Outcomes : ActionFinished(a, outcome)
    \/ FinishTurn(a) \/ FinishCancelledRun(a) \/ BodyRaises(a) \/ FinishRaised(a)
    \/ SeeStop(a) \/ RecordCancel(a) \/ StopCheckpoint(a) \/ LeaveEarly(a)

User ==
    \/ RunTurn \/ Resume \/ UserCancel \/ ParentStopped
    \/ \E k \in Key, applied \in BOOLEAN : Reconcile(k, applied)
    \/ AcceptReview \/ Revise \/ EditProject

Next ==
    \/ \E a \in Attempts : Turn(a)
    \/ Launch \/ UserCancelSignals
    \/ User
    \/ Crash \/ Boot

Spec == Init /\ [][Next]_vars

\* asyncio runs every ready step; a stop that was signalled is seen, and what _run
\* does after its body ends is not waiting for anyone.  A body may take for ever
\* (it waits for a model, a tool, the user), so nothing is assumed of it.
Fairness ==
    /\ \A a \in Attempts :
          WF_vars(SeeStop(a) \/ FinishRaised(a) \/ RecordCancel(a) \/ StopCheckpoint(a))
    /\ WF_vars(Launch) /\ WF_vars(UserCancelSignals) /\ WF_vars(Boot)
FairSpec == Spec /\ Fairness

-----------------------------------------------------------------------------
(* Properties. *)

\* The effect of a write happens a second time only after a person recorded that
\* it had not been applied: through failures, stops, crashes, resumes and
\* retries, prepare_action never lets the same intent out again on its own.
NoSilentRepeat == \A k \in Key : done[k] = 2 => vouched[k]

Executing(a, k) == pc[a] = "tool" /\ key[a] = k

\* Unless a person's verdict came in between, the journal tells the truth about
\* the world: a write it has as not tried, prepared or failed left no effect and
\* nobody is executing it, and a write is executed by one attempt at a time, for
\* the first time (what prepare_action and action_started rely on).
JournalIsTruthful ==
    \A k \in Key : IsWrite(k) /\ ~vouched[k] =>
        /\ status[k] \in {"none", "prepared", "failed"} =>
              done[k] = 0 /\ \A a \in Attempts : ~Executing(a, k)
        /\ \A a \in Attempts : Executing(a, k) =>
              done[k] = 0 /\ \A b \in Attempts : Executing(b, k) => b = a
        /\ status[k] # "not_applied" /\ done[k] < 2

\* Two attempts of one task never have a turn in progress at the same time,
\* although a resume may commit while the stopped attempt is still winding down
\* (_launch and its _active check).
OneTurnAtATime == \A a, b \in Attempts : pc[a] \in Live /\ pc[b] \in Live => a = b

\* While an attempt runs, every write whose outcome is open is its own: nothing
\* an earlier attempt left unknown is still waiting ("Unknown external effects
\* are reconciled before another attempt may start", task_repository.py:5).
OpenWritesAreOurs == phase = "running" => \A k \in Key : Unresolved(k) => owner[k] = attempt

\* A task that is reported as succeeded has no write whose outcome is open,
\* whichever attempt or revision made it.
SucceededIsSettled == phase = "succeeded" => ~ReconciliationRequired

\* A write recorded as done stays done: no later attempt, failure, cancel or
\* restart reopens it.
DoneStaysDone ==
    [][\A k \in Key : IsWrite(k) /\ status[k] = "succeeded" => status'[k] = "succeeded"]_vars

\* What the journal knows of a write: a write that is prepared counts as out, for
\* _mark_uncertain may make it a question for the user before it ever ran.
Writes == {k \in Key : IsWrite(k)}
KnownState(k) ==
    IF status[k] = "succeeded" THEN "done"
    ELSE IF status[k] \in Unsettled THEN "out" ELSE "free"

Promise == INSTANCE OnceOnly WITH
    Write <- Writes,
    state <- [k \in Writes |-> KnownState(k)],
    effects <- [k \in Writes |-> done[k]],
    vouched <- [k \in Writes |-> vouched[k]]

\* The ledger, with its attempts, stops, kept records, crashes, boots and
\* verdicts, does to each write only what OnceOnly allows: prepare_action lets it
\* out again only if it never happened or a person answers for it, what is done
\* is never reopened, and each step touches one write.
KeepsThePromise == Promise!Spec

\* A cancelled task stays cancelled until the user resumes it as a new attempt or
\* revises its goal; a turn finishing late never overwrites the cancel.
CancelSticks ==
    [][phase = "cancelled" /\ phase' # "cancelled" => attempt' = attempt + 1 \/ rev' = rev + 1]_vars

\* A stopped attempt winds down: once its stop is signalled, it ends (or the
\* process does).
StopEnds == \A a \in Attempts : (stopSignal[a] /\ active = a) ~> (active # a)

\* docs/plans/0164/LOOP1-agent-loop.md:58 and task_service.py:730 ("Root
\* cancellation marks the unfinished action uncertain"): a task that stopped and
\* waits for the user has no write left open, so each can be reconciled
\* (reconcile_action takes "uncertain" ones only).
UnfinishedWritesAreMarked ==
    phase \in {"waiting_user", "failed"} =>
        \A k \in Key : IsWrite(k) => status[k] \notin {"prepared", "in_flight"}
=============================================================================
