# Arslan: a TLA+ model of the parts that must not go wrong

Arslan is a local-first macOS agent: a Python server (`server/`, FastAPI, one asyncio
process, SQLite in WAL mode) that runs a conversation's turns, calls tools, asks the user for
permission, keeps work going in the background and on a schedule, and talks to a web UI, a
desktop shell and an iPhone. This directory holds TLA+ modules for the parts of the server where
a wrong interleaving costs the user something: an e-mail sent twice, a card nobody can answer, a
job that vanishes. Each module is translated from the code under `src/`; `PROJECT.json` maps every
definition to its lines.

What carries most of the difficulty is the same everywhere. The process is one event loop, so the
code between two `await`s is atomic and everything else is not; `task.cancel()` can arrive at any
`await`; a database commit can fail, or succeed just before the process dies; and the in-memory
tables (`_active`, `_pending`, `_jobs`, `_GRANTED_TASKS`) are rebuilt from nothing at boot while the
rows stay. Files and the restore of an undo are worked on in threads beside the loop, behind a lock.
An action of a module is therefore one stretch of code between two awaits that change
something, and a repository call, which is one transaction fenced by a row version, is one step.

## Inventory

| Component | State | Operations | Works with | What makes it correct |
|---|---|---|---|---|
| Task ledger (`task_repository.py`, `task_service.py`) | `companion_tasks` rows, attempts, the action journal; `_active` | create, start, resume, prepare / start / finish an action, finish, cancel, reconcile, accept, revise, recover at boot | tool loop (every write goes through the journal), jobs, scheduler, API | no write is repeated without a person's word; one turn at a time; a cancel is final; success means nothing is unknown |
| Confirmation cards (`approvals.py`, `ws/arslan.py`) | `_pending`, futures, deadlines, waiter counts; per-turn `my_cards` | open, join, answer, type over, expire, stop, hand over, close | permissions, command gate, windows, phone, Inbox, island | first answer wins for every waiter; nobody waits on a card no screen shows; expiry is not a no |
| Background jobs (`background_jobs.py`, boot in `main.py`) | `_jobs`, the semaphore, a durable task per job, a message in the conversation | start, run, judge, report, stop, close and tell at boot | task ledger, permissions (grants for this task), sub-sessions | told once and not silently; done means verified; grants given back; every job ends |
| Permissions (`permissions.py`, `permission_store.py`) | rules, grants, the ledger of decisions, `_GRANTED_TASKS` | decide, ask, remember, forget a task, prune | cards, jobs, command gate | a narrow yes stays narrow; a grant ends with its task; a once-only kind is asked each time |
| Scheduled tasks (`scheduler.py`, `api/scheduled_tasks.py`) | `scheduled_tasks`, `scheduled_task_runs`, `next_due_at` | tick, fire, skip, record outcome, auto-pause, run now, sweep at boot | task ledger, turn lock, run recorder | single flight; every fire is recorded; three failures pause; a missed fire is not replayed |
| Sub-sessions (`sub_sessions.py`) | parent links of conversations, the `_starting` lock, the tasks' saved budgets | create child, start, check spend | background jobs, settings, execution budget | depth 3, four and two children, six alive; a tree does not spend past its limit by more than what is under way; never looser than the chain |
| Conversation socket and steering (`ws/arslan.py`, `steering.py`, `tool_loop.py`) | inbox per socket, the turn lock, the box of the running turn, what it took and has not stored | receive, queue, put, take, commit, hand back, withdraw, settle, close | tool loop, cards | a typed message has one place, is run once and is not lost by an orderly close |
| Turn stream (`host_run.py`, `run_recorder.py`, `run_registry.py`) | run rows, a journal per run, sinks, the finalize latch | start, tee, checkpoint, finalize, stop, attach, replay, sweep at boot | conversation socket | a window sees each frame once and in order; a record is finalized once and stays so |
| Tool loop (`orchestrator/`) | the turn's messages and counters | model step, gate, execute, parallel reads | everything above | order of gate, card, journal, execution |
| Command gate and sandboxes | none that lives between calls | classify, confirm, run | permissions, cards | sequential text classification |
| Execution budget (`arslan/execution_budget.py`) | spend of a run, what the rest of its tree spent | charge, snapshot, check | tool loop, sub-sessions | runs of a tree do not pass one limit unseen |
| Checkpoints and undo (`checkpoints.py`) | manifests and copies per run, `_live`, `_touching`, the `_restoring` lock | ensure, finish, tidy, restore a chain | tool loop, turn undo | an undo never takes a user's edit or a file that was there before; nothing gets under it |
| MCP connections (`mcp/`) | the server's row, plans, `_gen`, the cached session, three locks | start, retry, restart, switch on and off, forget, call, re-list, tick | tool loop, capabilities | off means no process; one plan; ready means a session; every start is answered |
| Memory, knowledge, projects, proactive cards, capabilities, hands, phone bridge, providers, secrets and backup, web UI, packaging | see `PROJECT.json` | | | mostly single-writer CRUD, network, files or presentation |

The hard behaviours, one by one and at their lines, are under `hazards` in `PROJECT.json`.

## Modules

    OnceOnly            what the ledger promises about a write (abstract)
    TaskLedger          one task: row, journal, runners, user, crash          MCTaskLedger
      TaskLedgerProofs
    Approvals           the cards of one conversation and its two surfaces    MCApprovals
      ApprovalsProofs
    BackgroundJobs      jobs, slots, reports, grants, boot passes             MCBackgroundJobs
      BackgroundJobsProofs
    Scheduler           one scheduled task: loop, fires, page, sweep          MCScheduler
      SchedulerProofs
    McpSupervisor       one MCP server: plans, verbs, session, tick           MCMcpSupervisor
      McpSupervisorProofs
    ConversationState   the sockets' state and what must hold of it
    Conversation        the sockets of a conversation and its turns           MCConversation
    TurnStream          its runs: frames, journal, record, windows            MCTurnStream
      TurnStreamProofs  (of Conversation too, as the instance `Talk`)
    Checkpoints         the folders runs change, and their undo               MCCheckpoints
      CheckpointsProofs
    SubSessions         a tree of sub-sessions: its limits and its spend      MCSubSessions
      SubSessionsProofs

They meet at narrow places, and each module keeps of its neighbour what it reads: BackgroundJobs sees
a task as the phase of its row, SubSessions a job as queued, running or finished, TurnStream the turn
lock as runs that follow one another, Conversation a card only as what keeps a typed message out of
the box. TaskLedger refines OnceOnly; the other modules state their promises as properties.

Definitions named `X_Y` next to a definition `X` are mutants of it: the way a plausible slip in that
code would read. No specification uses them; each shows that a property notices the slip.

### TaskLedger

One task of `server/services/task_repository.py`, with the attempts that run it.

- The row (`phase`, `attempt`, `cancelRequested`, `rev`, `pause`), and `projectMoved` for "the
  project's version is not the one recorded", which `_active` in the repository refuses.
- The journal, `status` and `owner` by `<<revision, intent>>`, the unique key of `task_actions`.
  An intent is the hash of tool and arguments: a constant set, with its `Effect`.
- Each attempt's runner: `pc` says where `_run` is. `stopSignal` is a `task.cancel()` not yet seen;
  `active` is the in-memory `_active`; `launching` the gap between `start`'s commit and `_launch`;
  `cancelling` the await inside `task_service.cancel`.
- `done` and `vouched` are history: whether the effect really happened (which the code cannot see) and
  whether a person said it had not.
- `OnceOnly` says the same of a write without rows, attempts or processes. `KnownState` maps the journal
  to it: `succeeded` is done, `prepared`, `in_flight` and `uncertain` are out, everything else is free.

What the executor did is a choice of the environment (`EffectOf`, external): a raised or failed
external write may have happened. The model trusts what the code trusts: that a local tool which
answers `ok: false`, or fails in a way `known_local_failure` recognises, left nothing behind. Reads
share one journal row here; in the code each gets a row of its own, and nothing looks at them.

### Approvals

The cards of one conversation. A card is named by the ask that opened it. An ask moves from `idle`
through `sending` (its own window's `await ws.send_json`) and `waiting` to `done` or `stopped`.
`private` is a card only its own window shows; `resolved` counts the broadcasts that close it.
`dead`, `socketGone` and `gone` are the three stages in which the code learns that a window closed.
Time is one step, `TimeUp`, for each card: the code compares one deadline per card and nothing else.
The asks of a turn may run in parallel (`parallel_reads`, subtasks), so two of them can share a card.

### BackgroundJobs

Jobs of `background_jobs.py`. `pc` is where `_run(job)` is; `row` is the phase of the job's durable
task, reduced to what the job and the boot passes read (`held` stands for every verdict that is
neither success, cancel nor spent budget). The detail of the row is TaskLedger's. Grants are followed
from `permissions._ask`, which registers the task before it writes, to `forget_task`. A crash empties
what is in memory; boot runs `forget_every_task_grant`, `recover_interrupted` and
`report_interrupted` in the order of `server/main.py`, and each may fail, which the code logs and
survives.

### Scheduler

One row of `scheduled_tasks`, its run rows, the loop and the requests of the Scheduled page. What the
code reads and what it commits are separate steps: `read` and `request` hold a reading, and a commit
writes only the columns it changed from that reading, as the ORM does (`Commit`). So a pause between an
outcome's read and its commit is in the model, and so is what such a commit undoes. `late`, `skips` and
`sweepFailed` are history. A fire's turn ends as it likes; a cancel of its durable task leaves
`_fire_body` past its `except Exception`.

### McpSupervisor

One server. `plan` holds the `_run`s that still exist, cancelled ones too; `verb` the switch, delete and
give-up under way, each with its awaits; `cur` who moved the generation last, which is all a generation
is compared for; `attempt`, `inflight`, `setLock` and `listing` are the supervisor's futures and locks.
A session can end three ways: a call fails and, after its close, tells the supervisor (`dying`); a
listing or a probe drops it and tells nobody; a verb drops it. `needs_auth` is treated as `parked`,
which the code writes and leaves alone alike.

### Conversation and TurnStream

Conversation follows a message from `_reader` to its turn: through the inbox and the first-come turn
lock, or through the box of the running turn, `pending` (read after a batch, in no request yet) and
`storing`. A turn may stop at any await, a store may fail, a socket may close in order, with `withdraw`
and `settled` ahead of `_CLOSED`, or its loop may fail. TurnStream follows the frames of the runs: the
journal and the sinks (`Tee`), the attach block with its three stages, the checkpoint task whose cancel
may come too late for the driver (`late`), the finalize latch, and the sweep at boot.

### Checkpoints

A place is a folder and a relative path, and what it holds is a version: two versions are told apart
exactly when a fingerprint would tell the contents apart. `ensure`'s thread (queued, saving), `finish`,
`_tidy` and the restore, path by path, are steps of their own and hold `_restoring` as the code does.
The chain of an undo is the set of runs it has still to take back, newest first (`Undoing`).
`free` is history: versions that only ever came to disk while no run had the folder open, so nobody can
take them for a run's.

### SubSessions

`start` with its lock and its awaits (count, create and commit, message and job), at each of which the
starting turn can be stopped or the process end; the runs of the children with their two halves of a
request, snapshot saved and response charged. Dollars are units; a response costs at most `MaxPrice`.

## Runs

| Run | Instance | What it shows |
|---|---|---|
| `ledger_host` | a chat task, an external write and a read, 2 attempts, 2 revisions | `NoSilentRepeat`, `JournalIsTruthful`, `OpenWritesAreOurs`, `SucceededIsSettled`; `KeepsThePromise`: the ledger implements `OnceOnly` |
| `ledger_job` | a job's task, a local write and a read, 2 attempts | `OneTurnAtATime`, `CancelSticks`; `StopEnds` with fairness |
| `ledger_unmarked_write` | one write | violated: `UnfinishedWritesAreMarked` |
| `cards_window` | two asks of a window's turn and one of a job, one question, answered from the island or the Inbox | `CardsHaveWaiters`, `WaitersAgree`, `PrivateCardHasItsTurn`, `TypingSparesTheJob`, `ResolvedOnce`; `AskEnds` with fairness |
| `jobs_crash` | two jobs, one slot, one finished card kept, two crashes | `ToldOnce`, `DoneIsVerified`, `StoredGrantIsOwed`, `WorkIsListed`; `JobEnds` with fairness |
| `schedule_fires` | two fires, two periods, a request of the page, a crash, a sweep that may fail | `RowTellsItsFire`, `OnlyFailuresCount`, `OneSkipPerPeriod`, `DisabledGoesQuiet`; `GateReopens` with fairness |
| `schedule_cancelled_fire` | two fires, two periods, no crash | violated, with fairness: `EveryExitRecords` |
| `mcp_server` | three plans, two verbs at once, two events, failing writes | `OffHasNoProcess`, `OnePlan`; `ReadyIsBacked` and `StartIsAnswered` with fairness |
| `conversation_messages` | a window and a phone, three frames, two model requests a turn | `MessageHasOnePlace`, `CloseLosesNothing`; `SentIsRun` with fairness |
| `stream_reattach` | one window, two runs of two chunks, a crash | `FramesReachOnce`, `FinalRecordStands`, `RecordSettles` |
| `undo_files` | one folder with a file and one in a left-out place, two runs, two changes, a fault | `UndoIsUndisturbed`, `UserEditsStay`, `OldIsNeverTrashed` |
| `sub_session_tree` | four starts, four children, three alive, two slots, a cap of two, a restart | `TreeWithinLimits`, `SpendIsBounded` |

### What the violated runs show

Each states a sentence of the repository and TLC finds a behaviour of the code against it; the
sentence, its place and the behaviour are under `findings` in `PROJECT.json`.

1. A turn that ends on its time limit, or on a refused repository call, between `prepare_action` and
   `action_finished` leaves its write `prepared` or `in_flight`. The task then waits for the user, but
   `start` refuses it and `reconcile_action` takes `uncertain` ones only. Cancelling the task first is
   the way out.
2. A scheduled fire whose durable task is cancelled leaves `_fire_body` by `CancelledError`: no outcome
   is recorded, and its open row skips every later period until the next start.

### Bounds

`MaxAttempts = 2` is the least at which an attempt can meet what another left behind; the
interactions the ledger guards against are between an attempt and its successor, and the proofs
cover any number. `MaxRevisions = 2` is the least at which a write of a former goal is still
unknown. The write is external in one run and local in the other, the two ways a failure is
recorded; the read beside it is what may repeat. Three asks make a card with its own turn, a second
ask of the same turn and a stranger; a fourth adds no new role. The Inbox may say yes to the question,
the island may not, which are the two ways an answer is received. One slot and two jobs make a queue;
one kept card makes the list forget; two crashes let a boot pass itself be interrupted. `resolved` and
`done` are capped at 2, since their properties only tell "once" from "more". One "for this task" card
for each job is named in `AllowForTask`.

Two fires are what the gap in the single-flight gate needs, and with `PauseAfter = 2` they can pause
the task; one request and two fires already give three commits over stale readings. Three plans are a
running one, its replacement and one being cancelled; two events are the least at which the user's
verb meets a lost session, and a third verb waits for the lock the second waits for. Three messages
over two sockets give one that runs, one in the box and one behind it; two model requests give a turn
one boundary at which it reads the box, and one at its limit. Two runs let a window attach during one
and stay for the next. Two changes are a run's and the user's, or those of two runs of a chain; one
fault is a copy that fails, a save that fails or a crash. Four starts against three places alive, two
children and one grandchild each let every limit be the one that refuses.

Deadlock is checked for the ledger, whose user can always do something. The others really may stop:
every ask answered, every job over, every message run, the bounded events used up.

### Fairness

- `TaskLedger!Fairness`: weak fairness of the steps `_run` takes after its body has ended, of `_launch`,
  of the second half of `cancel`, and of boot. The event loop runs every ready task. Nothing is
  assumed of a body: it waits for a model, a tool or a person.
- `Approvals!Fairness`: weak fairness of each card's time and of each ask's own steps: a send ends, and
  a waiter that has something to do is woken. Nobody has to answer, type or stop, and a socket need
  not be noticed as closed.
- `BackgroundJobs!FairSpec`: weak fairness of getting a free slot (asyncio's semaphore is first come,
  first served) and of a job's own steps. That `TurnEnds` comes is the wall-clock limit of the task
  (`asyncio.timeout` in `task_service._run`).
- `Scheduler!Spec`: the loop and each fire's own steps. A fire's turn ends by its limits and, unattended,
  never waits for a card. Nobody has to press anything, and a crash need not come.
- `McpSupervisor!Spec`: each plan's steps, each verb's, the tick, and the end of a call, a re-list and
  their reports: opens and listings run under time budgets, and the loop ticks for ever.
- `Conversation!Spec`: each socket's reader and loop, and the turn that holds the lock, which is handed
  on in order. A turn ends by its limit of requests; nobody has to send or close.

## Proofs

TLAPS proves these for every value of the constants, from the one named assumption of each module
(`LedgerAssumption`, `JobsAssumption` and so on) and nothing else. The assumptions say that bounds are
naturals, that sets of names are finite and that "nobody" is none of them; of the cards also that the asks
of turns have one asker, since a conversation runs one turn at a time. The larger inductive invariants
(`OffInv`, `FilesInv`, the parts of `TalkInv`) were checked with TLC on small instances before they were proved.

`TaskLedgerProofs`:

- `TypeCorrect`. `TypeOK` alone is not inductive: `ActionFinished` looks up `key[a]`. `TypeInv` adds
  that an attempt past `prepare_action` holds a key (`KeyHeld`) and that a task that exists has an
  attempt (`HasAttempt`).
- `AtMostOnce` (`NoSilentRepeat`) and `JournalIsRight` (`JournalIsTruthful`). The counter says too little
  to be inductive. `Truth` is what `prepare_action` relies on: until a person's verdict came in between,
  a write the journal has as not tried, prepared or failed has left no effect and nobody is executing
  it, and one attempt at a time executes a write, for the first time.
- `OneTurn`. Inductive once one adds that a live attempt is the one in `_active` (`TurnIsActive`).
- `NothingUnknownIsInherited` (`OpenWritesAreOurs`) and `SuccessIsSettled` (`SucceededIsSettled`), with
  `Settled`: an absent task has no journal, a running one owns what is open, a succeeded one has nothing
  open.
- `DoneIsFinal` and `CancelIsFinal`: action properties, from the same invariants.
- `LedgerKeepsThePromise`: TaskLedger implements OnceOnly. The initial states map to initial states; each
  action changes the mapped state of one write as one action of OnceOnly does, or of none
  (`PromiseStep`, one step per action). `Truth` is needed where OnceOnly asks that nothing speaks against
  another execution: the ledger lets a write out by what the journal says, OnceOnly by what happened.
  `MarkedIsOut` says that marking open writes uncertain leaves what is known of them as it was, and
  `CutToolPromise` that a tool cut off by a stop or a crash may still have its one effect.

`BackgroundJobsProofs`, any jobs, slots and crashes:

- `ToldAtMostOnce`, `DoneMeansVerified`, `GrantsAreOwed`. The invariant `Inv` ties the job to its row
  (`RowFits`: a boot pass only finds jobs that are gone, and a cancel still to be recorded has an open
  row to go to), says that nothing is said of a row that may still change (`Said`), and that a grant
  being written belongs to a registered task at work (`Owed`). `Said` is why a report and the boot
  pass cannot both tell: the report needs a final row, the boot pass an interrupted one.
- `WorkStaysListed` (`WorkIsListed`). What `_forget_old_finished` drops is finished (`KeptIsListed`), which
  rests on what a filtered list keeps (`WithoutKeeps`, by induction over the list). `WorkInv` adds that a
  job without a slot reads `queued`.

`SchedulerProofs`, any fires, requests, crashes and periods:

- `RowsTellTheirFires` (`RowTellsItsFire`). Inductive once one adds that an outcome is in a row only when
  its fire is over (`ToldWhenOver`): no cancel changes how a fire ended after its row has told it.
- `FailuresOnlyCount` (`OnlyFailuresCount`). The failures of the property can shrink, since a cancel takes
  back a fire that is being recorded; `FailedForGood` are those of fires that are over, a set that only
  grows. `CountInv` bounds the column by its size, and so every reading of the column an outcome still
  holds: a commit may write an old count, never one too large.
- `SkipsOncePerPeriod` (`OneSkipPerPeriod`) and `DisabledTasksGoQuiet` (`DisabledGoesQuiet`). `LoopInv`: a
  task that is due or in the loop's list has not been skipped in this period, and one that is enabled or in
  that list has not fired late. The list is why a disabled task may fire once more, and once only.

`ApprovalsProofs`, any number of asks, of turns' and of jobs', and any questions:

- `NobodyWaitsInVain` (`CardsHaveWaiters`), `AllAreToldTheSame` (`WaitersAgree`),
  `PrivateCardsAreAttended` (`PrivateCardHasItsTurn`), `TypingNeverAnswersAJob` (`TypingSparesTheJob`) and
  `CardsResolveOnce` (`ResolvedOnce`), from one invariant, `CardInv`. Its core is `Counted`: the waiter
  count of a card is the number of asks that wait on it, also after the card has left the registry, so
  that the ask that brings it to nothing is the last and the only one to close it. `Announced` says that a
  card with its closing broadcast is out of the registry for good; `TypedOver`, `Ended` and
  `TypedIsDecided` that a wait ends only for a reason the card still shows.

`McpSupervisorProofs`, any plans, verbs and events:

- `OnePlanInFlight` (`OnePlan`): a plan nobody cancelled is the one in flight (`InFlight`).
- `OffStaysOff` (`OffHasNoProcess`). `OffInv` follows the ways to `off` through their awaits. Whoever is
  about to write it has dropped the session and no plan can open one before the write, since it would have
  to mark `starting` first, under the same lock (`OffIsTrue`, from `Locked`, `MarkStands`, `OffIsClean` and
  `StopIsClean`); a session found under an `off` is one a listing is about to drop (`OffIsListed`). After a
  delete nothing can be cached any more, or the delete is still to drop it (`ForgottenIsGone`); after a
  switch-off no plan can open a session, or the stop is still to come (`StoppedIsGone`).

`TurnStreamProofs`, any windows, runs and chunks:

- `FinalRecordsStand` (`FinalRecordStands`) and `RecordsSettle` (`RecordSettles`). `RecordInv`: a row that
  was written has its outcome, so the guard of `flush_checkpoint` keeps a late checkpoint off it
  (`WrittenIsSettled`); a run that has not come to its final write has none (`UnwrittenYet`), and one that
  leaves was written or is known not to be (`LeavesSettled`).
- `FramesReach` (`FramesReachOnce`). `FrameInv` adds that no window is ahead of the journal
  (`NothingAhead`). What a window has seen is compared with the journal by a fold over frames, so each
  step needs what appending one frame does to it; that is proved by induction over the frames.

`TurnStreamProofs`, of the instance `Talk` of Conversation, any sockets, messages and model requests:

- `MessagesHaveOnePlace` (`MessageHasOnePlace`). Neither the cardinalities of the property nor the property
  itself is inductive: it does not say whose inbox a message is in, nor where an unsent one is. `Placed` says
  that a message is with the socket that sent it (`AtSocket`: inbox, reader, loop) or with a turn (`AtTurn`:
  box, read, being stored, part of one), once in all, with no other socket ever, and before it is sent
  nowhere. Its steps need `Queued` (a loop that waits is in the lock's queue once; one that holds the lock is
  the holder and still has its message) and `Turning` (without a turn the box is closed and empty; at the end
  of the loop of requests nothing read is left; `storing` is set exactly during a store). `Times` counts in a
  list; what appending, joining, taking the head and filtering by sender (`Only`) do to it is proved by
  induction, and the counts are carried over to the cardinalities of the property at the end.
- `ClosesLoseNothing` (`CloseLosesNothing`), from `Closing` besides: the inbox of a live reader has no close
  in it; a socket that is going has nothing left in the box; one that has gone in time has nothing with the
  turn either, so that no hand-back puts a message behind its close, which is the last thing in its inbox.
  The loop that finds the close at the head then has nothing in any of the places of `Placed`.
- `FatesAreFinal`, an action property (`FateIsFinal`): only a waiting message can become part of a turn, be
  stored or be answered, since whoever settles it holds it in its one place.
- `ConversationTyped`: `TypeOK`.

  `Talk` is Conversation on the state of ConversationState, which the proof module extends;
  `TalkIsConversation` equates the instance's copies of the definitions with those of the state module, so
  that the theorems are about the very properties the run checks.

`CheckpointsProofs`, any folders, runs, versions and faults:

- `UndosAreUndisturbed` (`UndoIsUndisturbed`), from `UndoInv`: saving is under the lock the restore holds
  (`SavesAlone`), and an undo is of runs that have let their folders go (`UndoIsOfPast`).
- `UndoKeepsUserEdits` (`UserEditsStay`) and `UndoTrashesOnlyNew` (`OldIsNeverTrashed`), action properties.
  `FilesInv` says what a run's copies and records hold of each place, at each stage of the run
  (`CopiesAreRight`, `RecordsAreRight`): a version only ever seen while the folder was nobody's is not
  the one a manifest gives as the run's last, and a place that was there when the run began has a copy or
  is left out. Runs stopped while saving (`cut`) are excepted, as in the properties.

`SubSessionsProofs`, any tree limits, prices, calls and restarts:

- `StartsAreSerial` (`ShapeInv`): a start past its counts holds the lock, so no other start changes what it
  counted, and the sub-session it made is in the tree and has no job yet.
- `TreesStayWithinLimits` (`TreeWithinLimits`). `TreeInv` adds `RoomForStart`: what the holder of the lock
  has counted still holds when it creates, since the others can only free places meanwhile.
- `TreeSpendIsBounded` (`SpendIsBounded`). What was spent is not enough to be inductive: `SpendInv` bounds
  `Sum(Due, Child)`, where `Due` is what a row says with what its run may still add without another look
  at the tree, and says that a request goes out on a saved snapshot (`SavesBeforeItAsks`).

Induction over data is done by least counterexample: a property of naturals is given as a set, and
`WFMin` with `NatLessThanWellFounded` yields the least number outside it. A recursive function is unfolded
from its definition as a CHOOSE, after its existence is shown the same way. `WithoutKeeps`, the frames and
the lists of messages of `TurnStreamProofs` and the sums of `SubSessionsProofs` rest on it; the modules avoid RECURSIVE for it.

Only model-checked: the liveness properties (`StopEnds`, `AskEnds`, `JobEnds`, `GateReopens`,
`ReadyIsBacked`, `StartIsAnswered`, `SentIsRun`), since the prover has neither fairness nor ENABLED. Every
other property of a passing run is a theorem.

## Observations

Behaviours of the code met while modelling. Each is in the model unless it says otherwise; no property
states the opposite.

Task ledger
- `task_repository.py:3` says every live mutation is fenced by its attempt, but the cancel a stopped
  attempt records (`_record_cancel`, and `repo.cancel` in `_run`'s cancelled branch) names the task alone:
  after a cancel and a resume it ends the attempt just started. `task_service.cancel` looks `_active` up
  again after an await and can signal the newer attempt.
- A row can stay `running` with nothing running it until a restart or a user's cancel: a stop between
  `start`'s commit and `_launch`, a stop while `except Exception` records a failure (that handler is not
  shielded), a resume whose start is committed before `_launch` refuses it.
- `reconcile_action` looks at the row's phase only: a person can record "not applied" for a write whose
  cancelled tool is still executing. `NoSilentRepeat` says this is the only way to a repeat.
- The `verifying` phase and the `denied` action status exist in the schema and nothing writes them.

Cards and jobs
- A private card is being sent when a job's identical ask joins it and the Inbox answers: the job's
  `close_card` unregisters it without a broadcast. If the send then fails, `_window_gone` shows the decided
  card to every other window and nothing closes those copies (`approvals.py:14` says each shared card
  ends with a broadcast).
- A job stopped while its answer is judged leaves `_run`'s `finally` before it reads finished: no outcome,
  no message, its grants not forgotten, active until a restart (`README.md:76`: "never silently").
- `report_interrupted` commits a job's cancel and then writes the message; in between, the message is lost
  for good. The other order could tell twice: `ToldOnce` holds because of this one.
- A job still waiting for its slot has no row, so no boot pass finds it.
- `out_of_budget` is a fifth outcome, though `background_jobs.py:12` speaks of exactly four.

Scheduled tasks
- Single flight (`scheduler.py:12`, `api/scheduled_tasks.py:15`) has a gap between `has_inflight` and the
  insert of the row: two "run now"s, or one and the tick, both fire.
- An outcome committed over a resume in between can leave an enabled task with no due time.
- `record_outcome` that raises leaves its row open until the next start. The limit on enabled tasks is
  checked before its commit; two requests at once can pass it (not modelled: one task).

MCP connections
- `set_enabled` says "Off: cancel the plan, stop the process, state `off`". A failed call closes its
  session before it tells the supervisor (`_drop_after_call`); if the server is switched off meanwhile,
  the give-up that follows moves the generation once more, the switch's own `off` is dropped as stale,
  and the row ends `failed` though it is switched off. No process is left (`OffHasNoProcess`).

Conversation and stream
- Order is not kept between a message that waits for the lock (or was handed back, typed on a card, or
  carries an attachment) and a later one that goes into the running turn.
- A stop that lands on a store counts the message as stored, though the write may have rolled back; an
  endpoint that fails loses what waits in its inbox; past `SETTLE_WAIT_S` a message handed back lands
  behind the close. `CloseLosesNothing` and `SentIsRun` name these exceptions.
- The attach block reads the history before it takes the snapshot of the journals, and the snapshot leaves
  out a run whose journal holds `stream_end`: an answer stored and ended in between is in neither, until
  the window reloads (`run_registry.py:136` says "an answered run is in history too").
- A final write that raises leaves `_finalizing` set and the row `recording` until the next boot; so does a
  stop before the run's task has started. A stop during the final write sends `run_cancelled` for a run
  recorded as completed. `mark_interrupted_runs` does not sweep runs of kind "worker".

Checkpoints
- A run stopped while its `ensure` thread waits or copies: `finish` lets go first and the thread takes the
  folder again, which then reads as running until a restart, or wipes the run's copies while `finish`
  records, so existing files are listed as made by the run. The properties except such runs (`cut`).
- `_restore_run` remembers what went back by relative path alone for all folders of the run: when a file of
  the same name in another folder failed, the next try skips it and marks the run as restored, though
  `checkpoints.py:40` says a try with failures can be tried again. A failed `.git` is not counted as a
  failure at all (`.git` is not modelled).
- A failed save followed by a successful one gives an undo to the middle of the run, though the docstring
  says that run has no undo. `_chain` looks for running runs in the asked run's folders only. `finish`
  fingerprints after the run left `_touching`, so a later run's change can be recorded as the earlier's.
- The comparison of a path and its replacement are one step here; the code has a few system calls between.

Sub-sessions
- A start cut off or lost after `create_child`'s commit leaves a child without a job that uses up its
  parent's share for good.
- A run that dies, or whose stop checkpoint fails, leaves its last response uncounted; `SpendIsBounded`
  allows one response for each run. The judge's requests and parallel requests inside one run are not
  modelled, nor a cap changed under way.

## Not modelled

Text: prompts, answers, wording, shell grammar. Network clients, file contents, the UI. What a model
decides. Of the modelled parts: `turn_undo` and the git and diff side of checkpoints; the settings a
sub-session inherits; the boot reset, runtimes, sign-in and pins of MCP servers; steps, scoring and
redaction of a run's record; standing permission rules and the width of an answer; the gates of one
tool call. Most of the repository's lines are such code: command classification, tool executors that do
one I/O call each, CRUD endpoints, detectors and retrieval, where a state machine has nothing to say
that a unit test does not. `components` in `PROJECT.json` gives the reason for each part.

`TypeOK` of the modules whose run does not list it documents the shape of their state.

## Plan

Done: the ledger with its refinement, cards, jobs, scheduled tasks, MCP servers, the conversation with its
stream and records, checkpoints, sub-sessions.

1. `Permissions`: standing rules and grants, the ways an answer narrows, forgetting; then with Approvals:
   what was granted is what the person saw.
2. The gates of one tool call in the tool loop (permission, card, journal, checkpoint, execution) and its
   parallel reads, as a composition of the modules there are.
3. `turn_undo` on top of Checkpoints and TurnStream: files first, then the messages, and a crash between.
