--------------------------- MODULE BackgroundJobs ---------------------------
(***************************************************************************)
(* Background work (server/services/background_jobs.py): jobs that queue   *)
(* for a slot, run as a durable task, are judged, reported to their        *)
(* conversation once, and give back what they were allowed; and the boot   *)
(* passes that account for the jobs a restart cut short (server/main.py).  *)
(*                                                                         *)
(* The task ledger a job writes to is TaskLedger's; here its row is only   *)
(* the phase the job and the boot passes read.                             *)
(***************************************************************************)
EXTENDS Integers, Sequences, FiniteSets, SequencesExt

CONSTANTS
    Job,            \* the jobs of a run; an id is a fresh uuid and never comes back
    Unchecked,      \* the jobs with no check of their own: a judge reads their answer
    MaxConcurrent,  \* MAX_CONCURRENT
    KeepFinished,   \* KEEP_FINISHED
    MaxCrashes,     \* bound: crashes of the process in one behaviour
    None

ASSUME JobsAssumption ==
    /\ Unchecked \subseteq Job
    /\ MaxConcurrent \in Nat \ {0}
    /\ KeepFinished \in Nat \ {0}
    /\ MaxCrashes \in Nat
    /\ None \notin Job \union {"done", "partial", "blocked", "stopped", "out_of_budget"}

VARIABLES
    server,         \* "up", "down", or the boot pass that comes next
    telling,        \* the job report_interrupted has closed and not told yet
    crashes,
    pc,             \* where _run(job) is; "gone" is a job of an earlier process
    cards,          \* _jobs, oldest first
    phase,          \* Job.phase
    outcome,        \* Job.outcome
    text,           \* whether there is a final text
    recording,      \* the child's kept record of the cancel is still to be written
    row,            \* the durable task row
    posted,         \* messages the conversation got about the job
    granting,       \* the card's answer is being written
    registered,     \* _GRANTED_TASKS
    stored          \* tasks with a "for this task" grant in the database

vars == <<server, telling, crashes, pc, cards, phase, outcome, text, recording, row, posted,
          granting, registered, stored>>
grantVars == <<granting, registered, stored>>
bootVars == <<server, telling, crashes>>

InSlot_StoppedKeeps == {j \in Job : pc[j] \in {"working", "reading", "stopping"} \/ outcome[j] = "stopped"}

InSlot == {j \in Job : pc[j] \in {"working", "reading", "stopping"}}
Alive == {j \in Job : pc[j] \notin {"none", "over", "gone"}}
RowFinal == {"succeeded", "budget", "held", "cancelled", "closed"}

TypeOK ==
    /\ server \in {"up", "down", "grants", "recover", "report"}
    /\ telling \in Job \union {None}
    /\ crashes \in 0..MaxCrashes
    /\ pc \in [Job -> {"none", "queued", "working", "reading", "stopping", "judging", "reporting",
                       "forgetting", "over", "gone"}]
    /\ cards \in Seq(Job)
    /\ phase \in [Job -> {"queued", "running", "finished"}]
    /\ outcome \in [Job -> {None, "done", "partial", "blocked", "stopped", "out_of_budget"}]
    /\ text \in [Job -> BOOLEAN]
    /\ recording \in [Job -> BOOLEAN]
    /\ row \in [Job -> RowFinal \union {"none", "running", "interrupted"}]
    /\ posted \in [Job -> Nat]
    /\ granting \in [Job -> BOOLEAN]
    /\ registered \subseteq Job
    /\ stored \subseteq Job

Init ==
    /\ server = "up"
    /\ telling = None
    /\ crashes = 0
    /\ pc = [j \in Job |-> "none"]
    /\ cards = <<>>
    /\ phase = [j \in Job |-> "queued"]
    /\ outcome = [j \in Job |-> None]
    /\ text = [j \in Job |-> FALSE]
    /\ recording = [j \in Job |-> FALSE]
    /\ row = [j \in Job |-> "none"]
    /\ posted = [j \in Job |-> 0]
    /\ granting = [j \in Job |-> FALSE]
    /\ registered = {}
    /\ stored = {}

-----------------------------------------------------------------------------
(* Starting *)

Kept_TooMany == IF Len(cards) >= KeepFinished THEN SubSeq(cards, 2, Len(cards)) ELSE cards

\* The jobs of s that are not in S, in order.
Without(s, S) ==
    LET kept[i \in 0 .. Len(s)] ==
          IF i = 0 THEN <<>> ELSE IF s[i] \in S THEN kept[i - 1] ELSE Append(kept[i - 1], s[i])
    IN  kept[Len(s)]

\* _forget_old_finished: the oldest finished cards go, so that with the new
\* one at most KEEP_FINISHED of the finished are kept.
Kept ==
    LET finished == Without(cards, {j \in Job : phase[j] # "finished"})
        surplus == Len(finished) - KeepFinished + 1
        forgotten == IF surplus > 0 THEN ToSet(SubSeq(finished, 1, surplus)) ELSE {}
    IN  Without(cards, forgotten)

Start(j) ==
    /\ server = "up"
    /\ pc[j] = "none"
    /\ pc' = [pc EXCEPT ![j] = "queued"]
    /\ cards' = Append(Kept, j)
    /\ UNCHANGED <<bootVars, phase, outcome, text, recording, row, posted, grantVars>>

-----------------------------------------------------------------------------
(* Running: _run and _execute, with task_service.run_turn inside *)

GetSlot(j) ==
    /\ pc[j] = "queued"
    /\ Cardinality(InSlot) < MaxConcurrent
    /\ pc' = [pc EXCEPT ![j] = "working"]
    /\ phase' = [phase EXCEPT ![j] = "running"]
    /\ UNCHANGED <<bootVars, cards, outcome, text, recording, row, posted, grantVars>>

\* run_turn commits the task row, started, before anything runs.
CreateRow(j) ==
    /\ pc[j] = "working" /\ row[j] = "none"
    /\ row' = [row EXCEPT ![j] = "running"]
    /\ UNCHANGED <<bootVars, pc, cards, phase, outcome, text, recording, posted, grantVars>>

AllowForTask_LateNote(j) ==
    /\ pc[j] = "working" /\ row[j] = "running"
    /\ ~granting[j] /\ j \notin stored \union registered
    /\ granting' = [granting EXCEPT ![j] = TRUE]
    /\ UNCHANGED <<bootVars, pc, cards, phase, outcome, text, recording, row, posted, registered, stored>>

\* A card answered "for this task" (permissions._ask): the task is registered
\* first, then the grant is written. (Bound: one such card for each job.)
AllowForTask(j) ==
    /\ pc[j] = "working" /\ row[j] = "running"
    /\ j \notin registered
    /\ granting' = [granting EXCEPT ![j] = TRUE]
    /\ registered' = registered \union {j}
    /\ UNCHANGED <<bootVars, pc, cards, phase, outcome, text, recording, row, posted, stored>>

\* The transaction commits, or fails closed.
GrantWritten(j) ==
    /\ granting[j]
    /\ granting' = [granting EXCEPT ![j] = FALSE]
    /\ stored' \in {stored, stored \union {j}}
    /\ UNCHANGED <<bootVars, pc, cards, phase, outcome, text, recording, row, posted, registered>>

\* A write in flight when its task is cancelled, or its process dies, is rolled
\* back or was already committed.
DropWrite(j) ==
    /\ granting' = [granting EXCEPT ![j] = FALSE]
    /\ stored' \in {stored, IF granting[j] THEN stored \union {j} ELSE stored}

\* The child task ends by itself: a verdict is on the row, or, when the last
\* write fails, the row still says running. A turn that raised leaves no text.
TurnEnds(j) ==
    /\ pc[j] = "working" /\ row[j] = "running" /\ ~granting[j]
    /\ pc' = [pc EXCEPT ![j] = "reading"]
    /\ \/ /\ row' \in {[row EXCEPT ![j] = r] : r \in {"succeeded", "budget", "held"}}
          /\ text' \in {text, [text EXCEPT ![j] = TRUE]}
       \/ UNCHANGED <<row, text>>
    /\ UNCHANGED <<bootVars, cards, phase, outcome, recording, posted, grantVars>>

\* task_service.cancel on the job's task, not the job: _launch returns None.
CancelTask(j) ==
    /\ server = "up"
    /\ pc[j] = "working" /\ row[j] = "running"
    /\ row' = [row EXCEPT ![j] = "cancelled"]
    /\ pc' = [pc EXCEPT ![j] = "reading"]
    /\ DropWrite(j)
    /\ UNCHANGED <<bootVars, cards, phase, outcome, text, recording, posted, registered>>

\* The end of _run's finally before the report: the job reads finished.
ReadsFinished(j, o) ==
    /\ pc' = [pc EXCEPT ![j] = "reporting"]
    /\ phase' = [phase EXCEPT ![j] = "finished"]
    /\ outcome' = [outcome EXCEPT ![j] = o]

\* A job some of whose own checks passed is partial, one without any is blocked.
FellShort(j) == IF j \in Unchecked THEN {"blocked"} ELSE {"partial", "blocked"}

OutcomeOf_TextIsDone(j, r) ==
    CASE r \in {"succeeded", "held"} -> {"done"}
      [] r = "cancelled" -> {"stopped"}
      [] r = "budget" -> {"out_of_budget"}
      [] OTHER -> FellShort(j)

\* outcome_of.
OutcomeOf(j, r) ==
    CASE r = "succeeded" -> {"done"}
      [] r = "cancelled" -> {"stopped"}
      [] r = "budget" -> {"out_of_budget"}
      [] OTHER -> FellShort(j)

\* _execute reads the row back; a done with a text and no check of its own is
\* judged first, outside the slot.
ReadRow(j) ==
    /\ pc[j] = "reading"
    /\ \E o \in OutcomeOf(j, row[j]) :
         IF o = "done" /\ j \in Unchecked /\ text[j]
         THEN /\ pc' = [pc EXCEPT ![j] = "judging"]
              /\ UNCHANGED <<phase, outcome>>
         ELSE ReadsFinished(j, o)
    /\ UNCHANGED <<bootVars, cards, text, recording, row, posted, grantVars>>

\* A step before the row exists fails: nothing was checked.  Or reading it back
\* does, before or after its results were copied.
ExecuteFails(j) ==
    /\ \/ pc[j] = "working" /\ row[j] = "none" /\ ReadsFinished(j, "blocked")
       \/ pc[j] = "reading" /\ \E o \in FellShort(j) : ReadsFinished(j, o)
    /\ text' = [text EXCEPT ![j] = FALSE]
    /\ UNCHANGED <<bootVars, cards, recording, row, posted, grantVars>>

\* _goal_not_reached.
Judge(j) ==
    /\ pc[j] = "judging"
    /\ \E o \in {"done", "blocked"} : ReadsFinished(j, o)
    /\ UNCHANGED <<bootVars, cards, text, recording, row, posted, grantVars>>

-----------------------------------------------------------------------------
(* Stopping: stop() cancels the job's task, wherever that waits *)

Stoppable(j) ==
    /\ server = "up"
    /\ j \in ToSet(cards)
    /\ phase[j] # "finished"

StopOutside(j) ==
    /\ Stoppable(j)
    /\ \/ pc[j] = "queued"                       \* waiting for a slot
       \/ pc[j] = "working" /\ row[j] = "none"   \* before the task row
       \/ pc[j] = "reading"                      \* after the child, before the verdict is read
    /\ ReadsFinished(j, "stopped")
    /\ text' = [text EXCEPT ![j] = FALSE]
    /\ UNCHANGED <<bootVars, cards, recording, row, posted, grantVars>>

\* The cancel reaches the child, whose record of it is kept and shielded.
StopChild(j) ==
    /\ Stoppable(j)
    /\ pc[j] = "working" /\ row[j] = "running"
    /\ pc' = [pc EXCEPT ![j] = "stopping"]
    /\ recording' = [recording EXCEPT ![j] = TRUE]
    /\ DropWrite(j)
    /\ UNCHANGED <<bootVars, cards, phase, outcome, text, row, posted, registered>>

\* A stop as the child's last commit goes through: a succeeded row refuses the
\* cancel, the turn raises, and the job goes on without its text.
StopAtCommit(j) ==
    /\ Stoppable(j)
    /\ pc[j] = "working" /\ row[j] = "running" /\ ~granting[j]
    /\ row' = [row EXCEPT ![j] = "succeeded"]
    /\ pc' = [pc EXCEPT ![j] = "reading"]
    /\ UNCHANGED <<bootVars, cards, phase, outcome, text, recording, posted, grantVars>>

\* A run inside the child consumed the cancel: the row is cancelled and the
\* turn returns what it had.
StopConsumed(j) ==
    /\ Stoppable(j)
    /\ pc[j] = "working" /\ row[j] = "running"
    /\ row' = [row EXCEPT ![j] = "cancelled"]
    /\ pc' = [pc EXCEPT ![j] = "reading"]
    /\ text' \in {text, [text EXCEPT ![j] = TRUE]}
    /\ DropWrite(j)
    /\ UNCHANGED <<bootVars, cards, phase, outcome, recording, posted, registered>>

RecordCancel(j) ==
    /\ recording[j]
    /\ recording' = [recording EXCEPT ![j] = FALSE]
    /\ row' = [row EXCEPT ![j] = "cancelled"]
    /\ UNCHANGED <<bootVars, pc, cards, phase, outcome, text, posted, grantVars>>

ChildStopped(j) ==
    /\ pc[j] = "stopping" /\ ~recording[j]
    /\ ReadsFinished(j, "stopped")
    /\ UNCHANGED <<bootVars, cards, text, recording, row, posted, grantVars>>

\* A second stop while the child records the first: the record goes on alone.
StopAgain(j) ==
    /\ Stoppable(j)
    /\ pc[j] = "stopping" /\ recording[j]
    /\ ReadsFinished(j, "stopped")
    /\ UNCHANGED <<bootVars, cards, text, recording, row, posted, grantVars>>

\* A stop while the answer is judged: the cancel leaves _run's finally before
\* the job reads finished, is reported or forgets its grants.
StopJudging(j) ==
    /\ Stoppable(j)
    /\ pc[j] = "judging"
    /\ pc' = [pc EXCEPT ![j] = "over"]
    /\ UNCHANGED <<bootVars, cards, phase, outcome, text, recording, row, posted, grantVars>>

-----------------------------------------------------------------------------
(* Ending *)

HasBody(j) == text[j] \/ outcome[j] = "out_of_budget"

\* _report: one message, unless there is nothing to say or it cannot be written.
Report(j) ==
    /\ pc[j] = "reporting"
    /\ pc' = [pc EXCEPT ![j] = "forgetting"]
    /\ posted' \in {posted, IF HasBody(j) THEN [posted EXCEPT ![j] = @ + 1] ELSE posted}
    /\ UNCHANGED <<bootVars, cards, phase, outcome, text, recording, row, grantVars>>

\* forget_task: a task given nothing touches no database; a delete that fails
\* leaves the task registered.
ForgetTask(j) ==
    /\ pc[j] = "forgetting"
    /\ pc' = [pc EXCEPT ![j] = "over"]
    /\ \/ j \in registered /\ stored' = stored \ {j} /\ registered' = registered \ {j}
       \/ j \in registered /\ UNCHANGED <<stored, registered>>
       \/ j \notin registered /\ UNCHANGED <<stored, registered>>
    /\ UNCHANGED <<bootVars, cards, phase, outcome, text, recording, row, posted, granting>>

-----------------------------------------------------------------------------
(* Crash and boot *)

Crash ==
    /\ crashes < MaxCrashes
    /\ server # "down"
    /\ server' = "down"
    /\ telling' = None
    /\ crashes' = crashes + 1
    /\ pc' = [j \in Job |-> IF pc[j] = "none" THEN "none" ELSE "gone"]
    /\ cards' = <<>>
    /\ phase' = [j \in Job |-> "queued"]
    /\ outcome' = [j \in Job |-> None]
    /\ text' = [j \in Job |-> FALSE]
    /\ recording' = [j \in Job |-> FALSE]
    /\ granting' = [j \in Job |-> FALSE]
    /\ registered' = {}
    /\ \E committed \in SUBSET {j \in Job : granting[j]} : stored' = stored \union committed
    /\ UNCHANGED <<row, posted>>

Boot ==
    /\ server = "down"
    /\ server' = "grants"
    /\ UNCHANGED <<telling, crashes, pc, cards, phase, outcome, text, recording, row, posted, grantVars>>

\* forget_every_task_grant; a failure is logged and boot goes on.
DropGrants ==
    /\ server = "grants"
    /\ server' = "recover"
    /\ stored' \in {{}, stored}
    /\ UNCHANGED <<telling, crashes, pc, cards, phase, outcome, text, recording, row, posted,
                   granting, registered>>

\* task_service.recover_interrupted; a failure skips the rest of the passes.
Recover ==
    /\ server = "recover"
    /\ \/ /\ row' = [j \in Job |-> IF row[j] = "running" THEN "interrupted" ELSE row[j]]
          /\ server' = "report"
       \/ /\ server' = "up"
          /\ UNCHANGED row
    /\ UNCHANGED <<telling, crashes, pc, cards, phase, outcome, text, recording, posted, grantVars>>

CloseInterrupted_TellsFirst(j) ==
    /\ server = "report" /\ telling = None
    /\ row[j] = "interrupted"
    /\ \/ posted' = [posted EXCEPT ![j] = @ + 1] /\ UNCHANGED row
       \/ row' = [row EXCEPT ![j] = "closed"] /\ UNCHANGED posted
    /\ UNCHANGED <<bootVars, pc, cards, phase, outcome, text, recording, grantVars>>

\* report_interrupted closes one job's row and commits ...
CloseInterrupted(j) ==
    /\ server = "report" /\ telling = None
    /\ row[j] = "interrupted"
    /\ row' = [row EXCEPT ![j] = "closed"]
    /\ telling' = j
    /\ UNCHANGED <<server, crashes, pc, cards, phase, outcome, text, recording, posted, grantVars>>

\* ... and only then tells its conversation.
TellInterrupted ==
    /\ telling # None
    /\ posted' = [posted EXCEPT ![telling] = @ + 1]
    /\ telling' = None
    /\ UNCHANGED <<server, crashes, pc, cards, phase, outcome, text, recording, row, grantVars>>

\* The last target is done, or one of them raised: the server takes requests.
BootEnds ==
    /\ server = "report"
    /\ server' = "up"
    /\ telling' = None
    /\ UNCHANGED <<crashes, pc, cards, phase, outcome, text, recording, row, posted, grantVars>>

-----------------------------------------------------------------------------
Works(j) ==
    \/ CreateRow(j) \/ GrantWritten(j) \/ TurnEnds(j) \/ ReadRow(j) \/ Judge(j)
    \/ RecordCancel(j) \/ ChildStopped(j) \/ Report(j) \/ ForgetTask(j)

Stop(j) ==
    \/ StopOutside(j) \/ StopChild(j) \/ StopAtCommit(j) \/ StopConsumed(j)
    \/ StopAgain(j) \/ StopJudging(j)

Next ==
    \/ \E j \in Job :
         \/ Start(j) \/ GetSlot(j) \/ CreateRow(j) \/ AllowForTask(j) \/ GrantWritten(j)
         \/ TurnEnds(j) \/ CancelTask(j) \/ ReadRow(j) \/ ExecuteFails(j) \/ Judge(j)
         \/ StopOutside(j) \/ StopChild(j) \/ StopAtCommit(j) \/ StopConsumed(j)
         \/ RecordCancel(j) \/ ChildStopped(j) \/ StopAgain(j) \/ StopJudging(j)
         \/ Report(j) \/ ForgetTask(j) \/ CloseInterrupted(j)
    \/ Crash \/ Boot \/ DropGrants \/ Recover \/ TellInterrupted \/ BootEnds

Spec == Init /\ [][Next]_vars

\* The event loop runs what can run: a free slot goes to a job that waits for it,
\* a turn ends by its wall-clock budget, a card it waits on by its own time.
FairSpec == Spec /\ \A j \in Job : WF_vars(GetSlot(j) \/ Works(j))
-----------------------------------------------------------------------------
(* What makes it correct *)

\* A conversation is told of a job at most once: by its report, or by the boot
\* pass after a crash, never by both (_report; report_interrupted: "its
\* conversation is told, once").
ToldOnce == \A j \in Job : posted[j] <= 1

\* A job that reads done has a row the validator marked succeeded (outcome_of:
\* "Only a task the validator marked succeeded is done").
DoneIsVerified == \A j \in Job : outcome[j] = "done" => row[j] = "succeeded"

\* A grant of a job of this process is always one somebody still owes the
\* deletion of, whenever the job is stopped and whichever write failed
\* (_GRANTED_TASKS: "before the write: the task's end must not miss it").
StoredGrantIsOwed ==
    server = "up" => \A j \in stored : pc[j] # "gone" => j \in registered

\* A job at work is always in _jobs, where stop() and the job list find it,
\* however many finished ones are forgotten.
WorkIsListed == \A j \in Alive : phase[j] # "finished" => j \in ToSet(cards)

\* Every job that was started ends, also one waiting behind others.
JobEnds == \A j \in Job : pc[j] = "queued" ~> pc[j] \in {"over", "gone"}

=============================================================================
