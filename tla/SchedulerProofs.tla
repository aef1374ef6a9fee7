--------------------------- MODULE SchedulerProofs ---------------------------
(***************************************************************************)
(* That a run row tells of its own fire, that only failures count, that a  *)
(* long fire is skipped once a period and that a disabled task goes quiet, *)
(* for any number of fires, requests, crashes and periods.                 *)
(***************************************************************************)
EXTENDS Scheduler, FiniteSetTheorems, TLAPS

\* The rows and the fires as far as the argument needs them.
Shape ==
    /\ row \in [Fire -> {"none", "open", "orphan"} \union Endings]
    /\ pc \in [Fire -> {"idle", "entering", "running", "ended", "recording", "done", "killed"}]
    /\ ending \in [Fire -> Endings \union {"none"}]

\* An outcome is in a row only once its fire is over: from then on nothing ends
\* the fire another way, and nobody takes its number again.
ToldWhenOver == \A f \in Fire : row[f] \in Endings => pc[f] = "done" /\ row[f] = ending[f]

\* A fire whose outcome is about to be written ended in one of the three ways.
Ended(f) == pc[f] \in {"ended", "recording"} => ending[f] \in Endings
RowInv == Shape /\ ToldWhenOver /\ \A f \in Fire : Ended(f)

\* At the start no fire has a row.
LEMMA RowStart == Init => RowInv
  BY DEF Init, RowInv, Shape, ToldWhenOver, Ended, Endings

\* Every step keeps the rows true to their fires.
LEMMA RowStep == RowInv /\ [Next]_vars => RowInv'
  <1> SUFFICES ASSUME RowInv, [Next]_vars
               PROVE  RowInv'
    OBVIOUS
  <1> USE DEF RowInv, Shape, ToldWhenOver, Ended, Endings
  \* Steps that leave the rows and the fires alone.
  <1>1. ASSUME row' = row, pc' = pc, ending' = ending
        PROVE  RowInv'
    BY <1>1
  \* A fire begins.
  <1>2. ASSUME NEW f \in Fire, pc[f] = "idle", row' = row, ending' = ending,
               pc' = [pc EXCEPT ![f] = "entering"]
        PROVE  RowInv'
    BY <1>2
  <1>3. CASE SweepWrite
    BY <1>3 DEF SweepWrite, fireVars
  <1>4. ASSUME NEW f \in Fire, Insert(f)
        PROVE  RowInv'
    BY <1>4 DEF Insert
  <1>5. ASSUME NEW f \in Fire, NEW how \in Endings, TurnEnds(f, how)
        PROVE  RowInv'
    BY <1>5 DEF TurnEnds
  <1>6. ASSUME NEW f \in Fire, EntryFails(f)
        PROVE  RowInv'
    BY <1>6 DEF EntryFails
  <1>7. ASSUME NEW f \in Fire, RecordRead(f)
        PROVE  RowInv'
    BY <1>7 DEF RecordRead
  \* The outcome goes to the fire's own row, as its turn ended.
  <1>8. ASSUME NEW f \in Fire, RecordCommit(f)
        PROVE  RowInv'
    <2>1. /\ pc[f] = "recording" /\ ending' = ending
          /\ pc' = [pc EXCEPT ![f] = "done"]
          /\ \E told \in {ending[f], row[f]} : row' = [row EXCEPT ![f] = told]
      BY <1>8 DEF RecordCommit, Finalize
    <2>2. row[f] \notin Endings
      BY <2>1
    <2> QED
      BY <2>1, <2>2
  <1>9. ASSUME NEW f \in Fire, Cancel(f)
        PROVE  RowInv'
    BY <1>9 DEF Cancel
  <1>10. CASE Delete
    BY <1>10 DEF Delete, fireVars
  <1>11. CASE Crash
    BY <1>11 DEF Crash
  <1>12. CASE LoopStep
    <2>1. CASE SweepRead \/ SweepFails \/ TickList \/ RecordSkipOverlap \/ TickSpent
      BY <1>1, <2>1 DEF SweepRead, SweepFails, TickList, RecordSkipOverlap, TickSpent, fireVars
    <2>2. ASSUME NEW f \in Fire, TickFire(f)
          PROVE  RowInv'
      BY <1>2, <2>2 DEF TickFire, Starts
    <2> QED
      BY <1>3, <1>12, <2>1, <2>2 DEF LoopStep
  <1>13. CASE RequestStep
    <2>1. CASE (\E kind \in {"pause", "resume", "update"} : RequestRead(kind)) \/ RequestCommit \/ RequestRefused
      BY <1>1, <2>1 DEF RequestRead, RequestCommit, RequestRefused, fireVars
    <2>2. ASSUME NEW f \in Fire, FireNow(f)
          PROVE  RowInv'
      BY <1>2, <2>2 DEF FireNow, Starts
    <2> QED
      BY <1>10, <1>13, <2>1, <2>2 DEF RequestStep
  <1>14. CASE BecomeDue
    BY <1>1, <1>14 DEF BecomeDue, fireVars
  <1>15. CASE UNCHANGED vars
    BY <1>1, <1>15 DEF vars, fireVars
  <1> QED
    BY <1>4, <1>5, <1>6, <1>7, <1>8, <1>9, <1>11, <1>12, <1>13, <1>14, <1>15 DEF Next, FireStep

\* Whatever overlaps, is cancelled, swept, deleted or dies, an outcome in a run
\* row is how that row's own fire ended (record_outcome writes by row id, S6).
THEOREM RowsTellTheirFires == Spec => []RowTellsItsFire
  <1>1. RowInv => RowTellsItsFire
    BY DEF RowInv, ToldWhenOver, RowTellsItsFire
  <1> QED
    BY RowStart, RowStep, <1>1, PTL DEF Spec

-----------------------------------------------------------------------------
(* The failure count. *)

\* The failures that can have been counted: of fires that are over, so that no
\* cancel takes one back.
Failed == {f \in Fire : ending[f] = "failed"}
FailedForGood == {f \in Fire : ending[f] = "failed" /\ pc[f] = "done"}
Count == Cardinality(FailedForGood)

\* The column never says more than that, and neither does what an outcome read of
\* it some time ago: the set only grows.
Counted(n) == n \in Nat /\ n <= Count
CountInv ==
    /\ RowInv
    /\ read = [f \in Fire |-> read[f]]
    /\ Counted(failures) /\ (reason = "failures" => Count >= PauseAfter)
    /\ \A f \in Fire : pc[f] = "recording" => Counted(read[f].failures)

\* A set of fires is finite and has a size.
LEMMA Finite == \A S \in SUBSET Fire : IsFiniteSet(S) /\ Cardinality(S) \in Nat
  <1>1. IsFiniteSet(Fire)
    BY SchedulerAssumption, FS_Interval DEF Fire, SchedulerAssumption
  <1>2. ASSUME NEW S \in SUBSET Fire
        PROVE  IsFiniteSet(S) /\ Cardinality(S) \in Nat
    BY <1>1, FS_Subset, FS_CardinalityType
  <1> QED
    BY <1>2

\* The number of fires that failed for good never shrinks.
LEMMA CountGrows ==
    ASSUME FailedForGood \subseteq FailedForGood'
    PROVE  Count \in Nat /\ Count' \in Nat /\ Count <= Count'
  <1>1. FailedForGood \in SUBSET Fire /\ FailedForGood' \in SUBSET Fire
    BY DEF FailedForGood, Fire
  <1> QED
    BY <1>1, Finite, FS_Subset DEF Count

\* A step that counts nothing: what is written to the two columns is what they
\* held, nothing, or another reason.
LEMMA NothingCounted ==
    ASSUME CountInv, RowInv', FailedForGood \subseteq FailedForGood',
           read' = [f \in Fire |-> read'[f]],
           failures' \in {failures, 0}, reason' = reason \/ reason' # "failures",
           \A f \in Fire : pc'[f] = "recording" =>
              read'[f].failures = failures \/ (pc[f] = "recording" /\ read'[f] = read[f])
    PROVE  CountInv'
  BY CountGrows, SchedulerAssumption DEF CountInv, Counted, SchedulerAssumption

\* What Commit can leave in the two columns.
LEMMA CommitWrites ==
    ASSUME NEW was, NEW e, NEW r, NEW n, NEW d, Commit(was, e, r, n, d)
    PROVE  /\ reason' = reason \/ reason' = r
           /\ failures' = failures \/ failures' = n
           /\ r = was.reason => reason' = reason
           /\ n = was.failures => failures' = failures
  BY DEF Commit, Merge

\* What moving the due time on may write of the reason and the count.
LEMMA AdvanceWrites ==
    ASSUME NEW was, NEW n, AdvanceOrPause(was, n)
    PROVE  /\ reason' = reason \/ reason' = "noFuture"
           /\ failures' = failures \/ failures' = n
           /\ n = was.failures => failures' = failures
  BY CommitWrites DEF AdvanceOrPause

\* At the start nothing has failed.
LEMMA CountStart == Init => CountInv
  <1> SUFFICES ASSUME Init PROVE CountInv
    OBVIOUS
  <1>1. FailedForGood = {}
    BY DEF Init, FailedForGood
  <1>2. Count = 0
    BY <1>1, FS_EmptySet DEF Count
  <1> QED
    BY <1>2, RowStart DEF Init, CountInv, Counted

\* A failed fire is counted once: it joins those that are over in the same step.
LEMMA FailureCounted ==
    ASSUME CountInv, NEW f \in Fire, pc[f] = "recording", ending[f] = "failed",
           FailedForGood' = FailedForGood \union {f}
    PROVE  Count \in Nat /\ Count' = Count + 1 /\ Counted(read[f].failures)
  <1>1. f \notin FailedForGood /\ FailedForGood \in SUBSET Fire
    BY DEF FailedForGood
  <1>2. IsFiniteSet(FailedForGood) /\ Count \in Nat
    BY <1>1, Finite DEF Count
  <1>3. Count' = Count + 1
    BY <1>1, <1>2, FS_AddElement DEF Count
  <1> QED
    BY <1>2, <1>3 DEF CountInv

\* Recording the outcome of a fire counts at most that fire.
LEMMA RecordCounts ==
    ASSUME CountInv, RowInv', NEW f \in Fire, RecordCommit(f)
    PROVE  CountInv'
  <1>1. /\ pc[f] = "recording" /\ ending' = ending
        /\ pc' = [pc EXCEPT ![f] = "done"] /\ read' = [read EXCEPT ![f] = Unread]
    BY DEF RecordCommit
  <1>2. read' = [g \in Fire |-> read'[g]]
    BY <1>1 DEF CountInv
  <1>3. \A g \in Fire : pc'[g] = "recording" => pc[g] = "recording" /\ read'[g] = read[g]
    BY <1>1 DEF CountInv, RowInv, Shape
  <1>4. FailedForGood' = IF ending[f] = "failed" THEN FailedForGood \union {f} ELSE FailedForGood
    BY <1>1 DEF FailedForGood, CountInv, RowInv, Shape
  <1>5. CASE ~exists
    <2>1. failures' = failures /\ reason' = reason
      BY <1>5 DEF RecordCommit, taskVars
    <2> QED
      BY <1>2, <1>3, <1>4, <2>1, NothingCounted
  <1>6. CASE exists /\ ending[f] = "ok"
    <2>1. failures' \in {failures, 0} /\ (reason' = reason \/ reason' # "failures")
      BY <1>6 DEF RecordCommit, Counts, AdvanceOrPause, Commit, Merge
    <2> QED
      BY <1>2, <1>3, <1>4, <1>6, <2>1, NothingCounted
  <1>7. CASE exists /\ ending[f] = "failed"
    <2> DEFINE n == read[f].failures + 1
    <2>1. Count \in Nat /\ Count' = Count + 1 /\ Counted(read[f].failures)
      BY <1>1, <1>4, <1>7, FailureCounted
    <2>2. n \in Nat /\ n <= Count' /\ PauseAfter \in Nat
      BY <1>1, <2>1, SchedulerAssumption DEF Counted, SchedulerAssumption
    <2>3. /\ failures' \in {failures, n}
          /\ reason' = reason \/ (reason' = "failures" /\ n >= PauseAfter)
      BY <1>7, <2>2 DEF RecordCommit, Counts, Commit, Merge
    <2> QED
      BY <1>2, <1>3, <2>1, <2>2, <2>3 DEF CountInv, Counted
  <1>8. CASE exists /\ ending[f] \notin {"ok", "failed"}
    <2>1. failures' = failures /\ reason' = reason
      BY <1>8 DEF RecordCommit, Counts
    <2> QED
      BY <1>2, <1>3, <1>4, <2>1, NothingCounted
  <1> QED
    BY <1>5, <1>6, <1>7, <1>8

\* Every step keeps the count within the fires that failed.
LEMMA CountStep == CountInv /\ [Next]_vars => CountInv'
  <1> SUFFICES ASSUME CountInv, [Next]_vars
               PROVE  CountInv'
    OBVIOUS
  <1>0. RowInv' /\ RowInv
    BY RowStep DEF CountInv
  \* Steps that change no fire.
  <1>1. ASSUME pc' = pc, ending' = ending, read' = read,
               failures' \in {failures, 0}, reason' = reason \/ reason' # "failures"
        PROVE  CountInv'
    <2>1. FailedForGood' = FailedForGood
      BY <1>1 DEF FailedForGood
    <2> QED
      BY <1>0, <1>1, <2>1, NothingCounted DEF CountInv
  \* Steps that change the fires and neither column.
  <1>2. ASSUME FailedForGood \subseteq FailedForGood', failures' = failures, reason' = reason,
               read' = [f \in Fire |-> read'[f]],
               \A f \in Fire : pc'[f] = "recording" =>
                  read'[f].failures = failures \/ (pc[f] = "recording" /\ read'[f] = read[f])
        PROVE  CountInv'
    BY <1>0, <1>2, NothingCounted
  <1>3. ASSUME NEW f \in Fire, NEW p, p # "recording", pc[f] # "done", pc' = [pc EXCEPT ![f] = p],
               ending' = ending, read' = read, failures' = failures, reason' = reason
        PROVE  CountInv'
    <2>1. FailedForGood \subseteq FailedForGood'
      BY <1>0, <1>3 DEF FailedForGood, RowInv, Shape
    <2> QED
      BY <1>0, <1>2, <1>3, <2>1 DEF CountInv, RowInv, Shape
  <1>4. ASSUME NEW f \in Fire, Insert(f)
        PROVE  CountInv'
    <2>1. failures' = failures /\ (reason' = reason \/ reason' = "noFuture")
      BY <1>4, AdvanceWrites DEF Insert, Current
    <2>2. FailedForGood \subseteq FailedForGood'
      BY <1>0, <1>4 DEF Insert, FailedForGood, RowInv, Shape
    <2> QED
      BY <1>0, <1>4, <2>1, <2>2, NothingCounted DEF Insert, CountInv, RowInv, Shape
  <1>5. ASSUME NEW f \in Fire, NEW how \in Endings, TurnEnds(f, how)
        PROVE  CountInv'
    <2>1. FailedForGood \subseteq FailedForGood'
      BY <1>0, <1>5 DEF TurnEnds, FailedForGood, RowInv, Shape
    <2> QED
      BY <1>0, <1>2, <1>5, <2>1 DEF TurnEnds, taskVars, CountInv, RowInv, Shape
  <1>6. ASSUME NEW f \in Fire, EntryFails(f)
        PROVE  CountInv'
    BY <1>3, <1>6 DEF EntryFails, taskVars
  \* The outcome reads the column as it is now.
  <1>7. ASSUME NEW f \in Fire, RecordRead(f)
        PROVE  CountInv'
    <2>1. FailedForGood \subseteq FailedForGood'
      BY <1>0, <1>7 DEF RecordRead, FailedForGood, RowInv, Shape
    <2>2. read' = [g \in Fire |-> read'[g]] /\ failures' = failures /\ reason' = reason
      BY <1>7 DEF RecordRead, taskVars, CountInv
    <2>3. ASSUME NEW g \in Fire, pc'[g] = "recording"
          PROVE  read'[g].failures = failures \/ (pc[g] = "recording" /\ read'[g] = read[g])
      BY <1>0, <1>7, <2>3 DEF RecordRead, Current, CountInv, RowInv, Shape
    <2> QED
      BY <1>2, <2>1, <2>2, <2>3
  <1>8. ASSUME NEW f \in Fire, RecordCommit(f)
        PROVE  CountInv'
    BY <1>0, <1>8, RecordCounts
  <1>9. ASSUME NEW f \in Fire, Cancel(f)
        PROVE  CountInv'
    <2>1. FailedForGood \subseteq FailedForGood'
      BY <1>0, <1>9 DEF Cancel, FailedForGood, RowInv, Shape
    <2> QED
      BY <1>0, <1>2, <1>9, <2>1 DEF Cancel, taskVars, CountInv, RowInv, Shape
  <1>10. CASE Delete
    BY <1>1, <1>10 DEF Delete, fireVars
  <1>11. CASE Crash
    <2>1. FailedForGood \subseteq FailedForGood'
      BY <1>0, <1>11 DEF Crash, FailedForGood, RowInv, Shape
    <2> QED
      BY <1>0, <1>2, <1>11, <2>1 DEF Crash, taskVars, CountInv, RowInv, Shape
  <1>12. CASE LoopStep
    <2>1. CASE SweepRead \/ SweepWrite \/ SweepFails \/ TickList \/ TickSpent
      BY <1>1, <2>1 DEF SweepRead, SweepWrite, SweepFails, TickList, TickSpent, fireVars, taskVars
    <2>2. CASE RecordSkipOverlap
      <3>1. failures' = failures /\ (reason' = reason \/ reason' = "noFuture")
        BY <2>2, AdvanceWrites DEF RecordSkipOverlap, Current
      <3> QED
        BY <1>1, <2>2, <3>1 DEF RecordSkipOverlap, fireVars
    <2>3. ASSUME NEW f \in Fire, TickFire(f)
          PROVE  CountInv'
      BY <1>3, <2>3 DEF TickFire, Starts, taskVars
    <2> QED
      BY <1>12, <2>1, <2>2, <2>3 DEF LoopStep
  <1>13. CASE RequestStep
    <2>1. CASE (\E kind \in {"pause", "resume", "update"} : RequestRead(kind)) \/ RequestRefused
      BY <1>1, <2>1 DEF RequestRead, RequestRefused, fireVars, taskVars
    <2>2. CASE RequestCommit
      <3>1. failures' \in {failures, 0} /\ (reason' = reason \/ reason' = "none")
        BY <2>2, CommitWrites DEF RequestCommit, PauseCommit, ResumeCommit, UpdateCommit
      <3> QED
        BY <1>1, <2>2, <3>1 DEF RequestCommit, fireVars
    <2>3. ASSUME NEW f \in Fire, FireNow(f)
          PROVE  CountInv'
      BY <1>3, <2>3 DEF FireNow, Starts, taskVars
    <2> QED
      BY <1>10, <1>13, <2>1, <2>2, <2>3 DEF RequestStep
  <1>14. CASE BecomeDue
    BY <1>1, <1>14 DEF BecomeDue, fireVars
  <1>15. CASE UNCHANGED vars
    BY <1>1, <1>15 DEF vars, fireVars, taskVars
  <1> QED
    BY <1>4, <1>5, <1>6, <1>7, <1>8, <1>9, <1>11, <1>12, <1>13, <1>14, <1>15 DEF Next, FireStep

\* The auto-pause counts failures only, over outcomes, requests and fires that
\* commit what they read long before (record_outcome's count_failure).
THEOREM FailuresOnlyCount == Spec => []OnlyFailuresCount
  <1>1. CountInv => OnlyFailuresCount
    <2> SUFFICES ASSUME CountInv PROVE OnlyFailuresCount
      OBVIOUS
    <2>1. FailedForGood \subseteq Failed /\ Failed \in SUBSET Fire /\ FailedForGood \in SUBSET Fire
      BY DEF FailedForGood, Failed
    <2>2. Count \in Nat /\ Cardinality(Failed) \in Nat /\ Count <= Cardinality(Failed)
      BY <2>1, Finite, FS_Subset DEF Count
    <2>3. failures <= Cardinality(Failed) /\ (reason = "failures" => Cardinality(Failed) >= PauseAfter)
      BY <2>2, SchedulerAssumption DEF CountInv, Counted, SchedulerAssumption
    <2> QED
      BY <2>3 DEF OnlyFailuresCount, Failed
  <1> QED
    BY CountStart, CountStep, <1>1, PTL DEF Spec

-----------------------------------------------------------------------------
(* What the loop has listed. *)

\* A task that is listed or due has not been skipped since it became so, and one that
\* is listed or enabled has had no fire while disabled.
LoopInv ==
    /\ skips \in {0, 1} /\ (loop = "listed" \/ nextDue = "due" => skips = 0)
    /\ late \in {0, 1} /\ (loop = "listed" \/ enabled => late = 0)

\* The next slot is ahead, or the task is paused for want of one: neither enables the
\* task nor makes it due.
LEMMA AdvanceSets ==
    ASSUME NEW was, NEW n, AdvanceOrPause(was, n)
    PROVE  /\ enabled' => enabled
           /\ nextDue' = "due" => nextDue = "due"
           /\ was.nextDue = nextDue => nextDue' # "due"
  BY DEF AdvanceOrPause, Commit, Merge, MergeDue

\* Every step keeps what the loop knows.
LEMMA LoopInvStep == LoopInv /\ [Next]_vars => LoopInv'
  <1> SUFFICES ASSUME LoopInv, [Next]_vars PROVE LoopInv'
    OBVIOUS
  \* Steps that neither list, enable nor make due.
  <1>1. ASSUME UNCHANGED <<skips, late>>, loop' = "listed" => loop = "listed",
               nextDue' = "due" => nextDue = "due", enabled' => enabled
        PROVE  LoopInv'
    BY <1>1 DEF LoopInv
  <1>2. CASE BecomeDue
    BY <1>2 DEF BecomeDue, LoopInv, loopVars
  <1>3. CASE TickList
    BY <1>3 DEF TickList, DueTasks, LoopInv, taskVars, historyVars
  <1>4. ASSUME NEW f \in Fire, TickFire(f) PROVE LoopInv'
    BY <1>4 DEF TickFire, LoopInv, taskVars, Capped
  <1>5. CASE RecordSkipOverlap
    <2>1. loop = "listed" /\ loop' = "waiting" /\ skips' = Capped(skips) /\ late' = late
      BY <1>5 DEF RecordSkipOverlap
    <2>2. (enabled' => enabled) /\ nextDue' # "due"
      <3>1. AdvanceOrPause(Current(FALSE), failures) /\ Current(FALSE).nextDue = nextDue
        BY <1>5 DEF RecordSkipOverlap, Current
      <3> QED
        BY <3>1, AdvanceSets
    <2> QED
      BY <2>1, <2>2 DEF LoopInv, Capped
  <1>6. CASE SweepRead \/ SweepWrite \/ SweepFails \/ TickSpent
    BY <1>1, <1>6 DEF SweepRead, SweepWrite, SweepFails, TickSpent, taskVars, historyVars
  <1>7. CASE RequestCommit
    BY <1>7 DEF RequestCommit, LoopInv, loopVars
  <1>8. CASE (\E kind \in {"pause", "resume", "update"} : RequestRead(kind)) \/ RequestRefused \/ Delete
              \/ \E f \in Fire : FireNow(f)
    BY <1>1, <1>8 DEF RequestRead, RequestRefused, Delete, FireNow, taskVars, loopVars, historyVars
  <1>9. CASE Crash
    BY <1>1, <1>9 DEF Crash, taskVars, historyVars
  <1>10. ASSUME NEW f \in Fire, Insert(f) PROVE LoopInv'
    <2>1. AdvanceOrPause(Current(FALSE), failures) /\ UNCHANGED <<loop, skips, late>>
      BY <1>10 DEF Insert, loopVars, historyVars
    <2> QED
      BY <1>1, <2>1, AdvanceSets
  <1>11. ASSUME NEW f \in Fire, RecordCommit(f) PROVE LoopInv'
    <2>1. UNCHANGED <<loop, skips, late>>
      BY <1>11 DEF RecordCommit, loopVars, historyVars
    <2>2. (enabled' => enabled) /\ (nextDue' = "due" => nextDue = "due")
      <3> DEFINE was == read[f]
      <3>1. \/ UNCHANGED <<enabled, nextDue>>
            \/ AdvanceOrPause(was, 0)
            \/ \E r, n : Commit(was, FALSE, r, n, "none") \/ Commit(was, was.enabled, r, n, "keep")
        BY <1>11 DEF RecordCommit, taskVars
      <3> HIDE DEF was
      <3>2. CASE AdvanceOrPause(was, 0)
        BY <3>2, AdvanceSets
      <3>3. ASSUME NEW r, NEW n, Commit(was, FALSE, r, n, "none") \/ Commit(was, was.enabled, r, n, "keep")
            PROVE  (enabled' => enabled) /\ (nextDue' = "due" => nextDue = "due")
        BY <3>3 DEF Commit, Merge, MergeDue
      <3>4. CASE UNCHANGED <<enabled, nextDue>>
        BY <3>4
      <3> QED
        BY <3>1, <3>2, <3>3, <3>4, Zenon
    <2> QED
      BY <1>1, <2>1, <2>2
  <1>12. ASSUME NEW f \in Fire, EntryFails(f) \/ RecordRead(f) \/ Cancel(f) \/ \E how \in Endings : TurnEnds(f, how)
         PROVE  LoopInv'
    BY <1>1, <1>12 DEF EntryFails, RecordRead, Cancel, TurnEnds, taskVars, loopVars, historyVars
  <1>13. CASE UNCHANGED vars
    BY <1>1, <1>13 DEF vars, taskVars, loopVars, historyVars
  <1> QED
    BY <1>2, <1>3, <1>4, <1>5, <1>6, <1>7, <1>8, <1>9, <1>10, <1>11, <1>12, <1>13
       DEF Next, LoopStep, RequestStep, FireStep

\* What the loop knows holds in every state.
LEMMA LoopKnows == Spec => []LoopInv
  <1>1. Init => LoopInv
    BY DEF Init, LoopInv
  <1> QED
    BY <1>1, LoopInvStep, PTL DEF Spec

\* A fire that outlives its period is skipped once a period, not once a tick: the skip
\* and the next due time are one commit (record_skip_overlap, I3).
THEOREM SkipsOncePerPeriod == Spec => []OneSkipPerPeriod
  <1>1. LoopInv => OneSkipPerPeriod
    BY DEF LoopInv, OneSkipPerPeriod
  <1> QED
    BY <1>1, LoopKnows, PTL

\* Once disabled the task is fired by the loop at most once more, from the list it had
\* read, whichever stale reading of the task another commit writes back (tick,
\* due_tasks, record_outcome).
THEOREM DisabledTasksGoQuiet == Spec => []DisabledGoesQuiet
  <1>1. LoopInv => DisabledGoesQuiet
    BY DEF LoopInv, DisabledGoesQuiet
  <1> QED
    BY <1>1, LoopKnows, PTL
=============================================================================
