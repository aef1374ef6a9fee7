-------------------------- MODULE TaskLedgerProofs --------------------------
(* What TaskLedger guarantees for every set of intents, every assignment of   *)
(* effects to them, and any number of attempts and revisions.                *)
EXTENDS TaskLedger, TLAPS

-----------------------------------------------------------------------------
(* Lemmas about the operators of the model. *)

\* action_finished writes one of three statuses, whatever the tool came back with.
LEMMA RecordedStatusType ==
  ASSUME NEW e, NEW o
  PROVE  RecordedStatus(e, o) \in {"succeeded", "failed", "uncertain"}
  BY DEF RecordedStatus

\* _mark_uncertain leaves a well-formed journal.
LEMMA MarkUncertainType ==
  ASSUME TypeOK
  PROVE  MarkUncertain \in [Key -> Statuses]
  BY DEF TypeOK, MarkUncertain, Statuses

\* TaskRepository.cancel leaves a well-formed row and journal.
LEMMA CancelRowType ==
  ASSUME TypeOK, CancelRow
  PROVE  /\ phase' \in Phases /\ cancelRequested' \in BOOLEAN /\ pause' \in Pauses
         /\ status' \in [Key -> Statuses]
  BY MarkUncertainType DEF TypeOK, CancelRow, Phases, Pauses

\* An effect of an action counts for that action alone.
LEMMA EffectOnOne ==
  ASSUME TypeOK, NEW k \in Key, MayHappen(k) \/ Happens(k)
  PROVE  /\ done' \in [Key -> {0, 1, 2}]
         /\ \A j \in Key : j # k => done'[j] = done[j]
         /\ done[k] = 0 => done'[k] < 2
  BY DEF TypeOK, MayHappen, Happens

-----------------------------------------------------------------------------
(* Typing.  An attempt that has prepared or started an action holds its key,  *)
(* and a task that exists has an attempt.                                    *)

KeyHeld == \A a \in Attempts : pc[a] \in {"prepared", "tool"} => key[a] \in Key
HasAttempt ==
    /\ phase # "absent" => attempt \in Attempts
    /\ phase = "absent" => launching = 0 /\ \A a \in Attempts : pc[a] = "none"
TypeInv == TypeOK /\ KeyHeld /\ HasAttempt

\* Cutting a turn off changes at most the effect of the action it executes.
LEMMA CutToolType ==
  ASSUME TypeInv, NEW a \in Attempts, EffectOfCutTool(a)
  PROVE  done' \in [Key -> {0, 1, 2}]
  BY EffectOnOne DEF TypeInv, TypeOK, KeyHeld, EffectOfCutTool

\* Every step leaves the row, the journal and the runners well formed.
LEMMA TypeOKStep == TypeInv /\ [Next]_vars => TypeOK'
  <1> SUFFICES ASSUME TypeInv, [Next]_vars PROVE TypeOK'
    OBVIOUS
  <1> TypeOK /\ KeyHeld /\ HasAttempt
    BY DEF TypeInv
  <1> USE DEF TypeOK, Attempts0, rowVars, journalVars, procVars, ghostVars, Phases,
        Pauses, PCs, Live
  <1>1. CASE RunTurn
    BY <1>1, LedgerAssumption DEF RunTurn, Attempts
  <1>2. CASE Resume
    <2>1. attempt' \in Attempts0 /\ launching' = attempt'
      BY <1>2, LedgerAssumption DEF Resume, Attempts
    <2> QED
      BY <1>2, <2>1 DEF Resume
  <1>3. CASE Launch
    BY <1>3 DEF Launch
  <1>4. ASSUME NEW a \in Attempts, NEW k \in Key, PrepareAction(a, k) PROVE TypeOK'
    BY <1>4 DEF PrepareAction, Statuses
  <1>5. ASSUME NEW a \in Attempts, ActionStarted(a) PROVE TypeOK'
    BY <1>5 DEF ActionStarted, Statuses, KeyHeld
  <1>6. ASSUME NEW a \in Attempts, NEW o \in Outcomes, ActionFinished(a, o) PROVE TypeOK'
    <2>1. key[a] \in Key
      BY <1>6 DEF ActionFinished, KeyHeld
    <2>2. done' \in [Key -> {0, 1, 2}]
      BY <1>6, <2>1, EffectOnOne DEF ActionFinished, EffectOf
    <2>3. status' \in [Key -> Statuses]
      BY <1>6, <2>1, RecordedStatusType DEF ActionFinished, Statuses
    <2> QED
      BY <1>6, <2>2, <2>3 DEF ActionFinished
  <1>7. ASSUME NEW a \in Attempts, FinishTurn(a) PROVE TypeOK'
    BY <1>7 DEF FinishTurn, TurnOver
  <1>8. ASSUME NEW a \in Attempts, FinishCancelledRun(a) PROVE TypeOK'
    BY <1>8, CancelRowType, CutToolType DEF FinishCancelledRun, TurnOver
  <1>9. ASSUME NEW a \in Attempts, BodyRaises(a) PROVE TypeOK'
    BY <1>9, CutToolType DEF BodyRaises, TurnOver
  <1>10. ASSUME NEW a \in Attempts, FinishRaised(a) PROVE TypeOK'
    BY <1>10 DEF FinishRaised
  <1>11. ASSUME NEW a \in Attempts, SeeStop(a) PROVE TypeOK'
    BY <1>11, CutToolType DEF SeeStop, TurnOver
  <1>12. ASSUME NEW a \in Attempts, RecordCancel(a) PROVE TypeOK'
    BY <1>12, CancelRowType DEF RecordCancel
  <1>13. ASSUME NEW a \in Attempts, StopCheckpoint(a) PROVE TypeOK'
    BY <1>13 DEF StopCheckpoint
  <1>14. ASSUME NEW a \in Attempts, LeaveEarly(a) PROVE TypeOK'
    BY <1>14 DEF LeaveEarly
  <1>15. CASE UserCancel
    BY <1>15, CancelRowType DEF UserCancel, HasAttempt
  <1>16. CASE UserCancelSignals
    BY <1>16 DEF UserCancelSignals
  <1>17. CASE ParentStopped
    BY <1>17 DEF ParentStopped
  <1>18. ASSUME NEW k \in Key, NEW applied \in BOOLEAN, Reconcile(k, applied) PROVE TypeOK'
    BY <1>18 DEF Reconcile, Statuses
  <1>19. CASE AcceptReview
    BY <1>19 DEF AcceptReview
  <1>20. CASE Revise
    <2>1. rev' \in Revisions
      BY <1>20, LedgerAssumption DEF Revise, Revisions
    <2> QED
      BY <1>20, <2>1 DEF Revise
  <1>21. CASE EditProject
    BY <1>21 DEF EditProject
  <1>22. CASE Crash
    <2>1. done' \in [Key -> {0, 1, 2}]
      BY <1>22, EffectOnOne DEF Crash, KeyHeld
    <2> QED
      BY <1>22, <2>1 DEF Crash
  <1>23. CASE Boot
    <2>1. status' \in [Key -> Statuses]
      BY <1>23, MarkUncertainType DEF Boot
    <2>2. phase' \in Phases /\ cancelRequested' \in BOOLEAN /\ pause' \in Pauses
      BY <1>23 DEF Boot
    <2> QED
      BY <1>23, <2>1, <2>2 DEF Boot
  <1>24. CASE UNCHANGED vars
    BY <1>24 DEF vars
  <1> QED
    BY <1>1, <1>2, <1>3, <1>4, <1>5, <1>6, <1>7, <1>8, <1>9, <1>10, <1>11, <1>12, <1>13, <1>14, <1>15,
       <1>16, <1>17, <1>18, <1>19, <1>20, <1>21, <1>22, <1>23, <1>24
    DEF Next, Turn, User

\* ... and a runner's key and the task's attempt stay what they stand for.
LEMMA TypeStep == TypeInv /\ [Next]_vars => TypeInv'
  <1> SUFFICES ASSUME TypeInv, [Next]_vars PROVE KeyHeld' /\ HasAttempt'
    BY TypeOKStep DEF TypeInv
  <1> TypeOK /\ KeyHeld /\ HasAttempt
    BY DEF TypeInv
  <1>1. KeyHeld'
    <2> USE DEF TypeOK, KeyHeld, procVars
    <2>1. ASSUME NEW a \in Attempts, NEW k \in Key, PrepareAction(a, k) PROVE KeyHeld'
      BY <2>1 DEF PrepareAction
    <2>2. ASSUME NEW a \in Attempts, ActionStarted(a) PROVE KeyHeld'
      BY <2>2 DEF ActionStarted
    <2>3. ASSUME NEW a \in Attempts, NEW o \in Outcomes, ActionFinished(a, o) PROVE KeyHeld'
      BY <2>3 DEF ActionFinished
    <2>4. ASSUME NEW a \in Attempts,
                 FinishTurn(a) \/ FinishCancelledRun(a) \/ BodyRaises(a) \/ SeeStop(a)
          PROVE KeyHeld'
      BY <2>4 DEF FinishTurn, FinishCancelledRun, BodyRaises, SeeStop, TurnOver
    <2>5. ASSUME NEW a \in Attempts,
                 FinishRaised(a) \/ RecordCancel(a) \/ StopCheckpoint(a) \/ LeaveEarly(a)
          PROVE KeyHeld'
      BY <2>5 DEF FinishRaised, RecordCancel, StopCheckpoint, LeaveEarly
    <2>6. CASE Launch \/ UserCancelSignals \/ Crash \/ Boot
      BY <2>6 DEF Launch, UserCancelSignals, Crash, Boot, Attempts
    <2>7. CASE User
      BY <2>7 DEF User, RunTurn, Resume, UserCancel, ParentStopped, Reconcile, AcceptReview, Revise, EditProject
    <2> QED
      BY <2>1, <2>2, <2>3, <2>4, <2>5, <2>6, <2>7 DEF Next, Turn, vars
  <1>2. HasAttempt'
    <2> USE DEF TypeOK, HasAttempt, rowVars, procVars
    <2>1. ASSUME NEW a \in Attempts, Turn(a) PROVE HasAttempt'
      <3>1. phase # "absent" /\ phase' # "absent" /\ attempt' = attempt
        BY <2>1 DEF Turn, PrepareAction, ActionStarted, ActionFinished, FinishTurn, FinishCancelledRun,
           BodyRaises, SeeStop, FinishRaised, RecordCancel, StopCheckpoint, LeaveEarly, CancelRow, Running, Live
      <3> QED
        BY <3>1
    <2>2. CASE Launch \/ UserCancelSignals \/ Crash \/ Boot
      BY <2>2 DEF Launch, UserCancelSignals, Crash, Boot
    <2>3. CASE User
      <3>1. CASE RunTurn
        BY <3>1, LedgerAssumption DEF RunTurn, Attempts
      <3>2. CASE Resume
        BY <3>2, LedgerAssumption DEF Resume, Attempts, Attempts0
      <3> QED
        BY <2>3, <3>1, <3>2 DEF User, UserCancel, ParentStopped, Reconcile, AcceptReview, Revise, EditProject,
           CancelRow
    <2> QED
      BY <2>1, <2>2, <2>3 DEF Next, vars
  <1> QED
    BY <1>1, <1>2

\* The state starts well formed.
LEMMA TypeStart == Init => TypeInv
  <1> SUFFICES ASSUME Init PROVE TypeInv
    OBVIOUS
  <1>1. 1 \in Revisions
    BY LedgerAssumption DEF Revisions
  <1> QED
    BY <1>1 DEF Init, TypeInv, TypeOK, KeyHeld, HasAttempt, Attempts0, Phases, Pauses, PCs, Statuses

\* Whatever the tools, the user and the machine do, the row, the journal and the
\* runners stay well formed (TaskRepository and TaskRuntime).
THEOREM TypeCorrect == Spec => []TypeOK
  <1>1. TypeInv => TypeOK
    BY DEF TypeInv
  <1> QED
    BY TypeStart, TypeStep, <1>1, PTL DEF Spec

-----------------------------------------------------------------------------
(* One turn at a time. *)

\* Whoever has a turn, or is still recording how it failed, is the one in _active.
TurnIsActive == \A a \in Attempts : pc[a] \in Live \union {"raised"} => active = a

\* No step starts a turn beside the one in _active.
LEMMA TurnStep == TypeInv /\ TurnIsActive /\ [Next]_vars => TurnIsActive'
  <1> SUFFICES ASSUME TypeInv, TurnIsActive, [Next]_vars PROVE TurnIsActive'
    OBVIOUS
  <1> USE DEF TypeInv, TypeOK, TurnIsActive, Live, procVars
  <1>1. ASSUME NEW a \in Attempts, NEW k \in Key, PrepareAction(a, k) PROVE TurnIsActive'
    BY <1>1 DEF PrepareAction, Running
  <1>2. ASSUME NEW a \in Attempts, ActionStarted(a) PROVE TurnIsActive'
    BY <1>2 DEF ActionStarted, Running
  <1>3. ASSUME NEW a \in Attempts, NEW o \in Outcomes, ActionFinished(a, o) PROVE TurnIsActive'
    BY <1>3 DEF ActionFinished, Running
  <1>4. ASSUME NEW a \in Attempts, FinishTurn(a) \/ FinishCancelledRun(a) PROVE TurnIsActive'
    BY <1>4 DEF FinishTurn, FinishCancelledRun
  <1>5. ASSUME NEW a \in Attempts, BodyRaises(a) PROVE TurnIsActive'
    BY <1>5 DEF BodyRaises, Running
  <1>6. ASSUME NEW a \in Attempts, FinishRaised(a) \/ RecordCancel(a) PROVE TurnIsActive'
    BY <1>6 DEF FinishRaised, RecordCancel
  <1>12. ASSUME NEW a \in Attempts, SeeStop(a) PROVE TurnIsActive'
    BY <1>12 DEF SeeStop
  <1>7. ASSUME NEW a \in Attempts, StopCheckpoint(a) \/ LeaveEarly(a) PROVE TurnIsActive'
    BY <1>7 DEF StopCheckpoint, LeaveEarly
  <1>8. CASE Launch
    <2>1. 0 \notin Attempts
      BY LedgerAssumption DEF Attempts
    <2> QED
      BY <1>8, <2>1 DEF Launch, Attempts0
  <1>9. CASE UserCancelSignals \/ Boot
    BY <1>9 DEF UserCancelSignals, Boot
  <1>10. CASE Crash
    BY <1>10 DEF Crash
  <1>11. CASE User
    BY <1>11 DEF User, RunTurn, Resume, UserCancel, ParentStopped, Reconcile, AcceptReview, Revise, EditProject
  <1> QED
    BY <1>1, <1>2, <1>3, <1>4, <1>5, <1>6, <1>7, <1>8, <1>9, <1>10, <1>11, <1>12 DEF Next, Turn, vars

\* Two attempts of a task never have a turn in progress at once, however many
\* resumes overlap the winding down of stopped ones (_launch, _active).
THEOREM OneTurn == Spec => []OneTurnAtATime
  <1>1. Init => TurnIsActive
    BY DEF Init, TurnIsActive, Live
  <1>2. TurnIsActive => OneTurnAtATime
    BY DEF TurnIsActive, OneTurnAtATime, Live
  <1> QED
    BY TypeStart, TypeStep, TurnStep, <1>1, <1>2, PTL DEF Spec

-----------------------------------------------------------------------------
(* No write is repeated on its own. *)

\* A read changes nothing in the world.
ReadsAreInert == \A k \in Key : ~IsWrite(k) => done[k] = 0
Truth == JournalIsTruthful /\ ReadsAreInert

\* A tool that is cut off counts once more for the action it executes, if that
\* is a write, and for no other.
LEMMA CutToolEffect ==
  ASSUME TypeInv, NEW a \in Attempts, EffectOfCutTool(a), NEW k \in Key
  PROVE  /\ ~(Executing(a, k) /\ IsWrite(k)) => done'[k] = done[k]
         /\ done[k] = 0 => done'[k] < 2
  BY EffectOnOne DEF TypeInv, TypeOK, KeyHeld, EffectOfCutTool, Executing, MayHappen

\* The journal stays truthful through every step.
LEMMA TruthStep == TypeInv /\ TypeInv' /\ Truth /\ [Next]_vars => Truth'
  <1> SUFFICES ASSUME TypeInv, TypeInv', Truth, [Next]_vars PROVE Truth'
    OBVIOUS
  <1> USE DEF Truth, JournalIsTruthful, ReadsAreInert, IsWrite, Executing
  <1> TypeOK /\ TypeOK' /\ KeyHeld /\ KeyHeld'
    BY DEF TypeInv
  <1>1. ASSUME NEW a \in Attempts, NEW k \in Key, PrepareAction(a, k) PROVE Truth'
    BY <1>1 DEF PrepareAction, TypeOK, ghostVars
  <1>2. ASSUME NEW a \in Attempts, ActionStarted(a) PROVE Truth'
    BY <1>2 DEF ActionStarted, TypeOK, KeyHeld, ghostVars
  <1>3. ASSUME NEW a \in Attempts, NEW o \in Outcomes, ActionFinished(a, o) PROVE Truth'
    <2>1. key[a] \in Key
      BY <1>3 DEF ActionFinished, KeyHeld
    <2>2. /\ \A k \in Key : k # key[a] \/ ~IsWrite(k) => done'[k] = done[k]
          /\ done[key[a]] = 0 => done'[key[a]] < 2
      BY <1>3, <2>1, EffectOnOne DEF ActionFinished, EffectOf, LeftNoEffect, MayHappen
    <2>3. IsWrite(key[a]) /\ status'[key[a]] = "failed" => done'[key[a]] = done[key[a]]
      BY <1>3, <2>1 DEF ActionFinished, EffectOf, LeftNoEffect, RecordedStatus, TypeOK
    <2>4. status'[key[a]] \in {"succeeded", "failed", "uncertain"}
      BY <1>3, <2>1, RecordedStatusType DEF ActionFinished, TypeOK
    <2> QED
      BY <1>3, <2>1, <2>2, <2>3, <2>4 DEF ActionFinished, TypeOK
  <1>4. ASSUME NEW a \in Attempts, BodyRaises(a) \/ SeeStop(a) PROVE Truth'
    <2>1. status' = status /\ vouched' = vouched /\ EffectOfCutTool(a)
      BY <1>4 DEF BodyRaises, SeeStop, journalVars
    <2>2. \A k \in Key, b \in Attempts : ~Executing(a, k)' /\ (b # a => (Executing(b, k)' <=> Executing(b, k)))
      BY <1>4 DEF BodyRaises, SeeStop, TurnOver, TypeOK, Running, Live
    <2>3. \A k \in Key : /\ ~(Executing(a, k) /\ IsWrite(k)) => done'[k] = done[k]
                         /\ done[k] = 0 => done'[k] < 2
      BY <2>1, CutToolEffect
    <2> QED
      BY <2>1, <2>2, <2>3 DEF TypeOK
  <1>5. ASSUME NEW a \in Attempts, FinishCancelledRun(a) PROVE Truth'
    <2>1. vouched' = vouched /\ CancelRow /\ EffectOfCutTool(a)
      BY <1>5 DEF FinishCancelledRun
    <2>2. \A k \in Key, b \in Attempts : ~Executing(a, k)' /\ (b # a => (Executing(b, k)' <=> Executing(b, k)))
      BY <1>5 DEF FinishCancelledRun, TurnOver, TypeOK, Running, Live
    <2>3. \A k \in Key : /\ ~(Executing(a, k) /\ IsWrite(k)) => done'[k] = done[k]
                         /\ done[k] = 0 => done'[k] < 2
      BY <2>1, CutToolEffect
    <2>4. \A k \in Key : status'[k] = status[k] \/ status'[k] = "uncertain"
      BY <2>1 DEF CancelRow, MarkUncertain, TypeOK
    <2>5. ASSUME NEW k \in Key, IsWrite(k), ~vouched[k]
          PROVE  /\ status'[k] \in {"none", "prepared", "failed"} =>
                       done'[k] = 0 /\ \A b \in Attempts : ~Executing(b, k)'
                 /\ \A b \in Attempts : Executing(b, k)' =>
                       done'[k] = 0 /\ \A c \in Attempts : Executing(c, k)' => c = b
                 /\ status'[k] # "not_applied" /\ done'[k] < 2
      <3>1. CASE Executing(a, k)
        BY <2>2, <2>3, <2>4, <2>5, <3>1
      <3>2. CASE ~Executing(a, k)
        BY <2>2, <2>3, <2>4, <2>5, <3>2
      <3> QED
        BY <3>1, <3>2
    <2> QED
      BY <2>1, <2>3, <2>5
  <1>6. ASSUME NEW a \in Attempts, FinishTurn(a) PROVE Truth'
    BY <1>6 DEF FinishTurn, TurnOver, TypeOK, journalVars, ghostVars
  <1>7. ASSUME NEW a \in Attempts, FinishRaised(a) \/ StopCheckpoint(a) \/ LeaveEarly(a) PROVE Truth'
    BY <1>7 DEF FinishRaised, StopCheckpoint, LeaveEarly, TypeOK, journalVars, ghostVars
  <1>8. ASSUME NEW a \in Attempts, RecordCancel(a) PROVE Truth'
    <2>1. \A k \in Key : status'[k] = status[k] \/ status'[k] = "uncertain"
      BY <1>8 DEF RecordCancel, CancelRow, MarkUncertain, TypeOK
    <2> QED
      BY <1>8, <2>1 DEF RecordCancel, TypeOK, ghostVars
  <1>9. CASE UserCancel
    <2>1. \A k \in Key : status'[k] = status[k] \/ status'[k] = "uncertain"
      BY <1>9 DEF UserCancel, CancelRow, MarkUncertain, TypeOK
    <2> QED
      BY <1>9, <2>1 DEF UserCancel, TypeOK
  <1>10. CASE Launch
    BY <1>10 DEF Launch, TypeOK, journalVars, ghostVars
  <1>11. CASE Boot
    <2>1. \A k \in Key : status'[k] = status[k] \/ status'[k] = "uncertain"
      BY <1>11 DEF Boot, MarkUncertain, TypeOK
    <2> QED
      BY <1>11, <2>1 DEF Boot, TypeOK
  <1>12. CASE Crash
    <2>1. PICK k0 \in Key \union {NoKey} :
             /\ done' = done \/ (k0 \in Key /\ (\E a \in Attempts : Executing(a, k0)) /\ IsWrite(k0) /\ Happens(k0))
      BY <1>12 DEF Crash, KeyHeld
    <2>2. \A k \in Key, a \in Attempts : ~Executing(a, k)'
      BY <1>12 DEF Crash
    <2>3. \A k \in Key : /\ (\A a \in Attempts : ~Executing(a, k)) \/ ~IsWrite(k) => done'[k] = done[k]
                         /\ done[k] = 0 => done'[k] < 2
      BY <2>1, EffectOnOne DEF TypeOK
    <2>4. status' = status /\ vouched' = vouched
      BY <1>12 DEF Crash, journalVars
    <2> QED
      BY <2>2, <2>3, <2>4 DEF TypeOK
  <1>13. ASSUME NEW k \in Key, NEW applied \in BOOLEAN, Reconcile(k, applied) PROVE Truth'
    <2>1. /\ \A j \in Key : j # k => status'[j] = status[j] /\ vouched'[j] = vouched[j]
          /\ vouched'[k] \/ (status'[k] = "succeeded" /\ vouched'[k] = vouched[k])
      BY <1>13, Zenon DEF Reconcile, TypeOK
    <2>2. done' = done /\ pc' = pc /\ key' = key
      BY <1>13 DEF Reconcile, procVars
    <2>3. status[k] = "uncertain"
      BY <1>13 DEF Reconcile
    <2> QED
      BY <2>1, <2>2, <2>3
  <1>14. CASE \/ RunTurn \/ Resume \/ ParentStopped \/ AcceptReview \/ Revise \/ EditProject
              \/ UserCancelSignals \/ UNCHANGED vars
    <2>1. status' = status /\ vouched' = vouched /\ done' = done /\ pc' = pc /\ key' = key
      BY <1>14 DEF RunTurn, Resume, ParentStopped, AcceptReview, Revise, EditProject, UserCancelSignals,
         vars, journalVars, procVars, ghostVars
    <2> QED
      BY <2>1
  <1> QED
    BY <1>1, <1>2, <1>3, <1>4, <1>5, <1>6, <1>7, <1>8, <1>9, <1>10, <1>11, <1>12, <1>13, <1>14
    DEF Next, Turn, User

\* The effect of a write happens a second time only after a person recorded that
\* it had not been applied: prepare_action, action_started and action_finished
\* keep the journal truthful, whatever is cut off and whenever.
THEOREM AtMostOnce == Spec => [](NoSilentRepeat /\ JournalIsTruthful)
  <1>1. Init => Truth
    BY DEF Init, Truth, JournalIsTruthful, ReadsAreInert, Executing
  <1>2. TypeInv /\ Truth => NoSilentRepeat /\ JournalIsTruthful
    BY DEF TypeInv, TypeOK, Truth, JournalIsTruthful, ReadsAreInert, NoSilentRepeat
  <1> QED
    BY TypeStart, TypeStep, TruthStep, <1>1, <1>2, PTL DEF Spec

\* The journal is right about the world at every moment, for every write no person
\* has answered for (the invariant prepare_action and action_started rely on).
THEOREM JournalIsRight == Spec => []JournalIsTruthful
  BY AtMostOnce, PTL

-----------------------------------------------------------------------------
(* What a running and a succeeded task say about open writes. *)

\* A task that does not exist yet has no journal.
NothingYet == phase = "absent" => \A k \in Key : status[k] = "none"
Settled == NothingYet /\ OpenWritesAreOurs /\ SucceededIsSettled

\* No step leaves a running or a succeeded task with somebody else's open write.
LEMMA SettledStep == TypeInv /\ Settled /\ [Next]_vars => Settled'
  <1> SUFFICES ASSUME TypeInv, Settled, [Next]_vars PROVE Settled'
    OBVIOUS
  <1> TypeOK /\ KeyHeld /\ HasAttempt
    BY DEF TypeInv
  <1> USE DEF Settled, NothingYet, OpenWritesAreOurs, SucceededIsSettled, ReconciliationRequired, Unresolved,
        Unsettled, IsWrite, TypeOK
  <1>1. ASSUME NEW a \in Attempts, NEW k \in Key, PrepareAction(a, k) PROVE Settled'
    BY <1>1 DEF PrepareAction, ActiveInScope, ActiveRow, rowVars
  <1>2. ASSUME NEW a \in Attempts, ActionStarted(a) PROVE Settled'
    BY <1>2 DEF ActionStarted, ActiveInScope, ActiveRow, rowVars, KeyHeld
  <1>3. ASSUME NEW a \in Attempts, NEW o \in Outcomes, ActionFinished(a, o) PROVE Settled'
    <2>1. key[a] \in Key
      BY <1>3 DEF ActionFinished, KeyHeld
    <2>2. \A k \in Key : k # key[a] => status'[k] = status[k]
      BY <1>3, <2>1 DEF ActionFinished
    <2>3. phase = "running" /\ phase' = phase /\ attempt' = attempt /\ owner' = owner /\ owner[key[a]] = attempt
      BY <1>3 DEF ActionFinished, ActiveInScope, ActiveRow, rowVars
    <2> QED
      BY <2>1, <2>2, <2>3
  <1>4. ASSUME NEW a \in Attempts, FinishTurn(a) PROVE Settled'
    BY <1>4 DEF FinishTurn, ActiveInScope, ActiveRow, journalVars
  <1>5. ASSUME CancelRow, owner' = owner, attempt' = attempt, phase # "absent" PROVE Settled'
    BY <1>5 DEF CancelRow
  <1>6. ASSUME NEW a \in Attempts, FinishCancelledRun(a) \/ RecordCancel(a) PROVE Settled'
    BY <1>5, <1>6 DEF FinishCancelledRun, RecordCancel, HasAttempt, Running, Live
  <1>7. ASSUME NEW a \in Attempts, FinishRaised(a) PROVE Settled'
    BY <1>7 DEF FinishRaised, ActiveRow, journalVars
  <1>8. CASE UserCancel
    BY <1>5, <1>8 DEF UserCancel
  <1>9. CASE RunTurn
    BY <1>9 DEF RunTurn, journalVars
  <1>10. CASE Resume
    BY <1>10 DEF Resume, journalVars
  <1>11. ASSUME NEW k \in Key, NEW applied \in BOOLEAN, Reconcile(k, applied) PROVE Settled'
    BY <1>11 DEF Reconcile, rowVars
  <1>12. CASE AcceptReview \/ Revise
    BY <1>12 DEF AcceptReview, Revise, journalVars
  <1>13. CASE Boot
    <2>1. phase' # "running"
      BY <1>13 DEF Boot
    <2>2. phase = "running" \/ (phase' = phase /\ status' = status)
      BY <1>13 DEF Boot
    <2>3. phase = "running" => phase' \notin {"absent", "succeeded"}
      BY <1>13 DEF Boot
    <2> QED
      BY <2>1, <2>2, <2>3
  <1>14. ASSUME phase' = phase, attempt' = attempt, status' = status, owner' = owner PROVE Settled'
    BY <1>14
  <1>15. ASSUME NEW a \in Attempts, BodyRaises(a) \/ SeeStop(a) \/ StopCheckpoint(a) \/ LeaveEarly(a)
         PROVE  Settled'
    BY <1>14, <1>15 DEF BodyRaises, SeeStop, StopCheckpoint, LeaveEarly, rowVars, journalVars
  <1>16. CASE Launch \/ UserCancelSignals \/ ParentStopped \/ EditProject \/ Crash \/ UNCHANGED vars
    BY <1>14, <1>16 DEF Launch, UserCancelSignals, ParentStopped, EditProject, Crash, vars, rowVars, journalVars
  <1> QED
    BY <1>1, <1>2, <1>3, <1>4, <1>6, <1>7, <1>8, <1>9, <1>10, <1>11, <1>12, <1>13, <1>15, <1>16
    DEF Next, Turn, User

\* A running attempt has inherited no write of unknown outcome, and a task that is
\* reported as succeeded has none at all (start, finish, accept_review).
THEOREM NothingUnknownIsInherited == Spec => [](OpenWritesAreOurs /\ SucceededIsSettled)
  <1>1. Init => Settled
    BY DEF Init, Settled, NothingYet, OpenWritesAreOurs, SucceededIsSettled
  <1>2. Settled => OpenWritesAreOurs /\ SucceededIsSettled
    BY DEF Settled
  <1> QED
    BY TypeStart, TypeStep, SettledStep, <1>1, <1>2, PTL DEF Spec

\* A task reported as succeeded has no write of open outcome, of any revision
\* (finish, accept_review).
THEOREM SuccessIsSettled == Spec => []SucceededIsSettled
  BY NothingUnknownIsInherited, PTL

-----------------------------------------------------------------------------
(* What no step may do. *)

\* A write recorded as done is never reopened (prepare_action, _mark_uncertain,
\* reconcile_action).
THEOREM DoneIsFinal == Spec => DoneStaysDone
  <1> DEFINE Kept == \A k \in Key : IsWrite(k) /\ status[k] = "succeeded" => status'[k] = "succeeded"
  <1>1. TypeInv /\ [Next]_vars => [Kept]_vars
    <2> SUFFICES ASSUME TypeInv, Next PROVE Kept
      OBVIOUS
    <2> TypeOK /\ KeyHeld
      BY DEF TypeInv
    <2> USE DEF TypeOK
    <2>1. ASSUME NEW a \in Attempts, NEW k \in Key, PrepareAction(a, k) PROVE Kept
      BY <2>1 DEF PrepareAction
    <2>2. ASSUME NEW a \in Attempts, ActionStarted(a) PROVE Kept
      BY <2>2 DEF ActionStarted, KeyHeld
    <2>3. ASSUME NEW a \in Attempts, NEW o \in Outcomes, ActionFinished(a, o) PROVE Kept
      BY <2>3 DEF ActionFinished, KeyHeld
    <2>4. ASSUME CancelRow PROVE Kept
      BY <2>4 DEF CancelRow, MarkUncertain
    <2>5. ASSUME NEW a \in Attempts, FinishCancelledRun(a) \/ RecordCancel(a) PROVE Kept
      BY <2>4, <2>5 DEF FinishCancelledRun, RecordCancel
    <2>6. ASSUME NEW a \in Attempts,
                 \/ FinishTurn(a) \/ BodyRaises(a) \/ FinishRaised(a) \/ SeeStop(a)
                 \/ StopCheckpoint(a) \/ LeaveEarly(a)
          PROVE  Kept
      BY <2>6 DEF FinishTurn, BodyRaises, FinishRaised, SeeStop, StopCheckpoint, LeaveEarly, journalVars
    <2>7. CASE UserCancel
      BY <2>4, <2>7 DEF UserCancel
    <2>8. ASSUME NEW k \in Key, NEW applied \in BOOLEAN, Reconcile(k, applied) PROVE Kept
      BY <2>8 DEF Reconcile
    <2>9. CASE Boot
      BY <2>9 DEF Boot, MarkUncertain
    <2>10. CASE \/ RunTurn \/ Resume \/ ParentStopped \/ AcceptReview \/ Revise \/ EditProject
                \/ Launch \/ UserCancelSignals \/ Crash
      BY <2>10 DEF RunTurn, Resume, ParentStopped, AcceptReview, Revise, EditProject, Launch, UserCancelSignals,
         Crash, journalVars
    <2> QED
      BY <2>1, <2>2, <2>3, <2>5, <2>6, <2>7, <2>8, <2>9, <2>10 DEF Next, Turn, User
  <1> QED
    BY TypeStart, TypeStep, <1>1, PTL DEF Spec, DoneStaysDone

\* A cancel is undone only by a new attempt or a new goal (finish and _active
\* fence every late writer).
THEOREM CancelIsFinal == Spec => CancelSticks
  <1> DEFINE Stuck == phase = "cancelled" /\ phase' # "cancelled" => attempt' = attempt + 1 \/ rev' = rev + 1
  <1>1. [Next]_vars => [Stuck]_vars
    <2> SUFFICES ASSUME Next PROVE Stuck
      OBVIOUS
    <2> USE DEF rowVars
    <2>1. ASSUME NEW a \in Attempts, Turn(a) PROVE Stuck
      BY <2>1 DEF Turn, PrepareAction, ActionStarted, ActionFinished, FinishTurn, FinishCancelledRun,
         BodyRaises, FinishRaised, SeeStop, RecordCancel, StopCheckpoint, LeaveEarly, CancelRow,
         ActiveInScope, ActiveRow
    <2>2. CASE User
      BY <2>2 DEF User, RunTurn, Resume, UserCancel, ParentStopped, Reconcile, AcceptReview, Revise,
         EditProject, CancelRow
    <2>3. CASE Launch \/ UserCancelSignals \/ Crash \/ Boot
      BY <2>3 DEF Launch, UserCancelSignals, Crash, Boot
    <2> QED
      BY <2>1, <2>2, <2>3 DEF Next
  <1> QED
    BY <1>1, PTL DEF Spec, CancelSticks
-----------------------------------------------------------------------------
(* The ledger implements OnceOnly. *)

\* A step that changes nothing OnceOnly knows of is a stutter of it.
LEMMA PromiseStutter ==
  ASSUME \A k \in Writes : KnownState(k)' = KnownState(k) /\ done'[k] = done[k] /\ vouched'[k] = vouched[k]
  PROVE  UNCHANGED Promise!vars
  BY DEF Promise!vars, Writes, IsWrite

\* An effect of a write that is out, or that a person answered for, is a step of it.
LEMMA PromiseHappen ==
  ASSUME TypeOK, NEW w \in Writes, Happens(w),
         \A k \in Writes : KnownState(k)' = KnownState(k) /\ vouched'[k] = vouched[k],
         KnownState(w) # "free" \/ vouched[w],
         done[w] = 0 \/ vouched[w]
  PROVE  Promise!Happen(w)
  <1>1. Writes' = Writes /\ Writes \subseteq Key
    BY DEF Writes, IsWrite
  <1>2. done' = [done EXCEPT ![w] = IF @ < 2 THEN @ + 1 ELSE @]
    BY DEF Happens
  <1>3. [k \in Writes |-> done[k]]' = [[k \in Writes |-> done[k]] EXCEPT ![w] = IF @ < 2 THEN @ + 1 ELSE @]
    BY <1>1, <1>2 DEF TypeOK
  <1> QED
    BY <1>1, <1>3 DEF Promise!Happen, Promise!Harmless, Promise!OnceMore

\* Marking open writes as uncertain leaves them out, where they were.
LEMMA MarkedIsOut ==
  ASSUME TypeOK, status' = status \/ status' = MarkUncertain
  PROVE  \A k \in Writes : KnownState(k)' = KnownState(k)
  BY DEF TypeOK, MarkUncertain, KnownState, Unsettled, Writes

\* A tool that is cut off makes at most one write happen, and that one is out.
LEMMA CutToolPromise ==
  ASSUME TypeInv, Truth, NEW a \in Attempts, EffectOfCutTool(a), vouched' = vouched,
         \A k \in Writes : KnownState(k)' = KnownState(k)
  PROVE  Promise!Next \/ UNCHANGED Promise!vars
  <1>1. CASE done' = done
    BY <1>1, PromiseStutter
  <1>2. CASE pc[a] = "tool" /\ IsWrite(key[a]) /\ Happens(key[a])
    <2>1. key[a] \in Writes /\ Executing(a, key[a])
      BY <1>2 DEF TypeInv, KeyHeld, Writes, Executing
    <2>2. /\ KnownState(key[a]) # "free" \/ vouched[key[a]]
          /\ done[key[a]] = 0 \/ vouched[key[a]]
      BY <2>1 DEF Truth, JournalIsTruthful, KnownState, Writes, TypeInv, TypeOK, Statuses, Unsettled
    <2> QED
      BY <1>2, <2>1, <2>2, PromiseHappen DEF Promise!Next, TypeInv
  <1> QED
    BY <1>1, <1>2 DEF EffectOfCutTool, MayHappen

\* Every step of the ledger is a step of OnceOnly, on one write, or a stutter.
LEMMA PromiseStep == TypeInv /\ Truth /\ [Next]_vars => [Promise!Next]_(Promise!vars)
  <1> SUFFICES ASSUME TypeInv, Truth, [Next]_vars
               PROVE  Promise!Next \/ UNCHANGED Promise!vars
    BY DEF Promise!vars
  <1> TypeOK /\ KeyHeld
    BY DEF TypeInv
  <1>0. Writes' = Writes /\ Writes \subseteq Key
    BY DEF Writes, IsWrite
  <1>1. ASSUME NEW a \in Attempts, NEW k \in Key, PrepareAction(a, k)
        PROVE  Promise!Next \/ UNCHANGED Promise!vars
    <2>1. /\ status' = [status EXCEPT ![k] = "prepared"] /\ done' = done /\ vouched' = vouched
          /\ IsWrite(k) => status[k] \in {"none", "not_applied", "failed"}
      BY <1>1 DEF PrepareAction, ghostVars
    <2>2. CASE ~IsWrite(k)
      BY <2>1, <2>2, PromiseStutter DEF KnownState, Writes, TypeOK
    <2>3. CASE IsWrite(k)
      <3>1. k \in Writes /\ (done[k] = 0 \/ vouched[k])
        BY <2>1, <2>3 DEF Writes, Truth, JournalIsTruthful
      <3>2. KnownState(k) = "free"
        BY <2>1, <2>3 DEF KnownState, Unsettled
      <3>3. [j \in Writes |-> KnownState(j)]' = [[j \in Writes |-> KnownState(j)] EXCEPT ![k] = "out"]
        BY <1>0, <2>1, <3>1 DEF KnownState, Unsettled, TypeOK
      <3>4. Promise!LetOut(k)
        BY <1>0, <2>1, <3>1, <3>2, <3>3 DEF Promise!LetOut, Promise!Harmless
      <3> QED
        BY <3>1, <3>4 DEF Promise!Next
    <2> QED
      BY <2>2, <2>3
  <1>2. ASSUME NEW a \in Attempts, ActionStarted(a)
        PROVE  Promise!Next \/ UNCHANGED Promise!vars
    BY <1>2, PromiseStutter DEF ActionStarted, KeyHeld, KnownState, Unsettled, Writes, TypeOK, ghostVars
  <1>3. ASSUME NEW a \in Attempts, NEW o \in Outcomes, ActionFinished(a, o)
        PROVE  Promise!Next \/ UNCHANGED Promise!vars
    <2>1. PICK k \in Key :
             /\ status[k] = "in_flight" /\ EffectOf(k, o) /\ vouched' = vouched
             /\ status' = [status EXCEPT ![k] = RecordedStatus(Effect[k[2]], o)]
             /\ Executing(a, k)
      BY <1>3 DEF ActionFinished, KeyHeld, Executing
    <2>2. CASE ~IsWrite(k)
      <3>1. done' = done
        BY <2>1, <2>2 DEF EffectOf, LeftNoEffect, MayHappen
      <3> QED
        BY <2>1, <2>2, <3>1, PromiseStutter DEF KnownState, Writes, TypeOK
    <2>3. CASE IsWrite(k)
      <3>1. k \in Writes /\ (done[k] = 0 \/ vouched[k]) /\ KnownState(k) = "out"
        BY <2>1, <2>3 DEF Writes, Truth, JournalIsTruthful, KnownState, Unsettled
      <3>2. CASE o = "ok"
        <4>1. status' = [status EXCEPT ![k] = "succeeded"] /\ Happens(k)
          BY <2>1, <2>3, <3>2 DEF RecordedStatus, EffectOf, LeftNoEffect
        <4>2. [j \in Writes |-> KnownState(j)]' = [[j \in Writes |-> KnownState(j)] EXCEPT ![k] = "done"]
          BY <1>0, <3>1, <4>1 DEF KnownState, TypeOK
        <4>3. [j \in Writes |-> done[j]]' = [[j \in Writes |-> done[j]] EXCEPT ![k] = IF @ < 2 THEN @ + 1 ELSE @]
          BY <1>0, <3>1, <4>1 DEF Happens, TypeOK
        <4>4. Promise!Succeed(k)
          BY <1>0, <2>1, <3>1, <4>2, <4>3 DEF Promise!Succeed, Promise!Harmless, Promise!OnceMore
        <4> QED
          BY <3>1, <4>4 DEF Promise!Next
      <3>3. CASE o # "ok" /\ LeftNoEffect(k, o)
        <4>1. status' = [status EXCEPT ![k] = "failed"] /\ done' = done
          BY <2>1, <2>3, <3>3 DEF RecordedStatus, EffectOf, LeftNoEffect, IsWrite
        <4>2. [j \in Writes |-> KnownState(j)]' = [[j \in Writes |-> KnownState(j)] EXCEPT ![k] = "free"]
          BY <1>0, <3>1, <4>1 DEF KnownState, Unsettled, TypeOK
        <4>3. Promise!Refuse(k)
          BY <1>0, <2>1, <3>1, <4>1, <4>2 DEF Promise!Refuse, Promise!Harmless
        <4> QED
          BY <3>1, <4>3 DEF Promise!Next
      <3>4. CASE o # "ok" /\ ~LeftNoEffect(k, o)
        <4>1. status' = [status EXCEPT ![k] = "uncertain"] /\ (Happens(k) \/ done' = done)
          BY <2>1, <2>3, <3>4 DEF RecordedStatus, EffectOf, LeftNoEffect, MayHappen, IsWrite
        <4>2. \A j \in Writes : KnownState(j)' = KnownState(j)
          BY <1>0, <3>1, <4>1, <2>1 DEF KnownState, Unsettled, TypeOK
        <4>3. CASE Happens(k)
          BY <2>1, <3>1, <4>2, <4>3, PromiseHappen DEF Promise!Next
        <4>4. CASE done' = done
          BY <2>1, <4>2, <4>4, PromiseStutter
        <4> QED
          BY <4>1, <4>3, <4>4
      <3> QED
        BY <3>2, <3>3, <3>4
    <2> QED
      BY <2>2, <2>3
  <1>4. ASSUME NEW a \in Attempts, BodyRaises(a) \/ SeeStop(a) \/ FinishCancelledRun(a)
        PROVE  Promise!Next \/ UNCHANGED Promise!vars
    <2>1. EffectOfCutTool(a) /\ vouched' = vouched /\ (status' = status \/ status' = MarkUncertain)
      BY <1>4 DEF BodyRaises, SeeStop, FinishCancelledRun, CancelRow, journalVars
    <2> QED
      BY <2>1, MarkedIsOut, CutToolPromise
  <1>5. ASSUME NEW a \in Attempts, RecordCancel(a)
        PROVE  Promise!Next \/ UNCHANGED Promise!vars
    <2>1. done' = done /\ vouched' = vouched /\ (status' = status \/ status' = MarkUncertain)
      BY <1>5 DEF RecordCancel, CancelRow, ghostVars
    <2> QED
      BY <2>1, MarkedIsOut, PromiseStutter
  <1>6. CASE UserCancel \/ Boot
    <2>1. done' = done /\ vouched' = vouched /\ (status' = status \/ status' = MarkUncertain)
      BY <1>6 DEF UserCancel, Boot, CancelRow
    <2> QED
      BY <2>1, MarkedIsOut, PromiseStutter
  <1>7. CASE Crash
    <2>1. status' = status /\ vouched' = vouched
      BY <1>7 DEF Crash, journalVars
    <2>2. CASE done' = done
      BY <2>1, <2>2, PromiseStutter DEF KnownState
    <2>3. ASSUME NEW a \in Attempts, pc[a] = "tool", IsWrite(key[a]), Happens(key[a])
          PROVE  Promise!Next \/ UNCHANGED Promise!vars
      BY <2>1, <2>3, CutToolPromise DEF EffectOfCutTool, MayHappen, KnownState
    <2> QED
      BY <1>7, <2>2, <2>3 DEF Crash
  <1>8. ASSUME NEW k \in Key, NEW applied \in BOOLEAN, Reconcile(k, applied)
        PROVE  Promise!Next \/ UNCHANGED Promise!vars
    <2>1. /\ status[k] = "uncertain" /\ done' = done
          /\ status' = [status EXCEPT ![k] = IF applied THEN "succeeded" ELSE "not_applied"]
      BY <1>8 DEF Reconcile
    <2>2. \A j \in Key : vouched'[j] = IF j = k /\ ~applied THEN TRUE ELSE vouched[j]
      BY <1>8, Zenon DEF Reconcile, TypeOK
    <2>3. CASE ~IsWrite(k)
      BY <2>1, <2>2, <2>3, PromiseStutter DEF KnownState, Writes, TypeOK
    <2>4. CASE IsWrite(k) /\ applied
      <3>1. k \in Writes /\ KnownState(k) = "out"
        BY <2>1, <2>4 DEF Writes, KnownState, Unsettled
      <3>2. [j \in Writes |-> KnownState(j)]' = [[j \in Writes |-> KnownState(j)] EXCEPT ![k] = "done"]
        BY <1>0, <2>1, <2>4, <3>1 DEF KnownState, TypeOK
      <3>3. [j \in Writes |-> vouched[j]]' = [j \in Writes |-> vouched[j]]
        BY <1>0, <2>2, <2>4
      <3>4. Promise!Confirm(k)
        BY <1>0, <2>1, <3>1, <3>2, <3>3 DEF Promise!Confirm
      <3> QED
        BY <3>1, <3>4 DEF Promise!Next
    <2>5. CASE IsWrite(k) /\ ~applied
      <3>1. k \in Writes /\ KnownState(k) = "out"
        BY <2>1, <2>5 DEF Writes, KnownState, Unsettled
      <3>2. [j \in Writes |-> KnownState(j)]' = [[j \in Writes |-> KnownState(j)] EXCEPT ![k] = "free"]
        BY <1>0, <2>1, <2>5, <3>1 DEF KnownState, Unsettled, TypeOK
      <3>3. [j \in Writes |-> vouched[j]]' = [[j \in Writes |-> vouched[j]] EXCEPT ![k] = TRUE]
        BY <1>0, <2>2, <2>5, <3>1
      <3>4. Promise!Vouch(k)
        BY <1>0, <2>1, <3>1, <3>2, <3>3 DEF Promise!Vouch
      <3> QED
        BY <3>1, <3>4 DEF Promise!Next
    <2> QED
      BY <2>3, <2>4, <2>5
  <1>9. ASSUME \/ RunTurn \/ Resume \/ ParentStopped \/ AcceptReview \/ Revise \/ EditProject
               \/ Launch \/ UserCancelSignals \/ UNCHANGED vars
               \/ \E a \in Attempts : FinishTurn(a) \/ FinishRaised(a) \/ StopCheckpoint(a) \/ LeaveEarly(a)
        PROVE  Promise!Next \/ UNCHANGED Promise!vars
    <2>1. status' = status /\ done' = done /\ vouched' = vouched
      BY <1>9 DEF RunTurn, Resume, ParentStopped, AcceptReview, Revise, EditProject, Launch,
         UserCancelSignals, FinishTurn, FinishRaised, StopCheckpoint, LeaveEarly, vars, journalVars, ghostVars
    <2> QED
      BY <2>1, PromiseStutter DEF KnownState
  <1> QED
    BY <1>1, <1>2, <1>3, <1>4, <1>5, <1>6, <1>7, <1>8, <1>9 DEF Next, Turn, User

\* The ledger implements the promise OnceOnly makes about each write, for any
\* intents, effects, attempts and revisions: the refinement the run ledger_host
\* checks on its instance.
THEOREM LedgerKeepsThePromise == Spec => KeepsThePromise
  <1>1. Init => Truth
    BY DEF Init, Truth, JournalIsTruthful, ReadsAreInert, Executing
  <1>2. Init => Promise!Init
    BY DEF Init, Promise!Init, Writes, KnownState, Unsettled
  <1> QED
    BY TypeStart, TypeStep, TruthStep, PromiseStep, <1>1, <1>2, PTL DEF Spec, KeepsThePromise, Promise!Spec
=============================================================================
