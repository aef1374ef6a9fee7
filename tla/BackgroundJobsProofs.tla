------------------------ MODULE BackgroundJobsProofs ------------------------
(* What BackgroundJobs guarantees for every set of jobs, any number of slots  *)
(* and any number of crashes: a conversation is told of a job at most once,   *)
(* done means verified, no stored grant of a live job is forgotten, and a job *)
(* at work stays in the list where it can be stopped.                         *)
EXTENDS BackgroundJobs, WellFoundedInduction, NaturalsInduction, TLAPS

-----------------------------------------------------------------------------
(* The inductive invariant.  Typed is TypeOK without the list of cards, which *)
(* WorkInv below adds.                                                       *)

Typed ==
    /\ server \in {"up", "down", "grants", "recover", "report"}
    /\ telling \in Job \union {None}
    /\ pc \in [Job -> {"none", "queued", "working", "reading", "stopping", "judging", "reporting",
                       "forgetting", "over", "gone"}]
    /\ phase \in [Job -> {"queued", "running", "finished"}]
    /\ outcome \in [Job -> {None, "done", "partial", "blocked", "stopped", "out_of_budget"}]
    /\ text \in [Job -> BOOLEAN]
    /\ recording \in [Job -> BOOLEAN]
    /\ row \in [Job -> RowFinal \union {"none", "running", "interrupted"}]
    /\ posted \in [Job -> Nat]
    /\ granting \in [Job -> BOOLEAN]
    /\ registered \subseteq Job
    /\ stored \subseteq Job

\* Which rows a job can have where it stands: a boot pass only finds jobs that
\* are gone, and a cancel still to be recorded has an open row to go to.
RowFits ==
    /\ server # "up" => \A j \in Job : pc[j] \in {"none", "gone"}
    /\ \A j \in Job :
         /\ pc[j] \in {"none", "queued"} => row[j] = "none"
         /\ row[j] \in {"interrupted", "closed"} => pc[j] = "gone"
         /\ recording[j] => /\ row[j] = "running"
                            /\ pc[j] \in {"stopping", "reporting", "forgetting", "over"}
         /\ pc[j] = "judging" => row[j] = "succeeded"

\* What there is to say about a job is said only once its row is final.
Said ==
    \A j \in Job :
      /\ text[j] => row[j] \in RowFinal
      /\ outcome[j] = "out_of_budget" => row[j] = "budget"
      /\ posted[j] # 0 => row[j] \in RowFinal
      /\ pc[j] \notin {"forgetting", "over", "gone"} => posted[j] = 0
      /\ telling = j => /\ server = "report"
                        /\ row[j] = "closed"
                        /\ posted[j] = 0

\* A grant being written, or stored for a job of this process, is registered.
Owed ==
    \A j \in Job :
      /\ granting[j] => pc[j] = "working" /\ row[j] = "running" /\ j \in registered
      /\ j \in stored /\ pc[j] # "gone" => j \in registered
      /\ pc[j] = "none" => j \notin stored

Inv == Typed /\ RowFits /\ Said /\ ToldOnce /\ DoneIsVerified /\ Owed

-----------------------------------------------------------------------------
\* Every step keeps the types.
LEMMA TypedStep == Inv /\ [Next]_vars => Typed'
  <1> SUFFICES ASSUME Inv, [Next]_vars PROVE Typed'
    OBVIOUS
  <1> USE JobsAssumption DEF Inv, Typed, RowFinal, bootVars, grantVars
  <1>1. ASSUME NEW j \in Job, Start(j) PROVE Typed'
    BY <1>1 DEF Start
  <1>2. ASSUME NEW j \in Job, GetSlot(j) PROVE Typed'
    BY <1>2 DEF GetSlot
  <1>3. ASSUME NEW j \in Job, CreateRow(j) PROVE Typed'
    BY <1>3 DEF CreateRow
  <1>4. ASSUME NEW j \in Job, AllowForTask(j) PROVE Typed'
    BY <1>4 DEF AllowForTask
  <1>5. ASSUME NEW j \in Job, GrantWritten(j) PROVE Typed'
    BY <1>5 DEF GrantWritten
  <1>6. ASSUME NEW j \in Job, TurnEnds(j) PROVE Typed'
    <2>1. row' \in [Job -> RowFinal \union {"none", "running", "interrupted"}]
      BY <1>6 DEF TurnEnds
    <2>2. text' \in [Job -> BOOLEAN]
      BY <1>6 DEF TurnEnds
    <2> QED
      BY <1>6, <2>1, <2>2 DEF TurnEnds
  <1>7. ASSUME NEW j \in Job, CancelTask(j) PROVE Typed'
    BY <1>7 DEF CancelTask, DropWrite
  <1>8. ASSUME NEW j \in Job, ReadRow(j) PROVE Typed'
    BY <1>8 DEF ReadRow, ReadsFinished, OutcomeOf, FellShort
  <1>9. ASSUME NEW j \in Job, ExecuteFails(j) PROVE Typed'
    BY <1>9 DEF ExecuteFails, ReadsFinished, FellShort
  <1>10. ASSUME NEW j \in Job, Judge(j) PROVE Typed'
    BY <1>10 DEF Judge, ReadsFinished
  <1>11. ASSUME NEW j \in Job, StopOutside(j) PROVE Typed'
    BY <1>11 DEF StopOutside, ReadsFinished, Stoppable
  <1>12. ASSUME NEW j \in Job, StopChild(j) PROVE Typed'
    BY <1>12 DEF StopChild, DropWrite, Stoppable
  <1>13. ASSUME NEW j \in Job, StopAtCommit(j) PROVE Typed'
    BY <1>13 DEF StopAtCommit, Stoppable
  <1>14. ASSUME NEW j \in Job, StopConsumed(j) PROVE Typed'
    BY <1>14 DEF StopConsumed, DropWrite, Stoppable
  <1>15. ASSUME NEW j \in Job, RecordCancel(j) PROVE Typed'
    BY <1>15 DEF RecordCancel
  <1>16. ASSUME NEW j \in Job, ChildStopped(j) PROVE Typed'
    BY <1>16 DEF ChildStopped, ReadsFinished
  <1>17. ASSUME NEW j \in Job, StopAgain(j) PROVE Typed'
    BY <1>17 DEF StopAgain, ReadsFinished, Stoppable
  <1>18. ASSUME NEW j \in Job, StopJudging(j) PROVE Typed'
    BY <1>18 DEF StopJudging, Stoppable
  <1>19. ASSUME NEW j \in Job, Report(j) PROVE Typed'
    BY <1>19 DEF Report, HasBody
  <1>20. ASSUME NEW j \in Job, ForgetTask(j) PROVE Typed'
    BY <1>20 DEF ForgetTask
  <1>21. ASSUME NEW j \in Job, CloseInterrupted(j) PROVE Typed'
    BY <1>21 DEF CloseInterrupted
  <1>22. CASE Crash
    BY <1>22 DEF Crash
  <1>23. CASE Boot
    BY <1>23 DEF Boot
  <1>24. CASE DropGrants
    BY <1>24 DEF DropGrants
  <1>25. CASE Recover
    BY <1>25 DEF Recover
  <1>26. CASE TellInterrupted
    BY <1>26 DEF TellInterrupted
  <1>27. CASE BootEnds
    BY <1>27 DEF BootEnds
  <1>28. CASE UNCHANGED vars
    BY <1>28 DEF vars
  <1> QED
        BY <1>1, <1>2, <1>3, <1>4, <1>5, <1>6, <1>7, <1>8, <1>9, <1>10, <1>11, <1>12, <1>13,
       <1>14, <1>15, <1>16, <1>17, <1>18, <1>19, <1>20, <1>21, <1>22, <1>23, <1>24, <1>25,
       <1>26, <1>27, <1>28 DEF Next

\* Every step keeps row and job in step.
LEMMA RowFitsStep == Inv /\ [Next]_vars => RowFits'
  <1> SUFFICES ASSUME Inv, [Next]_vars PROVE RowFits'
    OBVIOUS
  <1> USE JobsAssumption DEF Inv, Typed, RowFits, RowFinal, Owed, bootVars, grantVars
  <1>1. ASSUME NEW j \in Job, Start(j) PROVE RowFits'
    BY <1>1 DEF Start
  <1>2. ASSUME NEW j \in Job, GetSlot(j) PROVE RowFits'
    BY <1>2 DEF GetSlot
  <1>3. ASSUME NEW j \in Job, CreateRow(j) PROVE RowFits'
    BY <1>3 DEF CreateRow
  <1>4. ASSUME NEW j \in Job, AllowForTask(j) PROVE RowFits'
    BY <1>4 DEF AllowForTask
  <1>5. ASSUME NEW j \in Job, GrantWritten(j) PROVE RowFits'
    BY <1>5 DEF GrantWritten
  <1>6. ASSUME NEW j \in Job, TurnEnds(j) PROVE RowFits'
    BY <1>6 DEF TurnEnds
  <1>7. ASSUME NEW j \in Job, CancelTask(j) PROVE RowFits'
    BY <1>7 DEF CancelTask, DropWrite
  <1>8. ASSUME NEW j \in Job, ReadRow(j) PROVE RowFits'
    BY <1>8 DEF ReadRow, ReadsFinished, OutcomeOf, FellShort
  <1>9. ASSUME NEW j \in Job, ExecuteFails(j) PROVE RowFits'
    BY <1>9 DEF ExecuteFails, ReadsFinished, FellShort
  <1>10. ASSUME NEW j \in Job, Judge(j) PROVE RowFits'
    BY <1>10 DEF Judge, ReadsFinished
  <1>11. ASSUME NEW j \in Job, StopOutside(j) PROVE RowFits'
    BY <1>11 DEF StopOutside, ReadsFinished, Stoppable
  <1>12. ASSUME NEW j \in Job, StopChild(j) PROVE RowFits'
    BY <1>12 DEF StopChild, DropWrite, Stoppable
  <1>13. ASSUME NEW j \in Job, StopAtCommit(j) PROVE RowFits'
    BY <1>13 DEF StopAtCommit, Stoppable
  <1>14. ASSUME NEW j \in Job, StopConsumed(j) PROVE RowFits'
    BY <1>14 DEF StopConsumed, DropWrite, Stoppable
  <1>15. ASSUME NEW j \in Job, RecordCancel(j) PROVE RowFits'
    BY <1>15 DEF RecordCancel
  <1>16. ASSUME NEW j \in Job, ChildStopped(j) PROVE RowFits'
    BY <1>16 DEF ChildStopped, ReadsFinished
  <1>17. ASSUME NEW j \in Job, StopAgain(j) PROVE RowFits'
    BY <1>17 DEF StopAgain, ReadsFinished, Stoppable
  <1>18. ASSUME NEW j \in Job, StopJudging(j) PROVE RowFits'
    BY <1>18 DEF StopJudging, Stoppable
  <1>19. ASSUME NEW j \in Job, Report(j) PROVE RowFits'
    BY <1>19 DEF Report, HasBody
  <1>20. ASSUME NEW j \in Job, ForgetTask(j) PROVE RowFits'
    BY <1>20 DEF ForgetTask
  <1>21. ASSUME NEW j \in Job, CloseInterrupted(j) PROVE RowFits'
    BY <1>21 DEF CloseInterrupted
  <1>22. CASE Crash
    BY <1>22 DEF Crash
  <1>23. CASE Boot
    BY <1>23 DEF Boot
  <1>24. CASE DropGrants
    BY <1>24 DEF DropGrants
  <1>25. CASE Recover
    BY <1>25 DEF Recover
  <1>26. CASE TellInterrupted
    BY <1>26 DEF TellInterrupted
  <1>27. CASE BootEnds
    BY <1>27 DEF BootEnds
  <1>28. CASE UNCHANGED vars
    BY <1>28 DEF vars
  <1> QED
        BY <1>1, <1>2, <1>3, <1>4, <1>5, <1>6, <1>7, <1>8, <1>9, <1>10, <1>11, <1>12, <1>13,
       <1>14, <1>15, <1>16, <1>17, <1>18, <1>19, <1>20, <1>21, <1>22, <1>23, <1>24, <1>25,
       <1>26, <1>27, <1>28 DEF Next

\* Nothing is said of a row that may still change.
LEMMA SaidStep == Inv /\ [Next]_vars => Said'
  <1> SUFFICES ASSUME Inv, [Next]_vars PROVE Said'
    OBVIOUS
  <1> USE JobsAssumption DEF Inv, Typed, RowFits, Said, ToldOnce, RowFinal, bootVars, grantVars
  <1>1. ASSUME NEW j \in Job, Start(j) PROVE Said'
    BY <1>1 DEF Start
  <1>2. ASSUME NEW j \in Job, GetSlot(j) PROVE Said'
    BY <1>2 DEF GetSlot
  <1>3. ASSUME NEW j \in Job, CreateRow(j) PROVE Said'
    BY <1>3 DEF CreateRow
  <1>4. ASSUME NEW j \in Job, AllowForTask(j) PROVE Said'
    BY <1>4 DEF AllowForTask
  <1>5. ASSUME NEW j \in Job, GrantWritten(j) PROVE Said'
    BY <1>5 DEF GrantWritten
  <1>6. ASSUME NEW j \in Job, TurnEnds(j) PROVE Said'
    BY <1>6 DEF TurnEnds
  <1>7. ASSUME NEW j \in Job, CancelTask(j) PROVE Said'
    BY <1>7 DEF CancelTask, DropWrite
  <1>8. ASSUME NEW j \in Job, ReadRow(j) PROVE Said'
    BY <1>8 DEF ReadRow, ReadsFinished, OutcomeOf, FellShort
  <1>9. ASSUME NEW j \in Job, ExecuteFails(j) PROVE Said'
    BY <1>9 DEF ExecuteFails, ReadsFinished, FellShort
  <1>10. ASSUME NEW j \in Job, Judge(j) PROVE Said'
    BY <1>10 DEF Judge, ReadsFinished
  <1>11. ASSUME NEW j \in Job, StopOutside(j) PROVE Said'
    BY <1>11 DEF StopOutside, ReadsFinished, Stoppable
  <1>12. ASSUME NEW j \in Job, StopChild(j) PROVE Said'
    BY <1>12 DEF StopChild, DropWrite, Stoppable
  <1>13. ASSUME NEW j \in Job, StopAtCommit(j) PROVE Said'
    BY <1>13 DEF StopAtCommit, Stoppable
  <1>14. ASSUME NEW j \in Job, StopConsumed(j) PROVE Said'
    BY <1>14 DEF StopConsumed, DropWrite, Stoppable
  <1>15. ASSUME NEW j \in Job, RecordCancel(j) PROVE Said'
    BY <1>15 DEF RecordCancel
  <1>16. ASSUME NEW j \in Job, ChildStopped(j) PROVE Said'
    BY <1>16 DEF ChildStopped, ReadsFinished
  <1>17. ASSUME NEW j \in Job, StopAgain(j) PROVE Said'
    BY <1>17 DEF StopAgain, ReadsFinished, Stoppable
  <1>18. ASSUME NEW j \in Job, StopJudging(j) PROVE Said'
    BY <1>18 DEF StopJudging, Stoppable
  <1>19. ASSUME NEW j \in Job, Report(j) PROVE Said'
    BY <1>19 DEF Report, HasBody
  <1>20. ASSUME NEW j \in Job, ForgetTask(j) PROVE Said'
    BY <1>20 DEF ForgetTask
  <1>21. ASSUME NEW j \in Job, CloseInterrupted(j) PROVE Said'
    BY <1>21 DEF CloseInterrupted
  <1>22. CASE Crash
    BY <1>22 DEF Crash
  <1>23. CASE Boot
    BY <1>23 DEF Boot
  <1>24. CASE DropGrants
    BY <1>24 DEF DropGrants
  <1>25. CASE Recover
    BY <1>25 DEF Recover
  <1>26. CASE TellInterrupted
    BY <1>26 DEF TellInterrupted
  <1>27. CASE BootEnds
    BY <1>27 DEF BootEnds
  <1>28. CASE UNCHANGED vars
    BY <1>28 DEF vars
  <1> QED
        BY <1>1, <1>2, <1>3, <1>4, <1>5, <1>6, <1>7, <1>8, <1>9, <1>10, <1>11, <1>12, <1>13,
       <1>14, <1>15, <1>16, <1>17, <1>18, <1>19, <1>20, <1>21, <1>22, <1>23, <1>24, <1>25,
       <1>26, <1>27, <1>28 DEF Next

\* A report finds nothing said before it, and so does the boot pass.
LEMMA ToldOnceStep == Inv /\ [Next]_vars => ToldOnce'
  <1> SUFFICES ASSUME Inv, [Next]_vars PROVE ToldOnce'
    OBVIOUS
  <1> USE JobsAssumption DEF Inv, Typed, Said, ToldOnce, RowFits, bootVars, grantVars
  <1>1. ASSUME NEW j \in Job, Start(j) PROVE ToldOnce'
    BY <1>1 DEF Start
  <1>2. ASSUME NEW j \in Job, GetSlot(j) PROVE ToldOnce'
    BY <1>2 DEF GetSlot
  <1>3. ASSUME NEW j \in Job, CreateRow(j) PROVE ToldOnce'
    BY <1>3 DEF CreateRow
  <1>4. ASSUME NEW j \in Job, AllowForTask(j) PROVE ToldOnce'
    BY <1>4 DEF AllowForTask
  <1>5. ASSUME NEW j \in Job, GrantWritten(j) PROVE ToldOnce'
    BY <1>5 DEF GrantWritten
  <1>6. ASSUME NEW j \in Job, TurnEnds(j) PROVE ToldOnce'
    BY <1>6 DEF TurnEnds
  <1>7. ASSUME NEW j \in Job, CancelTask(j) PROVE ToldOnce'
    BY <1>7 DEF CancelTask, DropWrite
  <1>8. ASSUME NEW j \in Job, ReadRow(j) PROVE ToldOnce'
    BY <1>8 DEF ReadRow, ReadsFinished, OutcomeOf, FellShort
  <1>9. ASSUME NEW j \in Job, ExecuteFails(j) PROVE ToldOnce'
    BY <1>9 DEF ExecuteFails, ReadsFinished, FellShort
  <1>10. ASSUME NEW j \in Job, Judge(j) PROVE ToldOnce'
    BY <1>10 DEF Judge, ReadsFinished
  <1>11. ASSUME NEW j \in Job, StopOutside(j) PROVE ToldOnce'
    BY <1>11 DEF StopOutside, ReadsFinished, Stoppable
  <1>12. ASSUME NEW j \in Job, StopChild(j) PROVE ToldOnce'
    BY <1>12 DEF StopChild, DropWrite, Stoppable
  <1>13. ASSUME NEW j \in Job, StopAtCommit(j) PROVE ToldOnce'
    BY <1>13 DEF StopAtCommit, Stoppable
  <1>14. ASSUME NEW j \in Job, StopConsumed(j) PROVE ToldOnce'
    BY <1>14 DEF StopConsumed, DropWrite, Stoppable
  <1>15. ASSUME NEW j \in Job, RecordCancel(j) PROVE ToldOnce'
    BY <1>15 DEF RecordCancel
  <1>16. ASSUME NEW j \in Job, ChildStopped(j) PROVE ToldOnce'
    BY <1>16 DEF ChildStopped, ReadsFinished
  <1>17. ASSUME NEW j \in Job, StopAgain(j) PROVE ToldOnce'
    BY <1>17 DEF StopAgain, ReadsFinished, Stoppable
  <1>18. ASSUME NEW j \in Job, StopJudging(j) PROVE ToldOnce'
    BY <1>18 DEF StopJudging, Stoppable
  <1>19. ASSUME NEW j \in Job, Report(j) PROVE ToldOnce'
    BY <1>19 DEF Report, HasBody
  <1>20. ASSUME NEW j \in Job, ForgetTask(j) PROVE ToldOnce'
    BY <1>20 DEF ForgetTask
  <1>21. ASSUME NEW j \in Job, CloseInterrupted(j) PROVE ToldOnce'
    BY <1>21 DEF CloseInterrupted
  <1>22. CASE Crash
    BY <1>22 DEF Crash
  <1>23. CASE Boot
    BY <1>23 DEF Boot
  <1>24. CASE DropGrants
    BY <1>24 DEF DropGrants
  <1>25. CASE Recover
    BY <1>25 DEF Recover
  <1>26. CASE TellInterrupted
    BY <1>26 DEF TellInterrupted
  <1>27. CASE BootEnds
    BY <1>27 DEF BootEnds
  <1>28. CASE UNCHANGED vars
    BY <1>28 DEF vars
  <1> QED
        BY <1>1, <1>2, <1>3, <1>4, <1>5, <1>6, <1>7, <1>8, <1>9, <1>10, <1>11, <1>12, <1>13,
       <1>14, <1>15, <1>16, <1>17, <1>18, <1>19, <1>20, <1>21, <1>22, <1>23, <1>24, <1>25,
       <1>26, <1>27, <1>28 DEF Next

\* A row that is not succeeded changes only under a job that is not done.
LEMMA DoneStep == Inv /\ [Next]_vars => DoneIsVerified'
  <1> SUFFICES ASSUME Inv, [Next]_vars PROVE DoneIsVerified'
    OBVIOUS
  <1> USE JobsAssumption DEF Inv, Typed, RowFits, DoneIsVerified, bootVars, grantVars
  <1>1. ASSUME NEW j \in Job, Start(j) PROVE DoneIsVerified'
    BY <1>1 DEF Start
  <1>2. ASSUME NEW j \in Job, GetSlot(j) PROVE DoneIsVerified'
    BY <1>2 DEF GetSlot
  <1>3. ASSUME NEW j \in Job, CreateRow(j) PROVE DoneIsVerified'
    BY <1>3 DEF CreateRow
  <1>4. ASSUME NEW j \in Job, AllowForTask(j) PROVE DoneIsVerified'
    BY <1>4 DEF AllowForTask
  <1>5. ASSUME NEW j \in Job, GrantWritten(j) PROVE DoneIsVerified'
    BY <1>5 DEF GrantWritten
  <1>6. ASSUME NEW j \in Job, TurnEnds(j) PROVE DoneIsVerified'
    BY <1>6 DEF TurnEnds
  <1>7. ASSUME NEW j \in Job, CancelTask(j) PROVE DoneIsVerified'
    BY <1>7 DEF CancelTask, DropWrite
  <1>8. ASSUME NEW j \in Job, ReadRow(j) PROVE DoneIsVerified'
    BY <1>8 DEF ReadRow, ReadsFinished, OutcomeOf, FellShort
  <1>9. ASSUME NEW j \in Job, ExecuteFails(j) PROVE DoneIsVerified'
    BY <1>9 DEF ExecuteFails, ReadsFinished, FellShort
  <1>10. ASSUME NEW j \in Job, Judge(j) PROVE DoneIsVerified'
    BY <1>10 DEF Judge, ReadsFinished
  <1>11. ASSUME NEW j \in Job, StopOutside(j) PROVE DoneIsVerified'
    BY <1>11 DEF StopOutside, ReadsFinished, Stoppable
  <1>12. ASSUME NEW j \in Job, StopChild(j) PROVE DoneIsVerified'
    BY <1>12 DEF StopChild, DropWrite, Stoppable
  <1>13. ASSUME NEW j \in Job, StopAtCommit(j) PROVE DoneIsVerified'
    BY <1>13 DEF StopAtCommit, Stoppable
  <1>14. ASSUME NEW j \in Job, StopConsumed(j) PROVE DoneIsVerified'
    BY <1>14 DEF StopConsumed, DropWrite, Stoppable
  <1>15. ASSUME NEW j \in Job, RecordCancel(j) PROVE DoneIsVerified'
    BY <1>15 DEF RecordCancel
  <1>16. ASSUME NEW j \in Job, ChildStopped(j) PROVE DoneIsVerified'
    BY <1>16 DEF ChildStopped, ReadsFinished
  <1>17. ASSUME NEW j \in Job, StopAgain(j) PROVE DoneIsVerified'
    BY <1>17 DEF StopAgain, ReadsFinished, Stoppable
  <1>18. ASSUME NEW j \in Job, StopJudging(j) PROVE DoneIsVerified'
    BY <1>18 DEF StopJudging, Stoppable
  <1>19. ASSUME NEW j \in Job, Report(j) PROVE DoneIsVerified'
    BY <1>19 DEF Report, HasBody
  <1>20. ASSUME NEW j \in Job, ForgetTask(j) PROVE DoneIsVerified'
    BY <1>20 DEF ForgetTask
  <1>21. ASSUME NEW j \in Job, CloseInterrupted(j) PROVE DoneIsVerified'
    BY <1>21 DEF CloseInterrupted
  <1>22. CASE Crash
    BY <1>22 DEF Crash
  <1>23. CASE Boot
    BY <1>23 DEF Boot
  <1>24. CASE DropGrants
    BY <1>24 DEF DropGrants
  <1>25. CASE Recover
    BY <1>25 DEF Recover
  <1>26. CASE TellInterrupted
    BY <1>26 DEF TellInterrupted
  <1>27. CASE BootEnds
    BY <1>27 DEF BootEnds
  <1>28. CASE UNCHANGED vars
    BY <1>28 DEF vars
  <1> QED
        BY <1>1, <1>2, <1>3, <1>4, <1>5, <1>6, <1>7, <1>8, <1>9, <1>10, <1>11, <1>12, <1>13,
       <1>14, <1>15, <1>16, <1>17, <1>18, <1>19, <1>20, <1>21, <1>22, <1>23, <1>24, <1>25,
       <1>26, <1>27, <1>28 DEF Next

\* Whatever interrupts the write of a grant, its task stays registered.
LEMMA OwedStep == Inv /\ [Next]_vars => Owed'
  <1> SUFFICES ASSUME Inv, [Next]_vars PROVE Owed'
    OBVIOUS
  <1> USE JobsAssumption DEF Inv, Typed, RowFits, Owed, bootVars, grantVars
  <1>1. ASSUME NEW j \in Job, Start(j) PROVE Owed'
    BY <1>1 DEF Start
  <1>2. ASSUME NEW j \in Job, GetSlot(j) PROVE Owed'
    BY <1>2 DEF GetSlot
  <1>3. ASSUME NEW j \in Job, CreateRow(j) PROVE Owed'
    BY <1>3 DEF CreateRow
  <1>4. ASSUME NEW j \in Job, AllowForTask(j) PROVE Owed'
    BY <1>4 DEF AllowForTask
  <1>5. ASSUME NEW j \in Job, GrantWritten(j) PROVE Owed'
    BY <1>5 DEF GrantWritten
  <1>6. ASSUME NEW j \in Job, TurnEnds(j) PROVE Owed'
    BY <1>6 DEF TurnEnds
  <1>7. ASSUME NEW j \in Job, CancelTask(j) PROVE Owed'
    BY <1>7 DEF CancelTask, DropWrite
  <1>8. ASSUME NEW j \in Job, ReadRow(j) PROVE Owed'
    BY <1>8 DEF ReadRow, ReadsFinished, OutcomeOf, FellShort
  <1>9. ASSUME NEW j \in Job, ExecuteFails(j) PROVE Owed'
    BY <1>9 DEF ExecuteFails, ReadsFinished, FellShort
  <1>10. ASSUME NEW j \in Job, Judge(j) PROVE Owed'
    BY <1>10 DEF Judge, ReadsFinished
  <1>11. ASSUME NEW j \in Job, StopOutside(j) PROVE Owed'
    BY <1>11 DEF StopOutside, ReadsFinished, Stoppable
  <1>12. ASSUME NEW j \in Job, StopChild(j) PROVE Owed'
    BY <1>12 DEF StopChild, DropWrite, Stoppable
  <1>13. ASSUME NEW j \in Job, StopAtCommit(j) PROVE Owed'
    BY <1>13 DEF StopAtCommit, Stoppable
  <1>14. ASSUME NEW j \in Job, StopConsumed(j) PROVE Owed'
    BY <1>14 DEF StopConsumed, DropWrite, Stoppable
  <1>15. ASSUME NEW j \in Job, RecordCancel(j) PROVE Owed'
    BY <1>15 DEF RecordCancel
  <1>16. ASSUME NEW j \in Job, ChildStopped(j) PROVE Owed'
    BY <1>16 DEF ChildStopped, ReadsFinished
  <1>17. ASSUME NEW j \in Job, StopAgain(j) PROVE Owed'
    BY <1>17 DEF StopAgain, ReadsFinished, Stoppable
  <1>18. ASSUME NEW j \in Job, StopJudging(j) PROVE Owed'
    BY <1>18 DEF StopJudging, Stoppable
  <1>19. ASSUME NEW j \in Job, Report(j) PROVE Owed'
    BY <1>19 DEF Report, HasBody
  <1>20. ASSUME NEW j \in Job, ForgetTask(j) PROVE Owed'
    BY <1>20 DEF ForgetTask
  <1>21. ASSUME NEW j \in Job, CloseInterrupted(j) PROVE Owed'
    BY <1>21 DEF CloseInterrupted
  <1>22. CASE Crash
    BY <1>22 DEF Crash
  <1>23. CASE Boot
    BY <1>23 DEF Boot
  <1>24. CASE DropGrants
    BY <1>24 DEF DropGrants
  <1>25. CASE Recover
    BY <1>25 DEF Recover
  <1>26. CASE TellInterrupted
    BY <1>26 DEF TellInterrupted
  <1>27. CASE BootEnds
    BY <1>27 DEF BootEnds
  <1>28. CASE UNCHANGED vars
    BY <1>28 DEF vars
  <1> QED
        BY <1>1, <1>2, <1>3, <1>4, <1>5, <1>6, <1>7, <1>8, <1>9, <1>10, <1>11, <1>12, <1>13,
       <1>14, <1>15, <1>16, <1>17, <1>18, <1>19, <1>20, <1>21, <1>22, <1>23, <1>24, <1>25,
       <1>26, <1>27, <1>28 DEF Next

-----------------------------------------------------------------------------
(* The theorems. *)

\* The empty list of jobs satisfies the invariant.
LEMMA InvInit == Init => Inv
  BY JobsAssumption DEF Init, Inv, Typed, RowFits, Said, ToldOnce, DoneIsVerified, Owed, RowFinal

\* Every step keeps the invariant, one conjunct at a time.
LEMMA InvStep == Inv /\ [Next]_vars => Inv'
  BY TypedStep, RowFitsStep, SaidStep, ToldOnceStep, DoneStep, OwedStep DEF Inv

\* So it holds in every state the jobs can reach.
LEMMA InvAlways == Spec => []Inv
  BY InvInit, InvStep, PTL DEF Spec

\* A conversation is told of a job at most once, over any number of stops,
\* crashes and boots (_report and report_interrupted).
THEOREM ToldAtMostOnce == Spec => []ToldOnce
  BY InvAlways, PTL DEF Inv

\* A job that reads done has a row the validator marked succeeded (outcome_of).
THEOREM DoneMeansVerified == Spec => []DoneIsVerified
  BY InvAlways, PTL DEF Inv

\* Every "for this task" grant stored for a job of this process is still owed
\* its deletion (_GRANTED_TASKS in server/services/permissions.py).
THEOREM GrantsAreOwed == Spec => []StoredGrantIsOwed
  <1>1. Inv => StoredGrantIsOwed
    BY DEF Inv, Typed, Owed, StoredGrantIsOwed
  <1> QED
    BY <1>1, InvAlways, PTL

-----------------------------------------------------------------------------
(* What Without keeps, by induction over the sequence. *)

\* The order of the naturals as a relation.
Below == {ss \in Nat \X Nat : ss[1] < ss[2]}

\* Induction over the naturals, for a property given as the set of the numbers that have it.
LEMMA Induction ==
    ASSUME NEW S \in SUBSET Nat, 0 \in S, \A n \in S : n + 1 \in S
    PROVE  \A n \in Nat : n \in S
  <1> SUFFICES ASSUME Nat \ S # {} PROVE FALSE
    OBVIOUS
  <1>1. IsWellFoundedOn(Below, Nat)
    BY NatLessThanWellFounded, Zenon DEF OpToRel, Below
  <1> DEFINE T == Nat \ S
  <1>2. PICK n \in T : \A m \in T : ~(<<m, n>> \in Below)
    <2> HIDE DEF T
    <2>1. T \subseteq Nat /\ T # {}
      BY DEF T
    <2> QED
      BY <1>1, <2>1, WFMin
  <1>3. n \in Nat /\ n # 0 /\ n - 1 \in Nat /\ n - 1 < n
    OBVIOUS
  <1>4. n - 1 \notin T
    BY <1>2, <1>3 DEF Below
  <1> QED
    BY <1>2, <1>3, <1>4

\* One job more: what Without does with it.
Take(S, x, kept) == IF x \in S THEN kept ELSE Append(kept, x)

\* The recursion of Without, over the first n jobs of s.
Keeps(s, S, n, kept) ==
    kept = [i \in 0 .. n |-> IF i = 0 THEN <<>> ELSE Take(S, s[i], kept[i - 1])]

\* Without is that recursion.
LEMMA WithoutIs ==
    ASSUME NEW s, NEW S
    PROVE  Without(s, S) = (CHOOSE kept : Keeps(s, S, Len(s), kept))[Len(s)]
  BY Zenon DEF Without, Keeps, Take

\* The recursion has a solution.
LEMMA KeepsExists ==
    ASSUME NEW s, NEW S, NEW n \in Nat
    PROVE  \E kept : Keeps(s, S, n, kept)
  <1> DEFINE N == {m \in Nat : \E kept : Keeps(s, S, m, kept)}
  <1>1. 0 \in N
    <2>1. Keeps(s, S, 0, [i \in 0 .. 0 |-> <<>>])
      BY DEF Keeps
    <2> QED
      BY <2>1
  <1>2. ASSUME NEW m \in N
        PROVE  m + 1 \in N
    <2>1. PICK k : Keeps(s, S, m, k)
      OBVIOUS
    <2> DEFINE l == [i \in 0 .. m + 1 |-> IF i <= m THEN k[i] ELSE Take(S, s[m + 1], k[m])]
    <2>2. \A i \in 0 .. m : k[i] = IF i = 0 THEN <<>> ELSE Take(S, s[i], k[i - 1])
      BY <2>1 DEF Keeps
    <2>3. \A i \in 0 .. m + 1 : l[i] = IF i = 0 THEN <<>> ELSE Take(S, s[i], l[i - 1])
      BY <2>2
    <2>4. Keeps(s, S, m + 1, l)
      BY <2>3 DEF Keeps
    <2> QED
      BY <2>4
  <1>3. \A m \in Nat : m \in N
    <2>1. N \in SUBSET Nat
      OBVIOUS
    <2> HIDE DEF N
    <2> QED
      BY <1>1, <1>2, <2>1, Induction
  <1> QED
    BY <1>3

\* A job more at the end of a list.
LEMMA AppendHas ==
    ASSUME NEW D, NEW s \in Seq(D), NEW x \in D
    PROVE  Append(s, x) \in Seq(D) /\ \A y : y \in ToSet(Append(s, x)) <=> y \in ToSet(s) \/ y = x
  <1> DEFINE t == Append(s, x)
  <1>1. t \in Seq(D) /\ Len(s) \in Nat /\ Len(t) = Len(s) + 1 /\ t[Len(s) + 1] = x
    OBVIOUS
  <1>2. \A i \in 1 .. Len(s) : t[i] = s[i]
    OBVIOUS
  <1>3. DOMAIN s = 1 .. Len(s) /\ DOMAIN t = 1 .. Len(s) + 1
    BY <1>1
  <1> HIDE DEF t
  <1>4. ASSUME NEW y
        PROVE  (\E i \in 1 .. Len(s) + 1 : t[i] = y) <=> (\E i \in 1 .. Len(s) : s[i] = y) \/ y = x
    <2>1. \A i \in 1 .. Len(s) + 1 : i = Len(s) + 1 \/ i \in 1 .. Len(s)
      BY <1>1
    <2>2. Len(s) + 1 \in 1 .. Len(s) + 1 /\ \A i \in 1 .. Len(s) : i \in 1 .. Len(s) + 1
      BY <1>1
    <2> QED
      BY <1>1, <1>2, <2>1, <2>2
  <1> QED
    BY <1>1, <1>3, <1>4 DEF t, ToSet

\* Without keeps the jobs of the list that are not in S, and no other.
LEMMA WithoutKeeps ==
    ASSUME NEW D, NEW s \in Seq(D), NEW S
    PROVE  Without(s, S) \in Seq(D) /\ \A y : y \in ToSet(Without(s, S)) <=> y \in ToSet(s) /\ y \notin S
  <1> DEFINE k == CHOOSE kept : Keeps(s, S, Len(s), kept)
             Had(i, y) == \E j \in 1 .. i : s[j] = y
             N == {i \in Nat : i <= Len(s) => /\ k[i] \in Seq(D)
                                              /\ \A y : y \in ToSet(k[i]) <=> Had(i, y) /\ y \notin S}
  <1>1. Len(s) \in Nat /\ Keeps(s, S, Len(s), k)
    <2>1. Len(s) \in Nat
      OBVIOUS
    <2>2. \E kept : Keeps(s, S, Len(s), kept)
      BY <2>1, KeepsExists
    <2> QED
      BY <2>1, <2>2
  <1>2. Without(s, S) = k[Len(s)]
    BY WithoutIs
  <1> HIDE DEF k
  <1>3. 0 \in N
    <2>1. k[0] = <<>>
      BY <1>1 DEF Keeps
    <2>2. \A y : y \notin ToSet(<<>>) /\ ~Had(0, y)
      BY DEF ToSet
    <2>3. k[0] \in Seq(D)
      BY <2>1
    <2> HIDE DEF Had
    <2> QED
      BY <2>1, <2>2, <2>3, Zenon
  <1>4. ASSUME NEW i \in N
        PROVE  i + 1 \in N
    <2> SUFFICES ASSUME i + 1 <= Len(s)
                 PROVE  /\ k[i + 1] \in Seq(D)
                        /\ \A y : y \in ToSet(k[i + 1]) <=> Had(i + 1, y) /\ y \notin S
      OBVIOUS
    <2>1. /\ i \in Nat /\ k[i] \in Seq(D) /\ s[i + 1] \in D
          /\ \A y : y \in ToSet(k[i]) <=> Had(i, y) /\ y \notin S
      BY <1>1
    <2>2. k[i + 1] = Take(S, s[i + 1], k[i])
      BY <1>1, <2>1 DEF Keeps
    <2>3. \A y : Had(i + 1, y) <=> Had(i, y) \/ y = s[i + 1]
      BY <2>1
    <2> HIDE DEF Had, N
    <2>4. CASE s[i + 1] \in S
      BY <2>1, <2>2, <2>3, <2>4 DEF Take
    <2>5. CASE s[i + 1] \notin S
      <3>1. k[i + 1] = Append(k[i], s[i + 1])
        BY <2>2, <2>5 DEF Take
      <3>2. Append(k[i], s[i + 1]) \in Seq(D) /\ \A y : y \in ToSet(Append(k[i], s[i + 1])) <=> y \in ToSet(k[i]) \/ y = s[i + 1]
        BY <2>1, AppendHas
      <3> QED
        BY <2>1, <2>3, <2>5, <3>1, <3>2
    <2> QED
      BY <2>4, <2>5
  <1>5. Len(s) \in N
    <2>1. N \in SUBSET Nat
      OBVIOUS
    <2> HIDE DEF N
    <2> QED
      BY <1>1, <1>3, <1>4, <2>1, Induction
  <1>6. /\ k[Len(s)] \in Seq(D) /\ \A y : y \in ToSet(k[Len(s)]) <=> Had(Len(s), y) /\ y \notin S
    BY <1>1, <1>5
  <1>7. \A y : Had(Len(s), y) <=> y \in ToSet(s)
    BY DEF ToSet
  <1> QED
    BY <1>2, <1>6, <1>7

\* What _forget_old_finished drops is finished.
LEMMA KeptIsListed ==
    ASSUME cards \in Seq(Job)
    PROVE  Kept \in Seq(Job) /\ \A j \in Job : j \in ToSet(cards) /\ phase[j] # "finished" => j \in ToSet(Kept)
  <1> DEFINE others == {j \in Job : phase[j] # "finished"}
             finished == Without(cards, others)
             surplus == Len(finished) - KeepFinished + 1
             forgotten == IF surplus > 0 THEN ToSet(SubSeq(finished, 1, surplus)) ELSE {}
  <1>1. Kept = Without(cards, forgotten)
    BY DEF Kept
  <1>2. finished \in Seq(Job) /\ \A y : y \in ToSet(finished) <=> y \in ToSet(cards) /\ y \notin others
    <2> HIDE DEF others
    <2> QED
      BY WithoutKeeps
  <1>3. ASSUME NEW j \in Job, phase[j] # "finished"
        PROVE  j \notin forgotten
    <2>1. j \notin ToSet(finished)
      BY <1>2, <1>3
    <2> HIDE DEF finished
    <2>2. Len(finished) \in Nat /\ surplus \in Int /\ surplus <= Len(finished)
      BY <1>2, JobsAssumption
    <2>3. CASE surplus > 0
      <3> HIDE DEF surplus
      <3>1. \A i \in 1 .. surplus : SubSeq(finished, 1, surplus)[i] = finished[i] /\ i \in DOMAIN finished
        BY <1>2, <2>2, <2>3
      <3>2. DOMAIN SubSeq(finished, 1, surplus) = 1 .. surplus
        BY <1>2, <2>2, <2>3
      <3>3. \A y \in ToSet(SubSeq(finished, 1, surplus)) : y \in ToSet(finished)
        BY <3>1, <3>2 DEF ToSet
      <3> QED
        BY <2>1, <2>3, <3>3
    <2>4. CASE ~(surplus > 0)
      BY <2>4
    <2> QED
      BY <2>3, <2>4
  <1> HIDE DEF forgotten
  <1>4. Without(cards, forgotten) \in Seq(Job) /\ \A y : y \in ToSet(Without(cards, forgotten)) <=> y \in ToSet(cards) /\ y \notin forgotten
    BY WithoutKeeps
  <1> QED
    BY <1>1, <1>3, <1>4

-----------------------------------------------------------------------------
(* The list of jobs. *)

\* The list is a list of jobs, a job that has no slot yet reads queued, and a job at work is listed.
WorkInv ==
    /\ cards \in Seq(Job)
    /\ \A j \in Job : pc[j] \in {"none", "queued"} => phase[j] = "queued"
    /\ WorkIsListed

\* A step of a job that is listed while it works, and leaves the list as it is.
LEMMA ListStays ==
    ASSUME Typed, WorkInv, cards' = cards, pc' \in [Job -> {"none", "queued", "working", "reading", "stopping", "judging",
                                                   "reporting", "forgetting", "over", "gone"}],
           \A j \in Job : pc'[j] \in {"none", "queued"} => pc'[j] = pc[j] /\ phase'[j] = phase[j],
           \A j \in Job : pc'[j] \notin {"none", "over", "gone"} /\ phase'[j] # "finished"
                            => pc[j] \notin {"none", "over", "gone"} /\ phase[j] # "finished"
    PROVE  WorkInv'
  BY DEF WorkInv, WorkIsListed, Alive, ToSet, Typed

\* Every step keeps a job at work listed.
LEMMA WorkStep == Inv /\ WorkInv /\ [Next]_vars => WorkInv'
  <1> SUFFICES ASSUME Inv, WorkInv, [Next]_vars PROVE WorkInv'
    OBVIOUS
  <1>a. Typed /\ Typed'
    BY TypedStep DEF Inv
  <1> USE <1>a, ListStays DEF Typed, bootVars, grantVars
  <1>1. ASSUME NEW j \in Job, Start(j) PROVE WorkInv'
    <2>1. /\ cards \in Seq(Job) /\ pc' = [pc EXCEPT ![j] = "queued"] /\ phase' = phase /\ pc[j] = "none"
          /\ cards' = Append(Kept, j)
      BY <1>1 DEF Start, WorkInv
    <2>2. Kept \in Seq(Job) /\ \A s \in Job : s \in ToSet(cards) /\ phase[s] # "finished" => s \in ToSet(Kept)
      BY <2>1, KeptIsListed
    <2>3. cards' \in Seq(Job) /\ \A s : s \in ToSet(cards') <=> s \in ToSet(Kept) \/ s = j
      BY <2>1, <2>2, AppendHas
    <2>4. \A s \in Job : pc'[s] \in {"none", "queued"} => phase'[s] = "queued"
      BY <2>1 DEF WorkInv
    <2>5. ASSUME NEW s \in Job, pc'[s] \notin {"none", "over", "gone"}, phase'[s] # "finished"
          PROVE  s \in ToSet(cards')
      <3>1. CASE s = j
        BY <2>3, <3>1
      <3>2. CASE s # j
        <4>1. pc[s] \notin {"none", "over", "gone"} /\ phase[s] # "finished"
          BY <2>1, <2>5, <3>2
        <4>2. s \in ToSet(cards)
          BY <4>1 DEF WorkInv, WorkIsListed, Alive
        <4> QED
          BY <2>2, <2>3, <4>1, <4>2
      <3> QED
        BY <3>1, <3>2
    <2> QED
      BY <2>3, <2>4, <2>5, Zenon DEF WorkInv, WorkIsListed, Alive
  <1>2. ASSUME NEW j \in Job, GetSlot(j) PROVE WorkInv'
    BY <1>2 DEF GetSlot, WorkInv
  <1>3. ASSUME NEW j \in Job, CreateRow(j) PROVE WorkInv'
    BY <1>3 DEF CreateRow
  <1>4. ASSUME NEW j \in Job, AllowForTask(j) PROVE WorkInv'
    BY <1>4 DEF AllowForTask
  <1>5. ASSUME NEW j \in Job, GrantWritten(j) PROVE WorkInv'
    BY <1>5 DEF GrantWritten
  <1>6. ASSUME NEW j \in Job, TurnEnds(j) PROVE WorkInv'
    BY <1>6 DEF TurnEnds
  <1>7. ASSUME NEW j \in Job, CancelTask(j) PROVE WorkInv'
    BY <1>7 DEF CancelTask
  <1>8. ASSUME NEW j \in Job, ReadRow(j) PROVE WorkInv'
    BY <1>8 DEF ReadRow, ReadsFinished
  <1>9. ASSUME NEW j \in Job, ExecuteFails(j) PROVE WorkInv'
    BY <1>9 DEF ExecuteFails, ReadsFinished
  <1>10. ASSUME NEW j \in Job, Judge(j) PROVE WorkInv'
    BY <1>10 DEF Judge, ReadsFinished
  <1>11. ASSUME NEW j \in Job, StopOutside(j) PROVE WorkInv'
    BY <1>11 DEF StopOutside, ReadsFinished
  <1>12. ASSUME NEW j \in Job, StopChild(j) PROVE WorkInv'
    BY <1>12 DEF StopChild
  <1>13. ASSUME NEW j \in Job, StopAtCommit(j) PROVE WorkInv'
    BY <1>13 DEF StopAtCommit
  <1>14. ASSUME NEW j \in Job, StopConsumed(j) PROVE WorkInv'
    BY <1>14 DEF StopConsumed
  <1>15. ASSUME NEW j \in Job, RecordCancel(j) PROVE WorkInv'
    BY <1>15 DEF RecordCancel
  <1>16. ASSUME NEW j \in Job, ChildStopped(j) PROVE WorkInv'
    BY <1>16 DEF ChildStopped, ReadsFinished
  <1>17. ASSUME NEW j \in Job, StopAgain(j) PROVE WorkInv'
    BY <1>17 DEF StopAgain, ReadsFinished
  <1>18. ASSUME NEW j \in Job, StopJudging(j) PROVE WorkInv'
    BY <1>18 DEF StopJudging
  <1>19. ASSUME NEW j \in Job, Report(j) PROVE WorkInv'
    BY <1>19 DEF Report
  <1>20. ASSUME NEW j \in Job, ForgetTask(j) PROVE WorkInv'
    BY <1>20 DEF ForgetTask
  <1>21. ASSUME NEW j \in Job, CloseInterrupted(j) PROVE WorkInv'
    BY <1>21 DEF CloseInterrupted
  <1>22. CASE Crash
    <2>1. cards' \in Seq(Job) /\ \A j \in Job : pc'[j] \in {"none", "gone"} /\ phase'[j] = "queued"
      BY <1>22 DEF Crash
    <2> QED
      BY <2>1 DEF WorkInv, WorkIsListed, Alive
  <1>23. CASE Boot
    BY <1>23 DEF Boot
  <1>24. CASE DropGrants
    BY <1>24 DEF DropGrants
  <1>25. CASE Recover
    BY <1>25 DEF Recover
  <1>26. CASE TellInterrupted
    BY <1>26 DEF TellInterrupted
  <1>27. CASE BootEnds
    BY <1>27 DEF BootEnds
  <1>28. CASE UNCHANGED vars
    BY <1>28 DEF vars
  <1> QED
    BY <1>1, <1>2, <1>3, <1>4, <1>5, <1>6, <1>7, <1>8, <1>9, <1>10, <1>11, <1>12, <1>13,
       <1>14, <1>15, <1>16, <1>17, <1>18, <1>19, <1>20, <1>21, <1>22, <1>23, <1>24, <1>25,
       <1>26, <1>27, <1>28 DEF Next

\* A job at work is always in the list stop() looks in, however many finished ones
\* _forget_old_finished drops.
THEOREM WorkStaysListed == Spec => []WorkIsListed
  <1>1. Init => WorkInv
    <2> SUFFICES ASSUME Init PROVE WorkInv
      OBVIOUS
    <2>1. cards \in Seq(Job) /\ \A j \in Job : pc[j] = "none" /\ phase[j] = "queued"
      BY DEF Init
    <2> QED
      BY <2>1 DEF WorkInv, WorkIsListed, Alive
  <1>2. WorkInv => WorkIsListed
    BY DEF WorkInv
  <1> QED
    BY <1>1, <1>2, WorkStep, InvAlways, PTL DEF Spec
=============================================================================
