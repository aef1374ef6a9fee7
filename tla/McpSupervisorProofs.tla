-------------------------- MODULE McpSupervisorProofs --------------------------
(***************************************************************************)
(* The supervisor of an MCP server (server/mcp/supervisor.py), for every   *)
(* number of plans, verbs, attempts and events: one plan is in flight, and *)
(* once everything has settled no process runs for a server that is off,   *)
(* deleted or stopped.                                                     *)
(***************************************************************************)
EXTENDS McpSupervisor, FiniteSetTheorems, TLAPS

-----------------------------------------------------------------------------
(* The inductive invariant. *)

PlanShape == [pc : Pcs, kind : {"first", "once", "restart"}, result : States,
              over : {"no", "before", "during"}, stopping : BOOLEAN, tries : Int]
Plans == [Plan -> PlanShape]
Verbs == [Verb -> [pc : {"idle", "begin", "wait", "check", "set", "setting"},
                   kind : {"none", "off", "on", "forget", "giveUp"},
                   waits : Plan \union {Nobody}, running : BOOLEAN]]

Shape == plan \in Plans /\ verb \in Verbs /\ session \in BOOLEAN /\ inflight \in Plan \union {Nobody}

Going(p) == plan[p].pc # "idle" /\ ~plan[p].stopping

\* A plan nobody cancelled is the one in flight.
InFlight == \A p \in Plan : Going(p) => inflight = p

\* Only the supervisor gives up, and only a switched-on server is looked at again.
VerbKinds ==
    \A v \in Verb : /\ verb[v].kind = "giveUp" => v = GiveUp
                    /\ verb[v].pc = "check" => verb[v].kind = "on"

\* Whoever is inside _set holds its lock.
Locked ==
    /\ \A p \in Plan : plan[p].pc \in {"marking", "settling"} => setLock = p
    /\ \A v \in Verb : verb[v].pc = "setting" => setLock = v

\* A current plan past its mark finds its `starting` in the row, and nobody inside _set.
MarkStands ==
    \A p \in Plan : Going(p) /\ cur = p /\ plan[p].pc \in {"open", "opening", "listing"} /\ exists
        => state = "starting" /\ setLock = Nobody

\* A current plan that found the server switched off has dropped the session.
OffIsClean ==
    \A p \in Plan : Going(p) /\ cur = p /\ plan[p].pc = "settle" /\ plan[p].result = "off" /\ exists => ~session

\* A stop nothing has overtaken leaves no plan in flight, and has dropped the session
\* before it writes.
StopIsClean ==
    \A v \in Verb : verb[v].kind = "off" /\ verb[v].pc \in {"wait", "set"} /\ cur = v
        => inflight = Nobody /\ (verb[v].pc = "set" => ~session)

\* w is about to write `off`.
WritesOff(w) ==
    \/ w \in Plan /\ plan[w].pc = "settling" /\ plan[w].result = "off"
    \/ w \in Verb /\ verb[w].pc = "setting" /\ verb[w].kind = "off"

\* Whoever is about to write `off`: no session is there, and no plan can open one before
\* the write, for it has to mark `starting` first.
OffIsTrue ==
    exists /\ (\E w \in Someone : WritesOff(w))
        => ~session /\ \A q \in Plan : Going(q) => plan[q].pc \notin {"marking", "open", "opening", "listing"}

\* A session under an `off` is being listed: the listing will drop it.
OffIsListed == exists /\ state = "off" /\ session => \E p \in Plan : plan[p].pc = "listing"

Forgetting == \E v \in Verb : verb[v].kind = "forget" /\ verb[v].pc \in {"begin", "wait"}

\* A deleted server's verb is still to drop the session, or none is left or can be cached.
ForgottenIsGone ==
    ~exists => Forgetting \/ (~session /\ \A p \in Plan : plan[p].pc = "opening" => plan[p].over = "during")

Stopping(pc) == \E v \in Verb : verb[v].kind = "off" /\ verb[v].pc = pc

\* A plan that will not open a session for a switched-off server.
Harmless(p) ==
    \/ plan[p].stopping
    \/ plan[p].pc \in {"idle", "settle", "settling", "ending"}
    \/ plan[p].pc \in {"queued", "read", "sleep"} /\ plan[p].kind # "restart"

\* A server switched off: its stop is still to begin, or no plan can open a session any
\* more and the one there is waits for the stop to drop it.
StoppedIsGone ==
    exists /\ ~allowed /\ stopped
        => Stopping("begin") \/ ((\A p \in Plan : Harmless(p)) /\ (session => Stopping("wait")))

OffInv ==
    /\ Shape /\ InFlight /\ VerbKinds /\ Locked
    /\ MarkStands /\ OffIsClean /\ StopIsClean /\ OffIsTrue /\ OffIsListed
    /\ ForgottenIsGone /\ StoppedIsGone

-----------------------------------------------------------------------------
(* What the shared pieces leave alone. *)

\* Plans and verbs have different names, and Nobody is neither.
LEMMA Ids ==
    /\ Nobody \notin Someone /\ GiveUp \in Verb /\ GiveUp \notin UserVerb
    /\ \A p \in Plan, v \in Verb : p # v
  BY SupervisorAssumption DEF Nobody, Someone, Plan, Verb, UserVerb, GiveUp

\* A free slot is a plan.
LEMMA NoPlanShape == NoPlan \in PlanShape
  BY DEF NoPlan, PlanShape, Pcs, States

\* A step that leaves a plan where it was, its session apart.
Keeps(q) ==
    /\ plan'[q].pc = plan[q].pc /\ plan'[q].stopping = plan[q].stopping
    /\ plan'[q].kind = plan[q].kind /\ plan'[q].result = plan[q].result
    /\ plan[q].pc = "opening" => plan'[q].over \in {plan[q].over, "during"}

\* The plans as a drop of the session leaves them.
AsBefore(pl, new) ==
    /\ new \in Plans
    /\ \A q \in Plan : /\ new[q].pc = pl[q].pc /\ new[q].stopping = pl[q].stopping
                       /\ new[q].kind = pl[q].kind /\ new[q].result = pl[q].result
                       /\ pl[q].pc = "opening" => new[q].over = "during"

\* A drop of the session leaves every plan where it was, and no open under way caches.
LEMMA OvertakenKeeps ==
    ASSUME NEW pl \in Plans
    PROVE  AsBefore(pl, Overtaken(pl))
  <1>1. \A q \in Plan : Overtaken(pl)[q] = CASE pl[q].pc = "open" -> [pl[q] EXCEPT !.over = "before"]
                      [] pl[q].pc \in {"opening", "listing"} -> [pl[q] EXCEPT !.over = "during"]
                      [] OTHER -> pl[q]
    BY DEF Overtaken
  <1>2. Overtaken(pl) \in Plans
    BY DEF Overtaken, Plans, PlanShape
  <1>3. ASSUME NEW q \in Plan
        PROVE  /\ Overtaken(pl)[q].pc = pl[q].pc /\ Overtaken(pl)[q].stopping = pl[q].stopping
               /\ Overtaken(pl)[q].kind = pl[q].kind /\ Overtaken(pl)[q].result = pl[q].result
               /\ pl[q].pc = "opening" => Overtaken(pl)[q].over = "during"
    BY <1>1 DEF Plans, PlanShape
  <1> QED
    BY <1>2, <1>3 DEF AsBefore

\* Nothing but a drop of the session happens to the plans, and nothing to the verbs.
LEMMA StillStep ==
    ASSUME OffInv, plan' \in Plans, \A q \in Plan : Keeps(q), session' \in BOOLEAN, session' => session,
           UNCHANGED <<verb, inflight, cur, setLock, exists, allowed, state>>, stopped' => stopped
    PROVE  OffInv'
  <1> USE DEF OffInv
  <1>1. Shape' /\ InFlight' /\ VerbKinds' /\ Locked'
    BY DEF Shape, InFlight, VerbKinds, Locked, Keeps, Going
  <1>2. MarkStands' /\ OffIsClean' /\ StopIsClean'
    BY DEF MarkStands, OffIsClean, StopIsClean, Keeps, Going
  <1>3. OffIsTrue'
    BY DEF OffIsTrue, WritesOff, Keeps, Going, Someone
  <1>4. OffIsListed'
    BY DEF OffIsListed, Keeps
  <1>5. ForgottenIsGone'
    BY DEF ForgottenIsGone, Forgetting, Keeps
  <1>6. StoppedIsGone'
    BY DEF StoppedIsGone, Stopping, Harmless, Keeps
  <1> QED
    BY <1>1, <1>2, <1>3, <1>4, <1>5, <1>6

-----------------------------------------------------------------------------
(* A step of the plan in flight. *)

Past == {"marking", "open", "opening", "listing"}

\* What the plan in flight does to the rest of the server.
Moves(p) ==
    /\ plan' \in Plans /\ \A q \in Plan \ {p} : Keeps(q)
    /\ ~plan'[p].stopping /\ inflight' \in {inflight, Nobody} /\ (plan'[p].pc # "idle" => inflight' = inflight)
    /\ UNCHANGED <<verb, cur, exists, allowed, stopped>>
    /\ session' \in BOOLEAN /\ (session' => session \/ (plan[p].pc = "opening" /\ plan[p].over # "during"))
    /\ \/ setLock' = setLock
       \/ setLock = Nobody /\ setLock' = p
       \/ setLock = p /\ setLock' = Nobody
    /\ state' = state \/ setLock = p

\* What the plan in flight itself has to keep true.
KeepsItsOwn(p) ==
    /\ plan'[p].pc \in {"marking", "settling"} => setLock' = p
    /\ cur = p /\ plan'[p].pc \in {"open", "opening", "listing"} /\ exists => state' = "starting" /\ setLock' = Nobody
    /\ exists /\ plan'[p].result = "off" /\ ((plan'[p].pc = "settle" /\ cur = p) \/ plan'[p].pc = "settling")
          => ~session'
    /\ plan'[p].pc \in Past => setLock \in {Nobody, p} \/ plan[p].pc \in Past
    /\ exists /\ state' = "off" /\ session' => plan'[p].pc = "listing" \/ (state = "off" /\ session /\ plan[p].pc # "listing")
    /\ plan'[p].pc = "opening" => exists
    /\ ~allowed /\ exists /\ Harmless(p) => Harmless(p)'

\* A step of the plan in flight keeps the invariant if it keeps its own part of it: every
\* other plan is cancelled.
LEMMA MoveStep ==
    ASSUME OffInv, NEW p \in Plan, Going(p), Moves(p), KeepsItsOwn(p)
    PROVE  OffInv'
  <1> USE DEF OffInv
  <1>1. inflight = p /\ \A q \in Plan \ {p} : ~Going(q) /\ ~Going(q)'
    BY DEF InFlight, Going, Moves, Keeps
  <1>2. Shape' /\ InFlight' /\ VerbKinds'
    BY <1>1 DEF Shape, InFlight, VerbKinds, Moves, Going
  <1>3. Locked'
    BY Ids DEF Locked, Moves, KeepsItsOwn, Keeps, Someone
  <1>4. MarkStands' /\ OffIsClean'
    BY <1>1 DEF MarkStands, OffIsClean, Moves, KeepsItsOwn
  <1>5. StopIsClean'
    BY <1>1, Ids DEF StopIsClean, Moves, Someone
  <1>6. OffIsTrue'
    <2>1. ASSUME NEW w \in Someone, WritesOff(w)', exists
          PROVE  ~session' /\ plan'[p].pc \notin Past
      <3>1. CASE w = p
        BY <2>1, <3>1, Ids DEF WritesOff, KeepsItsOwn, Moves, Past
      <3>2. CASE w # p
        <4>1. WritesOff(w)
          BY <2>1, <3>2 DEF WritesOff, Moves, Keeps
        <4>2. setLock = w
          BY <4>1 DEF WritesOff, Locked
        <4>3. ~session /\ plan[p].pc \notin Past
          BY <2>1, <4>1 DEF OffIsTrue, Past
        <4> QED
          BY <2>1, <3>2, <4>2, <4>3, Ids DEF Moves, KeepsItsOwn, Past, Someone
      <3> QED
        BY <3>1, <3>2
    <2> QED
      BY <1>1, <2>1 DEF OffIsTrue, Moves, Past
  <1>7. OffIsListed'
    BY DEF OffIsListed, Moves, KeepsItsOwn, Keeps
  <1>8. ForgottenIsGone'
    BY DEF ForgottenIsGone, Forgetting, Moves, KeepsItsOwn, Keeps
  <1>9. StoppedIsGone'
    BY DEF StoppedIsGone, Stopping, Harmless, Moves, KeepsItsOwn, Keeps, Going
  <1> QED
    BY <1>2, <1>3, <1>4, <1>5, <1>6, <1>7, <1>8, <1>9

\* The plans when p's attempt has ended with r.
Answered(p, r) == [plan EXCEPT ![p].pc = "settle", ![p].result = r]

\* The attempt of the plan in flight has an answer; the session may have been dropped with it.
LEMMA AnswerStep ==
    ASSUME OffInv, NEW p \in Plan, NEW r \in States, Going(p),
           plan[p].pc # "queued" /\ plan[p].pc # "sleep",
           plan' = Answered(p, r) \/ plan' = Overtaken(Answered(p, r)),
           session' \in BOOLEAN, session' => session,
           r = "off" /\ exists => cur # p \/ ~session',
           plan[p].pc = "listing" /\ cur # p => ~session',
           UNCHANGED <<verb, inflight, cur, exists, allowed, stopped, setLock, state>>
    PROVE  OffInv'
  <1> USE DEF OffInv
  <1>1. /\ Answered(p, r) \in Plans /\ Answered(p, r)[p].pc = "settle" /\ Answered(p, r)[p].result = r
        /\ ~Answered(p, r)[p].stopping
        /\ \A q \in Plan \ {p} : Answered(p, r)[q] = plan[q]
    BY DEF Answered, Shape, Plans, PlanShape, Pcs, Going
  <1>2. AsBefore(Answered(p, r), Overtaken(Answered(p, r)))
    BY <1>1, OvertakenKeeps
  <1>3. plan' \in Plans /\ plan'[p].pc = "settle" /\ plan'[p].result = r /\ ~plan'[p].stopping
    BY <1>1, <1>2 DEF AsBefore
  <1>4. \A q \in Plan \ {p} : Keeps(q)
    BY <1>1, <1>2 DEF AsBefore, Keeps
  <1>5. Moves(p)
    BY <1>3, <1>4 DEF Moves
  <1>6. exists /\ state = "off" /\ session' => plan[p].pc # "listing"
    BY DEF MarkStands, Going
  <1>7. KeepsItsOwn(p)
    BY <1>3, <1>6 DEF KeepsItsOwn, Past, Harmless
  <1> QED
    BY <1>5, <1>7, MoveStep

\* The plan in flight reads the row: it goes on, or its attempt has ended.
LEMMA ReadStep ==
    ASSUME OffInv, NEW p \in Plan, ReadRow(p)
    PROVE  OffInv'
  <1> USE DEF OffInv
  <1>1. /\ Going(p) /\ plan[p].pc = "read"
        /\ UNCHANGED <<verb, inflight, cur, exists, allowed, stopped, setLock, state>>
    BY DEF ReadRow, At, Going, rowVars, supVars, ghostVars
  <1>2. \/ /\ exists /\ (allowed \/ plan[p].kind = "restart")
           /\ plan' = [plan EXCEPT ![p].pc = "mark"] /\ session' = session
        \/ plan' = Overtaken(Answered(p, "off")) /\ session' = FALSE
        \/ (~exists \/ cur # p) /\ plan' = Answered(p, "off") /\ session' = session
    BY DEF ReadRow, Answered, Go
  <1>3. CASE /\ exists /\ (allowed \/ plan[p].kind = "restart")
             /\ plan' = [plan EXCEPT ![p].pc = "mark"] /\ session' = session
    <2>1. Moves(p)
      BY <1>1, <1>3 DEF Moves, Keeps, Plans, PlanShape, Pcs, Going, Shape
    <2>2. KeepsItsOwn(p)
      BY <1>1, <1>3 DEF KeepsItsOwn, Plans, PlanShape, Past, Harmless, Going, Shape
    <2> QED
      BY <1>1, <2>1, <2>2, MoveStep
  <1>4. CASE plan' = Overtaken(Answered(p, "off")) /\ session' = FALSE
    BY <1>1, <1>4, AnswerStep DEF States
  <1>5. CASE (~exists \/ cur # p) /\ plan' = Answered(p, "off") /\ session' = session
    BY <1>1, <1>5, AnswerStep DEF States, Shape
  <1> QED
    BY <1>2, <1>3, <1>4, <1>5

\* The session is dropped for a fresh process, and the plan in flight opens one.
LEMMA FreshStep ==
    ASSUME OffInv, NEW p \in Plan, Going(p), plan[p].pc \in {"mark", "marking"}, Fresh(p), setLock' = Nobody,
           \/ cur # p /\ setLock = Nobody /\ state' = state
           \/ plan[p].pc = "marking" /\ Write("starting"),
           UNCHANGED <<verb, inflight, cur, exists, allowed, stopped>>
    PROVE  OffInv'
  <1> USE DEF OffInv
  <1>1. AsBefore(plan, Overtaken(plan))
    BY OvertakenKeeps DEF Shape
  <1> DEFINE pl == Overtaken(plan)
  <1>2. pl \in Plans /\ pl[p].stopping = plan[p].stopping /\ pl[p].kind = plan[p].kind
    BY <1>1 DEF AsBefore
  <1> HIDE DEF pl
  <1>3. plan' = [pl EXCEPT ![p].pc = "open", ![p].over = "no"] /\ session' = FALSE
    BY DEF Fresh, pl
  <1>4. plan' \in Plans /\ plan'[p].pc = "open" /\ plan'[p].stopping = plan[p].stopping
    <2>1. plan'[p] = [pl[p] EXCEPT !.pc = "open", !.over = "no"]
      BY <1>2, <1>3 DEF Plans, PlanShape
    <2>2. plan' \in Plans
      <3> DEFINE first == [pl EXCEPT ![p].pc = "open"]
      <3>1. first \in Plans
        BY <1>2 DEF Plans, PlanShape, Pcs
      <3>2. plan' = [first EXCEPT ![p].over = "no"]
        BY <1>2, <1>3 DEF Plans, PlanShape
      <3> HIDE DEF first
      <3> QED
        BY <3>1, <3>2 DEF Plans, PlanShape
    <2>3. plan'[p].pc = "open"
      BY <1>2, <2>1 DEF Plans, PlanShape
    <2>4. plan'[p].stopping = pl[p].stopping
      BY <1>2, <2>1 DEF Plans, PlanShape
    <2> QED
      BY <1>2, <2>2, <2>3, <2>4
  <1>5. \A q \in Plan \ {p} : plan'[q] = pl[q]
    BY <1>2, <1>3 DEF Plans, PlanShape
  <1>6. \A q \in Plan \ {p} : Keeps(q)
    BY <1>1, <1>5 DEF Keeps, AsBefore, pl
  <1>7. setLock = Nobody \/ setLock = p
    BY DEF Locked
  <1>8. Moves(p)
    BY <1>3, <1>4, <1>6, <1>7 DEF Moves, Going, Locked
  <1>9. ~Harmless(p)
    BY DEF Harmless, Going
  <1>10. KeepsItsOwn(p)
    BY <1>3, <1>4, <1>7, <1>9 DEF KeepsItsOwn, Past, Write
  <1> QED
    BY <1>8, <1>10, MoveStep

\* The plan in flight comes to another place, and nothing else happens.
LEMMA GoStep ==
    ASSUME OffInv, NEW p \in Plan, NEW pc \in Pcs, Going(p), plan' = [plan EXCEPT ![p].pc = pc],
           UNCHANGED <<verb, inflight, cur, exists, allowed, stopped, session>>,
           \/ /\ UNCHANGED <<setLock, state>>
              /\ \/ pc = "read" /\ plan[p].pc = "queued"
                 \/ pc = "sleep" /\ plan[p].pc = "settle" /\ plan[p].kind = "first"
                 \/ pc = "opening" /\ plan[p].pc = "open" /\ exists
           \/ /\ setLock = Nobody /\ setLock' = p /\ cur = p /\ state' = state
              /\ \/ pc = "marking" /\ plan[p].pc = "mark"
                 \/ pc = "settling" /\ plan[p].pc = "settle"
           \/ /\ setLock = p /\ setLock' = Nobody /\ state' \in {state, "starting"}
              /\ pc = "sleep" /\ plan[p].pc = "settling" /\ plan[p].kind = "first"
    PROVE  OffInv'
  <1> USE DEF OffInv
  <1>1. /\ plan' \in Plans /\ plan'[p].pc = pc /\ plan'[p].result = plan[p].result /\ ~plan'[p].stopping
        /\ plan'[p].kind = plan[p].kind /\ \A q \in Plan \ {p} : plan'[q] = plan[q]
    BY DEF Shape, Plans, PlanShape, Going
  <1>2. Moves(p)
    BY <1>1 DEF Moves, Keeps, Shape
  <1>3. exists /\ plan[p].pc = "settle" /\ plan[p].result = "off" /\ cur = p => ~session
    BY DEF OffIsClean
  <1>4. plan[p].pc = "open" /\ cur = p /\ exists => state = "starting" /\ setLock = Nobody
    BY DEF MarkStands
  <1>5. KeepsItsOwn(p)
    BY <1>1, <1>3, <1>4 DEF KeepsItsOwn, Past, Harmless
  <1> QED
    BY <1>2, <1>5, MoveStep

\* The plan in flight ends.
LEMMA EndStep ==
    ASSUME OffInv, NEW p \in Plan, Going(p), plan' = [plan EXCEPT ![p] = NoPlan],
           UNCHANGED <<verb, cur, exists, allowed, stopped, session>>,
           plan[p].pc # "listing", inflight' \in {inflight, Nobody},
           \/ setLock' = setLock /\ state' = state
           \/ setLock = p /\ setLock' = Nobody /\ (state' = state \/ (state' = "off" => ~session))
    PROVE  OffInv'
  <1> USE DEF OffInv
  <1>1. plan' \in Plans /\ plan'[p] = NoPlan /\ \A q \in Plan \ {p} : plan'[q] = plan[q]
    BY NoPlanShape DEF Shape, Plans
  <1>2. plan'[p].pc = "idle" /\ ~plan'[p].stopping
    BY <1>1 DEF NoPlan
  <1>3. Moves(p)
    BY <1>1, <1>2 DEF Moves, Keeps, Shape
  <1>4. KeepsItsOwn(p)
    BY <1>2 DEF KeepsItsOwn, Past, Harmless
  <1> QED
    BY <1>3, <1>4, MoveStep

\* Opening a session, and listing its tools.
LEMMA OpenSteps ==
    ASSUME OffInv, NEW p \in Plan,
           OpenBegin(p) \/ OpenOk(p) \/ ListOk(p) \/ \E r \in Failures : OpenFails(p, r) \/ ListFails(p, r)
    PROVE  OffInv'
  <1> USE DEF OffInv
  <1>1. /\ Going(p) /\ plan[p].pc \in {"open", "opening", "listing"}
        /\ UNCHANGED <<verb, inflight, cur, exists, allowed, stopped, setLock, state>>
    BY DEF OpenBegin, OpenOk, ListOk, OpenFails, ListFails, At, Going, rowVars, supVars, ghostVars
  <1>2. Failures \subseteq States /\ {"off", "starting", "ready", "parked", "failed"} \subseteq States
        /\ "off" \notin Failures
    BY DEF States, Failures
  <1>3. inflight = p
    BY <1>1 DEF InFlight
  <1>4. CASE OpenBegin(p)
    <2>1. CASE ~exists /\ session' = FALSE /\ plan' = Overtaken(Answered(p, "off"))
      BY <1>1, <1>2, <2>1, AnswerStep
    <2>2. CASE plan' = Answered(p, "parked") /\ session' = session
      BY <1>1, <1>2, <1>4, <2>2, AnswerStep DEF Shape, OpenBegin, At
    <2>3. CASE exists /\ plan' = [plan EXCEPT ![p].pc = "opening"] /\ session' = session
      BY <1>1, <1>4, <2>3, GoStep DEF OpenBegin, At, Pcs
    <2> QED
      BY <1>4, <2>1, <2>2, <2>3 DEF OpenBegin, Answered, Gives, Go
  <1>5. CASE OpenOk(p)
    <2>1. CASE MayCache(p) /\ session' = TRUE /\ plan' = [plan EXCEPT ![p].pc = "listing"]
      <3>1. plan[p].pc = "opening" /\ plan[p].over # "during"
        BY <1>5, <2>1 DEF OpenOk, At, MayCache
      <3>2. /\ plan' \in Plans /\ plan'[p].pc = "listing" /\ ~plan'[p].stopping
            /\ \A q \in Plan \ {p} : plan'[q] = plan[q]
        BY <1>1, <2>1 DEF Shape, Plans, PlanShape, Going, Pcs
      <3>3. Moves(p)
        BY <1>1, <2>1, <3>1, <3>2 DEF Moves, Keeps
      <3>4. cur = p /\ exists => state = "starting" /\ setLock = Nobody
        BY <1>1, <3>1 DEF MarkStands
      <3>5. ~Harmless(p)
        BY <1>1, <3>1 DEF Harmless, Going
      <3>6. KeepsItsOwn(p)
        BY <1>1, <3>1, <3>2, <3>4, <3>5 DEF KeepsItsOwn, Past
      <3> QED
        BY <1>1, <3>3, <3>6, MoveStep
    <2>2. CASE plan' = Answered(p, "starting") /\ session' = session
      BY <1>1, <1>2, <1>5, <2>2, AnswerStep DEF Shape, OpenOk, At
    <2> QED
      BY <1>5, <2>1, <2>2 DEF OpenOk, Answered, Gives, Go
  <1>6. CASE ListOk(p)
    <2>1. CASE session' = FALSE /\ plan' = Overtaken(Answered(p, "starting"))
      BY <1>1, <1>2, <2>1, AnswerStep
    <2>2. CASE cur = p /\ session' = session /\ plan' = Answered(p, "ready")
      BY <1>1, <1>2, <2>2, AnswerStep DEF Shape
    <2>3. CASE cur = p /\ session' = session /\ plan' = Answered(p, "failed")
      BY <1>1, <1>2, <2>3, AnswerStep DEF Shape
    <2> QED
      BY <1>3, <1>6, <2>1, <2>2, <2>3 DEF ListOk, Answered
  <1>7. ASSUME NEW r \in Failures, OpenFails(p, r) PROVE OffInv'
    BY <1>1, <1>2, <1>7, AnswerStep DEF OpenFails, Answered, Gives, At, Shape
  <1>8. ASSUME NEW r \in Failures, ListFails(p, r) PROVE OffInv'
    BY <1>1, <1>2, <1>8, AnswerStep DEF ListFails, Answered
  <1> QED
    BY <1>4, <1>5, <1>6, <1>7, <1>8

\* A plan that has slept queues again.
LEMMA WokenShape ==
    ASSUME NEW x \in PlanShape
    PROVE  LET woken == [x EXCEPT !.pc = "queued", !.tries = @ + 1]
           IN  /\ woken \in PlanShape /\ woken.pc = "queued" /\ woken.kind = x.kind
               /\ woken.stopping = x.stopping
  <1> DEFINE queued == [x EXCEPT !.pc = "queued"]
  <1>1. queued \in PlanShape /\ queued.pc = "queued" /\ queued.kind = x.kind /\ queued.stopping = x.stopping
    BY DEF PlanShape, Pcs
  <1>2. [x EXCEPT !.pc = "queued", !.tries = @ + 1] = [queued EXCEPT !.tries = queued.tries + 1]
    BY DEF PlanShape
  <1> HIDE DEF queued
  <1>3. [queued EXCEPT !.tries = queued.tries + 1] \in PlanShape
    BY <1>1 DEF PlanShape
  <1>4. /\ [queued EXCEPT !.tries = queued.tries + 1].pc = queued.pc
        /\ [queued EXCEPT !.tries = queued.tries + 1].kind = queued.kind
        /\ [queued EXCEPT !.tries = queued.tries + 1].stopping = queued.stopping
    BY <1>1 DEF PlanShape
  <1> QED
    BY <1>1, <1>2, <1>3, <1>4

\* Settling: the plan in flight writes its answer, sleeps before it tries again, or ends.
LEMMA SettleSteps ==
    ASSUME OffInv, NEW p \in Plan,
           GetSlot(p) \/ MarkEnter(p) \/ MarkCommit(p) \/ SettleEnter(p) \/ SettleCommit(p) \/ SleepOver(p) \/ WriteFails(p)
    PROVE  OffInv'
  <1> USE DEF OffInv
  <1>1. /\ Going(p) /\ UNCHANGED <<verb, cur, exists, allowed, stopped>>
        /\ plan[p].pc \in {"queued", "mark", "marking", "settle", "settling", "sleep"}
    BY DEF GetSlot, MarkEnter, MarkCommit, SettleEnter, SettleCommit, SleepOver, WriteFails, At, Going,
           rowVars, supVars, ghostVars
  <1>2. CASE GetSlot(p)
    BY <1>1, <1>2, GoStep DEF GetSlot, At, Go, Pcs, rowVars, supVars, sessionVars
  <1>3. CASE MarkEnter(p)
    <2>1. plan[p].pc = "mark" /\ UNCHANGED <<inflight, state>> /\ setLock = Nobody
      BY <1>3 DEF MarkEnter, At, rowVars
    <2>2. CASE cur = p /\ setLock' = p /\ plan' = [plan EXCEPT ![p].pc = "marking"] /\ session' = session
      BY <1>1, <2>1, <2>2, GoStep DEF Pcs
    <2>3. CASE cur # p /\ setLock' = setLock /\ Fresh(p)
      BY <1>1, <2>1, <2>3, FreshStep
    <2> QED
      BY <1>3, <2>2, <2>3 DEF MarkEnter, Go
  <1>4. CASE MarkCommit(p)
    BY <1>1, <1>4, FreshStep DEF MarkCommit, At
  <1>5. CASE SettleEnter(p)
    <2>1. plan[p].pc = "settle" /\ UNCHANGED <<state, session>>
      BY <1>5 DEF SettleEnter, At, rowVars, sessionVars
    <2>2. CASE setLock = Nobody /\ cur = p /\ setLock' = p /\ plan' = [plan EXCEPT ![p].pc = "settling"] /\ inflight' = inflight
      BY <1>1, <2>1, <2>2, GoStep DEF Pcs
    <2>3. CASE AfterAttempt(p) /\ setLock' = setLock
      <3>1. CASE plan[p].kind = "first" /\ plan' = [plan EXCEPT ![p].pc = "sleep"] /\ inflight' = inflight
        BY <1>1, <2>1, <2>3, <3>1, GoStep DEF Pcs
      <3>2. CASE plan' = [plan EXCEPT ![p] = NoPlan] /\ Ended(p)
        BY <1>1, <2>1, <2>3, <3>2, EndStep DEF Ended
      <3> QED
        BY <2>3, <3>1, <3>2 DEF AfterAttempt, Again, Go
    <2> QED
      BY <1>5, <2>2, <2>3 DEF SettleEnter, MayWrite, Go
  <1>6. CASE SettleCommit(p)
    <2>1. /\ plan[p].pc = "settling" /\ session' = session /\ setLock = p /\ setLock' = Nobody
          /\ Write(Settled(p)) /\ AfterAttempt(p)
      BY <1>6 DEF SettleCommit, At, sessionVars, Locked
    <2>2. exists /\ plan[p].result = "off" => ~session
      BY <2>1 DEF OffIsTrue, WritesOff, Someone
    <2>3. CASE Again(p)
      <3>1. /\ plan' = [plan EXCEPT ![p].pc = "sleep"] /\ inflight' = inflight /\ plan[p].kind = "first"
            /\ state' \in {state, "starting"}
        BY <2>1, <2>3 DEF AfterAttempt, Again, Go, Write, Settled
      <3> QED
        BY <1>1, <2>1, <3>1, GoStep DEF Pcs
    <2>4. CASE ~Again(p)
      <3>1. plan' = [plan EXCEPT ![p] = NoPlan] /\ Ended(p) /\ (state' = state \/ (exists /\ state' = plan[p].result))
        BY <2>1, <2>4 DEF AfterAttempt, Write, Settled
      <3> QED
        BY <1>1, <2>1, <2>2, <3>1, EndStep DEF Ended
    <2> QED
      BY <2>3, <2>4
  <1>7. CASE SleepOver(p)
    <2>1. /\ plan[p].pc = "sleep" /\ UNCHANGED <<inflight, setLock, state, session>>
          /\ plan' = [plan EXCEPT ![p].pc = "queued", ![p].tries = @ + 1]
      BY <1>7 DEF SleepOver, At, rowVars, sessionVars
    <2>2. /\ plan' \in Plans /\ plan'[p].pc = "queued" /\ ~plan'[p].stopping
          /\ plan'[p].kind = plan[p].kind /\ \A q \in Plan \ {p} : plan'[q] = plan[q]
      <3> DEFINE woken == [plan[p] EXCEPT !.pc = "queued", !.tries = @ + 1]
      <3>1. plan' = [plan EXCEPT ![p] = woken] /\ plan[p] \in PlanShape
        BY <2>1 DEF Shape, Plans
      <3>2. /\ woken \in PlanShape /\ woken.pc = "queued" /\ woken.kind = plan[p].kind
            /\ woken.stopping = plan[p].stopping
        BY <3>1, WokenShape
      <3> HIDE DEF woken
      <3> QED
        BY <1>1, <3>1, <3>2 DEF Shape, Plans, Going
    <2>3. Moves(p)
      BY <1>1, <2>1, <2>2 DEF Moves, Keeps, Shape
    <2>4. KeepsItsOwn(p)
      BY <1>1, <2>1, <2>2 DEF KeepsItsOwn, Past, Harmless, Going
    <2> QED
      BY <1>1, <2>3, <2>4, MoveStep
  <1>8. CASE WriteFails(p)
    <2>1. /\ plan[p].pc # "listing" /\ setLock = p /\ setLock' = Nobody /\ UNCHANGED <<state, session>>
          /\ plan' = [plan EXCEPT ![p] = NoPlan] /\ Ended(p)
      BY <1>8 DEF WriteFails, rowVars, sessionVars, Locked
    <2> QED
      BY <1>1, <2>1, EndStep DEF Ended
  <1> QED
    BY <1>2, <1>3, <1>4, <1>5, <1>6, <1>7, <1>8

-----------------------------------------------------------------------------
(* A plan that was cancelled, and one that is new. *)

\* A cancelled plan ends.
LEMMA UnwindStep ==
    ASSUME OffInv, NEW p \in Plan, Unwind(p)
    PROVE  OffInv'
  <1> USE DEF OffInv
  <1> DEFINE pl == [plan EXCEPT ![p] = NoPlan]
             cut == plan[p].pc = "listing" /\ session
  <1>1. /\ ~Going(p) /\ plan[p].pc # "idle"
        /\ UNCHANGED <<exists, allowed, cur, stopped>>
        /\ inflight' = (IF inflight = p THEN Nobody ELSE inflight)
        /\ setLock' = IF setLock = p THEN Nobody ELSE setLock
    BY DEF Unwind, Going, Ended, Free, ghostVars
  <1>2. /\ plan' = (IF cut THEN Overtaken(pl) ELSE pl) /\ session' = (session /\ ~cut)
        /\ verb' = [v \in Verb |-> [verb[v] EXCEPT !.waits = Free(@, p)]]
    BY DEF Unwind
  <1>3. pl \in Plans /\ pl[p].pc = "idle" /\ \A q \in Plan \ {p} : pl[q] = plan[q]
    <2>1. pl \in Plans /\ pl[p] = NoPlan /\ \A q \in Plan \ {p} : pl[q] = plan[q]
      BY NoPlanShape DEF Shape, Plans
    <2> QED
      BY <2>1 DEF NoPlan
  <1>4. \/ state' = state
        \/ exists /\ plan[p].pc \in {"marking", "settling"} /\ state' = "starting"
        \/ exists /\ plan[p].pc = "settling" /\ state' = plan[p].result
    BY DEF Unwind, Write, Settled
  <1> HIDE DEF pl
  <1>5. AsBefore(pl, Overtaken(pl))
    BY <1>3, OvertakenKeeps
  <1>6. plan' \in Plans /\ plan'[p].pc = "idle"
    BY <1>2, <1>3, <1>5 DEF AsBefore
  <1>7. \A q \in Plan \ {p} : Keeps(q)
    BY <1>2, <1>3, <1>5 DEF AsBefore, Keeps
  <1>8. verb' \in Verbs /\ \A v \in Verb : verb'[v].pc = verb[v].pc /\ verb'[v].kind = verb[v].kind
    BY <1>2 DEF Shape, Verbs, Free
  <1>9. session' \in BOOLEAN /\ (session' => session /\ plan[p].pc # "listing")
    BY <1>2 DEF Shape
  <1>10. Shape' /\ InFlight' /\ VerbKinds'
    BY <1>1, <1>6, <1>7, <1>8, <1>9 DEF Shape, InFlight, VerbKinds, Going, Keeps
  <1>11. Locked'
    BY <1>1, <1>6, <1>7, <1>8, Ids DEF Locked, Keeps
  <1>12. MarkStands' /\ OffIsClean' /\ StopIsClean'
    BY <1>1, <1>4, <1>6, <1>7, <1>8, <1>9, Ids DEF MarkStands, OffIsClean, StopIsClean, Keeps, Going, Locked, Someone
  <1>13. OffIsTrue'
    BY <1>1, <1>6, <1>7, <1>8, <1>9 DEF OffIsTrue, WritesOff, Keeps, Going, Someone
  <1>14. OffIsListed'
    BY <1>1, <1>4, <1>6, <1>7, <1>9 DEF OffIsListed, OffIsTrue, WritesOff, Keeps, Someone
  <1>15. ForgottenIsGone'
    BY <1>1, <1>6, <1>7, <1>8, <1>9 DEF ForgottenIsGone, Forgetting, Keeps
  <1>16. StoppedIsGone'
    BY <1>1, <1>6, <1>7, <1>8, <1>9 DEF StoppedIsGone, Stopping, Harmless, Keeps
  <1> QED
    BY <1>10, <1>11, <1>12, <1>13, <1>14, <1>15, <1>16

\* The plans when the one in flight has been cancelled.
Cancelled(pl) ==
    /\ pl \in Plans
    /\ \A q \in Plan : /\ pl[q].pc = plan[q].pc \/ (pl[q].pc = "ending" /\ plan[q].pc \notin {"marking", "opening", "listing", "settling"})
                       /\ pl[q].kind = plan[q].kind /\ pl[q].result = plan[q].result /\ pl[q].over = plan[q].over
                       /\ pl[q].pc = "idle" \/ pl[q].stopping

\* Cancelling the plan in flight leaves no plan going.
LEMMA StoppedCancels ==
    ASSUME OffInv
    PROVE  Cancelled(Stopped(plan, inflight))
  <1> USE DEF OffInv
  <1> DEFINE pl == Stopped(plan, inflight)
  <1>1. \A q \in Plan : q # inflight /\ plan[q].pc # "idle" => plan[q].stopping
    BY DEF InFlight, Going
  <1>2. CASE inflight = Nobody
    <2>1. pl = plan /\ \A q \in Plan : q # inflight
      BY <1>2, Ids DEF Stopped, Someone
    <2> QED
      BY <1>1, <2>1 DEF Cancelled, Shape
  <1>3. CASE inflight \in Plan
    <2> DEFINE x == plan[inflight]
               y == [x EXCEPT !.stopping = TRUE,
                              !.pc = IF @ \in {"marking", "opening", "listing", "settling"} THEN @ ELSE "ending"]
    <2>1. inflight # Nobody /\ x \in PlanShape
      BY <1>3, Ids DEF Someone, Shape, Plans
    <2>2. pl = [plan EXCEPT ![inflight] = y]
      BY <1>3, <2>1 DEF Stopped, Shape, Plans
    <2>3. /\ y \in PlanShape /\ y.kind = x.kind /\ y.result = x.result /\ y.over = x.over /\ y.stopping
          /\ y.pc = x.pc \/ (y.pc = "ending" /\ x.pc \notin {"marking", "opening", "listing", "settling"})
      BY <2>1 DEF PlanShape, Pcs
    <2> HIDE DEF y
    <2>4. /\ pl \in Plans /\ pl[inflight] = y /\ \A q \in Plan : q # inflight => pl[q] = plan[q]
      BY <1>3, <2>2, <2>3 DEF Shape, Plans
    <2> QED
      BY <1>1, <1>3, <2>3, <2>4 DEF Cancelled
  <1> QED
    BY <1>2, <1>3 DEF Shape

\* The verbs as they were, but for a switch-on that has written and ends.
VerbsGoOn ==
    /\ verb' \in Verbs
    /\ \A v \in Verb : \/ verb'[v].pc = verb[v].pc /\ verb'[v].kind = verb[v].kind
                       \/ /\ verb[v].pc = "setting" /\ verb[v].kind = "on"
                          /\ verb'[v].pc = "idle" /\ verb'[v].kind = "none"
                       \/ v = GiveUp /\ verb[v].pc = "idle" /\ verb'[v].pc = "begin" /\ verb'[v].kind = "giveUp"

\* The lock is kept, or the switch-on that held it has written and let go.
LetsGo ==
    \/ setLock' = setLock /\ state' = state /\ \A v \in Verb : verb[v].pc = "setting" => verb'[v].pc = "setting"
    \/ /\ setLock' = Nobody /\ state' \in {state, "starting"}
       /\ \E v \in Verb : /\ verb[v].pc = "setting" /\ verb[v].kind = "on" /\ setLock = v
                          /\ verb'[v].pc = "idle"

\* A new plan waits for a slot or reads the row.
LEMMA NewShape ==
    ASSUME NEW kind \in {"first", "once", "restart"}
    PROVE  NewOf(kind) \in PlanShape /\ NewOf(kind).pc \in {"queued", "read"} /\ NewOf(kind).kind = kind
  <1>1. ASSUME NEW pc \in {"queued", "read"}, NewOf(kind) = [NoPlan EXCEPT !.pc = pc, !.kind = kind]
        PROVE  NewOf(kind) \in PlanShape /\ NewOf(kind).pc = pc /\ NewOf(kind).kind = kind
    <2> DEFINE one == [NoPlan EXCEPT !.pc = pc]
    <2>1. one \in PlanShape /\ one.pc = pc
      BY NoPlanShape DEF PlanShape, Pcs
    <2>2. NewOf(kind) = [one EXCEPT !.kind = kind]
      BY <1>1, NoPlanShape DEF PlanShape
    <2> HIDE DEF one
    <2> QED
      BY <2>1, <2>2 DEF PlanShape
  <1>2. CASE kind = "restart"
    <2>1. NewOf(kind) = [NoPlan EXCEPT !.pc = "read", !.kind = kind]
      BY <1>2 DEF NewOf
    <2> QED
      BY <1>1, <2>1
  <1>3. CASE kind # "restart"
    <2>1. NewOf(kind) = [NoPlan EXCEPT !.pc = "queued", !.kind = kind]
      BY <1>3 DEF NewOf
    <2> QED
      BY <1>1, <2>1
  <1> QED
    BY <1>2, <1>3

\* A new plan replaces the one in flight.
LEMMA NewPlanStep ==
    ASSUME OffInv, NEW kind \in {"first", "once", "restart"}, NewPlan(kind),
           VerbsGoOn, LetsGo, session' \in BOOLEAN, session' => session,
           UNCHANGED <<exists, allowed>>, stopped' => stopped /\ kind # "restart"
    PROVE  OffInv'
  <1> USE DEF OffInv
  <1> DEFINE old == Stopped(plan, inflight)
  <1>1. Cancelled(old)
    BY StoppedCancels
  <1>2. PICK p \in Plan : /\ plan[p].pc = "idle" /\ plan' = [old EXCEPT ![p] = NewOf(kind)]
                          /\ inflight' = p /\ cur' = p
    BY DEF NewPlan, Replaced, Bump
  <1>3. /\ NewOf(kind) \in PlanShape /\ NewOf(kind).pc \in {"queued", "read"} /\ NewOf(kind).kind = kind
    BY NewShape
  <1> HIDE DEF old
  <1>4. plan' \in Plans /\ plan'[p].pc \in {"queued", "read"} /\ plan'[p].kind = kind
        /\ \A q \in Plan \ {p} : plan'[q] = old[q]
    BY <1>1, <1>2, <1>3 DEF Cancelled, Plans
  <1>5. \A q \in Plan \ {p} : /\ plan'[q].pc \in {plan[q].pc, "ending"}
                              /\ plan[q].pc \in {"opening", "listing"} => plan'[q].pc = plan[q].pc
                              /\ plan'[q].kind = plan[q].kind /\ plan'[q].result = plan[q].result
                              /\ plan'[q].over = plan[q].over
    BY <1>1, <1>4 DEF Cancelled
  <1>6. \A q \in Plan : Going(q)' => q = p
    BY <1>1, <1>4 DEF Cancelled, Going
  <1>7. Shape' /\ InFlight' /\ VerbKinds'
    BY <1>2, <1>4, <1>6 DEF Shape, InFlight, VerbKinds, VerbsGoOn
  <1>8. Locked'
    <2>1. ASSUME NEW q \in Plan, plan'[q].pc \in {"marking", "settling"} PROVE setLock' = q
      BY <1>4, <1>5, <2>1, Ids DEF Locked, LetsGo
    <2>2. ASSUME NEW v \in Verb, verb'[v].pc = "setting" PROVE setLock' = v
      BY <2>2, Ids DEF Locked, LetsGo, VerbsGoOn
    <2> QED
      BY <2>1, <2>2 DEF Locked
  <1>9. MarkStands' /\ OffIsClean'
    BY <1>4, <1>6 DEF MarkStands, OffIsClean
  <1>10. StopIsClean'
    BY <1>2, Ids DEF StopIsClean
  <1>11. OffIsTrue'
    <2>1. ASSUME NEW w \in Someone, WritesOff(w)' PROVE WritesOff(w)
      BY <1>4, <1>5, <2>1 DEF WritesOff, VerbsGoOn
    <2> QED
      BY <1>4, <1>6, <2>1 DEF OffIsTrue
  <1>12. OffIsListed'
    BY <1>2, <1>5 DEF OffIsListed, LetsGo
  <1>13. ForgottenIsGone'
    BY <1>4, <1>5 DEF ForgottenIsGone, Forgetting, VerbsGoOn
  <1>14. StoppedIsGone'
    <2>1. /\ Stopping("begin") => Stopping("begin")'
          /\ Stopping("wait") => Stopping("wait")'
      BY DEF Stopping, VerbsGoOn
    <2>2. stopped' => \A q \in Plan : Harmless(q)'
      BY <1>1, <1>4 DEF Cancelled, Harmless
    <2> QED
      BY <2>1, <2>2 DEF StoppedIsGone
  <1> QED
    BY <1>7, <1>8, <1>9, <1>10, <1>11, <1>12, <1>13, <1>14

-----------------------------------------------------------------------------
(* The verbs. *)

Others(v) == verb' \in Verbs /\ \A u \in Verb \ {v} : verb'[u] = verb[u]

\* No verb is under way.
LEMMA NoVerbShape == [v \in Verb |-> NoVerb] \in Verbs
  BY DEF NoVerb, Verbs

\* A verb goes on; the plans stay where they are, the session may be dropped.
LEMMA VerbMoveStep ==
    ASSUME OffInv, NEW v \in Verb, Others(v), plan' \in Plans, \A q \in Plan : Keeps(q),
           verb'[v].kind = verb[v].kind \/ (verb'[v].pc = "idle" /\ verb'[v].kind = "none"),
           UNCHANGED <<inflight, exists, allowed, stopped>>, cur' \in {cur, v},
           session' \in BOOLEAN, session' => session,
           \/ UNCHANGED <<setLock, state>> /\ verb'[v].pc # "setting"
           \/ setLock = Nobody /\ setLock' = v /\ cur = v /\ state' = state
           \/ setLock = v /\ setLock' = Nobody /\ verb'[v].pc # "setting"
              /\ (exists /\ state' = "off" => state = "off" \/ ~session),
           verb'[v].pc = "check" => verb[v].kind = "on",
           verb[v].kind = "off" => /\ cur' = cur /\ verb[v].pc \notin {"begin", "idle"}
                                   /\ verb'[v].pc = "set" => verb[v].pc = "wait" /\ ~session'
                                   /\ verb'[v].pc = "setting" => verb[v].pc = "set"
                                   /\ verb'[v].pc # "wait"
                                   /\ verb[v].pc = "wait" => ~session',
           verb[v].kind = "forget" /\ verb[v].pc \in {"begin", "wait"} =>
               ~session' /\ \A p \in Plan : plan[p].pc = "opening" => plan'[p].over = "during"
    PROVE  OffInv'
  <1> USE DEF OffInv
  <1>1. Shape' /\ InFlight' /\ VerbKinds'
    BY DEF Shape, InFlight, VerbKinds, Keeps, Going, Others
  <1>2. Locked'
    BY Ids DEF Locked, Keeps, Others, Someone
  <1>3. MarkStands' /\ OffIsClean'
    BY Ids DEF MarkStands, OffIsClean, Keeps, Going, Someone
  <1>4. StopIsClean'
    BY DEF StopIsClean, Others
  <1>5. OffIsTrue'
    <2>1. ASSUME NEW w \in Someone, WritesOff(w)', exists
          PROVE  WritesOff(w) \/ (inflight = Nobody /\ ~session)
      <3>1. CASE w # v
        BY <2>1, <3>1 DEF WritesOff, Others, Keeps
      <3>2. CASE w = v
        BY <2>1, <3>2, Ids DEF WritesOff, StopIsClean
      <3> QED
        BY <3>1, <3>2
    <2>2. inflight = Nobody => \A q \in Plan : ~Going(q)
      BY Ids DEF InFlight, Someone
    <2> QED
      BY <2>1, <2>2 DEF OffIsTrue, Keeps, Going
  <1>6. OffIsListed'
    BY DEF OffIsListed, Keeps
  <1>7. ForgottenIsGone'
    BY DEF ForgottenIsGone, Forgetting, Keeps, Others
  <1>8. StoppedIsGone'
    BY DEF StoppedIsGone, Stopping, Harmless, Keeps, Others
  <1> QED
    BY <1>1, <1>2, <1>3, <1>4, <1>5, <1>6, <1>7, <1>8

\* The user's switch or delete is in the row, and its verb begins.
LEMMA AskStep ==
    ASSUME OffInv, NEW v \in Verb, NEW kind \in {"off", "on", "forget"}, Ask(v, kind)
    PROVE  OffInv'
  <1> USE DEF OffInv
  <1>1. /\ verb[v].pc = "idle" /\ exists /\ v \in UserVerb
        /\ verb' = [verb EXCEPT ![v].pc = "begin", ![v].kind = kind]
        /\ exists' = (kind # "forget") /\ allowed' = (kind = "on") /\ (kind # "forget" => state' = state)
        /\ UNCHANGED <<plan, inflight, cur, setLock, session, stopped>>
    BY DEF Ask, Starts, supVars, sessionVars
  <1>2. Others(v) /\ verb'[v].pc = "begin" /\ verb'[v].kind = kind
    BY <1>1 DEF Others, Shape, Verbs
  <1>3. Shape' /\ InFlight' /\ VerbKinds'
    BY <1>1, <1>2 DEF Shape, InFlight, VerbKinds, Going, Others
  <1>4. Locked' /\ StopIsClean'
    BY <1>1, <1>2 DEF Locked, StopIsClean, Others
  <1>5. MarkStands' /\ OffIsClean'
    BY <1>1 DEF MarkStands, OffIsClean, Going
  <1>6. OffIsTrue'
    BY <1>1, <1>2 DEF OffIsTrue, WritesOff, Going, Others
  <1>7. OffIsListed'
    BY <1>1 DEF OffIsListed
  <1>8. ForgottenIsGone'
    BY <1>1, <1>2 DEF ForgottenIsGone, Forgetting
  <1>9. StoppedIsGone'
    BY <1>1, <1>2 DEF StoppedIsGone, Stopping
  <1> QED
    BY <1>3, <1>4, <1>5, <1>6, <1>7, <1>8, <1>9

\* A stop begins: the plan in flight is cancelled, and waited for.
LEMMA StopBeginStep ==
    ASSUME OffInv, NEW v \in Verb, StopBegin(v)
    PROVE  OffInv'
  <1> USE DEF OffInv
  <1>1. /\ verb[v].pc = "begin" /\ cur' = v /\ inflight' = Nobody
        /\ (stopped' => stopped \/ verb[v].kind = "off")
        /\ UNCHANGED <<exists, allowed, state, setLock, session>>
    BY DEF StopBegin, Bump, rowVars
  <1>2. Others(v) /\ verb'[v].pc = "wait" /\ verb'[v].kind = verb[v].kind
    <2>1. verb' = [verb EXCEPT ![v].pc = "wait", ![v].waits = inflight]
      BY DEF StopBegin
    <2> QED
      BY <2>1 DEF Others, Shape, Verbs
  <1>3. Cancelled(plan')
    BY StoppedCancels DEF StopBegin
  <1>4. \A q \in Plan : ~Going(q)'
    BY <1>3 DEF Cancelled, Going
  <1>5. Shape' /\ InFlight' /\ VerbKinds'
    BY <1>1, <1>2, <1>3, <1>4 DEF Shape, InFlight, VerbKinds, Cancelled, Others
  <1>6. Locked'
    BY <1>1, <1>2, <1>3 DEF Locked, Others, Cancelled
  <1>7. MarkStands' /\ OffIsClean'
    BY <1>4 DEF MarkStands, OffIsClean
  <1>8. StopIsClean'
    BY <1>1, <1>2 DEF StopIsClean
  <1>9. OffIsTrue'
    <2>1. ASSUME NEW w \in Someone, WritesOff(w)' PROVE WritesOff(w)
      BY <1>2, <1>3, <2>1 DEF WritesOff, Others, Cancelled
    <2> QED
      BY <1>1, <1>4, <2>1 DEF OffIsTrue
  <1>10. OffIsListed'
    BY <1>1, <1>3 DEF OffIsListed, Cancelled
  <1>11. ForgottenIsGone'
    BY <1>1, <1>2, <1>3 DEF ForgottenIsGone, Forgetting, Cancelled, Others
  <1>12. StoppedIsGone'
    <2>1. \A q \in Plan : Harmless(q)'
      BY <1>3 DEF Harmless, Cancelled
    <2>2. CASE verb[v].kind = "off"
      BY <1>2, <2>1, <2>2 DEF StoppedIsGone, Stopping
    <2>3. CASE verb[v].kind # "off"
      BY <1>1, <1>2, <2>1, <2>3 DEF StoppedIsGone, Stopping, Others
    <2> QED
      BY <2>2, <2>3
  <1> QED
    BY <1>5, <1>6, <1>7, <1>8, <1>9, <1>10, <1>11, <1>12

\* A verb that ends leaves the others alone.
LEMMA FinishShape ==
    ASSUME OffInv, NEW v \in Verb, Finish(v)
    PROVE  Others(v) /\ verb'[v].pc = "idle" /\ verb'[v].kind = "none"
  <1>1. NoVerb \in [pc : {"idle", "begin", "wait", "check", "set", "setting"},
                    kind : {"none", "off", "on", "forget", "giveUp"},
                    waits : Plan \union {Nobody}, running : BOOLEAN]
    BY DEF NoVerb
  <1>2. Others(v) /\ verb'[v] = NoVerb
    BY <1>1 DEF OffInv, Shape, Verbs, Others, Finish
  <1> QED
    BY <1>2 DEF NoVerb

\* A verb that goes on leaves the others alone.
LEMMA StepShape ==
    ASSUME OffInv, NEW v \in Verb, NEW pc \in {"wait", "check", "set", "setting"}, Step(v, pc)
    PROVE  Others(v) /\ verb'[v].pc = pc /\ verb'[v].kind = verb[v].kind
  BY DEF OffInv, Shape, Verbs, Others, Step

\* The session is kept, or it is dropped and an open under way will not cache.
LEMMA DropShape ==
    ASSUME OffInv, (plan' = plan /\ session' = session) \/ (plan' = Overtaken(plan) /\ session' = FALSE)
    PROVE  /\ plan' \in Plans /\ (\A q \in Plan : Keeps(q)) /\ session' \in BOOLEAN /\ (session' => session)
           /\ plan' = Overtaken(plan) => \A p \in Plan : plan[p].pc = "opening" => plan'[p].over = "during"
  <1>1. AsBefore(plan, Overtaken(plan))
    BY OvertakenKeeps DEF OffInv, Shape
  <1>2. CASE plan' = plan /\ session' = session
    BY <1>1, <1>2 DEF OffInv, Shape, Keeps, AsBefore
  <1>3. CASE plan' = Overtaken(plan) /\ session' = FALSE
    BY <1>1, <1>3 DEF Keeps, AsBefore
  <1> QED
    BY <1>2, <1>3

\* The plan has unwound: the verb drops the session and goes on.
LEMMA StopDropStep ==
    ASSUME OffInv, NEW v \in Verb, StopDrop(v)
    PROVE  OffInv'
  <1> USE DEF OffInv
  <1>1. /\ verb[v].pc = "wait" /\ UNCHANGED <<inflight, cur, setLock, exists, allowed, state, stopped>>
    BY DEF StopDrop, rowVars, ghostVars
  <1>2. CASE verb[v].kind = "off" /\ Step(v, "set") /\ session' = FALSE /\ plan' = Overtaken(plan)
    <2>1. Others(v) /\ verb'[v].pc = "set" /\ verb'[v].kind = verb[v].kind
      BY <1>2, StepShape
    <2>2. plan' \in Plans /\ \A q \in Plan : Keeps(q)
      BY <1>2, DropShape
    <2> QED
      BY <1>1, <1>2, <2>1, <2>2, VerbMoveStep
  <1>3. CASE verb[v].kind = "forget" /\ Finish(v) /\ session' = FALSE /\ plan' = Overtaken(plan)
    <2>1. Others(v) /\ verb'[v].pc = "idle" /\ verb'[v].kind = "none"
      BY <1>3, FinishShape
    <2>2. /\ plan' \in Plans /\ \A q \in Plan : Keeps(q)
          /\ \A p \in Plan : plan[p].pc = "opening" => plan'[p].over = "during"
      BY <1>3, DropShape
    <2> QED
      BY <1>1, <1>3, <2>1, <2>2, VerbMoveStep
  <1>4. CASE verb[v].kind = "giveUp" /\ Step(v, "set") /\ UNCHANGED <<session, plan>>
    <2>1. Others(v) /\ verb'[v].pc = "set" /\ verb'[v].kind = verb[v].kind
      BY <1>4, StepShape
    <2>2. plan' \in Plans /\ (\A q \in Plan : Keeps(q)) /\ session' \in BOOLEAN /\ (session' => session)
      BY <1>4, DropShape
    <2> QED
      BY <1>1, <1>4, <2>1, <2>2, VerbMoveStep
  <1> QED
    BY <1>2, <1>3, <1>4 DEF StopDrop

\* A verb's write: its check, and the commit of `off` or `failed`.
LEMMA VerbWriteSteps ==
    ASSUME OffInv, NEW v \in Verb, VerbEnter(v) \/ VerbCommit(v)
    PROVE  OffInv'
  <1> USE DEF OffInv
  <1>1. UNCHANGED <<inflight, cur, exists, allowed, stopped>>
    BY DEF VerbEnter, VerbCommit, rowVars, ghostVars
  <1>2. CASE VerbEnter(v)
    <2>1. verb[v].pc = "set" /\ setLock = Nobody /\ UNCHANGED <<plan, session, state>>
      BY <1>2 DEF VerbEnter, rowVars, sessionVars
    <2>2. plan' \in Plans /\ (\A q \in Plan : Keeps(q)) /\ session' \in BOOLEAN /\ (session' => session)
      BY <2>1, DropShape
    <2>3. CASE cur = v /\ setLock' = v /\ Step(v, "setting")
      <3>1. Others(v) /\ verb'[v].pc = "setting" /\ verb'[v].kind = verb[v].kind
        BY <2>3, StepShape
      <3> QED
        BY <1>1, <2>1, <2>2, <2>3, <3>1, VerbMoveStep
    <2>4. CASE setLock' = setLock /\ Finish(v)
      <3>1. Others(v) /\ verb'[v].pc = "idle" /\ verb'[v].kind = "none"
        BY <2>4, FinishShape
      <3> QED
        BY <1>1, <2>1, <2>2, <2>4, <3>1, VerbMoveStep
    <2> QED
      BY <1>2, <2>3, <2>4 DEF VerbEnter, MayWrite
  <1>3. CASE VerbCommit(v)
    <2>1. /\ verb[v].pc = "setting" /\ verb[v].kind \in {"off", "giveUp"} /\ setLock = v /\ setLock' = Nobody
          /\ Finish(v) /\ state' \in {state, IF v = GiveUp THEN "failed" ELSE "off"}
      BY <1>3 DEF VerbCommit, Locked, Free, Write
    <2>2. (plan' = plan /\ session' = session) \/ (plan' = Overtaken(plan) /\ session' = FALSE)
      <3>1. CASE v = GiveUp /\ cur = v
        BY <1>3, <3>1 DEF VerbCommit
      <3>2. CASE ~(v = GiveUp /\ cur = v)
        BY <1>3, <3>2 DEF VerbCommit, Shape
      <3> QED
        BY <3>1, <3>2
    <2>3. plan' \in Plans /\ (\A q \in Plan : Keeps(q)) /\ session' \in BOOLEAN /\ (session' => session)
      BY <2>2, DropShape
    <2>4. Others(v) /\ verb'[v].pc = "idle" /\ verb'[v].kind = "none"
      BY <2>1, FinishShape
    <2>5. exists /\ verb[v].kind = "off" => ~session
      BY <2>1 DEF OffIsTrue, WritesOff, Someone
    <2>6. exists /\ state' = "off" => state = "off" \/ ~session
      BY <2>1, <2>5 DEF VerbKinds
    <2> QED
      BY <1>1, <2>1, <2>3, <2>4, <2>6, VerbMoveStep
  <1> QED
    BY <1>2, <1>3

\* A switch-on: nothing to do, or the generation moves and `starting` is written.
LEMMA OnSteps ==
    ASSUME OffInv, NEW v \in Verb, OnBegin(v) \/ OnCheck(v) \/ OnCommit(v)
    PROVE  OffInv'
  <1> USE DEF OffInv
  <1>1. verb[v].kind = "on" /\ session' = session /\ UNCHANGED <<exists, allowed, stopped>>
    BY DEF OnBegin, OnCheck, OnCommit, VerbKinds, rowVars, ghostVars
  <1>2. session' \in BOOLEAN
    BY <1>1 DEF Shape
  <1>3. CASE plan' = plan /\ inflight' = inflight /\ setLock' = setLock /\ state' = state /\ cur' \in {cur, v}
             /\ Others(v) /\ verb'[v].pc \in {"idle", "check", "set"}
             /\ (verb'[v].kind = verb[v].kind \/ (verb'[v].pc = "idle" /\ verb'[v].kind = "none"))
    <2>1. plan' \in Plans /\ \A q \in Plan : Keeps(q)
      BY <1>1, <1>3, DropShape
    <2> QED
      BY <1>1, <1>2, <1>3, <2>1, VerbMoveStep
  <1>4. CASE OnBegin(v)
    <2>1. UNCHANGED <<plan, inflight, setLock, state>>
      BY <1>4 DEF OnBegin, rowVars
    <2>2. CASE verb' = [verb EXCEPT ![v].pc = "check", ![v].running = TRUE] /\ cur' = cur
      <3>1. Others(v) /\ verb'[v].pc = "check" /\ verb'[v].kind = verb[v].kind
        BY <2>2 DEF Others, Shape, Verbs
      <3> QED
        BY <1>3, <2>1, <2>2, <3>1
    <2>3. CASE Step(v, "set") /\ cur' = v
      <3>1. Others(v) /\ verb'[v].pc = "set" /\ verb'[v].kind = verb[v].kind
        BY <2>3, StepShape
      <3> QED
        BY <1>3, <2>1, <2>3, <3>1
    <2> QED
      BY <1>4, <2>2, <2>3 DEF OnBegin, Bump
  <1>5. CASE OnCheck(v)
    <2>1. UNCHANGED <<plan, inflight, setLock, state>>
      BY <1>5 DEF OnCheck, rowVars
    <2>2. CASE Finish(v) /\ cur' = cur
      <3>1. Others(v) /\ verb'[v].pc = "idle" /\ verb'[v].kind = "none"
        BY <2>2, FinishShape
      <3> QED
        BY <1>3, <2>1, <2>2, <3>1
    <2>3. CASE Step(v, "set") /\ cur' = v
      <3>1. Others(v) /\ verb'[v].pc = "set" /\ verb'[v].kind = verb[v].kind
        BY <2>3, StepShape
      <3> QED
        BY <1>3, <2>1, <2>3, <3>1
    <2> QED
      BY <1>5, <2>2, <2>3 DEF OnCheck, Bump
  <1>6. CASE OnCommit(v)
    <2>1. /\ verb[v].pc = "setting" /\ setLock = v /\ setLock' = Nobody /\ state' \in {state, "starting"}
          /\ Finish(v)
      BY <1>6 DEF OnCommit, Locked, Free, Write
    <2>2. Others(v) /\ verb'[v].pc = "idle" /\ verb'[v].kind = "none"
      BY <2>1, FinishShape
    <2>3. CASE plan' = plan /\ inflight' = inflight /\ cur' = cur
      <3>1. plan' \in Plans /\ \A q \in Plan : Keeps(q)
        BY <1>1, <2>3, DropShape
      <3> QED
        BY <1>1, <1>2, <2>1, <2>2, <2>3, <3>1, VerbMoveStep
    <2>4. ASSUME NEW kind \in {"once", "first"}, NewPlan(kind) PROVE OffInv'
      <3>1. VerbsGoOn
        BY <1>1, <2>1, <2>2 DEF VerbsGoOn, Others
      <3>2. LetsGo
        BY <1>1, <2>1, <2>2 DEF LetsGo
      <3> QED
        BY <1>1, <1>2, <2>4, <3>1, <3>2, NewPlanStep
    <2> QED
      BY <1>6, <2>3, <2>4 DEF OnCommit
  <1> QED
    BY <1>4, <1>5, <1>6

-----------------------------------------------------------------------------
(* Everything else, and the whole. *)

\* A new plan that comes with no verb.
LEMMA FreshPlanStep ==
    ASSUME OffInv, NEW kind \in {"once", "restart"}, NewPlan(kind),
           session' \in BOOLEAN, session' => session, UNCHANGED <<verb, setLock, exists, allowed, state>>,
           stopped' => stopped /\ kind # "restart"
    PROVE  OffInv'
  <1>1. VerbsGoOn /\ LetsGo
    BY DEF VerbsGoOn, LetsGo, OffInv, Shape
  <1> QED
    BY <1>1, NewPlanStep

\* The supervisor is told of a drop: a new plan, or it gives up.
LEMMA DroppedStep ==
    ASSUME OffInv, OnDropped, UNCHANGED <<session, setLock, exists, allowed, state, stopped>>
    PROVE  OffInv'
  <1> USE DEF OffInv
  <1>1. session' \in BOOLEAN
    BY DEF Shape
  <1>2. CASE NewPlan("once") /\ verb' = verb
    BY <1>1, <1>2, FreshPlanStep
  <1>3. CASE /\ verb[GiveUp].pc = "idle" /\ verb' = [verb EXCEPT ![GiveUp].pc = "begin", ![GiveUp].kind = "giveUp"]
             /\ UNCHANGED <<plan, inflight, cur>>
    <2>1. Others(GiveUp) /\ verb'[GiveUp].pc = "begin" /\ verb'[GiveUp].kind = "giveUp"
      BY <1>3, Ids DEF Others, Shape, Verbs
    <2>2. Shape' /\ InFlight' /\ VerbKinds' /\ Locked'
      BY <1>3, <2>1, Ids DEF Shape, InFlight, VerbKinds, Locked, Going, Others
    <2>3. MarkStands' /\ OffIsClean' /\ StopIsClean'
      BY <1>3, <2>1, Ids DEF MarkStands, OffIsClean, StopIsClean, Going, Others
    <2>4. OffIsTrue' /\ OffIsListed'
      <3>1. plan' = plan
        BY <1>3
      <3>2. ASSUME NEW w \in Someone, WritesOff(w)' PROVE WritesOff(w)
        BY <2>1, <3>1, <3>2 DEF WritesOff, Others
      <3> QED
        BY <3>1, <3>2 DEF OffIsTrue, OffIsListed, Going
    <2>5. ForgottenIsGone' /\ StoppedIsGone'
      BY <1>3, <2>1, Ids DEF ForgottenIsGone, Forgetting, StoppedIsGone, Stopping, Harmless, Others
    <2> QED
      BY <2>2, <2>3, <2>4, <2>5
  <1> QED
    BY <1>2, <1>3 DEF OnDropped

\* After the boot the invariant holds.
LEMMA SupervisorInit == Init => OffInv
  <1> SUFFICES ASSUME Init PROVE OffInv
    OBVIOUS
  <1>1. 1 \in Plan
    BY SupervisorAssumption DEF Plan
  <1>2. NewOf("first") \in PlanShape /\ NewOf("first").pc \in {"queued", "read"}
    BY NewShape
  <1>3. NoPlan.pc = "idle"
    BY DEF NoPlan
  <1>4. plan \in Plans /\ \A p \in Plan : plan[p].pc \in {"idle", "queued", "read"} /\ (plan[p].pc # "idle" => p = 1 /\ allowed)
    BY <1>2, <1>3, NoPlanShape DEF Init, Plans
  <1>5. verb \in Verbs /\ \A v \in Verb : verb[v].pc = "idle" /\ verb[v].kind = "none"
    <2>1. verb = [v \in Verb |-> NoVerb]
      BY DEF Init
    <2> QED
      BY <2>1, NoVerbShape DEF NoVerb
  <1>6. ~session /\ session \in BOOLEAN /\ exists /\ ~stopped /\ inflight = IF allowed THEN 1 ELSE Nobody
    BY DEF Init
  <1>7. Shape /\ InFlight /\ VerbKinds /\ Locked
    BY <1>1, <1>4, <1>5, <1>6 DEF Shape, InFlight, VerbKinds, Locked, Going
  <1>8. MarkStands /\ OffIsClean /\ StopIsClean
    BY <1>4, <1>5 DEF MarkStands, OffIsClean, StopIsClean
  <1>9. OffIsTrue /\ OffIsListed
    BY <1>4, <1>5, <1>6 DEF OffIsTrue, OffIsListed, WritesOff
  <1>10. ForgottenIsGone /\ StoppedIsGone
    BY <1>6 DEF ForgottenIsGone, StoppedIsGone
  <1> QED
    BY <1>7, <1>8, <1>9, <1>10 DEF OffInv

\* Every step keeps the invariant.
LEMMA SupervisorStep == OffInv /\ [Next]_vars => OffInv'
  <1> SUFFICES ASSUME OffInv, [Next]_vars PROVE OffInv'
    OBVIOUS
  <1> USE DEF rowVars, supVars, tickVars, sessionVars, ghostVars
  <1>1. ASSUME UNCHANGED <<verb, inflight, cur, setLock, exists, allowed, state>>, stopped' => stopped,
               (plan' = plan /\ session' = session) \/ (plan' = Overtaken(plan) /\ session' = FALSE)
        PROVE  OffInv'
    BY <1>1, DropShape, StillStep
  <1>2. session \in BOOLEAN
    BY DEF OffInv, Shape
  <1>3. CASE UNCHANGED vars
    BY <1>1, <1>3 DEF vars
  <1>4. CASE TickReads \/ RelistBegin
    BY <1>1, <1>4 DEF TickReads, RelistBegin
  <1>5. CASE CallFails \/ SilentDrop
    BY <1>1, <1>5 DEF CallFails, SilentDrop, LoseSession
  <1>6. CASE RelistEnds
    BY <1>1, <1>6 DEF RelistEnds, LoseSession
  <1>7. CASE TickActs
    <2>1. UNCHANGED <<verb, setLock, exists, allowed, state, session, stopped>>
      BY <1>7 DEF TickActs
    <2>2. CASE NewPlan("once")
      BY <1>2, <2>1, <2>2, FreshPlanStep
    <2>3. CASE UNCHANGED <<plan, inflight, cur>>
      BY <1>1, <2>1, <2>3
    <2> QED
      BY <1>7, <2>2, <2>3 DEF TickActs
  <1>8. CASE CallTold
    BY <1>8, DroppedStep DEF CallTold
  <1>9. CASE RelistTold
    <2>1. UNCHANGED <<setLock, exists, allowed, state, session, stopped>>
      BY <1>9 DEF RelistTold
    <2>2. CASE OnDropped
      BY <2>1, <2>2, DroppedStep
    <2>3. CASE UNCHANGED <<plan, inflight, cur, verb>>
      BY <1>1, <2>1, <2>3
    <2> QED
      BY <1>9, <2>2, <2>3 DEF RelistTold
  <1>10. CASE Connect
    <2>1. UNCHANGED <<verb, setLock, exists, allowed, state, session>> /\ stopped' = FALSE
      BY <1>10 DEF Connect
    <2>2. CASE NewPlan("restart")
      BY <1>2, <2>1, <2>2, FreshPlanStep
    <2>3. CASE UNCHANGED <<plan, inflight, cur>>
      BY <1>1, <2>1, <2>3
    <2> QED
      BY <1>10, <2>2, <2>3 DEF Connect
  <1>11. CASE EditSchedules
    BY <1>11, FreshPlanStep DEF EditSchedules
  <1>12. ASSUME NEW p \in Plan, PlanStep(p) PROVE OffInv'
    BY <1>12, ReadStep, OpenSteps, SettleSteps, UnwindStep DEF PlanStep
  <1>13. ASSUME NEW v \in Verb, VerbStep(v) PROVE OffInv'
    BY <1>13, StopBeginStep, StopDropStep, VerbWriteSteps, OnSteps DEF VerbStep
  <1>14. ASSUME NEW v \in Verb, NEW kind \in {"off", "on", "forget"}, Ask(v, kind) PROVE OffInv'
    BY <1>14, AskStep
  <1> QED
    BY <1>3, <1>4, <1>5, <1>6, <1>7, <1>8, <1>9, <1>10, <1>11, <1>12, <1>13, <1>14 DEF Next, TickStep

\* The invariant holds throughout.
LEMMA SupervisorStays == Spec => []OffInv
  BY SupervisorInit, SupervisorStep, PTL DEF Spec

\* Once everything has settled no process runs for a server that is off, was deleted, or was
\* switched off and not connected since: _set's lock and generation, the drops and the
\* cancelled plans together, for any number of plans, verbs and events.
THEOREM OffStaysOff == Spec => []OffHasNoProcess
  <1>1. OffInv => OffHasNoProcess
    BY DEF OffInv, OffHasNoProcess, Quiet, OffIsListed, ForgottenIsGone, Forgetting, StoppedIsGone, Stopping
  <1> QED
    BY <1>1, SupervisorStays, PTL

\* One plan is in flight per server: _new_plan cancels the one before it.
THEOREM OnePlanInFlight == Spec => []OnePlan
  <1>1. OffInv => OnePlan
    <2> SUFFICES ASSUME OffInv PROVE OnePlan
      OBVIOUS
    <2> DEFINE S == {p \in Plan : plan[p].pc # "idle" /\ ~plan[p].stopping}
    <2>1. S \subseteq {inflight}
      BY DEF OffInv, InFlight, Going
    <2>2. IsFiniteSet({inflight}) /\ Cardinality({inflight}) = 1
      BY FS_Singleton
    <2>3. Cardinality(S) <= 1
      BY <2>1, <2>2, FS_Subset
    <2> QED
      BY <2>3 DEF OnePlan
  <1> QED
    BY <1>1, SupervisorStays, PTL
================================================================================
