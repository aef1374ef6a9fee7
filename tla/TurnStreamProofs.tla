--------------------------- MODULE TurnStreamProofs ---------------------------
(***************************************************************************)
(* That a final record stands, that every record settles, and that every   *)
(* frame reaches every window once, for any number of windows, runs, text  *)
(* frames and process deaths.  Then, of the sockets whose messages the     *)
(* stream's turns are for: that a message is in one place and that a close *)
(* loses none, for any number of sockets, messages and model requests.     *)
(***************************************************************************)
EXTENDS TurnStream, ConversationState, FiniteSetTheorems, WellFoundedInduction, TLAPS

\* The rows and the run as far as the argument needs them.
RunShape ==
    /\ row \in [Run -> [status : Statuses, out : {"none", "partial", "final"}, writes : 0 .. 1]]
    /\ cur \in 0 .. MaxRuns /\ pc \in Pcs /\ outcome \in Outcomes /\ up \in BOOLEAN
    /\ late \subseteq Run
    /\ pc # "idle" => up /\ cur \in Run

\* A row that was written has its outcome, so the guard of flush_checkpoint keeps
\* any checkpoint off it.
WrittenIsSettled ==
    \A r \in Run : row[r].writes = 1 => row[r].out = "final" /\ row[r].status \in Outcomes

\* The write to come is the first: nothing is written of a run before its finalize,
\* and nothing of a run that has not begun.
UnwrittenYet ==
    /\ pc \in {"begun", "body", "stored", "ending", "writing"} => row[cur].writes = 0
    /\ \A r \in Run : r > cur => row[r].writes = 0 /\ row[r].status = "none"

\* A run that is leaving was written or is known not to be.
LeavesSettled == pc = "leaving" => row[cur].status # "recording" \/ cur \in unwritten

RecordInv == RunShape /\ WrittenIsSettled /\ UnwrittenYet /\ LeavesSettled /\ RecordSettles

\* At the start no run is recorded.
LEMMA RecordStart == Init => RecordInv
  BY StreamAssumption DEF Init, RecordInv, RunShape, WrittenIsSettled, UnwrittenYet, LeavesSettled,
     RecordSettles, Run, Pcs, Outcomes, Statuses, StreamAssumption

\* Every step keeps the records as they must be.
LEMMA RecordStep == RecordInv /\ [Next]_vars => RecordInv'
  <1> SUFFICES ASSUME RecordInv, [Next]_vars
               PROVE  RecordInv'
    OBVIOUS
  <1> USE StreamAssumption DEF RecordInv, RunShape, WrittenIsSettled, UnwrittenYet, LeavesSettled,
          RecordSettles, Run, Pcs, Outcomes, Statuses, StreamAssumption
  \* Steps of the sockets, of the journal and of the checkpoint task: the rows and
  \* the run's place stay.
  <1>1. ASSUME row' = row, up' = up, cur' = cur, pc' = pc, outcome' = outcome,
               unwritten' = unwritten, late' = late
        PROVE  RecordInv'
    BY <1>1
  \* Steps within the body of a run.
  <1>2. ASSUME row' = row, up' = up, cur' = cur, outcome' \in Outcomes, unwritten' = unwritten,
               late' \subseteq Run, pc \in {"begun", "body", "stored", "ending"},
               pc' \in {"body", "stored", "ending", "writing"}
        PROVE  RecordInv'
    BY <1>2
  <1>3. CASE Start
    <2>1. /\ up /\ pc = "idle" /\ cur' \in Run /\ cur' = cur + 1 /\ pc' = "begun"
          /\ row' = [row EXCEPT ![cur'].status = "recording"]
          /\ outcome' = "completed" /\ UNCHANGED <<up, late, unwritten>>
      BY <1>3 DEF Start
    <2>2. row[cur'].writes = 0
      BY <2>1
    <2>3. RunShape'
      BY <2>1
    <2> QED
      BY <2>1, <2>2, <2>3
  <1>4. CASE Announce \/ StoreAnswer \/ EmitEnd \/ BodyFails
    BY <1>2, <1>4 DEF Announce, StoreAnswer, EmitEnd, BodyFails
  <1>5. CASE FinalizeBegins
    BY <1>2, <1>5 DEF FinalizeBegins
  \* The one write of a run.
  <1>6. CASE WriteLands
    <2>1. /\ up /\ pc = "writing" /\ pc' = "leaving" /\ cur \in Run
          /\ row' = [row EXCEPT ![cur] = [status |-> outcome, out |-> "final", writes |-> row[cur].writes + 1]]
          /\ UNCHANGED <<up, cur, outcome, late, unwritten>>
      BY <1>6 DEF WriteLands
    <2>2. row[cur].writes = 0
      BY <2>1
    <2> QED
      BY <2>1, <2>2
  <1>7. CASE WriteFails
    BY <1>7 DEF WriteFails
  <1>8. CASE Leave
    BY <1>8 DEF Leave
  <1>9. CASE Stop
    <2>1. CASE pc \in {"body", "stored", "ending"} /\ outcome' = "cancelled" /\ pc' = "ending" /\ unwritten' = unwritten
      BY <1>2, <1>9, <2>1 DEF Stop
    <2>2. CASE pc = "writing" /\ UNCHANGED <<outcome, pc, unwritten>>
      BY <1>1, <1>9, <2>2 DEF Stop
    <2>3. CASE pc = "begun" /\ pc' = "leaving" /\ unwritten' = unwritten \union {cur} /\ outcome' = outcome
      BY <1>9, <2>3 DEF Stop
    <2> QED
      BY <1>9, <2>1, <2>2, <2>3 DEF Stop
  <1>10. CASE Chunk \/ CheckpointBegins
    BY <1>1, <1>10 DEF Chunk, CheckpointBegins
  \* Of a row that is still recording, a checkpoint changes the output only.
  <1>11. CASE CheckpointLands
    <2>1. PICK r \in 0 .. MaxRuns : Checkpoint(r)
      BY <1>11 DEF CheckpointLands
    <2>2. row' = [s \in Run |-> IF s = r /\ row[r].status = "recording"
                                THEN [row[r] EXCEPT !.out = "partial"] ELSE row[s]]
      BY <2>1 DEF Checkpoint
    <2>3. UNCHANGED <<up, cur, pc, outcome, unwritten>> /\ late' \subseteq late
      BY <1>11 DEF CheckpointLands
    <2> QED
      BY <2>2, <2>3, SMTT(30)
  <1>12. CASE Crash
    BY <1>12 DEF Crash
  <1>13. CASE Boot
    BY <1>13 DEF Boot, runVars
  <1>14. ASSUME NEW w \in Window, ReadHistory(w) \/ Attach(w) \/ Drain(w) \/ Detach(w)
         PROVE  RecordInv'
    BY <1>1, <1>14 DEF ReadHistory, Attach, Drain, Detach, runVars
  <1>15. CASE UNCHANGED vars
    BY <1>1, <1>15 DEF vars, runVars
  <1> QED
    BY <1>3, <1>4, <1>5, <1>6, <1>7, <1>8, <1>9, <1>10, <1>11, <1>12, <1>13, <1>14, <1>15 DEF Next, RunStep

\* However stops, late checkpoints, failed writes and deaths of the process fall, a
\* run's steps are written once and its final output is never overwritten (the
\* finalize latch and flush_checkpoint's status guard).
THEOREM FinalRecordsStand == Spec => []FinalRecordStands
  <1>1. RecordInv => FinalRecordStands
    BY DEF RecordInv, RunShape, WrittenIsSettled, FinalRecordStands
  <1> QED
    BY RecordStart, RecordStep, <1>1, PTL DEF Spec

\* No row stays recording behind its run, unless this process failed to write it; the
\* next process settles those (execute's finally and mark_interrupted_runs).
THEOREM RecordsSettle == Spec => []RecordSettles
  <1>1. RecordInv => RecordSettles
    BY DEF RecordInv
  <1> QED
    BY RecordStart, RecordStep, <1>1, PTL DEF Spec

-----------------------------------------------------------------------------
(* What Of computes: the types of a run's frames, one frame at a time. *)

\* The order of the naturals as a relation, for the induction below.
Below == {ss \in Nat \X Nat : ss[1] < ss[2]}

\* A set of naturals has a least one.
LEMMA LeastNat ==
    ASSUME NEW T \in SUBSET Nat, T # {}
    PROVE  \E n \in T : \A m \in T : n <= m
  <1>1. IsWellFoundedOn(Below, Nat)
    BY NatLessThanWellFounded, Zenon DEF OpToRel, Below
  <1>2. PICK n \in T : \A m \in T : ~(<<m, n>> \in Below)
    BY <1>1, WFMin
  <1>3. ASSUME NEW m \in T, m < n
        PROVE  FALSE
    <2>1. <<m, n>> \in Below
      BY <1>3 DEF Below
    <2> QED
      BY <1>2, <2>1
  <1> QED
    BY <1>2, <1>3

\* Induction over the naturals, for a property given as the set of the numbers that have it.
LEMMA Induction ==
    ASSUME NEW S \in SUBSET Nat, 0 \in S, \A n \in S : n + 1 \in S
    PROVE  \A n \in Nat : n \in S
  <1> SUFFICES ASSUME Nat \ S # {} PROVE FALSE
    OBVIOUS
  <1>1. PICK n \in Nat \ S : \A m \in Nat \ S : n <= m
    BY LeastNat
  <1>2. n - 1 \in S
    BY <1>1
  <1> QED
    BY <1>1, <1>2

\* One frame more: what Of does with it.
Take(r, x, types) == IF x[1] = r THEN Append(types, x[2]) ELSE types

\* The recursion of Of.
Keeps(r, s, kept) ==
    kept = [i \in 0 .. Len(s) |->
              IF i = 0 THEN <<>> ELSE Take(r, s[i], kept[i - 1])]

\* Of is that recursion.
LEMMA OfIs == ASSUME NEW r, NEW s PROVE Of(r, s) = (CHOOSE kept : Keeps(r, s, kept))[Len(s)]
  BY Zenon DEF Of, Keeps, Take

\* The recursion has a solution, for every sequence.
LEMMA KeepsExists ==
    ASSUME NEW r, NEW D, NEW s \in Seq(D)
    PROVE  \E kept : Keeps(r, s, kept)
  <1> DEFINE T(n) == \A t \in Seq(D) : Len(t) = n => \E kept : Keeps(r, t, kept)
             S == {n \in Nat : T(n)}
  <1>1. T(0)
    <2> SUFFICES ASSUME NEW t \in Seq(D), Len(t) = 0 PROVE \E kept : Keeps(r, t, kept)
      OBVIOUS
    <2>1. Keeps(r, t, [i \in 0 .. 0 |-> <<>>])
      BY DEF Keeps
    <2> QED
      BY <2>1
  <1>2. ASSUME NEW n \in Nat, T(n)
        PROVE  T(n + 1)
    <2> SUFFICES ASSUME NEW t \in Seq(D), Len(t) = n + 1 PROVE \E kept : Keeps(r, t, kept)
      OBVIOUS
    <2> DEFINE u == SubSeq(t, 1, n)
    <2>1. u \in Seq(D) /\ Len(u) = n /\ \A i \in 1 .. n : u[i] = t[i]
      OBVIOUS
    <2>2. PICK k : Keeps(r, u, k)
      BY <1>2, <2>1
    <2> DEFINE l == [i \in 0 .. n + 1 |-> IF i <= n THEN k[i] ELSE Take(r, t[n + 1], k[n])]
    <2> HIDE DEF u
    <2>3. \A i \in 0 .. n : k[i] = IF i = 0 THEN <<>> ELSE Take(r, t[i], k[i - 1])
      BY <2>1, <2>2 DEF Keeps
    <2>4. \A i \in 0 .. n + 1 : l[i] = IF i = 0 THEN <<>> ELSE Take(r, t[i], l[i - 1])
      BY <2>3
    <2>5. Keeps(r, t, l)
      BY <2>4 DEF Keeps
    <2> QED
      BY <2>5
  <1>3. \A n \in Nat : n \in S
    <2>1. 0 \in S
      BY <1>1
    <2> HIDE DEF T
    <2>2. \A n \in S : n + 1 \in S
      BY <1>2
    <2> HIDE DEF S
    <2> QED
      BY <2>1, <2>2, Induction DEF S
  <1> QED
    BY <1>3

\* The solutions for a sequence and for a longer one agree on what they share.
LEMMA KeepsAgree ==
    ASSUME NEW r, NEW s, NEW t, NEW k, NEW l, Keeps(r, s, k), Keeps(r, t, l),
           Len(s) \in Nat, Len(t) = Len(s) + 1, \A i \in 1 .. Len(s) : s[i] = t[i]
    PROVE  k[Len(s)] = l[Len(s)]
  <1> DEFINE n == Len(s)
             S == {i \in Nat : i <= n => k[i] = l[i]}
  <1>1. 0 \in S
    BY DEF Keeps
  <1>2. ASSUME NEW i \in S
        PROVE  i + 1 \in S
    <2> SUFFICES ASSUME i + 1 <= n PROVE k[i + 1] = l[i + 1]
      OBVIOUS
    <2>1. i \in Nat /\ i + 1 \in 1 .. n /\ k[i] = l[i] /\ i + 1 \in 0 .. Len(s) /\ i + 1 \in 0 .. Len(t)
      OBVIOUS
    <2>2. k[i + 1] = Take(r, s[i + 1], k[i])
      BY <2>1 DEF Keeps
    <2>3. l[i + 1] = Take(r, t[i + 1], l[i])
      BY <2>1 DEF Keeps
    <2> QED
      BY <2>1, <2>2, <2>3
  <1>3. \A i \in Nat : i \in S
    <2> HIDE DEF S
    <2>1. S \in SUBSET Nat BY DEF S
    <2> QED
      BY <1>1, <1>2, <2>1, Induction
  <1> QED
    BY <1>3

\* Of takes one frame more.
LEMMA OfAppend ==
    ASSUME NEW r, NEW D, NEW s \in Seq(D), NEW x \in D
    PROVE  Of(r, Append(s, x)) = Take(r, x, Of(r, s))
  <1> DEFINE t == Append(s, x)
  <1>1. t \in Seq(D) /\ Len(t) = Len(s) + 1 /\ t[Len(t)] = x /\ Len(s) \in Nat /\ \A i \in 1 .. Len(s) : t[i] = s[i]
    OBVIOUS
  <1> HIDE DEF t
  <1> DEFINE k == CHOOSE kept : Keeps(r, s, kept)
             l == CHOOSE kept : Keeps(r, t, kept)
  <1>2. Keeps(r, s, k) /\ Keeps(r, t, l)
    BY <1>1, KeepsExists
  <1>3. Of(r, s) = k[Len(s)] /\ Of(r, t) = l[Len(t)]
    BY OfIs
  <1> HIDE DEF k, l
  <1>4. k[Len(s)] = l[Len(s)]
    <2>1. \A i \in 1 .. Len(s) : s[i] = t[i]
      BY <1>1
    <2> QED
      BY <1>1, <1>2, <2>1, KeepsAgree
  <1>5. l[Len(t)] = Take(r, x, l[Len(s)])
    <2>1. Len(t) \in 0 .. Len(t) /\ Len(t) # 0 /\ Len(t) - 1 = Len(s) /\ t[Len(t)] = x
      BY <1>1
    <2>2. l[Len(t)] = Take(r, t[Len(t)], l[Len(t) - 1])
      BY <1>2, <2>1 DEF Keeps
    <2> QED
      BY <2>1, <2>2
  <1> QED
    BY <1>3, <1>4, <1>5 DEF t

\* No frames, no types.
LEMMA OfEmpty == ASSUME NEW r PROVE Of(r, <<>>) = <<>>
  <1> DEFINE k == CHOOSE kept : Keeps(r, <<>>, kept)
  <1>1. Keeps(r, <<>>, k)
    <2>1. <<>> \in Seq({})
      OBVIOUS
    <2> QED
      BY <2>1, KeepsExists
  <1>2. Of(r, <<>>) = k[0]
    BY OfIs
  <1> HIDE DEF k
  <1> QED
    BY <1>1, <1>2 DEF Keeps

\* A sequence is its last element after the others.
LEMMA SplitLast ==
    ASSUME NEW D, NEW s \in Seq(D), NEW n \in Nat, Len(s) = n + 1
    PROVE  /\ SubSeq(s, 1, n) \in Seq(D) /\ Len(SubSeq(s, 1, n)) = n
           /\ \A i \in 1 .. n : SubSeq(s, 1, n)[i] = s[i]
           /\ s[n + 1] \in D /\ s = Append(SubSeq(s, 1, n), s[n + 1])
  OBVIOUS

\* Of a run that has no frame.
LEMMA OfNone ==
    ASSUME NEW r, NEW D, NEW s \in Seq(D), \A i \in 1 .. Len(s) : s[i][1] # r
    PROVE  Of(r, s) = <<>>
  <1> DEFINE T(n) == \A t \in Seq(D) : Len(t) = n /\ (\A i \in 1 .. n : t[i][1] # r) => Of(r, t) = <<>>
             S == {n \in Nat : T(n)}
  <1>1. T(0)
    BY OfEmpty
  <1>2. ASSUME NEW n \in Nat, T(n)
        PROVE  T(n + 1)
    <2> SUFFICES ASSUME NEW t \in Seq(D), Len(t) = n + 1, \A i \in 1 .. n + 1 : t[i][1] # r
                 PROVE  Of(r, t) = <<>>
      OBVIOUS
    <2> DEFINE u == SubSeq(t, 1, n)
               x == t[n + 1]
    <2>1. u \in Seq(D) /\ Len(u) = n /\ (\A i \in 1 .. n : u[i] = t[i]) /\ x \in D /\ t = Append(u, x) /\ x[1] # r
      BY SplitLast
    <2> HIDE DEF u, x
    <2>2. Of(r, u) = <<>>
      BY <1>2, <2>1
    <2> QED
      BY <2>1, <2>2, OfAppend DEF Take
  <1> HIDE DEF T
  <1>3. 0 \in S /\ \A n \in S : n + 1 \in S
    BY <1>1, <1>2
  <1>4. Len(s) \in S
    <2> HIDE DEF S
    <2>1. S \in SUBSET Nat
      BY DEF S
    <2> QED
      BY <1>3, <2>1, Induction
  <1> QED
    BY <1>4 DEF T

\* Of a run whose journal the frames are.
Stamped(r, types) == [i \in DOMAIN types |-> <<r, types[i]>>]
\* The frames of a run, taken alone, are all of its frames.
LEMMA OfOwn ==
    ASSUME NEW r \in Run, NEW types \in Seq(Types)
    PROVE  Of(r, Stamped(r, types)) = types
  <1> DEFINE T(n) == \A t \in Seq(Types) : Len(t) = n => Of(r, Stamped(r, t)) = t
             S == {n \in Nat : T(n)}
  <1>1. T(0)
    <2> SUFFICES ASSUME NEW t \in Seq(Types), Len(t) = 0 PROVE Of(r, Stamped(r, t)) = t
      OBVIOUS
    <2>1. t = <<>> /\ Stamped(r, t) = <<>>
      BY DEF Stamped
    <2> QED
      BY <2>1, OfEmpty
  <1>2. ASSUME NEW n \in Nat, T(n)
        PROVE  T(n + 1)
    <2> SUFFICES ASSUME NEW t \in Seq(Types), Len(t) = n + 1
                 PROVE  Of(r, Stamped(r, t)) = t
      OBVIOUS
    <2> DEFINE u == SubSeq(t, 1, n)
               x == t[n + 1]
    <2>1. u \in Seq(Types) /\ Len(u) = n /\ (\A i \in 1 .. n : u[i] = t[i]) /\ x \in Types /\ t = Append(u, x)
      BY SplitLast
    <2> HIDE DEF u, x
    <2>2. Stamped(r, u) \in Seq(Frame) /\ Len(Stamped(r, u)) = n /\ <<r, x>> \in Frame
      BY <2>1 DEF Stamped, Frame
    <2>3. Stamped(r, t) = Append(Stamped(r, u), <<r, x>>)
      BY <2>1, <2>2 DEF Stamped
    <2>4. Of(r, Stamped(r, t)) = Take(r, <<r, x>>, Of(r, Stamped(r, u)))
      BY <2>2, <2>3, OfAppend
    <2> QED
      BY <1>2, <2>1, <2>4 DEF Take
  <1> HIDE DEF T
  <1>3. 0 \in S /\ \A n \in S : n + 1 \in S
    BY <1>1, <1>2
  <1>4. Len(types) \in S
    <2> HIDE DEF S
    <2>1. S \in SUBSET Nat
      BY DEF S
    <2> QED
      BY <1>3, <2>1, Induction
  <1> QED
    BY <1>4 DEF T

-----------------------------------------------------------------------------
(* The frames. *)

\* What a window has of the conversation: the replay, then what came live.
Seen(w) == win[w].replay \o win[w].got

Windows == [pc : {"away", "history", "attached", "live"}, history : SUBSET Run,
            replay : Seq(Frame), got : Seq(Frame), whole : SUBSET Run]
WindowShape == win \in [Window -> Windows]

\* Sequences put one after the other.
LEMMA Concatenation ==
    ASSUME NEW D, NEW s \in Seq(D), NEW t \in Seq(D), NEW x \in D
    PROVE  /\ s \o t \in Seq(D) /\ s \o Append(t, x) = Append(s \o t, x)
           /\ <<>> \o s = s /\ s \o <<>> = s
  OBVIOUS

\* A run that has not begun has no frame in its journal nor in a window, and a window
\* has nothing before it is attached.
NothingAhead ==
    /\ \A r \in Run : r > cur => events[r] = <<>>
    /\ \A w \in Window :
          /\ \A i \in 1 .. Len(Seen(w)) : Seen(w)[i][1] <= cur
          /\ \A r \in win[w].whole : r <= cur
          /\ ~Attached(w) => win[w].replay = <<>> /\ win[w].got = <<>>

FrameInv ==
    /\ RunShape /\ events \in [Run -> Seq(Types)] /\ answers \subseteq Run
    /\ WindowShape /\ NothingAhead /\ FramesReachOnce

\* At the start no window has seen anything.
LEMMA FrameStart == Init => FrameInv
  <1> SUFFICES ASSUME Init PROVE FrameInv
    OBVIOUS
  <1>1. RunShape
    BY RecordStart DEF RecordInv
  <1>2. WindowShape /\ \A w \in Window : win[w] = Away
    BY DEF Init, WindowShape, Windows, Away
  <1>3. ASSUME NEW w \in Window
        PROVE  ~Attached(w) /\ Seen(w) = <<>> /\ Len(Seen(w)) = 0
    <2>1. win[w].pc = "away" /\ win[w].replay = <<>> /\ win[w].got = <<>>
      BY <1>2 DEF Away
    <2>2. <<>> \o <<>> = <<>>
      OBVIOUS
    <2> QED
      BY <2>1, <2>2 DEF Attached, Seen
  <1> QED
    BY <1>1, <1>2, <1>3 DEF Init, FrameInv, NothingAhead, FramesReachOnce, Away

\* What a window has seen is a sequence of frames.
LEMMA SeenShape ==
    ASSUME WindowShape, NEW w \in Window
    PROVE  /\ win[w] \in Windows /\ win[w].whole \subseteq Run /\ win[w].history \subseteq Run
           /\ win[w].replay \in Seq(Frame) /\ win[w].got \in Seq(Frame) /\ Seen(w) \in Seq(Frame)
  <1>1. win[w] \in Windows
    BY DEF WindowShape
  <1>2. /\ win[w].whole \subseteq Run /\ win[w].history \subseteq Run
        /\ win[w].replay \in Seq(Frame) /\ win[w].got \in Seq(Frame)
    BY <1>1 DEF Windows
  <1>3. \A s, t \in Seq(Frame) : s \o t \in Seq(Frame)
    OBVIOUS
  <1> QED
    BY <1>1, <1>2, <1>3 DEF Seen

\* A frame of the newest run goes to its journal and to every window that is attached.
LEMMA TeeReaches ==
    ASSUME FrameInv, RunShape', answers' \subseteq Run, cur' = cur, cur \in Run,
           NEW f \in Types, Tee(f)
    PROVE  FrameInv'
  <1> USE DEF FrameInv
  <1>1. /\ events' = [events EXCEPT ![cur] = Append(@, f)]
        /\ win' = [w \in Window |->
                     IF Attached(w) THEN [win[w] EXCEPT !.got = Append(@, <<cur, f>>)] ELSE win[w]]
    BY DEF Tee
  <1>2. events' \in [Run -> Seq(Types)] /\ <<cur, f>> \in Frame
    BY <1>1 DEF Frame
  <1>3. ASSUME NEW w \in Window
        PROVE  /\ win'[w].pc = win[w].pc /\ win'[w].whole = win[w].whole
               /\ win'[w].history = win[w].history /\ win'[w].replay = win[w].replay
               /\ win[w].replay \in Seq(Frame) /\ win[w].got \in Seq(Frame) /\ win[w].whole \subseteq Run
               /\ win'[w].got = IF Attached(w) THEN Append(win[w].got, <<cur, f>>) ELSE win[w].got
    BY <1>1 DEF WindowShape, Windows
  <1>4. WindowShape'
    <2>1. ASSUME NEW w \in Window
          PROVE  win'[w] \in Windows
      <3>1. win[w] \in Windows /\ Append(win[w].got, <<cur, f>>) \in Seq(Frame)
        BY <1>2, <1>3 DEF WindowShape
      <3> QED
        BY <1>1, <3>1 DEF Windows
    <2> QED
      BY <1>1, <2>1 DEF WindowShape
  <1>5. \A w \in Window : Attached(w)' <=> Attached(w)
    BY <1>3 DEF Attached
  <1>6. ASSUME NEW w \in Window
        PROVE  /\ Seen(w) \in Seq(Frame)
               /\ Seen(w)' = IF Attached(w) THEN Append(Seen(w), <<cur, f>>) ELSE Seen(w)
    <2> DEFINE s == win[w].replay
               t == win[w].got
    <2>1. s \in Seq(Frame) /\ t \in Seq(Frame) /\ Seen(w) = s \o t
      BY <1>3 DEF Seen
    <2>2. Seen(w)' = IF Attached(w) THEN s \o Append(t, <<cur, f>>) ELSE s \o t
      BY <1>3 DEF Seen
    <2> HIDE DEF s, t
    <2>3. s \o t \in Seq(Frame) /\ s \o Append(t, <<cur, f>>) = Append(s \o t, <<cur, f>>)
      BY <1>2, <2>1, Concatenation
    <2> QED
      BY <2>1, <2>2, <2>3
  <1>7. NothingAhead'
    <2>1. \A r \in Run : r > cur' => events'[r] = <<>>
      BY <1>1 DEF NothingAhead, RunShape, Run
    <2>2. ASSUME NEW w \in Window
          PROVE  /\ \A i \in 1 .. Len(Seen(w)') : Seen(w)'[i][1] <= cur
                 /\ \A r \in win'[w].whole : r <= cur
                 /\ ~Attached(w)' => win'[w].replay = <<>> /\ win'[w].got = <<>>
      <3>1. \A i \in 1 .. Len(Seen(w)') : Seen(w)'[i][1] <= cur
        <4>1. \A i \in 1 .. Len(Seen(w)) : Seen(w)[i][1] <= cur
          BY DEF NothingAhead
        <4>2. cur <= cur /\ <<cur, f>>[1] = cur
          BY DEF Run
        <4>3. CASE Attached(w)
          <5>1. Seen(w)' = Append(Seen(w), <<cur, f>>) /\ Seen(w) \in Seq(Frame)
            BY <1>6, <4>3
          <5>2. \A i \in 1 .. Len(Seen(w)') : Seen(w)'[i] = <<cur, f>> \/ (i \in 1 .. Len(Seen(w)) /\ Seen(w)'[i] = Seen(w)[i])
            BY <1>2, <5>1
          <5> QED
            BY <4>1, <4>2, <5>2
        <4>4. CASE ~Attached(w)
          BY <1>6, <4>1, <4>4
        <4> QED
          BY <4>3, <4>4
      <3> QED
        BY <1>3, <1>5, <3>1 DEF NothingAhead
    <2> QED
      BY <2>1, <2>2 DEF NothingAhead
  <1>8. FramesReachOnce'
    <2> SUFFICES ASSUME NEW w \in Window, Attached(w), NEW r \in win[w].whole
                 PROVE  Of(r, Append(Seen(w), <<cur, f>>)) = events'[r]
      <3> SUFFICES ASSUME NEW w \in Window, Attached(w)', NEW r \in win'[w].whole
                   PROVE  Of(r, Seen(w)') = events'[r]
        BY DEF FramesReachOnce, Seen
      <3>1. Seen(w)' = Append(Seen(w), <<cur, f>>) /\ Attached(w) /\ r \in win[w].whole
        BY <1>3, <1>5, <1>6
      <3> QED
        BY <3>1
    <2>1. Of(r, Append(Seen(w), <<cur, f>>)) = Take(r, <<cur, f>>, Of(r, Seen(w)))
      BY <1>2, <1>6, OfAppend
    <2>2. Of(r, Seen(w)) = events[r] /\ r \in Run
      BY <1>3 DEF FramesReachOnce, Seen
    <2> QED
      BY <1>1, <2>1, <2>2 DEF Take
  <1> QED
    BY <1>2, <1>4, <1>7, <1>8

\* A window that changes alone, the journals as they are.
LEMMA WindowChanges ==
    ASSUME FrameInv, RunShape', answers' \subseteq Run, cur' = cur, events' = events,
           NEW w \in Window, NEW v, win' = [win EXCEPT ![w] = v],
           v \in Windows,
           \A i \in 1 .. Len(v.replay \o v.got) : (v.replay \o v.got)[i][1] <= cur,
           \A r \in v.whole : r <= cur,
           v.pc \notin {"attached", "live"} => v.replay = <<>> /\ v.got = <<>>,
           v.pc \in {"attached", "live"} => \A r \in v.whole : Of(r, v.replay \o v.got) = events[r]
    PROVE  FrameInv'
  <1>1. WindowShape'
    BY DEF FrameInv, WindowShape
  <1>2. win'[w] = v /\ \A u \in Window : u # w => win'[u] = win[u]
    BY DEF FrameInv, WindowShape
  <1>3. NothingAhead'
    <2>1. ASSUME NEW u \in Window
          PROVE  /\ \A i \in 1 .. Len(Seen(u)') : Seen(u)'[i][1] <= cur
                 /\ \A r \in win'[u].whole : r <= cur
                 /\ ~Attached(u)' => win'[u].replay = <<>> /\ win'[u].got = <<>>
      <3>1. CASE u = w
        <4>1. Seen(u)' = v.replay \o v.got
          BY <1>2, <3>1 DEF Seen
        <4> QED
          BY <1>2, <3>1, <4>1 DEF Attached
      <3>2. CASE u # w
        <4>1. Seen(u)' = Seen(u) /\ (Attached(u)' <=> Attached(u)) /\ win'[u] = win[u]
          BY <1>2, <3>2 DEF Seen, Attached
        <4> QED
          BY <4>1 DEF FrameInv, NothingAhead
      <3> QED
        BY <3>1, <3>2
    <2> QED
      BY <2>1 DEF FrameInv, NothingAhead
  <1>4. FramesReachOnce'
    BY <1>2 DEF FrameInv, FramesReachOnce, Attached
  <1> QED
    BY <1>1, <1>3, <1>4 DEF FrameInv

\* Every step keeps what the windows saw true to the journals.
LEMMA FrameStep == FrameInv /\ RecordInv /\ [Next]_vars => FrameInv'
  <1> SUFFICES ASSUME FrameInv, RecordInv, [Next]_vars
               PROVE  FrameInv'
    OBVIOUS
  <1>0. RunShape' /\ (pc # "idle" => cur \in Run)
    BY RecordStep DEF RecordInv, RunShape
  \* Steps that emit nothing.
  <1>1. ASSUME cur' = cur, events' = events, win' = win, answers' \subseteq Run
        PROVE  FrameInv'
    BY <1>0, <1>1 DEF FrameInv, WindowShape, NothingAhead, Seen, Attached, FramesReachOnce
  \* Steps that emit a frame.
  <1>2. ASSUME NEW f \in Types, pc # "idle", cur' = cur, answers' \subseteq Run, Tee(f)
        PROVE  FrameInv'
    BY <1>0, <1>2, TeeReaches
  \* A run begins: the windows attached now will have all of it.
  <1>3. CASE Start
    <2>1. /\ cur' = cur + 1 /\ cur' \in Run /\ events' = events /\ answers' = answers
          /\ win' = [w \in Window |-> IF Attached(w) THEN [win[w] EXCEPT !.whole = @ \union {cur + 1}] ELSE win[w]]
      BY <1>3, StreamAssumption DEF Start, Run, FrameInv, RunShape, StreamAssumption
    <2>2. ASSUME NEW w \in Window
          PROVE  /\ win[w] \in Windows /\ win'[w] \in Windows /\ win'[w].pc = win[w].pc
                 /\ win'[w].replay = win[w].replay /\ win'[w].got = win[w].got
                 /\ win'[w].whole = IF Attached(w) THEN win[w].whole \union {cur'} ELSE win[w].whole
      BY <2>1 DEF FrameInv, WindowShape, Windows
    <2>3. \A w \in Window : Seen(w)' = Seen(w) /\ (Attached(w)' <=> Attached(w))
      BY <2>2 DEF Seen, Attached
    <2>4. WindowShape'
      BY <2>1, <2>2 DEF WindowShape
    <2>5. NothingAhead'
      <3>1. \A r \in Run : r > cur' => events'[r] = <<>>
        BY <2>1 DEF FrameInv, NothingAhead, RunShape, Run
      <3>2. ASSUME NEW w \in Window
            PROVE  /\ \A i \in 1 .. Len(Seen(w)') : Seen(w)'[i][1] <= cur'
                   /\ \A r \in win'[w].whole : r <= cur'
                   /\ ~Attached(w)' => win'[w].replay = <<>> /\ win'[w].got = <<>>
        <4>1. cur \in Int /\ cur < cur' /\ cur' \in Int
          BY <2>1 DEF FrameInv, RunShape
        <4>2. Seen(w) \in Seq(Frame)
          BY SeenShape DEF FrameInv
        <4>3. \A i \in 1 .. Len(Seen(w)) : Seen(w)[i][1] \in Int /\ Seen(w)[i][1] <= cur
          BY <4>2 DEF FrameInv, NothingAhead, Frame, Run
        <4>4. \A r \in win[w].whole : r \in Int /\ r <= cur
          <5>1. win[w].whole \subseteq Run
            BY SeenShape DEF FrameInv
          <5> QED
            BY <5>1 DEF FrameInv, NothingAhead, Run
        <4>5. \A i \in 1 .. Len(Seen(w)') : Seen(w)'[i][1] <= cur'
          BY <2>3, <4>1, <4>3
        <4>6. \A r \in win'[w].whole : r <= cur'
          <5>1. win'[w].whole \subseteq win[w].whole \union {cur'}
            BY <2>2
          <5> QED
            BY <4>1, <4>4, <5>1
        <4>7. ~Attached(w)' => win'[w].replay = <<>> /\ win'[w].got = <<>>
          BY <2>2, <2>3, Zenon DEF FrameInv, NothingAhead
        <4> QED
          BY <4>5, <4>6, <4>7
      <3> QED
        BY <3>1, <3>2 DEF NothingAhead
    <2>6. FramesReachOnce'
      <3> SUFFICES ASSUME NEW w \in Window, Attached(w), NEW r \in win[w].whole \union {cur'}
                   PROVE  Of(r, Seen(w)) = events[r]
        <4> SUFFICES ASSUME NEW w \in Window, Attached(w)', NEW r \in win'[w].whole
                     PROVE  Of(r, Seen(w)') = events'[r]
          BY DEF FramesReachOnce, Seen
        <4>1. Seen(w)' = Seen(w) /\ Attached(w) /\ r \in win[w].whole \union {cur'}
          BY <2>2, <2>3
        <4> QED
          BY <2>1, <4>1
      <3>1. CASE r \in win[w].whole
        BY <3>1 DEF FrameInv, FramesReachOnce, Seen
      <3>2. CASE r = cur'
        <4>1. Seen(w) \in Seq(Frame)
          BY SeenShape DEF FrameInv
        <4>2. \A i \in 1 .. Len(Seen(w)) : Seen(w)[i][1] # r
          BY <2>1, <3>2 DEF FrameInv, NothingAhead, RunShape
        <4>3. events[r] = <<>>
          BY <2>1, <3>2 DEF FrameInv, NothingAhead, RunShape
        <4> QED
          BY <4>1, <4>2, <4>3, OfNone
      <3> QED
        BY <3>1, <3>2
    <2> QED
      BY <1>0, <2>1, <2>4, <2>5, <2>6 DEF FrameInv
  <1>4. CASE Announce
    BY <1>2, <1>4 DEF Announce, Types, FrameInv
  <1>5. CASE Chunk
    BY <1>2, <1>5 DEF Chunk, Types, FrameInv
  <1>6. CASE EmitEnd
    BY <1>2, <1>6 DEF EmitEnd, Types, FrameInv
  <1>7. CASE BodyFails
    BY <1>1, <1>2, <1>7 DEF BodyFails, Types, FrameInv
  <1>8. CASE WriteLands
    BY <1>1, <1>2, <1>8 DEF WriteLands, Types, FrameInv
  <1>9. CASE StoreAnswer
    BY <1>0, <1>1, <1>9 DEF StoreAnswer, FrameInv
  <1>10. CASE FinalizeBegins \/ WriteFails \/ Leave \/ Stop \/ CheckpointBegins \/ CheckpointLands
    BY <1>1, <1>10 DEF FinalizeBegins, WriteFails, Leave, Stop, CheckpointBegins, CheckpointLands, FrameInv
  <1>11. CASE Boot
    BY <1>1, <1>11 DEF Boot, runVars, FrameInv
  <1>12. CASE Crash
    <2>1. win' = [w \in Window |-> Away] /\ events' = events /\ cur' = cur /\ answers' = answers
      BY <1>12 DEF Crash
    <2>2. \A w \in Window : win'[w] = Away /\ Away \in Windows
      BY <2>1 DEF Away, Windows
    <2>3. ASSUME NEW w \in Window
          PROVE  ~Attached(w)' /\ Seen(w)' = <<>> /\ Len(Seen(w)') = 0
      <3>1. win'[w].pc = "away" /\ win'[w].replay = <<>> /\ win'[w].got = <<>>
        BY <2>2 DEF Away
      <3>2. <<>> \o <<>> = <<>>
        OBVIOUS
      <3> QED
        BY <3>1, <3>2 DEF Attached, Seen
    <2> QED
      BY <1>0, <2>1, <2>2, <2>3 DEF FrameInv, WindowShape, NothingAhead, FramesReachOnce, Away
  <1>13. ASSUME NEW w \in Window, ReadHistory(w) \/ Detach(w)
         PROVE  FrameInv'
    <2>1. PICK v \in Windows : /\ win' = [win EXCEPT ![w] = v]
                               /\ v.pc \in {"history", "away"} /\ v.replay = <<>> /\ v.got = <<>> /\ v.whole = {}
      <3>1. Away \in Windows /\ Away.replay = <<>> /\ Away.got = <<>> /\ Away.whole = {}
        BY DEF Away, Windows
      <3>2. ASSUME NEW a \in Windows
            PROVE  LET h == [a EXCEPT !.pc = "history", !.history = answers]
                   IN  /\ h \in Windows /\ h.pc = "history"
                       /\ h.replay = a.replay /\ h.got = a.got /\ h.whole = a.whole
        BY DEF Windows, FrameInv
      <3>3. CASE ReadHistory(w)
        BY <3>1, <3>2, <3>3, ZenonT(30) DEF ReadHistory, Set
      <3>4. CASE Detach(w)
        BY <3>1, <3>4 DEF Detach, Set, Away
      <3> QED
        BY <1>13, <3>3, <3>4
    <2>2. events' = events /\ cur' = cur /\ answers' \subseteq Run
      BY <1>13 DEF ReadHistory, Detach, runVars, FrameInv
    <2>3. v.replay \o v.got = <<>> /\ Len(<<>>) = 0
      BY <2>1
    <2>4. /\ \A i \in 1 .. Len(v.replay \o v.got) : (v.replay \o v.got)[i][1] <= cur
          /\ \A r \in v.whole : r <= cur /\ Of(r, v.replay \o v.got) = events[r]
      BY <2>1, <2>3
    <2> QED
      BY <1>0, <2>1, <2>2, <2>4, WindowChanges
  \* The snapshot is the journal as it is at that moment.
  <1>14. ASSUME NEW w \in Window, Attach(w)
         PROVE  FrameInv'
    <2> DEFINE replay == IF Replayable THEN Stamped(cur, events[cur]) ELSE <<>>
               whole == IF Replayable THEN {cur} ELSE {}
               v == [win[w] EXCEPT !.pc = "attached", !.replay = replay, !.whole = whole]
    <2>1. /\ win' = [win EXCEPT ![w] = v]
          /\ events' = events /\ cur' = cur /\ answers' \subseteq Run
      BY <1>14 DEF Attach, Set, runVars, FrameInv, Stamped
    <2>2. win[w] \in Windows /\ win[w].got = <<>>
      BY <1>14 DEF Attach, FrameInv, WindowShape, NothingAhead, Attached
    <2>3. Replayable => cur \in Run /\ events[cur] \in Seq(Types)
      BY <1>0 DEF Replayable, FrameInv
    <2>4. /\ replay \in Seq(Frame) /\ \A i \in 1 .. Len(replay) : replay[i][1] <= cur
          /\ \A r \in whole : r \in Run /\ r <= cur
      BY <2>3 DEF Stamped, Frame, Run
    <2>5. \A r \in whole : Of(r, replay) = events[r]
      BY <2>3, OfOwn
    <2> HIDE DEF replay, whole
    <2>6. /\ v \in Windows /\ v.pc = "attached" /\ v.replay = replay /\ v.got = <<>> /\ v.whole = whole
      BY <2>2, <2>4 DEF Windows
    <2>7. v.replay \o v.got = replay
      BY <2>4, <2>6
    <2> HIDE DEF v
    <2> QED
      BY <1>0, <2>1, <2>4, <2>5, <2>6, <2>7, WindowChanges
  \* The drainer: the replay moves in front of what waited in the queue.
  <1>15. ASSUME NEW w \in Window, Drain(w)
         PROVE  FrameInv'
    <2> DEFINE all == win[w].replay \o win[w].got
               v == [win[w] EXCEPT !.pc = "live", !.got = all, !.replay = <<>>]
    <2>1. /\ win' = [win EXCEPT ![w] = v] /\ win[w].pc = "attached"
          /\ events' = events /\ cur' = cur /\ answers' \subseteq Run
      BY <1>15 DEF Drain, Set, runVars, FrameInv
    <2>2. win[w] \in Windows
      BY DEF FrameInv, WindowShape
    <2>3. /\ Seen(w) \in Seq(Frame) /\ <<>> \o Seen(w) = Seen(w)
          /\ win[w].history \subseteq Run /\ win[w].whole \subseteq Run
      <3>1. \A s \in Seq(Frame) : <<>> \o s = s
        OBVIOUS
      <3> QED
        BY <3>1, SeenShape DEF FrameInv
    <2>4. v \in Windows /\ v.pc = "live" /\ v.replay = <<>> /\ v.got = Seen(w) /\ v.whole = win[w].whole
      <3>1. all = Seen(w) /\ all \in Seq(Frame)
        BY <2>3 DEF Seen
      <3> HIDE DEF all
      <3>2. ASSUME NEW e \in Seq(Frame)
            PROVE  LET u == [win[w] EXCEPT !.pc = "live", !.got = all, !.replay = e]
                   IN  u \in Windows /\ u.pc = "live" /\ u.replay = e /\ u.got = all /\ u.whole = win[w].whole
        BY <2>2, <3>1 DEF Windows
      <3>3. <<>> \in Seq(Frame)
        OBVIOUS
      <3> QED
        BY <3>1, <3>2, <3>3
    <2> HIDE DEF v
    <2>5. v.replay \o v.got = Seen(w)
      BY <2>3, <2>4
    <2>6. Attached(w)
      BY <2>1 DEF Attached
    <2>7. /\ \A i \in 1 .. Len(Seen(w)) : Seen(w)[i][1] <= cur
          /\ \A r \in win[w].whole : r <= cur /\ Of(r, Seen(w)) = events[r]
      BY <2>6 DEF FrameInv, NothingAhead, FramesReachOnce, Seen
    <2> QED
      BY <1>0, <2>1, <2>4, <2>5, <2>7, WindowChanges
  <1>16. CASE UNCHANGED vars
    BY <1>1, <1>16 DEF vars, runVars, FrameInv
  <1> QED
    BY <1>3, <1>4, <1>5, <1>6, <1>7, <1>8, <1>9, <1>10, <1>11, <1>12, <1>13, <1>14, <1>15, <1>16
    DEF Next, RunStep

\* Whenever a window attaches, what it gets of a run that goes on is that run's journal,
\* every frame once and in order (the snapshot and attach_sink with no await between, and
\* the drainer that starts after the replay).
THEOREM FramesReach == Spec => []FramesReachOnce
  <1>1. FrameInv => FramesReachOnce
    BY DEF FrameInv
  <1>2. Init => FrameInv /\ RecordInv
    BY FrameStart, RecordStart
  <1>3. FrameInv /\ RecordInv /\ [Next]_vars => (FrameInv /\ RecordInv)'
    BY FrameStep, RecordStep
  <1> QED
    BY <1>1, <1>2, <1>3, PTL DEF Spec

-----------------------------------------------------------------------------
(* The sockets of the conversation: Conversation, under the name Talk, on  *)
(* the state of ConversationState.                                         *)

Talk == INSTANCE Conversation

-----------------------------------------------------------------------------
(* How often something is in a list. *)

Same(x, y) == IF x = y THEN 1 ELSE 0

\* How often x is among the first n of s.
Upto(x, s, n) == Cardinality({i \in 1 .. n : s[i] = x})
Times(x, s) == Upto(x, s, Len(s))

\* Among none it is not.
LEMMA UptoZero == ASSUME NEW x, NEW s PROVE Upto(x, s, 0) = 0
  <1>1. {i \in 1 .. 0 : s[i] = x} = {}
    OBVIOUS
  <1> QED
    BY <1>1, FS_EmptySet DEF Upto

\* The positions are finitely many.
LEMMA UptoType ==
    ASSUME NEW x, NEW s, NEW n \in Nat
    PROVE  Upto(x, s, n) \in Nat /\ IsFiniteSet({i \in 1 .. n : s[i] = x})
  <1>1. IsFiniteSet(1 .. n)
    BY FS_Interval
  <1>2. {i \in 1 .. n : s[i] = x} \in SUBSET (1 .. n)
    OBVIOUS
  <1>3. IsFiniteSet({i \in 1 .. n : s[i] = x})
    BY <1>1, <1>2, FS_Subset
  <1> QED
    BY <1>3, FS_CardinalityType DEF Upto

\* One position more.
LEMMA UptoNext ==
    ASSUME NEW x, NEW s, NEW n \in Nat
    PROVE  Upto(x, s, n + 1) = Upto(x, s, n) + Same(s[n + 1], x)
  <1> DEFINE P == {i \in 1 .. n : s[i] = x}
             Q == {i \in 1 .. n + 1 : s[i] = x}
  <1>1. IsFiniteSet(P) /\ Cardinality(P) \in Nat
    BY UptoType DEF Upto
  <1>2. CASE s[n + 1] = x
    <2>1. Q = P \union {n + 1} /\ n + 1 \notin P
      BY <1>2
    <2> HIDE DEF P, Q
    <2>2. Cardinality(Q) = Cardinality(P) + 1
      BY <1>1, <2>1, FS_AddElement
    <2> QED
      BY <1>2, <2>2 DEF Upto, Same, P, Q
  <1>3. CASE s[n + 1] # x
    <2>1. Q = P
      BY <1>3
    <2>2. Upto(x, s, n + 1) = Upto(x, s, n)
      BY <2>1 DEF Upto
    <2>3. Upto(x, s, n) \in Nat
      BY UptoType
    <2> QED
      BY <1>3, <2>2, <2>3 DEF Same
  <1> QED
    BY <1>2, <1>3

\* Lists that start alike.
LEMMA UptoSame ==
    ASSUME NEW x, NEW s, NEW t, NEW n \in Nat, \A i \in 1 .. n : s[i] = t[i]
    PROVE  Upto(x, s, n) = Upto(x, t, n)
  <1>1. {i \in 1 .. n : s[i] = x} = {i \in 1 .. n : t[i] = x}
    OBVIOUS
  <1> QED
    BY <1>1 DEF Upto

\* A list without it, and only that one, has it not once.
LEMMA TimesZero ==
    ASSUME NEW D, NEW s \in Seq(D), NEW x
    PROVE  Times(x, s) \in Nat /\ (Times(x, s) = 0 <=> \A i \in 1 .. Len(s) : s[i] # x)
  <1> DEFINE P == {i \in 1 .. Len(s) : s[i] = x}
  <1>1. Len(s) \in Nat
    OBVIOUS
  <1>2. IsFiniteSet(P) /\ Cardinality(P) \in Nat /\ Times(x, s) = Cardinality(P)
    BY <1>1, UptoType DEF Upto, Times
  <1>3. Cardinality(P) = 0 <=> P = {}
    <2> HIDE DEF P
    <2> QED
      BY <1>2, FS_EmptySet
  <1> QED
    BY <1>2, <1>3

\* Nothing is in an empty list.
LEMMA TimesEmpty == ASSUME NEW x PROVE Times(x, <<>>) = 0
  BY UptoZero DEF Times

\* One more at the end.
LEMMA TimesAppend ==
    ASSUME NEW D, NEW s \in Seq(D), NEW y \in D, NEW x
    PROVE  Times(x, Append(s, y)) = Times(x, s) + Same(y, x)
  <1> DEFINE t == Append(s, y)
  <1>1. Len(s) \in Nat /\ Len(t) = Len(s) + 1 /\ t[Len(s) + 1] = y /\ \A i \in 1 .. Len(s) : t[i] = s[i]
    OBVIOUS
  <1> HIDE DEF t
  <1>2. Upto(x, t, Len(s)) = Upto(x, s, Len(s))
    BY <1>1, UptoSame
  <1>3. Upto(x, t, Len(s) + 1) = Upto(x, t, Len(s)) + Same(t[Len(s) + 1], x)
    BY <1>1, UptoNext
  <1> QED
    BY <1>1, <1>2, <1>3 DEF Times, t

\* A list after another.
LEMMA TimesConcat ==
    ASSUME NEW D, NEW s \in Seq(D), NEW t \in Seq(D), NEW x
    PROVE  Times(x, s \o t) = Times(x, s) + Times(x, t)
  <1> DEFINE T(n) == \A u \in Seq(D) : Len(u) = n => Times(x, s \o u) = Times(x, s) + Times(x, u)
             S == {n \in Nat : T(n)}
  <1>0. \A u \in Seq(D) : Times(x, u) \in Nat
    BY TimesZero
  <1>1. T(0)
    <2> SUFFICES ASSUME NEW u \in Seq(D), Len(u) = 0
                 PROVE  Times(x, s \o u) = Times(x, s) + Times(x, u)
      OBVIOUS
    <2>1. u = <<>> /\ s \o <<>> = s
      OBVIOUS
    <2>2. Times(x, s) \in Nat
      BY <1>0
    <2> QED
      BY <2>1, <2>2, TimesEmpty
  <1>2. ASSUME NEW n \in Nat, T(n)
        PROVE  T(n + 1)
    <2> SUFFICES ASSUME NEW u \in Seq(D), Len(u) = n + 1
                 PROVE  Times(x, s \o u) = Times(x, s) + Times(x, u)
      OBVIOUS
    <2> DEFINE v == SubSeq(u, 1, n)
               y == u[n + 1]
    <2>1. v \in Seq(D) /\ Len(v) = n /\ y \in D /\ u = Append(v, y)
      BY SplitLast
    <2> HIDE DEF v, y
    <2>2. s \o v \in Seq(D) /\ s \o Append(v, y) = Append(s \o v, y)
      BY <2>1, Concatenation
    <2>3. Times(x, s \o v) = Times(x, s) + Times(x, v)
      BY <1>2, <2>1
    <2>4. Times(x, Append(s \o v, y)) = Times(x, s \o v) + Same(y, x)
      BY <2>1, <2>2, TimesAppend
    <2>5. Times(x, u) = Times(x, v) + Same(y, x)
      BY <2>1, TimesAppend
    <2>6. Times(x, s) \in Nat /\ Times(x, v) \in Nat /\ Same(y, x) \in Nat
      BY <1>0, <2>1 DEF Same
    <2>7. Times(x, s \o u) = Times(x, s \o v) + Same(y, x)
      BY <2>1, <2>2, <2>4
    <2> QED
      BY <2>3, <2>5, <2>6, <2>7
  <1> HIDE DEF T
  <1>3. 0 \in S /\ \A n \in S : n + 1 \in S
    BY <1>1, <1>2
  <1>4. Len(t) \in S
    <2> HIDE DEF S
    <2>1. S \in SUBSET Nat
      BY DEF S
    <2> QED
      BY <1>3, <2>1, Induction
  <1> QED
    BY <1>4 DEF T

\* A list and its first.
LEMMA TimesTail ==
    ASSUME NEW D, NEW s \in Seq(D), s # <<>>, NEW x
    PROVE  /\ Head(s) \in D /\ Tail(s) \in Seq(D)
           /\ Times(x, s) = Same(Head(s), x) + Times(x, Tail(s))
           /\ Times(x, <<Head(s)>>) = Same(Head(s), x)
  <1>1. Head(s) \in D /\ Tail(s) \in Seq(D) /\ <<Head(s)>> \in Seq(D) /\ <<Head(s)>> \o Tail(s) = s
    OBVIOUS
  <1>2. <<Head(s)>> = Append(<<>>, Head(s)) /\ <<>> \in Seq(D)
    OBVIOUS
  <1>3. Times(x, <<Head(s)>>) = Times(x, <<>>) + Same(Head(s), x)
    BY <1>1, <1>2, TimesAppend, ZenonT(30)
  <1>4. Times(x, <<Head(s)>>) = Same(Head(s), x)
    BY <1>3, TimesEmpty DEF Same
  <1>5. Times(x, <<Head(s)>> \o Tail(s)) = Times(x, <<Head(s)>>) + Times(x, Tail(s))
    BY <1>1, TimesConcat
  <1> QED
    BY <1>1, <1>4, <1>5

-----------------------------------------------------------------------------
(* What a filtered list holds. *)

Gather(S, x, kept) == IF x \in S THEN Append(kept, x) ELSE kept

\* The recursion of Only, over the first n of s.
Gathers(S, s, n, kept) ==
    kept = [i \in 0 .. n |-> IF i = 0 THEN <<>> ELSE Gather(S, s[i], kept[i - 1])]

\* Only is that recursion.
LEMMA OnlyIs ==
    ASSUME NEW S, NEW s
    PROVE  Talk!Only(S, s) = (CHOOSE kept : Gathers(S, s, Len(s), kept))[Len(s)]
  BY Zenon DEF Talk!Only, Gathers, Gather

\* The recursion has a solution.
LEMMA GathersExists ==
    ASSUME NEW s, NEW S, NEW n \in Nat
    PROVE  \E kept : Gathers(S, s, n, kept)
  <1> DEFINE N == {m \in Nat : \E kept : Gathers(S, s, m, kept)}
  <1>1. 0 \in N
    <2>1. Gathers(S, s, 0, [i \in 0 .. 0 |-> <<>>])
      BY DEF Gathers
    <2> QED
      BY <2>1
  <1>2. ASSUME NEW m \in N
        PROVE  m + 1 \in N
    <2>1. PICK k : Gathers(S, s, m, k)
      OBVIOUS
    <2> DEFINE l == [i \in 0 .. m + 1 |-> IF i <= m THEN k[i] ELSE Gather(S, s[m + 1], k[m])]
    <2>2. \A i \in 0 .. m : k[i] = IF i = 0 THEN <<>> ELSE Gather(S, s[i], k[i - 1])
      BY <2>1 DEF Gathers
    <2>3. \A i \in 0 .. m + 1 : l[i] = IF i = 0 THEN <<>> ELSE Gather(S, s[i], l[i - 1])
      BY <2>2
    <2>4. Gathers(S, s, m + 1, l)
      BY <2>3 DEF Gathers
    <2> QED
      BY <2>4
  <1>3. \A m \in Nat : m \in N
    <2>1. N \in SUBSET Nat
      OBVIOUS
    <2> HIDE DEF N
    <2> QED
      BY <1>1, <1>2, <2>1, Induction
  <1> QED
    BY <1>3

\* Only keeps each of S as often as it is in the list, and nothing else.
LEMMA OnlyTimes ==
    ASSUME NEW D, NEW s \in Seq(D), NEW S
    PROVE  /\ Talk!Only(S, s) \in Seq(D)
           /\ \A x : Times(x, Talk!Only(S, s)) = IF x \in S THEN Times(x, s) ELSE 0
  <1> DEFINE k == CHOOSE kept : Gathers(S, s, Len(s), kept)
             N == {i \in Nat : i <= Len(s) => /\ k[i] \in Seq(D)
                                              /\ \A x : Times(x, k[i]) = IF x \in S THEN Upto(x, s, i) ELSE 0}
  <1>1. Len(s) \in Nat /\ Gathers(S, s, Len(s), k)
    <2>1. Len(s) \in Nat
      OBVIOUS
    <2>2. \E kept : Gathers(S, s, Len(s), kept)
      BY <2>1, GathersExists
    <2> QED
      BY <2>1, <2>2
  <1>2. Talk!Only(S, s) = k[Len(s)]
    BY OnlyIs
  <1> HIDE DEF k
  <1>3. 0 \in N
    <2>1. k[0] = <<>>
      BY <1>1 DEF Gathers
    <2>2. \A x : Times(x, <<>>) = 0 /\ Upto(x, s, 0) = 0
      BY TimesEmpty, UptoZero
    <2>3. k[0] \in Seq(D) /\ \A x : Times(x, k[0]) = IF x \in S THEN Upto(x, s, 0) ELSE 0
      BY <2>1, <2>2
    <2> QED
      BY <2>3, Zenon
  <1>4. ASSUME NEW i \in N
        PROVE  i + 1 \in N
    <2> SUFFICES ASSUME i + 1 <= Len(s)
                 PROVE  /\ k[i + 1] \in Seq(D)
                        /\ \A x : Times(x, k[i + 1]) = IF x \in S THEN Upto(x, s, i + 1) ELSE 0
      OBVIOUS
    <2>1. /\ i \in Nat /\ k[i] \in Seq(D) /\ s[i + 1] \in D
          /\ \A x : Times(x, k[i]) = IF x \in S THEN Upto(x, s, i) ELSE 0
      BY <1>1
    <2>2. k[i + 1] = Gather(S, s[i + 1], k[i])
      BY <1>1, <2>1 DEF Gathers
    <2> HIDE DEF N
    <2>3. \A x : Upto(x, s, i + 1) = Upto(x, s, i) + Same(s[i + 1], x) /\ Upto(x, s, i) \in Nat
      BY <2>1, UptoNext, UptoType
    <2>4. CASE s[i + 1] \in S
      <3>1. k[i + 1] = Append(k[i], s[i + 1])
        BY <2>2, <2>4 DEF Gather
      <3>2. Append(k[i], s[i + 1]) \in Seq(D) /\ \A x : Times(x, Append(k[i], s[i + 1])) = Times(x, k[i]) + Same(s[i + 1], x)
        BY <2>1, TimesAppend
      <3> QED
        BY <2>1, <2>3, <2>4, <3>1, <3>2 DEF Same
    <2>5. CASE s[i + 1] \notin S
      BY <2>1, <2>2, <2>3, <2>5 DEF Gather, Same
    <2> QED
      BY <2>4, <2>5
  <1>5. Len(s) \in N
    <2>1. N \in SUBSET Nat
      OBVIOUS
    <2> HIDE DEF N
    <2> QED
      BY <1>1, <1>3, <1>4, <2>1, Induction
  <1> QED
    BY <1>1, <1>2, <1>5 DEF Times

\* A list with nothing of S gives nothing.
LEMMA OnlyNone ==
    ASSUME NEW D, NEW s \in Seq(D), NEW S, \A x \in S : Times(x, s) = 0
    PROVE  Talk!Only(S, s) = <<>>
  <1> DEFINE t == Talk!Only(S, s)
  <1>1. t \in Seq(D) /\ \A x : Times(x, t) = 0
    BY OnlyTimes
  <1> HIDE DEF t
  <1>2. \A x : \A i \in 1 .. Len(t) : t[i] # x
    BY <1>1, TimesZero
  <1>3. t = <<>>
    <2>1. ASSUME t # <<>> PROVE FALSE
      <3>1. 1 \in 1 .. Len(t)
        BY <1>1, <2>1
      <3> QED
        BY <1>2, <3>1
    <2> QED
      BY <2>1
  <1> QED
    BY <1>3 DEF t

\* Conversation counts what its sets hold as the library does.
LEMMA SameCount == \A S : Talk!Cardinality(S) = Cardinality(S)
  BY Zenon DEF Talk!Cardinality, Cardinality, Talk!IsFiniteSet, IsFiniteSet

\* And how often a message is in a list alike.
LEMMA OccursIsTimes ==
    ASSUME NEW D, NEW s \in Seq(D), NEW x
    PROVE  Talk!Occurs(x, s) = Times(x, s)
  <1>1. DOMAIN s = 1 .. Len(s)
    OBVIOUS
  <1> QED
    BY <1>1, SameCount DEF Talk!Occurs, Times, Upto

-----------------------------------------------------------------------------
(* The state of the conversation. *)

Messages == [of : Socket \union {Nobody}, kind : Talk!Kinds, queued : BOOLEAN, fate : Talk!Fates]
Readers == [pc : {"open", "telling", "settling", "ended"}, msg : Talk!Message \union {Talk!None}, card : BOOLEAN]
Loops == [pc : {"idle", "waiting", "held", "turn"} \union Talk!Ended,
          msg : Talk!Message \union {Talk!None}, told : BOOLEAN]
Turns == [pc : {"none", "model", "batch", "top", "storing", "telling", "ending"}, requests : 0 .. MaxRequests]
Inboxes == [Socket -> Seq(Talk!Message \union {Talk!Closed})]

\* The type of Conversation's state, in these terms.
TalkShape ==
    /\ msg \in [Talk!Message -> Messages] /\ reader \in [Socket -> Readers] /\ inbox \in Inboxes
    /\ main \in [Socket -> Loops] /\ turn \in Turns
    /\ lockq \in Seq(Socket) /\ holder \in Socket \union {Nobody} /\ boxOpen \in BOOLEAN
    /\ box \in Seq(Talk!Message) /\ pending \in Seq(Talk!Message) /\ storing \in Talk!Message \union {Talk!None}
    /\ gaveUp \in [Socket -> BOOLEAN]

\* That is the type of Conversation's state.
LEMMA ShapeIsType == TalkShape <=> Talk!TypeOK
  BY Zenon DEF Talk!TypeOK, TalkShape, Messages, Readers, Loops, Turns, Inboxes

-----------------------------------------------------------------------------
(* The lock, the box and the turn. *)

\* A loop that waits is in the lock's queue once, one that holds the lock or runs its turn is the
\* holder, and has its message until the turn has it.
Queued ==
    \A s \in Socket :
        /\ Times(s, lockq) = Same(main[s].pc, "waiting")
        /\ main[s].pc \in {"held", "turn"} => holder = s
        /\ main[s].pc \in {"waiting", "held"} <=> main[s].msg # Talk!None
        /\ reader[s].pc = "telling" => reader[s].msg # Talk!None
        /\ reader[s].pc \in {"open", "settling"} => reader[s].msg = Talk!None

\* A turn that runs is the holder's; without one the box is closed and empty; what the turn has read
\* it has stored or given back before it ends.
Turning ==
    /\ turn.pc # "none" => holder \in Socket /\ main[holder].pc = "turn"
    /\ turn.pc = "none" => ~boxOpen
    /\ ~boxOpen => box = <<>>
    /\ turn.pc \in {"none", "ending"} => pending = <<>>
    /\ turn.pc = "storing" <=> storing # Talk!None
    /\ turn.pc \in {"batch", "top", "storing", "telling"} => turn.requests < MaxRequests

-----------------------------------------------------------------------------
(* The places of a message, and the close of a socket. *)

\* How often a message is with a socket: in its inbox, with its reader, with its loop.
AtSocket(m, s) == Times(m, inbox[s]) + Same(reader[s].msg, m) + Same(main[s].msg, m)

\* How often it is with a turn: in the box, read, being stored, or part of one.
AtTurn(m) ==
    Times(m, box) + Times(m, pending) + Same(storing, m)
      + IF msg[m].fate \in {"unsent", "sent"} THEN 0 ELSE 1

\* A message is with the socket that sent it or with a turn, once; before it is sent it is nowhere.
Placed ==
    \A m \in Talk!Message :
        /\ msg[m].of = Nobody <=> msg[m].fate = "unsent"
        /\ msg[m].of = Nobody => AtTurn(m) = 0
        /\ \A s \in Socket : AtSocket(m, s) = IF msg[m].of = s THEN 1 - AtTurn(m) ELSE 0

\* The close is the last thing in an inbox, and there once.
ClosedLast(q) == q # <<>> /\ \A i \in 1 .. Len(q) : q[i] = Talk!Closed <=> i = Len(q)

\* Nothing of s is in the box; nothing of s is with the turn that read it.
NoneBoxed(s) == \A m \in Talk!Message : msg[m].of = s => Times(m, box) = 0
NoneTaken(s) == \A m \in Talk!Message : msg[m].of = s => Times(m, pending) = 0 /\ storing # m

\* While the reader lives the inbox has no close and the loop goes on.  A socket that is going has taken
\* its messages out of the box.  One that has gone in time has nothing with a turn either, and its close
\* comes after all its messages.
Closing ==
    \A s \in Socket :
        /\ reader[s].pc # "ended" =>
             Times(Talk!Closed, inbox[s]) = 0 /\ ~gaveUp[s] /\ main[s].pc \notin Talk!Ended
        /\ reader[s].pc \in {"settling", "ended"} /\ main[s].pc # "failed" =>
             reader[s].msg = Talk!None /\ NoneBoxed(s)
        /\ reader[s].pc = "ended" /\ main[s].pc \notin Talk!Ended /\ ~gaveUp[s] =>
             ClosedLast(inbox[s]) /\ NoneTaken(s)

TalkInv == TalkShape /\ Queued /\ Turning /\ Placed /\ Closing /\ Talk!CloseLosesNothing

-----------------------------------------------------------------------------
(* What the pieces of the actions change. *)

\* What becomes of a message.
LEMMA FateChanges ==
    ASSUME TalkShape, NEW m \in Talk!Message, NEW f \in Talk!Fates, Talk!Become(m, f)
    PROVE  /\ msg' \in [Talk!Message -> Messages]
           /\ \A n \in Talk!Message : msg'[n].of = msg[n].of /\ msg'[n].fate = IF n = m THEN f ELSE msg[n].fate
  BY DEF TalkShape, Talk!Become, Messages

\* The reader goes to another place.
LEMMA ReaderGoes ==
    ASSUME TalkShape, NEW s \in Socket, NEW p \in {"open", "telling", "settling", "ended"},
           reader' = [reader EXCEPT ![s].pc = p]
    PROVE  /\ reader' \in [Socket -> Readers]
           /\ \A t \in Socket : reader'[t].msg = reader[t].msg /\ reader'[t].pc = IF t = s THEN p ELSE reader[t].pc
  BY DEF TalkShape, Readers

\* The reader reads on.
LEMMA ReaderReads ==
    ASSUME TalkShape, NEW s \in Socket, reader' = [reader EXCEPT ![s] = Talk!Reading]
    PROVE  /\ reader' \in [Socket -> Readers]
           /\ reader'[s].pc = "open" /\ reader'[s].msg = Talk!None
           /\ \A t \in Socket \ {s} : reader'[t] = reader[t]
  BY DEF TalkShape, Readers, Talk!Reading

\* The endpoint ends.
LEMMA Leaves ==
    ASSUME TalkShape, NEW s \in Socket, NEW how \in Talk!Ended, Talk!Leave(s, how)
    PROVE  /\ reader' \in [Socket -> Readers] /\ main' \in [Socket -> Loops]
           /\ \A t \in Socket : reader'[t].msg = reader[t].msg /\ reader'[t].pc = IF t = s THEN "ended" ELSE reader[t].pc
           /\ main'[s].pc = how /\ main'[s].msg = Talk!None
           /\ \A t \in Socket \ {s} : main'[t] = main[t]
  <1>1. reader' = [reader EXCEPT ![s].pc = "ended"] /\ main' = [main EXCEPT ![s] = [Talk!Idle EXCEPT !.pc = how]]
    BY DEF Talk!Leave
  <1>2. [Talk!Idle EXCEPT !.pc = how] \in Loops /\ [Talk!Idle EXCEPT !.pc = how].pc = how
        /\ [Talk!Idle EXCEPT !.pc = how].msg = Talk!None
    BY DEF Talk!Idle, Loops
  <1>3. main \in [Socket -> Loops]
    BY DEF TalkShape
  <1>4. main' \in [Socket -> Loops] /\ main'[s] = [Talk!Idle EXCEPT !.pc = how] /\ \A t \in Socket \ {s} : main'[t] = main[t]
    BY <1>1, <1>2, <1>3
  <1> QED
    BY <1>1, <1>2, <1>4, ReaderGoes

\* The turn goes to another place.
LEMMA TurnGoes ==
    ASSUME TalkShape, NEW p \in {"none", "model", "batch", "top", "storing", "telling", "ending"},
           turn' = [turn EXCEPT !.pc = p]
    PROVE  turn' \in Turns /\ turn'.pc = p /\ turn'.requests = turn.requests
  BY DEF TalkShape, Turns

\* A turn begins with the message of the loop that holds the lock.
LEMMA Opens ==
    ASSUME Talk!ConversationAssumption, TalkShape, NEW s \in Socket, main[s].msg \in Talk!Message, Talk!Open(s)
    PROVE  /\ msg' \in [Talk!Message -> Messages] /\ main' \in [Socket -> Loops]
           /\ turn' \in Turns /\ turn'.pc = "model" /\ boxOpen' = TRUE /\ box' = <<>>
           /\ \A n \in Talk!Message : msg'[n].of = msg[n].of /\ msg'[n].fate = IF n = main[s].msg THEN "turn" ELSE msg[n].fate
           /\ main'[s].pc = "turn" /\ main'[s].msg = Talk!None
           /\ \A t \in Socket \ {s} : main'[t] = main[t]
  <1>1. "turn" \in Talk!Fates /\ Talk!Become(main[s].msg, "turn")
    BY DEF Talk!Open, Talk!Fates
  <1>2. main' = [main EXCEPT ![s] = [Talk!Idle EXCEPT !.pc = "turn"]] /\ main \in [Socket -> Loops]
    BY DEF TalkShape, Talk!Open
  <1>3. [Talk!Idle EXCEPT !.pc = "turn"] \in Loops /\ [Talk!Idle EXCEPT !.pc = "turn"].pc = "turn"
        /\ [Talk!Idle EXCEPT !.pc = "turn"].msg = Talk!None
    BY DEF Talk!Idle, Loops
  <1>4. turn' \in Turns /\ turn'.pc = "model" /\ boxOpen' = TRUE /\ box' = <<>>
    BY DEF Talk!Open, Turns, Talk!ConversationAssumption
  <1>5. main' \in [Socket -> Loops] /\ main'[s] = [Talk!Idle EXCEPT !.pc = "turn"] /\ \A t \in Socket \ {s} : main'[t] = main[t]
    BY <1>2, <1>3
  <1> QED
    BY <1>1, <1>3, <1>4, <1>5, FateChanges

\* A message more in an inbox.
LEMMA PutCounts ==
    ASSUME TalkShape, NEW s \in Socket, NEW y \in Talk!Message \union {Talk!Closed}, Talk!Put(s, y)
    PROVE  /\ inbox' \in Inboxes
           /\ \A x : \A t \in Socket :
                Times(x, inbox'[t]) = Times(x, inbox[t]) + IF t = s THEN Same(y, x) ELSE 0
  <1> DEFINE D == Talk!Message \union {Talk!Closed}
  <1>1. inbox \in [Socket -> Seq(D)] /\ inbox' = [inbox EXCEPT ![s] = Append(inbox[s], y)]
    BY DEF TalkShape, Inboxes, Talk!Put
  <1> HIDE DEF D, Inboxes
  <1>2. y \in D
    BY DEF D, Inboxes
  <1>3. inbox' \in [Socket -> Seq(D)]
    BY <1>1, <1>2
  <1>4. ASSUME NEW x, NEW t \in Socket
        PROVE  Times(x, inbox'[t]) = Times(x, inbox[t]) + IF t = s THEN Same(y, x) ELSE 0
    <2>1. Times(x, inbox[t]) \in Nat
      BY <1>1, TimesZero
    <2>2. CASE t = s
      <3>1. inbox'[t] = Append(inbox[s], y) /\ inbox[s] \in Seq(D)
        BY <1>1, <2>2
      <3>2. Times(x, Append(inbox[s], y)) = Times(x, inbox[s]) + Same(y, x)
        BY <1>2, <3>1, TimesAppend
      <3> QED
        BY <2>2, <3>1, <3>2
    <2>3. CASE t # s
      <3>1. inbox'[t] = inbox[t]
        BY <1>1, <2>3
      <3> QED
        BY <2>1, <2>3, <3>1
    <2> QED
      BY <2>2, <2>3
  <1> QED
    BY <1>3, <1>4 DEF D, Inboxes

\* The first message is taken from an inbox.
LEMMA TakeCounts ==
    ASSUME TalkShape, NEW s \in Socket, inbox[s] # <<>>, inbox' = [inbox EXCEPT ![s] = Tail(@)]
    PROVE  /\ inbox' \in Inboxes
           /\ Head(inbox[s]) \in Talk!Message \union {Talk!Closed}
           /\ \A x : \A t \in Socket :
                Times(x, inbox[t]) = Times(x, inbox'[t]) + IF t = s THEN Same(Head(inbox[s]), x) ELSE 0
  <1> DEFINE D == Talk!Message \union {Talk!Closed}
  <1>1. inbox \in [Socket -> Seq(D)] /\ inbox' = [inbox EXCEPT ![s] = Tail(inbox[s])]
    BY DEF TalkShape, Inboxes
  <1> HIDE DEF D, Inboxes
  <1>2. Tail(inbox[s]) \in Seq(D) /\ Head(inbox[s]) \in D
    BY <1>1
  <1>3. inbox' \in [Socket -> Seq(D)]
    BY <1>1, <1>2
  <1>4. ASSUME NEW x, NEW t \in Socket
        PROVE  Times(x, inbox[t]) = Times(x, inbox'[t]) + IF t = s THEN Same(Head(inbox[s]), x) ELSE 0
    <2>1. Times(x, inbox[t]) \in Nat /\ Times(x, inbox'[t]) \in Nat
      BY <1>1, <1>3, TimesZero
    <2>2. CASE t = s
      <3>1. inbox'[t] = Tail(inbox[s]) /\ inbox[s] \in Seq(D)
        BY <1>1, <2>2
      <3>2. Times(x, inbox[s]) = Same(Head(inbox[s]), x) + Times(x, Tail(inbox[s]))
        BY <3>1, TimesTail
      <3> QED
        BY <2>1, <2>2, <3>1, <3>2 DEF Same
    <2>3. CASE t # s
      <3>1. inbox'[t] = inbox[t]
        BY <1>1, <2>3
      <3> QED
        BY <2>1, <2>3, <3>1
    <2> QED
      BY <2>2, <2>3
  <1> QED
    BY <1>2, <1>3, <1>4 DEF D, Inboxes

\* Messages handed back go to the socket that sent them.
LEMMA HandBackCounts ==
    ASSUME TalkShape, NEW q \in Seq(Talk!Message)
    PROVE  /\ Talk!HandBack(q) \in Inboxes
           /\ \A t \in Socket : Talk!Mine(t, q) \in Seq(Talk!Message)
           /\ \A x \in Talk!Message : \A t \in Socket :
                Times(x, Talk!HandBack(q)[t]) = Times(x, inbox[t]) + IF msg[x].of = t THEN Times(x, q) ELSE 0
  <1> DEFINE D == Talk!Message \union {Talk!Closed}
  <1>1. inbox \in [Socket -> Seq(D)] /\ Talk!HandBack(q) = [t \in Socket |-> inbox[t] \o Talk!Mine(t, q)]
    BY DEF TalkShape, Inboxes, Talk!HandBack
  <1>2. q \in Seq(D)
    OBVIOUS
  <1> HIDE DEF D, Inboxes
  <1>3. ASSUME NEW t \in Socket
        PROVE  /\ Talk!Mine(t, q) \in Seq(D) /\ Talk!Mine(t, q) \in Seq(Talk!Message)
               /\ \A x : Times(x, Talk!Mine(t, q)) = IF x \in Talk!Sent(t) THEN Times(x, q) ELSE 0
    BY <1>2, OnlyTimes DEF Talk!Mine
  <1>4. Talk!HandBack(q) \in [Socket -> Seq(D)]
    BY <1>1, <1>3
  <1>5. ASSUME NEW x \in Talk!Message, NEW t \in Socket
        PROVE  Times(x, Talk!HandBack(q)[t]) = Times(x, inbox[t]) + IF msg[x].of = t THEN Times(x, q) ELSE 0
    <2>1. Talk!HandBack(q)[t] = inbox[t] \o Talk!Mine(t, q) /\ inbox[t] \in Seq(D)
      BY <1>1
    <2>2. Times(x, inbox[t] \o Talk!Mine(t, q)) = Times(x, inbox[t]) + Times(x, Talk!Mine(t, q))
      BY <1>3, <2>1, TimesConcat
    <2>3. x \in Talk!Sent(t) <=> msg[x].of = t
      BY DEF Talk!Sent
    <2> QED
      BY <1>3, <2>1, <2>2, <2>3
  <1> QED
    BY <1>3, <1>4, <1>5 DEF D, Inboxes

\* What is left in a box when a socket has withdrawn, and what it took.
LEMMA WithdrawCounts ==
    ASSUME TalkShape, NEW s \in Socket
    PROVE  /\ Talk!Others(s, box) \in Seq(Talk!Message) /\ Talk!Mine(s, box) \in Seq(Talk!Message)
           /\ \A x \in Talk!Message :
                /\ Times(x, Talk!Others(s, box)) = IF msg[x].of = s THEN 0 ELSE Times(x, box)
                /\ Times(x, Talk!Mine(s, box)) = IF msg[x].of = s THEN Times(x, box) ELSE 0
  <1>1. box \in Seq(Talk!Message)
    BY DEF TalkShape
  <1>2. /\ Talk!Others(s, box) \in Seq(Talk!Message)
        /\ \A x : Times(x, Talk!Others(s, box)) = IF x \in Talk!Message \ Talk!Sent(s) THEN Times(x, box) ELSE 0
    BY <1>1, OnlyTimes DEF Talk!Others
  <1>3. /\ Talk!Mine(s, box) \in Seq(Talk!Message)
        /\ \A x : Times(x, Talk!Mine(s, box)) = IF x \in Talk!Sent(s) THEN Times(x, box) ELSE 0
    BY <1>1, OnlyTimes DEF Talk!Mine
  <1>4. \A x \in Talk!Message : x \in Talk!Sent(s) <=> msg[x].of = s
    BY DEF Talk!Sent
  <1> QED
    BY <1>2, <1>3, <1>4

\* A list after another in an inbox.
LEMMA JoinCounts ==
    ASSUME TalkShape, NEW s \in Socket, NEW q \in Seq(Talk!Message \union {Talk!Closed}),
           inbox' = [inbox EXCEPT ![s] = inbox[s] \o q]
    PROVE  /\ inbox' \in Inboxes /\ inbox'[s] = inbox[s] \o q /\ \A t \in Socket \ {s} : inbox'[t] = inbox[t]
           /\ \A x : \A t \in Socket : Times(x, inbox'[t]) = Times(x, inbox[t]) + IF t = s THEN Times(x, q) ELSE 0
  <1> DEFINE D == Talk!Message \union {Talk!Closed}
  <1>1. inbox \in [Socket -> Seq(D)]
    BY DEF TalkShape, Inboxes
  <1> HIDE DEF D
  <1>2. q \in Seq(D)
    BY DEF D
  <1>3. inbox' \in [Socket -> Seq(D)] /\ inbox'[s] = inbox[s] \o q /\ \A t \in Socket \ {s} : inbox'[t] = inbox[t]
    BY <1>1, <1>2
  <1>4. ASSUME NEW x, NEW t \in Socket
        PROVE  Times(x, inbox'[t]) = Times(x, inbox[t]) + IF t = s THEN Times(x, q) ELSE 0
    <2>1. Times(x, inbox[t]) \in Nat /\ inbox[s] \in Seq(D)
      BY <1>1, TimesZero
    <2>2. Times(x, inbox[s] \o q) = Times(x, inbox[s]) + Times(x, q)
      BY <1>2, <2>1, TimesConcat
    <2> QED
      BY <1>3, <2>1, <2>2
  <1> QED
    BY <1>3, <1>4 DEF D, Inboxes

\* The counts are numbers.
LEMMA CountsAreNat ==
    ASSUME TalkShape
    PROVE  /\ \A x : Times(x, box) \in Nat /\ Times(x, pending) \in Nat /\ Times(x, lockq) \in Nat
           /\ \A x : \A t \in Socket : Times(x, inbox[t]) \in Nat
  BY TimesZero DEF TalkShape, Inboxes

\* What a turn has taken.
LEMMA TakenIs ==
    ASSUME TalkShape
    PROVE  /\ Talk!Taken \subseteq Talk!Message
           /\ \A m \in Talk!Message : m \in Talk!Taken <=> Times(m, pending) # 0 \/ storing = m
  <1>1. pending \in Seq(Talk!Message) /\ storing \in Talk!Message \union {Talk!None}
    BY DEF TalkShape
  <1>2. Talk!None \notin Talk!Message
    BY DEF Talk!None, Talk!Message
  <1>3. \A m : m \in Talk!ToSet(pending) <=> \E i \in 1 .. Len(pending) : pending[i] = m
    BY <1>1 DEF Talk!ToSet
  <1>4. \A m : Times(m, pending) = 0 <=> \A i \in 1 .. Len(pending) : pending[i] # m
    BY <1>1, TimesZero
  <1>5. \A i \in 1 .. Len(pending) : pending[i] \in Talk!Message
    BY <1>1
  <1> QED
    BY <1>1, <1>2, <1>3, <1>4, <1>5 DEF Talk!Taken

\* A close at the end of a list that had none.
LEMMA CloseIsLast ==
    ASSUME NEW q \in Seq(Talk!Message \union {Talk!Closed}), Times(Talk!Closed, q) = 0
    PROVE  ClosedLast(Append(q, Talk!Closed))
  <1> DEFINE t == Append(q, Talk!Closed)
  <1>1. \A i \in 1 .. Len(q) : q[i] # Talk!Closed
    BY TimesZero
  <1>2. t # <<>> /\ Len(q) \in Nat /\ Len(t) = Len(q) + 1 /\ t[Len(q) + 1] = Talk!Closed /\ \A i \in 1 .. Len(q) : t[i] = q[i]
    OBVIOUS
  <1> HIDE DEF t
  <1>3. \A i \in 1 .. Len(q) + 1 : i \in 1 .. Len(q) \/ i = Len(q) + 1
    BY <1>2
  <1>4. \A i \in 1 .. Len(q) : i # Len(q) + 1
    BY <1>2
  <1>5. ClosedLast(t)
    BY <1>1, <1>2, <1>3, <1>4 DEF ClosedLast
  <1> QED
    BY <1>5 DEF t

\* A close stays last when a message before it is taken, and it is alone when it is first.
LEMMA CloseStaysLast ==
    ASSUME NEW q \in Seq(Talk!Message \union {Talk!Closed}), ClosedLast(q)
    PROVE  /\ Head(q) # Talk!Closed => ClosedLast(Tail(q))
           /\ Head(q) = Talk!Closed => \A m \in Talk!Message : Times(m, q) = 0
  <1>1. Len(q) \in Nat /\ Len(q) >= 1 /\ Head(q) = q[1] /\ Len(Tail(q)) = Len(q) - 1
        /\ \A i \in 1 .. Len(q) - 1 : Tail(q)[i] = q[i + 1]
    BY DEF ClosedLast
  <1>2. \A i \in 1 .. Len(q) : q[i] = Talk!Closed <=> i = Len(q)
    BY DEF ClosedLast
  <1>3. ASSUME Head(q) # Talk!Closed
        PROVE  ClosedLast(Tail(q))
    <2>0. 1 \in 1 .. Len(q) /\ q[1] # Talk!Closed
      BY <1>1, <1>3
    <2>1. Len(q) # 1
      BY <1>2, <2>0
    <2>3. Tail(q) # <<>>
      <3>1. Len(Tail(q)) # 0
        BY <1>1, <2>1
      <3>2. Len(<<>>) = 0
        OBVIOUS
      <3> QED
        BY <3>1, <3>2, Zenon
    <2>2. \A i \in 1 .. Len(q) - 1 : Tail(q)[i] = Talk!Closed <=> i = Len(q) - 1
      BY <1>1, <1>2
    <2> QED
      BY <1>1, <2>1, <2>2, <2>3 DEF ClosedLast
  <1>4. ASSUME Head(q) = Talk!Closed, NEW m \in Talk!Message
        PROVE  Times(m, q) = 0
    <2>0. 1 \in 1 .. Len(q) /\ q[1] = Talk!Closed
      BY <1>1, <1>4
    <2>1. Len(q) = 1
      BY <1>2, <2>0
    <2>3. m # Talk!Closed
      <3>1. Talk!Closed \notin Talk!Message
        BY DEF Talk!Message, Talk!Closed
      <3> QED
        BY <3>1
    <2>2. \A i \in 1 .. Len(q) : q[i] # m
      BY <1>1, <1>4, <2>1, <2>3
    <2> QED
      BY <2>2, TimesZero
  <1> QED
    BY <1>3, <1>4

-----------------------------------------------------------------------------
(* The reader's steps. *)

\* The close and the absent message are no messages.
LEMMA ClosedIsNone == Talk!Closed \notin Talk!Message /\ Talk!None \notin Talk!Message /\ Talk!Closed = Talk!None
  BY DEF Talk!Closed, Talk!None, Talk!Message

\* A frame comes in.
LEMMA ReceiveKeeps ==
    ASSUME Talk!ConversationAssumption, TalkInv, NEW s \in Socket, Talk!Receive(s)
    PROVE  TalkInv'
  <1> USE DEF TalkInv
  <1>1. PICK m \in Talk!Next1, k \in Talk!Kinds :
          \/ /\ k = "other" \/ ~Talk!Locked
             /\ msg' = [msg EXCEPT ![m] = [of |-> s, kind |-> k, queued |-> FALSE, fate |-> "sent"]]
             /\ Talk!Put(s, m)
             /\ UNCHANGED reader
          \/ /\ k # "other" /\ Talk!Locked
             /\ msg' = [msg EXCEPT ![m] = [of |-> s, kind |-> k, queued |-> TRUE, fate |-> "sent"]]
             /\ \E card \in BOOLEAN :
                  /\ card => holder = s /\ turn.pc = "batch"
                  /\ reader' = [reader EXCEPT ![s] = [pc |-> "telling", msg |-> m, card |-> card]]
             /\ UNCHANGED inbox
    BY DEF Talk!Receive
  <1>2. /\ reader[s].pc = "open" /\ UNCHANGED <<main, lockq, holder, boxOpen, box, turn, pending, storing, gaveUp>>
    BY DEF Talk!Receive, Talk!lockVars, Talk!boxVars, Talk!turnVars
  <1>3. m \in Talk!Message /\ msg[m].fate = "unsent" /\ s # Nobody
    BY DEF Talk!Next1, Talk!ConversationAssumption
  <1>4. /\ msg' \in [Talk!Message -> Messages] /\ msg'[m].of = s /\ msg'[m].fate = "sent"
        /\ \A n \in Talk!Message \ {m} : msg'[n] = msg[n]
    <2>1. PICK b \in BOOLEAN : msg' = [msg EXCEPT ![m] = [of |-> s, kind |-> k, queued |-> b, fate |-> "sent"]]
      BY <1>1
    <2>2. [of |-> s, kind |-> k, queued |-> b, fate |-> "sent"] \in Messages
      BY DEF Messages, Talk!Fates
    <2>3. msg \in [Talk!Message -> Messages]
      BY DEF TalkShape
    <2> QED
      BY <1>3, <2>1, <2>2, <2>3
  <1>5. msg[m].of = Nobody /\ AtTurn(m) = 0 /\ \A t \in Socket : AtSocket(m, t) = 0
    BY <1>3 DEF Placed, Talk!ConversationAssumption
  <1>6. reader[s].msg = Talk!None
    BY <1>2 DEF Queued
  <1>7. /\ reader' \in [Socket -> Readers] /\ inbox' \in Inboxes
        /\ reader'[s].pc \in {"open", "telling"} /\ (reader'[s].pc = "telling" <=> reader'[s].msg # Talk!None)
        /\ reader'[s].msg \in {m, Talk!None}
        /\ \A t \in Socket \ {s} : reader'[t] = reader[t] /\ inbox'[t] = inbox[t]
        /\ \A x \in Talk!Message : Times(x, inbox'[s]) + Same(reader'[s].msg, x) = Times(x, inbox[s]) + Same(m, x)
        /\ Times(Talk!Closed, inbox'[s]) = Times(Talk!Closed, inbox[s])
        /\ \A x : Times(x, inbox[s]) \in Nat
    <2>0. reader \in [Socket -> Readers] /\ inbox \in Inboxes /\ \A x : Times(x, inbox[s]) \in Nat
      BY CountsAreNat DEF TalkShape
    <2>1. CASE Talk!Put(s, m) /\ UNCHANGED reader
      <3>1. inbox' \in Inboxes /\ \A x : \A t \in Socket : Times(x, inbox'[t]) = Times(x, inbox[t]) + IF t = s THEN Same(m, x) ELSE 0
        BY <1>3, <2>1, PutCounts
      <3>2. \A t \in Socket \ {s} : inbox'[t] = inbox[t]
        BY <2>0, <2>1 DEF Talk!Put, Inboxes
      <3>3. Same(m, Talk!Closed) = 0 /\ \A x \in Talk!Message : Same(reader'[s].msg, x) = 0
        BY <1>3, <1>6, <2>1, ClosedIsNone DEF Same
      <3>4. \A x : Times(x, inbox'[s]) = Times(x, inbox[s]) + Same(m, x) /\ Same(m, x) \in Nat
        BY <3>1 DEF Same
      <3>5. /\ \A x \in Talk!Message : Times(x, inbox'[s]) + Same(reader'[s].msg, x) = Times(x, inbox[s]) + Same(m, x)
            /\ Times(Talk!Closed, inbox'[s]) = Times(Talk!Closed, inbox[s])
        BY <2>0, <3>3, <3>4
      <3> QED
        BY <1>2, <1>6, <2>0, <2>1, <3>1, <3>2, <3>5
    <2>2. CASE UNCHANGED inbox /\ \E card \in BOOLEAN : reader' = [reader EXCEPT ![s] = [pc |-> "telling", msg |-> m, card |-> card]]
      <3>1. PICK card \in BOOLEAN : reader' = [reader EXCEPT ![s] = [pc |-> "telling", msg |-> m, card |-> card]]
        BY <2>2
      <3>2. [pc |-> "telling", msg |-> m, card |-> card] \in Readers
        BY <1>3 DEF Readers
      <3>3. reader' \in [Socket -> Readers] /\ reader'[s].pc = "telling" /\ reader'[s].msg = m /\ \A t \in Socket \ {s} : reader'[t] = reader[t]
        BY <2>0, <3>1, <3>2
      <3> QED
        BY <1>3, <2>0, <2>2, <3>3, ClosedIsNone DEF Same
    <2> QED
      BY <1>1, <2>1, <2>2
  <1>8. TalkShape'
    BY <1>2, <1>4, <1>7 DEF TalkShape
  <1>9. Queued'
    BY <1>2, <1>7 DEF Queued
  <1>10. Turning'
    BY <1>2 DEF Turning
  <1>11. Placed'
    <2> SUFFICES ASSUME NEW n \in Talk!Message
                 PROVE  /\ msg'[n].of = Nobody <=> msg'[n].fate = "unsent"
                        /\ msg'[n].of = Nobody => AtTurn(n)' = 0
                        /\ \A t \in Socket : AtSocket(n, t)' = IF msg'[n].of = t THEN 1 - AtTurn(n)' ELSE 0
      BY DEF Placed
    <2>1. CASE n = m
      <3>1. AtTurn(m)' = 0
        BY <1>2, <1>3, <1>4, <1>5 DEF AtTurn
      <3>2. \A t \in Socket \ {s} : AtSocket(m, t)' = 0
        BY <1>2, <1>5, <1>7 DEF AtSocket
      <3>3. AtSocket(m, s)' = 1
        BY <1>2, <1>3, <1>5, <1>6, <1>7, ClosedIsNone DEF AtSocket, Same
      <3> QED
        BY <1>3, <1>4, <2>1, <3>1, <3>2, <3>3
    <2>2. CASE n # m
      <3>1. AtTurn(n)' = AtTurn(n)
        BY <1>2, <1>4, <2>2 DEF AtTurn
      <3>2. \A t \in Socket : AtSocket(n, t)' = AtSocket(n, t)
        BY <1>2, <1>6, <1>7, <2>2, ClosedIsNone DEF AtSocket, Same
      <3> QED
        BY <1>4, <2>2, <3>1, <3>2 DEF Placed
    <2> QED
      BY <2>1, <2>2
  <1>12. main[s].pc \notin Talk!Ended /\ Times(Talk!Closed, inbox'[s]) = 0
    BY <1>2, <1>3, <1>7, ClosedIsNone DEF Closing, Same
  <1>13. Closing'
    BY <1>2, <1>4, <1>7, <1>12 DEF Closing, NoneBoxed, NoneTaken
  <1>14. Talk!CloseLosesNothing'
    BY <1>2, <1>4, <1>12 DEF Talk!CloseLosesNothing, Talk!Ended
  <1> QED
    BY <1>8, <1>9, <1>10, <1>11, <1>13, <1>14

\* The message told about goes into the box or the inbox.
LEMMA ForwardKeeps ==
    ASSUME Talk!ConversationAssumption, TalkInv, NEW s \in Socket, Talk!Forward(s)
    PROVE  TalkInv'
  <1> USE DEF TalkInv
  <1> DEFINE m == reader[s].msg
  <1>1. /\ reader[s].pc = "telling" /\ reader' = [reader EXCEPT ![s] = Talk!Reading]
        /\ UNCHANGED <<msg, main, lockq, holder, boxOpen, turn, pending, storing, gaveUp>>
        /\ \/ boxOpen /\ box' = Append(box, m) /\ UNCHANGED inbox
           \/ Talk!Put(s, m) /\ UNCHANGED box
    BY DEF Talk!Forward, Talk!lockVars, Talk!turnVars
  <1>2. m \in Talk!Message
    BY <1>1 DEF Queued, TalkShape, Readers
  <1>3. /\ reader' \in [Socket -> Readers] /\ reader'[s].pc = "open" /\ reader'[s].msg = Talk!None
        /\ \A t \in Socket \ {s} : reader'[t] = reader[t]
    BY <1>1, ReaderReads
  <1>4. /\ inbox' \in Inboxes /\ box' \in Seq(Talk!Message)
        /\ \A t \in Socket \ {s} : inbox'[t] = inbox[t]
        /\ Times(Talk!Closed, inbox'[s]) = Times(Talk!Closed, inbox[s])
        /\ \A x \in Talk!Message : \/ Times(x, inbox'[s]) = Times(x, inbox[s]) + Same(m, x) /\ Times(x, box') = Times(x, box)
                                   \/ Times(x, inbox'[s]) = Times(x, inbox[s]) /\ Times(x, box') = Times(x, box) + Same(m, x)
        /\ boxOpen \/ box' = box
    <2>1. inbox \in Inboxes /\ box \in Seq(Talk!Message) /\ \A x : Times(x, inbox[s]) \in Nat /\ Times(x, box) \in Nat
      BY CountsAreNat DEF TalkShape
    <2>2. CASE boxOpen /\ box' = Append(box, m) /\ UNCHANGED inbox
      <3>1. \A x : Times(x, Append(box, m)) = Times(x, box) + Same(m, x)
        BY <1>2, <2>1, TimesAppend
      <3>2. Append(box, m) \in Seq(Talk!Message)
        BY <1>2, <2>1
      <3> QED
        BY <2>1, <2>2, <3>1, <3>2
    <2>3. CASE Talk!Put(s, m) /\ UNCHANGED box
      <3>1. inbox' \in Inboxes /\ \A x : \A t \in Socket : Times(x, inbox'[t]) = Times(x, inbox[t]) + IF t = s THEN Same(m, x) ELSE 0
        BY <1>2, <2>3, PutCounts
      <3>2. \A t \in Socket \ {s} : inbox'[t] = inbox[t]
        BY <2>1, <2>3 DEF Talk!Put, Inboxes
      <3>3. Same(m, Talk!Closed) = 0
        BY <1>2, ClosedIsNone DEF Same
      <3>4. \A x : Times(x, inbox'[s]) = Times(x, inbox[s]) + Same(m, x)
        BY <3>1
      <3>5. Times(Talk!Closed, inbox'[s]) = Times(Talk!Closed, inbox[s])
        BY <2>1, <3>3, <3>4
      <3> QED
        BY <2>1, <2>3, <3>1, <3>2, <3>4, <3>5
    <2> QED
      BY <1>1, <2>2, <2>3
  <1>5. msg[m].of = s
    <2>1. AtSocket(m, s) # 0
      BY <1>2, CountsAreNat DEF AtSocket, Same
    <2> QED
      BY <1>2, <2>1 DEF Placed
  <1> HIDE DEF m
  <1>6. TalkShape'
    BY <1>1, <1>3, <1>4 DEF TalkShape
  <1>7. Queued'
    BY <1>1, <1>3 DEF Queued
  <1>8. Turning'
    BY <1>1, <1>4 DEF Turning
  <1>9. Placed'
    <2> SUFFICES ASSUME NEW n \in Talk!Message
                 PROVE  /\ AtTurn(n)' = 0 \/ msg[n].of # Nobody
                        /\ \A t \in Socket : AtSocket(n, t)' = IF msg[n].of = t THEN 1 - AtTurn(n)' ELSE 0
      BY <1>1 DEF Placed
    <2>1. \A t \in Socket \ {s} : AtSocket(n, t)' = AtSocket(n, t)
      BY <1>1, <1>3, <1>4 DEF AtSocket
    <2>2. \/ AtSocket(n, s)' = AtSocket(n, s) /\ AtTurn(n)' = AtTurn(n)
          \/ n = m /\ AtSocket(n, s)' = AtSocket(n, s) - 1 /\ AtTurn(n)' = AtTurn(n) + 1
      <3>1. /\ Times(n, inbox[s]) \in Nat /\ Times(n, box) \in Nat /\ Times(n, pending) \in Nat
            /\ Same(storing, n) \in Nat /\ Same(main[s].msg, n) \in Nat
        BY CountsAreNat DEF Same
      <3>2. Same(reader[s].msg, n) = Same(m, n) /\ Same(reader'[s].msg, n) = 0
        BY <1>3, ClosedIsNone DEF Same, m
      <3>3. IF n = m THEN Same(m, n) = 1 ELSE Same(m, n) = 0
        BY DEF Same
      <3>4. main' = main /\ pending' = pending /\ storing' = storing /\ msg' = msg
        BY <1>1
      <3>5. \/ Times(n, inbox'[s]) = Times(n, inbox[s]) + Same(m, n) /\ Times(n, box') = Times(n, box)
            \/ Times(n, inbox'[s]) = Times(n, inbox[s]) /\ Times(n, box') = Times(n, box) + Same(m, n)
        BY <1>4
      <3> QED
        BY <3>1, <3>2, <3>3, <3>4, <3>5 DEF AtSocket, AtTurn
    <2>3. AtTurn(n) \in Nat
      BY CountsAreNat DEF AtTurn, Same
    <2>4. s # Nobody
      BY DEF Talk!ConversationAssumption
    <2> QED
      BY <1>5, <2>1, <2>2, <2>3, <2>4 DEF Placed
  <1>10. main[s].pc \notin Talk!Ended /\ Times(Talk!Closed, inbox'[s]) = 0 /\ ~gaveUp[s]
    BY <1>1, <1>4 DEF Closing
  <1>11. \A t \in Socket \ {s} : \A n \in Talk!Message : msg[n].of = t => Times(n, box') = Times(n, box)
    <2>1. ASSUME NEW t \in Socket \ {s}, NEW n \in Talk!Message, msg[n].of = t
          PROVE  Times(n, box') = Times(n, box)
      <3>1. Same(m, n) = 0
        BY <1>5, <2>1 DEF Same
      <3>2. Times(n, box) \in Nat
        BY CountsAreNat
      <3> QED
        BY <1>4, <3>1, <3>2
    <2> QED
      BY <2>1
  <1>12. Closing'
    BY <1>1, <1>3, <1>4, <1>10, <1>11 DEF Closing, NoneBoxed, NoneTaken
  <1>13. Talk!CloseLosesNothing'
    BY <1>1 DEF Talk!CloseLosesNothing
  <1> QED
    BY <1>6, <1>7, <1>8, <1>9, <1>12, <1>13

\* A socket goes: what it has in the box comes with it, and its close, unless the turn holds more.
LEMMA DisconnectKeeps ==
    ASSUME Talk!ConversationAssumption, TalkInv, NEW s \in Socket, Talk!Disconnect(s)
    PROVE  TalkInv'
  <1> USE DEF TalkInv
  <1> DEFINE mine == Talk!Mine(s, box)
  <1>1. /\ reader[s].pc = "open" /\ box' = Talk!Others(s, box)
        /\ UNCHANGED <<msg, main, lockq, holder, boxOpen, turn, pending, storing, gaveUp>>
        /\ \/ /\ \A m \in Talk!Taken : msg[m].of # s
              /\ inbox' = [inbox EXCEPT ![s] = @ \o mine \o <<Talk!Closed>>]
              /\ reader' = [reader EXCEPT ![s].pc = "ended"]
           \/ /\ inbox' = [inbox EXCEPT ![s] = @ \o mine]
              /\ reader' = [reader EXCEPT ![s].pc = "settling"]
    BY DEF Talk!Disconnect, Talk!lockVars, Talk!turnVars
  <1>2. /\ box' \in Seq(Talk!Message) /\ mine \in Seq(Talk!Message)
        /\ \A x \in Talk!Message : /\ Times(x, box') = IF msg[x].of = s THEN 0 ELSE Times(x, box)
                                   /\ Times(x, mine) = IF msg[x].of = s THEN Times(x, box) ELSE 0
    BY <1>1, WithdrawCounts
  <1>3. Times(Talk!Closed, mine) = 0
    <2>1. \A i \in 1 .. Len(mine) : mine[i] \in Talk!Message
      BY <1>2
    <2> HIDE DEF mine
    <2> QED
      BY <1>2, <2>1, TimesZero, ClosedIsNone
  <1> HIDE DEF mine
  <1>4. /\ reader' \in [Socket -> Readers] /\ reader'[s].pc \in {"settling", "ended"}
        /\ \A t \in Socket : reader'[t].msg = reader[t].msg
        /\ \A t \in Socket \ {s} : reader'[t].pc = reader[t].pc
        /\ reader'[s].msg = Talk!None
    BY <1>1, ReaderGoes DEF Queued
  <1>5. inbox \in Inboxes /\ inbox[s] \in Seq(Talk!Message \union {Talk!Closed}) /\ Times(Talk!Closed, inbox[s]) = 0
    BY <1>1 DEF TalkShape, Closing, Inboxes
  <1>6. mine \in Seq(Talk!Message \union {Talk!Closed}) /\ <<Talk!Closed>> \in Seq(Talk!Message \union {Talk!Closed})
    BY <1>2
  <1>7. \A x \in Talk!Message : Times(x, <<Talk!Closed>>) = 0
    <2>1. <<Talk!Closed>> = Append(<<>>, Talk!Closed) /\ <<>> \in Seq({Talk!Closed}) /\ Talk!Closed \in {Talk!Closed}
      OBVIOUS
    <2>2. \A x : Times(x, Append(<<>>, Talk!Closed)) = Times(x, <<>>) + Same(Talk!Closed, x)
      BY <2>1, TimesAppend
    <2> QED
      BY <2>1, <2>2, TimesEmpty, ClosedIsNone DEF Same
  <1>8. /\ inbox' \in Inboxes
        /\ \A t \in Socket \ {s} : inbox'[t] = inbox[t]
        /\ \A x \in Talk!Message : Times(x, inbox'[s]) = Times(x, inbox[s]) + Times(x, mine)
        /\ reader'[s].pc = "settling" => Times(Talk!Closed, inbox'[s]) = 0
        /\ reader'[s].pc = "ended" => ClosedLast(inbox'[s]) /\ \A m \in Talk!Taken : msg[m].of # s
    <2>1. CASE inbox' = [inbox EXCEPT ![s] = inbox[s] \o mine] /\ reader' = [reader EXCEPT ![s].pc = "settling"]
      <3>1. /\ inbox' \in Inboxes /\ \A t \in Socket \ {s} : inbox'[t] = inbox[t]
            /\ \A x : Times(x, inbox'[s]) = Times(x, inbox[s]) + Times(x, mine)
        <4>1. /\ inbox' \in Inboxes /\ \A t \in Socket \ {s} : inbox'[t] = inbox[t]
              /\ \A x : \A t \in Socket : Times(x, inbox'[t]) = Times(x, inbox[t]) + IF t = s THEN Times(x, mine) ELSE 0
          BY <1>6, <2>1, JoinCounts
        <4> QED
          BY <4>1
      <3>2. reader'[s].pc = "settling"
        BY <2>1, ReaderGoes, ZenonT(30)
      <3> QED
        BY <1>3, <1>5, <3>1, <3>2
    <2>2. CASE /\ inbox' = [inbox EXCEPT ![s] = inbox[s] \o mine \o <<Talk!Closed>>]
               /\ reader' = [reader EXCEPT ![s].pc = "ended"] /\ \A m \in Talk!Taken : msg[m].of # s
      <3> DEFINE D == Talk!Message \union {Talk!Closed}
                 q == inbox[s] \o mine
      <3>1. q \in Seq(D) /\ q \o <<Talk!Closed>> = Append(q, Talk!Closed) /\ Append(q, Talk!Closed) \in Seq(D)
        BY <1>5, <1>6
      <3>2. \A x : Times(x, q) = Times(x, inbox[s]) + Times(x, mine)
        BY <1>5, <1>6, TimesConcat
      <3>3. ClosedLast(Append(q, Talk!Closed))
        <4>1. Times(Talk!Closed, q) = 0
          BY <1>3, <1>5, <3>2
        <4>2. q \in Seq(Talk!Message \union {Talk!Closed})
          BY <3>1
        <4> HIDE DEF q
        <4> QED
          BY <4>1, <4>2, CloseIsLast
      <3>4. \A x \in Talk!Message : Times(x, Append(q, Talk!Closed)) = Times(x, q)
        <4>1. \A x : Times(x, Append(q, Talk!Closed)) = Times(x, q) + Same(Talk!Closed, x) /\ Times(x, q) \in Nat
          <5> HIDE DEF q, D
          <5>1. q \in Seq(D)
            BY <3>1
          <5>2. Talk!Closed \in D
            BY DEF D
          <5>3. \A x : Times(x, Append(q, Talk!Closed)) = Times(x, q) + Same(Talk!Closed, x)
            BY <5>1, <5>2, TimesAppend
          <5>4. \A x : Times(x, q) \in Nat
            BY <5>1, TimesZero
          <5> QED
            BY <5>3, <5>4
        <4> HIDE DEF q
        <4> QED
          BY <4>1, ClosedIsNone DEF Same
      <3>5. reader'[s].pc = "ended"
        BY <2>2, ReaderGoes, ZenonT(30)
      <3>6. inbox' = [inbox EXCEPT ![s] = Append(q, Talk!Closed)]
        BY <2>2, <3>1
      <3> HIDE DEF q
      <3>7. inbox' \in Inboxes /\ inbox'[s] = Append(q, Talk!Closed) /\ \A t \in Socket \ {s} : inbox'[t] = inbox[t]
        BY <1>5, <3>1, <3>6 DEF Inboxes
      <3> QED
        BY <2>2, <3>2, <3>3, <3>4, <3>5, <3>7
    <2> QED
      BY <1>1, <2>1, <2>2
  <1>9. TalkShape'
    BY <1>1, <1>2, <1>4, <1>8 DEF TalkShape
  <1>10. Queued'
    BY <1>1, <1>4 DEF Queued
  <1>11. Turning'
    <2>1. ASSUME ~boxOpen PROVE box' = <<>>
      <3>1. box = <<>>
        BY <2>1 DEF Turning
      <3>2. \A x \in Talk!Message : Times(x, box') = 0
        BY <1>2, <3>1, TimesEmpty
      <3>3. \A x \in Talk!Message : \A i \in 1 .. Len(box') : box'[i] # x
        BY <1>2, <3>2, TimesZero
      <3> QED
        BY <1>2, <3>3
    <2> QED
      BY <1>1, <2>1 DEF Turning
  <1>12. Placed'
    <2> SUFFICES ASSUME NEW n \in Talk!Message
                 PROVE  /\ AtTurn(n)' = 0 \/ msg[n].of # Nobody
                        /\ \A t \in Socket : AtSocket(n, t)' = IF msg[n].of = t THEN 1 - AtTurn(n)' ELSE 0
      BY <1>1 DEF Placed
    <2>1. \A t \in Socket \ {s} : AtSocket(n, t)' = AtSocket(n, t)
      BY <1>1, <1>4, <1>8 DEF AtSocket
    <2>2. IF msg[n].of = s THEN AtSocket(n, s)' = AtSocket(n, s) + Times(n, box) /\ AtTurn(n)' = AtTurn(n) - Times(n, box)
                           ELSE AtSocket(n, s)' = AtSocket(n, s) /\ AtTurn(n)' = AtTurn(n)
      <3>1. /\ Times(n, inbox[s]) \in Nat /\ Times(n, box) \in Nat /\ Times(n, pending) \in Nat
            /\ Same(storing, n) \in Nat /\ Same(main[s].msg, n) \in Nat /\ Same(reader[s].msg, n) \in Nat
        BY CountsAreNat DEF Same
      <3>2. /\ Times(n, box') = IF msg[n].of = s THEN 0 ELSE Times(n, box)
            /\ Times(n, inbox'[s]) = Times(n, inbox[s]) + IF msg[n].of = s THEN Times(n, box) ELSE 0
        BY <1>2, <1>8
      <3>3. main' = main /\ pending' = pending /\ storing' = storing /\ msg' = msg /\ reader'[s].msg = reader[s].msg
        BY <1>1, <1>4
      <3> QED
        BY <3>1, <3>2, <3>3 DEF AtSocket, AtTurn
    <2>3. AtTurn(n) \in Nat /\ Times(n, box) \in Nat
      BY CountsAreNat DEF AtTurn, Same
    <2>4. s # Nobody
      BY DEF Talk!ConversationAssumption
    <2> QED
      BY <2>1, <2>2, <2>3, <2>4 DEF Placed
  <1>13. main[s].pc \notin Talk!Ended /\ ~gaveUp[s]
    BY <1>1 DEF Closing
  <1>14. reader'[s].pc = "ended" => NoneTaken(s)
    BY <1>8, TakenIs DEF NoneTaken
  <1>15. \A t \in Socket : NoneBoxed(t) \/ t = s => NoneBoxed(t)'
    BY <1>1, <1>2 DEF NoneBoxed
  <1>16. Closing'
    BY <1>1, <1>4, <1>8, <1>13, <1>14, <1>15 DEF Closing, NoneTaken
  <1>17. Talk!CloseLosesNothing'
    BY <1>1 DEF Talk!CloseLosesNothing
  <1> QED
    BY <1>9, <1>10, <1>11, <1>12, <1>16, <1>17

\* The wait for what the turn holds is over, or out of time.
LEMMA SettledKeeps ==
    ASSUME Talk!ConversationAssumption, TalkInv, NEW s \in Socket, Talk!Settled(s)
    PROVE  TalkInv'
  <1> USE DEF TalkInv
  <1>1. /\ reader[s].pc = "settling" /\ Talk!Put(s, Talk!Closed) /\ reader' = [reader EXCEPT ![s].pc = "ended"]
        /\ gaveUp' = [gaveUp EXCEPT ![s] = \E m \in Talk!Taken : msg[m].of = s]
        /\ UNCHANGED <<msg, main, lockq, holder, boxOpen, box, turn, pending, storing>>
    BY DEF Talk!Settled, Talk!lockVars, Talk!boxVars, Talk!turnVars
  <1>2. /\ reader' \in [Socket -> Readers] /\ reader'[s].pc = "ended"
        /\ \A t \in Socket : reader'[t].msg = reader[t].msg
        /\ \A t \in Socket \ {s} : reader'[t].pc = reader[t].pc
    BY <1>1, ReaderGoes, ZenonT(30)
  <1>3. /\ inbox' \in Inboxes
        /\ \A x : \A t \in Socket : Times(x, inbox'[t]) = Times(x, inbox[t]) + IF t = s THEN Same(Talk!Closed, x) ELSE 0
    BY <1>1, PutCounts
  <1>4. /\ inbox \in Inboxes /\ inbox[s] \in Seq(Talk!Message \union {Talk!Closed})
        /\ inbox'[s] = Append(inbox[s], Talk!Closed) /\ \A t \in Socket \ {s} : inbox'[t] = inbox[t]
    BY <1>1 DEF TalkShape, Inboxes, Talk!Put
  <1>5. ClosedLast(inbox'[s])
    BY <1>1, <1>4, CloseIsLast DEF Closing
  <1>6. gaveUp' \in [Socket -> BOOLEAN] /\ \A t \in Socket \ {s} : gaveUp'[t] = gaveUp[t]
    BY <1>1 DEF TalkShape
  <1>7. ~gaveUp'[s] => NoneTaken(s)
    <2>1. gaveUp'[s] <=> \E m \in Talk!Taken : msg[m].of = s
      BY <1>1 DEF TalkShape
    <2> QED
      BY <2>1, TakenIs DEF NoneTaken
  <1>8. TalkShape'
    BY <1>1, <1>2, <1>3, <1>6 DEF TalkShape
  <1>9. Queued'
    BY <1>1, <1>2 DEF Queued
  <1>10. Turning'
    BY <1>1 DEF Turning
  <1>11. Placed'
    <2> SUFFICES ASSUME NEW n \in Talk!Message
                 PROVE  AtTurn(n)' = AtTurn(n) /\ \A t \in Socket : AtSocket(n, t)' = AtSocket(n, t)
      BY <1>1 DEF Placed
    <2>1. Same(Talk!Closed, n) = 0
      BY ClosedIsNone DEF Same
    <2>2. \A t \in Socket : Times(n, inbox'[t]) = Times(n, inbox[t])
      BY <1>3, <2>1, CountsAreNat
    <2> QED
      BY <1>1, <1>2, <2>2 DEF AtSocket, AtTurn
  <1>12. main[s].pc \notin Talk!Ended /\ NoneBoxed(s) /\ reader[s].msg = Talk!None
    BY <1>1 DEF Closing, Talk!Ended
  <1>13. Closing'
    <2>1. \A t \in Socket : (NoneBoxed(t) => NoneBoxed(t)') /\ (NoneTaken(t) => NoneTaken(t)')
      BY <1>1 DEF NoneBoxed, NoneTaken
    <2>2. ASSUME NEW t \in Socket, t # s
          PROVE  /\ reader'[t].pc = reader[t].pc /\ reader'[t].msg = reader[t].msg /\ inbox'[t] = inbox[t]
                 /\ gaveUp'[t] = gaveUp[t] /\ main'[t] = main[t]
      BY <1>1, <1>2, <1>4, <1>6, <2>2
    <2>3. reader'[s].msg = Talk!None /\ reader'[s].pc = "ended" /\ NoneBoxed(s)' /\ (~gaveUp'[s] => NoneTaken(s)')
      BY <1>2, <1>7, <1>12, <2>1
    <2> QED
      BY <1>5, <2>1, <2>2, <2>3 DEF Closing
  <1>14. Talk!CloseLosesNothing'
    BY <1>1, <1>6, <1>12 DEF Talk!CloseLosesNothing, Talk!Ended
  <1> QED
    BY <1>8, <1>9, <1>10, <1>11, <1>13, <1>14

-----------------------------------------------------------------------------
(* The steps of the endpoint's loop. *)

\* How often a message is anywhere is a number.
LEMMA PlacesAreNat ==
    ASSUME TalkShape, NEW m \in Talk!Message
    PROVE  AtTurn(m) \in Nat /\ \A s \in Socket : AtSocket(m, s) \in Nat
  BY CountsAreNat DEF AtTurn, AtSocket, Same

\* A message that moves between its socket and the turn, or within one of them, keeps its place.
LEMMA PlacedStays ==
    ASSUME Placed,
           \A n \in Talk!Message :
              /\ msg'[n].of = msg[n].of /\ (msg'[n].fate = "unsent" <=> msg[n].fate = "unsent")
              /\ AtTurn(n) \in Nat /\ AtTurn(n)' \in Nat
              /\ msg[n].of = Nobody => AtTurn(n)' = AtTurn(n)
              /\ \A t \in Socket : AtSocket(n, t)' = AtSocket(n, t) + IF msg[n].of = t THEN AtTurn(n) - AtTurn(n)' ELSE 0
    PROVE  Placed'
  BY DEF Placed

\* A message with a socket was sent by it, is there once and nowhere else.
LEMMA AtSocketOnce ==
    ASSUME Talk!ConversationAssumption, TalkShape, Placed, NEW s \in Socket, NEW m \in Talk!Message, AtSocket(m, s) # 0
    PROVE  msg[m].of = s /\ AtSocket(m, s) = 1 /\ AtTurn(m) = 0 /\ msg[m].fate = "sent"
  <1>1. AtTurn(m) \in Nat /\ AtSocket(m, s) \in Nat
    BY PlacesAreNat
  <1>2. msg[m].of = s /\ AtSocket(m, s) = 1 /\ AtTurn(m) = 0
    BY <1>1 DEF Placed
  <1>3. msg[m].fate # "unsent"
    BY <1>2 DEF Placed, Talk!ConversationAssumption
  <1>4. msg[m].fate \in {"unsent", "sent"}
    BY <1>2, CountsAreNat DEF AtTurn, Same
  <1> QED
    BY <1>2, <1>3, <1>4

\* The loop sees the close and ends.
LEMMA SeeCloseKeeps ==
    ASSUME Talk!ConversationAssumption, TalkInv, NEW s \in Socket, Talk!SeeClose(s)
    PROVE  TalkInv'
  <1> USE DEF TalkInv
  <1>1. /\ main[s].pc = "idle" /\ inbox[s] # <<>> /\ Head(inbox[s]) = Talk!Closed /\ Talk!Leave(s, "closed")
        /\ UNCHANGED <<msg, inbox, lockq, holder, boxOpen, box, turn, pending, storing, gaveUp>>
    BY DEF Talk!SeeClose, Talk!lockVars, Talk!boxVars, Talk!turnVars
  <1>2. /\ reader' \in [Socket -> Readers] /\ main' \in [Socket -> Loops]
        /\ \A t \in Socket : reader'[t].msg = reader[t].msg /\ reader'[t].pc = IF t = s THEN "ended" ELSE reader[t].pc
        /\ main'[s].pc = "closed" /\ main'[s].msg = Talk!None
        /\ \A t \in Socket \ {s} : main'[t] = main[t]
    BY <1>1, Leaves DEF Talk!Ended
  <1>3. main[s].msg = Talk!None /\ inbox[s] \in Seq(Talk!Message \union {Talk!Closed})
    BY <1>1 DEF Queued, TalkShape, Inboxes
  <1>4. Times(Talk!Closed, inbox[s]) # 0
    <2>1. Times(Talk!Closed, inbox[s]) = Same(Head(inbox[s]), Talk!Closed) + Times(Talk!Closed, Tail(inbox[s]))
          /\ Tail(inbox[s]) \in Seq(Talk!Message \union {Talk!Closed})
      BY <1>1, <1>3, TimesTail
    <2>2. Times(Talk!Closed, Tail(inbox[s])) \in Nat
      BY <2>1, TimesZero
    <2> QED
      BY <1>1, <2>1, <2>2 DEF Same
  <1>5. reader[s].pc = "ended" /\ main[s].pc \notin Talk!Ended
    BY <1>1, <1>4 DEF Closing, TalkShape, Readers, Talk!Ended
  <1>6. reader[s].msg = Talk!None /\ NoneBoxed(s)
    BY <1>1, <1>5 DEF Closing
  <1>7. ASSUME ~gaveUp[s], NEW m \in Talk!Message, msg[m].of = s
        PROVE  msg[m].fate # "sent"
    <2>1. ClosedLast(inbox[s]) /\ NoneTaken(s)
      BY <1>5, <1>7 DEF Closing
    <2>2. Times(m, inbox[s]) = 0
      BY <1>1, <1>3, <2>1, CloseStaysLast
    <2>3. AtSocket(m, s) = 0
      BY <1>3, <1>6, <2>2, ClosedIsNone DEF AtSocket, Same
    <2>4. AtTurn(m) = 1
      BY <1>7, <2>3, PlacesAreNat DEF Placed
    <2>5. Times(m, box) = 0 /\ Times(m, pending) = 0 /\ Same(storing, m) = 0
      BY <1>6, <1>7, <2>1 DEF NoneBoxed, NoneTaken, Same
    <2> QED
      BY <2>4, <2>5 DEF AtTurn
  <1>8. TalkShape'
    BY <1>1, <1>2 DEF TalkShape
  <1>9. Queued'
    BY <1>1, <1>2, <1>3 DEF Queued, Same
  <1>10. Turning'
    BY <1>1, <1>2 DEF Turning
  <1>11. Placed'
    <2>1. \A n \in Talk!Message : AtTurn(n)' = AtTurn(n)
      BY <1>1 DEF AtTurn
    <2>2. \A n \in Talk!Message : \A t \in Socket : AtSocket(n, t)' = AtSocket(n, t)
      BY <1>1, <1>2, <1>3 DEF AtSocket
    <2> QED
      BY <1>1, <2>1, <2>2 DEF Placed
  <1>12. Closing'
    <2>1. \A t \in Socket : (NoneBoxed(t) => NoneBoxed(t)') /\ (NoneTaken(t) => NoneTaken(t)')
      BY <1>1 DEF NoneBoxed, NoneTaken
    <2> QED
      BY <1>1, <1>2, <1>6, <2>1 DEF Closing, Talk!Ended
  <1>13. Talk!CloseLosesNothing'
    BY <1>1, <1>2, <1>7 DEF Talk!CloseLosesNothing
  <1> QED
    BY <1>8, <1>9, <1>10, <1>11, <1>12, <1>13

\* What taking the first message of an inbox leaves of the close.
LEMMA TakeCloses ==
    ASSUME TalkShape, Closing, NEW s \in Socket, inbox[s] # <<>>, Head(inbox[s]) \in Talk!Message,
           inbox' = [inbox EXCEPT ![s] = Tail(@)]
    PROVE  /\ \A t \in Socket : Times(Talk!Closed, inbox'[t]) = Times(Talk!Closed, inbox[t])
           /\ \A t \in Socket : ClosedLast(inbox[t]) => ClosedLast(inbox'[t])
  <1>1. inbox \in Inboxes /\ inbox[s] \in Seq(Talk!Message \union {Talk!Closed})
    BY DEF TalkShape, Inboxes
  <1>2. inbox'[s] = Tail(inbox[s]) /\ \A t \in Socket \ {s} : inbox'[t] = inbox[t]
    BY <1>1 DEF Inboxes
  <1>3. Head(inbox[s]) # Talk!Closed /\ Same(Head(inbox[s]), Talk!Closed) = 0
    BY ClosedIsNone DEF Same
  <1>4. ASSUME NEW t \in Socket
        PROVE  Times(Talk!Closed, inbox'[t]) = Times(Talk!Closed, inbox[t])
    <2>1. /\ inbox' \in Inboxes
          /\ Times(Talk!Closed, inbox[t]) = Times(Talk!Closed, inbox'[t]) + IF t = s THEN Same(Head(inbox[s]), Talk!Closed) ELSE 0
      BY TakeCounts
    <2>2. Times(Talk!Closed, inbox'[t]) \in Nat
      BY <2>1, TimesZero DEF Inboxes
    <2> QED
      BY <1>3, <2>1, <2>2
  <1>5. ClosedLast(inbox[s]) => ClosedLast(inbox'[s])
    BY <1>1, <1>2, <1>3, CloseStaysLast
  <1> QED
    BY <1>2, <1>4, <1>5

\* A frame that is only answered.
LEMMA AnswerOtherKeeps ==
    ASSUME Talk!ConversationAssumption, TalkInv, NEW s \in Socket, Talk!AnswerOther(s)
    PROVE  TalkInv'
  <1> USE DEF TalkInv
  <1> DEFINE m == Head(inbox[s])
  <1>1. /\ main[s].pc = "idle" /\ inbox[s] # <<>> /\ m \in Talk!Message /\ Talk!Become(m, "answered")
        /\ inbox' = [inbox EXCEPT ![s] = Tail(@)]
        /\ UNCHANGED <<main, reader>> \/ Talk!Leave(s, "failed")
        /\ UNCHANGED <<lockq, holder, boxOpen, box, turn, pending, storing, gaveUp>>
    BY DEF Talk!AnswerOther, Talk!lockVars, Talk!boxVars, Talk!turnVars
  <1>2. /\ msg' \in [Talk!Message -> Messages]
        /\ \A n \in Talk!Message : msg'[n].of = msg[n].of /\ msg'[n].fate = IF n = m THEN "answered" ELSE msg[n].fate
    BY <1>1, FateChanges DEF Talk!Fates
  <1>3. /\ inbox' \in Inboxes
        /\ \A x : \A t \in Socket : Times(x, inbox[t]) = Times(x, inbox'[t]) + IF t = s THEN Same(m, x) ELSE 0
    BY <1>1, TakeCounts
  <1>4. /\ \A t \in Socket : Times(Talk!Closed, inbox'[t]) = Times(Talk!Closed, inbox[t])
        /\ \A t \in Socket : ClosedLast(inbox[t]) => ClosedLast(inbox'[t])
    BY <1>1, TakeCloses
  <1>5. main[s].msg = Talk!None
    BY <1>1 DEF Queued
  <1>6. /\ reader' \in [Socket -> Readers] /\ main' \in [Socket -> Loops]
        /\ \A t \in Socket : reader'[t].msg = reader[t].msg
        /\ \A t \in Socket : main'[t].msg = main[t].msg
        /\ \A t \in Socket \ {s} : main'[t] = main[t] /\ reader'[t].pc = reader[t].pc
        /\ \/ main'[s] = main[s] /\ reader'[s].pc = reader[s].pc
           \/ main'[s].pc = "failed" /\ reader'[s].pc = "ended"
    <2>1. CASE UNCHANGED <<main, reader>>
      BY <2>1 DEF TalkShape
    <2>2. CASE Talk!Leave(s, "failed")
      <3>1. "failed" \in Talk!Ended
        BY DEF Talk!Ended
      <3> QED
        BY <1>5, <2>2, <3>1, Leaves
    <2> QED
      BY <1>1, <2>1, <2>2
  <1> HIDE DEF m
  <1>7. \A x : \A t \in Socket : Times(x, inbox'[t]) \in Nat
    BY <1>3, TimesZero DEF Inboxes
  <1>8. msg[m].of = s /\ AtTurn(m) = 0 /\ msg[m].fate = "sent" /\ m \in Talk!Message
    <2>1. Times(m, inbox[s]) = Times(m, inbox'[s]) + Same(m, m) /\ Times(m, inbox'[s]) \in Nat /\ m \in Talk!Message
      BY <1>1, <1>3, <1>7 DEF m
    <2>2. Same(m, m) = 1 /\ Same(reader[s].msg, m) \in Nat /\ Same(main[s].msg, m) \in Nat
      BY DEF Same
    <2>3. AtSocket(m, s) # 0
      BY <2>1, <2>2 DEF AtSocket
    <2> QED
      BY <2>1, <2>3, AtSocketOnce
  <1>9. TalkShape'
    BY <1>1, <1>2, <1>3, <1>6 DEF TalkShape
  <1>10. Queued'
    BY <1>1, <1>5, <1>6 DEF Queued, Same
  <1>11. Turning'
    BY <1>1, <1>6 DEF Turning
  <1>12. Placed'
    <2>1. ASSUME NEW n \in Talk!Message
          PROVE  /\ AtTurn(n) \in Nat /\ AtTurn(n)' = AtTurn(n) + Same(m, n) /\ Same(m, n) \in {0, 1}
                 /\ \A t \in Socket : AtSocket(n, t)' = AtSocket(n, t) - IF t = s THEN Same(m, n) ELSE 0
                 /\ \A t \in Socket : AtSocket(n, t) \in Nat
                 /\ msg[n].of # s => Same(m, n) = 0
      <3>1. AtTurn(n) \in Nat /\ \A t \in Socket : AtSocket(n, t) \in Nat
        BY PlacesAreNat
      <3>2. Same(m, n) \in {0, 1} /\ (Same(m, n) = 1 <=> n = m)
        BY DEF Same
      <3>3. AtTurn(n)' = AtTurn(n) + Same(m, n)
        <4>1. Times(n, box) \in Nat /\ Times(n, pending) \in Nat /\ Same(storing, n) \in Nat
          BY CountsAreNat DEF Same
        <4>2. box' = box /\ pending' = pending /\ storing' = storing
          BY <1>1
        <4> QED
          BY <1>2, <1>8, <3>2, <4>1, <4>2 DEF AtTurn
      <3>4. ASSUME NEW t \in Socket
            PROVE  AtSocket(n, t)' = AtSocket(n, t) - IF t = s THEN Same(m, n) ELSE 0
        <4>1. Same(reader[t].msg, n) \in Nat /\ Same(main[t].msg, n) \in Nat /\ Times(n, inbox'[t]) \in Nat
          BY <1>7 DEF Same
        <4>2. reader'[t].msg = reader[t].msg /\ main'[t].msg = main[t].msg
          BY <1>6
        <4>3. Times(n, inbox[t]) = Times(n, inbox'[t]) + IF t = s THEN Same(m, n) ELSE 0
          BY <1>3
        <4> QED
          BY <3>2, <4>1, <4>2, <4>3 DEF AtSocket
      <3> QED
        BY <1>8, <3>1, <3>2, <3>3, <3>4
    <2>2. s # Nobody
      BY DEF Talk!ConversationAssumption
    <2> QED
      BY <1>2, <1>8, <2>1, <2>2, PlacedStays
  <1>13. Closing'
    <2>1. \A t \in Socket : (NoneBoxed(t) => NoneBoxed(t)') /\ (NoneTaken(t) => NoneTaken(t)')
      BY <1>1, <1>2 DEF NoneBoxed, NoneTaken
    <2> QED
      BY <1>1, <1>4, <1>6, <2>1 DEF Closing, Talk!Ended
  <1>14. Talk!CloseLosesNothing'
    BY <1>1, <1>2, <1>6 DEF Talk!CloseLosesNothing
  <1> QED
    BY <1>9, <1>10, <1>11, <1>12, <1>13, <1>14

\* The loop takes a message and queues for the lock.
LEMMA TakeMessageKeeps ==
    ASSUME Talk!ConversationAssumption, TalkInv, NEW s \in Socket, Talk!TakeMessage(s)
    PROVE  TalkInv'
  <1> USE DEF TalkInv
  <1> DEFINE m == Head(inbox[s])
             loop == [pc |-> "waiting", msg |-> m, told |-> msg[m].queued \/ Talk!Locked]
  <1>1. /\ main[s].pc = "idle" /\ inbox[s] # <<>> /\ m \in Talk!Message /\ main' = [main EXCEPT ![s] = loop]
        /\ inbox' = [inbox EXCEPT ![s] = Tail(@)] /\ lockq' = Append(lockq, s)
        /\ UNCHANGED <<msg, reader, holder, boxOpen, box, turn, pending, storing, gaveUp>>
    BY DEF Talk!TakeMessage, Talk!boxVars, Talk!turnVars
  <1>2. /\ inbox' \in Inboxes
        /\ \A x : \A t \in Socket : Times(x, inbox[t]) = Times(x, inbox'[t]) + IF t = s THEN Same(m, x) ELSE 0
    BY <1>1, TakeCounts
  <1>3. /\ \A t \in Socket : Times(Talk!Closed, inbox'[t]) = Times(Talk!Closed, inbox[t])
        /\ \A t \in Socket : ClosedLast(inbox[t]) => ClosedLast(inbox'[t])
    BY <1>1, TakeCloses
  <1>4. main' \in [Socket -> Loops] /\ main'[s].pc = "waiting" /\ main'[s].msg = m /\ \A t \in Socket \ {s} : main'[t] = main[t]
    <2>1. loop \in Loops /\ loop.pc = "waiting" /\ loop.msg = m
      <3>1. (msg[m].queued \/ Talk!Locked) \in BOOLEAN
        OBVIOUS
      <3> HIDE DEF m
      <3> QED
        BY <1>1, <3>1 DEF Loops
    <2>2. main \in [Socket -> Loops]
      BY DEF TalkShape
    <2> HIDE DEF loop
    <2> QED
      BY <1>1, <2>1, <2>2
  <1> HIDE DEF m, loop
  <1>5. main[s].msg = Talk!None /\ m # Talk!None
    BY <1>1, ClosedIsNone DEF Queued
  <1>6. lockq' \in Seq(Socket) /\ \A t \in Socket : Times(t, lockq') = Times(t, lockq) + Same(s, t) /\ Times(t, lockq) \in Nat
    <2>1. lockq \in Seq(Socket)
      BY DEF TalkShape
    <2> QED
      BY <1>1, <2>1, TimesAppend, CountsAreNat
  <1>7. TalkShape'
    BY <1>1, <1>2, <1>4, <1>6 DEF TalkShape
  <1>8. Queued'
    <2>1. ASSUME NEW t \in Socket
          PROVE  Times(t, lockq') = Same(main'[t].pc, "waiting")
      <3>1. Times(t, lockq) = Same(main[t].pc, "waiting") /\ Times(t, lockq') = Times(t, lockq) + Same(s, t)
        BY <1>6 DEF Queued
      <3> QED
        BY <1>1, <1>4, <3>1 DEF Same
    <2> QED
      BY <1>1, <1>4, <1>5, <2>1 DEF Queued
  <1>9. Turning'
    BY <1>1, <1>4 DEF Turning
  <1>10. Placed'
    <2>1. ASSUME NEW n \in Talk!Message
          PROVE  AtTurn(n)' = AtTurn(n) /\ \A t \in Socket : AtSocket(n, t)' = AtSocket(n, t)
      <3>1. AtTurn(n)' = AtTurn(n)
        BY <1>1 DEF AtTurn
      <3>2. ASSUME NEW t \in Socket
            PROVE  AtSocket(n, t)' = AtSocket(n, t)
        <4>1. Same(reader[t].msg, n) \in Nat /\ Same(m, n) \in Nat /\ Same(main[t].msg, n) \in Nat /\ Times(n, inbox'[t]) \in Nat
          BY <1>2, TimesZero DEF Inboxes, Same
        <4>2. Times(n, inbox[t]) = Times(n, inbox'[t]) + IF t = s THEN Same(m, n) ELSE 0
          BY <1>2
        <4>3. Same(Talk!None, n) = 0
          BY ClosedIsNone DEF Same
        <4>4. reader' = reader
          BY <1>1
        <4>5. CASE t = s
          BY <1>4, <1>5, <4>1, <4>2, <4>3, <4>4, <4>5 DEF AtSocket
        <4>6. CASE t # s
          BY <1>4, <4>1, <4>2, <4>4, <4>6 DEF AtSocket
        <4> QED
          BY <4>5, <4>6
      <3> QED
        BY <3>1, <3>2
    <2> QED
      BY <1>1, <2>1 DEF Placed
  <1>11. Closing'
    <2>1. \A t \in Socket : (NoneBoxed(t) => NoneBoxed(t)') /\ (NoneTaken(t) => NoneTaken(t)')
      BY <1>1 DEF NoneBoxed, NoneTaken
    <2> QED
      BY <1>1, <1>3, <1>4, <2>1 DEF Closing, Talk!Ended
  <1>12. Talk!CloseLosesNothing'
    BY <1>1, <1>4 DEF Talk!CloseLosesNothing
  <1> QED
    BY <1>7, <1>8, <1>9, <1>10, <1>11, <1>12

\* A loop that waits or holds the lock has its message; no turn runs then, when the lock is free or its own.
LEMMA WaiterHas ==
    ASSUME Talk!ConversationAssumption, TalkInv, NEW s \in Socket, main[s].pc \in {"waiting", "held"}
    PROVE  /\ main[s].msg \in Talk!Message
           /\ msg[main[s].msg].of = s /\ AtTurn(main[s].msg) = 0 /\ msg[main[s].msg].fate = "sent"
  <1> USE DEF TalkInv
  <1>1. main[s].msg \in Talk!Message
    BY DEF Queued, TalkShape, Loops
  <1>2. AtSocket(main[s].msg, s) # 0
    <2>1. Same(main[s].msg, main[s].msg) = 1 /\ Same(reader[s].msg, main[s].msg) \in Nat /\ Times(main[s].msg, inbox[s]) \in Nat
      BY CountsAreNat DEF Same
    <2> QED
      BY <2>1 DEF AtSocket
  <1> QED
    BY <1>1, <1>2, AtSocketOnce

\* Its turn begins: the message becomes part of it.
LEMMA OpenKeeps ==
    ASSUME Talk!ConversationAssumption, TalkInv, NEW s \in Socket, main[s].pc \in {"waiting", "held"}, Talk!Open(s),
           turn.pc = "none", holder' = s, holder \in {s, Nobody}, lockq' \in Seq(Socket),
           \A t \in Socket : Times(t, lockq') = IF t = s THEN 0 ELSE Times(t, lockq),
           UNCHANGED <<reader, inbox, pending, storing, gaveUp>>
    PROVE  TalkInv'
  <1> USE DEF TalkInv
  <1> DEFINE m == main[s].msg
  <1>1. m \in Talk!Message /\ msg[m].of = s /\ AtTurn(m) = 0 /\ msg[m].fate = "sent"
    BY WaiterHas
  <1>2. /\ msg' \in [Talk!Message -> Messages] /\ main' \in [Socket -> Loops]
        /\ turn' \in Turns /\ turn'.pc = "model" /\ boxOpen' = TRUE /\ box' = <<>>
        /\ \A n \in Talk!Message : msg'[n].of = msg[n].of /\ msg'[n].fate = IF n = m THEN "turn" ELSE msg[n].fate
        /\ main'[s].pc = "turn" /\ main'[s].msg = Talk!None
        /\ \A t \in Socket \ {s} : main'[t] = main[t]
    BY <1>1, Opens
  <1>3. box = <<>> /\ pending = <<>> /\ storing = Talk!None
    BY DEF Turning
  <1> HIDE DEF m
  <1>4. \A n \in Talk!Message : msg'[n].of = msg[n].of /\ msg'[n].fate = IF n = m THEN "turn" ELSE msg[n].fate
    BY <1>2
  <1>5. TalkShape'
    BY <1>2 DEF TalkShape
  <1>6. Queued'
    <2>1. \A t \in Socket : Times(t, lockq') = Same(main'[t].pc, "waiting")
      BY <1>2 DEF Queued, Same
    <2>2. \A t \in Socket \ {s} : main[t].pc \notin {"held", "turn"}
      BY DEF Queued, Talk!ConversationAssumption
    <2> QED
      BY <1>2, <2>1, <2>2 DEF Queued
  <1>7. Turning'
    BY <1>2, <1>3 DEF Turning
  <1>8. Placed'
    <2>1. ASSUME NEW n \in Talk!Message
          PROVE  /\ AtTurn(n) \in Nat /\ AtTurn(n)' = AtTurn(n) + Same(m, n) /\ Same(m, n) \in {0, 1}
                 /\ \A t \in Socket : AtSocket(n, t)' = AtSocket(n, t) - IF t = s THEN Same(m, n) ELSE 0
                 /\ \A t \in Socket : AtSocket(n, t) \in Nat
                 /\ msg[n].of # s => Same(m, n) = 0
      <3>1. AtTurn(n) \in Nat /\ \A t \in Socket : AtSocket(n, t) \in Nat
        BY PlacesAreNat
      <3>2. Same(m, n) \in {0, 1} /\ (Same(m, n) = 1 <=> n = m)
        BY DEF Same
      <3>3. AtTurn(n)' = AtTurn(n) + Same(m, n)
        <4>1. Times(n, box) \in Nat /\ Times(n, pending) \in Nat /\ Same(storing, n) \in Nat
          BY CountsAreNat DEF Same
        <4>2. box' = box /\ pending' = pending /\ storing' = storing
          BY <1>2, <1>3
        <4> QED
          BY <1>1, <1>4, <3>2, <4>1, <4>2 DEF AtTurn
      <3>4. ASSUME NEW t \in Socket
            PROVE  AtSocket(n, t)' = AtSocket(n, t) - IF t = s THEN Same(m, n) ELSE 0
        <4>1. Same(reader[t].msg, n) \in Nat /\ Same(main[t].msg, n) \in Nat /\ Times(n, inbox[t]) \in Nat
          BY CountsAreNat DEF Same
        <4>2. reader' = reader /\ inbox' = inbox
          OBVIOUS
        <4>3. Same(Talk!None, n) = 0
          BY ClosedIsNone DEF Same
        <4>4. CASE t = s
          <5>1. main[t].msg = m
            BY <4>4 DEF m
          <5> QED
            BY <1>2, <3>2, <4>1, <4>2, <4>3, <4>4, <5>1 DEF AtSocket
        <4>5. CASE t # s
          BY <1>2, <4>1, <4>2, <4>5 DEF AtSocket
        <4> QED
          BY <4>4, <4>5
      <3> QED
        BY <1>1, <3>1, <3>2, <3>3, <3>4
    <2>2. s # Nobody
      BY DEF Talk!ConversationAssumption
    <2> QED
      BY <1>1, <1>4, <2>1, <2>2, PlacedStays, SMTT(30)
  <1>9. Closing'
    <2>1. \A t \in Socket : (NoneBoxed(t) => NoneBoxed(t)') /\ (NoneTaken(t) => NoneTaken(t)')
      BY <1>2, <1>3 DEF NoneBoxed, NoneTaken
    <2> QED
      BY <1>2, <2>1 DEF Closing, Talk!Ended
  <1>10. Talk!CloseLosesNothing'
    BY <1>2 DEF Talk!CloseLosesNothing
  <1> QED
    BY <1>5, <1>6, <1>7, <1>8, <1>9, <1>10

\* The first waiter gets the lock.
LEMMA AcquireKeeps ==
    ASSUME Talk!ConversationAssumption, TalkInv, NEW s \in Socket, Talk!Acquire(s)
    PROVE  TalkInv'
  <1> USE DEF TalkInv
  <1>1. /\ holder = Nobody /\ lockq # <<>> /\ Head(lockq) = s /\ holder' = s /\ lockq' = Tail(lockq)
        /\ \/ main' = [main EXCEPT ![s].pc = "held"] /\ UNCHANGED <<msg, boxOpen, box, turn>>
           \/ Talk!Open(s)
        /\ UNCHANGED <<reader, inbox, pending, storing, gaveUp>>
    BY DEF Talk!Acquire, Talk!sockVars, Talk!boxVars
  <1>2. lockq \in Seq(Socket) /\ main \in [Socket -> Loops]
    BY DEF TalkShape
  <1>3. lockq' \in Seq(Socket) /\ \A t \in Socket : Times(t, lockq) = Same(s, t) + Times(t, lockq')
    BY <1>1, <1>2, TimesTail
  <1>4. \A t \in Socket : Times(t, lockq') \in Nat
    BY <1>3, TimesZero
  <1>5. main[s].pc = "waiting" /\ Times(s, lockq') = 0 /\ \A t \in Socket \ {s} : Times(t, lockq') = Times(t, lockq)
    BY <1>3, <1>4 DEF Queued, Same
  <1>6. turn.pc = "none"
    BY <1>1 DEF Turning, Talk!ConversationAssumption
  <1>7. CASE Talk!Open(s)
    BY <1>1, <1>3, <1>5, <1>6, <1>7, OpenKeeps
  <1>8. CASE main' = [main EXCEPT ![s].pc = "held"] /\ UNCHANGED <<msg, boxOpen, box, turn>>
    <2>1. main' \in [Socket -> Loops] /\ main'[s].pc = "held" /\ main'[s].msg = main[s].msg /\ \A t \in Socket \ {s} : main'[t] = main[t]
      BY <1>2, <1>8 DEF Loops
    <2>2. TalkShape'
      BY <1>1, <1>3, <1>8, <2>1 DEF TalkShape
    <2>3. Queued'
      <3>1. \A t \in Socket : Times(t, lockq') = Same(main'[t].pc, "waiting")
        BY <1>5, <2>1 DEF Queued, Same
      <3>2. \A t \in Socket : main[t].pc \notin {"held", "turn"}
        BY <1>1 DEF Queued, Talk!ConversationAssumption
      <3> QED
        BY <1>1, <1>5, <2>1, <3>1, <3>2 DEF Queued
    <2>4. Turning'
      BY <1>1, <1>6, <1>8 DEF Turning
    <2>5. Placed'
      <3>1. \A n \in Talk!Message : AtTurn(n)' = AtTurn(n)
        BY <1>1, <1>8 DEF AtTurn
      <3>2. \A n \in Talk!Message : \A t \in Socket : AtSocket(n, t)' = AtSocket(n, t)
        BY <1>1, <2>1 DEF AtSocket
      <3> QED
        BY <1>8, <3>1, <3>2 DEF Placed
    <2>6. Closing'
      <3>1. \A t \in Socket : (NoneBoxed(t) => NoneBoxed(t)') /\ (NoneTaken(t) => NoneTaken(t)')
        BY <1>1, <1>8 DEF NoneBoxed, NoneTaken
      <3> QED
        BY <1>1, <1>5, <2>1, <3>1 DEF Closing, Talk!Ended
    <2>7. Talk!CloseLosesNothing'
      BY <1>1, <1>8, <2>1 DEF Talk!CloseLosesNothing
    <2> QED
      BY <2>2, <2>3, <2>4, <2>5, <2>6, <2>7
  <1> QED
    BY <1>1, <1>7, <1>8

\* The sender has heard that its turn comes.
LEMMA OpenBoxKeeps ==
    ASSUME Talk!ConversationAssumption, TalkInv, NEW s \in Socket, Talk!OpenBox(s)
    PROVE  TalkInv'
  <1> USE DEF TalkInv
  <1>1. /\ main[s].pc = "held" /\ Talk!Open(s)
        /\ UNCHANGED <<lockq, holder, reader, inbox, pending, storing, gaveUp>>
    BY DEF Talk!OpenBox, Talk!sockVars, Talk!lockVars
  <1>2. holder = s /\ lockq \in Seq(Socket) /\ Times(s, lockq) = 0
    BY <1>1 DEF Queued, TalkShape, Same
  <1>3. turn.pc = "none"
    BY <1>1, <1>2 DEF Turning
  <1> QED
    BY <1>1, <1>2, <1>3, OpenKeeps

-----------------------------------------------------------------------------
(* The steps of the turn. *)

\* Steps of the turn leave the sockets' loops alone: the lock and the close stay as they were.
LEMMA TurnOnly ==
    ASSUME TalkInv, UNCHANGED <<reader, main, lockq, holder, boxOpen, box, gaveUp>>,
           msg' \in [Talk!Message -> Messages],
           \A n \in Talk!Message : msg'[n].of = msg[n].of /\ (msg'[n].fate = "sent" => msg[n].fate = "sent")
    PROVE  /\ Queued' /\ Talk!CloseLosesNothing'
           /\ \A t \in Socket : NoneBoxed(t) => NoneBoxed(t)'
  BY DEF TalkInv, Queued, Talk!CloseLosesNothing, NoneBoxed

\* The model asks for tools.
LEMMA ModelCallsToolsKeeps ==
    ASSUME Talk!ConversationAssumption, TalkInv, NEW s \in Socket, Talk!ModelCallsTools(s)
    PROVE  TalkInv'
  <1> USE DEF TalkInv
  <1>1. /\ turn.pc = "model" /\ holder = s /\ main[s].pc = "turn" /\ turn.requests < MaxRequests
        /\ turn' = [turn EXCEPT !.pc = "batch"]
        /\ UNCHANGED <<msg, reader, inbox, main, lockq, holder, boxOpen, box, pending, storing, gaveUp>>
    BY DEF Talk!ModelCallsTools, Talk!At, Talk!sockVars, Talk!lockVars, Talk!boxVars
  <1>2. turn' \in Turns /\ turn'.pc = "batch" /\ turn'.requests = turn.requests
    BY <1>1, TurnGoes
  <1>3. TalkShape'
    BY <1>1, <1>2 DEF TalkShape
  <1>4. Queued' /\ Talk!CloseLosesNothing' /\ \A t \in Socket : NoneBoxed(t) => NoneBoxed(t)'
    <2>1. msg' \in [Talk!Message -> Messages]
      BY <1>3 DEF TalkShape
    <2> QED
      BY <1>1, <2>1, TurnOnly
  <1>5. Turning'
    BY <1>1, <1>2 DEF Turning
  <1>6. Placed'
    BY <1>1 DEF Placed, AtSocket, AtTurn
  <1>7. Closing'
    BY <1>1, <1>4 DEF Closing, NoneTaken
  <1> QED
    BY <1>3, <1>4, <1>5, <1>6, <1>7

\* The boundary after a batch: the box is read.
LEMMA BatchEndsKeeps ==
    ASSUME Talk!ConversationAssumption, TalkInv, NEW s \in Socket, Talk!BatchEnds(s)
    PROVE  TalkInv'
  <1> USE DEF TalkInv
  <1>1. /\ turn.pc = "batch" /\ holder = s /\ main[s].pc = "turn" /\ turn' = [turn EXCEPT !.pc = "top"]
        /\ (pending' = pending \o box /\ box' = <<>>) \/ UNCHANGED <<pending, box>>
        /\ UNCHANGED <<msg, reader, inbox, main, lockq, holder, boxOpen, storing, gaveUp>>
    BY DEF Talk!BatchEnds, Talk!At, Talk!sockVars, Talk!lockVars
  <1>2. turn' \in Turns /\ turn'.pc = "top" /\ turn'.requests = turn.requests
    BY <1>1, TurnGoes
  <1>3. /\ pending' \in Seq(Talk!Message) /\ box' \in Seq(Talk!Message) /\ (box' = box \/ box' = <<>>)
        /\ \A x : Times(x, pending') + Times(x, box') = Times(x, pending) + Times(x, box)
        /\ \A x : Times(x, box) = 0 => Times(x, box') = 0 /\ Times(x, pending') = Times(x, pending)
        /\ \A x : Times(x, pending') \in Nat /\ Times(x, box') \in Nat /\ Times(x, pending) \in Nat /\ Times(x, box) \in Nat
    <2>1. box \in Seq(Talk!Message) /\ pending \in Seq(Talk!Message) /\ \A x : Times(x, box) \in Nat /\ Times(x, pending) \in Nat
      BY CountsAreNat DEF TalkShape
    <2>2. CASE pending' = pending \o box /\ box' = <<>>
      <3>1. \A x : Times(x, pending \o box) = Times(x, pending) + Times(x, box)
        BY <2>1, TimesConcat
      <3>2. \A x : Times(x, <<>>) = 0
        BY TimesEmpty
      <3>3. pending \o box \in Seq(Talk!Message) /\ <<>> \in Seq(Talk!Message)
        BY <2>1
      <3> QED
        BY <2>1, <2>2, <3>1, <3>2, <3>3
    <2>3. CASE UNCHANGED <<pending, box>>
      BY <2>1, <2>3
    <2> QED
      BY <1>1, <2>2, <2>3
  <1>4. TalkShape'
    BY <1>1, <1>2, <1>3 DEF TalkShape
  <1>5. Queued' /\ Talk!CloseLosesNothing'
    BY <1>1 DEF Queued, Talk!CloseLosesNothing
  <1>6. Turning'
    BY <1>1, <1>2, <1>3 DEF Turning
  <1>7. Placed'
    <2>1. ASSUME NEW n \in Talk!Message
          PROVE  AtTurn(n)' = AtTurn(n) /\ \A t \in Socket : AtSocket(n, t)' = AtSocket(n, t)
      <3>1. Same(storing, n) \in Nat /\ Times(n, pending') + Times(n, box') = Times(n, pending) + Times(n, box)
            /\ Times(n, pending') \in Nat /\ Times(n, box') \in Nat /\ Times(n, pending) \in Nat /\ Times(n, box) \in Nat
        BY <1>3 DEF Same
      <3>2. storing' = storing /\ msg' = msg /\ inbox' = inbox /\ reader' = reader /\ main' = main
        BY <1>1
      <3> QED
        BY <3>1, <3>2 DEF AtTurn, AtSocket
    <2> QED
      BY <1>1, <2>1 DEF Placed
  <1>8. Closing'
    <2>1. \A t \in Socket : (NoneBoxed(t) => NoneBoxed(t)') /\ (NoneBoxed(t) /\ NoneTaken(t) => NoneTaken(t)')
      BY <1>1, <1>3 DEF NoneBoxed, NoneTaken
    <2>2. "failed" \in Talk!Ended
      BY DEF Talk!Ended
    <2> QED
      BY <1>1, <2>1, <2>2 DEF Closing
  <1> QED
    BY <1>4, <1>5, <1>6, <1>7, <1>8

\* The next request, or the next message to store.
LEMMA RequestKeeps ==
    ASSUME Talk!ConversationAssumption, TalkInv, NEW s \in Socket, Talk!Request(s)
    PROVE  TalkInv'
  <1> USE DEF TalkInv
  <1>1. /\ turn.pc \in {"top", "telling"} /\ holder = s /\ main[s].pc = "turn" /\ Talk!Proceed
        /\ UNCHANGED <<msg, reader, inbox, main, lockq, holder, boxOpen, box, gaveUp>>
    BY DEF Talk!Request, Talk!At, Talk!sockVars, Talk!lockVars, Talk!boxVars
  <1>2. storing = Talk!None /\ turn.requests < MaxRequests /\ turn \in Turns /\ pending \in Seq(Talk!Message)
    BY <1>1 DEF Turning, TalkShape
  <1>3. /\ turn' \in Turns /\ pending' \in Seq(Talk!Message) /\ storing' \in Talk!Message \union {Talk!None}
        /\ turn'.pc \in {"model", "storing"} /\ (turn'.pc = "storing" <=> storing' # Talk!None)
        /\ turn'.pc = "storing" => turn'.requests = turn.requests
        /\ \A x \in Talk!Message : Times(x, pending) = Times(x, pending') + Same(storing', x) /\ Times(x, pending') \in Nat
    <2>1. CASE pending = <<>>
      <3>1. turn' = [pc |-> "model", requests |-> turn.requests + 1] /\ UNCHANGED <<pending, storing>>
        BY <1>1, <2>1 DEF Talk!Proceed
      <3>2. turn' \in Turns /\ turn'.pc = "model"
        BY <1>2, <3>1 DEF Turns, Talk!ConversationAssumption
      <3>3. \A x \in Talk!Message : Same(storing, x) = 0 /\ Times(x, pending) \in Nat
        BY <1>2, ClosedIsNone, CountsAreNat DEF Same
      <3> QED
        BY <1>2, <3>1, <3>2, <3>3
    <2>2. CASE pending # <<>>
      <3>1. turn' = [turn EXCEPT !.pc = "storing"] /\ storing' = Head(pending) /\ pending' = Tail(pending)
        BY <1>1, <2>2 DEF Talk!Proceed
      <3>2. turn' \in Turns /\ turn'.pc = "storing" /\ turn'.requests = turn.requests
        BY <3>1, TurnGoes
      <3>3. /\ storing' \in Talk!Message /\ pending' \in Seq(Talk!Message)
            /\ \A x : Times(x, pending) = Same(storing', x) + Times(x, pending')
        BY <1>2, <2>2, <3>1, TimesTail
      <3>4. \A x : Times(x, pending') \in Nat /\ Same(storing', x) \in Nat
        BY <3>3, TimesZero DEF Same
      <3>5. storing' # Talk!None
        BY <3>3, ClosedIsNone
      <3>6. \A x : Times(x, pending) = Times(x, pending') + Same(storing', x)
        BY <3>3, <3>4
      <3> QED
        BY <3>2, <3>3, <3>4, <3>5, <3>6
    <2> QED
      BY <2>1, <2>2
  <1>4. TalkShape'
    BY <1>1, <1>3 DEF TalkShape
  <1>5. Queued' /\ Talk!CloseLosesNothing' /\ \A t \in Socket : NoneBoxed(t) => NoneBoxed(t)'
    <2>1. msg' \in [Talk!Message -> Messages]
      BY <1>4 DEF TalkShape
    <2> QED
      BY <1>1, <2>1, TurnOnly
  <1>6. Turning'
    BY <1>1, <1>2, <1>3 DEF Turning
  <1>7. \A n \in Talk!Message : Times(n, pending') + Same(storing', n) = Times(n, pending) + Same(storing, n)
    <2>1. \A n \in Talk!Message : Same(storing, n) = 0 /\ Times(n, pending) \in Nat
      BY <1>2, ClosedIsNone, CountsAreNat DEF Same
    <2> QED
      BY <1>3, <2>1
  <1>8. Placed'
    <2>1. ASSUME NEW n \in Talk!Message
          PROVE  AtTurn(n)' = AtTurn(n) /\ \A t \in Socket : AtSocket(n, t)' = AtSocket(n, t)
      <3>1. /\ Same(storing, n) \in Nat /\ Same(storing', n) \in Nat /\ Times(n, box) \in Nat /\ Times(n, pending) \in Nat
            /\ Times(n, pending') \in Nat /\ Times(n, pending') + Same(storing', n) = Times(n, pending) + Same(storing, n)
        BY <1>3, <1>7, CountsAreNat DEF Same
      <3>2. box' = box /\ msg' = msg /\ inbox' = inbox /\ reader' = reader /\ main' = main
        BY <1>1
      <3> QED
        BY <3>1, <3>2 DEF AtTurn, AtSocket
    <2> QED
      BY <1>1, <2>1 DEF Placed
  <1>9. Closing'
    <2>1. \A t \in Socket : NoneTaken(t) => NoneTaken(t)'
      <3>1. \A n \in Talk!Message : Times(n, pending) = 0 => Times(n, pending') = 0 /\ storing' # n
        BY <1>3 DEF Same
      <3> QED
        BY <1>1, <3>1 DEF NoneTaken
    <2> QED
      BY <1>1, <1>5, <2>1 DEF Closing
  <1> QED
    BY <1>4, <1>5, <1>6, <1>8, <1>9

\* The message being stored is with the turn once and nowhere else.
LEMMA StoringOnce ==
    ASSUME Talk!ConversationAssumption, TalkInv, storing # Talk!None
    PROVE  storing \in Talk!Message /\ msg[storing].fate = "sent" /\ Times(storing, pending) = 0
  <1> USE DEF TalkInv
  <1>1. storing \in Talk!Message
    BY DEF TalkShape
  <1>2. /\ Times(storing, box) \in Nat /\ Times(storing, pending) \in Nat /\ Same(storing, storing) = 1
    BY CountsAreNat DEF Same
  <1>3. AtTurn(storing) # 0 /\ AtTurn(storing) \in Nat
    BY <1>2 DEF AtTurn
  <1>4. msg[storing].of \in Socket /\ msg[storing].fate # "unsent"
    BY <1>1, <1>3 DEF Placed, TalkShape, Messages
  <1>5. AtSocket(storing, msg[storing].of) = 1 - AtTurn(storing) /\ AtSocket(storing, msg[storing].of) \in Nat
    BY <1>1, <1>4, PlacesAreNat DEF Placed
  <1>6. AtTurn(storing) = 1
    BY <1>3, <1>5
  <1> QED
    BY <1>1, <1>2, <1>4, <1>6 DEF AtTurn

\* The message is stored.
LEMMA StoreDoneKeeps ==
    ASSUME Talk!ConversationAssumption, TalkInv, NEW s \in Socket, Talk!StoreDone(s)
    PROVE  TalkInv'
  <1> USE DEF TalkInv
  <1>1. /\ turn.pc = "storing" /\ holder = s /\ main[s].pc = "turn" /\ Talk!Become(storing, "inserted") /\ storing' = Talk!None
        /\ turn' = [turn EXCEPT !.pc = "telling"]
        /\ UNCHANGED <<reader, inbox, main, lockq, holder, boxOpen, box, pending, gaveUp>>
    BY DEF Talk!StoreDone, Talk!At, Talk!sockVars, Talk!lockVars, Talk!boxVars
  <1>2. storing # Talk!None /\ turn.requests < MaxRequests
    BY <1>1 DEF Turning
  <1>3. storing \in Talk!Message /\ msg[storing].fate = "sent"
    BY <1>2, StoringOnce
  <1>4. turn' \in Turns /\ turn'.pc = "telling" /\ turn'.requests = turn.requests
    BY <1>1, TurnGoes
  <1>5. /\ msg' \in [Talk!Message -> Messages]
        /\ \A n \in Talk!Message : msg'[n].of = msg[n].of /\ msg'[n].fate = IF n = storing THEN "inserted" ELSE msg[n].fate
    BY <1>1, <1>3, FateChanges DEF Talk!Fates
  <1>6. TalkShape'
    BY <1>1, <1>4, <1>5 DEF TalkShape
  <1>7. Queued' /\ Talk!CloseLosesNothing' /\ \A t \in Socket : NoneBoxed(t) => NoneBoxed(t)'
    <2>1. \A n \in Talk!Message : msg'[n].of = msg[n].of /\ (msg'[n].fate = "sent" => msg[n].fate = "sent")
      BY <1>5
    <2> QED
      BY <1>1, <1>5, <2>1, TurnOnly
  <1>8. Turning'
    BY <1>1, <1>2, <1>4 DEF Turning
  <1>9. Placed'
    <2>1. ASSUME NEW n \in Talk!Message
          PROVE  AtTurn(n)' = AtTurn(n) /\ \A t \in Socket : AtSocket(n, t)' = AtSocket(n, t)
      <3>1. Times(n, box) \in Nat /\ Times(n, pending) \in Nat
        BY CountsAreNat
      <3>2. /\ Same(storing', n) = 0 /\ (n = storing => Same(storing, n) = 1) /\ (n # storing => Same(storing, n) = 0)
        BY <1>1, ClosedIsNone DEF Same
      <3>3. box' = box /\ pending' = pending /\ inbox' = inbox /\ reader' = reader /\ main' = main
        BY <1>1
      <3>4. msg'[n].fate = IF n = storing THEN "inserted" ELSE msg[n].fate
        BY <1>5
      <3> QED
        BY <1>3, <3>1, <3>2, <3>3, <3>4 DEF AtTurn, AtSocket
    <2>2. \A n \in Talk!Message : msg'[n].of = msg[n].of /\ (msg'[n].fate = "unsent" <=> msg[n].fate = "unsent")
      BY <1>3, <1>5
    <2> QED
      BY <2>1, <2>2 DEF Placed
  <1>10. Closing'
    <2>1. \A t \in Socket : NoneTaken(t) => NoneTaken(t)'
      BY <1>1, <1>5, ClosedIsNone DEF NoneTaken
    <2> QED
      BY <1>1, <1>7, <2>1 DEF Closing
  <1> QED
    BY <1>6, <1>7, <1>8, <1>9, <1>10

\* Messages handed back bring no close, and none comes to a socket that has none among them.
LEMMA HandBackCloses ==
    ASSUME TalkShape, NEW q \in Seq(Talk!Message), NEW t \in Socket
    PROVE  /\ Times(Talk!Closed, Talk!HandBack(q)[t]) = Times(Talk!Closed, inbox[t])
           /\ (\A x \in Talk!Message : msg[x].of = t => Times(x, q) = 0) => Talk!HandBack(q)[t] = inbox[t]
  <1> DEFINE D == Talk!Message \union {Talk!Closed}
             mine == Talk!Mine(t, q)
  <1>1. inbox[t] \in Seq(D) /\ Talk!HandBack(q)[t] = inbox[t] \o mine
    BY DEF TalkShape, Inboxes, Talk!HandBack
  <1>2. mine \in Seq(Talk!Message)
    BY HandBackCounts
  <1>3. \A i \in 1 .. Len(mine) : mine[i] # Talk!Closed
    <2>1. \A i \in 1 .. Len(mine) : mine[i] \in Talk!Message
      BY <1>2
    <2> QED
      BY <2>1, ClosedIsNone
  <1>4. mine \in Seq(D)
    BY <1>2
  <1>5. (\A x \in Talk!Message : msg[x].of = t => Times(x, q) = 0) => mine = <<>>
    <2>1. \A x \in Talk!Sent(t) : x \in Talk!Message /\ msg[x].of = t
      BY DEF Talk!Sent
    <2>2. (\A x \in Talk!Sent(t) : Times(x, q) = 0) => Talk!Only(Talk!Sent(t), q) = <<>>
      BY OnlyNone
    <2> QED
      BY <2>1, <2>2 DEF Talk!Mine
  <1> HIDE DEF mine, D
  <1>6. Times(Talk!Closed, mine) = 0
    BY <1>3, <1>4, TimesZero
  <1>7. Times(Talk!Closed, inbox[t] \o mine) = Times(Talk!Closed, inbox[t]) + Times(Talk!Closed, mine) /\ Times(Talk!Closed, inbox[t]) \in Nat
    BY <1>1, <1>4, TimesConcat, TimesZero
  <1>8. inbox[t] \o <<>> = inbox[t]
    BY <1>1
  <1> QED
    BY <1>1, <1>5, <1>6, <1>7, <1>8

\* What every message counts when messages q are handed back from the turn and fates may settle.
LEMMA HandBackPlaces ==
    ASSUME Talk!ConversationAssumption, TalkInv, NEW q \in Seq(Talk!Message), inbox' = Talk!HandBack(q),
           \A t \in Socket : reader'[t].msg = reader[t].msg /\ main'[t].msg = main[t].msg,
           \A n \in Talk!Message : msg'[n].of = msg[n].of /\ (msg'[n].fate = "unsent" <=> msg[n].fate = "unsent"),
           \A n \in Talk!Message : AtTurn(n)' \in Nat /\ AtTurn(n)' + Times(n, q) = AtTurn(n)
    PROVE  Placed'
  <1> USE DEF TalkInv
  <1>1. ASSUME NEW n \in Talk!Message
        PROVE  /\ AtTurn(n) \in Nat
               /\ \A t \in Socket : AtSocket(n, t)' = AtSocket(n, t) + IF msg[n].of = t THEN AtTurn(n) - AtTurn(n)' ELSE 0
               /\ msg[n].of = Nobody => AtTurn(n)' = AtTurn(n)
    <2>1. AtTurn(n) \in Nat /\ AtTurn(n)' \in Nat /\ AtTurn(n)' + Times(n, q) = AtTurn(n) /\ Times(n, q) \in Nat
      BY PlacesAreNat, TimesZero
    <2>2. ASSUME NEW t \in Socket
          PROVE  AtSocket(n, t)' = AtSocket(n, t) + IF msg[n].of = t THEN AtTurn(n) - AtTurn(n)' ELSE 0
      <3>1. Times(n, inbox'[t]) = Times(n, inbox[t]) + IF msg[n].of = t THEN Times(n, q) ELSE 0
        BY HandBackCounts
      <3>2. Times(n, inbox[t]) \in Nat /\ Same(reader[t].msg, n) \in Nat /\ Same(main[t].msg, n) \in Nat
        BY CountsAreNat DEF Same
      <3>3. Times(n, q) = AtTurn(n) - AtTurn(n)'
        BY <2>1
      <3>4. AtSocket(n, t)' = Times(n, inbox'[t]) + Same(reader[t].msg, n) + Same(main[t].msg, n)
        BY DEF AtSocket
      <3> HIDE DEF AtTurn
      <3> QED
        BY <2>1, <3>1, <3>2, <3>3, <3>4 DEF AtSocket
    <2>3. msg[n].of = Nobody => AtTurn(n) = 0
      BY DEF Placed
    <2> QED
      BY <2>1, <2>2, <2>3
  <1> QED
    BY <1>1, PlacedStays

\* The end of the loop of model requests: what no request carried goes back.
LEMMA NativeEndsKeeps ==
    ASSUME Talk!ConversationAssumption, TalkInv, NEW q \in Seq(Talk!Message), Talk!NativeEnds(q),
           turn.pc \notin {"none", "ending"},
           UNCHANGED <<reader, main, lockq, holder, boxOpen, box, gaveUp>>, msg' \in [Talk!Message -> Messages],
           \A n \in Talk!Message : /\ msg'[n].of = msg[n].of /\ (msg'[n].fate = "unsent" <=> msg[n].fate = "unsent")
                                   /\ msg'[n].fate = "sent" => msg[n].fate = "sent",
           \A n \in Talk!Message :
              (IF msg'[n].fate \in {"unsent", "sent"} THEN 0 ELSE 1) + Times(n, q)
                = (IF msg[n].fate \in {"unsent", "sent"} THEN 0 ELSE 1) + Times(n, pending) + Same(storing, n)
    PROVE  TalkInv'
  <1> USE DEF TalkInv
  <1>1. inbox' = Talk!HandBack(q) /\ pending' = <<>> /\ storing' = Talk!None /\ turn' = [turn EXCEPT !.pc = "ending"]
    BY DEF Talk!NativeEnds
  <1>2. turn' \in Turns /\ turn'.pc = "ending" /\ turn'.requests = turn.requests
    BY <1>1, TurnGoes
  <1>3. inbox' \in Inboxes
    BY <1>1, HandBackCounts
  <1>4. TalkShape'
    BY <1>1, <1>2, <1>3 DEF TalkShape
  <1>5. Queued' /\ Talk!CloseLosesNothing' /\ \A t \in Socket : NoneBoxed(t) => NoneBoxed(t)'
    BY TurnOnly
  <1>6. Turning'
    BY <1>1, <1>2 DEF Turning
  <1>7. Placed'
    <2>1. ASSUME NEW n \in Talk!Message
          PROVE  AtTurn(n)' \in Nat /\ AtTurn(n)' + Times(n, q) = AtTurn(n)
      <3>1. Times(n, box) \in Nat /\ Times(n, pending) \in Nat /\ Same(storing, n) \in Nat /\ Times(n, q) \in Nat
        BY CountsAreNat, TimesZero DEF Same
      <3>2. Times(n, pending') = 0 /\ Same(storing', n) = 0 /\ box' = box
        BY <1>1, TimesEmpty, ClosedIsNone DEF Same
      <3>3. (IF msg'[n].fate \in {"unsent", "sent"} THEN 0 ELSE 1) + Times(n, q)
              = (IF msg[n].fate \in {"unsent", "sent"} THEN 0 ELSE 1) + Times(n, pending) + Same(storing, n)
        OBVIOUS
      <3> DEFINE was == IF msg[n].fate \in {"unsent", "sent"} THEN 0 ELSE 1
                 is == IF msg'[n].fate \in {"unsent", "sent"} THEN 0 ELSE 1
      <3>4. /\ AtTurn(n) = Times(n, box) + Times(n, pending) + Same(storing, n) + was /\ was \in Nat
            /\ AtTurn(n)' = Times(n, box) + 0 + 0 + is /\ is \in Nat
        BY <3>2 DEF AtTurn
      <3>5. is + Times(n, q) = was + Times(n, pending) + Same(storing, n)
        BY <3>3
      <3> HIDE DEF was, is
      <3> QED
        BY <3>1, <3>4, <3>5, SMTT(30)
    <2> QED
      BY <1>1, <2>1, HandBackPlaces
  <1>8. Closing'
    <2>1. \A t \in Socket : NoneTaken(t)'
      <3>1. \A n \in Talk!Message : Times(n, pending') = 0 /\ storing' # n
        BY <1>1, TimesEmpty, ClosedIsNone
      <3> QED
        BY <3>1 DEF NoneTaken
    <2>2. ASSUME NEW t \in Socket, NoneTaken(t)
          PROVE  inbox'[t] = inbox[t]
      <3>1. ASSUME NEW n \in Talk!Message, msg[n].of = t
            PROVE  Times(n, q) = 0
        <4>1. Times(n, pending) = 0 /\ Same(storing, n) = 0
          BY <2>2, <3>1 DEF NoneTaken, Same
        <4>2. Times(n, q) \in Nat
          BY TimesZero
        <4> QED
          BY <4>1, <4>2
      <3> QED
        BY <1>1, <3>1, HandBackCloses
    <2>3. \A t \in Socket : Times(Talk!Closed, inbox'[t]) = Times(Talk!Closed, inbox[t])
      BY <1>1, HandBackCloses
    <2> QED
      BY <1>5, <2>1, <2>2, <2>3 DEF Closing
  <1> QED
    BY <1>4, <1>5, <1>6, <1>7, <1>8

\* The answer, a limit, an error or a stop outside a store.
LEMMA LoopEndsKeeps ==
    ASSUME Talk!ConversationAssumption, TalkInv, NEW s \in Socket, Talk!LoopEnds(s)
    PROVE  TalkInv'
  <1> USE DEF TalkInv
  <1>1. /\ turn.pc \in {"model", "batch", "top", "telling"} /\ Talk!NativeEnds(pending)
        /\ UNCHANGED <<msg, reader, main, lockq, holder, boxOpen, box, gaveUp>>
    BY DEF Talk!LoopEnds, Talk!At, Talk!lockVars, Talk!boxVars
  <1>2. storing = Talk!None /\ pending \in Seq(Talk!Message) /\ msg \in [Talk!Message -> Messages]
    BY <1>1 DEF Turning, TalkShape
  <1>3. \A n \in Talk!Message : Same(storing, n) = 0 /\ Times(n, pending) \in Nat
    BY <1>2, ClosedIsNone, CountsAreNat DEF Same
  <1>4. \A n \in Talk!Message :
              (IF msg'[n].fate \in {"unsent", "sent"} THEN 0 ELSE 1) + Times(n, pending)
                = (IF msg[n].fate \in {"unsent", "sent"} THEN 0 ELSE 1) + Times(n, pending) + Same(storing, n)
    BY <1>1, <1>3
  <1>5. \A n \in Talk!Message : /\ msg'[n].of = msg[n].of /\ (msg'[n].fate = "unsent" <=> msg[n].fate = "unsent")
                                /\ msg'[n].fate = "sent" => msg[n].fate = "sent"
    BY <1>1
  <1>6. turn.pc \notin {"none", "ending"} /\ msg' \in [Talk!Message -> Messages]
        /\ UNCHANGED <<reader, main, lockq, holder, boxOpen, box, gaveUp>>
    BY <1>1, <1>2
  <1> QED
    BY <1>1, <1>2, <1>4, <1>5, <1>6, NativeEndsKeeps

\* A store that raises, or that a stop interrupts.
LEMMA StoreFailsKeeps ==
    ASSUME Talk!ConversationAssumption, TalkInv, NEW s \in Socket, Talk!StoreFails(s)
    PROVE  TalkInv'
  <1> USE DEF TalkInv
  <1>1. /\ turn.pc = "storing"
        /\ \/ Talk!NativeEnds(<<storing>> \o pending) /\ UNCHANGED msg
           \/ Talk!NativeEnds(pending) /\ \E f \in {"inserted", "counted"} : Talk!Become(storing, f)
        /\ UNCHANGED <<reader, main, lockq, holder, boxOpen, box, gaveUp>>
    BY DEF Talk!StoreFails, Talk!At, Talk!lockVars, Talk!boxVars
  <1>2. storing # Talk!None /\ pending \in Seq(Talk!Message) /\ msg \in [Talk!Message -> Messages]
    BY <1>1 DEF Turning, TalkShape
  <1>3. storing \in Talk!Message /\ msg[storing].fate = "sent"
    BY <1>2, StoringOnce
  <1>4. \A n \in Talk!Message : /\ Times(n, pending) \in Nat
                                /\ (n = storing => Same(storing, n) = 1) /\ (n # storing => Same(storing, n) = 0)
    BY CountsAreNat DEF Same
  <1>5. CASE Talk!NativeEnds(<<storing>> \o pending) /\ UNCHANGED msg
    <2> DEFINE q == <<storing>> \o pending
    <2>1. <<storing>> = Append(<<>>, storing) /\ <<storing>> \in Seq(Talk!Message) /\ <<>> \in Seq(Talk!Message) /\ q \in Seq(Talk!Message)
      BY <1>2, <1>3
    <2>2. \A n : Times(n, <<storing>>) = Same(storing, n)
      <3>1. \A n : Times(n, Append(<<>>, storing)) = Times(n, <<>>) + Same(storing, n)
        BY <1>3, <2>1, TimesAppend
      <3>2. \A n : Same(storing, n) \in Nat
        BY DEF Same
      <3> QED
        BY <2>1, <3>1, <3>2, TimesEmpty
    <2>3. \A n : Times(n, q) = Times(n, <<storing>>) + Times(n, pending)
      BY <1>2, <2>1, TimesConcat
    <2> HIDE DEF q
    <2>4. \A n \in Talk!Message :
              (IF msg'[n].fate \in {"unsent", "sent"} THEN 0 ELSE 1) + Times(n, q)
                = (IF msg[n].fate \in {"unsent", "sent"} THEN 0 ELSE 1) + Times(n, pending) + Same(storing, n)
      BY <1>4, <1>5, <2>2, <2>3
    <2>5. \A n \in Talk!Message : /\ msg'[n].of = msg[n].of /\ (msg'[n].fate = "unsent" <=> msg[n].fate = "unsent")
                                  /\ msg'[n].fate = "sent" => msg[n].fate = "sent"
      BY <1>5
    <2>6. turn.pc \notin {"none", "ending"} /\ msg' \in [Talk!Message -> Messages] /\ Talk!NativeEnds(q)
      BY <1>1, <1>2, <1>5 DEF q
    <2> QED
      BY <1>1, <2>1, <2>4, <2>5, <2>6, NativeEndsKeeps
  <1>6. CASE Talk!NativeEnds(pending) /\ \E f \in {"inserted", "counted"} : Talk!Become(storing, f)
    <2>1. PICK f \in {"inserted", "counted"} : Talk!Become(storing, f)
      BY <1>6
    <2>2. f \in Talk!Fates
      BY DEF Talk!Fates
    <2>3. /\ msg' \in [Talk!Message -> Messages]
          /\ \A n \in Talk!Message : msg'[n].of = msg[n].of /\ msg'[n].fate = IF n = storing THEN f ELSE msg[n].fate
      BY <1>3, <2>1, <2>2, FateChanges
    <2>4. \A n \in Talk!Message :
              (IF msg'[n].fate \in {"unsent", "sent"} THEN 0 ELSE 1) + Times(n, pending)
                = (IF msg[n].fate \in {"unsent", "sent"} THEN 0 ELSE 1) + Times(n, pending) + Same(storing, n)
      <3>1. f \notin {"unsent", "sent"}
        OBVIOUS
      <3> QED
        BY <1>3, <1>4, <2>3, <3>1
    <2>5. \A n \in Talk!Message : /\ msg'[n].of = msg[n].of /\ (msg'[n].fate = "unsent" <=> msg[n].fate = "unsent")
                                  /\ msg'[n].fate = "sent" => msg[n].fate = "sent"
      BY <1>3, <2>3
    <2>6. turn.pc \notin {"none", "ending"}
      BY <1>1
    <2> QED
      BY <1>1, <1>2, <1>6, <2>3, <2>4, <2>5, <2>6, NativeEndsKeeps
  <1> QED
    BY <1>1, <1>5, <1>6

\* The turn ends: what came too late for it goes back.
LEMMA TurnEndsKeeps ==
    ASSUME Talk!ConversationAssumption, TalkInv, NEW s \in Socket, Talk!TurnEnds(s)
    PROVE  TalkInv'
  <1> USE DEF TalkInv
  <1>1. /\ turn.pc = "ending" /\ holder = s /\ main[s].pc = "turn" /\ inbox' = Talk!HandBack(box)
        /\ boxOpen' = FALSE /\ box' = <<>> /\ holder' = Nobody /\ turn' = Talk!NoTurn
        /\ (main' = [main EXCEPT ![s] = Talk!Idle] /\ UNCHANGED reader) \/ Talk!Leave(s, "failed")
        /\ UNCHANGED <<msg, lockq, pending, storing, gaveUp>>
    BY DEF Talk!TurnEnds, Talk!At
  <1>2. turn' \in Turns /\ turn'.pc = "none"
    BY <1>1 DEF Talk!NoTurn, Turns, Talk!ConversationAssumption
  <1>3. box \in Seq(Talk!Message) /\ pending = <<>> /\ storing = Talk!None /\ main[s].msg = Talk!None
    BY <1>1 DEF TalkShape, Turning, Queued
  <1>4. inbox' \in Inboxes
    BY <1>1, <1>3, HandBackCounts
  <1>5. /\ reader' \in [Socket -> Readers] /\ main' \in [Socket -> Loops]
        /\ \A t \in Socket : reader'[t].msg = reader[t].msg /\ main'[t].msg = main[t].msg
        /\ \A t \in Socket \ {s} : main'[t] = main[t] /\ reader'[t].pc = reader[t].pc
        /\ \/ main'[s].pc = "idle" /\ reader'[s].pc = reader[s].pc
           \/ main'[s].pc = "failed" /\ reader'[s].pc = "ended"
    <2>1. CASE main' = [main EXCEPT ![s] = Talk!Idle] /\ UNCHANGED reader
      <3>1. Talk!Idle \in Loops /\ Talk!Idle.pc = "idle" /\ Talk!Idle.msg = Talk!None
        BY DEF Talk!Idle, Loops
      <3>2. main \in [Socket -> Loops] /\ reader \in [Socket -> Readers]
        BY DEF TalkShape
      <3> QED
        BY <1>3, <2>1, <3>1, <3>2
    <2>2. CASE Talk!Leave(s, "failed")
      <3>1. "failed" \in Talk!Ended
        BY DEF Talk!Ended
      <3> QED
        BY <1>3, <2>2, <3>1, Leaves
    <2> QED
      BY <1>1, <2>1, <2>2
  <1>6. TalkShape'
    <2>1. <<>> \in Seq(Talk!Message) /\ FALSE \in BOOLEAN /\ Nobody \in Socket \union {Nobody}
      OBVIOUS
    <2> QED
      BY <1>1, <1>2, <1>4, <1>5, <2>1 DEF TalkShape
  <1>7. Queued'
    <2>1. \A t \in Socket : Same(main'[t].pc, "waiting") = Same(main[t].pc, "waiting")
      BY <1>1, <1>5 DEF Same
    <2>2. \A t \in Socket : main'[t].pc \notin {"held", "turn"}
      BY <1>1, <1>5 DEF Queued
    <2>3. \A t \in Socket : main'[t].pc \in {"waiting", "held"} <=> main'[t].msg # Talk!None
      BY <1>3, <1>5 DEF Queued
    <2>4. \A t \in Socket : /\ reader'[t].pc = "telling" => reader'[t].msg # Talk!None
                            /\ reader'[t].pc \in {"open", "settling"} => reader'[t].msg = Talk!None
      BY <1>5 DEF Queued
    <2>5. \A t \in Socket : Times(t, lockq') = Same(main'[t].pc, "waiting")
      BY <1>1, <2>1 DEF Queued
    <2> QED
      BY <2>2, <2>3, <2>4, <2>5 DEF Queued
  <1>8. Turning'
    BY <1>1, <1>2, <1>3 DEF Turning
  <1>9. Placed'
    <2>1. ASSUME NEW n \in Talk!Message
          PROVE  AtTurn(n)' \in Nat /\ AtTurn(n)' + Times(n, box) = AtTurn(n)
      <3>1. Times(n, box) \in Nat /\ Times(n, pending) \in Nat /\ Same(storing, n) \in Nat
        BY CountsAreNat DEF Same
      <3>2. Times(n, box') = 0 /\ pending' = pending /\ storing' = storing /\ msg' = msg
        BY <1>1, TimesEmpty
      <3> QED
        BY <3>1, <3>2 DEF AtTurn
    <2> QED
      BY <1>1, <1>3, <1>5, <2>1, HandBackPlaces
  <1>10. Closing'
    <2>1. \A t \in Socket : NoneBoxed(t)' /\ (NoneTaken(t) => NoneTaken(t)')
      <3>1. \A n \in Talk!Message : Times(n, box') = 0
        BY <1>1, TimesEmpty
      <3> QED
        BY <1>1, <3>1 DEF NoneBoxed, NoneTaken
    <2>2. \A t \in Socket : NoneBoxed(t) => inbox'[t] = inbox[t]
      BY <1>1, <1>3, HandBackCloses DEF NoneBoxed
    <2>3. \A t \in Socket : Times(Talk!Closed, inbox'[t]) = Times(Talk!Closed, inbox[t])
      BY <1>1, <1>3, HandBackCloses
    <2> QED
      BY <1>1, <1>5, <2>1, <2>2, <2>3 DEF Closing, Talk!Ended
  <1>11. Talk!CloseLosesNothing'
    BY <1>1, <1>5 DEF Talk!CloseLosesNothing
  <1> QED
    BY <1>6, <1>7, <1>8, <1>9, <1>10, <1>11

-----------------------------------------------------------------------------
(* Every behaviour of the conversation. *)

\* The conversation begins that way.
LEMMA TalkStarts == ASSUME Talk!ConversationAssumption, Talk!Init PROVE TalkInv
  <1>1. TalkShape
    <2>1. [of |-> Nobody, kind |-> "plain", queued |-> FALSE, fate |-> "unsent"] \in Messages
      BY DEF Messages, Talk!Kinds, Talk!Fates
    <2>2. Talk!Reading \in Readers /\ Talk!Idle \in Loops /\ Talk!NoTurn \in Turns
      BY DEF Talk!Reading, Readers, Talk!Idle, Loops, Talk!NoTurn, Turns, Talk!ConversationAssumption
    <2> QED
      <3>1. msg \in [Talk!Message -> Messages]
        BY <2>1 DEF Talk!Init
      <3>2. reader \in [Socket -> Readers] /\ main \in [Socket -> Loops] /\ turn \in Turns
        BY <2>2 DEF Talk!Init
      <3>3. inbox \in Inboxes
        BY DEF Talk!Init, Inboxes
      <3>4. /\ lockq \in Seq(Socket) /\ holder \in Socket \union {Nobody} /\ boxOpen \in BOOLEAN /\ box \in Seq(Talk!Message)
            /\ pending \in Seq(Talk!Message) /\ storing \in Talk!Message \union {Talk!None} /\ gaveUp \in [Socket -> BOOLEAN]
        <4>1. /\ lockq = <<>> /\ holder = Nobody /\ boxOpen = FALSE /\ box = <<>> /\ pending = <<>> /\ storing = Talk!None
              /\ gaveUp = [s \in Socket |-> FALSE]
          BY DEF Talk!Init
        <4>2. lockq \in Seq(Socket) /\ box \in Seq(Talk!Message) /\ pending \in Seq(Talk!Message)
          BY <4>1
        <4>3. holder \in Socket \union {Nobody} /\ storing \in Talk!Message \union {Talk!None}
          BY <4>1
        <4>4. boxOpen \in BOOLEAN /\ gaveUp \in [Socket -> BOOLEAN]
          BY <4>1
        <4> QED
          BY <4>2, <4>3, <4>4
      <3> QED
        BY <3>1, <3>2, <3>3, <3>4 DEF TalkShape
  <1>2. \A s \in Socket : /\ reader[s].pc = "open" /\ reader[s].msg = Talk!None /\ main[s].pc = "idle" /\ main[s].msg = Talk!None
                          /\ inbox[s] = <<>> /\ ~gaveUp[s]
    BY DEF Talk!Init, Talk!Reading, Talk!Idle
  <1>3. \A m \in Talk!Message : msg[m].of = Nobody /\ msg[m].fate = "unsent"
    BY DEF Talk!Init
  <1>4. /\ lockq = <<>> /\ ~boxOpen /\ box = <<>> /\ turn.pc = "none" /\ pending = <<>> /\ storing = Talk!None
    BY DEF Talk!Init, Talk!NoTurn
  <1>5. \A x : Times(x, <<>>) = 0
    BY TimesEmpty
  <1>6. Queued
    BY <1>2, <1>4, <1>5 DEF Queued, Same
  <1>7. Turning
    BY <1>4 DEF Turning
  <1>8. Placed
    <2>1. \A m \in Talk!Message : AtTurn(m) = 0 /\ \A s \in Socket : AtSocket(m, s) = 0
      BY <1>2, <1>3, <1>4, <1>5, ClosedIsNone DEF AtTurn, AtSocket, Same
    <2> QED
      BY <1>3, <2>1 DEF Placed, Talk!ConversationAssumption
  <1>9. Closing
    BY <1>2, <1>5 DEF Closing, Talk!Ended
  <1>10. Talk!CloseLosesNothing
    BY <1>2 DEF Talk!CloseLosesNothing
  <1> QED
    BY <1>1, <1>6, <1>7, <1>8, <1>9, <1>10 DEF TalkInv

\* Every step keeps it.
LEMMA TalkSteps == ASSUME Talk!ConversationAssumption, TalkInv, [Talk!Next]_(Talk!vars) PROVE TalkInv'
  <1>1. CASE UNCHANGED Talk!vars
    <2>1. UNCHANGED <<msg, reader, inbox, main, lockq, holder, boxOpen, box, turn, pending, storing, gaveUp>>
      BY <1>1 DEF Talk!vars, Talk!sockVars, Talk!lockVars, Talk!boxVars, Talk!turnVars
    <2>2. TalkShape' /\ Queued' /\ Turning' /\ Talk!CloseLosesNothing'
      BY <2>1 DEF TalkInv, TalkShape, Queued, Turning, Talk!CloseLosesNothing
    <2>3. Placed'
      BY <2>1 DEF TalkInv, Placed, AtSocket, AtTurn
    <2>4. Closing'
      BY <2>1 DEF TalkInv, Closing, NoneBoxed, NoneTaken
    <2> QED
      BY <2>2, <2>3, <2>4 DEF TalkInv
  <1>2. ASSUME NEW s \in Socket, Talk!Receive(s) \/ Talk!Disconnect(s) \/ Talk!Work(s)
        PROVE  TalkInv'
    <2>1. CASE Talk!Receive(s)
      BY <2>1, ReceiveKeeps
    <2>2. CASE Talk!Disconnect(s)
      BY <2>2, DisconnectKeeps
    <2>3. CASE Talk!Work(s)
      <3>1. CASE Talk!Forward(s) \/ Talk!Settled(s) \/ Talk!SeeClose(s) \/ Talk!AnswerOther(s) \/ Talk!TakeMessage(s)
        BY <3>1, ForwardKeeps, SettledKeeps, SeeCloseKeeps, AnswerOtherKeeps, TakeMessageKeeps
      <3>2. CASE Talk!Acquire(s) \/ Talk!OpenBox(s) \/ Talk!ModelCallsTools(s) \/ Talk!BatchEnds(s) \/ Talk!Request(s)
        BY <3>2, AcquireKeeps, OpenBoxKeeps, ModelCallsToolsKeeps, BatchEndsKeeps, RequestKeeps
      <3>3. CASE Talk!StoreDone(s) \/ Talk!LoopEnds(s) \/ Talk!StoreFails(s) \/ Talk!TurnEnds(s)
        BY <3>3, StoreDoneKeeps, LoopEndsKeeps, StoreFailsKeeps, TurnEndsKeeps
      <3> QED
        BY <2>3, <3>1, <3>2, <3>3 DEF Talk!Work
    <2> QED
      BY <1>2, <2>1, <2>2, <2>3
  <1> QED
    BY <1>1, <1>2 DEF Talk!Next

\* The places of a sent message in the inboxes are those in the inbox of the socket that sent it.
LEMMA InboxesOfOne ==
    ASSUME Talk!ConversationAssumption, TalkInv, NEW m \in Talk!Message, NEW o \in Socket, msg[m].of = o
    PROVE  Talk!Cardinality(Talk!InInboxes(m)) = Times(m, inbox[o])
  <1> USE DEF TalkInv
  <1> DEFINE P == {i \in 1 .. Len(inbox[o]) : inbox[o][i] = m}
             D == Talk!Message \union {Talk!Closed}
  <1>1. \A t \in Socket : inbox[t] \in Seq(D) /\ DOMAIN inbox[t] = 1 .. Len(inbox[t]) /\ Len(inbox[t]) \in Nat
    BY DEF TalkShape, Inboxes
  <1>2. ASSUME NEW t \in Socket, t # o, NEW i \in 1 .. Len(inbox[t])
        PROVE  inbox[t][i] # m
    <2>1. AtSocket(m, t) = 0
      BY <1>2 DEF Placed
    <2>2. Times(m, inbox[t]) \in Nat /\ Same(reader[t].msg, m) \in Nat /\ Same(main[t].msg, m) \in Nat
      BY CountsAreNat DEF Same
    <2>3. Times(m, inbox[t]) = 0
      BY <2>1, <2>2 DEF AtSocket
    <2>4. inbox[t] \in Seq(D)
      BY <1>1
    <2> HIDE DEF D
    <2> QED
      BY <2>3, <2>4, TimesZero
  <1>3. Talk!InInboxes(m) = {o} \X P
    <2>1. ASSUME NEW p \in Talk!InInboxes(m) PROVE p \in {o} \X P
      <3>1. PICK t \in Socket : p \in {t} \X DOMAIN inbox[t]
        BY <2>1 DEF Talk!InInboxes
      <3>2. inbox[p[1]][p[2]] = m
        BY <2>1 DEF Talk!InInboxes
      <3>3. p = <<p[1], p[2]>> /\ p[1] = t /\ p[2] \in 1 .. Len(inbox[t])
        BY <1>1, <3>1
      <3>4. t = o
        BY <1>2, <3>2, <3>3
      <3> QED
        BY <3>2, <3>3, <3>4
    <2>2. ASSUME NEW p \in {o} \X P PROVE p \in Talk!InInboxes(m)
      <3>1. p = <<p[1], p[2]>> /\ p[1] = o /\ p[2] \in 1 .. Len(inbox[o]) /\ inbox[o][p[2]] = m
        BY <2>2
      <3>2. p \in {o} \X DOMAIN inbox[o]
        BY <1>1, <3>1
      <3>3. p \in UNION {{t} \X DOMAIN inbox[t] : t \in Socket}
        BY <3>2
      <3> QED
        BY <3>1, <3>3 DEF Talk!InInboxes
    <2> QED
      BY <2>1, <2>2
  <1>4. IsFiniteSet(P) /\ Cardinality(P) = Times(m, inbox[o]) /\ Times(m, inbox[o]) \in Nat
    BY <1>1, UptoType, CountsAreNat DEF Times, Upto
  <1>5. IsFiniteSet({o}) /\ Cardinality({o}) = 1
    BY FS_Singleton
  <1> HIDE DEF P
  <1>6. Cardinality({o} \X P) = Cardinality({o}) * Cardinality(P)
    BY <1>4, <1>5, FS_Product
  <1> QED
    BY <1>3, <1>4, <1>5, <1>6, SameCount

\* And those with a reader or a loop are with its reader and its loop.
LEMMA HoldersOfOne ==
    ASSUME Talk!ConversationAssumption, TalkInv, NEW m \in Talk!Message, NEW o \in Socket, msg[m].of = o
    PROVE  Talk!Cardinality(Talk!Holders(m)) = Same(reader[o].msg, m) + Same(main[o].msg, m)
  <1> USE DEF TalkInv
  <1> DEFINE R == {s \in Socket : reader[s].msg = m}
             M == {s \in Socket : main[s].msg = m}
  <1>1. ASSUME NEW t \in Socket, t # o
        PROVE  reader[t].msg # m /\ main[t].msg # m
    <2>1. AtSocket(m, t) = 0
      BY <1>1 DEF Placed
    <2>2. Times(m, inbox[t]) \in Nat
      BY CountsAreNat
    <2> QED
      BY <2>1, <2>2 DEF AtSocket, Same
  <1>2. R = (IF reader[o].msg = m THEN {o} ELSE {}) /\ M = (IF main[o].msg = m THEN {o} ELSE {})
    BY <1>1
  <1>3. IsFiniteSet(R) /\ Cardinality(R) = Same(reader[o].msg, m) /\ IsFiniteSet(M) /\ Cardinality(M) = Same(main[o].msg, m)
    <2>1. IsFiniteSet({o}) /\ Cardinality({o}) = 1 /\ IsFiniteSet({}) /\ Cardinality({}) = 0
      BY FS_Singleton, FS_EmptySet
    <2> HIDE DEF R, M
    <2>2. IsFiniteSet(R) /\ Cardinality(R) = Same(reader[o].msg, m)
      <3>1. CASE reader[o].msg = m
        BY <1>2, <2>1, <3>1 DEF Same
      <3>2. CASE reader[o].msg # m
        BY <1>2, <2>1, <3>2 DEF Same
      <3> QED
        BY <3>1, <3>2
    <2>3. IsFiniteSet(M) /\ Cardinality(M) = Same(main[o].msg, m)
      <3>1. CASE main[o].msg = m
        BY <1>2, <2>1, <3>1 DEF Same
      <3>2. CASE main[o].msg # m
        BY <1>2, <2>1, <3>2 DEF Same
      <3> QED
        BY <3>1, <3>2
    <2> QED
      BY <2>2, <2>3
  <1>4. Talk!Holders(m) = ({"reader"} \X R) \union ({"main"} \X M)
    BY DEF Talk!Holders
  <1> HIDE DEF R, M
  <1>5. \A c : IsFiniteSet({c}) /\ Cardinality({c}) = 1
    BY FS_Singleton
  <1>6. Same(reader[o].msg, m) \in Nat /\ Same(main[o].msg, m) \in Nat
    BY DEF Same
  <1>7. IsFiniteSet({"reader"} \X R) /\ Cardinality({"reader"} \X R) = Same(reader[o].msg, m)
    <2>1. IsFiniteSet({"reader"} \X R) /\ Cardinality({"reader"} \X R) = Cardinality({"reader"}) * Cardinality(R)
      BY <1>3, <1>5, FS_Product
    <2>2. Cardinality({"reader"}) = 1 /\ Cardinality(R) \in Nat
      BY <1>3, <1>5, <1>6
    <2>3. 1 * Cardinality(R) = Cardinality(R)
      BY <2>2
    <2> QED
      BY <1>3, <2>1, <2>2, <2>3, Zenon
  <1>8. IsFiniteSet({"main"} \X M) /\ Cardinality({"main"} \X M) = Same(main[o].msg, m)
    <2>1. IsFiniteSet({"main"} \X M) /\ Cardinality({"main"} \X M) = Cardinality({"main"}) * Cardinality(M)
      BY <1>3, <1>5, FS_Product
    <2>2. Cardinality({"main"}) = 1 /\ Cardinality(M) \in Nat
      BY <1>3, <1>5, <1>6
    <2>3. 1 * Cardinality(M) = Cardinality(M)
      BY <2>2
    <2> QED
      BY <1>3, <2>1, <2>2, <2>3, Zenon
  <1>9. ({"reader"} \X R) \cap ({"main"} \X M) = {}
    <2>1. "reader" # "main"
      OBVIOUS
    <2> QED
      BY <2>1
  <1>10. Cardinality(({"reader"} \X R) \union ({"main"} \X M))
           = Cardinality({"reader"} \X R) + Cardinality({"main"} \X M) - Cardinality(({"reader"} \X R) \cap ({"main"} \X M))
    BY <1>7, <1>8, FS_Union
  <1>11. Cardinality({}) = 0
    BY FS_EmptySet
  <1> DEFINE A == {"reader"} \X R
             B == {"main"} \X M
  <1>12. Cardinality(Talk!Holders(m)) = Cardinality(A) + Cardinality(B) - 0
    BY <1>4, <1>9, <1>10, <1>11
  <1>13. Cardinality(A) = Same(reader[o].msg, m) /\ Cardinality(B) = Same(main[o].msg, m)
    BY <1>7, <1>8
  <1> HIDE DEF A, B
  <1>14. Cardinality(Talk!Holders(m)) = Same(reader[o].msg, m) + Same(main[o].msg, m)
    BY <1>6, <1>12, <1>13
  <1> QED
    BY <1>14, SameCount, Zenon

\* A message in one place by these counts is so by Conversation's.
LEMMA OnePlace == ASSUME Talk!ConversationAssumption, TalkInv PROVE Talk!MessageHasOnePlace
  <1> USE DEF TalkInv
  <1> SUFFICES ASSUME NEW m \in Talk!Message, msg[m].fate # "unsent"
               PROVE  Talk!Cardinality(Talk!InInboxes(m)) + Talk!Occurs(m, box) + Talk!Occurs(m, pending)
                        + Talk!Cardinality(Talk!Holders(m))
                        + (IF storing = m THEN 1 ELSE 0) + (IF msg[m].fate # "sent" THEN 1 ELSE 0) = 1
    BY DEF Talk!MessageHasOnePlace
  <1> DEFINE o == msg[m].of
  <1>1. o \in Socket
    BY DEF Placed, TalkShape, Messages
  <1>2. AtSocket(m, o) = 1 - AtTurn(m)
    BY <1>1 DEF Placed
  <1>3. box \in Seq(Talk!Message) /\ pending \in Seq(Talk!Message)
    BY DEF TalkShape
  <1>4. Talk!Occurs(m, box) = Times(m, box) /\ Talk!Occurs(m, pending) = Times(m, pending)
    BY <1>3, OccursIsTimes
  <1> HIDE DEF o
  <1>5. msg[m].of = o
    BY DEF o
  <1>6. Talk!Cardinality(Talk!InInboxes(m)) = Times(m, inbox[o])
    BY <1>1, <1>5, InboxesOfOne
  <1>7. Talk!Cardinality(Talk!Holders(m)) = Same(reader[o].msg, m) + Same(main[o].msg, m)
    BY <1>1, <1>5, HoldersOfOne
  <1>8. /\ Times(m, inbox[o]) \in Nat /\ Times(m, box) \in Nat /\ Times(m, pending) \in Nat
        /\ Same(reader[o].msg, m) \in Nat /\ Same(main[o].msg, m) \in Nat /\ Same(storing, m) \in Nat
    BY <1>1, CountsAreNat DEF Same
  <1>9. (IF storing = m THEN 1 ELSE 0) = Same(storing, m)
    BY DEF Same
  <1>10. AtTurn(m) = Times(m, box) + Times(m, pending) + Same(storing, m) + IF msg[m].fate # "sent" THEN 1 ELSE 0
    BY DEF AtTurn
  <1>11. AtSocket(m, o) = Times(m, inbox[o]) + Same(reader[o].msg, m) + Same(main[o].msg, m)
    BY DEF AtSocket
  <1> DEFINE is == IF msg[m].fate # "sent" THEN 1 ELSE 0
  <1>12. is \in Nat /\ AtTurn(m) = Times(m, box) + Times(m, pending) + Same(storing, m) + is
    BY <1>10
  <1> HIDE DEF is
  <1>13. Times(m, inbox[o]) + Times(m, box) + Times(m, pending) + (Same(reader[o].msg, m) + Same(main[o].msg, m))
            + Same(storing, m) + is = 1
    BY <1>2, <1>8, <1>11, <1>12
  <1> QED
    BY <1>4, <1>6, <1>7, <1>9, <1>13 DEF is

\* Talk has the definitions of ConversationState, its assumption included.
LEMMA TalkIsConversation ==
    /\ Talk!ConversationAssumption
    /\ Talk!MessageHasOnePlace <=> MessageHasOnePlace
    /\ Talk!CloseLosesNothing <=> CloseLosesNothing
  <1>1. Talk!ConversationAssumption
    BY ConversationAssumption, Zenon DEF ConversationAssumption, Talk!ConversationAssumption, IsFiniteSet, Talk!IsFiniteSet
  <1>2. Talk!MessageHasOnePlace <=> MessageHasOnePlace
    <2>1. Talk!Message = Message
      BY DEF Talk!Message, Message
    <2>2. \A m : Talk!InInboxes(m) = InInboxes(m) /\ Talk!Holders(m) = Holders(m)
      BY Zenon DEF Talk!InInboxes, InInboxes, Talk!Holders, Holders
    <2>3. \A m, q : Talk!Occurs(m, q) = Occurs(m, q)
      BY SameCount, Zenon DEF Talk!Occurs, Occurs
    <2> QED
      BY <2>1, <2>2, <2>3, SameCount DEF Talk!MessageHasOnePlace, MessageHasOnePlace
  <1>3. Talk!CloseLosesNothing <=> CloseLosesNothing
    BY DEF Talk!CloseLosesNothing, CloseLosesNothing, Talk!Message, Message
  <1> QED
    BY <1>1, <1>2, <1>3

\* Whatever the number of sockets, messages and model requests, the state of a conversation has its type.
THEOREM ConversationTyped == Talk!Spec => []Talk!TypeOK
  <1>1. TalkInv => Talk!TypeOK
    BY ShapeIsType DEF TalkInv
  <1>2. Talk!Init => TalkInv
    BY TalkStarts, TalkIsConversation
  <1>3. TalkInv /\ [Talk!Next]_(Talk!vars) => TalkInv'
    BY TalkSteps, TalkIsConversation
  <1> QED
    BY <1>1, <1>2, <1>3, PTL DEF Talk!Spec

\* Whatever the number of sockets, messages and model requests, a message a client sent is in exactly one
\* place at every moment, through the box, its reading, a failed store, every hand-back and a withdrawal.
THEOREM MessagesHaveOnePlace == Talk!Spec => []MessageHasOnePlace
  <1>1. TalkInv => MessageHasOnePlace
    BY OnePlace, TalkIsConversation
  <1>2. Talk!Init => TalkInv
    BY TalkStarts, TalkIsConversation
  <1>3. TalkInv /\ [Talk!Next]_(Talk!vars) => TalkInv'
    BY TalkSteps, TalkIsConversation
  <1> QED
    BY <1>1, <1>2, <1>3, PTL DEF Talk!Spec

\* A socket whose loop has seen the close has left none of its messages behind, unless the wait for what a
\* turn had read ran out.
THEOREM ClosesLoseNothing == Talk!Spec => []CloseLosesNothing
  <1>1. TalkInv => CloseLosesNothing
    BY TalkIsConversation DEF TalkInv
  <1>2. Talk!Init => TalkInv
    BY TalkStarts, TalkIsConversation
  <1>3. TalkInv /\ [Talk!Next]_(Talk!vars) => TalkInv'
    BY TalkSteps, TalkIsConversation
  <1> QED
    BY <1>1, <1>2, <1>3, PTL DEF Talk!Spec

\* What has become of a message is settled: a message that is part of a turn, or answered, stays that.
FateIsFinal == \A m \in Talk!Message : msg[m].fate \notin {"unsent", "sent"} => msg'[m] = msg[m]

\* Only a message not sent yet, or sent and waiting, changes what becomes of it.
LEMMA BecomesOnce ==
    ASSUME TalkShape, NEW m \in Talk!Message, msg[m].fate = "sent", NEW f, Talk!Become(m, f)
    PROVE  FateIsFinal
  BY DEF FateIsFinal, Talk!Become, TalkShape

\* No step changes what has become of a message.
LEMMA FateSteps == ASSUME Talk!ConversationAssumption, TalkInv, Talk!Next PROVE FateIsFinal
  <1> USE DEF TalkInv
  <1>1. PICK s \in Socket : Talk!Receive(s) \/ Talk!Disconnect(s) \/ Talk!Work(s)
    BY DEF Talk!Next
  <1>2. CASE UNCHANGED msg
    BY <1>2 DEF FateIsFinal
  <1>3. CASE Talk!Receive(s)
    <2>1. PICK m \in Talk!Next1 : \A n \in Talk!Message \ {m} : msg'[n] = msg[n]
      BY <1>3 DEF Talk!Receive, TalkShape
    <2> QED
      BY <2>1 DEF FateIsFinal, Talk!Next1
  <1>4. CASE Talk!AnswerOther(s)
    <2> DEFINE m == Head(inbox[s])
    <2>1. inbox[s] # <<>> /\ inbox[s] \in Seq(Talk!Message \union {Talk!Closed}) /\ m \in Talk!Message /\ Talk!Become(m, "answered")
      BY <1>4 DEF Talk!AnswerOther, TalkShape, Inboxes
    <2>2. Times(m, inbox[s]) = Same(m, m) + Times(m, Tail(inbox[s])) /\ Tail(inbox[s]) \in Seq(Talk!Message \union {Talk!Closed})
      BY <2>1, TimesTail
    <2>3. Times(m, Tail(inbox[s])) \in Nat
      BY <2>2, TimesZero
    <2> HIDE DEF m
    <2>4. AtSocket(m, s) # 0
      <3>1. Same(m, m) = 1 /\ Same(reader[s].msg, m) \in Nat /\ Same(main[s].msg, m) \in Nat
        BY DEF Same
      <3> QED
        BY <2>2, <2>3, <3>1 DEF AtSocket
    <2>5. msg[m].fate = "sent"
      BY <2>1, <2>4, AtSocketOnce
    <2> QED
      BY <2>1, <2>5, BecomesOnce
  <1>5. CASE Talk!Open(s) /\ main[s].pc \in {"waiting", "held"}
    <2>1. Talk!Become(main[s].msg, "turn")
      BY <1>5 DEF Talk!Open
    <2> QED
      BY <1>5, <2>1, WaiterHas, BecomesOnce
  <1>6. CASE Talk!Acquire(s)
    <2>1. main[s].pc = "waiting"
      <3>1. lockq # <<>> /\ Head(lockq) = s /\ lockq \in Seq(Socket)
        BY <1>6 DEF Talk!Acquire, TalkShape
      <3>2. Times(s, lockq) = Same(s, s) + Times(s, Tail(lockq)) /\ Tail(lockq) \in Seq(Socket)
        BY <3>1, TimesTail
      <3>3. Times(s, Tail(lockq)) \in Nat
        BY <3>2, TimesZero
      <3> QED
        BY <3>2, <3>3 DEF Queued, Same
    <2>2. UNCHANGED msg \/ Talk!Open(s)
      BY <1>6 DEF Talk!Acquire
    <2> QED
      BY <1>2, <1>5, <2>1, <2>2
  <1>7. CASE Talk!OpenBox(s)
    BY <1>5, <1>7 DEF Talk!OpenBox
  <1>8. CASE Talk!StoreDone(s) \/ Talk!StoreFails(s)
    <2>1. turn.pc = "storing" /\ (UNCHANGED msg \/ \E f \in {"inserted", "counted"} : Talk!Become(storing, f))
      BY <1>8 DEF Talk!StoreDone, Talk!StoreFails, Talk!At
    <2>2. storing # Talk!None
      BY <2>1 DEF Turning
    <2>3. storing \in Talk!Message /\ msg[storing].fate = "sent"
      BY <2>2, StoringOnce
    <2> QED
      BY <1>2, <2>1, <2>3, BecomesOnce
  <1>9. CASE \/ Talk!Disconnect(s) \/ Talk!Forward(s) \/ Talk!Settled(s) \/ Talk!SeeClose(s) \/ Talk!TakeMessage(s)
             \/ Talk!ModelCallsTools(s) \/ Talk!BatchEnds(s) \/ Talk!Request(s) \/ Talk!LoopEnds(s) \/ Talk!TurnEnds(s)
    <2>1. UNCHANGED msg
      BY <1>9 DEF Talk!Disconnect, Talk!Forward, Talk!Settled, Talk!SeeClose, Talk!TakeMessage, Talk!ModelCallsTools,
                  Talk!BatchEnds, Talk!Request, Talk!LoopEnds, Talk!TurnEnds
    <2> QED
      BY <1>2, <2>1
  <1> QED
    BY <1>1, <1>3, <1>4, <1>6, <1>7, <1>8, <1>9 DEF Talk!Work

\* What has become of a message never changes again: none that a turn has run or stored, or that was
\* answered, is run, stored or answered a second time.
THEOREM FatesAreFinal == Talk!Spec => [][FateIsFinal]_(Talk!vars)
  <1>1. Talk!Init => TalkInv
    BY TalkStarts, TalkIsConversation
  <1>2. TalkInv /\ [Talk!Next]_(Talk!vars) => TalkInv'
    BY TalkSteps, TalkIsConversation
  <1>3. TalkInv /\ [Talk!Next]_(Talk!vars) => [FateIsFinal]_(Talk!vars)
    BY FateSteps, TalkIsConversation
  <1> QED
    BY <1>1, <1>2, <1>3, PTL DEF Talk!Spec
=============================================================================
