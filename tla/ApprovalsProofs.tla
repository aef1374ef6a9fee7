--------------------------- MODULE ApprovalsProofs ---------------------------
(***************************************************************************)
(* The registry of confirmation cards (server/services/approvals.py), for  *)
(* every number of asks, of turns' and of jobs', and every set of          *)
(* questions: what the runs of Approvals check on three asks.              *)
(***************************************************************************)
EXTENDS Approvals, FiniteSetTheorems, TLAPS

-----------------------------------------------------------------------------
(* The inductive invariant. *)

CardShape ==
    /\ registered \in SUBSET Ask /\ byTyping \in SUBSET Ask
    /\ verdict \in [Ask -> {"open", "approved", "declined"}]
    /\ expired \in [Ask -> BOOLEAN] /\ private \in [Ask -> BOOLEAN]
    /\ waiters \in [Ask -> Int] /\ resolved \in [Ask -> Int]
    /\ pc \in [Ask -> {"idle", "sending", "waiting", "done", "stopped"}]
    /\ card \in [Ask -> Ask \union {NoCard}] /\ result \in [Ask -> Results]
    /\ typed \in [Ask -> {"no", "own", "shared"}]

\* An ask has no card before it asks; the card it asks on was opened by the ask that
\* names it, and one that was never opened is fresh.
Opened ==
    /\ \A a \in Ask : pc[a] = "idle" => card[a] = NoCard
    /\ \A a \in Ask : Asking(a) => card[a] \in Ask
    /\ \A a \in Ask : card[a] \in Ask => card[card[a]] = card[a]
    /\ \A c \in Ask : card[c] # c => c \notin registered /\ verdict[c] = "open" /\ resolved[c] = 0

\* The waiters of a card are counted, after it left the registry too.
Counted == \A c \in Ask : waiters[c] = Cardinality(AsksOn(c))

\* A card that has been announced is out of the registry for good.
Announced == \A c \in Ask : resolved[c] <= 1 /\ (c \in registered => resolved[c] = 0)

\* Only a turn is typed over, and its own card is then decided or out of time.
TypedOver ==
    \A a \in Ask :
        /\ typed[a] # "no" => TurnAsk(a)
        /\ typed[a] = "own" => card[a] \in Ask /\ (verdict[card[a]] # "open" \/ expired[card[a]])

\* A wait that ended had a reason to, and what was told is what the card still says.
Ended ==
    \A a \in Ask :
        /\ pc[a] = "done" /\ card[a] \in Ask => verdict[card[a]] # "open" \/ expired[card[a]] \/ typed[a] # "no"
        /\ result[a] \in {"approved", "declined"} => card[a] \in Ask /\ verdict[card[a]] = result[a]
        /\ result[a] = "expired" => card[a] \in Ask /\ verdict[card[a]] = "open" /\ expired[card[a]]

\* A card answered by typing is decided.
TypedIsDecided == \A c \in byTyping : verdict[c] # "open"

CardInv ==
    /\ CardShape /\ Opened /\ Counted /\ CardsHaveWaiters /\ Announced
    /\ TypedOver /\ Ended /\ TypedIsDecided /\ TypingSparesTheJob /\ PrivateCardHasItsTurn

-----------------------------------------------------------------------------
(* Who asks on which card. *)

\* The asks on a card are finitely many.
LEMMA FiniteAsks ==
    ASSUME NEW S \in SUBSET Ask
    PROVE  IsFiniteSet(S) /\ Cardinality(S) \in Nat /\ (Cardinality(S) = 0 <=> S = {})
  BY ApprovalsAssumption, FS_Subset, FS_CardinalityType, FS_EmptySet

\* An ask that starts waits on its card and on no other.
LEMMA Enters ==
    ASSUME CardShape, Opened, NEW a \in Ask, NEW c \in Ask, NEW x \in {"sending", "waiting"}, pc[a] = "idle",
           card' = [card EXCEPT ![a] = c], pc' = [pc EXCEPT ![a] = x]
    PROVE  /\ \A d \in Ask : d # c => AsksOn(d)' = AsksOn(d)
           /\ AsksOn(c)' = AsksOn(c) \union {a} /\ a \notin AsksOn(c)
  BY ApprovalsAssumption DEF CardShape, Opened, AsksOn, Asking

\* An ask that ends leaves its card and no other.
LEMMA Leaves ==
    ASSUME CardShape, NEW a \in Ask, Asking(a), NEW x \in {"done", "stopped"}, card' = card, pc' = [pc EXCEPT ![a] = x]
    PROVE  /\ \A d \in Ask : d # card[a] => AsksOn(d)' = AsksOn(d)
           /\ \A d \in Ask : d = card[a] => AsksOn(d)' = AsksOn(d) \ {a} /\ a \in AsksOn(d)
  BY DEF CardShape, AsksOn, Asking

\* A step that neither starts nor ends an ask leaves the cards their waiters.
LEMMA Stays ==
    ASSUME card' = card, \A a \in Ask : Asking(a)' <=> Asking(a)
    PROVE  \A d \in Ask : AsksOn(d)' = AsksOn(d)
  BY DEF AsksOn

-----------------------------------------------------------------------------
(* Steps that neither start nor end an ask. *)

\* A step that changes at most how far an asking ask is, and who sees a card.
LEMMA QuietStep ==
    ASSUME CardInv, CardShape', UNCHANGED <<card, registered, verdict, expired, waiters, resolved, result, typed, byTyping>>,
           \A a \in Ask : Asking(a)' <=> Asking(a),
           \A a \in Ask : pc'[a] # pc[a] => Asking(a),
           \A c \in Ask : private'[c] => private[c]
    PROVE  CardInv'
  <1> USE DEF CardInv
  <1>1. \A d \in Ask : AsksOn(d)' = AsksOn(d)
    BY Stays
  <1>2. Opened'
    BY DEF Opened, Asking
  <1>3. Counted' /\ CardsHaveWaiters' /\ Announced'
    BY <1>1 DEF CardShape, Counted, CardsHaveWaiters, Announced
  <1>4. TypedOver' /\ TypedIsDecided'
    BY DEF TypedOver, TypedIsDecided
  <1>5. Ended'
    BY DEF Ended, Asking
  <1>6. TypingSparesTheJob'
    BY DEF TypingSparesTheJob, Asking
  <1>7. PrivateCardHasItsTurn'
    BY <1>1 DEF PrivateCardHasItsTurn, Answerable, Mine
  <1> QED
    BY <1>2, <1>3, <1>4, <1>5, <1>6, <1>7

\* The answer that decides a card, and its time running out.
LEMMA AnswerStep ==
    ASSUME CardInv, NEW c \in Ask, NEW src, NEW yes \in BOOLEAN, Answer(c, src, yes)
    PROVE  CardInv'
  <1> USE DEF CardInv
  <1>1. \A d \in Ask : AsksOn(d)' = AsksOn(d)
    <2>1. card' = card /\ pc' = pc
      BY DEF Answer, askVars
    <2> QED
      BY <2>1, Stays DEF Asking
  <1>2. /\ UNCHANGED <<registered, expired, waiters, private, pc, card, result, typed, resolved, byTyping>>
        /\ verdict[c] = "open" /\ ~expired[c] /\ c \in registered
    BY DEF Answer, askVars, ghostVars, Answerable
  <1>3. PICK v \in {"approved", "declined"} : verdict' = [verdict EXCEPT ![c] = v]
    BY DEF Answer
  <1>4. CardShape'
    BY <1>2, <1>3 DEF CardShape
  <1>5. Opened'
    BY <1>2, <1>3 DEF Opened, Asking, CardShape
  <1>6. Counted' /\ CardsHaveWaiters' /\ Announced'
    BY <1>1, <1>2, <1>3 DEF CardShape, Counted, CardsHaveWaiters, Announced
  <1>7. TypedOver' /\ TypedIsDecided'
    BY <1>2, <1>3 DEF TypedOver, TypedIsDecided, CardShape
  <1>8. Ended'
    BY <1>2, <1>3 DEF Ended, CardShape
  <1>9. TypingSparesTheJob'
    BY <1>2 DEF TypingSparesTheJob
  <1>10. PrivateCardHasItsTurn'
    BY <1>1, <1>2, <1>3 DEF PrivateCardHasItsTurn, Answerable, Mine, CardShape
  <1> QED
    BY <1>4, <1>5, <1>6, <1>7, <1>8, <1>9, <1>10

\* A card's time is up: nothing that was said of it changes.
LEMMA TimeUpStep ==
    ASSUME CardInv, NEW c \in Ask, TimeUp(c)
    PROVE  CardInv'
  <1> USE DEF CardInv
  <1>1. \A d \in Ask : AsksOn(d)' = AsksOn(d)
    <2>1. card' = card /\ pc' = pc
      BY DEF TimeUp, askVars
    <2> QED
      BY <2>1, Stays DEF Asking
  <1>2. /\ UNCHANGED <<registered, verdict, waiters, private, pc, card, result, typed, resolved, byTyping>>
        /\ expired' = [expired EXCEPT ![c] = TRUE]
    BY DEF TimeUp, askVars, ghostVars
  <1>3. CardShape' /\ \A d \in Ask : expired[d] => expired'[d]
    BY <1>2 DEF CardShape
  <1>4. Opened'
    BY <1>2 DEF Opened, Asking
  <1>5. Counted' /\ CardsHaveWaiters' /\ Announced'
    BY <1>1, <1>2 DEF CardShape, Counted, CardsHaveWaiters, Announced
  <1>6. TypedOver' /\ TypedIsDecided'
    BY <1>2, <1>3 DEF TypedOver, TypedIsDecided
  <1>7. Ended'
    BY <1>2, <1>3 DEF Ended
  <1>8. TypingSparesTheJob'
    BY <1>2 DEF TypingSparesTheJob
  <1>9. PrivateCardHasItsTurn'
    BY <1>1, <1>2, <1>3 DEF PrivateCardHasItsTurn, Answerable, Mine
  <1> QED
    BY <1>3, <1>4, <1>5, <1>6, <1>7, <1>8, <1>9

\* An asker whose person is away is told so at once, without a card.
LEMMA AwayStep ==
    ASSUME CardInv, NEW a \in Ask, AskAway(a)
    PROVE  CardInv'
  <1> USE DEF CardInv
  <1>1. /\ pc[a] = "idle" /\ pc' = [pc EXCEPT ![a] = "done"] /\ result' = [result EXCEPT ![a] = "away"]
        /\ UNCHANGED <<registered, verdict, expired, waiters, private, card, typed, resolved, byTyping>>
    BY DEF AskAway, cardVars, ghostVars
  <1>2. \A d \in Ask : AsksOn(d)' = AsksOn(d)
    <2>1. \A b \in Ask : Asking(b)' <=> Asking(b)
      BY <1>1 DEF Asking, CardShape
    <2> QED
      BY <1>1, <2>1, Stays
  <1>3. card[a] = NoCard /\ card[a] \notin Ask
    BY <1>1, ApprovalsAssumption DEF Opened
  <1>4. CardShape'
    BY <1>1 DEF CardShape, Results
  <1>5. Opened'
    BY <1>1, <1>4 DEF Opened, Asking, CardShape
  <1>6. Counted' /\ CardsHaveWaiters' /\ Announced'
    BY <1>1, <1>2 DEF CardShape, Counted, CardsHaveWaiters, Announced
  <1>7. TypedOver' /\ TypedIsDecided'
    BY <1>1 DEF TypedOver, TypedIsDecided
  <1>8. Ended'
    BY <1>1, <1>3 DEF Ended, CardShape
  <1>9. TypingSparesTheJob'
    BY <1>1, <1>3 DEF TypingSparesTheJob, CardShape
  <1>10. PrivateCardHasItsTurn'
    BY <1>1, <1>2 DEF PrivateCardHasItsTurn, Answerable, Mine
  <1> QED
    BY <1>4, <1>5, <1>6, <1>7, <1>8, <1>9, <1>10

-----------------------------------------------------------------------------
(* Asks that start. *)

\* A card of its own.
LEMMA OpenStep ==
    ASSUME CardInv, NEW a \in Ask, OpenCard(a)
    PROVE  CardInv'
  <1> USE DEF CardInv
  <1>1. /\ pc[a] = "idle" /\ registered' = registered \union {a} /\ waiters' = [waiters EXCEPT ![a] = 1]
        /\ card' = [card EXCEPT ![a] = a]
        /\ UNCHANGED <<verdict, expired, result, typed, resolved, byTyping>>
    BY DEF OpenCard
  <1>2. /\ private' \in [Ask -> BOOLEAN] /\ \A d \in Ask : d # a => private'[d] = private[d]
        /\ private'[a] => Surface[a] = "window"
    BY DEF OpenCard, CardShape
  <1>3. PICK x \in {"sending", "waiting"} : pc' = [pc EXCEPT ![a] = x]
    BY DEF OpenCard
  <1>4. card[a] = NoCard /\ a \notin registered /\ verdict[a] = "open" /\ resolved[a] = 0 /\ card[a] # a
    BY <1>1, ApprovalsAssumption DEF Opened
  <1>5. \A b \in Ask : card[b] # a
    BY <1>4 DEF Opened
  <1>6. /\ \A d \in Ask : d # a => AsksOn(d)' = AsksOn(d)
        /\ AsksOn(a)' = AsksOn(a) \union {a}
    BY <1>1, <1>3, Enters
  <1>7. AsksOn(a) = {} /\ AsksOn(a)' = {a}
    BY <1>5, <1>6 DEF AsksOn
  <1>8. CardShape'
    BY <1>1, <1>2, <1>3 DEF CardShape
  <1>9. Opened'
    BY <1>1, <1>3, <1>4, <1>5, ApprovalsAssumption DEF Opened, Asking, CardShape
  <1>10. Counted' /\ CardsHaveWaiters'
    <2>1. Cardinality({a}) = 1
      BY FS_Singleton
    <2>2. Counted'
      BY <1>1, <1>6, <1>7, <2>1 DEF Counted, CardShape
    <2> QED
      BY <1>1, <1>6, <1>7, <2>2 DEF Counted, CardsHaveWaiters, CardShape
  <1>11. Announced'
    BY <1>1, <1>4 DEF Announced
  <1>12. TypedOver' /\ TypedIsDecided'
    BY <1>1, <1>4, <1>5, ApprovalsAssumption DEF TypedOver, TypedIsDecided, CardShape
  <1>13. Ended'
    BY <1>1, <1>3, <1>4, <1>5, ApprovalsAssumption DEF Ended, CardShape
  <1>14. TypingSparesTheJob'
    BY <1>1, <1>3, <1>4 DEF TypingSparesTheJob, TypedIsDecided, CardShape
  <1>15. PrivateCardHasItsTurn'
    <2> SUFFICES ASSUME NEW c \in Ask, Answerable(c)', private'[c] PROVE Mine(c)' # {}
      BY DEF PrivateCardHasItsTurn
    <2>1. CASE c = a
      <3>1. Surface[a] = "window"
        BY <1>2, <2>1 DEF CardShape
      <3> QED
        BY <1>7, <2>1, <3>1 DEF Mine, TurnAsk
    <2>2. CASE c # a
      <3>1. private[c]
        BY <1>2, <2>2 DEF CardShape
      <3> QED
        BY <1>1, <1>6, <2>2, <3>1 DEF PrivateCardHasItsTurn, Answerable, Mine
    <2> QED
      BY <2>1, <2>2
  <1> QED
    BY <1>8, <1>9, <1>10, <1>11, <1>12, <1>13, <1>14, <1>15

\* One more waiter on a card that can still be answered.
LEMMA JoinStep ==
    ASSUME CardInv, NEW a \in Ask, NEW c \in Ask, JoinCard(a, c)
    PROVE  CardInv'
  <1> USE DEF CardInv
  <1>1. /\ pc[a] = "idle" /\ Answerable(c) /\ waiters' = [waiters EXCEPT ![c] = @ + 1]
        /\ card' = [card EXCEPT ![a] = c]
        /\ UNCHANGED <<registered, verdict, expired, result, typed, resolved, byTyping>>
    BY DEF JoinCard, Joins
  <1>2. private' \in [Ask -> BOOLEAN] /\ \A d \in Ask : private'[d] => private[d]
    <2>1. MakeShared(c) \/ UNCHANGED private
      BY DEF JoinCard
    <2> QED
      BY <2>1 DEF MakeShared, CardShape
  <1>3. PICK x \in {"sending", "waiting"} : pc' = [pc EXCEPT ![a] = x]
    BY DEF JoinCard
  <1>4. /\ card[a] = NoCard /\ c \in registered /\ verdict[c] = "open" /\ ~expired[c] /\ card[a] # a
        /\ card[c] = c /\ c # a /\ AsksOn(c) \in SUBSET Ask
    BY <1>1, ApprovalsAssumption DEF Opened, Answerable, AsksOn
  <1>5. \A b \in Ask : card[b] # a
    BY <1>4 DEF Opened
  <1>6. /\ \A d \in Ask : d # c => AsksOn(d)' = AsksOn(d)
        /\ AsksOn(c)' = AsksOn(c) \union {a} /\ a \notin AsksOn(c)
    BY <1>1, <1>3, Enters
  <1>7. CardShape'
    BY <1>1, <1>2, <1>3 DEF CardShape
  <1>8. Opened'
    BY <1>1, <1>3, <1>4, <1>5, ApprovalsAssumption DEF Opened, Asking, CardShape
  <1>9. Counted' /\ CardsHaveWaiters'
    <2>1. Cardinality(AsksOn(c) \union {a}) = Cardinality(AsksOn(c)) + 1
      BY <1>4, <1>6, FiniteAsks, FS_AddElement
    <2>2. waiters'[c] = Cardinality(AsksOn(c)')
      BY <1>1, <1>6, <2>1 DEF Counted, CardShape
    <2>3. \A d \in Ask : d # c => waiters'[d] = Cardinality(AsksOn(d)')
      BY <1>1, <1>6 DEF Counted, CardShape
    <2>4. Counted'
      BY <2>2, <2>3 DEF Counted
    <2> QED
      BY <1>1, <1>4, <1>6, <2>4 DEF Counted, CardsHaveWaiters, CardShape
  <1>10. Announced'
    BY <1>1 DEF Announced
  <1>11. TypedOver' /\ TypedIsDecided'
    BY <1>1, <1>4, ApprovalsAssumption DEF TypedOver, TypedIsDecided, CardShape
  <1>12. Ended'
    BY <1>1, <1>3, <1>4, ApprovalsAssumption DEF Ended, CardShape
  <1>13. TypingSparesTheJob'
    BY <1>1, <1>3, <1>4 DEF TypingSparesTheJob, TypedIsDecided, CardShape
  <1>14. PrivateCardHasItsTurn'
    <2> SUFFICES ASSUME NEW d \in Ask, Answerable(d)', private'[d] PROVE Mine(d)' # {}
      BY DEF PrivateCardHasItsTurn
    <2>1. Answerable(d) /\ private[d]
      BY <1>1, <1>2 DEF Answerable
    <2>2. AsksOn(d) \subseteq AsksOn(d)'
      BY <1>6
    <2> QED
      BY <2>1, <2>2 DEF PrivateCardHasItsTurn, Mine
  <1> QED
    BY <1>7, <1>8, <1>9, <1>10, <1>11, <1>12, <1>13, <1>14

-----------------------------------------------------------------------------
(* A message typed, and asks that end. *)

\* Nobody else waits on a card when its waiters are no more than the turn's own.
LEMMA MineAlone ==
    ASSUME CardInv, NEW c \in Ask, verdict[c] = "open", ~SharedWithOthers(c)
    PROVE  AsksOn(c) = Mine(c)
  <1>1. Mine(c) \in SUBSET AsksOn(c) /\ AsksOn(c) \in SUBSET Ask
    BY DEF Mine, AsksOn
  <1>2. waiters[c] = Cardinality(AsksOn(c)) /\ ~(waiters[c] > Cardinality(Mine(c)))
    BY DEF CardInv, Counted, SharedWithOthers
  <1>3. IsFiniteSet(AsksOn(c)) /\ Cardinality(AsksOn(c)) \in Nat /\ Cardinality(Mine(c)) \in Nat
    BY <1>1, FiniteAsks
  <1>4. Cardinality(Mine(c)) <= Cardinality(AsksOn(c)) /\ (Cardinality(AsksOn(c)) = Cardinality(Mine(c)) => AsksOn(c) = Mine(c))
    BY <1>1, <1>3, FS_Subset
  <1> QED
    BY <1>2, <1>3, <1>4

\* A message typed in the window.
LEMMA TypeStep ==
    ASSUME CardInv, TypeMessage
    PROVE  CardInv'
  <1> USE DEF CardInv
  <1> DEFINE mine == {card[a] : a \in {b \in Ask : Asking(b) /\ TurnAsk(b)}}
             said == {c \in mine : Answerable(c) /\ ~SharedWithOthers(c)}
  <1>1. /\ UNCHANGED <<registered, expired, waiters, private, pc, card, result, resolved>>
        /\ verdict' = [c \in Ask |-> IF c \in said THEN "declined" ELSE verdict[c]]
        /\ byTyping' = byTyping \union said
        /\ typed' = [a \in Ask |-> IF Asking(a) /\ TurnAsk(a) /\ typed[a] = "no"
                                   THEN IF SharedWithOthers(card[a]) THEN "shared" ELSE "own"
                                   ELSE typed[a]]
    BY DEF TypeMessage
  <1>2. \A c \in said : /\ c \in Ask /\ c \in registered /\ verdict[c] = "open" /\ ~expired[c]
                        /\ \A a \in Ask : Asking(a) /\ card[a] = c => TurnAsk(a)
    <2> SUFFICES ASSUME NEW c \in said
                 PROVE  /\ c \in Ask /\ c \in registered /\ verdict[c] = "open" /\ ~expired[c]
                        /\ \A a \in Ask : Asking(a) /\ card[a] = c => TurnAsk(a)
      OBVIOUS
    <2>1. c \in registered /\ verdict[c] = "open" /\ ~expired[c] /\ ~SharedWithOthers(c)
      BY DEF Answerable
    <2>2. c \in Ask
      BY <2>1 DEF CardShape
    <2>3. AsksOn(c) = Mine(c)
      BY <2>1, <2>2, MineAlone
    <2> QED
      BY <2>1, <2>2, <2>3 DEF AsksOn, Mine
  <1>3. \A a \in Ask : /\ Asking(a) /\ TurnAsk(a) /\ verdict[card[a]] = "open" /\ ~expired[card[a]]
                       /\ ~SharedWithOthers(card[a])
                       => card[a] \in said
    <2> SUFFICES ASSUME NEW a \in Ask, Asking(a), TurnAsk(a), verdict[card[a]] = "open", ~expired[card[a]],
                        ~SharedWithOthers(card[a])
                 PROVE  card[a] \in said
      OBVIOUS
    <2>1. card[a] \in Ask
      BY DEF Opened
    <2>2. a \in AsksOn(card[a])
      BY DEF AsksOn
    <2>3. card[a] \in registered
      BY <2>1, <2>2 DEF CardsHaveWaiters
    <2> QED
      BY <2>3 DEF Answerable
  <1> HIDE DEF mine, said
  <1>4. \A d \in Ask : AsksOn(d)' = AsksOn(d)
    BY <1>1, Stays DEF Asking
  <1>5. CardShape'
    BY <1>1, <1>2 DEF CardShape
  <1>6. Opened'
    BY <1>1, <1>2 DEF Opened, Asking, CardShape
  <1>7. Counted' /\ CardsHaveWaiters' /\ Announced'
    BY <1>1, <1>4 DEF CardShape, Counted, CardsHaveWaiters, Announced
  <1>8. TypedOver'
    <2> SUFFICES ASSUME NEW a \in Ask
                 PROVE  /\ typed'[a] # "no" => TurnAsk(a)
                        /\ typed'[a] = "own" => card[a] \in Ask /\ (verdict'[card[a]] # "open" \/ expired[card[a]])
      BY <1>1 DEF TypedOver
    <2>1. typed'[a] # "no" => TurnAsk(a)
      BY <1>1 DEF TypedOver
    <2>2. ASSUME typed'[a] = "own" PROVE card[a] \in Ask /\ (verdict'[card[a]] # "open" \/ expired[card[a]])
      <3>1. CASE typed[a] = "own"
        BY <1>1, <3>1 DEF TypedOver, CardShape
      <3>2. CASE typed[a] # "own"
        <4>1. Asking(a) /\ TurnAsk(a) /\ ~SharedWithOthers(card[a])
          BY <1>1, <2>2, <3>2
        <4>2. card[a] \in Ask
          BY <4>1 DEF Opened
        <4> QED
          BY <1>1, <1>3, <4>1, <4>2
      <3> QED
        BY <3>1, <3>2
    <2> QED
      BY <2>1, <2>2
  <1>9. TypedIsDecided'
    BY <1>1, <1>2 DEF TypedIsDecided, CardShape
  <1>10. Ended'
    <2>1. \A a \in Ask : typed[a] # "no" => typed'[a] # "no"
      BY <1>1
    <2> QED
      BY <1>1, <1>2, <2>1 DEF Ended, CardShape
  <1>11. TypingSparesTheJob'
    <2> SUFFICES ASSUME NEW a \in Ask, card[a] \in byTyping \union said, ~TurnAsk(a) PROVE pc[a] = "stopped"
      BY <1>1 DEF TypingSparesTheJob
    <2>1. CASE card[a] \in byTyping
      BY <2>1 DEF TypingSparesTheJob
    <2>2. CASE card[a] \in said
      <3>1. card[a] \in Ask /\ verdict[card[a]] = "open" /\ ~expired[card[a]] /\ ~Asking(a)
        BY <1>2, <2>2
      <3>2. pc[a] # "idle"
        BY <3>1, ApprovalsAssumption DEF Opened
      <3>3. typed[a] = "no"
        BY DEF TypedOver, CardShape
      <3>4. pc[a] # "done"
        BY <3>1, <3>3 DEF Ended
      <3> QED
        BY <3>1, <3>2, <3>4 DEF Asking, CardShape
    <2> QED
      BY <2>1, <2>2
  <1>12. PrivateCardHasItsTurn'
    BY <1>1, <1>4 DEF PrivateCardHasItsTurn, Answerable, Mine
  <1> QED
    BY <1>5, <1>6, <1>7, <1>8, <1>9, <1>10, <1>11, <1>12

\* An ask leaves its card, answered or stopped.
LEMMA LeaveStep ==
    ASSUME CardInv, NEW a \in Ask, Asking(a), NEW x \in {"done", "stopped"},
           CloseCard(card[a]), HandOver(a), pc' = [pc EXCEPT ![a] = x],
           UNCHANGED <<verdict, expired, card, typed, byTyping>>,
           result' \in [Ask -> Results], \A b \in Ask : b # a => result'[b] = result[b],
           x = "done" => WaitOver(a) /\ result'[a] = Told(a),
           x = "stopped" => result'[a] = result[a]
    PROVE  CardInv'
  <1> USE DEF CardInv
  <1> DEFINE c == card[a]
  <1>1. c \in Ask /\ card[c] = c /\ AsksOn(c) \in SUBSET Ask
    BY DEF Opened, AsksOn
  <1>2. /\ \A d \in Ask : d # c => AsksOn(d)' = AsksOn(d)
        /\ \A d \in Ask : d = c => AsksOn(d)' = AsksOn(d) \ {a} /\ a \in AsksOn(d)
    BY Leaves
  <1>3. waiters' = [waiters EXCEPT ![c] = @ - 1]
    BY DEF CloseCard
  <1>4. \/ verdict[c] = "open" /\ waiters'[c] > 0 /\ registered' = registered /\ resolved' = resolved
        \/ /\ ~(verdict[c] = "open" /\ waiters'[c] > 0) /\ registered' = registered \ {c}
           /\ \/ c \in registered /\ ~private[c] /\ resolved' = [resolved EXCEPT ![c] = @ + 1]
              \/ resolved' = resolved
    BY DEF CloseCard
  <1>5. private' \in [Ask -> BOOLEAN] /\ \A d \in Ask : private'[d] => private[d]
    BY <1>1 DEF HandOver, MakeShared, CardShape
  <1>6. CardShape'
    <2>1. waiters' \in [Ask -> Int] /\ registered' \in SUBSET Ask
      BY <1>1, <1>3, <1>4 DEF CardShape
    <2>2. resolved' \in [Ask -> Int]
      BY <1>1, <1>4 DEF CardShape
    <2>3. pc' \in [Ask -> {"idle", "sending", "waiting", "done", "stopped"}]
      BY DEF CardShape
    <2> QED
      BY <1>5, <2>1, <2>2, <2>3 DEF CardShape
  <1>7. Opened'
    BY <1>1, <1>4 DEF Opened, Asking, CardShape
  <1>8. Counted'
    <2>1. Cardinality(AsksOn(c) \ {a}) = Cardinality(AsksOn(c)) - 1
      BY <1>1, <1>2, FiniteAsks, FS_RemoveElement
    <2>2. \A d \in Ask : d = c => waiters'[d] = Cardinality(AsksOn(d)')
      BY <1>1, <1>2, <1>3, <2>1 DEF Counted, CardShape
    <2>3. \A d \in Ask : d # c => waiters'[d] = Cardinality(AsksOn(d)')
      BY <1>1, <1>2, <1>3 DEF Counted, CardShape
    <2> QED
      BY <2>2, <2>3 DEF Counted
  <1>9. \A d \in Ask : waiters'[d] = 0 <=> AsksOn(d)' = {}
    <2>1. \A d \in Ask : AsksOn(d)' \in SUBSET Ask
      BY DEF AsksOn
    <2> QED
      BY <1>8, <2>1, FiniteAsks DEF Counted
  <1>10. CardsHaveWaiters'
    <2>1. \A d \in registered' : waiters'[d] = Cardinality(AsksOn(d)') /\ AsksOn(d)' # {}
      <3> SUFFICES ASSUME NEW d \in registered' PROVE waiters'[d] = Cardinality(AsksOn(d)') /\ AsksOn(d)' # {}
        OBVIOUS
      <3>1. d \in registered /\ d \in Ask
        BY <1>4 DEF CardShape
      <3>2. CASE d = c
        BY <1>4, <1>8, <1>9, <3>1, <3>2 DEF Counted
      <3>3. CASE d # c
        BY <1>2, <1>8, <3>1, <3>3 DEF Counted, CardsHaveWaiters
      <3> QED
        BY <3>2, <3>3
    <2>2. \A d \in Ask : AsksOn(d)' # {} /\ verdict'[d] = "open" => d \in registered'
      <3> SUFFICES ASSUME NEW d \in Ask, AsksOn(d)' # {}, verdict[d] = "open" PROVE d \in registered'
        OBVIOUS
      <3>1. d \in registered
        BY <1>2 DEF CardsHaveWaiters
      <3>2. CASE d = c
        <4>1. waiters'[c] \in Nat /\ waiters'[c] # 0
          <5>1. AsksOn(d)' \in SUBSET Ask
            BY DEF AsksOn
          <5> QED
            BY <1>8, <1>9, <3>2, <5>1, FiniteAsks DEF Counted
        <4> QED
          BY <1>4, <3>1, <3>2, <4>1
      <3>3. CASE d # c
        BY <1>4, <3>1, <3>3
      <3> QED
        BY <3>2, <3>3
    <2> QED
      BY <2>1, <2>2 DEF CardsHaveWaiters
  <1>11. Announced'
    BY <1>1, <1>4 DEF Announced, CardShape
  <1>12. TypedOver' /\ TypedIsDecided'
    BY DEF TypedOver, TypedIsDecided
  <1>13. Ended'
    <2> SUFFICES ASSUME NEW b \in Ask
                 PROVE  /\ pc'[b] = "done" /\ card[b] \in Ask => verdict[card[b]] # "open" \/ expired[card[b]] \/ typed[b] # "no"
                        /\ result'[b] \in {"approved", "declined"} => card[b] \in Ask /\ verdict[card[b]] = result'[b]
                        /\ result'[b] = "expired" => card[b] \in Ask /\ verdict[card[b]] = "open" /\ expired[card[b]]
      BY DEF Ended
    <2>1. CASE b # a
      BY <2>1 DEF Ended, CardShape
    <2>2. CASE b = a /\ x = "stopped"
      BY <2>2 DEF Ended, CardShape
    <2>3. CASE b = a /\ x = "done"
      <3>1. WaitOver(a) /\ result'[a] = Told(a)
        BY <2>3
      <3>2. verdict[c] = "open" /\ typed[a] # "shared" => expired[c]
        BY <1>1, <3>1 DEF WaitOver, TypedOver, CardShape
      <3>3. verdict[c] \in {"open", "approved", "declined"}
        BY <1>1 DEF CardShape
      <3> QED
        BY <1>1, <2>3, <3>1, <3>2, <3>3 DEF WaitOver, Told
    <2> QED
      BY <2>1, <2>2, <2>3
  <1>14. TypingSparesTheJob'
    BY DEF TypingSparesTheJob, CardShape, Asking
  <1>15. PrivateCardHasItsTurn'
    <2> SUFFICES ASSUME NEW d \in Ask, Answerable(d)', private'[d] PROVE Mine(d)' # {}
      BY DEF PrivateCardHasItsTurn
    <2>1. Answerable(d) /\ private[d]
      BY <1>4, <1>5 DEF Answerable
    <2>2. CASE d # c
      BY <1>2, <2>1, <2>2 DEF PrivateCardHasItsTurn, Mine
    <2>3. CASE d = c /\ ~TurnAsk(a)
      BY <1>2, <2>1, <2>3 DEF PrivateCardHasItsTurn, Mine
    <2>4. CASE d = c /\ TurnAsk(a)
      <3>1. verdict[c] = "open" /\ ~expired[c] /\ waiters'[c] > 0
        BY <1>4, <2>1, <2>4 DEF Answerable
      <3>2. ~(waiters'[c] > Cardinality(Mine(c) \ {a}))
        <4> SUFFICES ASSUME waiters'[c] > Cardinality(Mine(c) \ {a}) PROVE FALSE
          OBVIOUS
        <4>1. MakeShared(c)
          BY <2>4, <3>1 DEF HandOver
        <4> QED
          BY <1>1, <2>4, <4>1 DEF MakeShared, CardShape
      <3>3. Mine(c) \ {a} \in SUBSET Ask
        BY DEF Mine, AsksOn
      <3>4. Mine(c) \ {a} # {}
        BY <3>1, <3>2, <3>3, FiniteAsks, FS_EmptySet
      <3>5. PICK b \in Mine(c) : b # a
        BY <3>4
      <3> QED
        BY <1>2, <2>4, <3>5 DEF Mine
    <2> QED
      BY <2>2, <2>3, <2>4
  <1> QED
    BY <1>6, <1>7, <1>8, <1>10, <1>11, <1>12, <1>13, <1>14, <1>15

-----------------------------------------------------------------------------
(* Every step, and the theorems. *)

\* The invariant holds of an empty registry.
LEMMA CardInit == Init => CardInv
  <1> SUFFICES ASSUME Init PROVE CardInv
    OBVIOUS
  <1>1. \A c \in Ask : AsksOn(c) = {}
    BY DEF Init, AsksOn, Asking
  <1>2. Counted
    BY <1>1, FS_EmptySet DEF Init, Counted
  <1>3. CardShape /\ Announced /\ TypedOver /\ Ended /\ TypedIsDecided
    BY DEF Init, CardShape, Announced, TypedOver, Ended, TypedIsDecided, Results
  <1>4. Opened
    BY ApprovalsAssumption DEF Init, Opened, Asking
  <1>5. CardsHaveWaiters
    BY <1>1 DEF Init, CardsHaveWaiters
  <1>6. TypingSparesTheJob /\ PrivateCardHasItsTurn
    BY DEF Init, TypingSparesTheJob, PrivateCardHasItsTurn, Answerable
  <1> QED
    BY <1>2, <1>3, <1>4, <1>5, <1>6 DEF CardInv

\* Every step keeps the invariant.
LEMMA CardStep == CardInv /\ [Next]_vars => CardInv'
  <1> SUFFICES ASSUME CardInv, [Next]_vars PROVE CardInv'
    OBVIOUS
  <1>1. ASSUME NEW a \in Ask, AskAway(a) PROVE CardInv'
    BY <1>1, AwayStep
  <1>2. ASSUME NEW a \in Ask, OpenCard(a) PROVE CardInv'
    BY <1>2, OpenStep
  <1>3. ASSUME NEW a \in Ask, NEW c \in Ask, JoinCard(a, c) PROVE CardInv'
    BY <1>3, JoinStep
  <1>4. ASSUME NEW a \in Ask, Sent(a) PROVE CardInv'
    <2>1. /\ pc[a] = "sending" /\ pc' = [pc EXCEPT ![a] = "waiting"]
          /\ UNCHANGED <<registered, verdict, expired, waiters, private, card, result, typed, resolved, byTyping>>
      BY <1>4 DEF Sent, cardVars, ghostVars
    <2>2. CardShape' /\ \A b \in Ask : (Asking(b)' <=> Asking(b)) /\ (pc'[b] # pc[b] => Asking(b))
      BY <2>1 DEF CardInv, CardShape, Asking
    <2> QED
      BY <2>1, <2>2, QuietStep
  <1>5. ASSUME NEW a \in Ask, SendFails(a) PROVE CardInv'
    <2>1. /\ pc[a] = "sending" /\ pc' = [pc EXCEPT ![a] = "waiting"] /\ private' = [private EXCEPT ![card[a]] = FALSE]
          /\ UNCHANGED <<registered, verdict, expired, waiters, card, result, typed, resolved, byTyping>>
      BY <1>5 DEF SendFails, MakeShared
    <2>2. private' \in [Ask -> BOOLEAN] /\ \A c \in Ask : private'[c] => private[c]
      BY <2>1 DEF CardInv, CardShape
    <2>3. CardShape' /\ \A b \in Ask : (Asking(b)' <=> Asking(b)) /\ (pc'[b] # pc[b] => Asking(b))
      BY <2>1, <2>2 DEF CardInv, CardShape, Asking
    <2> QED
      BY <2>1, <2>2, <2>3, QuietStep
  <1>6. ASSUME NEW a \in Ask, NoticeGone(a) PROVE CardInv'
    <2>1. /\ private' = [private EXCEPT ![card[a]] = FALSE] /\ pc' = pc
          /\ UNCHANGED <<registered, verdict, expired, waiters, card, result, typed, resolved, byTyping>>
      BY <1>6 DEF NoticeGone, MakeShared, askVars
    <2>2. private' \in [Ask -> BOOLEAN] /\ \A c \in Ask : private'[c] => private[c]
      BY <2>1 DEF CardInv, CardShape
    <2>3. CardShape' /\ \A b \in Ask : (Asking(b)' <=> Asking(b)) /\ (pc'[b] # pc[b] => Asking(b))
      BY <2>1, <2>2 DEF CardInv, CardShape, Asking
    <2> QED
      BY <2>1, <2>2, <2>3, QuietStep
  <1>7. ASSUME NEW a \in Ask, EndWait(a) PROVE CardInv'
    <2>1. /\ Asking(a) /\ WaitOver(a) /\ CloseCard(card[a]) /\ HandOver(a) /\ pc' = [pc EXCEPT ![a] = "done"]
          /\ result' = [result EXCEPT ![a] = Told(a)] /\ UNCHANGED <<verdict, expired, card, typed, byTyping>>
      BY <1>7 DEF EndWait, Asking
    <2>2. Told(a) \in Results
      <3>1. card[a] \in Ask
        BY <2>1 DEF CardInv, Opened
      <3> QED
        BY <3>1 DEF Told, Results, CardInv, CardShape
    <2>3. result' \in [Ask -> Results] /\ result'[a] = Told(a) /\ \A b \in Ask : b # a => result'[b] = result[b]
      BY <2>1, <2>2 DEF CardInv, CardShape
    <2> QED
      BY <2>1, <2>3, LeaveStep
  <1>8. ASSUME NEW a \in Ask, StopAsk(a) PROVE CardInv'
    <2>1. /\ Asking(a) /\ CloseCard(card[a]) /\ HandOver(a) /\ pc' = [pc EXCEPT ![a] = "stopped"]
          /\ result' = result /\ UNCHANGED <<verdict, expired, card, typed, byTyping>>
      BY <1>8 DEF StopAsk
    <2>2. result' \in [Ask -> Results]
      BY <2>1 DEF CardInv, CardShape
    <2> QED
      BY <2>1, <2>2, LeaveStep
  <1>9. ASSUME NEW c \in Ask, NEW src \in Answering, NEW yes \in BOOLEAN, Answer(c, src, yes) PROVE CardInv'
    BY <1>9, AnswerStep
  <1>10. CASE TypeMessage
    BY <1>10, TypeStep
  <1>11. ASSUME NEW c \in Ask, TimeUp(c) PROVE CardInv'
    BY <1>11, TimeUpStep
  <1>12. ASSUME UNCHANGED <<cardVars, askVars, ghostVars>> PROVE CardInv'
    <2>1. UNCHANGED <<registered, verdict, expired, waiters, private, pc, card, result, typed, resolved, byTyping>>
      BY <1>12 DEF cardVars, askVars, ghostVars
    <2>2. CardShape' /\ \A b \in Ask : (Asking(b)' <=> Asking(b)) /\ (pc'[b] # pc[b] => Asking(b))
      BY <2>1 DEF CardInv, CardShape, Asking
    <2> QED
      BY <2>1, <2>2, QuietStep
  <1>13. CASE SocketDies \/ ReaderEnds \/ UNCHANGED vars
    BY <1>12, <1>13 DEF SocketDies, ReaderEnds, vars
  <1> QED
    BY <1>1, <1>2, <1>3, <1>4, <1>5, <1>6, <1>7, <1>8, <1>9, <1>10, <1>11, <1>13 DEF Next

\* The invariant holds in every state of the registry and its askers.
LEMMA CardsStay == Spec => []CardInv
  BY CardInit, CardStep, PTL DEF Spec

\* However waits join, end and are stopped, a registered card counts exactly its
\* waiters and has one, and a card somebody waits on stays registered until it is
\* decided (open_card, close_card).
THEOREM NobodyWaitsInVain == Spec => []CardsHaveWaiters
  <1>1. CardInv => CardsHaveWaiters
    BY DEF CardInv
  <1> QED
    BY <1>1, CardsStay, PTL

\* Everyone who waited a card out was told the same: the deadline is the card's, and
\* an answer after it, typed or clicked, changes nothing (Pending.deadline, answer).
THEOREM AllAreToldTheSame == Spec => []WaitersAgree
  <1>1. CardInv => WaitersAgree
    BY DEF CardInv, Ended, WaitersAgree
  <1> QED
    BY <1>1, CardsStay, PTL

\* A private card that can still be answered has its window's turn waiting on it; when
\* only a job is left it is on every screen (_window_gone and the finally of
\* _ask_everywhere).
THEOREM PrivateCardsAreAttended == Spec => []PrivateCardHasItsTurn
  <1>1. CardInv => PrivateCardHasItsTurn
    BY DEF CardInv
  <1> QED
    BY <1>1, CardsStay, PTL

\* A message typed in the window never answers for a job, however many asks share the
\* card (_answered_by_typing).
THEOREM TypingNeverAnswersAJob == Spec => []TypingSparesTheJob
  <1>1. CardInv => TypingSparesTheJob
    BY DEF CardInv
  <1> QED
    BY <1>1, CardsStay, PTL

\* card_resolved is broadcast at most once for a card, although every waiter closes it
\* (close_card).
THEOREM CardsResolveOnce == Spec => []ResolvedOnce
  <1>1. CardInv => ResolvedOnce
    BY DEF CardInv, Announced, ResolvedOnce
  <1> QED
    BY <1>1, CardsStay, PTL
=============================================================================
