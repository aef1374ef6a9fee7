------------------------------ MODULE Approvals ------------------------------
(***************************************************************************)
(* Confirmation cards of one conversation: the registry of pending cards   *)
(* (server/services/approvals.py) and its two card surfaces, a turn's      *)
(* (_ask_everywhere in server/ws/arslan.py) and a background job's         *)
(* (BroadcastAsker).  Identical questions share one card; the first answer *)
(* from anywhere decides it for every waiter; a card nobody answers in its *)
(* time expires, which is not a refusal.                                   *)
(*                                                                         *)
(* Everything between two awaits is one step: asyncio runs it unbroken.    *)
(* A card is named by the ask that opened it (its call_id).                *)
(***************************************************************************)
EXTENDS Integers, FiniteSets

CONSTANTS
    Ask,            \* the asks: one call of a card surface each
    Surface,        \* Surface[a]: "window" or "phone" (who started the turn), or "job"
    Asker,          \* Asker[a]: the turn or the job that asks
    Question,       \* Question[a]: its dedupe key
    WindowOnly,     \* the questions approved only in a Mac window (window_only)
    Risky,          \* the questions the island may not approve either (not island_may_answer)
    Answering,      \* where answers come from in this instance, of all the SOURCES
    NoCard          \* stands for no card

ASSUME ApprovalsAssumption ==
    /\ IsFiniteSet(Ask) /\ NoCard \notin Ask
    /\ Answering \subseteq {"mac", "phone", "inbox", "island"}
    /\ Surface \in [Ask -> {"window", "phone", "job"}]
    /\ DOMAIN Asker = Ask /\ DOMAIN Question = Ask
    \* One turn at a time in a conversation, and a surface per asker.
    /\ \A a, b \in Ask : Asker[a] = Asker[b] => Surface[a] = Surface[b]
    /\ \A a, b \in Ask : Surface[a] # "job" /\ Surface[b] # "job" => Asker[a] = Asker[b]

Askers == {Asker[a] : a \in Ask}
Sources == {"mac", "phone", "inbox", "island"}
TurnAsk(a) == Surface[a] # "job"

VARIABLES
    \* --- the registry: _pending and the Pending records
    registered,     \* the cards in _pending
    verdict,        \* the card's future: open, or how it was decided
    expired,        \* the card's deadline has passed
    waiters, private,
    \* --- the asks
    pc,             \* idle, sending (its card to its own window), waiting, done, stopped
    card,           \* the card it waits or waited on
    result,         \* what the asker was told
    typed,          \* a message typed meanwhile: no, own, shared (a job waits on the card too)
    unanswered,     \* per asker: a card went unanswered, the person is away
    \* --- the window's socket
    dead,           \* it has closed
    socketGone,     \* socket_gone: a send on it has failed or its reader has ended
    gone,           \* the gone event: its reader has ended
    \* --- history, read by the properties only
    resolved,       \* how often card_resolved was broadcast for the card (capped at 2)
    byTyping        \* cards decided by a message typed in the window

cardVars == <<registered, verdict, expired, waiters, private>>
askVars == <<pc, card, result, typed, unanswered>>
socketVars == <<dead, socketGone, gone>>
ghostVars == <<resolved, byTyping>>
vars == <<cardVars, askVars, socketVars, ghostVars>>

Results == {"none", "approved", "declined", "expired", "withdrawn", "away"}

TypeOK ==
    /\ registered \subseteq Ask
    /\ verdict \in [Ask -> {"open", "approved", "declined"}]
    /\ expired \in [Ask -> BOOLEAN] /\ private \in [Ask -> BOOLEAN]
    /\ waiters \in [Ask -> 0 .. Cardinality(Ask)]
    /\ pc \in [Ask -> {"idle", "sending", "waiting", "done", "stopped"}]
    /\ card \in [Ask -> Ask \union {NoCard}] /\ result \in [Ask -> Results]
    /\ typed \in [Ask -> {"no", "own", "shared"}] /\ unanswered \in [Askers -> BOOLEAN]
    /\ dead \in BOOLEAN /\ socketGone \in BOOLEAN /\ gone \in BOOLEAN
    /\ resolved \in [Ask -> 0 .. 2] /\ byTyping \subseteq Ask

Init ==
    /\ registered = {}
    /\ verdict = [c \in Ask |-> "open"]
    /\ expired = [c \in Ask |-> FALSE] /\ private = [c \in Ask |-> FALSE]
    /\ waiters = [c \in Ask |-> 0]
    /\ pc = [a \in Ask |-> "idle"] /\ card = [a \in Ask |-> NoCard] /\ result = [a \in Ask |-> "none"]
    /\ typed = [a \in Ask |-> "no"] /\ unanswered = [o \in Askers |-> FALSE]
    /\ dead = FALSE /\ socketGone = FALSE /\ gone = FALSE
    /\ resolved = [c \in Ask |-> 0] /\ byTyping = {}

-----------------------------------------------------------------------------
(* The registry. *)

Asking(a) == pc[a] \in {"sending", "waiting"}
AsksOn(c) == {a \in Ask : Asking(a) /\ card[a] = c}
\* my_cards: the turn's own asks that wait on the card.
Mine(c) == {a \in AsksOn(c) : TurnAsk(a)}

\* A card whose question can still be answered.
Answerable(c) == c \in registered /\ verdict[c] = "open" /\ ~expired[c]

\* joining: the card already on screen that this ask would share.
Joins(a, c) == Answerable(c) /\ Question[c] = Question[a]

\* _window_gone: a private card becomes everyone's.
MakeShared(c) == private' = [private EXCEPT ![c] = FALSE]

-----------------------------------------------------------------------------
(* Asking. *)

\* Once a card went unanswered the asker's next ones do not open.
AskAway(a) ==
    /\ pc[a] = "idle" /\ unanswered[Asker[a]]
    /\ pc' = [pc EXCEPT ![a] = "done"] /\ result' = [result EXCEPT ![a] = "away"]
    /\ UNCHANGED <<cardVars, card, typed, unanswered, socketVars, ghostVars>>

\* open_card, no identical question waits: a card of its own.  A window's own turn
\* sends it to its socket (an await); any other ask broadcasts it.
OpenCard(a) ==
    /\ pc[a] = "idle" /\ ~unanswered[Asker[a]]
    /\ \A c \in Ask : ~Joins(a, c)
    /\ registered' = registered \union {a}
    /\ waiters' = [waiters EXCEPT ![a] = 1]
    /\ card' = [card EXCEPT ![a] = a]
    /\ LET own == Surface[a] = "window" /\ ~socketGone
       IN  /\ private' = [private EXCEPT ![a] = own]
           /\ pc' = [pc EXCEPT ![a] = IF own THEN "sending" ELSE "waiting"]
    /\ UNCHANGED <<verdict, expired, result, typed, unanswered, socketVars, resolved, byTyping>>

\* open_card, joining: the ask waits on the card already there, until that card's
\* own deadline.
JoinCard(a, c) ==
    /\ pc[a] = "idle" /\ ~unanswered[Asker[a]] /\ Joins(a, c)
    /\ waiters' = [waiters EXCEPT ![c] = @ + 1]
    /\ card' = [card EXCEPT ![a] = c]
    /\ LET unseen == Surface[a] = "window" /\ private[c] /\ Mine(c) = {}
       IN  /\ IF (Surface[a] = "phone" /\ private[c]) \/ (unseen /\ socketGone)
              THEN MakeShared(c) ELSE UNCHANGED private
           /\ pc' = [pc EXCEPT ![a] = IF unseen /\ ~socketGone THEN "sending" ELSE "waiting"]
    /\ UNCHANGED <<registered, verdict, expired, result, typed, unanswered, socketVars,
                   resolved, byTyping>>

\* The card is on the window's screen.
Sent(a) ==
    /\ pc[a] = "sending"
    /\ pc' = [pc EXCEPT ![a] = "waiting"]
    /\ UNCHANGED <<cardVars, card, result, typed, unanswered, socketVars, ghostVars>>

\* The socket closed under the send: the card is answered elsewhere.
SendFails(a) ==
    /\ pc[a] = "sending" /\ dead
    /\ pc' = [pc EXCEPT ![a] = "waiting"] /\ socketGone' = TRUE
    /\ MakeShared(card[a])
    /\ UNCHANGED <<registered, verdict, expired, waiters, card, result, typed, unanswered,
                   dead, gone, resolved, byTyping>>

\* The wait loop wakes up on the gone event.
NoticeGone(a) ==
    /\ pc[a] = "waiting" /\ TurnAsk(a) /\ gone
    /\ verdict[card[a]] = "open" /\ typed[a] = "no" /\ ~expired[card[a]] /\ private[card[a]]
    /\ MakeShared(card[a]) /\ socketGone' = TRUE
    /\ UNCHANGED <<registered, verdict, expired, waiters, askVars, dead, gone, resolved, byTyping>>

-----------------------------------------------------------------------------
(* Answering. *)

\* Where a yes is accepted from (window_only in answer, island_may_answer in
\* answer_by_id); a no is accepted from anywhere.
MayApprove(c, src) ==
    /\ Question[c] \in WindowOnly => src = "mac"
    /\ Question[c] \in Risky => src # "island"

\* Mutant of Answer: the deadline is not looked at.
Answer_Late(c, src, yes) ==
    /\ c \in registered /\ verdict[c] = "open"
    /\ yes => MayApprove(c, src)
    /\ verdict' = [verdict EXCEPT ![c] = IF yes THEN "approved" ELSE "declined"]
    /\ UNCHANGED <<registered, expired, waiters, private, askVars, socketVars, ghostVars>>

\* answer and answer_by_id: a reply from a window, the phone, the Inbox or the
\* island.  One for a card that is gone, decided or expired changes nothing.
Answer(c, src, yes) ==
    /\ Answerable(c)
    /\ yes => MayApprove(c, src)
    /\ verdict' = [verdict EXCEPT ![c] = IF yes THEN "approved" ELSE "declined"]
    /\ UNCHANGED <<registered, expired, waiters, private, askVars, socketVars, ghostVars>>

\* approvals.waiters > mine: somebody else waits on this open card too.
SharedWithOthers(c) == verdict[c] = "open" /\ waiters[c] > Cardinality(Mine(c))

\* Mutant of TypeMessage: decline_pending without `mine`.
TypeMessage_AnswersForAll ==
    LET mine == {card[a] : a \in {b \in Ask : Asking(b) /\ TurnAsk(b)}}
        said == {c \in mine : Answerable(c)}
    IN  /\ mine # {} /\ ~dead
        /\ verdict' = [c \in Ask |-> IF c \in said THEN "declined" ELSE verdict[c]]
        /\ byTyping' = byTyping \union said
        /\ typed' = [a \in Ask |-> IF Asking(a) /\ TurnAsk(a) /\ typed[a] = "no" THEN "own" ELSE typed[a]]
        /\ UNCHANGED <<registered, expired, waiters, private, pc, card, result, unanswered, socketVars,
                       resolved>>

\* _answered_by_typing: a message typed while the turn's cards wait answers them
\* No; from a card a job also waits on the turn only withdraws.
TypeMessage ==
    LET mine == {card[a] : a \in {b \in Ask : Asking(b) /\ TurnAsk(b)}}
        said == {c \in mine : Answerable(c) /\ ~SharedWithOthers(c)}
    IN  /\ mine # {} /\ ~dead
        /\ verdict' = [c \in Ask |-> IF c \in said THEN "declined" ELSE verdict[c]]
        /\ byTyping' = byTyping \union said
        /\ typed' = [a \in Ask |-> IF Asking(a) /\ TurnAsk(a) /\ typed[a] = "no"
                                   THEN IF SharedWithOthers(card[a]) THEN "shared" ELSE "own"
                                   ELSE typed[a]]
        /\ UNCHANGED <<registered, expired, waiters, private, pc, card, result, unanswered, socketVars,
                       resolved>>

-----------------------------------------------------------------------------
(* The end of a wait: close_card and what the surface does after it. *)

\* Mutants of CloseCard: the first to leave takes the card with it; every waiter
\* announces how it ended.
CloseCard_First(c) ==
    /\ waiters' = [waiters EXCEPT ![c] = @ - 1]
    /\ registered' = registered \ {c}
    /\ resolved' = IF c \in registered /\ ~private[c] THEN [resolved EXCEPT ![c] = @ + 1] ELSE resolved
CloseCard_TellsTwice(c) ==
    /\ waiters' = [waiters EXCEPT ![c] = @ - 1]
    /\ IF verdict[c] = "open" /\ waiters'[c] > 0
       THEN UNCHANGED <<registered, resolved>>
       ELSE /\ registered' = registered \ {c}
            /\ resolved' = IF ~private[c] /\ resolved[c] < 2
                           THEN [resolved EXCEPT ![c] = @ + 1] ELSE resolved

\* close_card: an open card stays for its other waiters; else it is unregistered
\* and, if shared, every screen is told once.
CloseCard(c) ==
    /\ waiters' = [waiters EXCEPT ![c] = @ - 1]
    /\ IF verdict[c] = "open" /\ waiters'[c] > 0
       THEN UNCHANGED <<registered, resolved>>
       ELSE /\ registered' = registered \ {c}
            /\ resolved' = IF c \in registered /\ ~private[c]
                           THEN [resolved EXCEPT ![c] = @ + 1] ELSE resolved

\* Mutant of HandOver: the window takes its copy with it.
HandOver_Forgets(a) == UNCHANGED private

\* The turn leaves its own private card while somebody else still waits on it:
\* everyone sees it now, unless its time is up.
HandOver(a) ==
    LET c == card[a]
    IN  IF /\ TurnAsk(a) /\ verdict[c] = "open" /\ ~expired[c]
           /\ waiters'[c] > Cardinality(Mine(c) \ {a})
        THEN MakeShared(c) ELSE UNCHANGED private

\* What the asker is told.
Told(a) ==
    IF verdict[card[a]] # "open" THEN verdict[card[a]]
    ELSE IF typed[a] = "shared" THEN "withdrawn" ELSE "expired"

\* Mutant of WaitOver: an ask that joined waits a fresh time of its own, for ever here.
WaitOver_FreshTime(a) ==
    verdict[card[a]] # "open" \/ typed[a] # "no" \/ (expired[card[a]] /\ card[a] = a)

\* The wait is over: decided, typed over, or out of time.
WaitOver(a) == verdict[card[a]] # "open" \/ typed[a] # "no" \/ expired[card[a]]

EndWait(a) ==
    /\ pc[a] = "waiting" /\ WaitOver(a)
    /\ CloseCard(card[a]) /\ HandOver(a)
    /\ pc' = [pc EXCEPT ![a] = "done"] /\ result' = [result EXCEPT ![a] = Told(a)]
    /\ unanswered' = [unanswered EXCEPT ![Asker[a]] = @ \/ Told(a) = "expired"]
    /\ UNCHANGED <<verdict, expired, card, typed, socketVars, byTyping>>

\* The turn or the job is stopped while it asks: the same finally, no answer.
StopAsk(a) ==
    /\ Asking(a)
    /\ CloseCard(card[a]) /\ HandOver(a)
    /\ pc' = [pc EXCEPT ![a] = "stopped"]
    /\ UNCHANGED <<verdict, expired, card, result, typed, unanswered, socketVars, byTyping>>

-----------------------------------------------------------------------------
(* Time and the window's socket. *)

\* The thirty minutes of a card nobody answered are over (nobody looks at the
\* deadline of a decided one).
TimeUp(c) ==
    /\ Answerable(c)
    /\ expired' = [expired EXCEPT ![c] = TRUE]
    /\ UNCHANGED <<registered, verdict, waiters, private, askVars, socketVars, ghostVars>>

SocketDies ==
    /\ ~dead /\ dead' = TRUE
    /\ UNCHANGED <<cardVars, askVars, socketGone, gone, ghostVars>>

\* _reader ends.
ReaderEnds ==
    /\ dead /\ ~gone /\ gone' = TRUE /\ socketGone' = TRUE
    /\ UNCHANGED <<cardVars, askVars, dead, ghostVars>>

-----------------------------------------------------------------------------
Next ==
    \/ \E a \in Ask :
          \/ AskAway(a) \/ OpenCard(a) \/ \E c \in Ask : JoinCard(a, c)
          \/ Sent(a) \/ SendFails(a) \/ NoticeGone(a) \/ EndWait(a) \/ StopAsk(a)
    \/ \E c \in Ask, src \in Answering, yes \in BOOLEAN : Answer(c, src, yes)
    \/ TypeMessage
    \/ \E c \in Ask : TimeUp(c)
    \/ SocketDies \/ ReaderEnds

Spec == Init /\ [][Next]_vars

\* Clocks run, sends end, and asyncio wakes a waiter that has something to do.
\* Nobody has to answer, type or stop.
Fairness ==
    /\ \A a \in Ask : WF_vars(Sent(a) \/ SendFails(a) \/ NoticeGone(a) \/ EndWait(a))
    /\ \A c \in Ask : WF_vars(TimeUp(c))
FairSpec == Spec /\ Fairness

-----------------------------------------------------------------------------
(* Properties. *)

\* Nobody waits on a card that cannot be answered, and no card waits for nobody:
\* a registered card counts exactly its waiters and has one, and a card somebody
\* waits on stays registered until it is decided (open_card, close_card, however
\* waits join, end and are stopped).
CardsHaveWaiters ==
    /\ \A c \in registered : waiters[c] = Cardinality(AsksOn(c)) /\ AsksOn(c) # {}
    /\ \A c \in Ask : AsksOn(c) # {} /\ verdict[c] = "open" => c \in registered

\* Everyone who waited a card out was told the same: never one asker "approved"
\* and another "expired" for the same card (the deadline the card shares).
WaitersAgree ==
    \A a, b \in Ask :
        /\ card[a] = card[b] /\ result[a] \in {"approved", "declined", "expired"}
        /\ result[b] \in {"approved", "declined", "expired"}
        => result[a] = result[b]

\* A private card that can still be answered has its window's turn waiting on it:
\* when only a job is left, the card is on every screen.
PrivateCardHasItsTurn == \A c \in Ask : Answerable(c) /\ private[c] => Mine(c) # {}

\* A message typed in the window never answers for a job: a job's ask that shared
\* a card decided that way had been stopped before.
TypingSparesTheJob == \A a \in Ask : card[a] \in byTyping /\ ~TurnAsk(a) => pc[a] = "stopped"

\* card_resolved is broadcast at most once for a card, although every waiter closes it.
ResolvedOnce == \A c \in Ask : resolved[c] <= 1

\* Every ask ends: answered, typed over, stopped, or at the latest when its card's
\* time is up.
AskEnds == \A a \in Ask : Asking(a) ~> ~Asking(a)
=============================================================================
