-------------------------- MODULE ConversationState --------------------------
(***************************************************************************)
(* The state of the sockets of one conversation and its turns, and what    *)
(* must hold of it at every moment.  Conversation has the steps.           *)
(*                                                                         *)
(* A message is a number.  What it says, the cards and the frames shown    *)
(* are left out; a card matters only by keeping a typed message out of the *)
(* box.                                                                    *)
(***************************************************************************)
EXTENDS Integers, Sequences, FiniteSets

CONSTANTS
    Socket,         \* the windows and the Bridge, each with one connection
    Nobody,         \* no socket
    MaxSent,        \* bound: frames sent in a behaviour
    MaxRequests     \* the turn's limit of model requests

ASSUME ConversationAssumption ==
    /\ MaxSent \in Nat \ {0} /\ MaxRequests \in Nat \ {0} /\ IsFiniteSet(Socket) /\ Nobody \notin Socket

Message == 1 .. MaxSent
Closed == 0                         \* _CLOSED, in an inbox
None == 0

\* A user_message without or with images or an attachment, and the frames whose
\* handling only answers (session_ended, resume, an unknown type).
Kinds == {"plain", "attached", "other"}
Fates == {"unsent", "sent", "turn", "inserted", "counted", "answered"}
Ended == {"closed", "failed"}       \* of a loop

VARIABLES
    msg,            \* each frame: who sent it, its kind, its `_queued` mark, what became of it
    reader,         \* _reader: its place and the message it tells `queued` for
    inbox,
    main,           \* the endpoint's loop and the message it holds
    lockq, holder,  \* the turn lock: who waits, in order, and who holds it
    boxOpen, box,   \* steering._open
    turn,           \* the running turn: its place and its model requests
    pending,        \* TurnState.steers: read after a batch, in no request yet
    storing,        \* the message _commit_steers has popped
    gaveUp          \* history: the wait for taken messages ran out

Occurs(m, seq) == Cardinality({i \in DOMAIN seq : seq[i] = m})
InInboxes(m) == {p \in UNION {{s} \X DOMAIN inbox[s] : s \in Socket} : inbox[p[1]][p[2]] = m}
Holders(m) ==
    ({"reader"} \X {s \in Socket : reader[s].msg = m}) \union ({"main"} \X {s \in Socket : main[s].msg = m})

\* A message a client sent is in exactly one place at every moment: with a reader or a
\* waiting loop, in one inbox, in the open box, with the turn that read it, or part of a
\* turn.  It is never run twice and never dropped on the way (steering.py's promise that a
\* message is taken whole and once, through hand-backs, withdrawals and failed stores).
MessageHasOnePlace ==
    \A m \in Message : msg[m].fate # "unsent" =>
      Cardinality(InInboxes(m)) + Occurs(m, box) + Occurs(m, pending) + Cardinality(Holders(m))
        + (IF storing = m THEN 1 ELSE 0) + (IF msg[m].fate # "sent" THEN 1 ELSE 0) = 1

\* A socket that closes in order takes everything with it: once its loop has seen the
\* close, none of its messages is still waiting anywhere, unless the wait for the
\* messages a turn had read ran out (_reader's withdraw and settled ahead of _CLOSED).
CloseLosesNothing ==
    \A s \in Socket, m \in Message :
      main[s].pc = "closed" /\ ~gaveUp[s] /\ msg[m].of = s => msg[m].fate # "sent"
=============================================================================
