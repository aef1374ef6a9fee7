---------------------------- MODULE Conversation ----------------------------
(***************************************************************************)
(* The sockets of one conversation and its turns: the resident reader and  *)
(* the main loop of each socket and the turn lock (server/ws/arslan.py),   *)
(* the steering box of the running turn (server/services/steering.py) and  *)
(* the tool loop's reading of it (server/orchestrator/tool_loop.py).       *)
(***************************************************************************)
EXTENDS ConversationState, SequencesExt

sockVars == <<reader, inbox>>
lockVars == <<lockq, holder>>
boxVars == <<boxOpen, box>>
turnVars == <<turn, pending, storing>>
vars == <<msg, sockVars, main, lockVars, boxVars, turnVars, gaveUp>>

TypeOK ==
    /\ msg \in [Message -> [of : Socket \union {Nobody}, kind : Kinds, queued : BOOLEAN, fate : Fates]]
    /\ reader \in [Socket -> [pc : {"open", "telling", "settling", "ended"}, msg : Message \union {None},
                              card : BOOLEAN]]
    /\ inbox \in [Socket -> Seq(Message \union {Closed})]
    /\ main \in [Socket -> [pc : {"idle", "waiting", "held", "turn"} \union Ended,
                            msg : Message \union {None}, told : BOOLEAN]]
    /\ lockq \in Seq(Socket) /\ holder \in Socket \union {Nobody}
    /\ boxOpen \in BOOLEAN /\ box \in Seq(Message)
    /\ turn \in [pc : {"none", "model", "batch", "top", "storing", "telling", "ending"},
                 requests : 0 .. MaxRequests]
    /\ pending \in Seq(Message) /\ storing \in Message \union {None}
    /\ gaveUp \in [Socket -> BOOLEAN]

NoTurn == [pc |-> "none", requests |-> 0]
Idle == [pc |-> "idle", msg |-> None, told |-> FALSE]
Reading == [pc |-> "open", msg |-> None, card |-> FALSE]

Init ==
    /\ msg = [m \in Message |-> [of |-> Nobody, kind |-> "plain", queued |-> FALSE, fate |-> "unsent"]]
    /\ reader = [s \in Socket |-> Reading]
    /\ inbox = [s \in Socket |-> <<>>]
    /\ main = [s \in Socket |-> Idle]
    /\ lockq = <<>> /\ holder = Nobody
    /\ boxOpen = FALSE /\ box = <<>>
    /\ turn = NoTurn /\ pending = <<>> /\ storing = None
    /\ gaveUp = [s \in Socket |-> FALSE]

Locked == holder # Nobody
Sent(s) == {m \in Message : msg[m].of = s}
\* The messages of seq that are in S, in order.
Only(S, seq) ==
    LET kept[i \in 0 .. Len(seq)] ==
          IF i = 0 THEN <<>> ELSE IF seq[i] \in S THEN Append(kept[i - 1], seq[i]) ELSE kept[i - 1]
    IN  kept[Len(seq)]
Mine(s, seq) == Only(Sent(s), seq)
Others(s, seq) == Only(Message \ Sent(s), seq)
\* Steer.hand_back for each of them: into the inbox of the socket that sent it.
HandBack(seq) == [s \in Socket |-> inbox[s] \o Mine(s, seq)]
\* steering._taken: read by the turn and not settled.
Taken == ToSet(pending) \union ({storing} \ {None})
Put(s, m) == inbox' = [inbox EXCEPT ![s] = Append(@, m)]
Become(m, fate) == msg' = [msg EXCEPT ![m].fate = fate]

(***************************************************************************)
(* The resident reader.                                                    *)
(***************************************************************************)

\* The first frame not sent yet.
Next1 == {m \in Message : msg[m].fate = "unsent" /\ \A n \in 1 .. m - 1 : msg[n].fate # "unsent"}

\* A user_message is told `queued` while a turn runs; one typed while a card of this
\* window's own turn waits answers it and does not go into the box.
Receive(s) ==
    /\ reader[s].pc = "open"
    /\ \E m \in Next1, k \in Kinds :
         \/ /\ k = "other" \/ ~Locked
            /\ msg' = [msg EXCEPT ![m] = [of |-> s, kind |-> k, queued |-> FALSE, fate |-> "sent"]]
            /\ Put(s, m)
            /\ UNCHANGED reader
         \/ /\ k # "other" /\ Locked
            /\ msg' = [msg EXCEPT ![m] = [of |-> s, kind |-> k, queued |-> TRUE, fate |-> "sent"]]
            /\ \E card \in BOOLEAN :
                 /\ card => holder = s /\ turn.pc = "batch"
                 /\ reader' = [reader EXCEPT ![s] = [pc |-> "telling", msg |-> m, card |-> card]]
            /\ UNCHANGED inbox
    /\ UNCHANGED <<main, lockVars, boxVars, turnVars, gaveUp>>

\* steering.put refuses when no turn is open; then, or for a message that cannot be
\* inserted, the inbox.
Insertable(r) == ~r.card /\ msg[r.msg].kind = "plain"
Forward(s) ==
    /\ reader[s].pc = "telling"
    /\ IF Insertable(reader[s]) /\ boxOpen
       THEN box' = Append(box, reader[s].msg) /\ UNCHANGED inbox
       ELSE Put(s, reader[s].msg) /\ UNCHANGED box
    /\ reader' = [reader EXCEPT ![s] = Reading]
    /\ UNCHANGED <<msg, main, lockVars, boxOpen, turnVars, gaveUp>>

\* The socket goes: steering.withdraw, then the wait of steering.settled unless the
\* turn holds nothing of this socket, then the close.
Disconnect_NoSettle(s) ==
    /\ reader[s].pc = "open"
    /\ inbox' = [inbox EXCEPT ![s] = @ \o Mine(s, box) \o <<Closed>>]
    /\ box' = Others(s, box)
    /\ reader' = [reader EXCEPT ![s].pc = "ended"]
    /\ UNCHANGED <<msg, main, lockVars, boxOpen, turnVars, gaveUp>>
Disconnect(s) ==
    /\ reader[s].pc = "open"
    /\ box' = Others(s, box)
    /\ \/ /\ \A m \in Taken : msg[m].of # s
          /\ inbox' = [inbox EXCEPT ![s] = @ \o Mine(s, box) \o <<Closed>>]
          /\ reader' = [reader EXCEPT ![s].pc = "ended"]
       \/ /\ \E m \in Taken : msg[m].of = s
          /\ inbox' = [inbox EXCEPT ![s] = @ \o Mine(s, box)]
          /\ reader' = [reader EXCEPT ![s].pc = "settling"]
    /\ UNCHANGED <<msg, main, lockVars, boxOpen, turnVars, gaveUp>>

\* SETTLE_WAIT_S may pass first.
Settled(s) ==
    /\ reader[s].pc = "settling"
    /\ gaveUp' = [gaveUp EXCEPT ![s] = \E m \in Taken : msg[m].of = s]
    /\ Put(s, Closed)
    /\ reader' = [reader EXCEPT ![s].pc = "ended"]
    /\ UNCHANGED <<msg, main, lockVars, boxVars, turnVars>>

(***************************************************************************)
(* The endpoint's loop and the turn lock.                                  *)
(***************************************************************************)

Gone(s) == reader[s].pc \in {"settling", "ended"}

\* The endpoint ends: the reader is cancelled where it is, what it holds included.
Leave(s, how) ==
    /\ main' = [main EXCEPT ![s] = [Idle EXCEPT !.pc = how]]
    /\ reader' = [reader EXCEPT ![s].pc = "ended"]

SeeClose(s) ==
    /\ main[s].pc = "idle" /\ inbox[s] # <<>> /\ Head(inbox[s]) = Closed
    /\ Leave(s, "closed")
    /\ UNCHANGED <<msg, inbox, lockVars, boxVars, turnVars, gaveUp>>

\* A frame that is only answered: the answer fails when the peer is gone, noticed by the
\* reader or not, and the endpoint ends.
AnswerOther(s) ==
    /\ main[s].pc = "idle" /\ inbox[s] # <<>> /\ Head(inbox[s]) \in Message
    /\ msg[Head(inbox[s])].kind = "other"
    /\ Become(Head(inbox[s]), "answered")
    /\ inbox' = [inbox EXCEPT ![s] = Tail(@)]
    /\ \/ ~Gone(s) /\ UNCHANGED <<main, reader>>
       \/ Leave(s, "failed")
    /\ UNCHANGED <<lockVars, boxVars, turnVars, gaveUp>>

\* _turn up to the lock: the waiters of the lock are served in order.
TakeMessage(s) ==
    /\ main[s].pc = "idle" /\ inbox[s] # <<>> /\ Head(inbox[s]) \in Message
    /\ msg[Head(inbox[s])].kind # "other"
    /\ main' = [main EXCEPT ![s] = [pc |-> "waiting", msg |-> Head(inbox[s]),
                                    told |-> msg[Head(inbox[s])].queued \/ Locked]]
    /\ inbox' = [inbox EXCEPT ![s] = Tail(@)]
    /\ lockq' = Append(lockq, s)
    /\ UNCHANGED <<msg, reader, holder, boxVars, turnVars, gaveUp>>

\* open_box, and handle_user_message stores the message.
Open(s) ==
    /\ boxOpen' = TRUE /\ box' = <<>>
    /\ turn' = [pc |-> "model", requests |-> 1]
    /\ Become(main[s].msg, "turn")
    /\ main' = [main EXCEPT ![s] = [Idle EXCEPT !.pc = "turn"]]

Acquire(s) ==
    /\ holder = Nobody /\ lockq # <<>> /\ Head(lockq) = s
    /\ holder' = s /\ lockq' = Tail(lockq)
    /\ \/ /\ main[s].told
          /\ main' = [main EXCEPT ![s].pc = "held"]
          /\ UNCHANGED <<msg, boxVars, turn>>
       \/ ~main[s].told /\ Open(s)
    /\ UNCHANGED <<sockVars, pending, storing, gaveUp>>

\* The sender has heard `dequeued`.
OpenBox(s) ==
    /\ main[s].pc = "held"
    /\ Open(s)
    /\ UNCHANGED <<sockVars, lockVars, pending, storing, gaveUp>>

(***************************************************************************)
(* The turn, as far as it reads messages.                                  *)
(***************************************************************************)

At(s, pcs) == holder = s /\ main[s].pc = "turn" /\ turn.pc \in pcs

ModelCallsTools(s) ==
    /\ At(s, {"model"}) /\ turn.requests < MaxRequests
    /\ turn' = [turn EXCEPT !.pc = "batch"]
    /\ UNCHANGED <<msg, sockVars, main, lockVars, boxVars, pending, storing, gaveUp>>

\* The boundary after the batch: steering.take and _read_steers with no await between.
\* A reply cut off by the output limit reads nothing.
BatchEnds(s) ==
    /\ At(s, {"batch"})
    /\ turn' = [turn EXCEPT !.pc = "top"]
    /\ \/ pending' = pending \o box /\ box' = <<>>
       \/ UNCHANGED <<pending, box>>
    /\ UNCHANGED <<msg, sockVars, main, lockVars, boxOpen, storing, gaveUp>>

\* The next request, or _commit_steers popping the next message to store.
Proceed ==
    IF pending = <<>>
    THEN turn' = [pc |-> "model", requests |-> turn.requests + 1] /\ UNCHANGED <<pending, storing>>
    ELSE /\ turn' = [turn EXCEPT !.pc = "storing"]
         /\ storing' = Head(pending) /\ pending' = Tail(pending)

Request(s) ==
    /\ At(s, {"top", "telling"})
    /\ Proceed
    /\ UNCHANGED <<msg, sockVars, main, lockVars, boxVars, gaveUp>>

\* Stored and settled; its sender is being told.
StoreDone(s) ==
    /\ At(s, {"storing"})
    /\ Become(storing, "inserted") /\ storing' = None
    /\ turn' = [turn EXCEPT !.pc = "telling"]
    /\ UNCHANGED <<sockVars, main, lockVars, boxVars, pending, gaveUp>>

\* run_native's finally: what no request carried goes back.
NativeEnds(back) ==
    /\ inbox' = HandBack(back)
    /\ pending' = <<>> /\ storing' = None
    /\ turn' = [turn EXCEPT !.pc = "ending"]

\* The answer, a limit, an error or a stop outside a store.
LoopEnds(s) ==
    /\ At(s, {"model", "batch", "top", "telling"})
    /\ NativeEnds(pending)
    /\ UNCHANGED <<msg, reader, main, lockVars, boxVars, gaveUp>>

\* A store that raises puts its message back; a stop landing on the store counts it as
\* stored, whether the write was committed or not.
StoreFails_Kept(s) ==
    /\ At(s, {"storing"})
    /\ \/ NativeEnds(<<storing>> \o pending) /\ UNCHANGED msg
       \/ NativeEnds(<<storing>> \o pending) /\ \E f \in {"inserted", "counted"} : Become(storing, f)
    /\ UNCHANGED <<reader, main, lockVars, boxVars, gaveUp>>
StoreFails(s) ==
    /\ At(s, {"storing"})
    /\ \/ NativeEnds(<<storing>> \o pending) /\ UNCHANGED msg
       \/ NativeEnds(pending) /\ \E f \in {"inserted", "counted"} : Become(storing, f)
    /\ UNCHANGED <<reader, main, lockVars, boxVars, gaveUp>>

\* close_box and the release of the lock; an exception the turn did not handle ends the
\* endpoint.
TurnEnds_BoxKept(s) ==
    /\ At(s, {"ending"})
    /\ boxOpen' = FALSE /\ UNCHANGED <<inbox, box>>
    /\ holder' = Nobody /\ turn' = NoTurn
    /\ \/ main' = [main EXCEPT ![s] = Idle] /\ UNCHANGED reader
       \/ Leave(s, "failed")
    /\ UNCHANGED <<msg, lockq, pending, storing, gaveUp>>
TurnEnds(s) ==
    /\ At(s, {"ending"})
    /\ inbox' = HandBack(box)
    /\ boxOpen' = FALSE /\ box' = <<>>
    /\ holder' = Nobody /\ turn' = NoTurn
    /\ \/ main' = [main EXCEPT ![s] = Idle] /\ UNCHANGED reader
       \/ Leave(s, "failed")
    /\ UNCHANGED <<msg, lockq, pending, storing, gaveUp>>

Work(s) ==
    \/ Forward(s) \/ Settled(s)
    \/ SeeClose(s) \/ AnswerOther(s) \/ TakeMessage(s) \/ Acquire(s) \/ OpenBox(s)
    \/ ModelCallsTools(s) \/ BatchEnds(s) \/ Request(s) \/ StoreDone(s) \/ LoopEnds(s)
    \/ StoreFails(s) \/ TurnEnds(s)

Next == \E s \in Socket : Receive(s) \/ Disconnect(s) \/ Work(s)

\* The reader and the loop of a socket are tasks of one event loop, which runs each of
\* them again, and a turn's awaits end: a provider, a tool and the database time out, and
\* the turn's requests are bounded.  Nothing makes a client send or leave.
Fairness ==
    \A s \in Socket :
      /\ WF_vars(Forward(s)) /\ WF_vars(Settled(s))
      /\ WF_vars(SeeClose(s) \/ AnswerOther(s) \/ TakeMessage(s) \/ OpenBox(s)) /\ WF_vars(Acquire(s))
      /\ WF_vars(ModelCallsTools(s) \/ BatchEnds(s) \/ Request(s) \/ StoreDone(s) \/ LoopEnds(s)
                 \/ StoreFails(s) \/ TurnEnds(s))

Spec == Init /\ [][Next]_vars /\ Fairness

(***************************************************************************)
(* Liveness; what holds of every state is in ConversationState.            *)
(***************************************************************************)

\* Every message sent becomes part of a turn or a turn of its own, unless the loop of its
\* socket failed or closed without it (_turn's FIFO lock, the box and the hand-backs).
SentIsRun ==
    \A m \in Message :
      msg[m].fate = "sent"
        ~> msg[m].fate # "sent" \/ \E s \in Socket : msg[m].of = s /\ main[s].pc \in Ended
=============================================================================
