------------------------------ MODULE OnceOnly ------------------------------
(***************************************************************************)
(* What the task ledger promises about the writes of a task, said without  *)
(* rows, attempts or processes: a write is let out of our hands, it may    *)
(* take effect while it is out, and afterwards somebody knows that it is   *)
(* done or that it is not.  It is let out again only if it never happened, *)
(* or a person took that on their word.                                    *)
(***************************************************************************)
EXTENDS Integers

CONSTANT Write

VARIABLES
    state,      \* "free": may be tried; "out": its outcome is open; "done": over for good
    effects,    \* how often it really happened (two stands for more)
    vouched     \* a person said that it had not happened

vars == <<state, effects, vouched>>

Init ==
    /\ state = [w \in Write |-> "free"]
    /\ effects = [w \in Write |-> 0]
    /\ vouched = [w \in Write |-> FALSE]

\* Nothing speaks against (another) execution: it never happened, or a person answers for it.
Harmless(w) == effects[w] = 0 \/ vouched[w]
OnceMore(w) == effects' = [effects EXCEPT ![w] = IF @ < 2 THEN @ + 1 ELSE @]

LetOut(w) ==
    /\ state[w] = "free" /\ Harmless(w)
    /\ state' = [state EXCEPT ![w] = "out"]
    /\ UNCHANGED <<effects, vouched>>

\* It happens while it is out, or late: after a person's verdict, whichever it was.
Happen(w) ==
    /\ state[w] # "free" \/ vouched[w]
    /\ Harmless(w) /\ OnceMore(w)
    /\ UNCHANGED <<state, vouched>>

\* It comes back and is known to have happened.
Succeed(w) ==
    /\ state[w] = "out" /\ Harmless(w)
    /\ state' = [state EXCEPT ![w] = "done"] /\ OnceMore(w)
    /\ UNCHANGED vouched

\* It comes back with a failure that is known to have left nothing.
Refuse(w) ==
    /\ state[w] = "out" /\ Harmless(w)
    /\ state' = [state EXCEPT ![w] = "free"]
    /\ UNCHANGED <<effects, vouched>>

\* A person settles what nobody else can know.
Confirm(w) ==
    /\ state[w] = "out"
    /\ state' = [state EXCEPT ![w] = "done"]
    /\ UNCHANGED <<effects, vouched>>
Vouch(w) ==
    /\ state[w] = "out"
    /\ state' = [state EXCEPT ![w] = "free"]
    /\ vouched' = [vouched EXCEPT ![w] = TRUE]
    /\ UNCHANGED effects

Next == \E w \in Write :
    LetOut(w) \/ Happen(w) \/ Succeed(w) \/ Refuse(w) \/ Confirm(w) \/ Vouch(w)

Spec == Init /\ [][Next]_vars
=============================================================================
