----------------------------- MODULE MCApprovals -----------------------------
(* A small instance of Approvals for TLC. *)
EXTENDS Approvals

\* A window's turn that asks two things in parallel, and a job that asks the first too.
MCAsk == {"w1", "w2", "j1"}
MCSurface == [w1 |-> "window", w2 |-> "window", j1 |-> "job"]
MCAsker == [w1 |-> "turn", w2 |-> "turn", j1 |-> "job"]
MCQuestion == [w1 |-> "run", w2 |-> "run", j1 |-> "run"]

\* A question the island may not say yes to, and one for a window alone.
MCWindowOnly == {"install"}
MCRisky == {"run"}
=============================================================================
