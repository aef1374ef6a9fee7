---------------------------- MODULE MCSubSessions ----------------------------
(* A small tree: two children below the top, one below each of them. *)
EXTENDS SubSessions, TLC

CONSTANTS c1, c2, c3, c4, s1, s2, s3, s4

MCChild == {c1, c2, c3, c4}
MCCall == {s1, s2, s3, s4}
MCMaxChildren == <<2, 1>>
MCSymmetry == Permutations(MCChild) \union Permutations(MCCall)
=============================================================================
