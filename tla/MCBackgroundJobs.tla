-------------------------- MODULE MCBackgroundJobs --------------------------
(* Small instances of BackgroundJobs for TLC. *)
EXTENDS BackgroundJobs

CONSTANTS a, b

Two == {a, b}
JustA == {a}
=============================================================================
