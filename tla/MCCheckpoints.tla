--------------------------- MODULE MCCheckpoints ---------------------------
(* Small instances of Checkpoints for TLC. *)
EXTENDS Checkpoints

\* One folder: a file, and one not there yet in a folder the copy leaves out.
MCPlace == {<<"a", "x">>, <<"a", "y">>}
MCLeftOut == {<<"a", "y">>}
MCExisting == {<<"a", "x">>}
=============================================================================
