---------------------------- MODULE MCTaskLedger ----------------------------
(* Small instances of TaskLedger for TLC. *)
EXTENDS TaskLedger

\* A write out of reach beside a read, which may repeat and never holds up a start.
MCIntent == {"send", "look"}
MCEffect == [send |-> "external_write", look |-> "read"]

\* A local write, whose clean refusal is taken at its word, beside a read.
MCLocalIntent == {"save", "look"}
MCLocalEffect == [save |-> "local_write", look |-> "read"]

\* One write alone, where attempts and stops are what is explored.
MCOneIntent == {"send"}
MCOneEffect == [send |-> "destructive"]
=============================================================================
