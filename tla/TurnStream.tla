----------------------------- MODULE TurnStream -----------------------------
(***************************************************************************)
(* The host runs of one conversation, their frames and their records:      *)
(* host_run.execute, RunRecorder (tee, checkpoints of partial output and   *)
(* the finalize latch), run_registry (the journals and the sinks), the     *)
(* attach block of the socket endpoint (server/ws/arslan.py) and the boot  *)
(* sweep of run_reaper.                                                    *)
(*                                                                         *)
(* A frame is its run and its type; the text it carries is left out.  The  *)
(* runs of a conversation follow one another: the turn lock is modelled in *)
(* Conversation.                                                           *)
(***************************************************************************)
EXTENDS Integers, Sequences, FiniteSets, SequencesExt

CONSTANTS
    Window,         \* the sockets that connect to the conversation
    MaxRuns,        \* bound: runs in a behaviour
    MaxChunks,      \* bound: text frames of a run
    MaxCrashes      \* bound: process deaths

ASSUME StreamAssumption ==
    MaxRuns \in Nat \ {0} /\ MaxChunks \in Nat /\ MaxCrashes \in Nat /\ IsFiniteSet(Window)

Run == 1 .. MaxRuns
Types == {"start", "chunk", "end", "error", "cancelled"}
Frame == Run \X Types
Outcomes == {"completed", "failed", "cancelled"}
Statuses == {"none", "recording", "interrupted"} \union Outcomes

VARIABLES
    row,            \* the Run rows: status, final_output, and how often steps were written
    answers,        \* the runs whose answer is a stored message
    up,             \* the server is serving
    cur,            \* the newest run
    pc,             \* host_run's place in it
    outcome,        \* the status its finalize writes
    stop,           \* a cancel waits for the write
    latch,          \* RunRecorder's _finalizing / _finalized
    events,         \* each run's journal
    check,          \* the checkpoint task of the newest run
    unwritten,      \* the runs of this process that ended without their final write
    late,           \* checkpoint writes cancelled in the driver, which may still land
    win,            \* the sockets
    crashes

runVars == <<cur, pc, outcome, stop, latch, check, unwritten>>
vars == <<row, answers, up, runVars, events, late, win, crashes>>

Pcs == {"idle", "begun", "body", "stored", "ending", "writing", "leaving"}

TypeOK ==
    /\ row \in [Run -> [status : Statuses, out : {"none", "partial", "final"}, writes : 0 .. 2]]
    /\ answers \subseteq Run /\ up \in BOOLEAN
    /\ cur \in 0 .. MaxRuns /\ pc \in Pcs /\ outcome \in Outcomes /\ stop \in BOOLEAN
    /\ latch \in {"open", "finalizing", "finalized"}
    /\ events \in [Run -> Seq(Types)]
    /\ check \in {"none", "sleeping", "writing"} /\ late \subseteq Run /\ unwritten \subseteq Run
    /\ win \in [Window -> [pc : {"away", "history", "attached", "live"}, history : SUBSET Run,
                           replay : Seq(Frame), got : Seq(Frame), whole : SUBSET Run]]
    /\ crashes \in 0 .. MaxCrashes

Away == [pc |-> "away", history |-> {}, replay |-> <<>>, got |-> <<>>, whole |-> {}]

Init ==
    /\ row = [r \in Run |-> [status |-> "none", out |-> "none", writes |-> 0]]
    /\ answers = {} /\ up = TRUE
    /\ cur = 0 /\ pc = "idle" /\ outcome = "completed" /\ stop = FALSE /\ latch = "open"
    /\ events = [r \in Run |-> <<>>]
    /\ check = "none" /\ late = {} /\ unwritten = {}
    /\ win = [w \in Window |-> Away]
    /\ crashes = 0

Attached(w) == win[w].pc \in {"attached", "live"}

\* RunRecorder.tee: into the journal, then to every sink attached now.  Frames reach a
\* socket's queue, which its drainer empties in order once the replay is out.
Tee(f) ==
    /\ events' = [events EXCEPT ![cur] = Append(@, f)]
    /\ win' = [w \in Window |->
                 IF Attached(w) THEN [win[w] EXCEPT !.got = Append(@, <<cur, f>>)] ELSE win[w]]

(***************************************************************************)
(* host_run.execute and the recorder.                                      *)
(***************************************************************************)

\* RunRecorder.start and run_registry.register.
Start ==
    /\ up /\ pc = "idle" /\ cur < MaxRuns
    /\ cur' = cur + 1
    /\ row' = [row EXCEPT ![cur + 1].status = "recording"]
    /\ pc' = "begun" /\ outcome' = "completed" /\ stop' = FALSE /\ latch' = "open" /\ check' = "none"
    /\ win' = [w \in Window |-> IF Attached(w) THEN [win[w] EXCEPT !.whole = @ \union {cur + 1}] ELSE win[w]]
    /\ UNCHANGED <<answers, up, events, late, unwritten, crashes>>

\* The preamble, before any context is assembled.
Announce ==
    /\ up /\ pc = "begun"
    /\ pc' = "body"
    /\ Tee("start")
    /\ UNCHANGED <<row, answers, up, cur, outcome, stop, latch, check, late, unwritten, crashes>>

\* A text frame schedules a checkpoint unless one is under way.
Chunk ==
    /\ up /\ pc = "body"
    /\ Cardinality({i \in DOMAIN events[cur] : events[cur][i] = "chunk"}) < MaxChunks
    /\ Tee("chunk")
    /\ check' = IF check = "none" THEN "sleeping" ELSE check
    /\ UNCHANGED <<row, answers, up, cur, pc, outcome, stop, latch, late, unwritten, crashes>>

\* flush_checkpoint: not once the finalize has begun; the UPDATE takes a row that is
\* still recording.
CheckpointBegins ==
    /\ up /\ check = "sleeping"
    /\ check' = IF latch = "open" THEN "writing" ELSE "none"
    /\ UNCHANGED <<row, answers, up, cur, pc, outcome, stop, latch, events, late, win, unwritten, crashes>>
Checkpoint_AnyStatus(r) == row' = [row EXCEPT ![r].out = "partial"]
Checkpoint(r) == row' = [row EXCEPT ![r].out = IF row[r].status = "recording" THEN "partial" ELSE @]
CheckpointLands ==
    /\ up
    /\ \/ check = "writing" /\ Checkpoint(cur) /\ check' = "none" /\ UNCHANGED late
       \/ \E r \in late : Checkpoint(r) /\ late' = late \ {r} /\ UNCHANGED check
    /\ UNCHANGED <<answers, up, cur, pc, outcome, stop, latch, events, win, unwritten, crashes>>

\* memory.add_message, then stream_end; an error the body reports with a frame, or raises.
StoreAnswer ==
    /\ up /\ pc = "body"
    /\ answers' = answers \union {cur} /\ pc' = "stored"
    /\ UNCHANGED <<row, up, cur, outcome, stop, latch, check, events, late, win, unwritten, crashes>>
EmitEnd ==
    /\ up /\ pc = "stored"
    /\ Tee("end") /\ pc' = "ending"
    /\ UNCHANGED <<row, answers, up, cur, outcome, stop, latch, check, late, unwritten, crashes>>
BodyFails ==
    /\ up /\ pc = "body"
    /\ \/ Tee("error")
       \/ UNCHANGED <<events, win>>
    /\ pc' = "ending" /\ outcome' = "failed"
    /\ UNCHANGED <<row, answers, up, cur, stop, latch, check, late, unwritten, crashes>>

\* run_registry.cancel: the CancelledError surfaces in the body, or waits for the write
\* that is under way in a task of its own.  One that lands before the run's task has
\* started ends it with no finalize at all.
Stop ==
    /\ up
    /\ \/ /\ pc \in {"body", "stored", "ending"} /\ outcome' = "cancelled" /\ pc' = "ending"
          /\ UNCHANGED <<stop, unwritten>>
       \/ pc = "writing" /\ stop' = TRUE /\ UNCHANGED <<outcome, pc, unwritten>>
       \/ pc = "begun" /\ pc' = "leaving" /\ unwritten' = unwritten \union {cur} /\ UNCHANGED <<outcome, stop>>
    /\ UNCHANGED <<row, answers, up, cur, latch, check, events, late, win, crashes>>

\* finalize up to its write: the latch, then the checkpoint task is cancelled; one in the
\* driver may land all the same.
FinalizeBegins ==
    /\ up /\ pc = "ending" /\ latch = "open"
    /\ latch' = "finalizing" /\ pc' = "writing" /\ check' = "none"
    /\ late' = IF check = "writing" THEN late \union {cur} ELSE late
    /\ UNCHANGED <<row, answers, up, cur, outcome, stop, events, win, unwritten, crashes>>

\* The commit.  A stop that waited surfaces now: its handler's finalize finds the latch
\* closed, so nothing is written again.
WriteLands ==
    /\ up /\ pc = "writing"
    /\ row' = [row EXCEPT ![cur] = [status |-> outcome, out |-> "final", writes |-> @.writes + 1]]
    /\ latch' = "finalized" /\ pc' = "leaving"
    /\ IF (outcome = "cancelled") # stop THEN Tee("cancelled") ELSE UNCHANGED <<events, win>>
    /\ UNCHANGED <<answers, up, cur, outcome, stop, check, late, unwritten, crashes>>

\* A write that raises leaves the latch closed: the second finalize does nothing.
WriteFails ==
    /\ up /\ pc = "writing"
    /\ pc' = "leaving" /\ unwritten' = unwritten \union {cur}
    /\ UNCHANGED <<row, answers, up, cur, outcome, stop, latch, check, events, late, win, crashes>>

\* The run's cleanup, then run_registry.unregister.
Leave ==
    /\ up /\ pc = "leaving"
    /\ pc' = "idle"
    /\ UNCHANGED <<row, answers, up, cur, outcome, stop, latch, check, events, late, win, unwritten, crashes>>

(***************************************************************************)
(* Sockets.                                                                *)
(***************************************************************************)

Set(w, v) == win' = [win EXCEPT ![w] = v]

ReadHistory(w) ==
    /\ up /\ win[w].pc = "away"
    /\ Set(w, [Away EXCEPT !.pc = "history", !.history = answers])
    /\ UNCHANGED <<row, answers, up, runVars, events, late, crashes>>

\* run_registry.journal_snapshots: the registered run, unless it is finalized or its
\* journal holds a stream_end.
Replayable == pc # "idle" /\ latch # "finalized" /\ "end" \notin ToSet(events[cur])

\* The snapshot and attach_sink with no await between.
Attach(w) ==
    /\ up /\ win[w].pc = "history"
    /\ Set(w, [win[w] EXCEPT !.pc = "attached",
                 !.replay = IF Replayable THEN [i \in DOMAIN events[cur] |-> <<cur, events[cur][i]>>] ELSE <<>>,
                 !.whole = IF Replayable THEN {cur} ELSE {}])
    /\ UNCHANGED <<row, answers, up, runVars, events, late, crashes>>

\* The replay is on the socket before the drainer starts.
Drain_LiveFirst(w) ==
    /\ up /\ win[w].pc = "attached"
    /\ Set(w, [win[w] EXCEPT !.pc = "live", !.got = @ \o win[w].replay, !.replay = <<>>])
    /\ UNCHANGED <<row, answers, up, runVars, events, late, crashes>>
Drain(w) ==
    /\ up /\ win[w].pc = "attached"
    /\ Set(w, [win[w] EXCEPT !.pc = "live", !.got = win[w].replay \o win[w].got, !.replay = <<>>])
    /\ UNCHANGED <<row, answers, up, runVars, events, late, crashes>>

\* detach_sink, however the endpoint ends.
Detach(w) ==
    /\ up /\ win[w].pc # "away"
    /\ Set(w, Away)
    /\ UNCHANGED <<row, answers, up, runVars, events, late, crashes>>

(***************************************************************************)
(* The process.                                                            *)
(***************************************************************************)

Crash ==
    /\ up /\ crashes < MaxCrashes
    /\ crashes' = crashes + 1 /\ up' = FALSE
    /\ pc' = "idle" /\ check' = "none" /\ late' = {} /\ unwritten' = {}
    /\ win' = [w \in Window |-> Away]
    /\ UNCHANGED <<row, answers, cur, outcome, stop, latch, events>>

\* The lifespan's sweep before the server serves: run_reaper.mark_interrupted_runs.
Boot_NoSweep == /\ ~up /\ up' = TRUE
                /\ UNCHANGED <<row, answers, runVars, events, late, win, crashes>>
Boot ==
    /\ ~up /\ up' = TRUE
    /\ row' = [r \in Run |-> IF row[r].status = "recording" THEN [row[r] EXCEPT !.status = "interrupted"]
                             ELSE row[r]]
    /\ UNCHANGED <<answers, runVars, events, late, win, crashes>>

RunStep == Announce \/ StoreAnswer \/ EmitEnd \/ BodyFails \/ FinalizeBegins \/ WriteLands
           \/ WriteFails \/ Leave

Next ==
    \/ Start \/ RunStep \/ Chunk \/ Stop \/ CheckpointBegins \/ CheckpointLands \/ Crash \/ Boot
    \/ \E w \in Window : ReadHistory(w) \/ Attach(w) \/ Drain(w) \/ Detach(w)

Spec == Init /\ [][Next]_vars

(***************************************************************************)
(* Properties.                                                             *)
(***************************************************************************)

\* The types of the frames of run r, in order.
Of(r, frames) ==
    LET kept[i \in 0 .. Len(frames)] ==
          IF i = 0 THEN <<>>
          ELSE IF frames[i][1] = r THEN Append(kept[i - 1], frames[i][2]) ELSE kept[i - 1]
    IN  kept[Len(frames)]

\* Every frame of a run reaches each window exactly once and in order, whenever the window
\* attached during it: what is replayed and what arrives live are together the run's
\* journal (the synchronous snapshot and attach, and the drainer that starts after the
\* replay).
FramesReachOnce ==
    \A w \in Window : Attached(w) =>
      \A r \in win[w].whole : Of(r, win[w].replay \o win[w].got) = events[r]

\* A finalized record is final: its steps are written once, and no checkpoint of partial
\* output, however late, replaces its output (the latch across a stop that lands during
\* the write, and the status guard of flush_checkpoint).
FinalRecordStands ==
    \A r \in Run : row[r].writes <= 1 /\ (row[r].writes = 1 => row[r].out = "final")

\* A row is left recording only while its run is under way, unless its final write failed
\* in this process; a restart settles those too (a stop at any await reaches a write, and
\* mark_interrupted_runs).
RecordSettles ==
    \A r \in Run : up /\ row[r].status = "recording" => (r = cur /\ pc # "idle") \/ r \in unwritten
=============================================================================
