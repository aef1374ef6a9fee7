---------------------------- MODULE Checkpoints ----------------------------
(***************************************************************************)
(* A turn's file changes and their undo (server/services/checkpoints.py):  *)
(* `ensure` saves a folder before a run's first change in it, `finish`     *)
(* records how the run left every path, `_tidy` drops old copies and       *)
(* `restore_files` puts folders back, later runs first, path by path.      *)
(*                                                                         *)
(* A place is a folder and a relative path in it.  What a place holds is a *)
(* version: 0 when nothing is there, else the number of the write that put *)
(* it there, which stands for the bytes and the mtime a fingerprint tells  *)
(* apart.  `.git`, links, empty folders and the overlap lists are left out.*)
(***************************************************************************)
EXTENDS Integers, FiniteSetsExt

CONSTANTS
    Place,          \* <<folder, relative path>>
    LeftOut,        \* the places under folders the copy leaves out (node_modules, ...)
    Existing,       \* the places that hold something at the start
    NoPlace,        \* a command names no file it writes
    MaxRuns,        \* bound: runs in a behaviour
    MaxVersions,    \* bound: changes of files in a behaviour
    MaxFaults       \* bound: saves, copies and put-backs that fail, and process deaths

ASSUME CheckpointsAssumption ==
    /\ MaxRuns \in Nat \ {0} /\ MaxVersions \in Nat /\ MaxFaults \in Nat
    /\ LeftOut \subseteq Place /\ Existing \subseteq Place /\ NoPlace \notin Place

Run == 1 .. MaxRuns
Version == 0 .. MaxVersions
FolderOf(pl) == pl[1]
RelOf(pl) == pl[2]
Folder == {FolderOf(pl) : pl \in Place}
Rel == {RelOf(pl) : pl \in Place}
In(f) == {pl \in Place : FolderOf(pl) = f}

VARIABLES
    disk,           \* what is in the user's folders
    newest,         \* the last version written
    manifest,       \* each run's manifest.json
    store,          \* the copies beside it
    live,           \* _live
    touching,       \* _touching
    restoring,      \* who holds the _restoring lock
    phase,          \* where each run is
    call,           \* its tool call: ensure's thread, then the change
    ending,         \* the manifest finish read
    undo,           \* the restore under way
    free,           \* versions only ever put on disk while no run's window was open
    cut,            \* runs stopped while a thread of theirs was saving
    had,            \* what existed when each run saved it
    faults

files == <<disk, newest, free>>
threads == <<live, touching, restoring>>
history == <<had, cut>>
vars == <<files, manifest, store, threads, phase, call, ending, undo, history, faults>>

Manifest ==
    [there : {"no", "folder", "yes"}, roots : SUBSET Folder, skipped : SUBSET Folder, written : SUBSET Place,
     unsaved : [Place -> Version], finished : SUBSET Folder, now : [Place -> Version],
     saved : [Place -> Version], listed : SUBSET Place, done : SUBSET Rel, restored : BOOLEAN]
Nowhere == [pl \in Place |-> 0]
NoManifest ==
    [there |-> "no", roots |-> {}, skipped |-> {}, written |-> {}, unsaved |-> Nowhere,
     finished |-> {}, now |-> Nowhere, saved |-> Nowhere, listed |-> {}, done |-> {}, restored |-> FALSE]
NoCall == [stage |-> "none", folder |-> "none", written |-> NoPlace, data |-> NoManifest]
NoRun == 0
NoUndo == [asked |-> NoRun, chain |-> {}, todo |-> {}, back |-> {}, failed |-> FALSE]

TypeOK ==
    /\ disk \in [Place -> Version] /\ newest \in Version /\ free \subseteq Version
    /\ manifest \in [Run -> Manifest] /\ store \in [Run -> [Place -> Version]]
    /\ live \subseteq Run /\ touching \in [Folder -> SUBSET Run]
    /\ restoring \in {"free", "ensure", "restore"}
    /\ phase \in [Run -> {"new", "running", "finishing", "tidying", "over"}]
    /\ \A r \in Run :
         /\ call[r].stage \in {"none", "queued", "saving", "ready"}
         /\ call[r].stage # "none" => call[r].folder \in Folder
         /\ call[r].written \in Place \union {NoPlace} /\ call[r].data \in Manifest
    /\ ending \in [Run -> Manifest]
    /\ undo \in [asked : Run \union {NoRun}, chain : SUBSET Run, todo : SUBSET Place, back : SUBSET Place, failed : BOOLEAN]
    /\ had \in [Run -> SUBSET Place] /\ cut \subseteq Run
    /\ faults \in 0 .. MaxFaults

Init ==
    /\ disk = [pl \in Place |-> IF pl \in Existing THEN 1 ELSE 0] /\ newest = 1 /\ free = {1}
    /\ manifest = [r \in Run |-> NoManifest] /\ store = [r \in Run |-> Nowhere]
    /\ live = {} /\ touching = [f \in Folder |-> {}] /\ restoring = "free"
    /\ phase = [r \in Run |-> "new"] /\ call = [r \in Run |-> NoCall]
    /\ ending = [r \in Run |-> NoManifest] /\ undo = NoUndo
    /\ had = [r \in Run |-> {}] /\ cut = {} /\ faults = 0

\* A run that saved f and has not recorded yet how it left it: what is written meanwhile is its own.
Open(f) ==
    \E r \in Run : \/ phase[r] = "running" /\ f \in manifest[r].roots
                   \/ phase[r] = "finishing"
                   \/ call[r].stage = "saving" /\ call[r].folder = f

Saved(m) == m.roots \ m.skipped

Fault == faults < MaxFaults /\ faults' = faults + 1
NoFault == faults' = faults
MayFail(fails) == IF fails THEN Fault ELSE NoFault

-----------------------------------------------------------------------------
(* The run: a tool call saves first, then changes the folder.              *)

Begin(r) ==
    /\ phase[r] = "new" /\ \A s \in 1 .. r - 1 : phase[s] # "new"
    /\ phase' = [phase EXCEPT ![r] = "running"]
    /\ UNCHANGED <<files, manifest, store, threads, call, ending, undo, history, faults>>

\* write_file and edit_file name the file they write, run_command only its folder; the name matters
\* when the file is under a left-out folder.
Ensure(r, f, pl) ==
    /\ phase[r] = "running" /\ call[r].stage = "none"
    /\ newest < MaxVersions
    /\ pl = NoPlace \/ pl \in In(f) \intersect LeftOut
    /\ call' = [call EXCEPT ![r] = [NoCall EXCEPT !.stage = "queued", !.folder = f, !.written = pl]]
    /\ UNCHANGED <<files, manifest, store, threads, phase, ending, undo, history, faults>>

\* ensure's await is over: the call goes on to its change, unless its run was stopped meanwhile.
Returned(r) ==
    IF phase[r] = "running" THEN [call[r] EXCEPT !.stage = "ready", !.data = NoManifest] ELSE NoCall

Fresh(r) == ~(r \in live /\ manifest[r].there = "yes")

\* The thread has the lock: the manifest it goes on from, a first save wiping what an earlier
\* run left under the id.
EnsureBegins(r) ==
    /\ call[r].stage = "queued" /\ restoring = "free"
    /\ restoring' = "ensure"
    /\ live' = live \union {r}
    /\ touching' = [touching EXCEPT ![call[r].folder] = @ \union {r}]
    /\ manifest' = IF Fresh(r) THEN [manifest EXCEPT ![r] = [NoManifest EXCEPT !.there = "folder"]] ELSE manifest
    /\ store' = IF Fresh(r) THEN [store EXCEPT ![r] = Nowhere] ELSE store
    /\ call' = [call EXCEPT ![r].stage = "saving", ![r].data = manifest'[r]]
    /\ UNCHANGED <<files, phase, ending, undo, history, faults>>

\* _copy_tree and _save_written: what exists among pls, those in lost not copied.
Copied(pls, lost) == {pl \in pls : disk[pl] # 0 /\ pl \notin lost}

\* _save_root once per folder (or the reason it is skipped), then the file about to be written
\* under a left-out folder on its own, once.
EnsureSaves(r, skip, lost) ==
    LET f == call[r].folder
        pl == call[r].written
        d == call[r].data
        roots == d.roots \union {f}
        skipped == IF f \in d.roots THEN d.skipped ELSE IF skip THEN d.skipped \union {f} ELSE d.skipped
        tree == IF f \in d.roots \/ skip THEN {} ELSE In(f) \ LeftOut
        own == IF pl # NoPlace /\ f \notin skipped /\ pl \notin d.written THEN {pl} ELSE {}
        kept == Copied(tree \union own, lost)
        m == [d EXCEPT !.there = "yes", !.roots = roots, !.skipped = skipped, !.written = @ \union own,
                       !.unsaved = [x \in Place |-> IF x \in lost THEN disk[x] ELSE @[x]]]
    IN  /\ call[r].stage = "saving"
        /\ lost \subseteq {x \in tree \union own : disk[x] # 0} /\ (skip => f \notin d.roots)
        /\ restoring' = "free"
        /\ store' = [store EXCEPT ![r] = [x \in Place |-> IF x \in kept THEN disk[x] ELSE @[x]]]
        /\ manifest' = IF f \in d.roots /\ own = {} THEN manifest ELSE [manifest EXCEPT ![r] = m]
        /\ had' = [had EXCEPT ![r] = @ \union {x \in tree \union own : disk[x] # 0}]
        /\ call' = [call EXCEPT ![r] = Returned(r)]
        /\ MayFail(skip \/ lost # {})
        /\ UNCHANGED <<files, live, touching, phase, ending, undo, cut>>

\* A save that fails never stops the change: before the lock's work or in it.
EnsureFails(r) ==
    /\ call[r].stage \in {"queued", "saving"}
    /\ call[r].stage = "queued" => restoring = "free"
    /\ restoring' = "free"
    /\ call' = [call EXCEPT ![r] = Returned(r)]
    /\ Fault
    /\ UNCHANGED <<files, manifest, store, live, touching, phase, ending, undo, history>>

\* The change: the file named, or whatever the command writes or deletes in its folder.
Change(r, pl, v) ==
    /\ call[r].stage = "ready"
    /\ IF call[r].written = NoPlace THEN pl \in In(call[r].folder) ELSE pl = call[r].written
    /\ newest < MaxVersions
    /\ v = newest + 1 \/ (v = 0 /\ disk[pl] # 0 /\ call[r].written = NoPlace)
    /\ disk' = [disk EXCEPT ![pl] = v]
    /\ newest' = newest + 1
    /\ call' = [call EXCEPT ![r] = NoCall]
    /\ UNCHANGED <<free, manifest, store, threads, phase, ending, undo, history, faults>>

\* finish, up to its thread: the run lets go of its folders and its manifest is read.  A run that
\* is stopped leaves a thread of ensure going.
RunEnds(r) ==
    /\ phase[r] = "running"
    /\ touching' = [f \in Folder |-> touching[f] \ {r}]
    /\ live' = live \ {r}
    /\ IF r \in live /\ manifest[r].there = "yes"
         THEN phase' = [phase EXCEPT ![r] = "finishing"] /\ ending' = [ending EXCEPT ![r] = manifest[r]]
         ELSE phase' = [phase EXCEPT ![r] = "over"] /\ UNCHANGED ending
    /\ call' = IF call[r].stage = "ready" THEN [call EXCEPT ![r] = NoCall] ELSE call
    /\ cut' = IF call[r].stage \in {"queued", "saving"} THEN cut \union {r} ELSE cut
    /\ UNCHANGED <<files, manifest, store, restoring, undo, had, faults>>

\* _finish_root: the paths that differ from the copy, but for those that existed and could not be
\* copied, are the run's, made by it when the copy has none.
Changed(r, m) ==
    {pl \in Place : /\ FolderOf(pl) \in Saved(m) /\ (pl \in LeftOut => pl \in m.written)
                    /\ store[r][pl] # disk[pl]}

\* The mutant: what could not be copied counts as made by the run.
Listed_UnsavedToo(r, m) == Changed(r, m)

Listed(r, m) == {pl \in Changed(r, m) : store[r][pl] # 0 \/ m.unsaved[pl] = 0}

FinishRecords(r) ==
    LET m == ending[r]
        listed == Listed(r, m)
    IN  /\ phase[r] = "finishing"
        /\ manifest[r].there # "no"                     \* else _save fails
        /\ manifest' = [manifest EXCEPT ![r] =
             [m EXCEPT !.finished = Saved(m), !.listed = listed,
                       !.now = [pl \in Place |-> IF pl \in listed THEN disk[pl] ELSE 0],
                       !.saved = [pl \in Place |-> IF pl \in listed THEN store[r][pl] ELSE 0]]]
        /\ phase' = [phase EXCEPT ![r] = "tidying"]
        /\ ending' = [ending EXCEPT ![r] = NoManifest]
        /\ UNCHANGED <<files, store, threads, call, undo, history, faults>>

FinishFails(r) ==
    /\ phase[r] = "finishing"
    /\ IF manifest[r].there = "no" THEN NoFault ELSE Fault
    /\ phase' = [phase EXCEPT ![r] = "over"]
    /\ ending' = [ending EXCEPT ![r] = NoManifest]
    /\ UNCHANGED <<files, manifest, store, threads, call, undo, history>>

\* The mutant: without the lock.
Tidy_NoWait(r, gone) ==
    /\ phase[r] = "tidying"
    /\ gone \subseteq {s \in Run : manifest[s].there # "no"} \ (live \union {r})
    /\ manifest' = [s \in Run |-> IF s \in gone THEN NoManifest ELSE manifest[s]]
    /\ store' = [s \in Run |-> IF s \in gone THEN Nowhere ELSE store[s]]
    /\ phase' = [phase EXCEPT ![r] = "over"]
    /\ UNCHANGED <<files, threads, call, ending, undo, history, faults>>

\* By age and by quota: any copies but those of the runs still going and of the one that just ended.
Tidy(r, gone) ==
    /\ phase[r] = "tidying" /\ restoring = "free"
    /\ gone \subseteq {s \in Run : manifest[s].there # "no"} \ (live \union {r})
    /\ manifest' = [s \in Run |-> IF s \in gone THEN NoManifest ELSE manifest[s]]
    /\ store' = [s \in Run |-> IF s \in gone THEN Nowhere ELSE store[s]]
    /\ phase' = [phase EXCEPT ![r] = "over"]
    /\ UNCHANGED <<files, threads, call, ending, undo, history, faults>>

-----------------------------------------------------------------------------
(* Putting back.                                                           *)

Later(r, roots) ==
    {s \in r + 1 .. MaxRuns : manifest[s].there = "yes" /\ ~manifest[s].restored /\ Saved(manifest[s]) \intersect roots # {}}

\* _chain's refusals, in one: running, none, already, not_finished.
Refused(r) ==
    LET roots == Saved(manifest[r])
    IN  \/ r \in live \/ manifest[r].there # "yes" \/ roots = {}
        \/ \E f \in roots : touching[f] # {}
        \/ manifest[r].restored
        \/ \E s \in Later(r, roots) \union {r} : ~(Saved(manifest[s]) \subseteq manifest[s].finished)

\* The later runs first: the newest of those left.
Undoing == Max(undo.chain)

Todo(r) == {pl \in manifest[r].listed : RelOf(pl) \notin manifest[r].done}

RestoreBegins(r) ==
    LET chain == Later(r, Saved(manifest[r])) \union {r}
    IN  /\ restoring = "free" /\ ~Refused(r)
        /\ restoring' = "restore"
        /\ undo' = [NoUndo EXCEPT !.asked = r, !.chain = chain, !.todo = Todo(Max(chain))]
        /\ UNCHANGED <<files, manifest, store, live, touching, phase, call, ending, history, faults>>

\* The mutant: whatever is there is replaced.
PutBack_Blind(pl, ok) ==
    LET r == Undoing
        m == manifest[r]
        done == ok /\ store[r][pl] = m.saved[pl]
    IN  /\ restoring = "restore" /\ pl \in undo.todo
        /\ disk' = IF done THEN [disk EXCEPT ![pl] = m.saved[pl]] ELSE disk
        /\ free' = IF done /\ Open(FolderOf(pl)) THEN free \ {m.saved[pl]} ELSE free
        /\ undo' = [undo EXCEPT !.todo = @ \ {pl}, !.back = IF done THEN @ \union {pl} ELSE @,
                                !.failed = @ \/ ~done]
        /\ MayFail(~ok)
        /\ UNCHANGED <<newest, manifest, store, threads, phase, call, ending, history>>

\* One path, only if it is still as its run left it: the copy put back, or the Trash for what the run made.
PutBack(pl, ok) ==
    LET r == Undoing
        m == manifest[r]
        asLeft == disk[pl] = m.now[pl]
        done == asLeft /\ ok /\ store[r][pl] = m.saved[pl]
    IN  /\ restoring = "restore" /\ pl \in undo.todo /\ (~ok => asLeft)
        /\ disk' = IF done THEN [disk EXCEPT ![pl] = m.saved[pl]] ELSE disk
        /\ free' = IF done /\ Open(FolderOf(pl)) THEN free \ {m.saved[pl]} ELSE free
        /\ undo' = [undo EXCEPT !.todo = @ \ {pl}, !.back = IF done THEN @ \union {pl} ELSE @,
                                !.failed = @ \/ (asLeft /\ ~done)]
        /\ MayFail(~ok)
        /\ UNCHANGED <<newest, manifest, store, threads, phase, call, ending, history>>

\* The run's manifest is written once its paths are through; then the next run of the chain.
RestoreRunEnds ==
    LET r == Undoing
        rest == undo.chain \ {r}
    IN  /\ restoring = "restore" /\ undo.todo = {}
        /\ manifest' = [manifest EXCEPT ![r].done = @ \union {RelOf(pl) : pl \in undo.back},
                                        ![r].restored = @ \/ ~undo.failed]
        /\ IF rest = {}
             THEN restoring' = "free" /\ undo' = NoUndo
             ELSE restoring' = restoring /\ undo' = [undo EXCEPT !.chain = rest, !.todo = Todo(Max(rest)), !.back = {}, !.failed = FALSE]
        /\ UNCHANGED <<files, store, live, touching, phase, call, ending, history, faults>>

-----------------------------------------------------------------------------
(* The user, and the process's death.                                      *)

UserChanges(pl, v) ==
    /\ newest < MaxVersions
    /\ v = newest + 1 \/ (v = 0 /\ disk[pl] # 0)
    /\ disk' = [disk EXCEPT ![pl] = v]
    /\ newest' = newest + 1
    /\ free' = IF v = 0 \/ Open(FolderOf(pl)) THEN free ELSE free \union {v}
    /\ UNCHANGED <<manifest, store, threads, phase, call, ending, undo, history, faults>>

Crash ==
    /\ Fault
    /\ live' = {} /\ touching' = [f \in Folder |-> {}] /\ restoring' = "free"
    /\ phase' = [r \in Run |-> IF phase[r] = "new" THEN "new" ELSE "over"]
    /\ call' = [r \in Run |-> NoCall]
    /\ ending' = [r \in Run |-> NoManifest] /\ undo' = NoUndo
    /\ UNCHANGED <<files, manifest, store, history>>

Next ==
    \/ \E r \in Run : Begin(r) \/ EnsureBegins(r) \/ EnsureFails(r) \/ RunEnds(r)
    \/ \E r \in Run, f \in Folder, pl \in Place \union {NoPlace} : Ensure(r, f, pl)
    \/ \E r \in Run, skip \in BOOLEAN, lost \in SUBSET Place : EnsureSaves(r, skip, lost)
    \/ \E r \in Run, pl \in Place, v \in Version : Change(r, pl, v)
    \/ \E r \in Run : FinishRecords(r) \/ FinishFails(r)
    \/ \E r \in Run, gone \in SUBSET Run : Tidy(r, gone)
    \/ \E r \in Run : RestoreBegins(r)
    \/ \E pl \in Place, ok \in BOOLEAN : PutBack(pl, ok)
    \/ RestoreRunEnds
    \/ \E pl \in Place, v \in Version : UserChanges(pl, v)
    \/ Crash

Spec == Init /\ [][Next]_vars

-----------------------------------------------------------------------------
(* Properties.                                                             *)

Putting == restoring = "restore"

\* An undo never takes away what the user wrote while no run had the folder open, also when a later
\* run of the chain changed it in between ("anything changed since is kept and listed").  A run
\* stopped while a thread of its own was still saving is excepted: that thread may wipe its copies.
UserEditsStay ==
    [][\A pl \in Place : Putting /\ undo' # undo /\ disk'[pl] # disk[pl] /\ Undoing \notin cut
          => disk[pl] \notin free]_vars

\* What existed when a run saved the folder is never sent to the Trash as made by the run, whatever
\* could not be copied then; runs stopped while saving are excepted as above.
OldIsNeverTrashed ==
    [][\A pl \in Place : Putting /\ undo' # undo /\ disk[pl] # 0 /\ disk'[pl] = 0 /\ Undoing \notin cut
          => pl \notin had[Undoing]]_vars

\* While files go back, the copies of every run of the chain stay (_tidy waits for the lock), and no
\* run has begun to change a folder of the run being undone (ensure waits for it).
UndoIsUndisturbed ==
    Putting => /\ \A r \in undo.chain : manifest[r].there = "yes"
               /\ \A f \in Saved(manifest[undo.asked]) : touching[f] = {}
=============================================================================
