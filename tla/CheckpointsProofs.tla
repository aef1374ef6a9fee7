-------------------------- MODULE CheckpointsProofs --------------------------
(***************************************************************************)
(* Saving and putting back a turn's files (server/services/checkpoints.py),*)
(* for every set of folders and files, every number of runs and changes:   *)
(* an undo is undisturbed, never takes the user's own edits away and never *)
(* trashes what was there before the run.                                  *)
(***************************************************************************)
EXTENDS Checkpoints, FiniteSetTheorems, WellFoundedInduction, NaturalsInduction, TLAPS

-----------------------------------------------------------------------------
(* The inductive invariant. *)

Manifests ==
    [there : {"no", "folder", "yes"}, roots : SUBSET Folder, skipped : SUBSET Folder, written : SUBSET Place,
     unsaved : [Place -> Int], finished : SUBSET Folder, now : [Place -> Int],
     saved : [Place -> Int], listed : SUBSET Place, done : SUBSET Rel, restored : BOOLEAN]

CallShape == [stage : {"none", "queued", "saving", "ready"}, folder : Folder \union {"none"},
              written : Place \union {NoPlace}, data : Manifests]
UndoShape == [asked : Run \union {NoRun}, chain : SUBSET Run, todo : SUBSET Place, back : SUBSET Place,
              failed : BOOLEAN]

Shape ==
    /\ disk \in [Place -> Int] /\ newest \in Int /\ free \in SUBSET Int
    /\ manifest \in [Run -> Manifests] /\ ending \in [Run -> Manifests]
    /\ store \in [Run -> [Place -> Int]] /\ touching \in [Folder -> SUBSET Run]
    /\ phase \in [Run -> {"new", "running", "finishing", "tidying", "over"}]
    /\ call \in [Run -> CallShape]
    /\ undo \in UndoShape
    /\ had \in [Run -> SUBSET Place] /\ cut \in SUBSET Run /\ live \in SUBSET Run

\* One thread of ensure saves at a time, and never while files are put back.
SavesAlone ==
    /\ \A r \in Run : call[r].stage = "saving" => restoring = "ensure"
    /\ \A r, s \in Run : call[r].stage = "saving" /\ call[s].stage = "saving" => r = s

Going == {"new", "running", "finishing"}

\* A run that goes on has recorded nothing yet.
Unrecorded ==
    \A r \in Run :
        /\ phase[r] \in Going => /\ manifest[r].finished = {} /\ manifest[r].listed = {}
                                 /\ call[r].data.finished = {} /\ call[r].data.listed = {}
        /\ phase[r] = "finishing" => ending[r].there = "yes"

\* The runs being put back are over.
UndoIsOfPast ==
    Putting => /\ undo.asked \in Run /\ undo.chain # {}
               /\ \A r \in undo.chain \union {undo.asked} : phase[r] \in {"tidying", "over"}
               /\ undo.todo \subseteq manifest[Undoing].listed

UndoInv == Shape /\ SavesAlone /\ Unrecorded /\ UndoIsOfPast /\ UndoIsUndisturbed

\* Versions only grow.
Known ==
    /\ newest >= 0 /\ \A v \in free : v > 0 /\ v <= newest
    /\ \A pl \in Place : disk[pl] >= 0 /\ disk[pl] <= newest
    /\ \A r \in Run, pl \in Place : store[r][pl] >= 0 /\ store[r][pl] <= newest
    /\ \A r \in Run \ cut, pl \in Place : manifest[r].now[pl] <= newest

\* What a call names is where it says.
CallIsPlaced ==
    \A r \in Run : call[r].stage # "none" =>
        /\ call[r].folder \in Folder
        /\ call[r].written # NoPlace => call[r].written \in In(call[r].folder) \intersect LeftOut

\* The places a manifest's copy is to cover.
Covered(m, pl) == FolderOf(pl) \in Saved(m) /\ (pl \in LeftOut => pl \in m.written)

\* Nothing was saved for a run.
HasNothing(r) == manifest[r].roots = {} /\ manifest[r].written = {} /\ had[r] = {}

\* A run that was not stopped while saving: no thread of its own outlives it, its thread goes on
\* from its manifest, and before its first save it has nothing.
OwnThread ==
    \A r \in Run \ cut :
        /\ phase[r] # "running" => call[r].stage = "none"
        /\ call[r].stage = "saving" => r \in live /\ call[r].data = manifest[r]
        /\ phase[r] = "running" => (r \in live /\ manifest[r].there = "yes") \/ HasNothing(r)
        /\ phase[r] = "new" => HasNothing(r)

\* What the copy of a run holds of a place, m its manifest.
CopyIsRight(r, m) ==
    /\ m.skipped \subseteq m.roots /\ \A pl \in m.written : FolderOf(pl) \in m.roots
    /\ \A pl \in Place : store[r][pl] # 0 => Covered(m, pl)
    /\ \A pl \in Place : Covered(m, pl) /\ disk[pl] \in free
         => disk[pl] = store[r][pl] \/ (store[r][pl] = 0 /\ m.unsaved[pl] # 0)
    /\ \A pl \in had[r] : Covered(m, pl) /\ (store[r][pl] # 0 \/ m.unsaved[pl] # 0)

\* While a run has the folder open, what the user wrote before is as in the copy, unless it could
\* not be copied; what existed is in the copy or known not to be.
CopiesAreRight ==
    \A r \in Run \ cut :
        /\ phase[r] \in {"new", "running"} => CopyIsRight(r, manifest[r])
        /\ phase[r] = "finishing" /\ manifest[r].there # "no" => CopyIsRight(r, ending[r])

\* What a run recorded as its own was never the user's, and what existed has a copy.
RecordsAreRight ==
    \A r \in Run \ cut : \A pl \in manifest[r].listed :
        /\ manifest[r].now[pl] \notin free
        /\ pl \in had[r] => manifest[r].saved[pl] # 0

FilesInv ==
    /\ UndoInv /\ Known /\ CallIsPlaced /\ OwnThread /\ CopiesAreRight /\ RecordsAreRight

-----------------------------------------------------------------------------
(* Records. *)

\* A run without a manifest.
LEMMA NoManifestShape ==
    /\ NoManifest \in Manifests /\ NoManifest.there = "no" /\ NoManifest.roots = {} /\ NoManifest.skipped = {} /\ NoManifest.written = {}
    /\ NoManifest.finished = {} /\ NoManifest.listed = {} /\ \A pl \in Place : NoManifest.now[pl] = 0
  BY DEF NoManifest, Manifests, Nowhere

\* A store without a copy.
LEMMA NowhereShape == Nowhere \in [Place -> Int] /\ \A pl \in Place : Nowhere[pl] = 0
  BY DEF Nowhere

\* A first save begins with an empty folder.
LEMMA FolderShape ==
    LET m == [NoManifest EXCEPT !.there = "folder"]
    IN  /\ m \in Manifests /\ m.there = "folder" /\ m.roots = {} /\ m.skipped = {} /\ m.written = {}
        /\ m.finished = {} /\ m.listed = {} /\ \A pl \in Place : m.now[pl] = 0
  BY NoManifestShape DEF Manifests

\* The order of the naturals.
Below == {ss \in Nat \X Nat : ss[1] < ss[2]}

\* The newest of some runs is one of them.
LEMMA NewestIsThere ==
    ASSUME NEW S \in SUBSET Run, S # {}
    PROVE  Max(S) \in S
  <1> DEFINE B == {n \in Nat : MaxRuns - n \in S}
  <1>1. IsWellFoundedOn(Below, Nat)
    BY NatLessThanWellFounded, Zenon DEF OpToRel, Below
  <1>2. B # {} /\ B \subseteq Nat
    <2>1. PICK r \in S : TRUE
      OBVIOUS
    <2>2. MaxRuns - r \in Nat /\ MaxRuns - (MaxRuns - r) = r
      BY CheckpointsAssumption DEF Run
    <2> QED
      BY <2>2
  <1>3. PICK n \in B : \A m \in B : ~(<<m, n>> \in Below)
    <2> HIDE DEF B
    <2> QED
      BY <1>1, <1>2, WFMin
  <1>4. ASSUME NEW s \in S PROVE MaxRuns - n >= s
    <2>1. MaxRuns - s \in Nat /\ MaxRuns - (MaxRuns - s) = s /\ MaxRuns \in Nat /\ s \in Nat /\ n \in Nat
      BY CheckpointsAssumption DEF Run
    <2>2. MaxRuns - s \in B
      BY <2>1
    <2>3. ~(MaxRuns - s < n)
      BY <1>3, <2>1, <2>2 DEF Below
    <2> QED
      BY <2>1, <2>3
  <1>5. \E x \in S : \A y \in S : x >= y
    BY <1>3, <1>4
  <1> QED
    BY <1>5 DEF Max

\* No call.
LEMMA NoCallShape == NoCall \in CallShape /\ NoCall.stage = "none" /\ NoCall.data = NoManifest
  BY NoManifestShape DEF NoCall, CallShape

\* A call that has asked for its save.
LEMMA QueuedShape ==
    ASSUME NEW f \in Folder, NEW pl \in Place \union {NoPlace}
    PROVE  LET c == [NoCall EXCEPT !.stage = "queued", !.folder = f, !.written = pl]
           IN  c \in CallShape /\ c.stage = "queued" /\ c.folder = f /\ c.written = pl /\ c.data = NoManifest
  BY NoCallShape DEF CallShape

\* A call whose save is over.
LEMMA ReturnedShape ==
    ASSUME call \in [Run -> CallShape], NEW r \in Run
    PROVE  /\ Returned(r) \in CallShape /\ Returned(r).data = NoManifest
           /\ Returned(r).stage = IF phase[r] = "running" THEN "ready" ELSE "none"
           /\ phase[r] = "running" => Returned(r).folder = call[r].folder /\ Returned(r).written = call[r].written
  BY NoCallShape, NoManifestShape DEF Returned, CallShape

\* No undo.
LEMMA NoUndoShape ==
    NoUndo \in UndoShape
  BY DEF NoUndo, UndoShape

-----------------------------------------------------------------------------
(* The steps of a run. *)

\* Nothing the copies depend on changes.
LEMMA CopyKept ==
    ASSUME NEW r, NEW m, CopyIsRight(r, m), UNCHANGED <<disk, free>>, store'[r] = store[r], had'[r] = had[r]
    PROVE  CopyIsRight(r, m)'
  BY DEF CopyIsRight, Covered, Saved

\* A run that has saved nothing.
LEMMA EmptyCopy ==
    ASSUME NEW r \in Run, \A pl \in Place : store'[r][pl] = 0,
           \A pl \in Place : FolderOf(pl) \notin Saved(manifest'[r]), manifest'[r].skipped = {},
           \A pl : pl \notin manifest'[r].written /\ pl \notin had'[r]
    PROVE  CopyIsRight(r, manifest[r])'
  BY DEF CopyIsRight, Covered

\* A run begins.
LEMMA BeginStep ==
    ASSUME FilesInv, NEW r \in Run, Begin(r)
    PROVE  FilesInv'
  <1> USE DEF FilesInv, UndoInv
  <1>1. /\ phase[r] = "new" /\ phase' = [phase EXCEPT ![r] = "running"]
        /\ UNCHANGED <<disk, newest, free, manifest, store, live, touching, restoring, call, ending, undo, had, cut>>
    BY DEF Begin, files, threads, history
  <1>2. Shape' /\ SavesAlone' /\ Unrecorded'
    BY <1>1 DEF Shape, SavesAlone, Unrecorded, Going
  <1>3. UndoIsOfPast' /\ UndoIsUndisturbed'
    BY <1>1 DEF Shape, UndoIsOfPast, UndoIsUndisturbed, Putting, Undoing, Saved
  <1>4. Known' /\ CallIsPlaced' /\ OwnThread'
    BY <1>1 DEF Shape, Known, CallIsPlaced, OwnThread, HasNothing
  <1>5. CopiesAreRight'
    BY <1>1 DEF Shape, CopiesAreRight, CopyIsRight, Covered, Saved
  <1>6. RecordsAreRight'
    BY <1>1 DEF RecordsAreRight
  <1> QED
    BY <1>2, <1>3, <1>4, <1>5, <1>6

\* A tool call asks for its save.
LEMMA EnsureStep ==
    ASSUME FilesInv, NEW r \in Run, NEW f \in Folder, NEW pl \in Place \union {NoPlace}, Ensure(r, f, pl)
    PROVE  FilesInv'
  <1> USE DEF FilesInv, UndoInv
  <1> DEFINE c == [NoCall EXCEPT !.stage = "queued", !.folder = f, !.written = pl]
  <1>1. /\ phase[r] = "running" /\ (pl = NoPlace \/ pl \in In(f) \intersect LeftOut) /\ call' = [call EXCEPT ![r] = c]
        /\ UNCHANGED <<disk, newest, free, manifest, store, live, touching, restoring, phase, ending, undo, had, cut>>
    BY DEF Ensure, files, threads, history
  <1>2. c \in CallShape /\ c.stage = "queued" /\ c.folder = f /\ c.written = pl /\ c.data = NoManifest
    BY QueuedShape
  <1> HIDE DEF c
  <1>3. Shape' /\ call'[r] = c /\ \A s \in Run \ {r} : call'[s] = call[s]
    BY <1>1, <1>2 DEF Shape
  <1>4. SavesAlone' /\ Unrecorded'
    BY <1>1, <1>2, <1>3, NoManifestShape DEF SavesAlone, Unrecorded
  <1>5. UndoIsOfPast' /\ UndoIsUndisturbed'
    BY <1>1 DEF UndoIsOfPast, UndoIsUndisturbed, Putting, Undoing, Saved
  <1>6. Known' /\ CallIsPlaced' /\ OwnThread'
    BY <1>1, <1>2, <1>3 DEF Known, CallIsPlaced, OwnThread, HasNothing, In
  <1>7. CopiesAreRight'
    BY <1>1 DEF CopiesAreRight, CopyIsRight, Covered, Saved
  <1>8. RecordsAreRight'
    BY <1>1 DEF RecordsAreRight
  <1> QED
    BY <1>3, <1>4, <1>5, <1>6, <1>7, <1>8

\* The thread has the lock.
LEMMA EnsureBeginsStep ==
    ASSUME FilesInv, NEW r \in Run, EnsureBegins(r)
    PROVE  FilesInv'
  <1> USE DEF FilesInv, UndoInv
  <1> DEFINE wiped == [NoManifest EXCEPT !.there = "folder"]
  <1>1. /\ call[r].stage = "queued" /\ restoring = "free" /\ restoring' = "ensure" /\ live' = live \union {r}
        /\ UNCHANGED <<disk, newest, free, phase, ending, undo, had, cut>>
    BY DEF EnsureBegins, files, history
  <1>2. \/ ~Fresh(r) /\ manifest' = manifest /\ store' = store
        \/ Fresh(r) /\ manifest' = [manifest EXCEPT ![r] = wiped] /\ store' = [store EXCEPT ![r] = Nowhere]
    BY DEF EnsureBegins
  <1>3. /\ wiped \in Manifests /\ wiped.there = "folder" /\ wiped.roots = {} /\ wiped.skipped = {} /\ wiped.written = {}
        /\ wiped.finished = {} /\ wiped.listed = {} /\ \A pl \in Place : wiped.now[pl] = 0
    BY FolderShape
  <1> HIDE DEF wiped
  <1>4. /\ manifest' \in [Run -> Manifests] /\ store' \in [Run -> [Place -> Int]]
        /\ \A s \in Run \ {r} : manifest'[s] = manifest[s] /\ store'[s] = store[s]
    <2>1. CASE ~Fresh(r) /\ manifest' = manifest /\ store' = store
      BY <2>1 DEF Shape
    <2>2. CASE Fresh(r) /\ manifest' = [manifest EXCEPT ![r] = wiped] /\ store' = [store EXCEPT ![r] = Nowhere]
      BY <1>3, <2>2, NowhereShape DEF Shape
    <2> QED
      BY <1>2, <2>1, <2>2
  <1>5. \/ ~Fresh(r) /\ manifest'[r] = manifest[r] /\ store'[r] = store[r]
        \/ Fresh(r) /\ manifest'[r] = wiped /\ store'[r] = Nowhere
    BY <1>2 DEF Shape
  <1>6. /\ call' \in [Run -> CallShape] /\ call'[r].stage = "saving" /\ call'[r].data = manifest'[r]
        /\ call'[r].folder = call[r].folder /\ call'[r].written = call[r].written
        /\ \A s \in Run \ {r} : call'[s] = call[s]
    <2> DEFINE x == manifest'[r]
    <2>1. x \in Manifests
      BY <1>4
    <2>2. call' = [call EXCEPT ![r].stage = "saving", ![r].data = x]
      BY DEF EnsureBegins
    <2> HIDE DEF x
    <2>3. /\ call' \in [Run -> CallShape] /\ call'[r].stage = "saving" /\ call'[r].data = x
          /\ call'[r].folder = call[r].folder /\ call'[r].written = call[r].written
          /\ \A s \in Run \ {r} : call'[s] = call[s]
      BY <2>1, <2>2 DEF Shape, CallShape
    <2> QED
      BY <2>3 DEF x
  <1>7. Shape'
    <2>1. touching' \in [Folder -> SUBSET Run]
      BY DEF EnsureBegins, Shape
    <2> QED
      BY <1>1, <1>4, <1>6, <2>1 DEF Shape
  <1>8. SavesAlone'
    BY <1>1, <1>6 DEF SavesAlone
  <1>9. Unrecorded'
    BY <1>1, <1>3, <1>4, <1>5, <1>6 DEF Unrecorded, Going
  <1>10. UndoIsOfPast' /\ UndoIsUndisturbed'
    BY <1>1 DEF UndoIsOfPast, UndoIsUndisturbed, Putting
  <1>11. Known'
    <2>1. \A x \in Place : store'[r][x] >= 0 /\ store'[r][x] <= newest
      BY <1>5, NowhereShape DEF Known
    <2>2. \A s \in Run, x \in Place : store'[s][x] >= 0 /\ store'[s][x] <= newest
      BY <1>4, <2>1 DEF Known
    <2>3. \A x \in Place : r \notin cut => manifest'[r].now[x] <= newest
      BY <1>3, <1>5 DEF Known
    <2>4. \A s \in Run \ cut, x \in Place : manifest'[s].now[x] <= newest
      BY <1>4, <2>3 DEF Known
    <2> QED
      BY <1>1, <2>2, <2>4 DEF Known
  <1>12. CallIsPlaced'
    BY <1>1, <1>6 DEF CallIsPlaced
  <1>13. OwnThread'
    BY <1>1, <1>3, <1>4, <1>5, <1>6 DEF OwnThread, HasNothing, Fresh
  <1>14. CopiesAreRight'
    <2>1. ASSUME NEW s \in Run \ cut, s # r, phase[s] \in {"new", "running"}
          PROVE  CopyIsRight(s, manifest[s])'
      BY <1>1, <1>4, <2>1 DEF CopiesAreRight, CopyIsRight, Covered, Saved
    <2>2. ASSUME NEW s \in Run \ cut, s # r, phase[s] = "finishing", manifest'[s].there # "no"
          PROVE  CopyIsRight(s, ending[s])'
      BY <1>1, <1>4, <2>2 DEF CopiesAreRight, CopyIsRight, Covered, Saved
    <2>3. ASSUME r \notin cut
          PROVE  phase[r] = "running" /\ CopyIsRight(r, manifest[r])'
      <3>1. phase[r] = "running"
        BY <1>1, <2>3 DEF OwnThread, HasNothing
      <3>2. CASE ~Fresh(r) /\ manifest'[r] = manifest[r] /\ store'[r] = store[r]
        BY <1>1, <2>3, <3>1, <3>2 DEF CopiesAreRight, CopyIsRight, Covered, Saved
      <3>3. CASE Fresh(r) /\ manifest'[r] = wiped /\ store'[r] = Nowhere
        <4>1. had[r] = {}
          BY <2>3, <3>1, <3>3 DEF OwnThread, HasNothing, Fresh
        <4>2. /\ manifest'[r].roots = {} /\ manifest'[r].written = {} /\ had'[r] = {}
              /\ \A pl \in Place : store'[r][pl] = 0
          BY <1>1, <1>3, <3>3, <4>1, NowhereShape
        <4>3. \A pl \in Place : FolderOf(pl) \notin Saved(manifest'[r])
          BY <4>2 DEF Saved
        <4>4. \A pl : pl \notin manifest'[r].written /\ pl \notin had'[r]
          BY <4>2
        <4>5. \A pl \in Place : store'[r][pl] = 0
          BY <4>2
        <4>6. manifest'[r].skipped = {}
          BY <1>3, <3>3
        <4> QED
          BY <3>1, <4>3, <4>4, <4>5, <4>6, EmptyCopy
      <3> QED
        BY <1>5, <3>1, <3>2, <3>3
    <2> QED
      BY <1>1, <2>1, <2>2, <2>3 DEF CopiesAreRight
  <1>15. RecordsAreRight'
    BY <1>1, <1>3, <1>4, <1>5 DEF RecordsAreRight
  <1> QED
    BY <1>7, <1>8, <1>9, <1>10, <1>11, <1>12, <1>13, <1>14, <1>15

\* What a save does: m, the manifest it makes of d, covers the places of N besides, and their copies
\* are made but for the lost ones.
Saves(r, d, m, N, lost) ==
    /\ m.skipped \subseteq m.roots /\ \A pl \in m.written : FolderOf(pl) \in m.roots
    /\ \A pl \in Place : Covered(m, pl) <=> Covered(d, pl) \/ pl \in N
    /\ \A pl \in N : ~Covered(d, pl)
    /\ \A pl \in lost : disk[pl] # 0
    /\ \A pl \in Place : m.unsaved[pl] = IF pl \in lost THEN disk[pl] ELSE d.unsaved[pl]
    /\ \A pl \in Place : store'[r][pl] = IF pl \in N /\ disk[pl] # 0 /\ pl \notin lost THEN disk[pl] ELSE store[r][pl]
    /\ \A pl \in had'[r] : pl \in had[r] \/ (pl \in N /\ disk[pl] # 0)
    /\ disk' = disk /\ free' = free

\* A save leaves the copy right.
LEMMA SaveCovers ==
    ASSUME Shape, Known, NEW r \in Run, NEW d \in Manifests, NEW m \in Manifests, NEW N \in SUBSET Place,
           NEW lost \in SUBSET N, CopyIsRight(r, d), Saves(r, d, m, N, lost)
    PROVE  CopyIsRight(r, m)'
  <1> USE DEF Saves
  <1>1. \A pl \in Place : store[r][pl] # 0 => Covered(d, pl)
    BY DEF CopyIsRight
  <1>2. \A pl \in Place : store'[r][pl] # 0 => Covered(m, pl)
    BY <1>1
  <1>3. \A pl \in Place : disk[pl] \in free => disk[pl] # 0
    BY DEF Known
  <1>4. ASSUME NEW pl \in Place, Covered(m, pl), disk[pl] \in free
        PROVE  disk[pl] = store'[r][pl] \/ (store'[r][pl] = 0 /\ m.unsaved[pl] # 0)
    <2>1. CASE pl \in N
      BY <1>1, <1>3, <1>4, <2>1
    <2>2. CASE pl \notin N
      <3>1. Covered(d, pl) /\ store'[r][pl] = store[r][pl] /\ m.unsaved[pl] = d.unsaved[pl]
        BY <1>4, <2>2
      <3>2. disk[pl] = store[r][pl] \/ (store[r][pl] = 0 /\ d.unsaved[pl] # 0)
        BY <1>4, <3>1 DEF CopyIsRight
      <3> QED
        BY <3>1, <3>2
    <2> QED
      BY <2>1, <2>2
  <1>5. ASSUME NEW pl \in had'[r]
        PROVE  Covered(m, pl) /\ (store'[r][pl] # 0 \/ m.unsaved[pl] # 0)
    <2>1. CASE pl \in N
      <3>1. disk[pl] # 0 \/ pl \in had[r]
        BY <1>5
      <3>2. pl \notin had[r]
        BY <2>1 DEF CopyIsRight
      <3> QED
        BY <2>1, <3>1, <3>2
    <2>2. CASE pl \notin N
      <3>1. pl \in had[r] /\ pl \in Place
        BY <1>5, <2>2 DEF Shape
      <3>2. Covered(d, pl) /\ (store[r][pl] # 0 \/ d.unsaved[pl] # 0)
        BY <3>1 DEF CopyIsRight
      <3> QED
        BY <2>2, <3>1, <3>2
    <2> QED
      BY <2>1, <2>2
  <1> QED
    BY <1>2, <1>4, <1>5 DEF CopyIsRight, Covered, Saved

\* A save is over.
LEMMA EnsureSavesStep ==
    ASSUME FilesInv, NEW r \in Run, NEW skip \in BOOLEAN, NEW lost \in SUBSET Place, EnsureSaves(r, skip, lost)
    PROVE  FilesInv'
  <1> USE DEF FilesInv, UndoInv
  <1> DEFINE f == call[r].folder
             pl == call[r].written
             d == call[r].data
             roots == d.roots \union {f}
             skipped == IF f \in d.roots THEN d.skipped ELSE IF skip THEN d.skipped \union {f} ELSE d.skipped
             tree == IF f \in d.roots \/ skip THEN {} ELSE In(f) \ LeftOut
             own == IF pl # NoPlace /\ f \notin skipped /\ pl \notin d.written THEN {pl} ELSE {}
             N == tree \union own
             kept == Copied(N, lost)
             unsaved == [x \in Place |-> IF x \in lost THEN disk[x] ELSE d.unsaved[x]]
             copy == [x \in Place |-> IF x \in kept THEN disk[x] ELSE store[r][x]]
             m == [d EXCEPT !.there = "yes", !.roots = roots, !.skipped = skipped, !.written = d.written \union own,
                            !.unsaved = unsaved]
  <1>1. /\ call[r].stage = "saving" /\ restoring' = "free"
        /\ UNCHANGED <<disk, newest, free, live, touching, phase, ending, undo, cut>>
    BY DEF EnsureSaves, files
  <1>2. lost \subseteq {x \in N : disk[x] # 0}
    BY Zenon DEF EnsureSaves
  <1>3. call' = [call EXCEPT ![r] = Returned(r)]
    BY DEF EnsureSaves
  <1>4. store' = [store EXCEPT ![r] = copy]
    BY DEF EnsureSaves
  <1>5. had' = [had EXCEPT ![r] = had[r] \union {x \in N : disk[x] # 0}]
    BY DEF EnsureSaves
  <1>6. manifest' = IF f \in d.roots /\ own = {} THEN manifest ELSE [manifest EXCEPT ![r] = m]
    BY DEF EnsureSaves
  <1>7. f \in Folder /\ d \in Manifests /\ (pl # NoPlace => pl \in In(f) \intersect LeftOut)
    BY <1>1 DEF Shape, CallShape, CallIsPlaced
  <1>8. \/ f \in d.roots /\ skipped = d.skipped /\ tree = {}
        \/ f \notin d.roots /\ skipped = d.skipped \union {f} /\ tree = {}
        \/ f \notin d.roots /\ skipped = d.skipped /\ tree = In(f) \ LeftOut
    BY Zenon
  <1> HIDE DEF skipped, tree
  <1>9. own = {} \/ (own = {pl} /\ pl \in In(f) \intersect LeftOut /\ f \notin skipped /\ pl \notin d.written)
    BY <1>7
  <1> HIDE DEF own
  <1>10. /\ skipped \subseteq Folder /\ tree \subseteq In(f) \ LeftOut /\ N \subseteq In(f)
         /\ own \subseteq Place /\ roots \subseteq Folder /\ N \subseteq Place
    BY <1>7, <1>8, <1>9 DEF In, Manifests
  <1>11. unsaved \in [Place -> Int] /\ copy \in [Place -> Int]
    BY <1>7 DEF Shape, Manifests
  <1>12. /\ m \in Manifests /\ m.there = "yes" /\ m.roots = roots /\ m.skipped = skipped
         /\ m.written = d.written \union own /\ m.unsaved = unsaved
         /\ m.finished = d.finished /\ m.listed = d.listed /\ m.now = d.now /\ m.saved = d.saved
    <2>1. d.written \union own \in SUBSET Place
      BY <1>7, <1>10 DEF Manifests
    <2>2. /\ d \in Manifests /\ roots \in SUBSET Folder /\ skipped \in SUBSET Folder /\ unsaved \in [Place -> Int]
      BY <1>7, <1>10, <1>11
    <2> HIDE DEF roots, unsaved, d
    <2> QED
      BY <2>1, <2>2 DEF Manifests
  <1> HIDE DEF m
  <1>13. /\ manifest' \in [Run -> Manifests] /\ \A s \in Run \ {r} : manifest'[s] = manifest[s]
         /\ \/ f \in d.roots /\ own = {} /\ manifest'[r] = manifest[r]
            \/ ~(f \in d.roots /\ own = {}) /\ manifest'[r] = m
    BY <1>6, <1>12 DEF Shape
  <1>14. store' \in [Run -> [Place -> Int]] /\ store'[r] = copy /\ \A s \in Run \ {r} : store'[s] = store[s]
    <2> HIDE DEF copy
    <2> QED
      BY <1>4, <1>11 DEF Shape
  <1>15. /\ had' \in [Run -> SUBSET Place] /\ had'[r] = had[r] \union {x \in N : disk[x] # 0}
         /\ \A s \in Run \ {r} : had'[s] = had[s]
    <2> HIDE DEF N
    <2> QED
      BY <1>5, <1>10 DEF Shape
  <1>16. /\ call' \in [Run -> CallShape] /\ \A s \in Run \ {r} : call'[s] = call[s]
         /\ call'[r].data = NoManifest /\ call'[r].stage = (IF phase[r] = "running" THEN "ready" ELSE "none")
         /\ phase[r] = "running" => call'[r].folder = f /\ call'[r].written = pl
    <2> DEFINE c == Returned(r)
    <2>1. /\ c \in CallShape /\ c.data = NoManifest /\ c.stage = (IF phase[r] = "running" THEN "ready" ELSE "none")
          /\ phase[r] = "running" => c.folder = f /\ c.written = pl
      BY ReturnedShape DEF Shape
    <2> HIDE DEF c
    <2>2. call' = [call EXCEPT ![r] = c]
      BY <1>3 DEF c
    <2> QED
      BY <2>1, <2>2 DEF Shape
  <1>17. restoring = "ensure" /\ \A s \in Run \ {r} : call[s].stage # "saving"
    BY <1>1 DEF SavesAlone
  <1> HIDE DEF f, pl, d, N, copy, unsaved, roots
  <1>18. Shape'
    BY <1>1, <1>13, <1>14, <1>15, <1>16 DEF Shape
  <1>19. SavesAlone'
    BY <1>1, <1>16, <1>17 DEF SavesAlone
  <1>20. Unrecorded'
    <2>1. phase[r] \in Going => d.finished = {} /\ d.listed = {}
      BY DEF Unrecorded, d
    <2> QED
      BY <1>1, <1>12, <1>13, <1>16, <2>1, NoManifestShape DEF Unrecorded
  <1>21. UndoIsOfPast' /\ UndoIsUndisturbed'
    BY <1>1 DEF UndoIsOfPast, UndoIsUndisturbed, Putting
  <1>22. ASSUME r \notin cut
         PROVE  /\ phase[r] = "running" /\ r \in live /\ d = manifest[r] /\ CopyIsRight(r, d) /\ d.listed = {}
    BY <1>1, <1>22 DEF OwnThread, HasNothing, CopiesAreRight, Unrecorded, Going, d
  <1>23. Known'
    <2>1. \A x \in Place : store'[r][x] >= 0 /\ store'[r][x] <= newest
      BY <1>14 DEF Known, copy
    <2>2. \A s \in Run, x \in Place : store'[s][x] >= 0 /\ store'[s][x] <= newest
      BY <1>14, <2>1 DEF Known
    <2>3. \A s \in Run \ cut, x \in Place : manifest'[s].now[x] <= newest
      BY <1>12, <1>13, <1>22 DEF Known
    <2> QED
      BY <1>1, <2>2, <2>3 DEF Known
  <1>24. CallIsPlaced'
    BY <1>7, <1>16 DEF CallIsPlaced
  <1>25. OwnThread'
    <2>1. ASSUME r \notin cut
          PROVE  manifest'[r].there = "yes"
      <3>1. f \in d.roots => manifest[r].there = "yes"
        BY <1>22, <2>1 DEF OwnThread, HasNothing
      <3> QED
        BY <1>12, <1>13, <3>1
    <2> QED
      BY <1>1, <1>13, <1>15, <1>16, <1>22, <2>1 DEF OwnThread, HasNothing
  <1>26. ASSUME r \notin cut
         PROVE  CopyIsRight(r, manifest[r])'
    <2>1. \A x \in N : x \in Place /\ FolderOf(x) = f
      BY <1>10 DEF In
    <2>2. d.skipped \subseteq d.roots /\ \A x \in d.written : FolderOf(x) \in d.roots
      BY <1>22, <1>26 DEF CopyIsRight
    <2>3. CASE f \in d.roots /\ own = {} /\ manifest'[r] = manifest[r]
      <3>1. N = {}
        BY <1>8, <2>3 DEF N
      <3>2. store'[r] = store[r]
        BY <1>14, <3>1 DEF copy, Copied, Shape
      <3>3. had'[r] = had[r]
        BY <1>15, <3>1
      <3> QED
        BY <1>1, <1>22, <1>26, <2>3, <3>2, <3>3, CopyKept
    <2>4. CASE ~(f \in d.roots /\ own = {}) /\ manifest'[r] = m
      <3>0. PICK new \in Manifests : new = m
        BY <1>12
      <3>1. new.skipped \subseteq new.roots /\ \A x \in new.written : FolderOf(x) \in new.roots
        BY <3>0, <1>8, <1>9, <1>12, <2>2 DEF roots, In
      <3>2. \A x \in N : ~Covered(d, x)
        BY <1>8, <1>9, <2>1, <2>2 DEF N, Covered, Saved
      <3>3. \A x \in Place : Covered(new, x) <=> Covered(d, x) \/ x \in N
        BY <3>0, <1>8, <1>9, <1>12, <2>1, <2>2 DEF N, Covered, Saved, roots, In
      <3>4. \A x \in Place : new.unsaved[x] = IF x \in lost THEN disk[x] ELSE d.unsaved[x]
        BY <3>0, <1>12 DEF unsaved
      <3>5. \A x \in Place : store'[r][x] = IF x \in N /\ disk[x] # 0 /\ x \notin lost THEN disk[x] ELSE store[r][x]
        BY <1>14 DEF copy, Copied
      <3>6. lost \subseteq N /\ \A x \in lost : disk[x] # 0
        BY <1>2
      <3>7. CopyIsRight(r, new)'
        <4>1. /\ Shape /\ Known /\ d \in Manifests /\ N \in SUBSET Place /\ lost \in SUBSET N /\ CopyIsRight(r, d)
          BY <1>7, <1>10, <1>22, <1>26, <3>6
        <4>2. \A x \in had'[r] : x \in had[r] \/ (x \in N /\ disk[x] # 0)
          BY <1>15
        <4>3. disk' = disk /\ free' = free
          BY <1>1
        <4>4. Saves(r, d, new, N, lost)
          BY <3>1, <3>2, <3>3, <3>4, <3>5, <3>6, <4>2, <4>3 DEF Saves
        <4> QED
          BY <4>1, <4>4, SaveCovers, Zenon
      <3> QED
        BY <2>4, <3>0, <3>7 DEF CopyIsRight, Covered, Saved
    <2> QED
      BY <1>13, <2>3, <2>4
  <1>27. CopiesAreRight'
    <2>1. ASSUME NEW s \in Run \ cut, s # r, phase[s] \in {"new", "running"}
          PROVE  CopyIsRight(s, manifest[s])'
      BY <1>1, <1>13, <1>14, <1>15, <2>1 DEF CopiesAreRight, CopyIsRight, Covered, Saved
    <2>2. ASSUME NEW s \in Run \ cut, s # r, phase[s] = "finishing", manifest'[s].there # "no"
          PROVE  CopyIsRight(s, ending[s])'
      BY <1>1, <1>13, <1>14, <1>15, <2>2 DEF CopiesAreRight, CopyIsRight, Covered, Saved
    <2> QED
      BY <1>1, <1>22, <1>26, <2>1, <2>2 DEF CopiesAreRight
  <1>28. RecordsAreRight'
    BY <1>1, <1>12, <1>13, <1>15, <1>22 DEF RecordsAreRight
  <1> QED
    BY <1>18, <1>19, <1>20, <1>21, <1>23, <1>24, <1>25, <1>27, <1>28

\* A save fails.
LEMMA EnsureFailsStep ==
    ASSUME FilesInv, NEW r \in Run, EnsureFails(r)
    PROVE  FilesInv'
  <1> USE DEF FilesInv, UndoInv
  <1> DEFINE c == Returned(r)
  <1>1. /\ call[r].stage \in {"queued", "saving"} /\ (call[r].stage = "queued" => restoring = "free")
        /\ restoring' = "free"
        /\ UNCHANGED <<disk, newest, free, manifest, store, live, touching, phase, ending, undo, had, cut>>
    BY DEF EnsureFails, files, history
  <1>2. /\ c \in CallShape /\ c.data = NoManifest /\ c.stage = (IF phase[r] = "running" THEN "ready" ELSE "none")
        /\ phase[r] = "running" => c.folder = call[r].folder /\ c.written = call[r].written
    BY ReturnedShape DEF Shape
  <1>3. call' = [call EXCEPT ![r] = c]
    BY DEF EnsureFails
  <1> HIDE DEF c
  <1>4. call' \in [Run -> CallShape] /\ call'[r] = c /\ \A s \in Run \ {r} : call'[s] = call[s]
    BY <1>2, <1>3 DEF Shape
  <1>5. Shape'
    BY <1>1, <1>4 DEF Shape
  <1>6. SavesAlone' /\ Unrecorded'
    BY <1>1, <1>2, <1>4, NoManifestShape DEF SavesAlone, Unrecorded
  <1>7. UndoIsOfPast' /\ UndoIsUndisturbed'
    BY <1>1 DEF UndoIsOfPast, UndoIsUndisturbed, Putting
  <1>8. Known' /\ CallIsPlaced'
    BY <1>1, <1>2, <1>4 DEF Known, CallIsPlaced
  <1>9. OwnThread'
    BY <1>1, <1>2, <1>4 DEF OwnThread, HasNothing
  <1>10. CopiesAreRight' /\ RecordsAreRight'
    BY <1>1 DEF CopiesAreRight, RecordsAreRight, CopyIsRight, Covered, Saved
  <1> QED
    BY <1>5, <1>6, <1>7, <1>8, <1>9, <1>10

\* A tool call makes its change: what it writes was never the user's.
LEMMA ChangeStep ==
    ASSUME FilesInv, NEW r \in Run, NEW pl \in Place, NEW v \in Version, Change(r, pl, v)
    PROVE  FilesInv'
  <1> USE DEF FilesInv, UndoInv
  <1>1. /\ call[r].stage = "ready" /\ newest' = newest + 1 /\ (v = newest + 1 \/ v = 0)
        /\ UNCHANGED <<free, manifest, store, live, touching, restoring, phase, ending, undo, had, cut>>
    BY DEF Change, threads, history
  <1>2. disk' = [disk EXCEPT ![pl] = v] /\ call' = [call EXCEPT ![r] = NoCall]
    BY DEF Change
  <1>3. v \in Int /\ newest \in Int
    BY CheckpointsAssumption DEF Version, Shape
  <1>4. disk' \in [Place -> Int] /\ disk'[pl] = v /\ \A x \in Place \ {pl} : disk'[x] = disk[x]
    BY <1>2, <1>3 DEF Shape
  <1>5. call' \in [Run -> CallShape] /\ call'[r] = NoCall /\ \A s \in Run \ {r} : call'[s] = call[s]
    BY <1>2, NoCallShape DEF Shape
  <1>6. Shape'
    BY <1>1, <1>3, <1>4, <1>5 DEF Shape
  <1>7. SavesAlone' /\ Unrecorded'
    BY <1>1, <1>5, NoManifestShape, NoCallShape DEF SavesAlone, Unrecorded
  <1>8. UndoIsOfPast' /\ UndoIsUndisturbed'
    BY <1>1 DEF UndoIsOfPast, UndoIsUndisturbed, Putting, Undoing, Saved
  <1>9. v \notin free
    BY <1>1, <1>3 DEF Known
  <1>10. Known'
    <2>1. newest' >= 0 /\ \A w \in free : w > 0 /\ w <= newest'
      BY <1>1, <1>3 DEF Known, Shape
    <2>2. \A x \in Place : disk'[x] >= 0 /\ disk'[x] <= newest'
      BY <1>1, <1>3, <1>4 DEF Known, Shape
    <2>3. \A s \in Run, x \in Place : store[s][x] >= 0 /\ store[s][x] <= newest'
      BY <1>1, <1>3 DEF Known, Shape
    <2>4. \A s \in Run \ cut, x \in Place : manifest[s].now[x] <= newest'
      BY <1>1, <1>3 DEF Known, Shape, Manifests
    <2> QED
      BY <1>1, <2>1, <2>2, <2>3, <2>4 DEF Known
  <1>11. CallIsPlaced' /\ OwnThread'
    BY <1>1, <1>5, NoCallShape DEF CallIsPlaced, OwnThread, HasNothing
  <1>12. \A x \in Place : disk'[x] \in free => disk'[x] = disk[x]
    BY <1>4, <1>9
  <1>13. CopiesAreRight' /\ RecordsAreRight'
    BY <1>1, <1>12 DEF CopiesAreRight, RecordsAreRight, CopyIsRight, Covered, Saved
  <1> QED
    BY <1>6, <1>7, <1>8, <1>10, <1>11, <1>13

\* A run ends, or is stopped.
LEMMA RunEndsStep ==
    ASSUME FilesInv, NEW r \in Run, RunEnds(r)
    PROVE  FilesInv'
  <1> USE DEF FilesInv, UndoInv
  <1>1. /\ phase[r] = "running" /\ live' = live \ {r}
        /\ UNCHANGED <<disk, newest, free, manifest, store, restoring, undo, had>>
    BY DEF RunEnds, files
  <1>2. /\ touching' \in [Folder -> SUBSET Run] /\ \A f \in Folder : touching'[f] = touching[f] \ {r}
    BY DEF RunEnds, Shape
  <1>3. /\ phase' \in [Run -> {"new", "running", "finishing", "tidying", "over"}] /\ ending' \in [Run -> Manifests]
        /\ \A s \in Run \ {r} : phase'[s] = phase[s] /\ ending'[s] = ending[s]
        /\ \/ manifest[r].there = "yes" /\ phase'[r] = "finishing" /\ ending'[r] = manifest[r]
           \/ phase'[r] = "over" /\ ending'[r] = ending[r]
    <2>1. CASE r \in live /\ manifest[r].there = "yes"
      BY <2>1 DEF RunEnds, Shape
    <2>2. CASE ~(r \in live /\ manifest[r].there = "yes")
      BY <2>2 DEF RunEnds, Shape
    <2> QED
      BY <2>1, <2>2
  <1>4. /\ call' \in [Run -> CallShape] /\ \A s \in Run \ {r} : call'[s] = call[s]
        /\ \/ call[r].stage = "ready" /\ call'[r] = NoCall
           \/ call[r].stage # "ready" /\ call'[r] = call[r]
    BY NoCallShape DEF RunEnds, Shape
  <1>5. /\ cut' \subseteq Run /\ cut \subseteq cut' /\ cut' \subseteq cut \union {r}
        /\ r \in cut' \/ call[r].stage \notin {"queued", "saving"}
    BY DEF RunEnds, Shape
  <1>6. r \in cut' \/ call'[r].stage = "none"
    BY <1>4, <1>5, NoCallShape DEF Shape, CallShape
  <1>7. Shape'
    BY <1>1, <1>2, <1>3, <1>4, <1>5 DEF Shape
  <1>8. SavesAlone' /\ Unrecorded'
    BY <1>1, <1>3, <1>4, NoManifestShape, NoCallShape DEF SavesAlone, Unrecorded, Going
  <1>9. UndoIsOfPast'
    BY <1>1, <1>3 DEF UndoIsOfPast, Putting, Undoing, Shape, UndoShape
  <1>10. UndoIsUndisturbed'
    BY <1>1, <1>2 DEF UndoIsUndisturbed, UndoIsOfPast, Putting, Saved, Shape, Manifests
  <1>11. Known' /\ CallIsPlaced'
    BY <1>1, <1>4, <1>5, NoCallShape DEF Known, CallIsPlaced
  <1>12. OwnThread'
    BY <1>1, <1>3, <1>4, <1>5, <1>6 DEF OwnThread, HasNothing
  <1>13. CopiesAreRight'
    BY <1>1, <1>3, <1>5 DEF CopiesAreRight, CopyIsRight, Covered, Saved
  <1>14. RecordsAreRight'
    BY <1>1, <1>5 DEF RecordsAreRight
  <1> QED
    BY <1>7, <1>8, <1>9, <1>10, <1>11, <1>12, <1>13, <1>14

\* A run that goes on is not being put back.
LEMMA UndoneIsOver ==
    ASSUME FilesInv, Putting
    PROVE  /\ Undoing \in undo.chain /\ undo.chain \subseteq Run
           /\ \A r \in undo.chain \union {undo.asked} : r \in Run /\ phase[r] \in {"tidying", "over"}
  <1>1. undo.chain \in SUBSET Run /\ undo.chain # {} /\ undo.asked \in Run
    BY DEF FilesInv, UndoInv, Shape, UndoShape, UndoIsOfPast
  <1>2. Undoing \in undo.chain
    BY <1>1, NewestIsThere DEF Undoing
  <1> QED
    BY <1>1, <1>2 DEF FilesInv, UndoInv, UndoIsOfPast

\* The end of a run is recorded: what it lists was never the user's, and what existed has its copy.
LEMMA FinishRecordsStep ==
    ASSUME FilesInv, NEW r \in Run, FinishRecords(r)
    PROVE  FilesInv'
  <1> USE DEF FilesInv, UndoInv
  <1> DEFINE d == ending[r]
             listed == Listed(r, d)
             now == [pl \in Place |-> IF pl \in listed THEN disk[pl] ELSE 0]
             saved == [pl \in Place |-> IF pl \in listed THEN store[r][pl] ELSE 0]
             m == [d EXCEPT !.finished = Saved(d), !.listed = listed, !.now = now, !.saved = saved]
  <1>1. /\ phase[r] = "finishing" /\ manifest[r].there # "no"
        /\ UNCHANGED <<disk, newest, free, store, live, touching, restoring, call, undo, had, cut>>
    BY DEF FinishRecords, files, threads, history
  <1>2. manifest' = [manifest EXCEPT ![r] = m]
    BY DEF FinishRecords
  <1>3. phase' = [phase EXCEPT ![r] = "tidying"] /\ ending' = [ending EXCEPT ![r] = NoManifest]
    BY DEF FinishRecords
  <1>4. /\ d \in Manifests /\ Saved(d) \in SUBSET Folder /\ listed \in SUBSET Place
        /\ now \in [Place -> Int] /\ saved \in [Place -> Int]
    BY DEF Shape, Manifests, Saved, Listed, Changed
  <1>5. /\ m \in Manifests /\ m.listed = listed /\ m.now = now /\ m.saved = saved
    <2> DEFINE done == Saved(d)
    <2>1. m = [d EXCEPT !.finished = done, !.listed = listed, !.now = now, !.saved = saved]
      OBVIOUS
    <2> HIDE DEF d, done, listed, now, saved, m
    <2>2. done \in SUBSET Folder
      BY <1>4 DEF done
    <2> QED
      BY <1>4, <2>1, <2>2 DEF Manifests
  <1> HIDE DEF m
  <1>6. manifest' \in [Run -> Manifests] /\ manifest'[r] = m /\ \A s \in Run \ {r} : manifest'[s] = manifest[s]
    BY <1>2, <1>5 DEF Shape
  <1>7. /\ phase' \in [Run -> {"new", "running", "finishing", "tidying", "over"}] /\ ending' \in [Run -> Manifests]
        /\ phase'[r] = "tidying" /\ \A s \in Run \ {r} : phase'[s] = phase[s] /\ ending'[s] = ending[s]
    BY <1>3, NoManifestShape DEF Shape
  <1>8. Shape'
    BY <1>1, <1>6, <1>7 DEF Shape
  <1>9. SavesAlone' /\ Unrecorded'
    BY <1>1, <1>6, <1>7 DEF SavesAlone, Unrecorded, Going
  <1>10. UndoIsOfPast' /\ UndoIsUndisturbed'
    <2>1. Putting => Undoing # r /\ undo.asked # r /\ r \notin undo.chain /\ Undoing \in Run
      BY <1>1, UndoneIsOver
    <2>2. Undoing' = Undoing
      BY <1>1 DEF Undoing
    <2>3. UndoIsOfPast'
      BY <1>1, <1>6, <1>7, <2>1, <2>2, UndoneIsOver DEF UndoIsOfPast, Putting
    <2>4. UndoIsUndisturbed'
      BY <1>1, <1>6, <2>1, UndoneIsOver DEF UndoIsUndisturbed, Putting, Saved
    <2> QED
      BY <2>3, <2>4
  <1>11. Known'
    <2>1. \A x \in Place : m.now[x] <= newest
      BY <1>5 DEF Known
    <2> QED
      BY <1>1, <1>6, <2>1 DEF Known
  <1>12. CallIsPlaced' /\ OwnThread'
    BY <1>1, <1>6, <1>7 DEF CallIsPlaced, OwnThread, HasNothing
  <1>13. CopiesAreRight'
    BY <1>1, <1>6, <1>7 DEF CopiesAreRight, CopyIsRight, Covered, Saved
  <1>14. ASSUME r \notin cut, NEW x \in listed
         PROVE  now[x] \notin free /\ (x \in had[r] => saved[x] # 0)
    <2>1. CopyIsRight(r, d)
      BY <1>1, <1>14 DEF CopiesAreRight
    <2>2. x \in Place /\ Covered(d, x) /\ store[r][x] # disk[x] /\ (store[r][x] # 0 \/ d.unsaved[x] = 0)
      BY DEF Listed, Changed, Covered
    <2>3. disk[x] \notin free /\ (x \in had[r] => store[r][x] # 0)
      <3> HIDE DEF d
      <3> QED
        BY <2>1, <2>2 DEF CopyIsRight
    <2> QED
      BY <2>2, <2>3
  <1>15. RecordsAreRight'
    <2> HIDE DEF listed, now, saved
    <2> QED
      BY <1>1, <1>5, <1>6, <1>14 DEF RecordsAreRight
  <1> QED
    BY <1>8, <1>9, <1>10, <1>11, <1>12, <1>13, <1>15

\* The end of a run is not recorded.
LEMMA FinishFailsStep ==
    ASSUME FilesInv, NEW r \in Run, FinishFails(r)
    PROVE  FilesInv'
  <1> USE DEF FilesInv, UndoInv
  <1>1. /\ phase[r] = "finishing"
        /\ UNCHANGED <<disk, newest, free, manifest, store, live, touching, restoring, call, undo, had, cut>>
    BY DEF FinishFails, files, threads, history
  <1>2. phase' = [phase EXCEPT ![r] = "over"] /\ ending' = [ending EXCEPT ![r] = NoManifest]
    BY DEF FinishFails
  <1>3. /\ phase' \in [Run -> {"new", "running", "finishing", "tidying", "over"}] /\ ending' \in [Run -> Manifests]
        /\ phase'[r] = "over" /\ \A s \in Run \ {r} : phase'[s] = phase[s] /\ ending'[s] = ending[s]
    BY <1>2, NoManifestShape DEF Shape
  <1>4. Shape' /\ SavesAlone' /\ Unrecorded'
    BY <1>1, <1>3 DEF Shape, SavesAlone, Unrecorded, Going
  <1>5. UndoIsOfPast' /\ UndoIsUndisturbed'
    BY <1>1, <1>3, UndoneIsOver DEF UndoIsOfPast, UndoIsUndisturbed, Putting, Undoing, Saved
  <1>6. Known' /\ CallIsPlaced' /\ OwnThread' /\ RecordsAreRight'
    BY <1>1, <1>3 DEF Known, CallIsPlaced, OwnThread, HasNothing, RecordsAreRight
  <1>7. CopiesAreRight'
    BY <1>1, <1>3 DEF CopiesAreRight, CopyIsRight, Covered, Saved
  <1> QED
    BY <1>4, <1>5, <1>6, <1>7

\* Old copies are dropped: none of a run that goes on.
LEMMA TidyStep ==
    ASSUME FilesInv, NEW r \in Run, NEW gone \in SUBSET Run, Tidy(r, gone)
    PROVE  FilesInv'
  <1> USE DEF FilesInv, UndoInv
  <1>1. /\ phase[r] = "tidying" /\ restoring = "free" /\ \A s \in gone : s \notin live /\ s # r
        /\ UNCHANGED <<disk, newest, free, live, touching, restoring, call, ending, undo, had, cut>>
    BY DEF Tidy, files, threads, history
  <1>2. /\ manifest' \in [Run -> Manifests] /\ store' \in [Run -> [Place -> Int]]
        /\ \A s \in gone : manifest'[s] = NoManifest /\ store'[s] = Nowhere
        /\ \A s \in Run \ gone : manifest'[s] = manifest[s] /\ store'[s] = store[s]
    BY NoManifestShape, NowhereShape DEF Tidy, Shape
  <1>3. /\ phase' \in [Run -> {"new", "running", "finishing", "tidying", "over"}]
        /\ phase'[r] = "over" /\ \A s \in Run \ {r} : phase'[s] = phase[s]
    BY DEF Tidy, Shape
  <1>4. Shape'
    BY <1>1, <1>2, <1>3 DEF Shape
  <1>5. SavesAlone' /\ Unrecorded'
    BY <1>1, <1>2, <1>3, NoManifestShape DEF SavesAlone, Unrecorded, Going
  <1>6. UndoIsOfPast' /\ UndoIsUndisturbed'
    BY <1>1 DEF UndoIsOfPast, UndoIsUndisturbed, Putting
  <1>7. Known'
    <2>1. \A s \in Run, x \in Place : store'[s][x] >= 0 /\ store'[s][x] <= newest
      BY <1>2, NowhereShape DEF Known
    <2>2. \A s \in Run \ cut, x \in Place : manifest'[s].now[x] <= newest
      BY <1>2, NoManifestShape DEF Known
    <2> QED
      BY <1>1, <2>1, <2>2 DEF Known
  <1>8. CallIsPlaced' /\ OwnThread'
    BY <1>1, <1>2, <1>3, NoManifestShape DEF CallIsPlaced, OwnThread, HasNothing, SavesAlone
  <1>9. ASSUME NEW s \in Run \ cut, phase'[s] \in {"new", "running"}
        PROVE  CopyIsRight(s, manifest[s])'
    <2>1. phase[s] \in {"new", "running"} /\ s # r
      BY <1>3, <1>9
    <2>2. CASE s \notin gone
      BY <1>1, <1>2, <2>1, <2>2 DEF CopiesAreRight, CopyIsRight, Covered, Saved
    <2>3. CASE s \in gone
      <3>1. had'[s] = {}
        BY <1>1, <2>1, <2>3 DEF OwnThread, HasNothing
      <3>2. /\ manifest'[s].roots = {} /\ manifest'[s].written = {} /\ manifest'[s].skipped = {}
            /\ \A pl \in Place : store'[s][pl] = 0
        BY <1>2, <2>3, NoManifestShape, NowhereShape
      <3>3. \A pl \in Place : FolderOf(pl) \notin Saved(manifest'[s])
        BY <3>2 DEF Saved
      <3>4. \A pl : pl \notin manifest'[s].written /\ pl \notin had'[s]
        BY <3>1, <3>2
      <3> QED
        BY <3>2, <3>3, <3>4, EmptyCopy
    <2> QED
      BY <2>2, <2>3
  <1>10. ASSUME NEW s \in Run \ cut, phase'[s] = "finishing", manifest'[s].there # "no"
         PROVE  CopyIsRight(s, ending[s])'
    <2>1. phase[s] = "finishing" /\ s \notin gone
      BY <1>2, <1>3, <1>10, NoManifestShape
    <2> QED
      BY <1>1, <1>2, <1>10, <2>1 DEF CopiesAreRight, CopyIsRight, Covered, Saved
  <1>11. CopiesAreRight'
    BY <1>1, <1>9, <1>10 DEF CopiesAreRight
  <1>12. RecordsAreRight'
    BY <1>1, <1>2, NoManifestShape DEF RecordsAreRight
  <1> QED
    BY <1>4, <1>5, <1>6, <1>7, <1>8, <1>11, <1>12

-----------------------------------------------------------------------------
(* Putting back, the user, and the process's death. *)

\* An undo begins: only runs that recorded their end are put back.
LEMMA RestoreBeginsStep ==
    ASSUME FilesInv, NEW r \in Run, RestoreBegins(r)
    PROVE  FilesInv'
  <1> USE DEF FilesInv, UndoInv
  <1> DEFINE chain == Later(r, Saved(manifest[r])) \union {r}
             todo == Todo(Max(chain))
  <1>1. /\ restoring = "free" /\ ~Refused(r) /\ restoring' = "restore"
        /\ UNCHANGED <<disk, newest, free, manifest, store, live, touching, phase, call, ending, had, cut>>
    BY DEF RestoreBegins, files, history
  <1>2. undo' = [NoUndo EXCEPT !.asked = r, !.chain = chain, !.todo = todo]
    BY DEF RestoreBegins
  <1>3. chain \subseteq Run /\ chain # {}
    BY CheckpointsAssumption DEF Later, Run
  <1>4. ASSUME NEW s \in chain
        PROVE  manifest[s].there = "yes" /\ phase[s] \in {"tidying", "over"}
    <2>1. manifest[s].there = "yes" /\ Saved(manifest[s]) # {}
      BY <1>1 DEF Later, Refused
    <2>2. Saved(manifest[s]) \subseteq manifest[s].finished
      BY <1>1 DEF Refused
    <2>3. manifest[s].finished # {}
      BY <2>1, <2>2
    <2> QED
      BY <1>3, <2>1, <2>3 DEF Unrecorded, Going, Shape
  <1>5. \A f \in Saved(manifest[r]) : touching[f] = {}
    BY <1>1 DEF Refused
  <1> HIDE DEF chain
  <1>6. Max(chain) \in chain
    BY <1>3, NewestIsThere
  <1>7. todo \subseteq manifest[Max(chain)].listed /\ todo \in SUBSET Place
    BY <1>3, <1>6 DEF Todo, Shape, Manifests
  <1> HIDE DEF todo
  <1>8. undo' \in UndoShape /\ undo'.asked = r /\ undo'.chain = chain /\ undo'.todo = todo
    <2>1. chain \in SUBSET Run /\ todo \in SUBSET Place
      BY <1>3, <1>7
    <2> QED
      BY <1>2, <2>1 DEF NoUndo, UndoShape
  <1>9. Shape' /\ SavesAlone' /\ Unrecorded'
    BY <1>1, <1>8 DEF Shape, SavesAlone, Unrecorded
  <1>10. Undoing' = Max(chain)
    BY <1>8 DEF Undoing
  <1>11. r \in chain
    BY DEF chain
  <1>12. UndoIsOfPast'
    BY <1>1, <1>3, <1>4, <1>7, <1>8, <1>10, <1>11 DEF UndoIsOfPast
  <1>13. UndoIsUndisturbed'
    BY <1>1, <1>4, <1>5, <1>8 DEF UndoIsUndisturbed, Saved
  <1>14. Known' /\ CallIsPlaced' /\ OwnThread' /\ RecordsAreRight'
    BY <1>1 DEF Known, CallIsPlaced, OwnThread, HasNothing, RecordsAreRight
  <1>15. CopiesAreRight'
    BY <1>1 DEF CopiesAreRight, CopyIsRight, Covered, Saved
  <1> QED
    BY <1>9, <1>12, <1>13, <1>14, <1>15

\* A run that has saved a place and goes on has its folder open.
LEMMA CoveredIsOpen ==
    ASSUME FilesInv, NEW r \in Run \ cut, NEW pl \in Place,
           \/ phase[r] \in {"new", "running"} /\ Covered(manifest[r], pl)
           \/ phase[r] = "finishing"
    PROVE  Open(FolderOf(pl))
  BY DEF FilesInv, OwnThread, HasNothing, Covered, Saved, Open

\* A step that writes one place, and not what is the user's while a run has the folder open, keeps
\* the copies right.
LEMMA OneWrite ==
    ASSUME FilesInv, NEW pl \in Place, \A x \in Place \ {pl} : disk'[x] = disk[x] /\ (disk[x] \in free' => disk[x] \in free),
           (disk'[pl] = disk[pl] /\ free' = free) \/ (Open(FolderOf(pl)) => disk'[pl] \notin free'),
           UNCHANGED <<manifest, store, phase, ending, had, cut>>
    PROVE  CopiesAreRight'
  <1> USE DEF FilesInv, UndoInv
  <1>1. ASSUME NEW r \in Run \ cut, NEW m, CopyIsRight(r, m), NEW x \in Place,
               Covered(m, x) => Open(FolderOf(x)), Covered(m, x), disk'[x] \in free'
        PROVE  disk'[x] = disk[x] /\ disk[x] \in free
    BY <1>1
  <1>2. ASSUME NEW r \in Run \ cut, NEW m, CopyIsRight(r, m), \A x \in Place : Covered(m, x) => Open(FolderOf(x))
        PROVE  CopyIsRight(r, m)'
    <2>1. \A x \in Place : Covered(m, x) /\ disk'[x] \in free' => disk'[x] = disk[x] /\ disk[x] \in free
      BY <1>1, <1>2
    <2> QED
      BY <1>2, <2>1 DEF CopyIsRight, Covered, Saved
  <1>3. ASSUME NEW r \in Run \ cut, phase[r] \in {"new", "running"}
        PROVE  CopyIsRight(r, manifest[r])'
    <2>1. PICK m : m = manifest[r]
      OBVIOUS
    <2>2. CopyIsRight(r, m) /\ \A x \in Place : Covered(m, x) => Open(FolderOf(x))
      BY <1>3, <2>1, CoveredIsOpen DEF CopiesAreRight
    <2>3. CopyIsRight(r, m)'
      BY <1>2, <2>2
    <2> QED
      BY <2>1, <2>3 DEF CopyIsRight, Covered, Saved
  <1>4. ASSUME NEW r \in Run \ cut, phase[r] = "finishing", manifest[r].there # "no"
        PROVE  CopyIsRight(r, ending[r])'
    <2>1. PICK m : m = ending[r]
      OBVIOUS
    <2>2. CopyIsRight(r, m) /\ \A x \in Place : Covered(m, x) => Open(FolderOf(x))
      BY <1>4, <2>1, CoveredIsOpen DEF CopiesAreRight
    <2>3. CopyIsRight(r, m)'
      BY <1>2, <2>2
    <2> QED
      BY <2>1, <2>3 DEF CopyIsRight, Covered, Saved
  <1> QED
    BY <1>3, <1>4 DEF CopiesAreRight

\* The user writes or deletes a file.
LEMMA UserChangesStep ==
    ASSUME FilesInv, NEW pl \in Place, NEW v \in Version, UserChanges(pl, v)
    PROVE  FilesInv'
  <1> USE DEF FilesInv, UndoInv
  <1>1. /\ newest' = newest + 1 /\ (v = newest + 1 \/ v = 0)
        /\ UNCHANGED <<manifest, store, live, touching, restoring, phase, call, ending, undo, had, cut>>
    BY DEF UserChanges, threads, history
  <1>2. disk' = [disk EXCEPT ![pl] = v]
    BY DEF UserChanges
  <1>3. free' = free \/ (v = newest + 1 /\ ~Open(FolderOf(pl)) /\ free' = free \union {v})
    BY <1>1 DEF UserChanges
  <1>4. v \in Int /\ newest \in Int
    BY CheckpointsAssumption DEF Version, Shape
  <1>5. disk' \in [Place -> Int] /\ disk'[pl] = v /\ \A x \in Place \ {pl} : disk'[x] = disk[x]
    BY <1>2, <1>4 DEF Shape
  <1>6. Shape' /\ SavesAlone' /\ Unrecorded'
    <2>1. free' \in SUBSET Int
      BY <1>3, <1>4 DEF Shape
    <2> QED
      BY <1>1, <1>4, <1>5, <2>1 DEF Shape, SavesAlone, Unrecorded
  <1>7. UndoIsOfPast' /\ UndoIsUndisturbed'
    BY <1>1 DEF UndoIsOfPast, UndoIsUndisturbed, Putting, Undoing, Saved
  <1>8. v \notin free
    BY <1>1, <1>4 DEF Known
  <1>9. Known'
    <2>1. newest' >= 0 /\ \A w \in free' : w > 0 /\ w <= newest'
      <3>1. newest >= 0 /\ \A w \in free : w \in Int /\ w > 0 /\ w <= newest
        BY DEF Known, Shape
      <3>2. \A w \in free' : w \in free \/ w = newest + 1
        BY <1>3
      <3> QED
        BY <1>1, <1>4, <3>1, <3>2
    <2>2. \A x \in Place : disk'[x] >= 0 /\ disk'[x] <= newest'
      BY <1>1, <1>4, <1>5 DEF Known, Shape
    <2>3. \A s \in Run, x \in Place : store[s][x] >= 0 /\ store[s][x] <= newest'
      BY <1>1, <1>4 DEF Known, Shape
    <2>4. \A s \in Run \ cut, x \in Place : manifest[s].now[x] <= newest'
      BY <1>1, <1>4 DEF Known, Shape, Manifests
    <2> QED
      BY <1>1, <2>1, <2>2, <2>3, <2>4 DEF Known
  <1>10. CallIsPlaced' /\ OwnThread'
    BY <1>1 DEF CallIsPlaced, OwnThread, HasNothing
  <1>11. CopiesAreRight'
    <2>1. \A x \in Place \ {pl} : disk'[x] = disk[x] /\ (disk[x] \in free' => disk[x] \in free)
      BY <1>3, <1>4, <1>5 DEF Known, Shape
    <2>2. Open(FolderOf(pl)) => disk'[pl] \notin free'
      BY <1>3, <1>5, <1>8
    <2>3. UNCHANGED <<manifest, store, phase, ending, had, cut>>
      BY <1>1
    <2> QED
      BY <2>1, <2>2, <2>3, OneWrite
  <1>12. RecordsAreRight'
    <2>1. \A s \in Run \ cut : \A x \in manifest[s].listed : manifest[s].now[x] \notin free'
      <3>1. \A s \in Run : \A x \in manifest[s].listed : x \in Place /\ manifest[s].now[x] \in Int
        BY DEF Shape, Manifests
      <3> QED
        BY <1>3, <1>4, <3>1 DEF RecordsAreRight, Known
    <2> QED
      BY <1>1, <2>1 DEF RecordsAreRight
  <1> QED
    BY <1>6, <1>7, <1>9, <1>10, <1>11, <1>12

\* The process dies: what is on disk stays, every run that went on is over.
LEMMA CrashStep ==
    ASSUME FilesInv, Crash
    PROVE  FilesInv'
  <1> USE DEF FilesInv, UndoInv
  <1>1. /\ live' = {} /\ restoring' = "free" /\ undo' = NoUndo
        /\ UNCHANGED <<disk, newest, free, manifest, store, had, cut>>
    BY DEF Crash, files, history
  <1>2. /\ touching' \in [Folder -> SUBSET Run] /\ ending' \in [Run -> Manifests]
        /\ phase' \in [Run -> {"new", "running", "finishing", "tidying", "over"}]
        /\ \A s \in Run : phase'[s] = (IF phase[s] = "new" THEN "new" ELSE "over")
    BY NoManifestShape DEF Crash, Shape
  <1>3. call' \in [Run -> CallShape] /\ \A s \in Run : call'[s] = NoCall
    BY NoCallShape DEF Crash
  <1>4. Shape'
    BY <1>1, <1>2, <1>3, NoUndoShape DEF Shape
  <1>5. SavesAlone' /\ Unrecorded'
    BY <1>1, <1>2, <1>3, NoCallShape, NoManifestShape DEF SavesAlone, Unrecorded, Going
  <1>6. UndoIsOfPast' /\ UndoIsUndisturbed'
    BY <1>1 DEF UndoIsOfPast, UndoIsUndisturbed, Putting
  <1>7. Known' /\ CallIsPlaced' /\ RecordsAreRight'
    BY <1>1, <1>3, NoCallShape DEF Known, CallIsPlaced, RecordsAreRight
  <1>8. OwnThread'
    BY <1>1, <1>2, <1>3, NoCallShape DEF OwnThread, HasNothing
  <1>9. CopiesAreRight'
    BY <1>1, <1>2 DEF CopiesAreRight, CopyIsRight, Covered, Saved
  <1> QED
    BY <1>4, <1>5, <1>6, <1>7, <1>8, <1>9

\* A path goes back: it is left alone, or it is as its run left it and the run's copy takes its place.
LEMMA PutBackWrites ==
    ASSUME FilesInv, NEW pl \in Place, NEW ok \in BOOLEAN, PutBack(pl, ok)
    PROVE  /\ Putting /\ pl \in undo.todo /\ Undoing \in Run /\ disk' \in [Place -> Int]
           /\ \A x \in Place \ {pl} : disk'[x] = disk[x]
           /\ \/ disk' = disk /\ free' = free
              \/ /\ disk[pl] = manifest[Undoing].now[pl] /\ disk'[pl] = manifest[Undoing].saved[pl]
                 /\ manifest[Undoing].saved[pl] = store[Undoing][pl]
                 /\ \/ ~Open(FolderOf(pl)) /\ free' = free
                    \/ Open(FolderOf(pl)) /\ free' = free \ {manifest[Undoing].saved[pl]}
  <1> DEFINE r == Undoing
             new == manifest[r].saved[pl]
  <1>1. Putting /\ pl \in undo.todo
    BY DEF PutBack, Putting
  <1>2. r \in Run
    BY <1>1, UndoneIsOver
  <1>3. \/ disk' = disk /\ free' = free
        \/ /\ disk[pl] = manifest[r].now[pl] /\ disk' = [disk EXCEPT ![pl] = new] /\ new = store[r][pl]
           /\ \/ ~Open(FolderOf(pl)) /\ free' = free
              \/ Open(FolderOf(pl)) /\ free' = free \ {new}
    BY Zenon DEF PutBack
  <1>4. new \in Int /\ disk \in [Place -> Int]
    BY <1>2 DEF FilesInv, UndoInv, Shape, Manifests
  <1> HIDE DEF r, new
  <1>5. /\ disk' \in [Place -> Int] /\ \A x \in Place \ {pl} : disk'[x] = disk[x]
        /\ disk' = disk \/ disk'[pl] = new
    BY <1>3, <1>4
  <1>6. \/ disk' = disk /\ free' = free
        \/ /\ disk[pl] = manifest[r].now[pl] /\ disk'[pl] = new /\ new = store[r][pl]
           /\ \/ ~Open(FolderOf(pl)) /\ free' = free
              \/ Open(FolderOf(pl)) /\ free' = free \ {new}
    BY <1>3, <1>4
  <1> QED
    BY <1>1, <1>2, <1>5, <1>6, Zenon DEF r, new

\* A path goes back.
LEMMA PutBackStep ==
    ASSUME FilesInv, NEW pl \in Place, NEW ok \in BOOLEAN, PutBack(pl, ok)
    PROVE  FilesInv'
  <1> USE DEF FilesInv, UndoInv
  <1> DEFINE asLeft == disk[pl] = manifest[Undoing].now[pl]
             done == asLeft /\ ok /\ store[Undoing][pl] = manifest[Undoing].saved[pl]
             back == IF done THEN undo.back \union {pl} ELSE undo.back
             failed == undo.failed \/ (asLeft /\ ~done)
             new == manifest[Undoing].saved[pl]
  <1>1. UNCHANGED <<newest, manifest, store, live, touching, restoring, phase, call, ending, had, cut>>
    BY DEF PutBack, threads, history
  <1>2. undo' = [undo EXCEPT !.todo = undo.todo \ {pl}, !.back = back, !.failed = failed]
    BY DEF PutBack
  <1>3. back \in SUBSET Place
    <2>1. undo.back \in SUBSET Place
      BY DEF Shape, UndoShape
    <2>2. back = undo.back \/ back = undo.back \union {pl}
      BY Zenon
    <2> HIDE DEF back
    <2> QED
      BY <2>1, <2>2
  <1>4. failed \in BOOLEAN
    BY Zenon
  <1>5. /\ Putting /\ pl \in undo.todo /\ Undoing \in Run /\ disk' \in [Place -> Int]
        /\ \A x \in Place \ {pl} : disk'[x] = disk[x]
        /\ \/ disk' = disk /\ free' = free
           \/ /\ disk'[pl] = new /\ new = store[Undoing][pl]
              /\ \/ ~Open(FolderOf(pl)) /\ free' = free
                 \/ Open(FolderOf(pl)) /\ free' = free \ {new}
    BY PutBackWrites, Zenon
  <1> HIDE DEF asLeft, done, back, failed, new
  <1>6. /\ undo' \in UndoShape /\ undo'.asked = undo.asked /\ undo'.chain = undo.chain
        /\ undo'.todo = undo.todo \ {pl}
    BY <1>2, <1>3, <1>4 DEF Shape, UndoShape
  <1>7. Shape' /\ SavesAlone' /\ Unrecorded'
    <2>1. free' \in SUBSET Int
      BY <1>5 DEF Shape
    <2> QED
      BY <1>1, <1>5, <1>6, <2>1 DEF Shape, SavesAlone, Unrecorded
  <1>8. UndoIsOfPast' /\ UndoIsUndisturbed'
    <2>1. Undoing' = Undoing
      BY <1>6 DEF Undoing
    <2> QED
      BY <1>1, <1>6, <2>1 DEF UndoIsOfPast, UndoIsUndisturbed, Putting, Saved
  <1>9. Known'
    <2>1. \A w \in free' : w \in free
      BY <1>5
    <2>2. disk'[pl] >= 0 /\ disk'[pl] <= newest
      BY <1>5 DEF Known
    <2>3. \A x \in Place : disk'[x] >= 0 /\ disk'[x] <= newest
      BY <1>5, <2>2 DEF Known
    <2> QED
      BY <1>1, <2>1, <2>3 DEF Known
  <1>10. CallIsPlaced' /\ OwnThread'
    BY <1>1 DEF CallIsPlaced, OwnThread, HasNothing
  <1>11. CopiesAreRight'
    <2>1. \A x \in Place \ {pl} : disk'[x] = disk[x] /\ (disk[x] \in free' => disk[x] \in free)
      BY <1>5
    <2>2. (disk'[pl] = disk[pl] /\ free' = free) \/ (Open(FolderOf(pl)) => disk'[pl] \notin free')
      BY <1>5
    <2>3. UNCHANGED <<manifest, store, phase, ending, had, cut>>
      BY <1>1
    <2> QED
      BY <2>1, <2>2, <2>3, OneWrite
  <1>12. RecordsAreRight'
    BY <1>1, <1>5 DEF RecordsAreRight
  <1> QED
    BY <1>7, <1>8, <1>9, <1>10, <1>11, <1>12

\* A run of the chain is put back, and the next one follows.
LEMMA RestoreRunEndsStep ==
    ASSUME FilesInv, RestoreRunEnds
    PROVE  FilesInv'
  <1> USE DEF FilesInv, UndoInv
  <1> DEFINE r == Undoing
             rest == undo.chain \ {r}
             done == manifest[r].done \union {RelOf(pl) : pl \in undo.back}
             restored == manifest[r].restored \/ ~undo.failed
             m == [manifest[r] EXCEPT !.done = done, !.restored = restored]
             todo == Todo(Max(rest))
             next == [undo EXCEPT !.chain = rest, !.todo = todo, !.back = {}, !.failed = FALSE]
  <1>1. /\ Putting /\ UNCHANGED <<disk, newest, free, store, live, touching, phase, call, ending, had, cut>>
    BY DEF RestoreRunEnds, files, history, Putting
  <1>2. r \in undo.chain /\ r \in Run /\ phase[r] \in {"tidying", "over"} /\ rest \in SUBSET Run
    BY <1>1, UndoneIsOver
  <1>3. manifest' = [manifest EXCEPT ![r] = m]
    BY <1>2 DEF RestoreRunEnds, Shape
  <1>4. \/ rest = {} /\ restoring' = "free" /\ undo' = NoUndo
        \/ rest # {} /\ restoring' = restoring /\ undo' = next
    BY DEF RestoreRunEnds
  <1>5. done \in SUBSET Rel
    BY <1>2 DEF Shape, Manifests, UndoShape, Rel
  <1>6. restored \in BOOLEAN
    BY Zenon
  <1>7. /\ m \in Manifests /\ m.there = manifest[r].there /\ m.roots = manifest[r].roots
        /\ m.skipped = manifest[r].skipped /\ m.finished = manifest[r].finished
        /\ m.listed = manifest[r].listed /\ m.now = manifest[r].now /\ m.saved = manifest[r].saved
    <2>1. manifest[r] \in Manifests
      BY <1>2 DEF Shape
    <2> HIDE DEF done, restored, r
    <2> QED
      BY <1>5, <1>6, <2>1 DEF Manifests
  <1> HIDE DEF r, m, done, restored, rest, todo
  <1>8. manifest' \in [Run -> Manifests] /\ manifest'[r] = m /\ \A s \in Run \ {r} : manifest'[s] = manifest[s]
    BY <1>2, <1>3, <1>7 DEF Shape
  <1>9. ASSUME NEW s \in Run
        PROVE  /\ manifest'[s].there = manifest[s].there /\ manifest'[s].roots = manifest[s].roots
               /\ manifest'[s].skipped = manifest[s].skipped /\ manifest'[s].finished = manifest[s].finished
               /\ manifest'[s].listed = manifest[s].listed /\ manifest'[s].now = manifest[s].now
               /\ manifest'[s].saved = manifest[s].saved
    BY <1>7, <1>8
  <1>10. ASSUME rest # {}
         PROVE  /\ Max(rest) \in rest /\ todo \in SUBSET Place /\ todo \subseteq manifest[Max(rest)].listed
    <2>1. Max(rest) \in rest
      BY <1>2, <1>10, NewestIsThere
    <2> QED
      BY <1>2, <2>1 DEF todo, Todo, Shape, Manifests
  <1>11. rest # {} => /\ next \in UndoShape /\ next.asked = undo.asked /\ next.chain = rest /\ next.todo = todo
    BY <1>2, <1>10 DEF Shape, UndoShape
  <1> HIDE DEF next
  <1>12. undo' \in UndoShape /\ rest \subseteq undo.chain
    BY <1>4, <1>11, NoUndoShape DEF rest
  <1>13. Shape' /\ SavesAlone'
    BY <1>1, <1>4, <1>8, <1>12 DEF Shape, SavesAlone, Putting
  <1>14. Unrecorded'
    BY <1>1, <1>9 DEF Unrecorded
  <1>15. Putting' => rest # {} /\ undo'.asked = undo.asked /\ undo'.chain = rest /\ undo'.todo = todo /\ Undoing' = Max(rest)
    BY <1>4, <1>11 DEF Putting, Undoing
  <1>16. UndoIsOfPast'
    BY <1>1, <1>2, <1>9, <1>10, <1>12, <1>15 DEF UndoIsOfPast
  <1>17. UndoIsUndisturbed'
    <2>1. undo.asked \in Run
      BY <1>1 DEF UndoIsOfPast
    <2> QED
      BY <1>1, <1>2, <1>9, <1>12, <1>15, <2>1 DEF UndoIsUndisturbed, Saved
  <1>18. Known' /\ CallIsPlaced' /\ RecordsAreRight'
    BY <1>1, <1>9 DEF Known, CallIsPlaced, RecordsAreRight
  <1>19. OwnThread'
    BY <1>1, <1>2, <1>8 DEF OwnThread, HasNothing, SavesAlone, Putting
  <1>20. CopiesAreRight'
    BY <1>1, <1>2, <1>8 DEF CopiesAreRight, CopyIsRight, Covered, Saved
  <1> QED
    BY <1>13, <1>14, <1>16, <1>17, <1>18, <1>19, <1>20

-----------------------------------------------------------------------------
(* The theorems. *)

\* At the start nothing is saved and nothing goes on.
LEMMA FilesInit ==
    Init => FilesInv
  <1> SUFFICES ASSUME Init PROVE FilesInv
    OBVIOUS
  <1>1. /\ newest = 1 /\ free = {1} /\ live = {} /\ restoring = "free" /\ undo = NoUndo /\ cut = {}
        /\ disk \in [Place -> Int] /\ \A pl \in Place : disk[pl] = 0 \/ disk[pl] = 1
    BY DEF Init
  <1>2. /\ manifest \in [Run -> Manifests] /\ \A r \in Run : manifest[r] = NoManifest
        /\ ending \in [Run -> Manifests]
    BY NoManifestShape DEF Init
  <1>3. /\ store \in [Run -> [Place -> Int]] /\ \A r \in Run : store[r] = Nowhere
    BY NowhereShape DEF Init
  <1>4. call \in [Run -> CallShape] /\ \A r \in Run : call[r] = NoCall
    BY NoCallShape DEF Init
  <1>5. /\ touching \in [Folder -> SUBSET Run] /\ phase \in [Run -> {"new"}]
        /\ had \in [Run -> {{}}] /\ \A r \in Run : phase[r] = "new" /\ had[r] = {}
    BY DEF Init
  <1>6. Shape
    BY <1>1, <1>2, <1>3, <1>4, <1>5, NoUndoShape DEF Shape
  <1>7. SavesAlone /\ Unrecorded
    BY <1>2, <1>4, <1>5, NoCallShape, NoManifestShape DEF SavesAlone, Unrecorded
  <1>8. UndoIsOfPast /\ UndoIsUndisturbed
    BY <1>1 DEF UndoIsOfPast, UndoIsUndisturbed, Putting
  <1>9. Known
    BY <1>1, <1>2, <1>3, NoManifestShape, NowhereShape DEF Known
  <1>10. CallIsPlaced /\ OwnThread
    BY <1>2, <1>4, <1>5, NoCallShape, NoManifestShape DEF CallIsPlaced, OwnThread, HasNothing
  <1>11. CopiesAreRight
    BY <1>2, <1>3, <1>5, NoManifestShape, NowhereShape DEF CopiesAreRight, CopyIsRight, Covered, Saved
  <1>12. RecordsAreRight
    BY <1>2, NoManifestShape DEF RecordsAreRight
  <1> QED
    BY <1>6, <1>7, <1>8, <1>9, <1>10, <1>11, <1>12 DEF FilesInv, UndoInv

\* Nothing happens.
LEMMA FilesStutter ==
    ASSUME FilesInv, UNCHANGED vars
    PROVE  FilesInv'
  <1> USE DEF FilesInv, UndoInv, vars, files, threads, history
  <1>1. Shape' /\ SavesAlone' /\ Unrecorded'
    BY DEF Shape, SavesAlone, Unrecorded
  <1>2. UndoIsOfPast' /\ UndoIsUndisturbed'
    BY DEF UndoIsOfPast, UndoIsUndisturbed, Putting, Undoing, Saved
  <1>3. Known' /\ CallIsPlaced' /\ OwnThread' /\ RecordsAreRight'
    BY DEF Known, CallIsPlaced, OwnThread, HasNothing, RecordsAreRight
  <1>4. CopiesAreRight'
    BY DEF CopiesAreRight, CopyIsRight, Covered, Saved
  <1> QED
    BY <1>1, <1>2, <1>3, <1>4

\* Every step keeps the invariant.
LEMMA FilesStep ==
    FilesInv /\ [Next]_vars => FilesInv'
  <1> SUFFICES ASSUME FilesInv, [Next]_vars PROVE FilesInv'
    OBVIOUS
  <1>1. ASSUME NEW r \in Run, Begin(r) \/ EnsureBegins(r) \/ EnsureFails(r) \/ RunEnds(r)
        PROVE  FilesInv'
    BY <1>1, BeginStep, EnsureBeginsStep, EnsureFailsStep, RunEndsStep
  <1>2. ASSUME NEW r \in Run, NEW f \in Folder, NEW pl \in Place \union {NoPlace}, Ensure(r, f, pl)
        PROVE  FilesInv'
    BY <1>2, EnsureStep
  <1>3. ASSUME NEW r \in Run, NEW skip \in BOOLEAN, NEW lost \in SUBSET Place, EnsureSaves(r, skip, lost)
        PROVE  FilesInv'
    BY <1>3, EnsureSavesStep, Zenon
  <1>4. ASSUME NEW r \in Run, NEW pl \in Place, NEW v \in Version, Change(r, pl, v)
        PROVE  FilesInv'
    BY <1>4, ChangeStep
  <1>5. ASSUME NEW r \in Run, FinishRecords(r) \/ FinishFails(r)
        PROVE  FilesInv'
    BY <1>5, FinishRecordsStep, FinishFailsStep
  <1>6. ASSUME NEW r \in Run, NEW gone \in SUBSET Run, Tidy(r, gone)
        PROVE  FilesInv'
    BY <1>6, TidyStep
  <1>7. ASSUME NEW r \in Run, RestoreBegins(r)
        PROVE  FilesInv'
    BY <1>7, RestoreBeginsStep
  <1>8. ASSUME NEW pl \in Place, NEW ok \in BOOLEAN, PutBack(pl, ok)
        PROVE  FilesInv'
    BY <1>8, PutBackStep, Zenon
  <1>9. CASE RestoreRunEnds
    BY <1>9, RestoreRunEndsStep
  <1>10. ASSUME NEW pl \in Place, NEW v \in Version, UserChanges(pl, v)
         PROVE  FilesInv'
    BY <1>10, UserChangesStep
  <1>11. CASE Crash
    BY <1>11, CrashStep
  <1>12. CASE UNCHANGED vars
    BY <1>12, FilesStutter
  <1> QED
    BY <1>1, <1>2, <1>3, <1>4, <1>5, <1>6, <1>7, <1>8, <1>9, <1>10, <1>11, <1>12, Zenon DEF Next

\* While files go back no copy of the chain is dropped and no run changes the folders.
THEOREM UndosAreUndisturbed == Spec => []UndoIsUndisturbed
  <1>1. FilesInv => UndoIsUndisturbed
    BY DEF FilesInv, UndoInv
  <1> QED
    BY <1>1, FilesInit, FilesStep, PTL DEF Spec

\* Of the steps while files go back, only putting a path back changes both the undo and a file.
LEMMA OnlyPutBack ==
    ASSUME FilesInv, [Next]_vars, Putting, undo' # undo, NEW x \in Place, disk'[x] # disk[x]
    PROVE  \E ok \in BOOLEAN : PutBack(x, ok)
  <1>1. ~(UNCHANGED vars)
    BY DEF vars, files
  <1>2. ASSUME NEW r \in Run, Begin(r) \/ EnsureBegins(r) \/ EnsureFails(r) \/ RunEnds(r)
        PROVE  FALSE
    BY <1>2 DEF Begin, EnsureBegins, EnsureFails, RunEnds, files
  <1>3. ASSUME NEW r \in Run, NEW f \in Folder, NEW pl \in Place \union {NoPlace}, Ensure(r, f, pl)
        PROVE  FALSE
    BY <1>3 DEF Ensure, files
  <1>4. ASSUME NEW r \in Run, NEW skip \in BOOLEAN, NEW lost \in SUBSET Place, EnsureSaves(r, skip, lost)
        PROVE  FALSE
    BY <1>4 DEF EnsureSaves, files
  <1>5. ASSUME NEW r \in Run, NEW pl \in Place, NEW v \in Version, Change(r, pl, v)
        PROVE  FALSE
    BY <1>5 DEF Change
  <1>6. ASSUME NEW r \in Run, FinishRecords(r) \/ FinishFails(r)
        PROVE  FALSE
    BY <1>6 DEF FinishRecords, FinishFails, files
  <1>7. ASSUME NEW r \in Run, NEW gone \in SUBSET Run, Tidy(r, gone)
        PROVE  FALSE
    BY <1>7 DEF Tidy, files
  <1>8. ASSUME NEW r \in Run, RestoreBegins(r)
        PROVE  FALSE
    BY <1>8 DEF RestoreBegins, Putting
  <1>9. ASSUME NEW pl \in Place, NEW ok \in BOOLEAN, PutBack(pl, ok)
        PROVE  pl = x
    <2>1. \A y \in Place \ {pl} : disk'[y] = disk[y]
      BY <1>9, PutBackWrites, Zenon
    <2> QED
      BY <2>1
  <1>10. CASE RestoreRunEnds
    BY <1>10 DEF RestoreRunEnds, files
  <1>11. ASSUME NEW pl \in Place, NEW v \in Version, UserChanges(pl, v)
         PROVE  FALSE
    BY <1>11 DEF UserChanges
  <1>12. CASE Crash
    BY <1>12 DEF Crash, files
  <1> QED
    BY <1>1, <1>2, <1>3, <1>4, <1>5, <1>6, <1>7, <1>8, <1>9, <1>10, <1>11, <1>12, Zenon DEF Next

\* A path that is put back was as its run left it, which is nothing of the user's.
LEMMA PutBackIsRight ==
    ASSUME FilesInv, [Next]_vars, Putting, undo' # undo, NEW x \in Place, disk'[x] # disk[x], Undoing \notin cut
    PROVE  disk[x] \notin free /\ (disk'[x] = 0 => x \notin had[Undoing])
  <1>1. PICK ok \in BOOLEAN : PutBack(x, ok)
    BY OnlyPutBack, Zenon
  <1>2. /\ x \in undo.todo /\ Undoing \in Run
        /\ disk[x] = manifest[Undoing].now[x] /\ disk'[x] = manifest[Undoing].saved[x]
    <2>1. /\ x \in undo.todo /\ Undoing \in Run
          /\ disk' = disk \/ (disk[x] = manifest[Undoing].now[x] /\ disk'[x] = manifest[Undoing].saved[x])
      BY <1>1, PutBackWrites, Zenon
    <2> QED
      BY <2>1
  <1>3. x \in manifest[Undoing].listed
    BY <1>2 DEF FilesInv, UndoInv, UndoIsOfPast
  <1> QED
    BY <1>2, <1>3 DEF FilesInv, RecordsAreRight

\* An undo never takes away what the user wrote while no run had the folder open.
THEOREM UndoKeepsUserEdits == Spec => UserEditsStay
  <1>1. FilesInv /\ [Next]_vars =>
          [\A pl \in Place : Putting /\ undo' # undo /\ disk'[pl] # disk[pl] /\ Undoing \notin cut
             => disk[pl] \notin free]_vars
    BY PutBackIsRight
  <1> QED
    BY <1>1, FilesInit, FilesStep, PTL DEF Spec, UserEditsStay

\* What existed when a run saved the folder is never trashed as made by the run.
THEOREM UndoTrashesOnlyNew == Spec => OldIsNeverTrashed
  <1>1. FilesInv /\ [Next]_vars =>
          [\A pl \in Place : Putting /\ undo' # undo /\ disk[pl] # 0 /\ disk'[pl] = 0 /\ Undoing \notin cut
             => pl \notin had[Undoing]]_vars
    BY PutBackIsRight
  <1> QED
    BY <1>1, FilesInit, FilesStep, PTL DEF Spec, OldIsNeverTrashed
==============================================================================
