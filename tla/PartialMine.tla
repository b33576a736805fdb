---------------------------- MODULE PartialMine ----------------------------
(***************************************************************************)
(* mine_recipe for proofs (.bnp2): a run publishes two files, a partial    *)
(* representation with holes where the proof covers nothing, and then the  *)
(* coverage map that says which bytes are holes.  Both names are picked    *)
(* before the work begins, each by itself: the representation's name is    *)
(* guarded by its `.part` while the run fills it, the map's is not.  Runs  *)
(* of several processes over one directory are cancelled, fail and die at  *)
(* every step.                                                             *)
(***************************************************************************)
EXTENDS PartFiles, FiniteSets

CONSTANTS
  Miners,    \* processes that run mine_recipe, one run at a time each
  Proofs,    \* BNP2 recipes of one target name
  Suffix,    \* proof -> "raw" or "b64": ".partial.raw" or ".partial.b64rep"
  Covers,    \* proof -> chunks of the representation it covers
  Chunks,    \* chunks of the representation
  Serials,   \* 1, 2, ...: the name itself, _mined, _mined2, ...
  MaxRuns,   \* bound: runs per miner
  NoRecipe   \* nobody published this path

PartialMineAssumption ==
  /\ Paths = {"raw", "b64", "map"} \X Serials
  /\ Serials = 1 .. Cardinality(Serials) /\ 1 \in Serials
  /\ 1 \in Inodes /\ Inodes \subseteq Nat /\ NoFile \notin Inodes
  /\ Chunks \in Nat \ {0} /\ MaxRuns \in Nat \ {0}
  /\ Suffix \in [Proofs -> {"raw", "b64"}]
  /\ Covers \in [Proofs -> SUBSET (1 .. Chunks)]
  /\ NoRecipe \notin Proofs

VARIABLES
  pc,         \* per miner: the stage of its run
  recipe,     \* per miner: the proof of its run
  path,       \* per miner: rep_path
  map_path,   \* per miner: map_path
  fd,         \* per miner: the inode behind its file handle
  pos,        \* per miner: the last chunk written
  outcome,    \* per miner: how its last run ended
  runs,       \* per miner: runs started
  published,  \* history: path -> proof whose file was renamed onto it
  shared,     \* history: paths that two overlapping runs had both picked
  orphaned    \* history: paths of runs that were killed

miners  == <<pc, recipe, path, map_path, fd, pos, outcome, runs>>
history == <<shared, orphaned>>
vars    == <<files, miners, published, history>>

RepStages == {"open", "extend", "stream", "replace", "cleanup"}
MapStages == {"map_open", "map_write", "map_replace", "map_cleanup"}
Stages    == {"idle", "map_name"} \cup RepStages \cup MapStages

Goto(m, stage) == pc' = [pc EXCEPT ![m] = stage]

HeldBy(others) ==
  {fd[n] : n \in {m \in others : pc[m] \in {"extend", "stream", "map_write"}}}

\* The names a run has picked so far.
Picked(m) ==
  CASE pc[m] = "idle"     -> {}
    [] pc[m] = "map_name" -> {path[m]}
    [] OTHER              -> {path[m], map_path[m]}

\* _unique_output_path among the names of one kind.
FirstFree(ext, p) ==
  /\ p \in {ext} \X Serials
  /\ Free(p) /\ \A s \in Serials : s < p[2] => ~Free(<<ext, s>>)

NoteShared(m, p) ==
  shared' = shared \cup {q \in {p} : \E n \in Miners \ {m} : q \in Picked(n)}

\* The run's local variables are gone; a successful run has reported its output.
Leave(m, how) ==
  /\ Goto(m, "idle")
  /\ outcome' = [outcome EXCEPT ![m] = how]
  /\ IF how = "ok" THEN UNCHANGED <<recipe, path, map_path>>
     ELSE /\ recipe' = [recipe EXCEPT ![m] = NoRecipe]
          /\ path' = [path EXCEPT ![m] = <<"raw", 1>>]
          /\ map_path' = [map_path EXCEPT ![m] = <<"map", 1>>]
  /\ fd' = [fd EXCEPT ![m] = 1]
  /\ pos' = [pos EXCEPT ![m] = 0]

----------------------------------------------------------------------------
(* The partial representation.                                             *)

PickRep(m) ==
  /\ pc[m] = "idle" /\ runs[m] < MaxRuns
  /\ \E r \in Proofs, p \in Paths :
       /\ FirstFree(Suffix[r], p)
       /\ recipe' = [recipe EXCEPT ![m] = r]
       /\ path' = [path EXCEPT ![m] = p]
       /\ NoteShared(m, p)
  /\ runs' = [runs EXCEPT ![m] = @ + 1]
  /\ outcome' = [outcome EXCEPT ![m] = "running"]
  /\ Goto(m, "map_name")
  /\ UNCHANGED <<files, map_path, fd, pos, published, orphaned>>

PickMap(m) ==
  /\ pc[m] = "map_name"
  /\ \E p \in Paths :
       /\ FirstFree("map", p)
       /\ map_path' = [map_path EXCEPT ![m] = p]
       /\ NoteShared(m, p)
  /\ Goto(m, "open")
  /\ UNCHANGED <<files, recipe, path, fd, pos, outcome, runs, published, orphaned>>

OpenAs(m, p, stage) ==
  /\ \E i \in Inodes :
       /\ OpenPart(p, i, HeldBy(Miners \ {m}))
       /\ fd' = [fd EXCEPT ![m] = i]
  /\ Goto(m, stage)
  /\ UNCHANGED <<recipe, path, map_path, pos, outcome, runs, published, history>>

\* part.open("w+b")
Open(m) == pc[m] = "open" /\ OpenAs(m, path[m], "extend")

\* f.truncate(total): the whole address space, all of it holes.
Extend(m) ==
  /\ pc[m] = "extend"
  /\ WriteChunk(fd[m], Chunks, Hole)
  /\ Goto(m, "stream")
  /\ UNCHANGED <<recipe, path, map_path, fd, pos, outcome, runs, published, history>>

Ahead(m) == {c \in Covers[recipe[m]] : c > pos[m]}

\* Bug: the fragment goes where the last write ended, not where it belongs.
Stream_NoSeek(m) ==
  /\ pc[m] = "stream" /\ Ahead(m) # {}
  /\ WriteChunk(fd[m], pos[m] + 1, recipe[m])
  /\ pos' = [pos EXCEPT ![m] = @ + 1]
  /\ UNCHANGED <<pc, recipe, path, map_path, fd, outcome, runs, published, history>>

\* f.seek(target_offset), f.write(fragment): the next covered chunk.
Stream(m) ==
  /\ pc[m] = "stream"
  /\ \E c \in Ahead(m) :
       /\ \A d \in Ahead(m) : c <= d
       /\ WriteChunk(fd[m], c, recipe[m])
       /\ pos' = [pos EXCEPT ![m] = c]
  /\ UNCHANGED <<pc, recipe, path, map_path, fd, outcome, runs, published, history>>

\* flush, fsync, close; a proof carries no identity that could be checked.
CloseFile(m) ==
  /\ pc[m] = "stream" /\ Ahead(m) = {}
  /\ Goto(m, "replace")
  /\ UNCHANGED <<files, recipe, path, map_path, fd, pos, outcome, runs, published, history>>

\* os.replace(part, rep_path): the representation is public, its map is not yet.
PublishRep(m) ==
  /\ pc[m] = "replace"
  /\ ReplacePart(path[m])
  /\ published' = [published EXCEPT ![path[m]] = recipe[m]]
  /\ Goto(m, "cleanup")
  /\ UNCHANGED <<recipe, path, map_path, fd, pos, outcome, runs, history>>

\* Past the finally clause: on to the map, or out with the exception.
AfterRep(m) ==
  IF outcome[m] = "running"
    THEN Goto(m, "map_open") /\ UNCHANGED <<recipe, path, map_path, fd, pos, outcome>>
    ELSE Leave(m, outcome[m])

\* Bug: the finally clause is forgotten.
Cleanup_LeavesPart(m) ==
  /\ pc[m] = "cleanup"
  /\ AfterRep(m)
  /\ UNCHANGED <<files, runs, published, history>>

\* finally: remove the .part if it is there; after an exception the run ends here.
Cleanup(m) ==
  /\ pc[m] = "cleanup"
  /\ UnlinkPart(path[m], HeldBy(Miners \ {m}))
  /\ AfterRep(m)
  /\ UNCHANGED <<runs, published, history>>

----------------------------------------------------------------------------
(* The coverage map.                                                       *)

\* map_part.write_text opens and empties the file before it writes.
OpenMap(m) == pc[m] = "map_open" /\ OpenAs(m, map_path[m], "map_write")

WriteMap(m) ==
  /\ pc[m] = "map_write"
  /\ WriteChunk(fd[m], 1, recipe[m])
  /\ Goto(m, "map_replace")
  /\ UNCHANGED <<recipe, path, map_path, fd, pos, outcome, runs, published, history>>

PublishMap(m) ==
  /\ pc[m] = "map_replace"
  /\ ReplacePart(map_path[m])
  /\ published' = [published EXCEPT ![map_path[m]] = recipe[m]]
  /\ outcome' = [outcome EXCEPT ![m] = "ok"]
  /\ Goto(m, "map_cleanup")
  /\ UNCHANGED <<recipe, path, map_path, fd, pos, runs, history>>

CleanupMap(m) ==
  /\ pc[m] = "map_cleanup"
  /\ UnlinkPart(map_path[m], HeldBy(Miners \ {m}))
  /\ Leave(m, outcome[m])
  /\ UNCHANGED <<runs, published, history>>

----------------------------------------------------------------------------
(* What goes wrong.                                                        *)

\* An exception inside a try block: its finally clause comes next.
Unwind(m) ==
  /\ outcome' = [outcome EXCEPT ![m] = "failed"]
  /\ Goto(m, IF pc[m] \in RepStages THEN "cleanup" ELSE "map_cleanup")
  /\ UNCHANGED <<files, recipe, path, map_path, fd, pos, runs, published, history>>

\* os.replace raises: another run took the .part away.
Rejected(m) ==
  \/ pc[m] = "replace" /\ part[path[m]] = NoFile
  \/ pc[m] = "map_replace" /\ part[map_path[m]] = NoFile

Reject(m) == Rejected(m) /\ Unwind(m)

\* A cancellation, polled before every fragment, or an I/O error, also of the map.
Fail(m) == pc[m] \in (RepStages \cup MapStages) \ {"cleanup", "map_cleanup"} /\ Unwind(m)

\* The process is killed: no finally block runs.
Die(m) ==
  /\ pc[m] # "idle"
  /\ Leave(m, "died")
  /\ orphaned' = orphaned \cup Picked(m)
  /\ UNCHANGED <<files, runs, published, shared>>

----------------------------------------------------------------------------
Init ==
  /\ final = [p \in Paths |-> NoFile]
  /\ part = [p \in Paths |-> NoFile]
  /\ disk = [i \in Inodes |-> <<>>]
  /\ pc = [m \in Miners |-> "idle"]
  /\ recipe = [m \in Miners |-> NoRecipe]
  /\ path = [m \in Miners |-> <<"raw", 1>>]
  /\ map_path = [m \in Miners |-> <<"map", 1>>]
  /\ fd = [m \in Miners |-> 1]
  /\ pos = [m \in Miners |-> 0]
  /\ outcome = [m \in Miners |-> "none"]
  /\ runs = [m \in Miners |-> 0]
  /\ published = [p \in Paths |-> NoRecipe]
  /\ shared = {} /\ orphaned = {}

Work(m) ==
  \/ PickMap(m) \/ Open(m) \/ Extend(m) \/ Stream(m) \/ CloseFile(m) \/ PublishRep(m)
  \/ Cleanup(m) \/ OpenMap(m) \/ WriteMap(m) \/ PublishMap(m) \/ CleanupMap(m) \/ Reject(m)

Next == \E m \in Miners : PickRep(m) \/ Work(m) \/ Fail(m) \/ Die(m)

Spec == Init /\ [][Next]_vars

\* A process that is not killed keeps running its own code.
FairSpec == Spec /\ \A m \in Miners : WF_vars(Work(m))

----------------------------------------------------------------------------
(* Properties.                                                             *)

TypeOK ==
  /\ FilesTypeOK(Proofs)
  /\ pc \in [Miners -> Stages]
  /\ recipe \in [Miners -> Proofs \cup {NoRecipe}]
  /\ path \in [Miners -> {"raw", "b64"} \X Serials]
  /\ map_path \in [Miners -> {"map"} \X Serials]
  /\ fd \in [Miners -> Inodes]
  /\ pos \in [Miners -> 0 .. Chunks]
  /\ outcome \in [Miners -> {"none", "running", "ok", "failed", "died"}]
  /\ runs \in [Miners -> 0 .. MaxRuns]
  /\ published \in [Paths -> Proofs \cup {NoRecipe}]
  /\ shared \subseteq Paths /\ orphaned \subseteq Paths

\* What the file under a published name must hold.
Image(p, r) ==
  IF p[1] = "map" THEN <<r>> ELSE [c \in 1 .. Chunks |-> IF c \in Covers[r] THEN r ELSE Hole]

\* A published representation holds exactly what its proof covers and holes
\* elsewhere, a published map is the whole map of its proof, and the names a
\* successful run reports are those of its own two files; names that two
\* overlapping runs had both picked are the exception.
PublishedIsWhole ==
  /\ \A p \in Paths \ shared : published[p] # NoRecipe =>
       final[p] # NoFile /\ disk[final[p]] = Image(p, published[p])
  /\ \A m \in Miners : outcome[m] = "ok" =>
       \A p \in {path[m], map_path[m]} \ shared : published[p] = recipe[m]

\* No step replaces a published file or alters its content, unless two overlapping
\* runs had picked its name.
KeepsPublished ==
  \A p \in Paths \ shared : final[p] # NoFile =>
    final'[p] = final[p] /\ disk'[final[p]] = disk[final[p]]

\* Every `.part` belongs to a run in progress or was left by one that was killed.
NoStrayParts ==
  \A p \in Paths : part[p] # NoFile => p \in orphaned \/ \E m \in Miners : p \in Picked(m)

\* Every run ends.
RunsEnd == \A m \in Miners : pc[m] # "idle" ~> pc[m] = "idle"

\* The map a successful run reports describes the representation it reports,
\* which no other run had picked.
ReportedMapIsOwn ==
  \A m \in Miners : outcome[m] = "ok" /\ path[m] \notin shared =>
    published[map_path[m]] = recipe[m]
============================================================================
