----------------------------- MODULE MineBuild -----------------------------
(***************************************************************************)
(* mine_recipe for full recipes: several processes rebuild targets into    *)
(* one directory.  A run picks an output path that is free, streams the    *)
(* recipe's fragments into `<path>.part`, checks the identity of what it   *)
(* streamed, reads the file back, and renames it onto the path.  A run may *)
(* be cancelled, fail, or die at every step; only a death leaves the       *)
(* `.part` behind.                                                         *)
(***************************************************************************)
EXTENDS PartFiles, FiniteSets

CONSTANTS
  Miners,        \* processes that run mine_recipe, one run at a time each
  Recipes,       \* full recipes for targets of the same file name
  Identity,      \* recipe -> "match" or "mismatch": _identity_ok of what it rebuilds;
                 \* without a hash, "size" (RAW) or "none" (B64)
  Chunks,        \* chunks of every target
  FaultyDisk,    \* miners whose storage may garble a chunk that is written
  MaxRuns,       \* bound: runs per miner
  UserFile,      \* a chunk of a file that was there before
  NoRecipe       \* nobody published this path

MineAssumption ==
  /\ Paths = 1 .. Cardinality(Paths)     \* target, target_mined, target_mined2, ...
  /\ 1 \in Inodes /\ Inodes \subseteq Nat
  /\ Chunks \in Nat \ {0}
  /\ MaxRuns \in Nat \ {0}
  /\ Identity \in [Recipes -> {"match", "mismatch", "size", "none"}]
  /\ FaultyDisk \subseteq Miners
  /\ NoRecipe \notin Recipes /\ NoFile \notin Inodes

VARIABLES
  pc,         \* per miner: the stage of its run
  recipe,     \* per miner: the recipe of its run
  path,       \* per miner: the output path of its run
  verify,     \* per miner: verify_after_write of its run (BUILD+VERIFY or BUILD)
  fd,         \* per miner: the inode behind its file handle
  pos,        \* per miner: chunks written, then chunks read back
  intact,     \* per miner: every chunk read back so far was right
  outcome,    \* per miner: how its last run ended
  runs,       \* per miner: runs started
  published,  \* history: path -> recipe renamed onto it
  unchecked,  \* history: paths published without the post-write check
  shared,     \* history: paths that two overlapping runs had both chosen
  orphaned    \* history: paths of runs that were killed

miners == <<pc, recipe, path, verify, fd, pos, intact, outcome, runs>>
history == <<shared, orphaned>>
released == <<published, unchecked>>
vars   == <<files, miners, released, history>>

Stages == {"idle", "open", "stream", "verify", "readback", "replace", "cleanup"}

\* Inodes behind the open handles of the other miners.
HeldBy(others) == {fd[n] : n \in {m \in others : pc[m] \in {"stream", "readback"}}}

Goto(m, stage) == pc' = [pc EXCEPT ![m] = stage]

\* The run's local variables are gone; a successful run has reported its output.
Leave(m, how) ==
  /\ Goto(m, "idle")
  /\ outcome' = [outcome EXCEPT ![m] = how]
  /\ recipe' = [recipe EXCEPT ![m] = IF how = "ok" THEN @ ELSE NoRecipe]
  /\ path' = [path EXCEPT ![m] = IF how = "ok" THEN @ ELSE 1]
  /\ verify' = [verify EXCEPT ![m] = FALSE]
  /\ fd' = [fd EXCEPT ![m] = 1]
  /\ pos' = [pos EXCEPT ![m] = 0]
  /\ intact' = [intact EXCEPT ![m] = FALSE]

----------------------------------------------------------------------------
(* One run.                                                                *)

\* _unique_output_path: the first candidate that does not exist, nor its .part.
Choose(m) ==
  /\ pc[m] = "idle" /\ runs[m] < MaxRuns
  /\ \E p \in Paths, r \in Recipes, v \in BOOLEAN :
       /\ Free(p) /\ \A q \in Paths : q < p => ~Free(q)
       /\ path' = [path EXCEPT ![m] = p]
       /\ recipe' = [recipe EXCEPT ![m] = r]
       /\ verify' = [verify EXCEPT ![m] = v]
       /\ shared' = IF \E n \in Miners \ {m} : pc[n] # "idle" /\ path[n] = p
                      THEN shared \cup {p} ELSE shared
  /\ runs' = [runs EXCEPT ![m] = @ + 1]
  /\ outcome' = [outcome EXCEPT ![m] = "running"]
  /\ Goto(m, "open")
  /\ UNCHANGED <<files, fd, pos, intact, released, orphaned>>

\* part.open("wb")
Open(m) ==
  /\ pc[m] = "open"
  /\ \E i \in Inodes :
       /\ OpenPart(path[m], i, HeldBy(Miners \ {m}))
       /\ fd' = [fd EXCEPT ![m] = i]
  /\ pos' = [pos EXCEPT ![m] = 0]
  /\ Goto(m, "stream")
  /\ UNCHANGED <<recipe, path, verify, intact, outcome, runs, released, history>>

\* Bug: one chunk too many.
Stream_OffByOne(m) ==
  /\ pc[m] = "stream" /\ pos[m] <= Chunks
  /\ \E v \in {recipe[m]} \cup (IF m \in FaultyDisk THEN {Hole} ELSE {}) :
       WriteChunk(fd[m], pos[m] + 1, v)
  /\ pos' = [pos EXCEPT ![m] = @ + 1]
  /\ UNCHANGED <<pc, recipe, path, verify, fd, intact, outcome, runs, released, history>>

\* _stream_full_representation writes the next chunk.
Stream(m) ==
  /\ pc[m] = "stream" /\ pos[m] < Chunks
  /\ \E v \in {recipe[m]} \cup (IF m \in FaultyDisk THEN {Hole} ELSE {}) :
       WriteChunk(fd[m], pos[m] + 1, v)
  /\ pos' = [pos EXCEPT ![m] = @ + 1]
  /\ UNCHANGED <<pc, recipe, path, verify, fd, intact, outcome, runs, released, history>>

\* The file is closed; _identity_ok judges the streamed bytes, not the file:
\* False stops the run (Reject), None lets it pass.
CheckIdentity(m) ==
  /\ pc[m] = "stream" /\ pos[m] = Chunks
  /\ Identity[recipe[m]] # "mismatch"
  /\ Goto(m, IF verify[m] THEN "verify" ELSE "replace")
  /\ UNCHANGED <<files, recipe, path, verify, fd, pos, intact, outcome, runs, released, history>>

\* _hash_file_dual(part): opens whatever file carries the name now.
OpenBack(m) ==
  /\ pc[m] = "verify"
  /\ part[path[m]] # NoFile
  /\ fd' = [fd EXCEPT ![m] = part[path[m]]]
  /\ pos' = [pos EXCEPT ![m] = 0]
  /\ intact' = [intact EXCEPT ![m] = TRUE]
  /\ Goto(m, "readback")
  /\ UNCHANGED <<files, recipe, path, verify, outcome, runs, released, history>>

\* Bug: the read position does not move.
ReadBack_Stalls(m) ==
  /\ pc[m] = "readback"
  /\ pos[m] < Len(disk[fd[m]])
  /\ UNCHANGED vars

ReadBack(m) ==
  /\ pc[m] = "readback"
  /\ pos[m] < Len(disk[fd[m]])
  /\ pos' = [pos EXCEPT ![m] = @ + 1]
  /\ intact' = [intact EXCEPT ![m] = @ /\ disk[fd[m]][pos'[m]] = recipe[m]]
  /\ UNCHANGED <<files, pc, recipe, path, verify, fd, outcome, runs, released, history>>

\* Bug: the result of the read-back is not looked at.
PostWriteOK_Always(m) == TRUE

\* Without a hash a RAW recipe still has a size to compare (parse_bnp sets raw_size),
\* a B64 recipe nothing.
PostWriteOK(m) ==
  \/ Identity[recipe[m]] = "none"
  \/ Identity[recipe[m]] = "size" /\ pos[m] = Chunks
  \/ Identity[recipe[m]] = "match" /\ intact[m] /\ pos[m] = Chunks

AtEnd(m) == pc[m] = "readback" /\ pos[m] >= Len(disk[fd[m]])

Verified(m) ==
  /\ AtEnd(m)
  /\ PostWriteOK(m)
  /\ Goto(m, "replace")
  /\ UNCHANGED <<files, recipe, path, verify, fd, pos, intact, outcome, runs, released, history>>

\* os.replace(part, final)
Publish(m) ==
  /\ pc[m] = "replace"
  /\ ReplacePart(path[m])
  /\ published' = [published EXCEPT ![path[m]] = recipe[m]]
  /\ unchecked' = IF verify[m] THEN unchecked \ {path[m]} ELSE unchecked \cup {path[m]}
  /\ outcome' = [outcome EXCEPT ![m] = "ok"]
  /\ Goto(m, "cleanup")
  /\ UNCHANGED <<recipe, path, verify, fd, pos, intact, runs, history>>

\* What the run finds for itself that makes it raise: the streamed bytes or the
\* file read back are not the target, or another run took the .part away.
Rejected(m) ==
  \/ pc[m] = "stream" /\ pos[m] = Chunks /\ Identity[recipe[m]] = "mismatch"
  \/ AtEnd(m) /\ ~PostWriteOK(m)
  \/ pc[m] \in {"verify", "replace"} /\ part[path[m]] = NoFile

Unwind(m) ==
  /\ outcome' = [outcome EXCEPT ![m] = "failed"]
  /\ Goto(m, "cleanup")
  /\ UNCHANGED <<files, recipe, path, verify, fd, pos, intact, runs, released, history>>

Reject(m) == Rejected(m) /\ Unwind(m)

\* A cancellation, a full disk: an exception anywhere inside the try block.
Fail(m) == pc[m] \in Stages \ {"idle", "cleanup"} /\ Unwind(m)

\* finally: remove the .part if it is (still, or again) there.
Cleanup(m) ==
  /\ pc[m] = "cleanup"
  /\ UnlinkPart(path[m], HeldBy(Miners \ {m}))
  /\ Leave(m, outcome[m])
  /\ UNCHANGED <<runs, released, history>>

\* The process is killed: no finally block runs.
Die(m) ==
  /\ pc[m] # "idle"
  /\ Leave(m, "died")
  /\ orphaned' = orphaned \cup {path[m]}
  /\ UNCHANGED <<files, runs, released, shared>>

----------------------------------------------------------------------------
\* The first candidate may be taken by a file of the user's.
Init ==
  /\ \E taken \in BOOLEAN :
       /\ final = [p \in Paths |-> IF taken /\ p = 1 THEN 1 ELSE NoFile]
       /\ disk = [i \in Inodes |-> IF taken /\ i = 1 THEN <<UserFile>> ELSE <<>>]
  /\ part = [p \in Paths |-> NoFile]
  /\ pc = [m \in Miners |-> "idle"]
  /\ recipe = [m \in Miners |-> NoRecipe]
  /\ path = [m \in Miners |-> 1]
  /\ verify = [m \in Miners |-> FALSE]
  /\ fd = [m \in Miners |-> 1]
  /\ pos = [m \in Miners |-> 0]
  /\ intact = [m \in Miners |-> FALSE]
  /\ outcome = [m \in Miners |-> "none"]
  /\ runs = [m \in Miners |-> 0]
  /\ published = [p \in Paths |-> NoRecipe]
  /\ unchecked = {} /\ shared = {} /\ orphaned = {}

Work(m) ==
  \/ Open(m) \/ Stream(m) \/ CheckIdentity(m) \/ OpenBack(m)
  \/ ReadBack(m) \/ Verified(m) \/ Publish(m) \/ Reject(m) \/ Cleanup(m)

Next == \E m \in Miners : Choose(m) \/ Work(m) \/ Fail(m) \/ Die(m)

Spec == Init /\ [][Next]_vars

\* A process that is not killed keeps running its own code.
FairSpec == Spec /\ \A m \in Miners : WF_vars(Work(m))

----------------------------------------------------------------------------
(* Properties.                                                             *)

TypeOK ==
  /\ FilesTypeOK(Recipes \cup {UserFile})
  /\ pc \in [Miners -> Stages]
  /\ recipe \in [Miners -> Recipes \cup {NoRecipe}]
  /\ path \in [Miners -> Paths]
  /\ verify \in [Miners -> BOOLEAN]
  /\ fd \in [Miners -> Inodes]
  /\ pos \in [Miners -> 0 .. Chunks]
  /\ intact \in [Miners -> BOOLEAN]
  /\ outcome \in [Miners -> {"none", "running", "ok", "failed", "died"}]
  /\ runs \in [Miners -> 0 .. MaxRuns]
  /\ published \in [Paths -> Recipes \cup {NoRecipe}]
  /\ {unchecked, shared, orphaned} \subseteq SUBSET Paths

\* A file that carries a final name is the whole target of the recipe that was
\* renamed onto it, one that has the hash it carries, if any; but for chunks that
\* the disk garbled, and those not either after a BUILD+VERIFY of a recipe with a
\* hash.  A run that reported success did publish its recipe under its path.  Names
\* that two overlapping runs had both picked are the exception.
Proven(p) == p \notin unchecked /\ Identity[published[p]] = "match"
PublishedIsWhole ==
  /\ \A p \in Paths \ shared : published[p] # NoRecipe =>
       /\ final[p] # NoFile
       /\ Identity[published[p]] # "mismatch"
       /\ LET file == disk[final[p]]
          IN  /\ Len(file) = Chunks
              /\ \A i \in 1 .. Chunks : file[i] = published[p] \/ (file[i] = Hole /\ ~Proven(p))
  /\ \A m \in Miners : outcome[m] = "ok" /\ path[m] \notin shared =>
       published[path[m]] = recipe[m]

\* No step replaces a file that exists under a final name, or alters its
\* content, unless two overlapping runs had picked that name.
KeepsPublished ==
  \A p \in Paths \ shared : final[p] # NoFile =>
    final'[p] = final[p] /\ disk'[final[p]] = disk[final[p]]

\* Every `.part` in the directory belongs to a run in progress or was left by
\* one that was killed: a run that is cancelled or fails takes its own away.
NoStrayParts ==
  \A p \in Paths : part[p] # NoFile =>
    p \in orphaned \/ \E m \in Miners : pc[m] # "idle" /\ path[m] = p

\* Every run ends, whatever the other processes do to its files.
RunsEnd == \A m \in Miners : pc[m] # "idle" ~> pc[m] = "idle"
============================================================================
