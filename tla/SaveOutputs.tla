---------------------------- MODULE SaveOutputs ----------------------------
(***************************************************************************)
(* save_outputs: what a build publishes.  A full recipe is written twice   *)
(* under one base name, first the human `.bnp`, then the machine `.bnpm`,  *)
(* which is verified after it is published; a partial one is a single      *)
(* `.bnp2`.  Builds run in several processes (GUI, CLI) over one output    *)
(* directory; a build can be cancelled, fail, or be killed at every step.  *)
(***************************************************************************)
EXTENDS PartFiles, FiniteSets

CONSTANTS
  Builders,    \* processes that run a build, one at a time each
  Bases,       \* candidate base names 1, 2, ...: name_bnp, name_bnp2, ...
  Chunks,      \* chunks of every artifact
  FaultyDisk,  \* builders whose storage may garble a chunk that is written
  MaxBuilds,   \* bound: builds per process
  NoBuild      \* nobody published this path

BuildIds == Builders \X (1 .. MaxBuilds)

SaveAssumption ==
  /\ Bases = 1 .. Cardinality(Bases)
  /\ Paths = Bases \X {"bnp", "bnpm", "bnp2"}
  /\ Chunks \in Nat \ {0} /\ MaxBuilds \in Nat \ {0}
  /\ FaultyDisk \subseteq Builders
  /\ 1 \in Inodes /\ Inodes \subseteq Nat /\ NoFile \notin Inodes
  /\ {Hole, NoBuild} \cap BuildIds = {}

VARIABLES
  pc,        \* per builder: the stage of its build
  base,      \* per builder: the base name it resolved
  queue,     \* per builder: extensions still to be written, in order
  fd,        \* per builder: the inode behind its file handle
  pos,       \* per builder: chunks written
  outcome,   \* per builder: how its last build ended
  builds,    \* per builder: builds started
  published, \* history: path -> the build (builder and serial) renamed onto it
  shared,    \* history: bases that two overlapping builds had both resolved
  orphaned   \* history: bases of builds that were killed

builders == <<pc, base, queue, fd, pos, outcome, builds>>
history  == <<shared, orphaned>>
vars     == <<files, builders, published, history>>

Stages == {"idle", "open", "write", "replace", "unlink", "verify", "unwind"}

Build(w)   == <<w, builds[w]>>
Whole(b)   == [j \in 1 .. Chunks |-> b]
Target(w)  == <<base[w], Head(queue[w])>>
HeldBy(others) == {fd[n] : n \in {w \in others : pc[w] = "write"}}

Goto(w, stage) == pc' = [pc EXCEPT ![w] = stage]

\* Bug: only the human recipe makes a base name taken.
BaseFree_OnlyBnp(b) == final[<<b, "bnp">>] = NoFile

\* output_base_is_free: no artifact of any kind; a `.part` does not count.
BaseFree(b) == \A ext \in {"bnp", "bnpm", "bnp2"} : final[<<b, ext>>] = NoFile

----------------------------------------------------------------------------
\* next_available_output_base, resolved again just before publication.
Resolve(w) ==
  /\ pc[w] = "idle" /\ builds[w] < MaxBuilds
  /\ \E b \in Bases, plan \in {<<"bnp", "bnpm">>, <<"bnp2">>} :
       /\ BaseFree(b) /\ \A c \in Bases : c < b => ~BaseFree(c)
       /\ base' = [base EXCEPT ![w] = b]
       /\ queue' = [queue EXCEPT ![w] = plan]
       /\ shared' = IF \E n \in Builders \ {w} : pc[n] # "idle" /\ base[n] = b
                      THEN shared \cup {b} ELSE shared
  /\ builds' = [builds EXCEPT ![w] = @ + 1]
  /\ outcome' = [outcome EXCEPT ![w] = "running"]
  /\ Goto(w, "open")
  /\ UNCHANGED <<files, fd, pos, published, orphaned>>

\* write_bnp, or pack_container_stream once the payload is packed.
Open(w) ==
  /\ pc[w] = "open"
  /\ \E i \in Inodes :
       /\ OpenPart(Target(w), i, HeldBy(Builders \ {w}))
       /\ fd' = [fd EXCEPT ![w] = i]
  /\ pos' = [pos EXCEPT ![w] = 0]
  /\ Goto(w, "write")
  /\ UNCHANGED <<base, queue, outcome, builds, published, history>>

\* Bug: one chunk too many.
WriteOne_OffByOne(w) ==
  /\ pc[w] = "write" /\ pos[w] <= Chunks
  /\ \E v \in {Build(w)} \cup (IF w \in FaultyDisk THEN {Hole} ELSE {}) :
       WriteChunk(fd[w], pos[w] + 1, v)
  /\ pos' = [pos EXCEPT ![w] = @ + 1]
  /\ Goto(w, IF pos'[w] < Chunks THEN "write" ELSE "replace")
  /\ UNCHANGED <<base, queue, fd, outcome, builds, published, history>>

WriteOne(w) ==
  /\ pc[w] = "write" /\ pos[w] < Chunks
  /\ \E v \in {Build(w)} \cup (IF w \in FaultyDisk THEN {Hole} ELSE {}) :
       WriteChunk(fd[w], pos[w] + 1, v)
  /\ pos' = [pos EXCEPT ![w] = @ + 1]
  /\ Goto(w, IF pos'[w] < Chunks THEN "write" ELSE "replace")
  /\ UNCHANGED <<base, queue, fd, outcome, builds, published, history>>

Publish(w) ==
  /\ pc[w] = "replace"
  /\ ReplacePart(Target(w))
  /\ published' = [published EXCEPT ![Target(w)] = Build(w)]
  /\ Goto(w, "unlink")
  /\ UNCHANGED <<base, queue, fd, pos, outcome, builds, history>>

\* finally, after the rename; a machine file is then verified where it stands.
Unlink(w) ==
  /\ pc[w] = "unlink"
  /\ UnlinkPart(Target(w), HeldBy(Builders \ {w}))
  /\ IF Head(queue[w]) = "bnp"
       THEN Goto(w, "open") /\ queue' = [queue EXCEPT ![w] = Tail(@)]
       ELSE Goto(w, "verify") /\ UNCHANGED queue
  /\ UNCHANGED <<base, fd, pos, outcome, builds, published, history>>

Leave(w, how) ==
  /\ Goto(w, "idle")
  /\ outcome' = [outcome EXCEPT ![w] = how]
  /\ base' = [base EXCEPT ![w] = IF how = "ok" THEN @ ELSE 1]
  /\ queue' = [queue EXCEPT ![w] = <<>>]
  /\ fd' = [fd EXCEPT ![w] = 1]
  /\ pos' = [pos EXCEPT ![w] = 0]

\* Bug: the seals are written but not compared.
SealsMatch_Always(w) == final[Target(w)] # NoFile

\* verify_container_stream: the file under that name now carries whole seals.
SealsMatch(w) ==
  /\ final[Target(w)] # NoFile
  /\ \E b \in BuildIds : disk[final[Target(w)]] = Whole(b)

\* It passes: save_outputs returns its artifact list.
Verified(w) ==
  /\ pc[w] = "verify"
  /\ SealsMatch(w)
  /\ Leave(w, "ok")
  /\ UNCHANGED <<files, builds, published, history>>

\* An exception inside a writer's try block: its finally clause comes next.
Raise(w) ==
  /\ Goto(w, "unwind")
  /\ UNCHANGED <<files, base, queue, fd, pos, outcome, builds, published, history>>

Unwind(w) ==
  /\ pc[w] = "unwind"
  /\ UnlinkPart(Target(w), HeldBy(Builders \ {w}))
  /\ Leave(w, "failed")
  /\ UNCHANGED <<builds, published, history>>

\* The verification raises: nothing is cleaned up any more.
VerifyFails(w) ==
  /\ pc[w] = "verify"
  /\ Leave(w, "failed")
  /\ UNCHANGED <<files, builds, published, history>>

\* What a build finds for itself that makes it raise: another build took its
\* `.part` away, or the seals of the published file do not match.
Reject(w) ==
  \/ pc[w] = "replace" /\ part[Target(w)] = NoFile /\ Raise(w)
  \/ pc[w] = "verify" /\ ~SealsMatch(w) /\ VerifyFails(w)

\* A cancellation or an I/O error.
Fail(w) ==
  \/ pc[w] \in {"open", "write", "replace"} /\ Raise(w)
  \/ VerifyFails(w)

\* The process is killed: no finally block runs.
Die(w) ==
  /\ pc[w] # "idle"
  /\ Leave(w, "died")
  /\ orphaned' = orphaned \cup {base[w]}
  /\ UNCHANGED <<files, builds, published, shared>>

----------------------------------------------------------------------------
Init ==
  /\ final = [p \in Paths |-> NoFile]
  /\ part = [p \in Paths |-> NoFile]
  /\ disk = [i \in Inodes |-> <<>>]
  /\ pc = [w \in Builders |-> "idle"]
  /\ base = [w \in Builders |-> 1]
  /\ queue = [w \in Builders |-> <<>>]
  /\ fd = [w \in Builders |-> 1]
  /\ pos = [w \in Builders |-> 0]
  /\ outcome = [w \in Builders |-> "none"]
  /\ builds = [w \in Builders |-> 0]
  /\ published = [p \in Paths |-> NoBuild]
  /\ shared = {} /\ orphaned = {}

Work(w) ==
  \/ Open(w) \/ WriteOne(w) \/ Publish(w) \/ Unlink(w)
  \/ Verified(w) \/ Reject(w) \/ Unwind(w)

Next == \E w \in Builders : Resolve(w) \/ Work(w) \/ Fail(w) \/ Die(w)

Spec == Init /\ [][Next]_vars

\* A process that is not killed keeps running its own code.
FairSpec == Spec /\ \A w \in Builders : WF_vars(Work(w))

----------------------------------------------------------------------------
(* Properties.                                                             *)

TypeOK ==
  /\ FilesTypeOK(BuildIds)
  /\ pc \in [Builders -> Stages]
  /\ base \in [Builders -> Bases]
  /\ queue \in [Builders -> {<<>>, <<"bnp", "bnpm">>, <<"bnpm">>, <<"bnp2">>}]
  /\ fd \in [Builders -> Inodes]
  /\ pos \in [Builders -> 0 .. Chunks]
  /\ outcome \in [Builders -> {"none", "running", "ok", "failed", "died"}]
  /\ builds \in [Builders -> 0 .. MaxBuilds]
  /\ published \in [Paths -> BuildIds \cup {NoBuild}]
  /\ shared \subseteq Bases /\ orphaned \subseteq Bases

\* All artifacts under one base name come from one build, and a machine file
\* stands beside the human file of the same build, unless two overlapping
\* builds had resolved that base.
BaseIsOneBuild ==
  \A b \in Bases \ shared :
    /\ \A x, y \in {"bnp", "bnpm", "bnp2"} :
         NoBuild \notin {published[<<b, x>>], published[<<b, y>>]} =>
           published[<<b, x>>] = published[<<b, y>>]
    /\ published[<<b, "bnpm">>] # NoBuild =>
         published[<<b, "bnp">>] = published[<<b, "bnpm">>]

\* A build that reported success has its whole artifact set on the disk, the
\* machine file intact, and nothing replaces it afterwards.
SuccessIsComplete ==
  \A w \in Builders : outcome[w] = "ok" /\ base[w] \notin shared =>
    \/ /\ \A ext \in {"bnp", "bnpm"} : published[<<base[w], ext>>] = Build(w)
       /\ disk[final[<<base[w], "bnpm">>]] = Whole(Build(w))
    \/ /\ published[<<base[w], "bnp2">>] = Build(w)
       /\ disk[final[<<base[w], "bnp2">>]] = Whole(Build(w))

\* No step replaces or alters an artifact that is already published, unless
\* two overlapping builds had resolved its base.
KeepsPublished ==
  \A p \in Paths : p[1] \notin shared /\ final[p] # NoFile =>
    final'[p] = final[p] /\ disk'[final[p]] = disk[final[p]]

\* A build that did not end in success has published nothing ("No new BnP
\* output was published", the GUI's message).
FailurePublishesNothing ==
  \A w \in Builders : outcome[w] = "failed" =>
    \A p \in Paths : published[p] # Build(w)

\* Every `.part` belongs to a build in progress or was left by a killed one.
NoStrayParts ==
  \A p \in Paths : part[p] # NoFile =>
    p[1] \in orphaned \/ \E w \in Builders : pc[w] # "idle" /\ base[w] = p[1]

\* Every build ends, whatever the other processes do to its files.
RunsEnd == \A w \in Builders : pc[w] # "idle" ~> pc[w] = "idle"
============================================================================
