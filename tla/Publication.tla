---------------------------- MODULE Publication ----------------------------
(***************************************************************************)
(* Everything this program publishes, and the one protocol it publishes    *)
(* by: pick a free name, fill `<name>.part`, rename it.  Full targets      *)
(* (MineBuild), partial targets with their coverage map (PartialMine) and  *)
(* recipes (SaveOutputs) never share a name, so a behaviour follows the    *)
(* processes that publish one kind.                                        *)
(***************************************************************************)
EXTENDS FiniteSets, Naturals, Sequences

CONSTANTS
  Workers,     \* processes: a GUI, command lines
  MaxRuns,     \* bound: runs per process
  Inodes, NoFile, Hole, Chunks, FaultyDisk,
  Serials,     \* candidate names, in the order in which they are tried
  Recipes, Identity, UserFile,    \* full targets
  Proofs, Suffix, Covers,         \* partial targets
  Nobody       \* nobody published this path

VARIABLES
  artifact,    \* what the processes publish: "target", "proof" or "recipe"
  final, part, disk,
  pc, path, fd, pos, outcome, runs, published, shared, orphaned,
  recipe, verify, intact, unchecked, map_path, queue

files == <<final, part, disk>>
run_vars == <<pc, path, fd, pos, outcome, runs, published, shared, orphaned>>
target_only == <<verify, intact, unchecked>>
all_vars == <<artifact, files, run_vars, recipe, target_only, map_path, queue>>

Target == INSTANCE MineBuild WITH
  Paths <- Serials, Miners <- Workers, NoRecipe <- Nobody

Proof == INSTANCE PartialMine WITH
  Paths <- {"raw", "b64", "map"} \X Serials, Miners <- Workers, NoRecipe <- Nobody

Recipe == INSTANCE SaveOutputs WITH
  Paths <- Serials \X {"bnp", "bnpm", "bnp2"}, Bases <- Serials, Builders <- Workers,
  MaxBuilds <- MaxRuns, NoBuild <- Nobody, base <- path, builds <- runs

ASSUME PublicationAssumption ==
  Target!MineAssumption /\ Proof!PartialMineAssumption /\ Recipe!SaveAssumption

----------------------------------------------------------------------------
Unset == [w \in Workers |-> Nobody]

TargetInit == Target!Init /\ map_path = Unset /\ queue = Unset
ProofInit ==
  /\ Proof!Init
  /\ verify = Unset /\ intact = Unset /\ unchecked = {} /\ queue = Unset
RecipeInit ==
  /\ Recipe!Init
  /\ recipe = Unset /\ verify = Unset /\ intact = Unset /\ unchecked = {} /\ map_path = Unset

PublicationInit ==
  \/ artifact = "target" /\ TargetInit
  \/ artifact = "proof"  /\ ProofInit
  \/ artifact = "recipe" /\ RecipeInit

OfTarget(step) == artifact = "target" /\ step /\ UNCHANGED <<artifact, map_path, queue>>
OfProof(step)  == artifact = "proof" /\ step /\ UNCHANGED <<artifact, target_only, queue>>
OfRecipe(step) == artifact = "recipe" /\ step /\ UNCHANGED <<artifact, recipe, target_only, map_path>>

PublicationNext ==
  \/ OfTarget(Target!Next)
  \/ OfProof(Proof!Next)
  \/ OfRecipe(Recipe!Next)

\* The fairness of each part: a process that is not killed keeps running.
Working(w) ==
  OfTarget(Target!Work(w)) \/ OfProof(Proof!Work(w)) \/ OfRecipe(Recipe!Work(w))

FairPublication ==
  /\ PublicationInit /\ [][PublicationNext]_all_vars
  /\ \A w \in Workers : WF_all_vars(Working(w))

----------------------------------------------------------------------------
(* Properties of the three kinds together; each part states its own.       *)

TypesOK ==
  CASE artifact = "target" -> Target!TypeOK
    [] artifact = "proof"  -> Proof!TypeOK
    [] artifact = "recipe" -> Recipe!TypeOK

\* A target or a proof that carries a published name is whole and is what was published
\* under it.  Of recipes no more is said than that a build that reported success has
\* published all it reports, its container whole: one whose verification fails leaves a
\* garbled container under its final name.
PublishedIsWhole ==
  CASE artifact = "target" -> Target!PublishedIsWhole
    [] artifact = "proof"  -> Proof!PublishedIsWhole
    [] artifact = "recipe" -> Recipe!SuccessIsComplete

\* The artifacts under one base name come from one build.
BaseIsOneBuild == artifact = "recipe" => Recipe!BaseIsOneBuild

\* Every `.part` belongs to a run in progress or was left by one that was killed:
\* a run that is cancelled or fails takes its own away.
NoStrayParts ==
  CASE artifact = "target" -> Target!NoStrayParts
    [] artifact = "proof"  -> Proof!NoStrayParts
    [] artifact = "recipe" -> Recipe!NoStrayParts

\* No step replaces or alters a file that carries a final name, unless two
\* overlapping runs had picked that name.
NothingOverwritten ==
  [][ /\ artifact = "target" => Target!KeepsPublished
      /\ artifact = "proof"  => Proof!KeepsPublished
      /\ artifact = "recipe" => Recipe!KeepsPublished ]_all_vars

\* Every run ends, whatever the other processes do to its files.
RunsEnd == \A w \in Workers : pc[w] # "idle" ~> pc[w] = "idle"

\* The two documented claims the code does not keep (see the parts).
FailurePublishesNothing == artifact = "recipe" => Recipe!FailurePublishesNothing
ReportedMapIsOwn        == artifact = "proof" => Proof!ReportedMapIsOwn
============================================================================
