------------------------------- MODULE Recipes -------------------------------
(***************************************************************************)
(* What happens to a recipe between the build that made it and the run     *)
(* that rebuilds its target: its segments are written to two files and     *)
(* read again, checked, streamed through Base64, and its target's name and *)
(* the corpus it came from have written forms of their own.  A behaviour   *)
(* follows one recipe through the checks (RecipeCheck) or lets the input   *)
(* of one conversion grow piece by piece.                                  *)
(***************************************************************************)
EXTENDS RecipeCheck

CONSTANTS
  Dot, Bang, OtherChar, MaxName,               \* target names
  Pad, MaxBytes, MaxChars,                     \* fragments of a target, of a Base64 recipe
  Width, MaxDigit, Letter, Oh, Plus, MaxHashes,   \* hashes of a corpus
  NoTx, NoSection, WrittenSegments, MaxWritten    \* segments of a written recipe

VARIABLES
  topic,     \* "check", "name", "encode", "decode", "clean" or "files"
  subject    \* the input so far: characters, fragments, hashes or segments

all_vars == <<topic, subject, vars>>

Name   == INSTANCE SafeName
Base64 == INSTANCE Base64Stream
Clean  == INSTANCE CleanStream
Files  == INSTANCE RecipeFiles

ASSUME RecipesAssumption ==
  /\ Dot # Bang /\ Clean!CleanAssumption
  /\ \A s \in WrittenSegments :
       /\ s = [chain |-> s.chain, network |-> s.network, height |-> s.height, branch |-> s.branch,
               hash |-> s.hash, tx |-> s.tx, verified |-> s.verified, grade |-> s.grade,
               from |-> s.from, len |-> s.len, at |-> s.at]
       /\ s.height \in Int /\ s.from \in Int /\ s.len \in Int /\ s.at \in Int

----------------------------------------------------------------------------
Given(t, piece) == topic = t /\ subject' = Append(subject, piece) /\ UNCHANGED <<topic, vars>>

\* One more character of a name.
NameChar ==
  Len(subject) < MaxName /\ \E ch \in {Dot, Bang, OtherChar} : Given("name", ch)

Streamed == Len(FlattenSeq(subject))

\* The next fragment of a target; its bytes are told apart by their places.
TargetFragment ==
  \E n \in 1 .. MaxBytes - Streamed : Given("encode", [i \in 1 .. n |-> Streamed + i])

\* The next fragment of a Base64 recipe: letters, told apart by their places, and pads.
RecipeFragment ==
  \E n \in 1 .. MaxChars - Streamed : \E pads \in SUBSET (1 .. n) :
    Given("decode", [i \in 1 .. n |-> IF i \in pads THEN Pad ELSE Streamed + i])

\* The next hash of a corpus.
CorpusHash ==
  Len(subject) < MaxHashes /\ \E h \in [1 .. Width -> Clean!Digits \cup {Letter}] : Given("clean", h)

\* The next segment of a recipe that is written; it follows the one before.
WrittenSegment ==
  /\ Len(subject) < MaxWritten
  /\ \E s \in WrittenSegments :
       s.at = (IF subject = <<>> THEN 0 ELSE End(Last(subject))) /\ Given("files", s)

\* A recipe that is not followed is empty.
NoRecipe == full /\ segs = <<>> /\ \A t \in Totals : total <= t

RecipesInit ==
  /\ topic \in {"check", "name", "encode", "decode", "clean", "files"}
  /\ subject = <<>>
  /\ Init
  /\ topic # "check" => NoRecipe

Checked == topic = "check" /\ Next /\ UNCHANGED <<topic, subject>>

RecipesNext ==
  \/ Checked
  \/ topic = "name" /\ NameChar
  \/ topic = "encode" /\ TargetFragment
  \/ topic = "decode" /\ RecipeFragment
  \/ topic = "clean" /\ CorpusHash
  \/ topic = "files" /\ WrittenSegment

RecipesSpec == RecipesInit /\ [][RecipesNext]_all_vars

----------------------------------------------------------------------------
(* Properties; those of the checks are in RecipeCheck.                     *)

\* The resolver accepts exactly the sound recipes, and reports exactly what they cover
\* and leave out.
ReportIsExact == ResolverIsExact /\ CoverageIsExact

\* What the resolver accepts streams to the end, and the verifier agrees.
AcceptedRebuilds == AcceptedStreams /\ CheckersAgree

\* A target's name comes back from its safe form unless a dot in it is followed by a
\* dot or a bang.
NamesReturn == topic = "name" => Name!NameReturns(subject)

\* Streaming a target or a Base64 recipe in fragments of any lengths gives what the
\* whole gives: the same Base64 text, the same bytes, the same refusal.
Base64IsOfTheWhole ==
  /\ topic = "encode" => Base64!HashIsOfTheWhole(subject)
  /\ topic = "decode" => Base64!DecodesAsTheWhole(subject)

\* The Clean Stream of any list of hashes decodes to exactly that list.
CleanStreamReturns == topic = "clean" => Clean!StreamReturns(subject)

\* Both files of a recipe give back the segments that were written.
FilesReturn == topic = "files" => Files!FilesReturn(subject)

\* The two documented claims the code does not keep (see SafeName and RecipeFiles).
EveryNameReturns == topic = "name" => Name!NameIsReversible(subject)
==============================================================================
