------------------------------- MODULE Search -------------------------------
(***************************************************************************)
(* A build's search for a recipe has two halves that meet in the match     *)
(* table: the source index, which answers with the longest match at an     *)
(* offset, and the pickers, which are given such answers.  A behaviour     *)
(* follows one half, for every input the other can give it.                *)
(***************************************************************************)
EXTENDS Picker

CONSTANTS ByteValues, MaxTarget, Sources, MaxRecords, ShortMax, LongPrefix   \* of SourceIndex

VARIABLES
  half,        \* "pick" or "index"
  target, records, short, long, index_stage

index_vars == <<target, records, short, long, index_stage>>
all_vars   == <<half, vars, index_vars>>

Index == INSTANCE SourceIndex WITH stage <- index_stage

ASSUME SearchAssumption == Index!IndexAssumption

----------------------------------------------------------------------------
InPick(step)  == half = "pick" /\ step /\ UNCHANGED <<half, index_vars>>
InIndex(step) == half = "index" /\ step /\ UNCHANGED <<half, vars>>

\* The half that is not followed rests on an empty input.
NoInput ==
  \/ half = "pick" /\ target = <<>>
  \/ /\ half = "index"
     /\ longest = [c \in Chains |-> [p \in Positions |-> 0]]
     /\ weights = NoWeights /\ request = 100

SearchInit == NoInput /\ Init /\ Index!Init

SearchNext == InPick(Next) \/ InIndex(Index!Next)

SearchSpec == SearchInit /\ [][SearchNext]_all_vars

----------------------------------------------------------------------------
\* The index answers with the longest match, from the earliest source; the
\* properties of the pickers are those of Picker.
CandidateIsFirstLongest == Index!CandidateIsFirstLongest
=============================================================================
