----------------------------- MODULE RecipeCheck -----------------------------
(***************************************************************************)
(* A recipe is read twice: resolve_recipe checks its segments one by one   *)
(* and computes what they cover, and if it accepts them a fragment stream  *)
(* cuts the same segments out of their sources, with checks of its own.    *)
(*                                                                         *)
(* A full recipe (.bnp, .bnpm) must tile the target; a proof (.bnp2) may   *)
(* leave holes.  The bytes of a source are left out: a segment names a     *)
(* range of one, and every source has SourceSize bytes.  What the local    *)
(* corpus knows of the sources only adds warnings.                         *)
(***************************************************************************)
EXTENDS Integers, Sequences, FiniteSets, SequencesExt

CONSTANTS
  Segments,     \* the segments a recipe may have
  MaxSegments,  \* bound: segments of a recipe
  Totals,       \* representation sizes of the target
  SourceSize    \* represented bytes of a source

ASSUME RecipeAssumption ==
  /\ Segments \subseteq [at : Int, len : Int, from : Int]
  /\ MaxSegments \in Nat /\ Totals \subseteq Nat /\ SourceSize \in Nat

VARIABLES
  full, total, segs,    \* the recipe
  phase,                \* "resolve", then "refused" or "stream", then "done", "raised" or "cancelled"
  next,                 \* the segment to look at, in the order of target offsets
  previous_end,         \* where the segments looked at end (`expected` in the stream)
  ranges,               \* the target ranges of the segments that passed
  structural,           \* whether all passed
  covered, holes,       \* the report of the resolver
  out                   \* the fragments that the stream yielded

recipe == <<full, total, segs>>
report == <<ranges, structural, covered, holes>>
vars   == <<recipe, phase, next, previous_end, report, out>>

End(s)   == s.at + s.len
Bytes(s) == s.at .. End(s) - 1
MaxOf(a, b) == IF a > b THEN a ELSE b

\* Python's sorted(): an element is behind those that are less, and behind its equals
\* that are listed before it.
Ascending(list, Less(_, _)) ==
  LET before(i) == {j \in DOMAIN list : \/ Less(list[j], list[i])
                                        \/ ~Less(list[i], list[j]) /\ j < i}
  IN  [k \in DOMAIN list |-> list[CHOOSE i \in DOMAIN list : Cardinality(before(i)) = k - 1]]

\* Segments that do not already follow their target offsets are sorted.
Sorted(list) ==
  IF \A i \in 1 .. Len(list) - 1 : list[i].at <= list[i + 1].at THEN list
  ELSE Ascending(list, LAMBDA s, t : s.at < t.at \/ (s.at = t.at /\ s.from < t.from))

InSource(s) == s.from >= 0 /\ s.len > 0 /\ s.from + s.len <= SourceSize
InTarget(s) == s.at >= 0 /\ End(s) <= total

\* Bug: a full recipe may leave a gap.
Follows_AllowsGap(s) == IF full THEN s.at >= previous_end ELSE next = 1 \/ s.at >= previous_end

\* A full recipe goes on exactly where it was; a proof must not go back.
Follows(s) == IF full THEN s.at = previous_end ELSE next = 1 \/ s.at >= previous_end

\* Bug: a range right behind the last run starts a run of its own.
Merged_TouchingApart(list) ==
  LET extend(runs, r) ==
        IF runs = <<>> \/ r[1] >= Last(runs)[2] THEN Append(runs, r)
        ELSE Append(Front(runs), <<Last(runs)[1], MaxOf(Last(runs)[2], r[2])>>)
  IN  FoldLeft(extend, <<>>, Ascending(list, LAMBDA a, b : a[1] < b[1] \/ (a[1] = b[1] /\ a[2] < b[2])))

\* The covered runs of sorted ranges: a range that starts inside or right behind
\* the last run extends it.
Merged(list) ==
  LET extend(runs, r) ==
        IF runs = <<>> \/ r[1] > Last(runs)[2] THEN Append(runs, r)
        ELSE Append(Front(runs), <<Last(runs)[1], MaxOf(Last(runs)[2], r[2])>>)
  IN  FoldLeft(extend, <<>>, Ascending(list, LAMBDA a, b : a[1] < b[1] \/ (a[1] = b[1] /\ a[2] < b[2])))

\* What the runs leave of the target.
HolesOf(runs) ==
  LET start(i) == IF i = 1 THEN 0 ELSE runs[i - 1][2]
      stop(i)  == IF i > Len(runs) THEN total ELSE runs[i][1]
  IN  {<<start(i), stop(i)>> : i \in {k \in 1 .. Len(runs) + 1 : start(k) < stop(k)}}

----------------------------------------------------------------------------
(* resolve_recipe                                                          *)

Resolving == phase = "resolve" /\ next <= Len(segs)

Accept ==
  LET s == Sorted(segs)[next] IN
  /\ Resolving
  /\ InSource(s) /\ InTarget(s) /\ Follows(s)
  /\ previous_end' = IF full THEN End(s) ELSE MaxOf(previous_end, End(s))
  /\ ranges' = Append(ranges, <<s.at, End(s)>>)
  /\ next' = next + 1
  /\ UNCHANGED <<recipe, phase, structural, covered, holes, out>>

\* A segment that fails a check is noted and the others are still looked at.
NoteError ==
  LET s == Sorted(segs)[next] IN
  /\ Resolving
  /\ ~(InSource(s) /\ InTarget(s) /\ Follows(s))
  /\ structural' = FALSE
  /\ next' = next + 1
  /\ UNCHANGED <<recipe, phase, previous_end, ranges, covered, holes, out>>

\* verify_recipe and mine_recipe go on only with a report that is ok.
FinishReport ==
  /\ phase = "resolve" /\ next > Len(segs)
  /\ structural' = (structural /\ (full => previous_end = total))
  /\ covered' = Merged(ranges)
  /\ holes' = HolesOf(covered')
  /\ phase' = IF structural' THEN "stream" ELSE "refused"
  /\ next' = 1 /\ previous_end' = 0
  /\ UNCHANGED <<recipe, ranges, out>>

----------------------------------------------------------------------------
(* _FragmentStream and _PartialFragmentStream                              *)

\* Bug: the stream takes the segments as they are listed.
StreamOrder_AsListed == segs

StreamOrder == Sorted(segs)

Streaming == phase = "stream" /\ next <= Len(segs)

InOrder(s)  == IF full THEN s.at = previous_end ELSE s.at >= previous_end

\* source[start:end]: Python counts a negative bound from the end of the source and
\* cuts both bounds to what the source has.
Cut(i)      == LET at == IF i < 0 THEN MaxOf(i + SourceSize, 0) ELSE i
               IN  IF at > SourceSize THEN SourceSize ELSE at
Fragment(s) == Cut(s.from) .. Cut(s.from + s.len) - 1

\* One segment: its fragment is yielded, or the stream raises.
StreamSegment ==
  LET s == StreamOrder[next] IN
  /\ Streaming
  /\ IF InOrder(s) /\ Cardinality(Fragment(s)) = s.len
       THEN /\ out' = Append(out, s)
            /\ previous_end' = End(s)
            /\ next' = next + 1
            /\ UNCHANGED phase
       ELSE phase' = "raised" /\ UNCHANGED <<out, previous_end, next>>
  /\ UNCHANGED <<recipe, report>>

\* The cancel event is looked at before each segment.
Cancel ==
  /\ Streaming
  /\ phase' = "cancelled"
  /\ UNCHANGED <<recipe, next, previous_end, report, out>>

EndOfStream ==
  /\ phase = "stream" /\ next > Len(segs)
  /\ phase' = "done"
  /\ UNCHANGED <<recipe, next, previous_end, report, out>>

----------------------------------------------------------------------------
(* verifier.py                                                             *)

\* Bug: the segments are taken as they are listed.
VerifierOrder_AsListed == segs

\* By target offset alone.
VerifierOrder == Ascending(segs, LAMBDA s, t : s.at < t.at)

\* reconstruct_representation of a full recipe: where it has got to, or Raised.
Raised == -1
Rebuilt ==
  FoldLeft(LAMBDA expected, s :
             IF expected = Raised \/ Cardinality(Fragment(s)) # s.len \/ s.at # expected THEN Raised
             ELSE expected + s.len,
           0, VerifierOrder)

\* verify_full: nothing raises and the coverage is 100.
VerifiesFully == Rebuilt = total

\* verify_proof adds up the lengths.
VerifiedBytes == FoldLeft(LAMBDA sum, s : sum + s.len, 0, segs)

----------------------------------------------------------------------------
Init ==
  /\ full \in BOOLEAN /\ total \in Totals
  /\ segs \in UNION {[1 .. n -> Segments] : n \in 0 .. MaxSegments}
  /\ phase = "resolve" /\ next = 1 /\ previous_end = 0
  /\ ranges = <<>> /\ structural = TRUE
  /\ covered = <<>> /\ holes = {}
  /\ out = <<>>

Next ==
  Accept \/ NoteError \/ FinishReport \/ StreamSegment \/ Cancel \/ EndOfStream

Spec == Init /\ [][Next]_vars

----------------------------------------------------------------------------
(* Properties.                                                             *)

Listed == ToSet(segs)
Reported == phase # "resolve"

\* What a recipe should be: ranges inside source and target that share no byte
\* and, in a full recipe, leave none out.
Sound ==
  /\ \A s \in Listed : InSource(s) /\ InTarget(s)
  /\ \A i, k \in DOMAIN segs : i # k => Bytes(segs[i]) \cap Bytes(segs[k]) = {}
  /\ full => UNION {Bytes(s) : s \in Listed} = 0 .. total - 1

\* The resolver accepts exactly the sound recipes, in whatever order their
\* segments are listed.
ResolverIsExact == Reported => (structural <=> Sound)

RunBytes(r) == r[1] .. r[2] - 1

\* The report's covered runs are what the passed segments cover, apart from each
\* other, and its holes are the rest of the target; of an accepted recipe the
\* runs cover what its segments do.
CoverageIsExact ==
  Reported =>
    LET runs == UNION {RunBytes(r) : r \in ToSet(covered)} IN
    /\ runs = UNION {RunBytes(r) : r \in ToSet(ranges)}
    /\ runs \cup UNION {RunBytes(h) : h \in holes} = 0 .. total - 1
    /\ runs \cap UNION {RunBytes(h) : h \in holes} = {}
    /\ \A i \in 1 .. Len(covered) - 1 : covered[i][2] < covered[i + 1][1]
    /\ structural => runs = UNION {Bytes(s) : s \in Listed}

\* A recipe that the resolver accepted never fails in the stream, and a finished
\* stream yielded the covered bytes in the order of the target, each once; so a full
\* recipe came out whole.
AcceptedStreams ==
  /\ phase # "raised"
  /\ phase = "done" =>
       /\ \A i \in 1 .. Len(out) - 1 : End(out[i]) <= out[i + 1].at
       /\ UNION {Bytes(s) : s \in ToSet(out)} = UNION {RunBytes(r) : r \in ToSet(covered)}
       /\ full => UNION {Bytes(s) : s \in ToSet(out)} = 0 .. total - 1

\* The two checkers of a recipe agree: the verifier, which sorts and checks by rules
\* of its own, rebuilds every accepted full recipe to its last byte and no other, if no
\* segment is empty or counts from the end of its source, which only the resolver
\* refuses; of an accepted proof it computes the coverage that the resolver reports.
PlainSegments == \A s \in Listed : s.len > 0 /\ s.from >= 0
CheckersAgree ==
  Reported =>
    /\ full /\ PlainSegments => (structural <=> VerifiesFully)
    /\ ~full /\ structural =>
         VerifiedBytes = Cardinality(UNION {RunBytes(r) : r \in ToSet(covered)})
=============================================================================
