---------------------------- MODULE SourceIndex ----------------------------
(***************************************************************************)
(* TargetSpecificIndex: the index of one chain's source records that the   *)
(* pickers ask for matches.  Fragments of at most ShortMax bytes are kept  *)
(* in exact maps (the first source wins); for longer ones every source     *)
(* offset is filed under its first LongPrefix bytes and compared with the  *)
(* target byte by byte.  Records are added one at a time; the build may be *)
(* cancelled between two of them.                                          *)
(***************************************************************************)
EXTENDS Naturals, Sequences, FiniteSets

CONSTANTS
  ByteValues,  \* byte values
  MaxTarget,   \* bound: length of the target
  Sources,     \* represented source records the corpus may hold
  MaxRecords,  \* bound: records in the corpus
  MaxChunk,    \* longest fragment a recipe may use
  ShortMax,    \* longest fragment in the exact maps (3)
  LongPrefix   \* prefix length of the fan-out (4)

IndexAssumption ==
  /\ MaxTarget \in Nat /\ MaxRecords \in Nat
  /\ Sources \subseteq Seq(ByteValues)
  /\ MaxChunk \in Nat \ {0}
  /\ ShortMax \in Nat \ {0} /\ LongPrefix = ShortMax + 1

VARIABLES
  target,    \* the represented target
  records,   \* the source records added so far, in order
  short,     \* fragments of 1 .. ShortMax bytes -> <<record, offset>>
  long,      \* prefixes of LongPrefix bytes -> sequence of <<record, offset>>
  stage      \* "indexing", "ready" or "cancelled"

vars == <<target, records, short, long, stage>>

Min2(a, b) == IF a <= b THEN a ELSE b

\* data[offset : offset + length]
Slice(data, offset, length) == SubSeq(data, offset + 1, offset + length)

Offsets(data) == 0 .. Len(data) - 1
Available(data, offset) == Min2(MaxChunk, Len(data) - offset)

----------------------------------------------------------------------------
(* add_record.                                                             *)

\* The fragments of 1 .. ShortMax bytes that data can supply.
Fragments(data) ==
  UNION {{Slice(data, o, l) : l \in 1 .. Min2(ShortMax, Available(data, o))} : o \in Offsets(data)}

\* Where data first supplies the fragment.
FirstOffset(data, frag) ==
  CHOOSE o \in Offsets(data) :
    /\ Len(frag) <= Available(data, o) /\ Slice(data, o, Len(frag)) = frag
    /\ \A p \in Offsets(data) :
         Len(frag) <= Available(data, p) /\ Slice(data, p, Len(frag)) = frag => o <= p

\* The exact maps after a record: what it is the first to supply is new.
ShortWith(index, r, data) ==
  [f \in DOMAIN index \cup Fragments(data) |->
     IF f \in DOMAIN index THEN index[f] ELSE <<r, FirstOffset(data, f)>>]

\* The offsets that go into the fan-out.
LongOffsets(data) == {o \in Offsets(data) : Available(data, o) >= LongPrefix}

\* The offsets of data that carry the long prefix key, in ascending order.
PointsOf(r, data, key) ==
  LET at == {o \in LongOffsets(data) : Slice(data, o, LongPrefix) = key}
      before(o) == {p \in at : p < o}
  IN  [i \in 1 .. Cardinality(at) |-> <<r, CHOOSE o \in at : Cardinality(before(o)) = i - 1>>]

\* Bug: a colliding prefix keeps only its first points.
LongWith_FirstOnly(index, r, data) ==
  LET keys == {Slice(data, o, LongPrefix) : o \in LongOffsets(data)}
  IN  [k \in DOMAIN index \cup keys |->
         IF k \in DOMAIN index THEN index[k] ELSE PointsOf(r, data, k)]

LongWith(index, r, data) ==
  LET keys == {Slice(data, o, LongPrefix) : o \in LongOffsets(data)}
  IN  [k \in DOMAIN index \cup keys |->
         (IF k \in DOMAIN index THEN index[k] ELSE <<>>) \o PointsOf(r, data, k)]

AddRecord ==
  /\ stage = "indexing" /\ Len(records) < MaxRecords
  /\ \E data \in Sources :
       /\ records' = Append(records, data)
       /\ short' = ShortWith(short, Len(records) + 1, data)
       /\ long' = LongWith(long, Len(records) + 1, data)
  /\ UNCHANGED <<target, stage>>

Ready == stage = "indexing" /\ stage' = "ready" /\ UNCHANGED <<target, records, short, long>>

Cancel == stage = "indexing" /\ stage' = "cancelled" /\ UNCHANGED <<target, records, short, long>>

Init ==
  /\ target \in UNION {[1 .. n -> ByteValues] : n \in 0 .. MaxTarget}
  /\ records = <<>>
  /\ short = [f \in {} |-> <<>>]
  /\ long = [k \in {} |-> <<>>]
  /\ stage = "indexing"

Next == AddRecord \/ Ready \/ Cancel

Spec == Init /\ [][Next]_vars

----------------------------------------------------------------------------
(* candidate: the match for the target at pos, at most maxLen bytes long.  *)

NoMatch == [record |-> 0, offset |-> 0, length |-> 0]

\* The direct comparison behind a prefix hit.
Extent(point, pos, cap) ==
  LET data  == records[point[1]]
      limit == Min2(cap, Min2(Len(data) - point[2], Len(target) - pos))
      agree(l) == Slice(data, point[2], l) = Slice(target, pos, l)
  IN  CHOOSE l \in LongPrefix .. limit : agree(l) /\ (l = limit \/ ~agree(l + 1))

\* The first of the longest points.
LongCandidate(pos, cap) ==
  LET key    == Slice(target, pos, LongPrefix)
      points == long[key]
      extent(i) == Extent(points[i], pos, cap)
      first  == CHOOSE i \in DOMAIN points :
                  \A j \in DOMAIN points : extent(j) < extent(i) \/ (extent(j) = extent(i) /\ i <= j)
  IN  IF cap < LongPrefix \/ pos + LongPrefix > Len(target) \/ key \notin DOMAIN long THEN NoMatch
      ELSE [record |-> points[first][1], offset |-> points[first][2], length |-> extent(first)]

\* The longest fragment the exact maps know.
ShortCandidate(pos, cap) ==
  LET known == {l \in 1 .. Min2(ShortMax, cap) : Slice(target, pos, l) \in DOMAIN short}
      most  == CHOOSE l \in known : \A k \in known : k <= l
      hit   == short[Slice(target, pos, most)]
  IN  IF known = {} THEN NoMatch ELSE [record |-> hit[1], offset |-> hit[2], length |-> most]

Candidate(pos, maxLen) ==
  LET cap == Min2(MaxChunk, Min2(Len(target) - pos, maxLen))
      far == LongCandidate(pos, cap)
  IN  IF far # NoMatch THEN far ELSE ShortCandidate(pos, cap)

----------------------------------------------------------------------------
(* Properties.                                                             *)

Matches(data, offset, pos, length) ==
  /\ offset + length <= Len(data) /\ pos + length <= Len(target)
  /\ Slice(data, offset, length) = Slice(target, pos, length)

\* The longest match any added record has for the target at pos, by definition.
MatchLengths(pos) ==
  {l \in 1 .. MaxChunk :
     \E r \in DOMAIN records : \E o \in Offsets(records[r]) : Matches(records[r], o, pos, l)}
LongestMatch(pos) ==
  CHOOSE l \in {0} \cup MatchLengths(pos) : \A k \in MatchLengths(pos) : k <= l

\* The two halves of the index together answer every question of a picker with
\* a fragment that a source really has there, as long as the longest one or as the
\* picker allows, whatever mix of short, long and colliding prefixes (the match
\* tables of Picker).  Of several sources for that fragment the earliest is quoted,
\* in the order in which the records were added: the same corpus always gives the
\* same recipe.
Earlier(r1, o1, r2, o2) == r1 < r2 \/ (r1 = r2 /\ o1 < o2)
CandidateIsFirstLongest ==
  \A pos \in 0 .. Len(target) - 1, maxLen \in 1 .. MaxChunk :
    LET m == Candidate(pos, maxLen)
    IN  /\ m.length = Min2(LongestMatch(pos), maxLen)
        /\ m.length > 0 =>
             /\ Matches(records[m.record], m.offset, pos, m.length)
             /\ \A r \in DOMAIN records : \A o \in Offsets(records[r]) :
                  Earlier(r, o, m.record, m.offset) => ~Matches(records[r], o, pos, m.length)
=============================================================================
