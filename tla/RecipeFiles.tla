---------------------------- MODULE RecipeFiles ----------------------------
(***************************************************************************)
(* The two files of a full recipe.  The human `.bnp` is a list of lines: a *)
(* section per run of segments of one chain, a selector per segment, with  *)
(* no target offset, network, grade or verified flag.  The machine file    *)
(* interns the sources in a block table and keeps a row per segment.       *)
(* Characters, JSON and compression are left out.                          *)
(*                                                                         *)
(* A segment is a record of a source's fields (chain, network, height,     *)
(* branch, hash, tx, verified, grade) and of a range of it (from, len, at);*)
(* tx is NoTx unless the source is a raw transaction before its block.     *)
(***************************************************************************)
EXTENDS Integers, Sequences, SequencesExt, FiniteSets

CONSTANTS
  NoTx,       \* tx of a source that is a block hash
  NoSection   \* no chain section is open

Verified   == "VERIFIED-EXPLICIT"
Unverified == "UNVERIFIED-USER-PROOF"

----------------------------------------------------------------------------
(* The human recipe.                                                       *)

Section(c)   == [line |-> "section", chain |-> c]
Close        == [line |-> "close"]
TargetLine   == [line |-> "target"]

\* A selector names the range by its first and last byte; the selector of a
\* transaction leaves out a negative height, and the branch with it.
Selector(s) ==
  [line |-> "selector", tx |-> s.tx, hash |-> s.hash,
   height |-> IF s.tx # NoTx /\ s.height < 0 THEN -1 ELSE s.height,
   branch |-> IF s.tx # NoTx /\ s.height < 0 THEN 0 ELSE s.branch,
   first |-> s.from, last |-> s.from + s.len - 1]

\* Bug: a chain that comes back is not given a section of its own.
Written_OneSection(st, s) ==
  [chain |-> s.chain,
   lines |-> st.lines \o (IF st.chain = NoSection THEN <<Section(s.chain)>> ELSE <<>>) \o <<Selector(s)>>]

\* One segment: a new section where the chain changes.
Written(st, s) ==
  [chain |-> s.chain,
   lines |-> st.lines
             \o (IF st.chain \in {s.chain, NoSection} THEN <<>> ELSE <<Close>>)
             \o (IF st.chain = s.chain THEN <<>> ELSE <<Section(s.chain)>>)
             \o <<Selector(s)>>]

\* write_bnp
Text(segs) ==
  LET start == [chain |-> NoSection, lines |-> <<>>]
      last  == FoldLeft(LAMBDA st, s : Written(st, s), start, segs)
  IN  last.lines \o (IF segs = <<>> THEN <<>> ELSE <<Close>>) \o <<TargetLine>>

\* The selector of a block hash must have a height that is a number without a
\* sign; another line is none of the patterns and is passed over.
IsSelector(l) == l.line = "selector" /\ (l.tx = NoTx => l.height >= 0)

\* The fields the text does not have get their defaults.
ReadLine(st, l) ==
  CASE l.line = "section" -> [st EXCEPT !.chain = l.chain]
    [] l.line = "close"   -> [st EXCEPT !.chain = NoSection]
    [] IsSelector(l) ->
         LET n == l.last - l.first + 1 IN
         [st EXCEPT !.at = @ + n, !.segs = Append(@,
            [chain |-> st.chain, network |-> "mainnet", height |-> l.height, branch |-> l.branch,
             hash |-> l.hash, tx |-> l.tx, verified |-> TRUE,
             grade |-> IF l.tx = NoTx THEN Verified ELSE Unverified,
             from |-> l.first, len |-> n, at |-> st.at])]
    [] OTHER -> st

\* parse_bnp
ReadText(lines) ==
  FoldLeft(LAMBDA st, l : ReadLine(st, l), [chain |-> NoSection, at |-> 0, segs |-> <<>>], lines).segs

----------------------------------------------------------------------------
(* The machine recipe.                                                     *)

SourceOf(s) ==
  [chain |-> s.chain, network |-> s.network, height |-> s.height, branch |-> s.branch,
   hash |-> s.hash, tx |-> s.tx, verified |-> s.verified, grade |-> s.grade]

\* Bug: two transactions of one origin block share an entry.
KeyOf_NoTx(s) == <<s.chain, s.network, s.height, s.branch, s.hash, s.verified, s.grade>>

\* _segment_block_key
KeyOf(s) == <<s.chain, s.network, s.height, s.branch, s.hash, s.verified, s.grade, s.tx>>

\* _compact_block_table: the first segment of a key makes the entry.
Interned(table, s) ==
  IF \E i \in DOMAIN table : KeyOf(table[i]) = KeyOf(s) THEN table ELSE Append(table, SourceOf(s))
BlockTable(segs) == FoldLeft(Interned, <<>>, segs)

\* _machine_json_chunks: [block_index, source_offset, length, target_offset]
Row(table, s) ==
  [block |-> CHOOSE i \in DOMAIN table : KeyOf(table[i]) = KeyOf(s),
   from |-> s.from, len |-> s.len, at |-> s.at]

Machine(segs) ==
  LET table == BlockTable(segs)
  IN  [block_table |-> table, rows |-> [i \in DOMAIN segs |-> Row(table, segs[i])]]

\* read_machine
ReadMachine(file) ==
  [i \in DOMAIN file.rows |->
     LET row == file.rows[i]
         b   == file.block_table[row.block]
     IN  [chain |-> b.chain, network |-> b.network, height |-> b.height, branch |-> b.branch,
          hash |-> b.hash, tx |-> b.tx, verified |-> b.verified, grade |-> b.grade,
          from |-> row.from, len |-> row.len, at |-> row.at]]

----------------------------------------------------------------------------
\* What a fragment stream uses of a segment: source bytes and place.
Material(s) == <<s.hash, s.tx, s.from, s.len, s.at>>
Place(s)    == <<s.chain, s.height, s.branch>>

\* A block at a negative height cannot be selected in text.
Selectable(segs) == \A i \in DOMAIN segs : segs[i].tx = NoTx => segs[i].height >= 0

\* The machine file gives back every segment as it was, and so does the human one,
\* but for the fields it does not have, if all its blocks can be selected: the two
\* files of a build name the same bytes in the same order.
FilesReturn(segs) ==
  LET text == ReadText(Text(segs)) IN
  /\ ReadMachine(Machine(segs)) = segs
  /\ Selectable(segs) =>
       /\ Len(text) = Len(segs)
       /\ \A i \in DOMAIN segs :
            /\ Material(text[i]) = Material(segs[i])
            /\ segs[i].height >= 0 => Place(text[i]) = Place(segs[i])

=============================================================================
