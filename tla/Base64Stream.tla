---------------------------- MODULE Base64Stream ----------------------------
(***************************************************************************)
(* The Base64 side of Mine-Build's streams.  A target arrives in fragments *)
(* of any length; its Base64 hash is fed in groups of three bytes and a    *)
(* Base64 recipe is decoded in quartets of four characters, each with a    *)
(* carry of what does not yet make a group.                                *)
(*                                                                         *)
(* b64encode turns three bytes into a quartet and a shorter end into a     *)
(* padded one, a quartet per group whatever the bytes are: encoded text is *)
(* here the sequence of the groups it encodes.  b64decode(validate=True),  *)
(* as recent versions of Python have it, accepts whole quartets of         *)
(* letters, the last of which may end in one or two pads.                  *)
(***************************************************************************)
EXTENDS Integers, Sequences, SequencesExt

CONSTANT Pad   \* the character "="

\* The first n elements, and the rest.
Upto(s, n)  == SubSeq(s, 1, n)
After(s, n) == SubSeq(s, n + 1, Len(s))

\* s cut into groups of n and a shorter last one: encode in groups of 3.
Groups(s, n) ==
  [k \in 1 .. (Len(s) + n - 1) \div n |->
     SubSeq(s, n * (k - 1) + 1, IF n * k < Len(s) THEN n * k ELSE Len(s))]

----------------------------------------------------------------------------
(* The hash of the Base64 text while bytes are streamed.                   *)

\* Bug: the bytes that make no group are encoded at once.
UpdateHash_NoCarry(st, raw) == [text |-> st.text \o Groups(st.carry \o raw, 3), carry |-> <<>>]

\* _update_b64_hash_from_raw: as many groups as there are; the rest is carried.
UpdateHash(st, raw) ==
  LET carry  == st.carry \o raw
      usable == (Len(carry) \div 3) * 3
  IN  [text |-> st.text \o Groups(Upto(carry, usable), 3), carry |-> After(carry, usable)]

\* _finish_b64_hash_from_raw
FinishHash(st) == st.text \o Groups(st.carry, 3)

StreamedText(fragments) ==
  FinishHash(FoldLeft(LAMBDA st, f : UpdateHash(st, f), [text |-> <<>>, carry |-> <<>>], fragments))

----------------------------------------------------------------------------
(* A Base64 recipe, decoded while it is streamed.                          *)

\* The letters of a quartet before its pads are what it decodes to.
Letters(quartet) == SelectSeq(quartet, LAMBDA ch : ch # Pad)
Pads(quartet)    == Len(quartet) - Len(Letters(quartet))

\* b64decode(text, validate=True) raises, or returns the bytes of its quartets.
Decodable(text) ==
  /\ Len(text) % 4 = 0
  /\ \A i \in 1 .. Len(text) : text[i] = Pad => i > Len(text) - 2 /\ text[Len(text)] = Pad
Decoded(text) == [k \in DOMAIN Groups(text, 4) |-> Letters(Groups(text, 4)[k])]

Raised == [raised |-> TRUE, raw |-> <<>>, carry |-> <<>>, saw_padding |-> FALSE]

\* Bug: nobody remembers that a padded quartet ends the text.
Feed_ForgetsPadding(st, frag) ==
  LET carry  == st.carry \o frag
      usable == (Len(carry) \div 4) * 4
      quads  == Upto(carry, usable)
  IN  IF st.raised \/ ~Decodable(quads) THEN Raised
      ELSE [raised |-> FALSE, raw |-> st.raw \o Decoded(quads), carry |-> After(carry, usable),
            saw_padding |-> FALSE]

\* One fragment of _stream_full_representation's B64 branch.
Feed(st, frag) ==
  LET carry  == st.carry \o frag
      usable == (Len(carry) \div 4) * 4
      quads  == Upto(carry, usable)
  IN  IF st.raised \/ (st.saw_padding /\ frag # <<>>) \/ ~Decodable(quads) THEN Raised
      ELSE [raised |-> FALSE, raw |-> st.raw \o Decoded(quads), carry |-> After(carry, usable),
            saw_padding |-> st.saw_padding \/ Pad \in ToSet(quads)]

StreamedBytes(fragments) ==
  LET start == [raised |-> FALSE, raw |-> <<>>, carry |-> <<>>, saw_padding |-> FALSE]
      last  == FoldLeft(LAMBDA st, f : Feed(st, f), start, fragments)
  IN  IF last.carry # <<>> THEN Raised ELSE last

----------------------------------------------------------------------------
\* However a target is cut into fragments, the streamed Base64 hash is that of the
\* whole target's Base64.
HashIsOfTheWhole(fragments) == StreamedText(fragments) = Groups(FlattenSeq(fragments), 3)

\* However a Base64 recipe is cut into fragments, the stream raises exactly when the
\* decoder of verify_full raises on the whole text, and else gives the same bytes.
DecodesAsTheWhole(fragments) ==
  LET text   == FlattenSeq(fragments)
      result == StreamedBytes(fragments)
  IN  IF Decodable(text) THEN ~result.raised /\ result.raw = Decoded(text) ELSE result.raised
=============================================================================
