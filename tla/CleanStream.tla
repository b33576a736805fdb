---------------------------- MODULE CleanStream ----------------------------
(***************************************************************************)
(* The Clean Stream of corpus_exchange.py: hashes of a fixed width one     *)
(* after the other without separators, the zeros at both ends of each      *)
(* written as a token.  A run of at most MaxDigit zeros is "o0" and its    *)
(* length; a longer one is "o0", digits that add up to its length, "+".    *)
(* Block hashes are 64 digits wide and MaxDigit is 9.                      *)
(***************************************************************************)
EXTENDS Integers, Sequences, SequencesExt

CONSTANTS
  Width,       \* digits of a hash
  MaxDigit,    \* the longest run one digit can count
  Letter,      \* a hexadecimal digit above the decimal ones
  Oh, Plus     \* the characters "o" and "+"

CleanAssumption ==
  /\ Width \in Nat \ {0} /\ MaxDigit \in Nat \ {0}
  /\ {Letter, Oh, Plus} \cap (0 .. MaxDigit) = {}
  /\ Letter # Oh /\ Oh # Plus /\ Plus # Letter

Digits   == 0 .. MaxDigit
Counting == 1 .. MaxDigit

\* Bug: a run that takes several digits is not closed.
EncodeZeroRun_NoPlus(n) ==
  LET nines == (n - 1) \div MaxDigit
  IN  IF n <= MaxDigit THEN <<Oh, 0, n>>
      ELSE <<Oh, 0>> \o [i \in 1 .. nines |-> MaxDigit] \o <<n - nines * MaxDigit>>

\* _encode_zero_run of a positive length.
EncodeZeroRun(n) ==
  LET nines == (n - 1) \div MaxDigit
  IN  IF n <= MaxDigit THEN <<Oh, 0, n>>
      ELSE <<Oh, 0>> \o [i \in 1 .. nines |-> MaxDigit] \o <<n - nines * MaxDigit, Plus>>

\* clean_hash: the runs at both ends as tokens, the middle as it is.
CleanHash(h) ==
  LET nonzero == {i \in DOMAIN h : h[i] # 0}
      first   == CHOOSE i \in nonzero : \A j \in nonzero : i <= j
      last    == CHOOSE i \in nonzero : \A j \in nonzero : j <= i
      run(n)  == IF n > 0 THEN EncodeZeroRun(n) ELSE <<>>
  IN  IF nonzero = {} THEN EncodeZeroRun(Len(h))
      ELSE run(first - 1) \o SubSeq(h, first, last) \o run(Len(h) - last)

\* clean_stream_from_hashes
CleanText(hashes) == FlattenSeq([i \in DOMAIN hashes |-> CleanHash(hashes[i])])

----------------------------------------------------------------------------
Zeros(n) == [i \in 1 .. n |-> 0]
Total(s) == FoldLeft(LAMBDA a, b : a + b, 0, s)

\* _decode_zero_token at i, the token's "o": how many zeros, and where it ends.  With
\* digits up to the next "+" they all count, else one of them does.
Token(text, i) ==
  LET start  == i + 2
      pluses == {j \in start + 1 .. Len(text) : text[j] = Plus}
      plus   == CHOOSE j \in pluses : \A k \in pluses : j <= k
      long   == /\ pluses # {} /\ plus > start + 1
                /\ \A j \in start .. plus - 1 : text[j] \in Counting
  IN  IF long THEN [zeros |-> Total(SubSeq(text, start, plus - 1)), next |-> plus + 1]
      ELSE [zeros |-> text[start], next |-> start + 1]

StartsToken(text, i) == i < Len(text) /\ text[i] = Oh /\ text[i + 1] = 0

\* decode_clean_stream; a token without a count or a character of another kind raises.
Refused == <<Oh>>
DecodeText(text) ==
  LET rest[i \in 1 .. Len(text) + 1] ==
        IF i > Len(text) THEN <<>>
        ELSE IF StartsToken(text, i)
          THEN IF i + 2 > Len(text) \/ text[i + 2] \notin Counting THEN Refused
               ELSE Zeros(Token(text, i).zeros) \o rest[Token(text, i).next]
        ELSE IF text[i] \in Digits \cup {Letter} THEN <<text[i]>> \o rest[i + 1]
        ELSE Refused
      raw == rest[1]
  IN  IF Len(raw) % Width # 0 THEN Refused ELSE raw

----------------------------------------------------------------------------
\* The stream of any list of hashes decodes to exactly their digits, whatever
\* stands where a token ends and the next hash begins ("reversible").
StreamReturns(hashes) == DecodeText(CleanText(hashes)) = FlattenSeq(hashes)
=============================================================================
