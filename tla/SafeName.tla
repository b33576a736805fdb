------------------------------ MODULE SafeName ------------------------------
(***************************************************************************)
(* safe_notation.py: target names are kept in recipes without dots.  A dot *)
(* becomes one bang and a bang becomes two; reading takes two bangs in a   *)
(* row for a bang and a single one for a dot.                              *)
(***************************************************************************)
EXTENDS Sequences, SequencesExt

CONSTANTS Dot, Bang   \* the two characters the notation is about

\* Bug: a bang is left as it is.
SafeChar_NoEscape(ch) == IF ch = Dot THEN <<Bang>> ELSE <<ch>>

SafeChar(ch) ==
  CASE ch = Bang -> <<Bang, Bang>>
    [] ch = Dot  -> <<Bang>>
    [] OTHER     -> <<ch>>

\* encode_bnp_safe
EncodeSafe(name) == FlattenSeq([i \in DOMAIN name |-> SafeChar(name[i])])

\* decode_bnp_safe, from left to right.
DecodeSafe(text) ==
  LET rest[i \in 1 .. Len(text) + 1] ==
        CASE i > Len(text)    -> <<>>
          [] i <= Len(text) /\ text[i] # Bang -> <<text[i]>> \o rest[i + 1]
          [] i < Len(text) /\ text[i] = Bang /\ text[i + 1] = Bang -> <<Bang>> \o rest[i + 2]
          [] OTHER            -> <<Dot>> \o rest[i + 1]
  IN  rest[1]

----------------------------------------------------------------------------
\* A dot before a dot or a bang makes two bangs that mean something else.
Ambiguous(name) ==
  \E i \in 1 .. Len(name) - 1 : name[i] = Dot /\ name[i + 1] \in {Dot, Bang}

\* A name comes back from its safe form, which has no dots, exactly when no dot in
\* it is followed by a dot or a bang.
NameReturns(name) ==
  /\ Dot \notin ToSet(EncodeSafe(name))
  /\ (DecodeSafe(EncodeSafe(name)) = name) <=> ~Ambiguous(name)

\* Every name comes back ("making the transform reversible").
NameIsReversible(name) == DecodeSafe(EncodeSafe(name)) = name
=============================================================================
