------------------------ MODULE CorpusDatabaseProofs ------------------------
(***************************************************************************)
(* What holds of the corpus database for every set of connections, keys,   *)
(* chains, batches, blocks and relations.                                  *)
(*                                                                         *)
(* A verified row is never attributed to an unverified source, and nothing *)
(* known of a block is forgotten except by pruning its chain: the          *)
(* inductive invariant relates the committed table to the open             *)
(* transaction.  The draft keeps everything the committed table knows, it  *)
(* is as well vouched for, and with no transaction open it is the table.   *)
(*                                                                         *)
(* The block table implements CorpusLedger: the table a connection reads   *)
(* is the one its ledger operation has reached, so that its commit is the  *)
(* rest of that operation in one step.  A run is a function of the number  *)
(* of records handled, and a lemma proves by induction that it ends where  *)
(* the ledger's recursive definition does.                                 *)
(*                                                                         *)
(* What the builds make of a corpus is a fact about the modes and not      *)
(* about the behaviour: it holds of every table they could read.           *)
(*                                                                         *)
(* The TX-Link tables hold whole relations, change by whole files and are  *)
(* restored by their backups.  The invariant follows a relation on each of *)
(* its ways: on the way in every connection stores whole relations, and    *)
(* the tables it sees are the committed ones after those it has stored; on *)
(* the way out a list that no change overlapped is the beginning of what   *)
(* the tables hold.                                                        *)
(***************************************************************************)
EXTENDS CorpusDatabase, FiniteSetTheorems, WellFoundedInduction, TLAPS

----------------------------------------------------------------------------
(* Induction over the natural numbers, for what is computed in steps.      *)

\* The least of some natural numbers.
LEMMA LeastNat ==
  ASSUME NEW S, S \subseteq Nat, S # {}
  PROVE  \E m \in S : \A k \in S : m <= k
<1>1. PICK m \in S : \A k \in S : ~(<<k, m>> \in OpToRel(<, Nat))
  BY NatLessThanWellFounded, WFMin
<1>2. \A k \in S : k < m => <<k, m>> \in OpToRel(<, Nat)
  BY DEF OpToRel
<1>3. \A k \in S : ~(k < m)
  BY <1>1, <1>2, Zenon
<1>4. QED
  BY <1>3

\* A set of natural numbers that holds 0 and with each number the next one holds all.
LEMMA Induction ==
  ASSUME NEW S, 0 \in S, \A n \in Nat : n \in S => n + 1 \in S
  PROVE  Nat \subseteq S
<1> SUFFICES ASSUME Nat \ S # {} PROVE FALSE
  OBVIOUS
<1>1. PICK m \in Nat \ S : \A k \in Nat \ S : m <= k
  BY LeastNat
<1>2. m # 0
  OBVIOUS
<1>3. m - 1 \in Nat /\ m - 1 \notin S
  BY <1>1, <1>2
<1>4. QED
  BY <1>1, <1>3

----------------------------------------------------------------------------
(* The block table.                                                        *)

Settled == writer = NoConn => draft = blocks /\ offered = vouched

DraftKeeps ==
  \A k \in Keys : blocks[k] = NoRow \/ Survives(blocks[k], draft[k])

\* A resolved starter record is still the head of the list.
AddPending == \A c \in Conns : op[c] = "starterAdd" => todo[c] # <<>>

TablesInv ==
  /\ Settled
  /\ DraftKeeps
  /\ OriginBacked(blocks, vouched)
  /\ OriginBacked(draft, offered)

IInv == TypeOK /\ AddPending /\ TablesInv

----------------------------------------------------------------------------
(* Lemmas about the upsert.                                                *)

\* Merging a delivered record into a row yields a row.
LEMMA RowTyped ==
  ASSUME NEW old \in Row, NEW r \in Record
  PROVE  RowOf(r) \in Row /\ Merge(old, r) \in Row
BY DEF RowOf, Merge, Outranks, Row, Record

\* What each field of a merged row holds.
LEMMA MergeFields ==
  ASSUME NEW old \in Row, NEW r \in Record
  PROVE  /\ Merge(old, r).verified <=> old.verified \/ r.verified
         /\ Merge(old, r).origin = IF r.verified \/ ~old.verified THEN r.origin ELSE old.origin
         /\ Merge(old, r).stamp = IF r.stamp # NoStamp THEN r.stamp ELSE old.stamp
<1>1. Merge(old, r).verified = (old.verified \/ r.verified)
  BY Zenon DEF Merge
<1>2. Merge(old, r).origin = IF Outranks(r, old) THEN r.origin ELSE old.origin
  BY DEF Merge
<1>3. Merge(old, r).stamp = IF r.stamp # NoStamp THEN r.stamp ELSE old.stamp
  BY DEF Merge
<1>4. QED
  BY <1>1, <1>2, <1>3, Zenon DEF Outranks

\* An upsert keeps the table well typed and touches one key.
LEMMA UpsertTyped ==
  ASSUME NEW t \in [Keys -> Row \cup {NoRow}], NEW r \in Record
  PROVE  /\ Upsert(t, r) \in [Keys -> Row \cup {NoRow}]
         /\ \A k \in Keys : k # r.key => Upsert(t, r)[k] = t[k]
         /\ Upsert(t, r)[r.key] = IF t[r.key] = NoRow THEN RowOf(r) ELSE Merge(t[r.key], r)
<1>1. r.key \in Keys
  BY DEF Record
<1>2. RowOf(r) \in Row
  BY DEF RowOf, Row, Record
<1>3. t[r.key] # NoRow => Merge(t[r.key], r) \in Row
  BY <1>1, RowTyped
<1>4. QED
  BY <1>1, <1>2, <1>3 DEF Upsert

\* What the table knew of a block it still knows after any upsert.
LEMMA UpsertKeeps ==
  ASSUME NEW base \in [Keys -> Row \cup {NoRow}],
         NEW t \in [Keys -> Row \cup {NoRow}], NEW r \in Record,
         \A k \in Keys : base[k] = NoRow \/ Survives(base[k], t[k])
  PROVE  \A k \in Keys : base[k] = NoRow \/ Survives(base[k], Upsert(t, r)[k])
<1> SUFFICES ASSUME NEW k \in Keys, base[k] # NoRow
             PROVE  Survives(base[k], Upsert(t, r)[k])
  OBVIOUS
<1>1. CASE k # r.key
  BY <1>1, UpsertTyped
<1>2. CASE k = r.key
  <2>1. t[k] # NoRow /\ t[k] \in Row /\ Survives(base[k], t[k])
    BY DEF Survives
  <2>2. Upsert(t, r)[k] = Merge(t[k], r)
    BY <1>2, <2>1, UpsertTyped
  <2>3. Merge(t[k], r) # NoRow
    BY <2>1, RowTyped, CorpusAssumption
  <2>4. base[k].verified => Merge(t[k], r).verified
    BY <2>1, MergeFields, Zenon DEF Survives
  <2>5. base[k].stamp # NoStamp => Merge(t[k], r).stamp # NoStamp
    BY <2>1, MergeFields DEF Survives
  <2>6. QED
    BY <2>2, <2>3, <2>4, <2>5, Zenon DEF Survives
<1>3. QED
  BY <1>1, <1>2

\* An upsert keeps verified rows attributed to verified deliveries, once the
\* delivered record counts among them when it is itself verified.
LEMMA UpsertBacked ==
  ASSUME NEW t \in [Keys -> Row \cup {NoRow}], NEW r \in Record,
         NEW records, OriginBacked(t, records)
  PROVE  OriginBacked(Upsert(t, r), IF r.verified THEN records \cup {r} ELSE records)
<1> DEFINE backing == IF r.verified THEN records \cup {r} ELSE records
<1> SUFFICES ASSUME NEW k \in Keys, IsVerified(Upsert(t, r), k)
             PROVE  \E d \in backing : d.key = k /\ d.origin = Upsert(t, r)[k].origin
  BY DEF OriginBacked
<1>0. records \subseteq backing /\ (r.verified => r \in backing)
  OBVIOUS
<1> HIDE DEF backing
<1>1. CASE k # r.key
  <2>1. Upsert(t, r)[k] = t[k]
    BY <1>1, UpsertTyped
  <2>2. IsVerified(t, k)
    BY <2>1 DEF IsVerified
  <2>3. QED
    BY <1>0, <2>1, <2>2 DEF OriginBacked
<1>2. CASE k = r.key /\ r.verified
  <2>1. ASSUME t[k] = NoRow PROVE Upsert(t, r)[k].origin = r.origin
    <3>1. Upsert(t, r)[k] = RowOf(r)
      BY <1>2, <2>1, UpsertTyped
    <3>2. QED
      BY <3>1 DEF RowOf
  <2>2. ASSUME t[k] # NoRow PROVE Upsert(t, r)[k].origin = r.origin
    <3>1. t[k] \in Row /\ Upsert(t, r)[k] = Merge(t[k], r)
      BY <1>2, <2>2, UpsertTyped
    <3>2. Merge(t[k], r).origin = r.origin
      BY <1>2, <3>1, MergeFields
    <3>3. QED
      BY <3>1, <3>2
  <2>3. Upsert(t, r)[k].origin = r.origin
    BY <2>1, <2>2
  <2>4. QED
    BY <1>0, <1>2, <2>3
<1>3. CASE k = r.key /\ ~r.verified
  <2>1. t[k] # NoRow
    <3>1. t[k] = NoRow => Upsert(t, r)[k] = RowOf(r)
      BY <1>3, UpsertTyped
    <3>2. ~RowOf(r).verified
      BY <1>3 DEF RowOf
    <3>3. QED
      BY <3>1, <3>2 DEF IsVerified
  <2>2. t[k] \in Row /\ Upsert(t, r)[k] = Merge(t[k], r)
    BY <1>3, <2>1, UpsertTyped
  <2>3. t[k].verified
    <3>1. Merge(t[k], r).verified
      BY <2>2 DEF IsVerified
    <3>2. QED
      BY <1>3, <2>2, <3>1, MergeFields, Zenon
  <2>4. Upsert(t, r)[k].origin = t[k].origin
    BY <1>3, <2>2, <2>3, MergeFields
  <2>5. PICK d \in records : d.key = k /\ d.origin = t[k].origin
    BY <2>1, <2>3 DEF OriginBacked, IsVerified
  <2>6. QED
    BY <1>0, <2>4, <2>5
<1>4. QED
  BY <1>1, <1>2, <1>3 DEF Record

----------------------------------------------------------------------------
(* The invariant.                                                          *)

tables == <<blocks, writer, draft, vouched, offered>>

LEMMA TablesFrame == TablesInv /\ UNCHANGED tables => TablesInv'
<1> SUFFICES ASSUME TablesInv, UNCHANGED tables PROVE TablesInv'
  OBVIOUS
<1>1. /\ blocks' = blocks /\ writer' = writer /\ draft' = draft
      /\ vouched' = vouched /\ offered' = offered
  BY DEF tables
<1>2. Settled' /\ DraftKeeps'
  BY <1>1 DEF TablesInv, Settled, DraftKeeps
<1>3. OriginBacked(blocks, vouched)' /\ OriginBacked(draft, offered)'
  BY <1>1 DEF TablesInv, OriginBacked, IsVerified
<1>4. QED
  BY <1>2, <1>3 DEF TablesInv

LEMMA InitIInv == Init => IInv
<1> SUFFICES ASSUME Init PROVE IInv
  OBVIOUS
<1>1. TypeOK
  BY CorpusAssumption DEF Init, TypeOK, Ops
<1>2. Settled /\ DraftKeeps /\ AddPending
  BY DEF Init, Settled, DraftKeeps, AddPending
<1>3. OriginBacked(blocks, vouched) /\ OriginBacked(draft, offered)
  BY DEF Init, OriginBacked, IsVerified
<1>4. QED
  BY <1>1, <1>2, <1>3 DEF IInv, TablesInv

\* Delivering one record keeps the tables typed and related as before.
LEMMA DeliverTables ==
  ASSUME TypeOK, TablesInv, NEW c \in Conns, NEW r \in Record, Deliver(c, r)
  PROVE  /\ draft' \in [Keys -> Row \cup {NoRow}]
         /\ offered' \subseteq Record
         /\ writer' = c /\ blocks' = blocks /\ vouched' = vouched
         /\ TablesInv'
<1>1. View(c) = draft /\ Vouchers(c) = offered
  BY CorpusAssumption DEF TablesInv, Settled, Deliver, View, Vouchers
<1>2. /\ draft' = Upsert(draft, r) /\ writer' = c
      /\ offered' = IF r.verified THEN offered \cup {r} ELSE offered
      /\ blocks' = blocks /\ vouched' = vouched
  BY <1>1 DEF Deliver
<1>3. /\ blocks \in [Keys -> Row \cup {NoRow}] /\ draft \in [Keys -> Row \cup {NoRow}]
      /\ offered \subseteq Record
  BY DEF TypeOK
<1>4. draft' \in [Keys -> Row \cup {NoRow}] /\ offered' \subseteq Record
  BY <1>2, <1>3, UpsertTyped
<1>5. DraftKeeps' /\ Settled'
  BY <1>2, <1>3, UpsertKeeps, CorpusAssumption DEF TablesInv, DraftKeeps, Settled
<1>6. OriginBacked(draft, offered)'
  <2>1. OriginBacked(Upsert(draft, r), IF r.verified THEN offered \cup {r} ELSE offered)
    BY <1>3, UpsertBacked DEF TablesInv
  <2>2. QED
    BY <1>2, <2>1 DEF OriginBacked, IsVerified
<1>7. OriginBacked(blocks, vouched)'
  BY <1>2 DEF TablesInv, OriginBacked, IsVerified
<1>8. QED
  BY <1>2, <1>4, <1>5, <1>6, <1>7 DEF TablesInv

LEMMA NextIInv == IInv /\ [Next]_vars => IInv'
<1> SUFFICES ASSUME TypeOK, AddPending, TablesInv, [Next]_vars
             PROVE  TypeOK' /\ AddPending' /\ TablesInv'
  BY DEF IInv
<1>1. CASE UNCHANGED vars
  BY <1>1, TablesFrame DEF vars, tables, TypeOK, AddPending
<1>2. ASSUME NEW c \in Conns, BeginAdd(c) PROVE TypeOK' /\ AddPending' /\ TablesInv'
  BY <1>2, TablesFrame, CorpusAssumption DEF BeginAdd, tables, TypeOK, AddPending, Ops
<1>3. ASSUME NEW c \in Conns, AddOne(c) PROVE TypeOK' /\ AddPending' /\ TablesInv'
  <2>1. Head(todo[c]) \in Record /\ Tail(todo[c]) \in Seq(Record)
    BY <1>3 DEF AddOne, TypeOK
  <2>2. Deliver(c, Head(todo[c]))
    BY <1>3 DEF AddOne
  <2>3. TypeOK'
    BY <1>3, <2>1, <2>2, DeliverTables DEF AddOne, TypeOK
  <2>4. AddPending'
    BY <1>3 DEF AddOne, AddPending, TypeOK
  <2>5. QED
    BY <2>1, <2>2, <2>3, <2>4, DeliverTables
<1>4. ASSUME NEW c \in Conns, BeginStarter(c) PROVE TypeOK' /\ AddPending' /\ TablesInv'
  BY <1>4, TablesFrame, CorpusAssumption DEF BeginStarter, tables, TypeOK, AddPending, Ops
<1>5. ASSUME NEW c \in Conns, StarterResolve(c) PROVE TypeOK' /\ AddPending' /\ TablesInv'
  <2>1. todo[c] # <<>> /\ Tail(todo[c]) \in Seq(Record)
    BY <1>5 DEF StarterResolve, TypeOK
  <2>2. TypeOK'
    BY <1>5, <2>1 DEF StarterResolve, TypeOK, Ops
  <2>3. AddPending'
    BY <1>5, <2>1 DEF StarterResolve, TypeOK, AddPending
  <2>4. QED
    BY <1>5, <2>2, <2>3, TablesFrame DEF StarterResolve, tables
<1>6. ASSUME NEW c \in Conns, StarterAdd(c) PROVE TypeOK' /\ AddPending' /\ TablesInv'
  <2>1. todo[c] # <<>>
    BY <1>6 DEF StarterAdd, AddPending
  <2>2. Head(todo[c]) \in Record /\ Tail(todo[c]) \in Seq(Record)
    BY <2>1 DEF TypeOK
  <2>3. Deliver(c, Head(todo[c]))
    BY <1>6 DEF StarterAdd
  <2>4. TypeOK'
    BY <1>6, <2>2, <2>3, DeliverTables DEF StarterAdd, TypeOK, Ops
  <2>5. AddPending'
    BY <1>6 DEF StarterAdd, AddPending, TypeOK
  <2>6. QED
    BY <2>2, <2>3, <2>4, <2>5, DeliverTables
<1>7. ASSUME NEW c \in Conns, Prune(c) PROVE TypeOK' /\ AddPending' /\ TablesInv'
  <2>1. PICK chain \in Chains : /\ blocks' = Pruned(blocks, chain)
                                /\ vouched' = {r \in vouched : ChainOf[r.key] # chain}
    BY <1>7 DEF Prune
  <2>2. draft' = blocks' /\ offered' = vouched' /\ UNCHANGED <<writer, op, todo>>
    BY <1>7 DEF Prune
  <2>3. TypeOK'
    BY <2>1, <2>2 DEF TypeOK, Pruned
  <2>4. AddPending' /\ Settled'
    BY <2>2 DEF AddPending, Settled
  <2>5. DraftKeeps'
    BY <2>2 DEF DraftKeeps, Survives
  <2>6. OriginBacked(blocks, vouched)'
    <3> SUFFICES ASSUME NEW k \in Keys, IsVerified(blocks', k)
                 PROVE  \E r \in vouched' : r.key = k /\ r.origin = blocks'[k].origin
      BY DEF OriginBacked, IsVerified
    <3>1. ChainOf[k] # chain /\ blocks'[k] = blocks[k]
      BY <2>1 DEF IsVerified, Pruned
    <3>2. PICK r \in vouched : r.key = k /\ r.origin = blocks[k].origin
      BY <3>1 DEF TablesInv, OriginBacked, IsVerified
    <3>3. QED
      BY <2>1, <3>1, <3>2
  <2>7. QED
    BY <2>2, <2>3, <2>4, <2>5, <2>6 DEF TablesInv, OriginBacked, IsVerified
<1>8. ASSUME NEW c \in Conns, Commit(c) PROVE TypeOK' /\ AddPending' /\ TablesInv'
  <2>1. TypeOK' /\ AddPending'
    BY <1>8 DEF Commit, Release, TypeOK, Ops, AddPending
  <2>2. CASE writer = c
    <3>1. /\ blocks' = draft /\ vouched' = offered /\ writer' = NoConn
          /\ draft' = draft /\ offered' = offered
      BY <1>8, <2>2 DEF Commit
    <3>2. Settled' /\ DraftKeeps'
      BY <3>1 DEF Settled, DraftKeeps, Survives
    <3>3. OriginBacked(blocks, vouched)' /\ OriginBacked(draft, offered)'
      BY <3>1 DEF TablesInv, OriginBacked, IsVerified
    <3>4. QED
      BY <2>1, <3>2, <3>3 DEF TablesInv
  <2>3. CASE writer # c
    BY <1>8, <2>1, <2>3, TablesFrame DEF Commit, tables
  <2>4. QED
    BY <2>2, <2>3
<1>9. ASSUME NEW c \in Conns, Rollback(c) PROVE TypeOK' /\ AddPending' /\ TablesInv'
  <2>1. TypeOK' /\ AddPending'
    BY <1>9 DEF Rollback, Release, TypeOK, Ops, AddPending
  <2>2. CASE writer = c
    <3>1. /\ draft' = blocks /\ offered' = vouched /\ writer' = NoConn
          /\ blocks' = blocks /\ vouched' = vouched
      BY <1>9, <2>2 DEF Rollback
    <3>2. Settled' /\ DraftKeeps'
      BY <3>1 DEF Settled, DraftKeeps, Survives
    <3>3. OriginBacked(blocks, vouched)' /\ OriginBacked(draft, offered)'
      BY <3>1 DEF TablesInv, OriginBacked, IsVerified
    <3>4. QED
      BY <2>1, <3>2, <3>3 DEF TablesInv
  <2>3. CASE writer # c
    BY <1>9, <2>1, <2>3, TablesFrame DEF Rollback, tables
  <2>4. QED
    BY <2>2, <2>3
<1>10. QED
  BY <1>1, <1>2, <1>3, <1>4, <1>5, <1>6, <1>7, <1>8, <1>9 DEF Next, Step

LEMMA Invariance == Spec => []IInv
<1>1. QED
  BY InitIInv, NextIInv, PTL DEF Spec

\* The corpus's variables always hold values of their types, whatever the
\* interleaving of connections, commits, rollbacks and prunes (corpus.py).
THEOREM TypeCorrect == Spec => []TypeOK
<1>1. IInv => TypeOK
  BY DEF IInv
<1>2. QED
  BY <1>1, Invariance, PTL

\* A verified row's source and status always come from a record that was
\* delivered verified: CorpusDB.add's CASE expressions never let a weaker
\* source put its name on a stronger row.
THEOREM VerifiedRowsAreVouched == Spec => []SourceVouched
<1>1. IInv => SourceVouched
  BY DEF IInv, TablesInv, SourceVouched
<1>2. QED
  BY <1>1, Invariance, PTL

\* Verification and timestamps are lost only to a prune of their own chain:
\* neither a commit of another connection nor a rollback takes them back.
THEOREM NothingForgotten == Spec => OnlyPruneForgets
<1> DEFINE Kept == \A k \in Keys : \/ blocks[k] = NoRow
                                   \/ Survives(blocks[k], blocks'[k])
                                   \/ blocks' = Pruned(blocks, ChainOf[k])
<1>1. IInv /\ [Next]_vars => [Kept]_vars
  <2> SUFFICES ASSUME TypeOK, TablesInv, [Next]_vars, NEW k \in Keys, blocks[k] # NoRow
               PROVE  Survives(blocks[k], blocks'[k]) \/ blocks' = Pruned(blocks, ChainOf[k])
    BY DEF IInv
  <2>1. CASE blocks' = blocks
    BY <2>1 DEF Survives
  <2>2. CASE blocks' = draft
    BY <2>2 DEF TablesInv, DraftKeeps
  <2>3. ASSUME NEW chain \in Chains, blocks' = Pruned(blocks, chain)
        PROVE  Survives(blocks[k], blocks'[k]) \/ blocks' = Pruned(blocks, ChainOf[k])
    BY <2>3 DEF Pruned, Survives
  <2>4. blocks' = blocks \/ blocks' = draft \/ \E chain \in Chains : blocks' = Pruned(blocks, chain)
    BY DEF Next, Step, vars, BeginAdd, AddOne, BeginStarter, StarterResolve, StarterAdd,
           Deliver, Prune, Commit, Rollback
  <2>5. QED
    BY <2>1, <2>2, <2>3, <2>4
<1>2. QED
  BY <1>1, Invariance, PTL DEF Spec, OnlyPruneForgets

\* The block table of a database behaves as CorpusStore says.
LEMMA IsStore == DatabaseSpec => Spec
<1>1. DatabaseInit => Init
  BY DEF DatabaseInit
<1>2. [DatabaseNext]_all_vars => [Next]_vars
  BY DEF DatabaseNext, InBlocks, InLinks, RowChanges, all_vars
<1>3. QED
  BY <1>1, <1>2, PTL DEF DatabaseSpec, Spec

\* The block table, the connections and their transactions have their types.
THEOREM TablesAreTyped == DatabaseSpec => []TypeOK
BY IsStore, TypeCorrect, PTL

\* No operation on the database attributes a verified row to a source that never vouched
\* for it.
THEOREM SourcesAreVouched == DatabaseSpec => []SourceVouched
BY IsStore, VerifiedRowsAreVouched, PTL

\* Only a prune makes the database forget a row, or what it knows of one.
THEOREM NothingIsForgotten == DatabaseSpec => OnlyPruneForgets
BY IsStore, NothingForgotten

----------------------------------------------------------------------------
(* The block table implements its ledger.                                  *)

\* f holds the tables that the first n of the records lead to from t, when the chosen
\* ones are applied.
IsRun(f, t, records, chosen, n) ==
  /\ f = [i \in 0 .. n |-> f[i]]
  /\ f[0] = t
  /\ \A i \in 1 .. n : f[i] = IF i \in chosen THEN Upsert(f[i - 1], records[i]) ELSE f[i - 1]

\* A run over all records ends where the ledger's operation does.
LEMMA RunApplies ==
  ASSUME NEW t, NEW records \in Seq(Record), NEW chosen, NEW f,
         IsRun(f, t, records, chosen, Len(records))
  PROVE  Ledger!ApplyAll(t, records, chosen) = f[Len(records)]
<1> DEFINE Def(g) == [n \in 0 .. Len(records) |->
                        IF n = 0 THEN t
                        ELSE IF n \in chosen THEN Upsert(g[n - 1], records[n]) ELSE g[n - 1]]
           after  == CHOOSE g : g = Def(g)
<1>1. Ledger!ApplyAll(t, records, chosen) = after[Len(records)]
  BY DEF Ledger!ApplyAll
<1>2. f = Def(f)
  <2>1. Len(records) \in Nat
    OBVIOUS
  <2>2. ASSUME NEW n \in 0 .. Len(records)
        PROVE  f[n] = IF n = 0 THEN t
                      ELSE IF n \in chosen THEN Upsert(f[n - 1], records[n]) ELSE f[n - 1]
    <3>1. CASE n = 0
      BY <3>1 DEF IsRun
    <3>2. CASE n # 0
      <4>1. n \in 1 .. Len(records)
        BY <2>1, <3>2
      <4>2. QED
        BY <4>1, <3>2 DEF IsRun
    <3>3. QED
      BY <3>1, <3>2
  <2>3. f = [n \in 0 .. Len(records) |-> f[n]]
    BY DEF IsRun
  <2>4. QED
    BY <2>2, <2>3
<1>3. after = Def(after)
  <2> HIDE DEF Def
  <2>1. \E g : g = Def(g)
    BY <1>2
  <2>2. QED
    BY <2>1
<1> HIDE DEF after
<1> DEFINE S == {n \in Nat : n <= Len(records) => after[n] = f[n]}
<1>4. Nat \subseteq S
  <2>1. 0 \in S
    BY <1>2, <1>3
  <2>2. ASSUME NEW n \in Nat, n \in S PROVE n + 1 \in S
    <3> SUFFICES ASSUME n + 1 <= Len(records) PROVE after[n + 1] = f[n + 1]
      OBVIOUS
    <3>1. n + 1 \in 0 .. Len(records) /\ n + 1 # 0 /\ n + 1 - 1 = n /\ after[n] = f[n]
      BY <2>2
    <3>2. QED
      BY <1>2, <1>3, <3>1
  <2> HIDE DEF S
  <2>3. QED
    BY <2>1, <2>2, Induction
<1>5. QED
  BY <1>1, <1>4

\* A run that applies nothing stays where it is.
LEMMA EmptyRun ==
  ASSUME NEW t, NEW records, NEW n \in Nat
  PROVE  IsRun([i \in 0 .. n |-> t], t, records, {}, n)
BY DEF IsRun

\* The first n of the records, the chosen ones applied, lead from t to last.
Reaches(t, records, chosen, n, last) ==
  \E f : IsRun(f, t, records, chosen, n) /\ f[n] = last

\* A run goes on with the next record, or past it.
LEMMA NextOfRun ==
  ASSUME NEW t, NEW records, NEW n \in Nat, NEW chosen, chosen \subseteq 1 .. n, NEW f,
         IsRun(f, t, records, chosen, n)
  PROVE  /\ Reaches(t, records, chosen \cup {n + 1}, n + 1, Upsert(f[n], records[n + 1]))
         /\ Reaches(t, records, chosen, n + 1, f[n])
<1>1. ASSUME NEW more, NEW last,
             \/ more = chosen \cup {n + 1} /\ last = Upsert(f[n], records[n + 1])
             \/ more = chosen /\ last = f[n]
      PROVE  Reaches(t, records, more, n + 1, last)
  <2> DEFINE g == [i \in 0 .. n + 1 |-> IF i = n + 1 THEN last ELSE f[i]]
  <2>1. g = [i \in 0 .. n + 1 |-> g[i]]
    OBVIOUS
  <2>2. g[0] = t
    BY DEF IsRun
  <2>3. ASSUME NEW i \in 1 .. n + 1
        PROVE  g[i] = IF i \in more THEN Upsert(g[i - 1], records[i]) ELSE g[i - 1]
    <3>1. CASE i = n + 1
      <4>1. g[i] = last /\ g[i - 1] = f[n]
        BY <3>1
      <4>2. n + 1 \notin chosen
        OBVIOUS
      <4>3. QED
        BY <1>1, <3>1, <4>1, <4>2, Zenon
    <3>2. CASE i # n + 1
      <4>1. i \in 1 .. n
        BY <3>2
      <4>2. g[i] = f[i] /\ g[i - 1] = f[i - 1] /\ (i \in more <=> i \in chosen)
        BY <1>1, <3>2, <4>1
      <4>3. QED
        BY <4>1, <4>2, Zenon DEF IsRun
    <3>3. QED
      BY <3>1, <3>2
  <2>4. g[n + 1] = last
    OBVIOUS
  <2> HIDE DEF g
  <2>5. QED
    BY <2>1, <2>2, <2>3, <2>4, Zenon DEF IsRun, Reaches
<1>2. \A more, last : more = chosen /\ last = f[n] =>
                        Reaches(t, records, more, n + 1, last)
  BY <1>1, Zenon
<1>3. \A more, last : more = chosen \cup {n + 1} /\ last = Upsert(f[n], records[n + 1]) =>
                        Reaches(t, records, more, n + 1, last)
  BY <1>1, Zenon
<1>4. QED
  BY <1>2, <1>3, Zenon

\* What is left of a sequence behind its head.
LEMMA TailOf ==
  ASSUME NEW S, NEW s \in Seq(S), s # <<>>
  PROVE  /\ Len(s) \in Nat /\ Len(s) > 0 /\ Head(s) = s[1]
         /\ Tail(s) \in Seq(S) /\ Len(Tail(s)) = Len(s) - 1
         /\ \A i \in 1 .. Len(s) - 1 : Tail(s)[i] = s[i + 1]
OBVIOUS

\* Connection c has still to deliver what follows the first n of the records; it reads
\* the table after those of them it delivered, and has the lock if there are any.
AtRecord(c, records, chosen, n, f) ==
  /\ Len(todo[c]) = Len(records) - n
  /\ \A i \in 1 .. Len(todo[c]) : todo[c][i] = records[n + i]
  /\ chosen \subseteq 1 .. n
  /\ IsRun(f, blocks, records, chosen, n)
  /\ View(c) = f[n]
  /\ writer # c => chosen = {}

\* Where an import and a starter import stand.
Adding(c) ==
  op[c] = "add" =>
    \E b \in Batches : \E n \in 0 .. Len(b) : \E f : AtRecord(c, b, 1 .. n, n, f)

Starting(c) ==
  op[c] \in {"starter", "starterAdd"} =>
    \E n \in 0 .. Len(Starter) : \E chosen, f : AtRecord(c, Starter, chosen, n, f)

\* What a step that leaves the connection and what it reads alone does not change.
LEMMA AtRecordFrame ==
  ASSUME NEW c \in Conns, todo'[c] = todo[c], blocks' = blocks, View(c)' = View(c),
         writer' = writer \/ (writer # c /\ writer' # c),
         NEW records, NEW chosen, NEW n, NEW f, AtRecord(c, records, chosen, n, f)
  PROVE  AtRecord(c, records, chosen, n, f)'
<1>1. IsRun(f, blocks, records, chosen, n)'
  BY DEF AtRecord, IsRun
<1>2. (writer # c => chosen = {})'
  BY DEF AtRecord
<1>3. QED
  BY <1>1, <1>2 DEF AtRecord

\* Every connection stands where its operation has taken it.
LedgerInv == \A c \in Conns : Adding(c) /\ Starting(c)

\* A connection without the lock has delivered nothing and follows any change of the
\* table.
LEMMA OthersFollow ==
  ASSUME NEW c \in Conns, Adding(c), Starting(c),
         op'[c] = op[c], todo'[c] = todo[c], writer # c, writer' # c
  PROVE  Adding(c)' /\ Starting(c)'
<1>1. ASSUME NEW records, NEW chosen, NEW n \in Nat, NEW f, AtRecord(c, records, chosen, n, f)
      PROVE  chosen = {} /\ AtRecord(c, records, {}, n, [i \in 0 .. n |-> blocks])'
  <2>1. IsRun([i \in 0 .. n |-> blocks], blocks, records, {}, n)'
    BY EmptyRun DEF IsRun
  <2>2. View(c)' = blocks'
    BY DEF View
  <2>3. QED
    BY <1>1, <2>1, <2>2 DEF AtRecord
<1>2. Adding(c)'
  <2> SUFFICES ASSUME op[c] = "add"
               PROVE  \E b \in Batches : \E n \in 0 .. Len(b) : \E f : AtRecord(c, b, 1 .. n, n, f)'
    BY DEF Adding
  <2>1. PICK b \in Batches : \E n \in 0 .. Len(b) : \E f : AtRecord(c, b, 1 .. n, n, f)
    BY DEF Adding
  <2>2a. PICK n \in 0 .. Len(b) : \E f : AtRecord(c, b, 1 .. n, n, f)
    BY <2>1
  <2>2. PICK f : AtRecord(c, b, 1 .. n, n, f)
    BY <2>2a
  <2>3. 1 .. n = {} /\ AtRecord(c, b, {}, n, [i \in 0 .. n |-> blocks])'
    <3>1. n \in Nat
      OBVIOUS
    <3>2. QED
      BY <1>1, <2>2, <3>1, Zenon
  <2>4. QED
    BY <2>3, Zenon
<1>3. Starting(c)'
  <2> SUFFICES ASSUME op[c] \in {"starter", "starterAdd"}
               PROVE  \E n \in 0 .. Len(Starter) : \E chosen, f : AtRecord(c, Starter, chosen, n, f)'
    BY DEF Starting
  <2>1a. PICK n \in 0 .. Len(Starter) : \E chosen, f : AtRecord(c, Starter, chosen, n, f)
    BY DEF Starting
  <2>1. PICK chosen, f : AtRecord(c, Starter, chosen, n, f)
    BY <2>1a
  <2>2. AtRecord(c, Starter, {}, n, [i \in 0 .. n |-> blocks])'
    BY <1>1, <2>1
  <2>3. QED
    BY <2>2, Zenon
<1>4. QED
  BY <1>2, <1>3

\* Delivering the next record takes the connection one record further.
LEMMA DeliverAdvances ==
  ASSUME TypeOK, NEW c \in Conns, Deliver(c, Head(todo[c])), todo[c] # <<>>,
         todo' = [todo EXCEPT ![c] = Tail(@)],
         NEW records, NEW chosen, NEW n \in Nat, NEW f, AtRecord(c, records, chosen, n, f)
  PROVE  \E g : AtRecord(c, records, chosen \cup {n + 1}, n + 1, g)'
<1>1. /\ writer' = c /\ blocks' = blocks /\ draft' = Upsert(View(c), Head(todo[c]))
      /\ todo'[c] = Tail(todo[c]) /\ todo[c] \in Seq(Record)
  BY DEF Deliver, TypeOK
<1>2. Head(todo[c]) = records[n + 1]
  BY <1>1 DEF AtRecord
<1>3. /\ Len(todo'[c]) = Len(records) - (n + 1)
      /\ \A i \in 1 .. Len(todo'[c]) : todo'[c][i] = records[n + 1 + i]
  <2>1. Len(todo'[c]) = Len(todo[c]) - 1 /\ \A i \in 1 .. Len(todo'[c]) : todo'[c][i] = todo[c][i + 1]
    <3>1. /\ Len(Tail(todo[c])) = Len(todo[c]) - 1
          /\ \A i \in 1 .. Len(todo[c]) - 1 : Tail(todo[c])[i] = todo[c][i + 1]
      BY <1>1, TailOf, Zenon
    <3>2. QED
      BY <1>1, <3>1, Zenon
  <2>2. \A i \in 1 .. Len(todo'[c]) : i + 1 \in 1 .. Len(todo[c]) /\ n + (i + 1) = n + 1 + i
    BY <1>1, <2>1
  <2>3. Len(todo'[c]) = Len(records) - (n + 1)
    <3>1. Len(todo[c]) = Len(records) - n /\ Len(todo[c]) \in Nat
      BY <1>1 DEF AtRecord
    <3>2. QED
      BY <2>1, <3>1
  <2>4. QED
    BY <2>1, <2>2, <2>3 DEF AtRecord
<1>4. PICK g : IsRun(g, blocks, records, chosen \cup {n + 1}, n + 1)
               /\ g[n + 1] = Upsert(f[n], records[n + 1])
  <2>1. chosen \subseteq 1 .. n /\ IsRun(f, blocks, records, chosen, n)
    BY DEF AtRecord
  <2>2. Reaches(blocks, records, chosen \cup {n + 1}, n + 1, Upsert(f[n], records[n + 1]))
    BY <2>1, NextOfRun
  <2>3. QED
    BY <2>2 DEF Reaches
<1>5. IsRun(g, blocks, records, chosen \cup {n + 1}, n + 1)'
  BY <1>1, <1>4 DEF IsRun
<1>6. View(c)' = g[n + 1]
  BY <1>1, <1>2, <1>4 DEF AtRecord, View
<1>7. chosen \cup {n + 1} \subseteq 1 .. n + 1
  BY DEF AtRecord
<1>8. QED
  BY <1>1, <1>3, <1>5, <1>6, <1>7 DEF AtRecord

\* A connection that begins has everything to deliver.
LEMMA BeginsAtZero ==
  ASSUME NEW c \in Conns, NEW records \in Seq(Record), todo'[c] = records, writer' # c
  PROVE  AtRecord(c, records, {}, 0, [i \in 0 .. 0 |-> blocks])'
<1>1. IsRun([i \in 0 .. 0 |-> blocks], blocks, records, {}, 0)'
  BY EmptyRun DEF IsRun
<1>2. View(c)' = blocks'
  BY DEF View
<1>3. QED
  BY <1>1, <1>2 DEF AtRecord

\* Who has the lock is in the middle of an operation.
HolderBusy == writer # NoConn => op[writer] # "idle"

\* Initially no connection has begun anything.
LEMMA LedgerInitial == Init => HolderBusy /\ LedgerInv
BY DEF Init, HolderBusy, LedgerInv, Adding, Starting

\* A connection that ends its operation ends its transaction with it.
LEMMA HolderBusyKept == TypeOK /\ HolderBusy /\ [Next]_vars => HolderBusy'
<1> SUFFICES ASSUME TypeOK, HolderBusy, [Next]_vars PROVE HolderBusy'
  OBVIOUS
<1>1. CASE UNCHANGED vars
  BY <1>1 DEF vars, HolderBusy
<1>2. ASSUME NEW c \in Conns, Step(c) PROVE HolderBusy'
  <2> USE CorpusAssumption DEF TypeOK, HolderBusy
  <2>1. CASE BeginAdd(c) \/ BeginStarter(c)
    BY <2>1 DEF BeginAdd, BeginStarter
  <2>2. CASE AddOne(c) \/ StarterAdd(c)
    BY <2>2 DEF AddOne, StarterAdd, Deliver
  <2>3. CASE StarterResolve(c)
    BY <2>3 DEF StarterResolve
  <2>4. CASE Prune(c)
    BY <2>4 DEF Prune
  <2>5. CASE Commit(c) \/ Rollback(c)
    BY <2>5 DEF Commit, Rollback, Release
  <2>6. QED
    BY <1>2, <2>1, <2>2, <2>3, <2>4, <2>5 DEF Step
<1>3. QED
  BY <1>1, <1>2 DEF Next

\* What a step of c leaves alone: the others.
LEMMA OthersUntouched ==
  ASSUME TypeOK, LedgerInv, NEW c \in Conns, Step(c), NEW d \in Conns, d # c
  PROVE  Adding(d)' /\ Starting(d)'
<1>1. Adding(d) /\ Starting(d)
  BY DEF LedgerInv
<1>2. op'[d] = op[d] /\ todo'[d] = todo[d]
  BY DEF Step, BeginAdd, AddOne, BeginStarter, StarterResolve, StarterAdd, Prune, Commit,
     Rollback, Release, TypeOK
<1>3. CASE writer = d
  <2>1. writer' = d /\ blocks' = blocks /\ draft' = draft
    BY <1>3, CorpusAssumption DEF Step, BeginAdd, AddOne, BeginStarter, StarterResolve,
       StarterAdd, Prune, Commit, Rollback, Deliver
  <2>2. \A records, chosen, n, f : AtRecord(d, records, chosen, n, f) => AtRecord(d, records, chosen, n, f)'
    <3>1. View(d)' = View(d)
      BY <1>3, <2>1 DEF View
    <3>2. QED
      BY <1>2, <1>3, <2>1, <3>1, AtRecordFrame, Zenon
  <2>3. QED
    BY <1>1, <1>2, <2>2, Zenon DEF Adding, Starting
<1>4. CASE writer # d
  <2>1. writer' # d
    BY <1>4, CorpusAssumption DEF Step, BeginAdd, AddOne, BeginStarter, StarterResolve,
       StarterAdd, Prune, Commit, Rollback, Deliver
  <2>2. QED
    BY <1>1, <1>2, <1>4, <2>1, OthersFollow
<1>5. QED
  BY <1>3, <1>4

\* How a step of c takes c itself further.
LEMMA OwnStep ==
  ASSUME TypeOK, AddPending, HolderBusy, LedgerInv, NEW c \in Conns, Step(c)
  PROVE  Adding(c)' /\ Starting(c)'
<1>0. Adding(c) /\ Starting(c) /\ op \in [Conns -> Ops] /\ todo \in [Conns -> Seq(Record)]
  BY DEF LedgerInv, TypeOK
<1>1. CASE BeginAdd(c)
  <2>1. PICK b \in Batches : todo' = [todo EXCEPT ![c] = b]
    BY <1>1 DEF BeginAdd
  <2>2. b \in Seq(Record) /\ todo'[c] = b /\ writer' # c /\ op'[c] = "add"
    BY <1>0, <1>1, <2>1, CorpusAssumption DEF BeginAdd, HolderBusy
  <2>3. AtRecord(c, b, 1 .. 0, 0, [i \in 0 .. 0 |-> blocks])'
    <3>1. 1 .. 0 = {}
      OBVIOUS
    <3>2. QED
      BY <2>2, <3>1, BeginsAtZero, Zenon
  <2>4. 0 \in 0 .. Len(b)
    BY <2>2
  <2>5. Adding(c)'
    BY <2>3, <2>4, Zenon DEF Adding
  <2>6. Starting(c)'
    BY <2>2 DEF Starting
  <2>7. QED
    BY <2>5, <2>6
<1>2. CASE BeginStarter(c)
  <2>1. /\ Starter \in Seq(Record) /\ todo'[c] = Starter /\ writer' # c /\ op'[c] = "starter"
    BY <1>0, <1>2, CorpusAssumption DEF BeginStarter, HolderBusy
  <2>2. AtRecord(c, Starter, {}, 0, [i \in 0 .. 0 |-> blocks])'
    BY <2>1, BeginsAtZero
  <2>3. 0 \in 0 .. Len(Starter)
    BY <2>1
  <2>4. Starting(c)'
    BY <2>2, <2>3, Zenon DEF Starting
  <2>5. Adding(c)'
    BY <2>1 DEF Adding
  <2>6. QED
    BY <2>4, <2>5
<1>3. CASE AddOne(c)
  <2>1. /\ op[c] = "add" /\ op' = op /\ todo[c] # <<>> /\ Deliver(c, Head(todo[c]))
        /\ todo' = [todo EXCEPT ![c] = Tail(@)]
    BY <1>3 DEF AddOne
  <2>2. PICK b \in Batches : \E n \in 0 .. Len(b) : \E f : AtRecord(c, b, 1 .. n, n, f)
    BY <1>0, <2>1 DEF Adding
  <2>3a. PICK n \in 0 .. Len(b) : \E f : AtRecord(c, b, 1 .. n, n, f)
    BY <2>2
  <2>3. PICK f : AtRecord(c, b, 1 .. n, n, f)
    BY <2>3a
  <2>4. n \in Nat /\ 1 .. n \cup {n + 1} = 1 .. n + 1 /\ n + 1 \in 0 .. Len(b)
    <3>1. b \in Seq(Record) /\ Len(todo[c]) = Len(b) - n /\ Len(todo[c]) > 0
      BY <1>0, <2>1, <2>3, CorpusAssumption DEF AtRecord
    <3>2. QED
      BY <3>1
  <2>5. \E g : AtRecord(c, b, 1 .. n + 1, n + 1, g)'
    <3>1. \E g : AtRecord(c, b, 1 .. n \cup {n + 1}, n + 1, g)'
      BY <2>1, <2>3, <2>4, DeliverAdvances
    <3>2. QED
      BY <2>4, <3>1, Zenon
  <2>6. Adding(c)'
    BY <2>4, <2>5, Zenon DEF Adding
  <2>7. Starting(c)'
    BY <2>1 DEF Starting
  <2>8. QED
    BY <2>6, <2>7
<1>4. CASE StarterResolve(c) \/ StarterAdd(c)
  <2>1. op[c] \in {"starter", "starterAdd"} /\ op'[c] \in {"starter", "starterAdd"}
    BY <1>0, <1>4 DEF StarterResolve, StarterAdd
  <2>2a. PICK n \in 0 .. Len(Starter) : \E chosen, f : AtRecord(c, Starter, chosen, n, f)
    BY <1>0, <2>1 DEF Starting
  <2>2. PICK chosen, f : AtRecord(c, Starter, chosen, n, f)
    BY <2>2a
  <2>3. n \in Nat /\ chosen \subseteq 1 .. n
    BY <2>2 DEF AtRecord
  <2>4. todo[c] # <<>>
    BY <1>4 DEF StarterResolve, StarterAdd, AddPending
  <2>5. n + 1 \in 0 .. Len(Starter)
    <3>1. Starter \in Seq(Record) /\ Len(todo[c]) = Len(Starter) - n /\ Len(todo[c]) > 0
      BY <1>0, <2>2, <2>4, CorpusAssumption DEF AtRecord
    <3>2. QED
      BY <2>3, <3>1
  <2>6. \E m \in 0 .. Len(Starter) : \E more, g : AtRecord(c, Starter, more, m, g)'
    <3>1. CASE StarterAdd(c)
      <4>1. \E g : AtRecord(c, Starter, chosen \cup {n + 1}, n + 1, g)'
        BY <2>2, <2>3, <2>4, <3>1, DeliverAdvances DEF StarterAdd
      <4>2. QED
        BY <2>5, <4>1, Zenon
    <3>2. CASE StarterResolve(c) /\ todo' = todo
      <4>1. AtRecord(c, Starter, chosen, n, f)'
        BY <2>2, <3>2 DEF StarterResolve, AtRecord, IsRun, View
      <4>2. QED
        BY <4>1, Zenon
    <3>3. CASE StarterResolve(c) /\ todo' = [todo EXCEPT ![c] = Tail(@)]
      <4>1. blocks' = blocks /\ writer' = writer /\ draft' = draft /\ todo'[c] = Tail(todo[c])
        BY <1>0, <3>3 DEF StarterResolve
      <4>2. PICK g : IsRun(g, blocks, Starter, chosen, n + 1) /\ g[n + 1] = f[n]
        <5>1. chosen \subseteq 1 .. n /\ IsRun(f, blocks, Starter, chosen, n)
          BY <2>2, <2>3 DEF AtRecord
        <5>2. Reaches(blocks, Starter, chosen, n + 1, f[n])
          BY <2>3, <5>1, NextOfRun
        <5>3. QED
          BY <5>2 DEF Reaches
      <4>3. IsRun(g, blocks, Starter, chosen, n + 1)'
        BY <4>1, <4>2 DEF IsRun
      <4>4. View(c)' = g[n + 1]
        BY <2>2, <4>1, <4>2 DEF AtRecord, View
      <4>5. /\ Len(todo'[c]) = Len(Starter) - (n + 1)
            /\ \A i \in 1 .. Len(todo'[c]) : todo'[c][i] = Starter[n + 1 + i]
        <5>1. /\ Len(todo'[c]) = Len(todo[c]) - 1
              /\ \A i \in 1 .. Len(todo'[c]) : todo'[c][i] = todo[c][i + 1]
          BY <1>0, <2>4, <4>1
        <5>2. \A i \in 1 .. Len(todo'[c]) : i + 1 \in 1 .. Len(todo[c]) /\ n + (i + 1) = n + 1 + i
          BY <1>0, <2>3, <5>1
        <5>3. Len(todo'[c]) = Len(Starter) - (n + 1)
          <6>1. Len(todo[c]) = Len(Starter) - n /\ Len(todo[c]) \in Nat
            BY <1>0, <2>2 DEF AtRecord
          <6>2. QED
            BY <2>3, <5>1, <6>1
        <5>4. QED
          BY <2>2, <5>1, <5>2, <5>3 DEF AtRecord
      <4>6. chosen \subseteq 1 .. n + 1
        BY <2>3
      <4>7. AtRecord(c, Starter, chosen, n + 1, g)'
        BY <2>2, <4>1, <4>3, <4>4, <4>5, <4>6 DEF AtRecord
      <4>8. QED
        BY <2>5, <4>7, Zenon
    <3>4. QED
      BY <1>4, <3>1, <3>2, <3>3 DEF StarterResolve
  <2>7. Starting(c)'
    BY <2>6, Zenon DEF Starting
  <2>8. Adding(c)'
    BY <2>1 DEF Adding
  <2>9. QED
    BY <2>7, <2>8
<1>5. CASE Prune(c)
  BY <1>0, <1>5, OthersFollow, CorpusAssumption DEF Prune
<1>6. CASE Commit(c) \/ Rollback(c)
  <2>1. op'[c] = "idle"
    BY <1>0, <1>6 DEF Commit, Rollback, Release
  <2>2. QED
    BY <2>1 DEF Adding, Starting
<1>7. QED
  BY <1>1, <1>2, <1>3, <1>4, <1>5, <1>6 DEF Step

\* Every step of a connection is a step of the ledger or changes nothing of it.
LEMMA StepIsLedgerStep ==
  ASSUME TypeOK, LedgerInv, NEW c \in Conns, Step(c)
  PROVE  Ledger!Next \/ blocks' = blocks
<1>1. CASE Prune(c)
  BY <1>1 DEF Prune, Ledger!Next, Ledger!PruneChain
<1>2. CASE Commit(c) /\ writer = c
  <2>1. op[c] \in {"add", "starter"} /\ todo[c] = <<>> /\ blocks' = View(c)
    BY <1>2 DEF Commit, View
  <2>2. CASE op[c] = "add"
    <3>1. PICK b \in Batches : \E n \in 0 .. Len(b) : \E f : AtRecord(c, b, 1 .. n, n, f)
      BY <2>2 DEF LedgerInv, Adding
    <3>2a. PICK n \in 0 .. Len(b) : \E f : AtRecord(c, b, 1 .. n, n, f)
      BY <3>1
    <3>2. PICK f : AtRecord(c, b, 1 .. n, n, f)
      BY <3>2a
    <3>3. b \in Seq(Record)
      BY CorpusAssumption
    <3>4. n = Len(b) /\ 1 .. n = DOMAIN b
      <4>1. Len(todo[c]) = 0 /\ Len(todo[c]) = Len(b) - n
        BY <2>1, <3>2 DEF AtRecord
      <4>2. QED
        BY <3>3, <4>1
    <3>5. blocks' = Ledger!ApplyAll(blocks, b, DOMAIN b)
      <4>1. IsRun(f, blocks, b, DOMAIN b, Len(b)) /\ blocks' = f[Len(b)]
        BY <2>1, <3>2, <3>4 DEF AtRecord
      <4>2. QED
        BY <3>3, <4>1, RunApplies
    <3>6. QED
      BY <3>5 DEF Ledger!Next, Ledger!Import
  <2>3. CASE op[c] = "starter"
    <3>1a. PICK n \in 0 .. Len(Starter) : \E chosen, f : AtRecord(c, Starter, chosen, n, f)
      BY <2>3 DEF LedgerInv, Starting
    <3>1. PICK chosen, f : AtRecord(c, Starter, chosen, n, f)
      BY <3>1a
    <3>2. Starter \in Seq(Record)
      BY CorpusAssumption
    <3>3. n = Len(Starter) /\ chosen \in SUBSET DOMAIN Starter
      <4>1. Len(todo[c]) = 0 /\ Len(todo[c]) = Len(Starter) - n /\ chosen \subseteq 1 .. n
        BY <2>1, <3>1 DEF AtRecord
      <4>2. QED
        BY <3>2, <4>1
    <3>4. blocks' = Ledger!ApplyAll(blocks, Starter, chosen)
      <4>1. IsRun(f, blocks, Starter, chosen, Len(Starter)) /\ blocks' = f[Len(Starter)]
        BY <2>1, <3>1, <3>3 DEF AtRecord
      <4>2. QED
        BY <3>2, <4>1, RunApplies
    <3>5. QED
      BY <3>3, <3>4 DEF Ledger!Next, Ledger!ImportStarter
  <2>4. QED
    BY <2>1, <2>2, <2>3
<1>3. CASE ~Prune(c) /\ ~(Commit(c) /\ writer = c)
  BY <1>3 DEF Step, BeginAdd, AddOne, BeginStarter, StarterResolve, StarterAdd, Deliver, Commit,
     Rollback
<1>4. QED
  BY <1>1, <1>2, <1>3

\* The block table implements its ledger: every change is one whole import, one starter
\* import or one prune, whatever the connections, batches and failures.
THEOREM StoreImplementsLedger == DatabaseSpec => ImplementsLedger
<1>1. Init => Ledger!Init
  BY DEF Init, Ledger!Init
<1>2. IInv /\ HolderBusy /\ LedgerInv /\ [Next]_vars => LedgerInv'
  <2> SUFFICES ASSUME IInv, HolderBusy, LedgerInv, [Next]_vars PROVE LedgerInv'
    OBVIOUS
  <2>1. CASE UNCHANGED vars
    <3>1. /\ todo' = todo /\ blocks' = blocks /\ writer' = writer /\ draft' = draft /\ op' = op
      BY <2>1 DEF vars
    <3>2. \A c \in Conns : View(c)' = View(c)
      BY <3>1 DEF View
    <3>3. \A c \in Conns : \A records, chosen, n, f :
            AtRecord(c, records, chosen, n, f) => AtRecord(c, records, chosen, n, f)'
      BY <3>1, <3>2, AtRecordFrame, Zenon
    <3>4. QED
      BY <3>1, <3>3, Zenon DEF LedgerInv, Adding, Starting
  <2>2. ASSUME NEW c \in Conns, Step(c), NEW d \in Conns PROVE Adding(d)' /\ Starting(d)'
    BY <2>2, OwnStep, OthersUntouched DEF IInv
  <2>3. QED
    BY <2>1, <2>2 DEF Next, LedgerInv
<1>3. IInv /\ LedgerInv /\ [Next]_vars => [Ledger!Next]_blocks
  BY StepIsLedgerStep DEF Next, vars, IInv
<1>4. IInv => TypeOK
  BY DEF IInv
<1>5. QED
  BY <1>1, <1>2, <1>3, <1>4, IsStore, Invariance, LedgerInitial, HolderBusyKept, PTL
  DEF Spec, ImplementsLedger, Ledger!Spec

----------------------------------------------------------------------------
(* What the builds make of the corpus.                                     *)

\* The rows a build reads are verified when their blocks are.
LEMMA RowsAreHonest ==
  ASSUME NEW chains, NEW mode, NEW r \in Align!Rows(corpus, chains, mode)
  PROVE  /\ r.chain \in chains
         /\ r.verified => Align!Known(corpus, r.chain, r.hash) /\ corpus[r.hash].verified
         /\ Align!WantsVerified(mode) => r.verified
<1>1. PICK b \in Blocks : /\ corpus[b] # NoBlock /\ OwnChain[b] \in chains
                          /\ Align!WantsVerified(mode) => corpus[b].verified
                          /\ r = Align!AsRecord(corpus, b)
  BY DEF Align!Rows
<1>2. r.chain = OwnChain[b] /\ r.hash = b /\ r.verified = corpus[b].verified
  BY <1>1 DEF Align!AsRecord
<1>3. b # NoOrigin
  BY DatabaseAssumption
<1>4. QED
  BY <1>1, <1>2, <1>3, Zenon DEF Align!Known

\* A pool of rows with a grade that is not verified, or whose rows are verified, is
\* honest.
LEMMA PoolOfRows ==
  ASSUME NEW chains, NEW mode, NEW kept \in SUBSET Align!Rows(corpus, chains, mode), NEW grade,
         Align!IsVerifiedGrade(grade) => \A r \in kept : r.verified
  PROVE  /\ Align!HonestRecords(corpus, Align!Pool(kept, grade))
         /\ Align!EarnedGrade(Align!Pool(kept, grade))
<1>1. Align!Pool(kept, grade).records = kept /\ Align!Pool(kept, grade).grade = grade
  BY DEF Align!Pool
<1>2. \A r \in kept : r.verified => Align!Known(corpus, r.chain, r.hash) /\ corpus[r.hash].verified
  BY RowsAreHonest
<1>3. QED
  BY <1>1, <1>2, Zenon DEF Align!HonestRecords, Align!EarnedGrade

\* The active modes.
LEMMA ActiveModes ==
  ASSUME NEW chains, NEW mode \in {"SOLOCHAIN", "CROSSCHAIN"}
  PROVE  LET p == Align!Eligible(corpus, chains, mode, {}, {}) IN
         Align!HonestRecords(corpus, p) /\ Align!EarnedGrade(p)
<1>1. Align!Eligible(corpus, chains, mode, {}, {})
        = Align!Pool(Align!Rows(corpus, chains, mode), Align!VerifiedExplicit)
  BY DEF Align!Eligible
<1>2. \A r \in Align!Rows(corpus, chains, mode) : r.verified
  BY RowsAreHonest DEF Align!WantsVerified
<1>3. QED
  BY <1>1, <1>2, PoolOfRows

\* What is common to the values of some chains is a value of each of them.
LEMMA CommonToAll ==
  ASSUME NEW chains, chains # {}, NEW values, DOMAIN values = chains
  PROVE  \A v : v \in Align!CommonTo(values) <=> \A c \in chains : v \in values[c]
BY DEF Align!CommonTo

\* LOCKED_LINK.
LEMMA LockedLinkMode ==
  ASSUME NEW chains, chains # {},
         Align!Eligible(corpus, chains, "LOCKED_LINK", {}, {}).ok
  PROVE  LET p == Align!Eligible(corpus, chains, "LOCKED_LINK", {}, {})
             records == Align!Rows(corpus, chains, "LOCKED_LINK")
         IN  /\ Align!HonestRecords(corpus, p) /\ Align!EarnedGrade(p)
             /\ Align!Linked(records, p, chains, LAMBDA r, x : r.height = x.height)
<1> DEFINE p       == Align!Eligible(corpus, chains, "LOCKED_LINK", {}, {})
           records == Align!Rows(corpus, chains, "LOCKED_LINK")
           common  == Align!CommonTo([c \in chains |-> Align!HeightsOf(records, c)])
           kept    == {r \in records : r.height \in common}
<1>1. p = Align!LockedLink(records, chains)
  BY DEF Align!Eligible
<1>2. p = Align!Pool(kept, "VERIFIED-HEIGHT-ALIGNMENT")
  BY <1>1 DEF Align!LockedLink, Align!Failed
<1>3. \A v : v \in common <=> \A c \in chains : \E x \in records : x.chain = c /\ x.height = v
  <2>1. \A v : v \in common <=> \A c \in chains : v \in Align!HeightsOf(records, c)
    BY CommonToAll
  <2>2. \A c, v : v \in Align!HeightsOf(records, c) <=> \E x \in records : x.chain = c /\ x.height = v
    BY DEF Align!HeightsOf
  <2>3. QED
    BY <2>1, <2>2
<1> HIDE DEF common
<1>4. \A r \in records : r.verified
  BY RowsAreHonest DEF Align!WantsVerified
<1>5. Align!HonestRecords(corpus, p) /\ Align!EarnedGrade(p)
  BY <1>2, <1>4, PoolOfRows
<1>6. p.records = kept
  BY <1>2 DEF Align!Pool
<1>7. \A r \in records : r \in kept <=> \A c \in chains : \E x \in kept : x.chain = c /\ r.height = x.height
  BY <1>3
<1>8. Align!Linked(records, p, chains, LAMBDA r, x : r.height = x.height)
  BY <1>6, <1>7 DEF Align!Linked
<1>9. QED
  BY <1>5, <1>8

\* EPOCH_LINK.
LEMMA EpochLinkMode ==
  ASSUME NEW chains, chains # {},
         Align!Eligible(corpus, chains, "EPOCH_LINK", {}, {}).ok
  PROVE  LET p == Align!Eligible(corpus, chains, "EPOCH_LINK", {}, {})
             records == Align!Rows(corpus, chains, "EPOCH_LINK")
         IN  /\ Align!HonestRecords(corpus, p) /\ Align!EarnedGrade(p)
             /\ Align!Linked(records, p, chains, LAMBDA r, x : r.epoch # NoEpoch /\ r.epoch = x.epoch)
<1> DEFINE p       == Align!Eligible(corpus, chains, "EPOCH_LINK", {}, {})
           records == Align!Rows(corpus, chains, "EPOCH_LINK")
           common  == Align!CommonTo([c \in chains |-> Align!EpochsOf(records, c)])
           kept    == {r \in records : r.epoch \in common}
<1>1. p = Align!EpochLink(records, chains)
  BY DEF Align!Eligible
<1>2. p = Align!Pool(kept, Align!EpochGrade(kept))
  BY <1>1 DEF Align!EpochLink, Align!Failed
<1>3. \A v : v \in common <=>
        \A c \in chains : \E x \in records : x.chain = c /\ x.epoch # NoEpoch /\ x.epoch = v
  <2>1. \A v : v \in common <=> \A c \in chains : v \in Align!EpochsOf(records, c)
    BY CommonToAll
  <2>2. \A c, v : v \in Align!EpochsOf(records, c) <=>
                    \E x \in records : x.chain = c /\ x.epoch # NoEpoch /\ x.epoch = v
    BY DEF Align!EpochsOf
  <2>3. QED
    BY <2>1, <2>2
<1> HIDE DEF common
<1>4. Align!IsVerifiedGrade(Align!EpochGrade(kept)) => \A r \in kept : r.verified
  BY DEF Align!IsVerifiedGrade, Align!EpochGrade, Align!VerifiedExplicit
<1>5. Align!HonestRecords(corpus, p) /\ Align!EarnedGrade(p)
  BY <1>2, <1>4, PoolOfRows
<1>6. p.records = kept
  BY <1>2 DEF Align!Pool
<1>7. \A r \in records : r \in kept <=>
        \A c \in chains : \E x \in kept : x.chain = c /\ r.epoch # NoEpoch /\ r.epoch = x.epoch
  BY <1>3
<1>8. Align!Linked(records, p, chains, LAMBDA r, x : r.epoch # NoEpoch /\ r.epoch = x.epoch)
  BY <1>6, <1>7 DEF Align!Linked
<1>9. QED
  BY <1>5, <1>8

\* USER_PICKED.
LEMMA UserPickedMode ==
  ASSUME NEW chains, NEW picked,
         Align!Eligible(corpus, chains, "USER_PICKED", picked, {}).ok
  PROVE  LET p == Align!Eligible(corpus, chains, "USER_PICKED", picked, {}) IN
         Align!HonestRecords(corpus, p) /\ Align!EarnedGrade(p)
<1> DEFINE p       == Align!Eligible(corpus, chains, "USER_PICKED", picked, {})
           records == Align!Rows(corpus, chains, "USER_PICKED")
           kept    == {r \in records : r.hash \in picked}
<1>1. p = Align!UserPicked(records, picked)
  BY DEF Align!Eligible
<1>2. p = Align!Pool(kept, "UNVERIFIED-USER-PROOF")
  BY <1>1 DEF Align!UserPicked, Align!Failed
<1>3. ~Align!IsVerifiedGrade("UNVERIFIED-USER-PROOF")
  BY DEF Align!IsVerifiedGrade, Align!VerifiedExplicit
<1>4. QED
  BY <1>2, <1>3, PoolOfRows

\* The weakest of some unverified grades is one of them.
LEMMA AggregateIsWeakest ==
  ASSUME NEW grades \in SUBSET {"UNVERIFIED-HEURISTIC", "UNVERIFIED-USER-PROOF"}, grades # {}
  PROVE  /\ Align!Aggregate(grades) \in grades
         /\ \A g \in grades : Align!Strength(Align!Aggregate(grades)) <= Align!Strength(g)
<1>1. Align!Strength("UNVERIFIED-HEURISTIC") = 0 /\ Align!Strength("UNVERIFIED-USER-PROOF") = 1
  BY DEF Align!Strength
<1>2. \E g \in grades : \A h \in grades : Align!Strength(g) <= Align!Strength(h)
  <2>1. CASE "UNVERIFIED-HEURISTIC" \in grades
    BY <1>1, <2>1
  <2>2. CASE "UNVERIFIED-HEURISTIC" \notin grades
    <3>1. grades = {"UNVERIFIED-USER-PROOF"}
      BY <2>2
    <3>2. QED
      BY <1>1, <3>1
  <2>3. QED
    BY <2>1, <2>2
<1>3. QED
  BY <1>2, Zenon DEF Align!Aggregate

\* TX_LINKED.
LEMMA TxLinkedMode ==
  ASSUME NEW chains, IsFiniteSet(chains), NEW listed \in SUBSET Relations,
         Align!Eligible(corpus, chains, "TX_LINKED", {}, listed).ok
  PROVE  LET p == Align!Eligible(corpus, chains, "TX_LINKED", {}, listed) IN
         /\ Align!HonestRecords(corpus, p) /\ Align!EarnedGrade(p)
         /\ Align!NoStrongerThanItsParts(corpus, listed, p, chains)
<1> DEFINE p        == Align!Eligible(corpus, chains, "TX_LINKED", {}, listed)
           accepted == {rel \in listed : Align!Accepted(corpus, rel, chains)}
           grades   == {rel.grade : rel \in accepted}
           sources  == UNION {{Align!AsSource(corpus, m) : m \in Align!Ready(corpus, rel, chains)}
                                : rel \in accepted}
<1>1. p = Align!TxLinked(corpus, listed, chains)
  BY DEF Align!Eligible
<1>2. accepted # {} /\ p = Align!Pool(sources, Align!Aggregate(grades))
  BY <1>1 DEF Align!TxLinked, Align!Failed
<1>3. p.records = sources /\ p.grade = Align!Aggregate(grades)
  BY <1>2 DEF Align!Pool
<1>4. /\ p.grade \in grades
      /\ \A g \in grades : Align!Strength(p.grade) <= Align!Strength(g)
      /\ grades \subseteq {"UNVERIFIED-HEURISTIC", "UNVERIFIED-USER-PROOF"}
  <2>1. grades \subseteq {"UNVERIFIED-HEURISTIC", "UNVERIFIED-USER-PROOF"} /\ grades # {}
    BY <1>2, DatabaseAssumption
  <2>2. QED
    BY <1>3, <2>1, AggregateIsWeakest
<1>5. Align!HonestRecords(corpus, p)
  <2> SUFFICES ASSUME NEW r \in sources, r.verified
               PROVE  Align!Known(corpus, r.chain, r.hash) /\ corpus[r.hash].verified
    BY <1>3 DEF Align!HonestRecords
  <2>1. PICK m : r = Align!AsSource(corpus, m)
    OBVIOUS
  <2>2. /\ r.chain = m.chain /\ r.hash = Align!Origin(corpus, m).hash
        /\ r.verified = Align!Origin(corpus, m).verified
    BY <2>1 DEF Align!AsSource
  <2>3. /\ Align!Origin(corpus, m).hash = Align!OriginHash(corpus, m)
        /\ Align!Origin(corpus, m).verified =
             (/\ Align!Known(corpus, m.chain, Align!OriginHash(corpus, m))
              /\ corpus[Align!OriginHash(corpus, m)].verified)
    BY DEF Align!Origin
  <2>4. QED
    BY <2>2, <2>3, Zenon
<1>6. Align!EarnedGrade(p)
  <2>1. ~Align!IsVerifiedGrade(p.grade)
    BY <1>4 DEF Align!IsVerifiedGrade, Align!VerifiedExplicit
  <2>2. QED
    BY <2>1 DEF Align!EarnedGrade
<1>7. Align!Cardinality({r.chain : r \in p.records}) >= 2
  <2>1. PICK rel \in accepted : TRUE
    BY <1>2
  <2> DEFINE own == {m.chain : m \in Align!Ready(corpus, rel, chains)}
             all == {r.chain : r \in p.records}
  <2>2. own \subseteq all
    <3> SUFFICES ASSUME NEW m \in Align!Ready(corpus, rel, chains) PROVE m.chain \in all
      OBVIOUS
    <3>1. Align!AsSource(corpus, m) \in p.records
      BY <1>3, <2>1
    <3>2. Align!AsSource(corpus, m).chain = m.chain
      BY DEF Align!AsSource
    <3>3. QED
      BY <3>1, <3>2
  <2>3. all \subseteq chains
    <3> SUFFICES ASSUME NEW r \in sources PROVE r.chain \in chains
      BY <1>3
    <3>1. PICK e \in accepted : \E m \in Align!Ready(corpus, e, chains) : r = Align!AsSource(corpus, m)
      OBVIOUS
    <3>2. PICK m \in Align!Ready(corpus, e, chains) : r = Align!AsSource(corpus, m)
      BY <3>1
    <3>3. r.chain = m.chain
      BY <3>2 DEF Align!AsSource
    <3>4. QED
      BY <3>3 DEF Align!Ready
  <2>4. IsFiniteSet(all) /\ Cardinality(own) <= Cardinality(all)
    BY <2>2, <2>3, FS_Subset
  <2>5. Cardinality(own) \in Nat /\ Cardinality(all) \in Nat
    BY <2>2, <2>4, FS_Subset, FS_CardinalityType
  <2>6. Align!Cardinality(own) >= 2
    BY <2>1 DEF Align!Accepted
  <2>7. QED
    BY <2>4, <2>5, <2>6 DEF Align!Cardinality, Cardinality
<1>8. Align!NoStrongerThanItsParts(corpus, listed, p, chains)
  BY <1>4, <1>7 DEF Align!NoStrongerThanItsParts
<1>9. QED
  BY <1>5, <1>6, <1>8

\* Whatever the corpus, every mode gives the grades its records earn.
LEMMA EveryGradeIsEarned == GradesAreEarned
<1> SUFFICES ASSUME NEW chains \in (SUBSET {OwnChain[b] : b \in Blocks}) \ {{}}
             PROVE
   LET pool(mode, picked, listed) == Align!Eligible(corpus, chains, mode, picked, listed)
       honest(p) == p.ok => Align!HonestRecords(corpus, p) /\ Align!EarnedGrade(p)
       linked(mode, like(_, _)) ==
          LET p == pool(mode, {}, {}) IN
          p.ok => Align!Linked(Align!Rows(corpus, chains, mode), p, chains, like)
   IN
    /\ \A mode \in {"SOLOCHAIN", "CROSSCHAIN", "LOCKED_LINK", "EPOCH_LINK"} : honest(pool(mode, {}, {}))
    /\ \A picked \in SUBSET OfChains(chains) : honest(pool("USER_PICKED", picked, {}))
    /\ linked("LOCKED_LINK", LAMBDA r, x : r.height = x.height)
    /\ linked("EPOCH_LINK", LAMBDA r, x : r.epoch # NoEpoch /\ r.epoch = x.epoch)
    /\ \A r, s \in Relations :
         LET p == pool("TX_LINKED", {}, {r, s}) IN
         /\ honest(p)
         /\ p.ok => Align!NoStrongerThanItsParts(corpus, {r, s}, p, chains)
  BY DEF GradesAreEarned
<1>1. chains # {} /\ IsFiniteSet(chains)
  <2>1. [b \in Blocks |-> OwnChain[b]] \in Surjection(Blocks, {OwnChain[b] : b \in Blocks})
    BY DEF Surjection
  <2>2. IsFiniteSet({OwnChain[b] : b \in Blocks})
    BY <2>1, DatabaseAssumption, FS_Surjection
  <2>3. QED
    BY <2>2, FS_Subset
<1>2. QED
  BY <1>1, ActiveModes, LockedLinkMode, EpochLinkMode, UserPickedMode, TxLinkedMode

\* Whatever the history of the corpus, what a build takes from it has the grade that its
\* rows and relations earn, in every mode.
THEOREM GradesEarned == DatabaseSpec => []GradesAreEarned
BY EveryGradeIsEarned, PTL

----------------------------------------------------------------------------
(* The TX-Link tables.                                                     *)

\* A relation as a list names it, without its members.
Heading == [id : Ids, source : Sources, grade : Links!Grades, claimed : Claims]

Tables == [row : [Ids -> Links!LinkRow \cup {NoLink}], members : [Ids -> Seq(Links!Member)]]

LinksTypeOK ==
  /\ table \in Tables /\ written \in Tables
  /\ IsFiniteSet(Links!Present(table)) /\ IsFiniteSet(Links!Present(written))
  /\ holder \in Conns \cup {NoConn}
  /\ doing \in [Conns -> {"idle", "store", "list"}]
  /\ DOMAIN left = Conns /\ relations \in [Conns -> Seq(Links!Relation)]
  /\ \A c \in Conns : /\ doing[c] = "store" => left[c] \in Seq(Links!Relation)
                      /\ doing[c] = "list" => left[c] \in Seq(Heading)
  /\ backup = NoFile \/ backup \in Seq(Links!Relation)
  /\ overlapped \in [Conns -> BOOLEAN]
  /\ mixed \in [backup : BOOLEAN, stored : BOOLEAN]

\* Who holds the lock is storing relations; nobody else has written anything.
LockHeld ==
  /\ holder # NoConn => doing[holder] = "store"
  /\ holder = NoConn => written = table

----------------------------------------------------------------------------
(* Whole relations.                                                        *)

\* What a row says of a relation was delivered.
Named(r) ==
  /\ r.grade \notin Links!VerifiedGrades
  /\ \E d \in Links!Delivered : /\ d.id = r.id /\ d.source = r.source
                               /\ d.grade = r.grade /\ d.claimed = r.claimed

\* Row and members were delivered; together, unless the backup of an overlapped list has
\* been stored.
Whole(r, mix) ==
  /\ Named(r)
  /\ \E e \in Links!Delivered : e.id = r.id /\ e.members = r.members
  /\ ~mix => r \in Links!Delivered

\* What a table holds of one relation.
RelationOf(t, i) ==
  [id |-> i, source |-> t.row[i].source, grade |-> t.row[i].grade, claimed |-> t.row[i].claimed,
   members |-> t.members[i]]

\* What it holds of it without the members.
HeadingOf(t, i) ==
  [id |-> i, source |-> t.row[i].source, grade |-> t.row[i].grade, claimed |-> t.row[i].claimed]

WholeTables(t, mix) ==
  \A i \in Ids : IF t.row[i] = NoLink THEN t.members[i] = <<>> ELSE Whole(RelationOf(t, i), mix)

\* A relation as a list finds it: a change that overlaps the list may have taken its
\* members or replaced them.
Found(r, overlap, mix) ==
  /\ Named(r)
  /\ r.members = <<>> \/ \E e \in Links!Delivered : e.id = r.id /\ e.members = r.members
  /\ ~overlap => Whole(r, mix)

\* f holds the tables that the first n of the relations lead to from t.
LinksRun(f, t, file, n) ==
  /\ f = [i \in 0 .. n |-> f[i]]
  /\ f[0] = t
  /\ \A i \in 1 .. n : f[i] = Links!Stored(f[i - 1], file[i])

RunLeads(t, file, n, last) == \E f : LinksRun(f, t, file, n) /\ f[n] = last

\* Connection c has stored the first n of its relations.
AtRelation(c, n) ==
  /\ Len(left[c]) = Len(relations[c]) - n
  /\ \A i \in 1 .. Len(left[c]) : left[c][i] = relations[c][n + i]
  /\ IF holder = c THEN RunLeads(table, relations[c], n, written) ELSE n = 0

Storing(c) ==
  doing[c] = "store" =>
    /\ \A i \in 1 .. Len(relations[c]) : Whole(relations[c][i], mixed.stored)
    /\ \E n \in 0 .. Len(relations[c]) : AtRelation(c, n)

\* What a list that no change overlapped has read is what the tables still hold, and
\* what it has left is the rest of it.
UpToDate(c) ==
  LET n == Len(relations[c]) IN
  /\ n + Len(left[c]) = Len(Links!Rows(table))
  /\ \A i \in 1 .. n :
       relations[c][i] = Links!WithMembers(Links!Rows(table)[i], table.members[Links!Rows(table)[i].id])
  /\ \A i \in 1 .. Len(left[c]) : left[c][i] = Links!Rows(table)[n + i]

Listing(c) ==
  doing[c] = "list" =>
    /\ \A i \in 1 .. Len(relations[c]) : Found(relations[c][i], overlapped[c], mixed.stored)
    /\ \A i \in 1 .. Len(left[c]) : Named(left[c][i])
    /\ ~overlapped[c] => UpToDate(c)

BackupFound ==
  backup # NoFile => \A i \in 1 .. Len(backup) : Found(backup[i], mixed.backup, mixed.stored)

LinksInv ==
  /\ LinksTypeOK /\ LockHeld
  /\ WholeTables(table, mixed.stored) /\ WholeTables(written, mixed.stored)
  /\ \A c \in Conns : Storing(c) /\ Listing(c)
  /\ BackupFound

----------------------------------------------------------------------------
(* The order of a list.                                                    *)

\* Counting means the same in every instance.
LEMMA SameCardinality == \A S : Links!Cardinality(S) = Cardinality(S)
BY DEF Links!Cardinality, Cardinality

\* A finite set of numbers can be listed in order, each once.
LEMMA OrderExists ==
  ASSUME NEW S, S \subseteq Nat, IsFiniteSet(S)
  PROVE  \E s \in [1 .. Cardinality(S) -> S] : Links!Lists(s, S)
<1> DEFINE Ordered(n) == \A T \in SUBSET Nat : IsFiniteSet(T) /\ Cardinality(T) = n =>
                            \E s \in [1 .. n -> T] : Links!Lists(s, T)
           N == {n \in Nat : Ordered(n)}
<1>1. 0 \in N
  <2> SUFFICES ASSUME NEW T \in SUBSET Nat, IsFiniteSet(T), Cardinality(T) = 0
               PROVE  \E s \in [1 .. 0 -> T] : Links!Lists(s, T)
    OBVIOUS
  <2>1. T = {}
    BY FS_EmptySet
  <2>2. [i \in 1 .. 0 |-> 0] \in [1 .. 0 -> T] /\ Links!Lists([i \in 1 .. 0 |-> 0], T)
    BY <2>1 DEF Links!Lists
  <2>3. QED
    BY <2>2
<1>2. ASSUME NEW n \in Nat, n \in N PROVE n + 1 \in N
  <2> SUFFICES ASSUME NEW T \in SUBSET Nat, IsFiniteSet(T), Cardinality(T) = n + 1
               PROVE  \E s \in [1 .. n + 1 -> T] : Links!Lists(s, T)
    OBVIOUS
  <2>1. T # {}
    BY FS_EmptySet
  <2>2. PICK m \in T : \A k \in T : m <= k
    BY <2>1, LeastNat
  <2>3. IsFiniteSet(T \ {m}) /\ Cardinality(T \ {m}) = n
    <3>1. IsFiniteSet(T \ {m}) /\ Cardinality(T \ {m}) = Cardinality(T) - 1
      BY FS_RemoveElement
    <3>2. QED
      BY <3>1
  <2>4. PICK rest \in [1 .. n -> T \ {m}] : Links!Lists(rest, T \ {m})
    BY <1>2, <2>3
  <2> DEFINE s == [i \in 1 .. n + 1 |-> IF i = 1 THEN m ELSE rest[i - 1]]
  <2>5. s \in [1 .. n + 1 -> T]
    BY <2>4
  <2>6. \A k \in T : \E i \in DOMAIN s : s[i] = k
    <3> SUFFICES ASSUME NEW k \in T, k # m PROVE \E i \in DOMAIN s : s[i] = k
      BY <2>2
    <3>1. PICK i \in 1 .. n : rest[i] = k
      BY <2>4 DEF Links!Lists
    <3>2. i + 1 \in DOMAIN s /\ s[i + 1] = k
      BY <3>1
    <3>3. QED
      BY <3>2
  <2>7. \A i, j \in DOMAIN s : i < j => s[i] < s[j]
    <3> SUFFICES ASSUME NEW i \in 1 .. n + 1, NEW j \in 1 .. n + 1, i < j PROVE s[i] < s[j]
      OBVIOUS
    <3>1. j - 1 \in 1 .. n /\ s[j] = rest[j - 1] /\ rest[j - 1] \in T \ {m}
      BY <2>4
    <3>2. CASE i = 1
      <4>1. s[i] = m /\ m \in Nat /\ s[j] \in Nat /\ m <= s[j] /\ m # s[j]
        BY <2>2, <3>1, <3>2
      <4>2. QED
        BY <4>1
    <3>3. CASE i # 1
      <4>1. i - 1 \in 1 .. n /\ i - 1 < j - 1 /\ s[i] = rest[i - 1]
        BY <3>3
      <4>2. QED
        BY <2>4, <3>1, <4>1 DEF Links!Lists
    <3>4. QED
      BY <3>2, <3>3
  <2> HIDE DEF s
  <2>8. QED
    BY <2>5, <2>6, <2>7 DEF Links!Lists
<1>3. Nat \subseteq N
  <2> HIDE DEF N
  <2>1. QED
    BY <1>1, <1>2, Induction
<1>4. Cardinality(S) \in Nat
  BY FS_CardinalityType
<1>5. QED
  BY <1>3, <1>4

\* A list names the stored relations, all of them and no other.
LEMMA RowsNameThePresent ==
  ASSUME NEW t, Ids \subseteq Nat, IsFiniteSet(Links!Present(t))
  PROVE  /\ Len(Links!Rows(t)) \in Nat /\ DOMAIN Links!Rows(t) = 1 .. Len(Links!Rows(t))
         /\ \A n \in 1 .. Len(Links!Rows(t)) : \E i \in Links!Present(t) :
              Links!Rows(t)[n] = HeadingOf(t, i)
         /\ \A i \in Links!Present(t) : \E n \in 1 .. Len(Links!Rows(t)) : Links!Rows(t)[n].id = i
<1> DEFINE S == Links!Present(t)
           order == Links!InOrder(S)
<1>1. S \subseteq Nat
  BY DEF Links!Present
<1>2. order \in [1 .. Cardinality(S) -> S] /\ Links!Lists(order, S)
  <2>1. \E s \in [1 .. Cardinality(S) -> S] : Links!Lists(s, S)
    BY <1>1, OrderExists
  <2>2. QED
    BY <2>1, SameCardinality DEF Links!InOrder
<1> HIDE DEF order
<1>3. Links!Rows(t) = [n \in 1 .. Cardinality(S) |->
         HeadingOf(t, order[n])]
  BY <1>2 DEF Links!Rows, HeadingOf, order
<1>4. Cardinality(S) \in Nat
  BY FS_CardinalityType
<1>5. Len(Links!Rows(t)) = Cardinality(S)
  BY <1>3, <1>4
<1>6. \A i \in S : \E n \in 1 .. Cardinality(S) : order[n] = i
  BY <1>2 DEF Links!Lists
<1>7. ASSUME NEW n \in 1 .. Cardinality(S)
      PROVE  order[n] \in S /\ Links!Rows(t)[n] = HeadingOf(t, order[n])
  BY <1>2, <1>3, <1>7
<1>8. \A i : HeadingOf(t, i).id = i
  BY DEF HeadingOf
<1>9. QED
  BY <1>3, <1>4, <1>5, <1>6, <1>7, <1>8

----------------------------------------------------------------------------
(* Storing one relation after the other.                                   *)

\* A run over all relations ends where StoreAll does.
LEMMA RunStores ==
  ASSUME NEW t, NEW file, Len(file) \in Nat, NEW last, RunLeads(t, file, Len(file), last)
  PROVE  Links!StoreAll(t, file) = last
<1>0. PICK f : LinksRun(f, t, file, Len(file)) /\ f[Len(file)] = last
  BY DEF RunLeads
<1> DEFINE Def(g) == [n \in 0 .. Len(file) |-> IF n = 0 THEN t ELSE Links!Stored(g[n - 1], file[n])]
           after  == CHOOSE g : g = Def(g)
<1>1. Links!StoreAll(t, file) = after[Len(file)]
  BY DEF Links!StoreAll
<1>2. f = Def(f)
  BY <1>0 DEF LinksRun
<1>3. after = Def(after)
  <2> HIDE DEF Def
  <2>1. \E g : g = Def(g)
    BY <1>2
  <2>2. QED
    BY <2>1
<1> HIDE DEF after
<1> DEFINE S == {n \in Nat : n <= Len(file) => after[n] = f[n]}
<1>4. Nat \subseteq S
  <2>1. 0 \in S
    BY <1>2, <1>3
  <2>2. ASSUME NEW n \in Nat, n \in S PROVE n + 1 \in S
    <3> SUFFICES ASSUME n + 1 <= Len(file) PROVE after[n + 1] = f[n + 1]
      OBVIOUS
    <3>1. n + 1 \in 0 .. Len(file) /\ n + 1 # 0 /\ n + 1 - 1 = n /\ after[n] = f[n]
      BY <2>2
    <3>2. QED
      BY <1>2, <1>3, <3>1
  <2> HIDE DEF S
  <2>3. QED
    BY <2>1, <2>2, Induction
<1>5. QED
  BY <1>0, <1>1, <1>4

\* Nothing stored is where a run begins.
LEMMA RunBegins == \A t, file : RunLeads(t, file, 0, t)
<1> TAKE t, file
<1>1. LinksRun([i \in 0 .. 0 |-> t], t, file, 0)
  BY DEF LinksRun
<1>2. [i \in 0 .. 0 |-> t][0] = t
  OBVIOUS
<1>3. QED
  BY <1>1, <1>2, Zenon DEF RunLeads

\* The next relation takes a run one further.
LEMMA RunGoesOn ==
  ASSUME NEW t, NEW file, NEW n \in Nat, NEW last, RunLeads(t, file, n, last)
  PROVE  RunLeads(t, file, n + 1, Links!Stored(last, file[n + 1]))
<1>1. PICK f : LinksRun(f, t, file, n) /\ f[n] = last
  BY DEF RunLeads
<1> DEFINE g == [i \in 0 .. n + 1 |-> IF i = n + 1 THEN Links!Stored(last, file[n + 1]) ELSE f[i]]
<1>2. g = [i \in 0 .. n + 1 |-> g[i]] /\ g[n + 1] = Links!Stored(last, file[n + 1])
  OBVIOUS
<1>3. g[0] = t
  BY <1>1 DEF LinksRun
<1>4. ASSUME NEW i \in 1 .. n + 1 PROVE g[i] = Links!Stored(g[i - 1], file[i])
  <2>1. CASE i = n + 1
    <3>1. g[i - 1] = last /\ g[i] = Links!Stored(last, file[n + 1])
      BY <1>1, <2>1
    <3>2. QED
      BY <2>1, <3>1, Zenon
  <2>2. CASE i # n + 1
    <3>1. i \in 1 .. n /\ g[i] = f[i] /\ g[i - 1] = f[i - 1]
      BY <2>2
    <3>2. QED
      BY <1>1, <3>1, Zenon DEF LinksRun
  <2>3. QED
    BY <2>1, <2>2
<1> HIDE DEF g
<1>5. LinksRun(g, t, file, n + 1)
  BY <1>2, <1>3, <1>4, Zenon DEF LinksRun
<1>6. QED
  BY <1>2, <1>5, Zenon DEF RunLeads

\* The run that leads from the empty tables to given ones: their relations, in order.
LEMMA StoringRebuilds ==
  ASSUME NEW t \in Tables, NEW file \in Seq(Links!Relation),
         \A n \in 1 .. Len(file) : t.row[file[n].id] # NoLink /\ file[n] = RelationOf(t, file[n].id),
         \A i \in Ids : t.row[i] = NoLink => t.members[i] = <<>>,
         \A i \in Links!Present(t) : \E n \in 1 .. Len(file) : file[n].id = i
  PROVE  Links!StoreAll(Links!Empty, file) = t
<1> DEFINE ids(n) == {file[k].id : k \in 1 .. n}
           f == [n \in 0 .. Len(file) |->
                   [row     |-> [i \in Ids |-> IF i \in ids(n) THEN t.row[i] ELSE NoLink],
                    members |-> [i \in Ids |-> IF i \in ids(n) THEN t.members[i] ELSE <<>>]]]
<1>0. Len(file) \in Nat
  OBVIOUS
<1>1. f = [n \in 0 .. Len(file) |-> f[n]]
  OBVIOUS
<1>2. f[0] = Links!Empty
  BY DEF Links!Empty
<1>3. ASSUME NEW n \in 1 .. Len(file) PROVE f[n] = Links!Stored(f[n - 1], file[n])
  <2> DEFINE r == file[n]
             now == f[n - 1]
  <2>1. ids(n) = ids(n - 1) \cup {r.id}
    <3>1. 1 .. n = 1 .. n - 1 \cup {n}
      OBVIOUS
    <3>2. QED
      BY <3>1
  <2>2. r.id \in Ids
    <3>1. r \in Links!Relation
      OBVIOUS
    <3>2. QED
      BY <3>1 DEF Links!Relation
  <2>3. /\ [source |-> r.source, grade |-> r.grade, claimed |-> r.claimed] = t.row[r.id]
        /\ r.members = t.members[r.id]
    <3>1. t.row[r.id] \in Links!LinkRow
      BY <2>2 DEF Tables
    <3>2. r = RelationOf(t, r.id)
      OBVIOUS
    <3>3. QED
      BY <3>1, <3>2 DEF RelationOf, Links!LinkRow
  <2>4. n \in 0 .. Len(file) /\ n - 1 \in 0 .. Len(file)
    OBVIOUS
  <2> HIDE DEF ids
  <2>5. f[n].row = [now.row EXCEPT ![r.id] = t.row[r.id]]
    BY <2>1, <2>2, <2>4
  <2>6. f[n].members = [now.members EXCEPT ![r.id] = t.members[r.id]]
    BY <2>1, <2>2, <2>4
  <2>7. f[n] = [row |-> f[n].row, members |-> f[n].members]
    BY <2>4
  <2> HIDE DEF f
  <2>8. QED
    BY <2>3, <2>5, <2>6, <2>7, Zenon DEF Links!Stored
<1>4. f[Len(file)] = t
  <2>1. \A i \in Ids : i \in ids(Len(file)) \/ (t.row[i] = NoLink /\ t.members[i] = <<>>)
    <3>1. ASSUME NEW i \in Ids, t.row[i] # NoLink PROVE i \in ids(Len(file))
      <4>1. PICK n \in 1 .. Len(file) : file[n].id = i
        BY <3>1 DEF Links!Present
      <4>2. QED
        BY <4>1
    <3>2. \A i \in Ids : t.row[i] = NoLink => t.members[i] = <<>>
      OBVIOUS
    <3> HIDE DEF ids
    <3>3. QED
      BY <3>1, <3>2
  <2> HIDE DEF ids
  <2>2. f[Len(file)].row = t.row /\ f[Len(file)].members = t.members
    BY <1>0, <2>1 DEF Tables
  <2>3. QED
    BY <1>0, <2>2 DEF Tables
<1> HIDE DEF f
<1>5. LinksRun(f, Links!Empty, file, Len(file))
  BY <1>1, <1>2, <1>3, Zenon DEF LinksRun
<1>6. QED
  <2>1. RunLeads(Links!Empty, file, Len(file), t)
    BY <1>4, <1>5 DEF RunLeads
  <2>2. QED
    BY <1>0, <2>1, RunStores

----------------------------------------------------------------------------
(* Relations on their way.                                                 *)

\* A relation as a backup gives it back.
Again(r) == Links!Loaded(Links!AsWritten(r), BackupName)

\* Members stay members when their transactions are written as digits.
LEMMA HexMembers ==
  ASSUME NEW s \in Seq(Links!Member)
  PROVE  /\ Links!InHex(s) \in Seq(Links!Member) /\ Len(Links!InHex(s)) = Len(s)
         /\ Links!InHex(Links!InHex(s)) = Links!InHex(s)
<1> DEFINE h == Links!InHex(s)
<1>1. h = [n \in 1 .. Len(s) |-> [s[n] EXCEPT !.type = IF @ = "none" THEN "none" ELSE "HEX"]]
  BY DEF Links!InHex
<1>2. ASSUME NEW n \in 1 .. Len(s) PROVE h[n] \in Links!Member
  <2>1. s[n] \in Links!Member
    OBVIOUS
  <2>2. h[n] = [s[n] EXCEPT !.type = IF @ = "none" THEN "none" ELSE "HEX"]
    BY <1>1
  <2>3. "none" \in Links!InputTypes /\ "HEX" \in Links!InputTypes
    BY DEF Links!InputTypes
  <2> HIDE DEF h
  <2>4. QED
    BY <2>1, <2>2, <2>3 DEF Links!Member
<1> HIDE DEF h
<1>3. h \in Seq(Links!Member) /\ Len(h) = Len(s) /\ DOMAIN h = 1 .. Len(s)
  BY <1>1, <1>2
<1>4. Links!InHex(h) = [n \in 1 .. Len(s) |-> [h[n] EXCEPT !.type = IF @ = "none" THEN "none" ELSE "HEX"]]
  BY <1>3 DEF Links!InHex
<1>5. ASSUME NEW n \in 1 .. Len(s)
      PROVE  [h[n] EXCEPT !.type = IF @ = "none" THEN "none" ELSE "HEX"] = h[n]
  <2>1. h[n].type \in {"none", "HEX"} /\ h[n] \in Links!Member
    BY <1>1, <1>2 DEF Links!Member
  <2>2. QED
    BY <2>1 DEF Links!Member
<1>6. Links!InHex(h) = h
  <2>1. h = [n \in 1 .. Len(s) |-> h[n]]
    BY <1>1
  <2>2. Links!InHex(h) = [n \in 1 .. Len(s) |-> h[n]]
    BY <1>4, <1>5
  <2>3. QED
    BY <2>1, <2>2
<1>7. QED
  BY <1>3, <1>6 DEF h

\* What comes back of a relation that is not called verified.
LEMMA AgainIs ==
  ASSUME Links!LinksAssumption, NEW r \in Links!Relation, r.grade \notin Links!VerifiedGrades
  PROVE  /\ Again(r) = [id |-> r.id, source |-> BackupName, grade |-> r.grade,
                        claimed |-> r.claimed, members |-> Links!InHex(r.members)]
         /\ Again(r) \in Links!Relation /\ Again(Again(r)) = Again(r)
         /\ Len(Again(r).members) = Len(r.members)
<1> DEFINE a == [id |-> r.id, source |-> BackupName, grade |-> r.grade,
                 claimed |-> r.claimed, members |-> Links!InHex(r.members)]
           w == Links!AsWritten(r)
<1>1. /\ r.members \in Seq(Links!Member) /\ r.id \in Ids /\ r.claimed \in Claims
      /\ r.grade \in Links!Grades /\ BackupName \in Sources /\ r.source \in Sources
  BY DEF Links!Relation, Links!LinksAssumption
<1>2. /\ Links!InHex(r.members) \in Seq(Links!Member)
      /\ Len(Links!InHex(r.members)) = Len(r.members)
      /\ Links!InHex(Links!InHex(r.members)) = Links!InHex(r.members)
  BY <1>1, HexMembers
<1>3. w = [id |-> r.id, source |-> r.source, grade |-> r.grade, claimed |-> r.claimed,
           members |-> Links!InHex(r.members)]
  BY DEF Links!AsWritten, Links!Relation
<1>4. Again(r) = a
  BY <1>3 DEF Again, Links!Loaded
<1>5. a \in Links!Relation /\ a.grade \notin Links!VerifiedGrades
  BY <1>1, <1>2 DEF Links!Relation
<1>6. Links!AsWritten(a) = a
  BY <1>2 DEF Links!AsWritten
<1>7. Links!Loaded(a, BackupName) = a
  BY <1>5 DEF Links!Loaded
<1>8. Again(a) = a
  BY <1>6, <1>7 DEF Again
<1>9. QED
  BY <1>2, <1>4, <1>5, <1>8

\* What a file gives has two members and no verified grade.
LEMMA GivenAreSound ==
  ASSUME Links!LinksAssumption, NEW d \in Links!Given
  PROVE  d \in Links!Relation /\ d.grade \notin Links!VerifiedGrades /\ Len(d.members) >= 2
<1>1. PICK file \in Evidence : /\ Links!Loadable(file.rows)
                               /\ \E i \in DOMAIN file.rows : d = Links!Loaded(file.rows[i], file.source)
  BY DEF Links!Given
<1>2. PICK i \in DOMAIN file.rows : d = Links!Loaded(file.rows[i], file.source)
  BY <1>1
<1>3. file.rows[i] \in Links!Relation /\ Len(file.rows[i].members) >= 2 /\ file.source \in Sources
  BY <1>1 DEF Links!LinksAssumption, Links!Loadable
<1>4. Links!UserProof \in Links!Grades \ Links!VerifiedGrades /\ Links!VerifiedGrades \subseteq Claims
  BY DEF Links!UserProof, Links!Grades, Links!VerifiedGrades, Links!LinksAssumption
<1>5. d \in Links!Relation /\ d.grade \notin Links!VerifiedGrades /\ d.members = file.rows[i].members
  BY <1>2, <1>3, <1>4 DEF Links!Loaded, Links!Relation
<1>6. QED
  BY <1>3, <1>5

\* So has what is delivered, at first or again.
LEMMA DeliveredAreSound ==
  ASSUME Links!LinksAssumption, NEW d \in Links!Delivered
  PROVE  /\ d \in Links!Relation /\ d.grade \notin Links!VerifiedGrades /\ Len(d.members) >= 2
         /\ Named(d) /\ Again(d) \in Links!Delivered
<1>1. /\ d \in Links!Relation /\ d.grade \notin Links!VerifiedGrades /\ Len(d.members) >= 2
      /\ Again(d) \in Links!Delivered
  <2>1. CASE d \in Links!Given
    BY <2>1, GivenAreSound DEF Links!Delivered, Again
  <2>2. CASE d \notin Links!Given
    <3>1. PICK g \in Links!Given : d = Again(g)
      BY <2>2 DEF Links!Delivered, Again
    <3>2. g \in Links!Relation /\ g.grade \notin Links!VerifiedGrades /\ Len(g.members) >= 2
      BY GivenAreSound
    <3>3. d \in Links!Relation /\ Again(d) = d /\ Len(d.members) = Len(g.members) /\ d.grade = g.grade
      BY <3>1, <3>2, AgainIs
    <3>4. QED
      BY <3>2, <3>3
  <2>3. QED
    BY <2>1, <2>2
<1>2. QED
  BY <1>1 DEF Named

\* What an evidence file delivers is delivered.
LEMMA FilesDeliver ==
  ASSUME Links!LinksAssumption, NEW file \in Evidence, Links!Loadable(file.rows)
  PROVE  /\ Links!FromFile(file.rows, file.source) \in Seq(Links!Relation)
         /\ \A i \in 1 .. Len(Links!FromFile(file.rows, file.source)) :
              Links!FromFile(file.rows, file.source)[i] \in Links!Delivered
<1> DEFINE rows == file.rows
           all == Links!FromFile(rows, file.source)
<1>1. rows \in Seq(Links!Relation)
  BY DEF Links!LinksAssumption
<1>2. all = [i \in 1 .. Len(rows) |-> all[i]] /\ Len(rows) \in Nat
  BY <1>1 DEF Links!FromFile
<1>3. \A i \in 1 .. Len(rows) : all[i] \in Links!Delivered
  BY <1>1 DEF Links!Delivered, Links!Given, Links!FromFile
<1>4. \A i \in 1 .. Len(rows) : all[i] \in Links!Relation
  BY <1>3, DeliveredAreSound
<1> HIDE DEF all, rows
<1>5. all \in Seq(Links!Relation) /\ Len(all) = Len(rows)
  BY <1>2, <1>4
<1>6. QED
  BY <1>3, <1>5 DEF all, rows

\* What a backup of relations gives back, if none of them is called verified.
LEMMA BackupGives ==
  ASSUME Links!LinksAssumption, NEW rels \in Seq(Links!Relation),
         \A i \in 1 .. Len(rels) : Named(rels[i])
  PROVE  /\ Links!FromBackup(rels) \in Seq(Links!Relation)
         /\ Len(Links!FromBackup(rels)) = Len(rels)
         /\ \A i \in 1 .. Len(rels) : Links!FromBackup(rels)[i] = Again(rels[i])
<1> DEFINE all == Links!FromBackup(rels)
<1>1. all = [i \in 1 .. Len(rels) |-> Again(rels[i])] /\ Len(rels) \in Nat
  BY DEF Links!FromBackup, Links!FromFile, Again
<1>2. \A i \in 1 .. Len(rels) : Again(rels[i]) \in Links!Relation
  BY AgainIs DEF Named
<1> HIDE DEF all
<1>3. all \in Seq(Links!Relation) /\ Len(all) = Len(rels)
  BY <1>1, <1>2
<1>4. QED
  BY <1>1, <1>3 DEF all

\* A whole relation comes back whole.
LEMMA AgainIsWhole ==
  ASSUME Links!LinksAssumption, NEW r \in Links!Relation, NEW mix, Whole(r, mix)
  PROVE  Whole(Again(r), mix)
<1>1. r.grade \notin Links!VerifiedGrades
  BY DEF Whole, Named
<1>2. Again(r) = [id |-> r.id, source |-> BackupName, grade |-> r.grade,
                  claimed |-> r.claimed, members |-> Links!InHex(r.members)]
  BY <1>1, AgainIs
<1>3. PICK d \in Links!Delivered : d.id = r.id /\ d.grade = r.grade /\ d.claimed = r.claimed
  BY DEF Whole, Named
<1>4. PICK e \in Links!Delivered : e.id = r.id /\ e.members = r.members
  BY DEF Whole
<1>5. /\ Again(d) \in Links!Delivered
      /\ Again(d) = [id |-> d.id, source |-> BackupName, grade |-> d.grade,
                     claimed |-> d.claimed, members |-> Links!InHex(d.members)]
  BY DeliveredAreSound, AgainIs
<1>6. /\ Again(e) \in Links!Delivered
      /\ Again(e) = [id |-> e.id, source |-> BackupName, grade |-> e.grade,
                     claimed |-> e.claimed, members |-> Links!InHex(e.members)]
  BY DeliveredAreSound, AgainIs
<1>7. Named(Again(r))
  BY <1>1, <1>2, <1>3, <1>5 DEF Named
<1>8. Again(e).id = Again(r).id /\ Again(e).members = Again(r).members
  BY <1>2, <1>4, <1>6
<1>9. ~mix => Again(r) \in Links!Delivered
  BY DeliveredAreSound DEF Whole
<1>10. QED
  BY <1>6, <1>7, <1>8, <1>9 DEF Whole

\* Delivered relations are whole.
LEMMA DeliveredAreWhole ==
  ASSUME Links!LinksAssumption, NEW d \in Links!Delivered, NEW mix
  PROVE  Whole(d, mix)
BY DeliveredAreSound DEF Whole

\* Storing a whole relation keeps the tables whole.
LEMMA StoredIsWhole ==
  ASSUME Links!LinksAssumption, NEW t \in Tables, IsFiniteSet(Links!Present(t)), NEW mix,
         WholeTables(t, mix),
         NEW r \in Links!Relation, Whole(r, mix)
  PROVE  /\ Links!Stored(t, r) \in Tables /\ IsFiniteSet(Links!Present(Links!Stored(t, r)))
         /\ WholeTables(Links!Stored(t, r), mix)
<1> DEFINE u == Links!Stored(t, r)
           row == [source |-> r.source, grade |-> r.grade, claimed |-> r.claimed]
<1>1. r.id \in Ids /\ row \in Links!LinkRow /\ row # NoLink /\ r.members \in Seq(Links!Member)
  BY DEF Links!Relation, Links!LinkRow, Links!LinksAssumption
<1>2. u.row = [t.row EXCEPT ![r.id] = row] /\ u.members = [t.members EXCEPT ![r.id] = r.members]
  BY DEF Links!Stored
<1>3. u \in Tables
  <2>1. u = [row |-> u.row, members |-> u.members]
    BY DEF Links!Stored
  <2>2. u.row \in [Ids -> Links!LinkRow \cup {NoLink}] /\ u.members \in [Ids -> Seq(Links!Member)]
    BY <1>1, <1>2 DEF Tables
  <2> HIDE DEF u
  <2>3. QED
    BY <2>1, <2>2 DEF Tables
<1> HIDE DEF u
<1>4. IsFiniteSet(Links!Present(u))
  <2>1. Links!Present(u) \subseteq Links!Present(t) \cup {r.id}
    BY <1>2 DEF Links!Present, Tables
  <2>2. IsFiniteSet(Links!Present(t) \cup {r.id})
    BY FS_AddElement
  <2>3. QED
    BY <2>1, <2>2, FS_Subset
<1>5. ASSUME NEW i \in Ids
      PROVE  IF u.row[i] = NoLink THEN u.members[i] = <<>> ELSE Whole(RelationOf(u, i), mix)
  <2>1. CASE i = r.id
    <3>1. u.row[i] = row /\ u.members[i] = r.members
      BY <1>1, <1>2, <2>1 DEF Tables
    <3>2. RelationOf(u, i) = r
      BY <2>1, <3>1 DEF RelationOf, Links!Relation
    <3>3. QED
      BY <1>1, <3>1, <3>2
  <2>2. CASE i # r.id
    <3>1. u.row[i] = t.row[i] /\ u.members[i] = t.members[i]
      BY <1>2, <2>2 DEF Tables
    <3>2. RelationOf(u, i) = RelationOf(t, i)
      BY <3>1 DEF RelationOf
    <3>3. QED
      BY <3>1, <3>2 DEF WholeTables
  <2>3. QED
    BY <2>1, <2>2
<1>6. QED
  BY <1>3, <1>4, <1>5 DEF WholeTables, u

\* What holds of the rows of whole tables.
LEMMA RowsAreNamed ==
  ASSUME Links!LinksAssumption, NEW t \in Tables, IsFiniteSet(Links!Present(t)), NEW mix,
         WholeTables(t, mix)
  PROVE  Links!Rows(t) \in Seq(Heading) /\ \A n \in 1 .. Len(Links!Rows(t)) : Named(Links!Rows(t)[n])
<1>0. Ids \subseteq Nat
  BY DEF Links!LinksAssumption
<1>1. /\ Len(Links!Rows(t)) \in Nat /\ DOMAIN Links!Rows(t) = 1 .. Len(Links!Rows(t))
      /\ \A n \in 1 .. Len(Links!Rows(t)) : \E i \in Links!Present(t) :
           Links!Rows(t)[n] = HeadingOf(t, i)
  BY <1>0, RowsNameThePresent
<1>2. ASSUME NEW n \in 1 .. Len(Links!Rows(t))
      PROVE  Links!Rows(t)[n] \in Heading /\ Named(Links!Rows(t)[n])
  <2>1. PICK i \in Links!Present(t) :
          Links!Rows(t)[n] = HeadingOf(t, i)
    BY <1>1
  <2>2. i \in Ids /\ t.row[i] # NoLink /\ t.row[i] \in Links!LinkRow
    BY DEF Links!Present, Tables
  <2>3. Named(RelationOf(t, i))
    BY <2>2 DEF WholeTables, Whole
  <2>4. QED
    BY <2>1, <2>2, <2>3 DEF Heading, HeadingOf, Links!LinkRow, Named, RelationOf
<1> DEFINE rows == Links!Rows(t)
<1>3. rows = [n \in 1 .. Len(rows) |-> rows[n]]
  BY DEF Links!Rows
<1> HIDE DEF rows
<1>4. rows \in Seq(Heading)
  BY <1>1, <1>2, <1>3 DEF rows
<1>5. QED
  BY <1>2, <1>4 DEF rows

\* The members a list reads for one of its rows.
LEMMA MembersAreFound ==
  ASSUME NEW t, NEW mix, WholeTables(t, mix), NEW h \in Heading, Named(h),
         NEW overlap \in BOOLEAN,
         ~overlap => \E i \in Links!Present(t) :
                       h = HeadingOf(t, i)
  PROVE  Found(Links!WithMembers(h, t.members[h.id]), overlap, mix)
<1> DEFINE r == Links!WithMembers(h, t.members[h.id])
<1>1. /\ r.id = h.id /\ r.source = h.source /\ r.grade = h.grade /\ r.claimed = h.claimed
      /\ r.members = t.members[h.id] /\ h.id \in Ids
  BY DEF Links!WithMembers, Heading
<1>2. Named(r)
  BY <1>1 DEF Named
<1>3. r.members = <<>> \/ \E e \in Links!Delivered : e.id = r.id /\ e.members = r.members
  <2>1. CASE t.row[h.id] = NoLink
    BY <1>1, <2>1 DEF WholeTables
  <2>2. CASE t.row[h.id] # NoLink
    <3>1. Whole(RelationOf(t, h.id), mix)
      BY <1>1, <2>2 DEF WholeTables
    <3>2. QED
      BY <1>1, <3>1 DEF Whole, RelationOf
  <2>3. QED
    BY <2>1, <2>2
<1>4. ASSUME ~overlap PROVE Whole(r, mix)
  <2>1. PICK i \in Links!Present(t) :
          h = HeadingOf(t, i)
    BY <1>4
  <2>2. r = RelationOf(t, i)
    BY <2>1 DEF Links!WithMembers, HeadingOf, RelationOf
  <2>3. QED
    BY <2>2 DEF WholeTables, Links!Present
<1>5. QED
  BY <1>2, <1>3, <1>4 DEF Found

\* A later mixed import or overlapping change asks less.
LEMMA WholeStays ==
  ASSUME NEW r, NEW mix, NEW later, mix => later, Whole(r, mix)
  PROVE  Whole(r, later)
BY DEF Whole

\* So does a longer overlap.
LEMMA FoundStays ==
  ASSUME NEW r, NEW overlap, NEW longer, overlap => longer, NEW mix, NEW later, mix => later,
         Found(r, overlap, mix)
  PROVE  Found(r, longer, later)
BY WholeStays DEF Found

\* The same for the tables.
LEMMA TablesStayWhole ==
  ASSUME NEW t, NEW mix, NEW later, mix => later, WholeTables(t, mix)
  PROVE  WholeTables(t, later)
BY WholeStays DEF WholeTables

\* Empty tables are whole.
LEMMA EmptyIsWhole ==
  ASSUME NEW mix
  PROVE  /\ Links!Empty \in Tables /\ IsFiniteSet(Links!Present(Links!Empty))
         /\ WholeTables(Links!Empty, mix)
<1>1. Links!Empty \in Tables
  BY DEF Links!Empty, Tables
<1>2. Links!Present(Links!Empty) = {}
  BY DEF Links!Empty, Links!Present
<1>3. QED
  BY <1>1, <1>2, FS_EmptySet DEF WholeTables, Links!Empty

----------------------------------------------------------------------------
(* The steps.                                                              *)

\* A connection that a step leaves alone.
LEMMA Unmoved ==
  ASSUME NEW d \in Conns, Storing(d), Listing(d),
         doing'[d] = doing[d], left'[d] = left[d], relations'[d] = relations[d],
         mixed.stored => mixed'.stored, overlapped[d] => overlapped'[d],
         doing[d] = "list" /\ ~overlapped'[d] => table' = table,
         \/ holder = d /\ holder' = d /\ table' = table /\ written' = written
         \/ holder # d /\ holder' # d
  PROVE  Storing(d)' /\ Listing(d)'
<1>1. ASSUME doing[d] = "store" PROVE Storing(d)'
  <2>1. \A i \in 1 .. Len(relations[d]) : Whole(relations[d][i], mixed'.stored)
    BY <1>1, WholeStays DEF Storing
  <2>2. PICK n \in 0 .. Len(relations[d]) : AtRelation(d, n)
    BY <1>1 DEF Storing
  <2>3. AtRelation(d, n)'
    BY <2>2 DEF AtRelation
  <2>4. QED
    BY <2>1, <2>3 DEF Storing
<1>2. ASSUME doing[d] = "list" PROVE Listing(d)'
  <2>1. \A i \in 1 .. Len(relations[d]) : Found(relations[d][i], overlapped'[d], mixed'.stored)
    BY <1>2, FoundStays DEF Listing
  <2>2. ~overlapped'[d] => UpToDate(d)'
    BY <1>2 DEF Listing, UpToDate
  <2>3. QED
    BY <1>2, <2>1, <2>2 DEF Listing
<1>3. QED
  BY <1>1, <1>2 DEF Storing, Listing

LinksStep(c) ==
  \/ Links!ImportEvidence(c) \/ Links!ImportBackup(c)
  \/ Links!StoreRelation(c) \/ Links!CommitLinks(c) \/ Links!RollbackLinks(c) \/ Links!Clear(c)
  \/ Links!ListRows(c) \/ Links!ReadMembers(c) \/ Links!Export(c) \/ Links!Dismiss(c)

\* What the next relation to be stored is.
LEMMA HeadIsWhole ==
  ASSUME LinksInv, NEW c \in Conns, Links!StoreRelation(c)
  PROVE  /\ Head(left[c]) \in Links!Relation /\ Whole(Head(left[c]), mixed.stored)
         /\ Tail(left[c]) \in Seq(Links!Relation)
<1>1. doing[c] = "store" /\ left[c] # <<>> /\ left[c] \in Seq(Links!Relation)
  BY DEF Links!StoreRelation, LinksInv, LinksTypeOK
<1>2. PICK n \in 0 .. Len(relations[c]) : AtRelation(c, n)
  BY <1>1 DEF LinksInv, Storing
<1>3. \A i \in 1 .. Len(relations[c]) : Whole(relations[c][i], mixed.stored)
  BY <1>1 DEF LinksInv, Storing
<1>4. relations[c] \in Seq(Links!Relation)
  BY DEF LinksInv, LinksTypeOK
<1>5. Head(left[c]) = left[c][1] /\ Len(left[c]) \in Nat /\ Len(left[c]) > 0
  BY <1>1
<1>6. Head(left[c]) = relations[c][n + 1] /\ n + 1 \in 1 .. Len(relations[c])
  BY <1>2, <1>4, <1>5 DEF AtRelation
<1>7. QED
  BY <1>1, <1>3, <1>6

\* The types and the lock.
LEMMA TypesKept ==
  ASSUME Links!LinksAssumption, LinksInv, NEW c \in Conns, LinksStep(c)
  PROVE  LinksTypeOK' /\ LockHeld'
<1> USE DEF LinksInv, LinksTypeOK, LockHeld
<1>0. NoConn \notin Conns
  BY DEF Links!LinksAssumption
<1>1. CASE Links!ImportEvidence(c)
  <2>1. PICK file \in Evidence : /\ Links!Loadable(file.rows)
                                 /\ Links!BeginStore(c, Links!FromFile(file.rows, file.source))
    BY <1>1 DEF Links!ImportEvidence
  <2>2. Links!FromFile(file.rows, file.source) \in Seq(Links!Relation)
    BY <2>1, FilesDeliver
  <2>3. QED
    BY <1>0, <1>1, <2>1, <2>2 DEF Links!ImportEvidence, Links!BeginStore, Links!Enter
<1>2. CASE Links!ImportBackup(c)
  <2>1. backup \in Seq(Links!Relation) /\ \A i \in 1 .. Len(backup) : Named(backup[i])
    BY <1>2 DEF Links!ImportBackup, BackupFound, Found
  <2>2. Links!FromBackup(backup) \in Seq(Links!Relation)
    BY <2>1, BackupGives
  <2>3. mixed' \in [backup : BOOLEAN, stored : BOOLEAN]
    BY <1>2 DEF Links!ImportBackup
  <2>4. QED
    BY <1>0, <1>2, <2>1, <2>2, <2>3 DEF Links!ImportBackup, Links!BeginStore, Links!Enter
<1>3. CASE Links!StoreRelation(c)
  <2>1. /\ Head(left[c]) \in Links!Relation /\ Whole(Head(left[c]), mixed.stored)
        /\ Tail(left[c]) \in Seq(Links!Relation)
    BY <1>3, HeadIsWhole
  <2>2. written' \in Tables /\ IsFiniteSet(Links!Present(written'))
    BY <1>3, <2>1, StoredIsWhole DEF Links!StoreRelation
  <2>3. QED
    BY <1>0, <1>3, <2>1, <2>2 DEF Links!StoreRelation
<1>4. CASE Links!CommitLinks(c)
  <2>1. CASE holder = c
    BY <1>0, <1>4, <2>1 DEF Links!CommitLinks, Links!Publish, Links!Leave, Links!Enter
  <2>2. CASE holder # c
    BY <1>0, <1>4, <2>2 DEF Links!CommitLinks, Links!Leave, Links!Enter
  <2>3. QED
    BY <2>1, <2>2
<1>5. CASE Links!RollbackLinks(c)
  BY <1>0, <1>5 DEF Links!RollbackLinks, Links!Leave, Links!Enter
<1>6. CASE Links!Clear(c)
  BY <1>0, <1>6, EmptyIsWhole DEF Links!Clear, Links!Publish, Links!Cleared
<1>7. CASE Links!ListRows(c)
  <2>1. Links!Rows(table) \in Seq(Heading)
    BY RowsAreNamed
  <2>2. QED
    BY <1>0, <1>7, <2>1 DEF Links!ListRows, Links!Enter, Links!Idle
<1>8. CASE Links!ReadMembers(c)
  <2>1. left[c] \in Seq(Heading) /\ left[c] # <<>>
    BY <1>8 DEF Links!ReadMembers
  <2>2. Head(left[c]) \in Heading /\ Tail(left[c]) \in Seq(Heading)
    BY <2>1
  <2>3. Links!WithMembers(Head(left[c]), table.members[Head(left[c]).id]) \in Links!Relation
    BY <2>2 DEF Links!WithMembers, Heading, Links!Relation, Tables
  <2>4. relations' \in [Conns -> Seq(Links!Relation)]
    BY <1>8, <2>3 DEF Links!ReadMembers
  <2>5. QED
    BY <1>0, <1>8, <2>2, <2>4 DEF Links!ReadMembers
<1>9. CASE Links!Export(c)
  <2>1. mixed' \in [backup : BOOLEAN, stored : BOOLEAN]
    <3>1. overlapped[c] \in BOOLEAN
      BY Zenon
    <3>2. QED
      BY <1>9, <3>1 DEF Links!Export
  <2>2. overlapped' \in [Conns -> BOOLEAN] /\ backup' \in Seq(Links!Relation)
    BY <1>9 DEF Links!Export
  <2>3. QED
    BY <1>0, <1>9, <2>1, <2>2 DEF Links!Export, Links!Listed, Links!Leave, Links!Enter
<1>10. CASE Links!Dismiss(c)
  BY <1>0, <1>10 DEF Links!Dismiss, Links!Leave, Links!Enter
<1>11. QED
  BY <1>1, <1>2, <1>3, <1>4, <1>5, <1>6, <1>7, <1>8, <1>9, <1>10 DEF LinksStep

\* The tables stay whole, committed and written.
LEMMA TablesKept ==
  ASSUME Links!LinksAssumption, LinksInv, NEW c \in Conns, LinksStep(c)
  PROVE  WholeTables(table, mixed.stored)' /\ WholeTables(written, mixed.stored)'
<1> USE DEF LinksInv
<1>1. mixed.stored => mixed'.stored
  BY DEF LinksTypeOK, LinksStep, Links!ImportEvidence, Links!ImportBackup, Links!StoreRelation,
     Links!CommitLinks, Links!RollbackLinks, Links!Clear, Links!ListRows, Links!ReadMembers,
     Links!Export, Links!Dismiss
<1>2. CASE Links!StoreRelation(c)
  <2>1. WholeTables(written', mixed.stored)
    BY <1>2, HeadIsWhole, StoredIsWhole DEF Links!StoreRelation, LinksTypeOK
  <2>2. QED
    BY <1>2, <2>1 DEF Links!StoreRelation
<1>3. CASE Links!Clear(c)
  BY <1>3, EmptyIsWhole DEF Links!Clear, Links!Publish, Links!Cleared
<1>4. CASE ~Links!StoreRelation(c) /\ ~Links!Clear(c)
  <2>1. table' \in {table, written} /\ written' \in {table, written}
    BY <1>4 DEF LinksStep, Links!ImportEvidence, Links!ImportBackup, Links!CommitLinks,
       Links!Publish, Links!RollbackLinks, Links!ListRows, Links!ReadMembers, Links!Export,
       Links!Dismiss
  <2>2. QED
    BY <1>1, <2>1, TablesStayWhole
<1>5. QED
  BY <1>2, <1>3, <1>4

\* The other connections.
LEMMA OthersKept ==
  ASSUME Links!LinksAssumption, LinksInv, NEW c \in Conns, LinksStep(c), NEW d \in Conns, d # c
  PROVE  Storing(d)' /\ Listing(d)'
<1>0. NoConn \notin Conns
  BY DEF Links!LinksAssumption
<1>1. Storing(d) /\ Listing(d)
  BY DEF LinksInv
<1>2. doing'[d] = doing[d] /\ left'[d] = left[d] /\ relations'[d] = relations[d]
  BY DEF LinksInv, LinksTypeOK, LinksStep, Links!ImportEvidence, Links!ImportBackup,
     Links!StoreRelation, Links!CommitLinks, Links!RollbackLinks, Links!Clear, Links!ListRows,
     Links!ReadMembers, Links!Export, Links!Dismiss, Links!BeginStore, Links!Enter, Links!Leave
<1>3. mixed.stored => mixed'.stored
  BY DEF LinksInv, LinksTypeOK, LinksStep, Links!ImportEvidence, Links!ImportBackup,
     Links!StoreRelation, Links!CommitLinks, Links!RollbackLinks, Links!Clear, Links!ListRows,
     Links!ReadMembers, Links!Export, Links!Dismiss
<1>4. (overlapped[d] => overlapped'[d]) /\ (doing[d] = "list" /\ ~overlapped'[d] => table' = table)
  <2>1. CASE (Links!CommitLinks(c) /\ holder = c) \/ Links!Clear(c)
    <3>1. PICK t : Links!Publish(t)
      BY <2>1 DEF Links!CommitLinks, Links!Clear
    <3>2. /\ table' = t
          /\ overlapped'[d] = (overlapped[d] \/ (doing[d] = "list" /\ t # table))
      BY <3>1 DEF Links!Publish
    <3>3. QED
      BY <3>2
  <2>2. CASE ~(Links!CommitLinks(c) /\ holder = c) /\ ~Links!Clear(c)
    <3>1. overlapped'[d] = overlapped[d] /\ table' = table
      BY <2>2 DEF LinksInv, LinksTypeOK, LinksStep, Links!ImportEvidence, Links!ImportBackup,
         Links!StoreRelation, Links!CommitLinks, Links!RollbackLinks, Links!ListRows,
         Links!ReadMembers, Links!Export, Links!Dismiss
    <3>2. QED
      BY <3>1
  <2>3. QED
    BY <2>1, <2>2
<1>5. \/ holder = d /\ holder' = d /\ table' = table /\ written' = written
      \/ holder # d /\ holder' # d
  BY <1>0 DEF LinksStep, Links!ImportEvidence, Links!ImportBackup, Links!StoreRelation,
     Links!CommitLinks, Links!RollbackLinks, Links!Clear, Links!ListRows, Links!ReadMembers,
     Links!Export, Links!Dismiss
<1>6. QED
  BY <1>1, <1>2, <1>3, <1>4, <1>5, Unmoved

\* A connection that begins to store whole relations.
LEMMA BeginsToStore ==
  ASSUME LinksInv, NEW c \in Conns, Links!Idle(c), NEW file \in Seq(Links!Relation),
         doing'[c] = "store", left'[c] = file, relations'[c] = file, holder' = holder,
         NoConn \notin Conns,
         \A i \in 1 .. Len(file) : Whole(file[i], mixed'.stored)
  PROVE  Storing(c)' /\ Listing(c)'
<1>1. holder' # c
  BY DEF LinksInv, LockHeld, Links!Idle
<1>2. AtRelation(c, 0)'
  BY <1>1 DEF AtRelation
<1>3. 0 \in 0 .. Len(file)
  OBVIOUS
<1>4. Storing(c)'
  BY <1>2, <1>3 DEF Storing
<1>5. QED
  BY <1>4 DEF Listing

\* The next relation is stored.
LEMMA StoreAdvances ==
  ASSUME LinksInv, NEW c \in Conns, Links!StoreRelation(c)
  PROVE  Storing(c)' /\ Listing(c)'
<1>1. /\ doing[c] = "store" /\ doing' = doing /\ relations' = relations /\ mixed' = mixed
      /\ table' = table /\ holder \in {NoConn, c} /\ holder' = c
      /\ written' = Links!Stored(written, Head(left[c])) /\ left'[c] = Tail(left[c])
      /\ left[c] \in Seq(Links!Relation) /\ left[c] # <<>> /\ relations[c] \in Seq(Links!Relation)
  BY DEF Links!StoreRelation, LinksInv, LinksTypeOK
<1>2. PICK n \in 0 .. Len(relations[c]) : AtRelation(c, n)
  BY <1>1 DEF LinksInv, Storing
<1>3. RunLeads(table, relations[c], n, written)
  <2>1. CASE holder = c
    BY <1>2, <2>1 DEF AtRelation
  <2>2. CASE holder # c
    BY <1>1, <1>2, <2>2, RunBegins DEF AtRelation, LinksInv, LockHeld
  <2>3. QED
    BY <2>1, <2>2
<1> DEFINE s == left[c]
<1>4. /\ Head(s) = s[1] /\ Len(s) \in Nat /\ Len(s) > 0 /\ Len(Tail(s)) = Len(s) - 1
      /\ \A i \in 1 .. Len(s) - 1 : Tail(s)[i] = s[i + 1]
  BY <1>1
<1>5. /\ Len(s) = Len(relations[c]) - n /\ \A i \in 1 .. Len(s) : s[i] = relations[c][n + i]
  BY <1>2 DEF AtRelation
<1>6. n \in Nat /\ Len(relations[c]) \in Nat
  BY <1>1
<1>7. Head(s) = relations[c][n + 1] /\ n + 1 \in 0 .. Len(relations[c])
  BY <1>4, <1>5, <1>6
<1>8. RunLeads(table, relations[c], n + 1, written')
  <2>1. RunLeads(table, relations[c], n + 1, Links!Stored(written, relations[c][n + 1]))
    BY <1>3, <1>6, RunGoesOn
  <2>2. QED
    BY <1>1, <1>7, <2>1
<1>9. /\ Len(Tail(s)) = Len(relations[c]) - (n + 1)
      /\ \A i \in 1 .. Len(Tail(s)) : Tail(s)[i] = relations[c][n + 1 + i]
  <2>1. Len(Tail(s)) = Len(relations[c]) - (n + 1)
    BY <1>4, <1>5, <1>6
  <2>2. \A i \in 1 .. Len(Tail(s)) : i + 1 \in 1 .. Len(s) /\ n + (i + 1) = n + 1 + i
    BY <1>4, <1>6
  <2>3. QED
    BY <1>4, <1>5, <2>1, <2>2
<1>10. AtRelation(c, n + 1)'
  BY <1>1, <1>8, <1>9 DEF AtRelation
<1>11. QED
  BY <1>1, <1>7, <1>10 DEF Storing, Listing, LinksInv

\* A list begins.
LEMMA ListBegins ==
  ASSUME Links!LinksAssumption, LinksInv, NEW c \in Conns, Links!ListRows(c)
  PROVE  Storing(c)' /\ Listing(c)'
<1>1. /\ doing'[c] = "list" /\ left'[c] = Links!Rows(table) /\ relations'[c] = <<>>
      /\ overlapped'[c] = FALSE /\ table' = table
  BY DEF Links!ListRows, Links!Enter, LinksInv, LinksTypeOK
<1>2. /\ Links!Rows(table) \in Seq(Heading)
      /\ \A i \in 1 .. Len(Links!Rows(table)) : Named(Links!Rows(table)[i])
  BY RowsAreNamed DEF LinksInv, LinksTypeOK
<1>3. UpToDate(c)'
  <2>1. Len(<<>>) = 0 /\ Len(Links!Rows(table)) \in Nat
    BY <1>2
  <2>2. QED
    BY <1>1, <2>1 DEF UpToDate
<1>4. \A i \in 1 .. Len(relations'[c]) : FALSE
  BY <1>1
<1>5. QED
  BY <1>1, <1>2, <1>3, <1>4 DEF Listing, Storing

\* A list reads the members of its next row.
LEMMA ListAdvances ==
  ASSUME Links!LinksAssumption, LinksInv, NEW c \in Conns, Links!ReadMembers(c)
  PROVE  Storing(c)' /\ Listing(c)'
<1> DEFINE s == left[c]
           read == relations[c]
           h == Head(s)
           r == Links!WithMembers(h, table.members[h.id])
<1>1. /\ doing[c] = "list" /\ doing' = doing /\ table' = table /\ mixed' = mixed
      /\ overlapped' = overlapped /\ left'[c] = Tail(s) /\ relations'[c] = Append(read, r)
      /\ s \in Seq(Heading) /\ s # <<>> /\ read \in Seq(Links!Relation)
  BY DEF Links!ReadMembers, LinksInv, LinksTypeOK
<1>2. /\ \A i \in 1 .. Len(read) : Found(read[i], overlapped[c], mixed.stored)
      /\ \A i \in 1 .. Len(s) : Named(s[i])
      /\ ~overlapped[c] => UpToDate(c)
  BY <1>1 DEF LinksInv, Listing
<1>3. /\ h = s[1] /\ Len(s) \in Nat /\ Len(s) > 0 /\ Len(Tail(s)) = Len(s) - 1
      /\ \A i \in 1 .. Len(s) - 1 : Tail(s)[i] = s[i + 1]
  BY <1>1
<1>4. /\ Len(read) \in Nat /\ Len(Append(read, r)) = Len(read) + 1
      /\ Append(read, r)[Len(read) + 1] = r
      /\ \A i \in 1 .. Len(read) : Append(read, r)[i] = read[i]
  BY <1>1
<1>5. h \in Heading /\ Named(h)
  BY <1>1, <1>2, <1>3
<1>6. ~overlapped[c] => /\ h = Links!Rows(table)[Len(read) + 1]
                        /\ Len(read) + 1 \in 1 .. Len(Links!Rows(table))
  <2> SUFFICES ASSUME ~overlapped[c]
               PROVE  /\ h = Links!Rows(table)[Len(read) + 1]
                      /\ Len(read) + 1 \in 1 .. Len(Links!Rows(table))
    OBVIOUS
  <2>1. /\ Len(read) + Len(s) = Len(Links!Rows(table))
        /\ \A i \in 1 .. Len(s) : s[i] = Links!Rows(table)[Len(read) + i]
    BY <1>2 DEF UpToDate
  <2> HIDE DEF s, read, h
  <2>2. 1 \in 1 .. Len(s) /\ Len(read) + 1 \in 1 .. Len(Links!Rows(table))
    BY <1>3, <1>4, <2>1
  <2>3. QED
    BY <1>3, <2>1, <2>2
<1>7. Found(r, overlapped[c], mixed.stored)
  <2>1. overlapped[c] \in BOOLEAN
    BY Zenon DEF LinksInv, LinksTypeOK
  <2>2. WholeTables(table, mixed.stored) /\ IsFiniteSet(Links!Present(table)) /\ Ids \subseteq Nat
    BY DEF LinksInv, LinksTypeOK, Links!LinksAssumption
  <2>3. ~overlapped[c] => \E i \in Links!Present(table) :
          h = HeadingOf(table, i)
    BY <1>6, <2>2, RowsNameThePresent
  <2> HIDE DEF h
  <2>4. QED
    BY <1>5, <2>1, <2>2, <2>3, MembersAreFound
<1> HIDE DEF r, h
<1>8. \A i \in 1 .. Len(read) + 1 : Found(Append(read, r)[i], overlapped[c], mixed.stored)
  <2> SUFFICES ASSUME NEW i \in 1 .. Len(read) + 1
               PROVE  Found(Append(read, r)[i], overlapped[c], mixed.stored)
    OBVIOUS
  <2>1. CASE i = Len(read) + 1
    BY <1>4, <1>7, <2>1
  <2>2. CASE i # Len(read) + 1
    BY <1>2, <1>4, <2>2
  <2>3. QED
    BY <2>1, <2>2
<1>9. \A i \in 1 .. Len(Tail(s)) : Named(Tail(s)[i])
  BY <1>2, <1>3
<1>10. ~overlapped[c] => UpToDate(c)'
  <2> SUFFICES ASSUME ~overlapped[c] PROVE UpToDate(c)'
    OBVIOUS
  <2>1. /\ Len(read) + Len(s) = Len(Links!Rows(table))
        /\ \A i \in 1 .. Len(read) :
             read[i] = Links!WithMembers(Links!Rows(table)[i], table.members[Links!Rows(table)[i].id])
        /\ \A i \in 1 .. Len(s) : s[i] = Links!Rows(table)[Len(read) + i]
    BY <1>2 DEF UpToDate
  <2> HIDE DEF s, read
  <2>2. Len(read) + 1 + Len(Tail(s)) = Len(Links!Rows(table))
    <3>1. Len(Tail(s)) = Len(s) - 1 /\ Len(s) \in Nat /\ Len(read) \in Nat
      BY <1>3, <1>4
    <3>2. Len(read) + Len(s) = Len(Links!Rows(table))
      BY <2>1
    <3> DEFINE all == Len(Links!Rows(table))
               tail == Len(Tail(s))
               n == Len(read)
               k == Len(s)
    <3> HIDE DEF all, tail, n, k
    <3>3. tail = k - 1 /\ k \in Nat /\ n \in Nat /\ n + k = all
      BY <3>1, <3>2, Zenon DEF all, tail, n, k
    <3>4. n + 1 + tail = all
      BY <3>3
    <3>5. QED
      BY <3>4 DEF all, tail, n
  <2>3. r = Links!WithMembers(Links!Rows(table)[Len(read) + 1],
                            table.members[Links!Rows(table)[Len(read) + 1].id])
    BY <1>6 DEF r
  <2>4. \A i \in 1 .. Len(read) + 1 : Append(read, r)[i]
                  = Links!WithMembers(Links!Rows(table)[i], table.members[Links!Rows(table)[i].id])
    <3> SUFFICES ASSUME NEW i \in 1 .. Len(read) + 1
                 PROVE  Append(read, r)[i] =
                          Links!WithMembers(Links!Rows(table)[i],
                                            table.members[Links!Rows(table)[i].id])
      OBVIOUS
    <3>1. CASE i = Len(read) + 1
      BY <1>4, <2>3, <3>1
    <3>2. CASE i # Len(read) + 1
      BY <1>4, <2>1, <3>2
    <3>3. QED
      BY <3>1, <3>2
  <2>5. \A i \in 1 .. Len(Tail(s)) : Tail(s)[i] = Links!Rows(table)[Len(read) + 1 + i]
    <3>1. \A i \in 1 .. Len(Tail(s)) : i + 1 \in 1 .. Len(s) /\ Len(read) + (i + 1) = Len(read) + 1 + i
      BY <1>3, <1>4
    <3>2. QED
      BY <1>3, <2>1, <3>1
  <2>6. QED
    BY <1>1, <1>4, <2>2, <2>4, <2>5 DEF UpToDate, s, read
<1>11. QED
  BY <1>1, <1>4, <1>8, <1>9, <1>10 DEF Listing, Storing

\* Every connection.
LEMMA ConnectionsKept ==
  ASSUME Links!LinksAssumption, LinksInv, NEW c \in Conns, LinksStep(c), NEW d \in Conns
  PROVE  Storing(d)' /\ Listing(d)'
<1>0. NoConn \notin Conns
  BY DEF Links!LinksAssumption
<1> SUFFICES ASSUME d = c PROVE Storing(c)' /\ Listing(c)'
  BY OthersKept
<1>1. CASE Links!ImportEvidence(c)
  <2>1. PICK file \in Evidence : /\ Links!Loadable(file.rows)
                                 /\ Links!BeginStore(c, Links!FromFile(file.rows, file.source))
    BY <1>1 DEF Links!ImportEvidence
  <2> DEFINE loaded == Links!FromFile(file.rows, file.source)
  <2>2. loaded \in Seq(Links!Relation) /\ \A i \in 1 .. Len(loaded) : Whole(loaded[i], mixed'.stored)
    BY <2>1, FilesDeliver, DeliveredAreWhole
  <2>3. /\ doing'[c] = "store" /\ left'[c] = loaded /\ relations'[c] = loaded
        /\ holder' = holder /\ Links!Idle(c)
    BY <1>1, <2>1 DEF Links!ImportEvidence, Links!BeginStore, Links!Enter, LinksInv, LinksTypeOK
  <2> HIDE DEF loaded
  <2>4. QED
    BY <1>0, <2>2, <2>3, BeginsToStore
<1>2. CASE Links!ImportBackup(c)
  <2>1. backup # NoFile /\ backup \in Seq(Links!Relation) /\ Links!Loadable(backup)
    BY <1>2 DEF Links!ImportBackup, LinksInv, LinksTypeOK
  <2>2. \A i \in 1 .. Len(backup) : Found(backup[i], mixed.backup, mixed.stored)
    BY <2>1 DEF LinksInv, BackupFound
  <2> DEFINE loaded == Links!FromBackup(backup)
  <2>3. /\ loaded \in Seq(Links!Relation) /\ Len(loaded) = Len(backup)
        /\ \A i \in 1 .. Len(backup) : loaded[i] = Again(backup[i])
    BY <2>1, <2>2, BackupGives DEF Found
  <2>4. /\ doing'[c] = "store" /\ left'[c] = loaded /\ relations'[c] = loaded
        /\ holder' = holder /\ Links!Idle(c)
    BY <1>2 DEF Links!ImportBackup, Links!BeginStore, Links!Enter, LinksInv, LinksTypeOK
  <2> HIDE DEF loaded
  <2>5. mixed'.stored = (mixed.stored \/ mixed.backup)
    BY <1>2 DEF Links!ImportBackup, LinksInv, LinksTypeOK
  <2>6. ASSUME NEW i \in 1 .. Len(backup) PROVE Whole(backup[i], mixed'.stored)
    <3>1. backup[i].members # <<>>
      BY <2>1 DEF Links!Loadable
    <3>2. QED
      BY <2>2, <2>5, <3>1 DEF Found, Whole
  <2>7. \A i \in 1 .. Len(loaded) : Whole(loaded[i], mixed'.stored)
    BY <2>1, <2>3, <2>6, AgainIsWhole
  <2>8. QED
    BY <1>0, <2>3, <2>4, <2>7, BeginsToStore
<1>3. CASE Links!StoreRelation(c)
  BY <1>3, StoreAdvances
<1>4. CASE Links!ListRows(c)
  BY <1>4, ListBegins
<1>5. CASE Links!ReadMembers(c)
  BY <1>5, ListAdvances
<1>6. CASE \/ Links!CommitLinks(c) \/ Links!RollbackLinks(c) \/ Links!Clear(c)
           \/ Links!Export(c) \/ Links!Dismiss(c)
  <2>1. doing'[c] = "idle"
    BY <1>6 DEF Links!CommitLinks, Links!RollbackLinks, Links!Clear, Links!Export, Links!Dismiss,
       Links!Leave, Links!Enter, Links!Idle, LinksInv, LinksTypeOK
  <2>2. QED
    BY <2>1 DEF Storing, Listing
<1>7. QED
  BY <1>1, <1>2, <1>3, <1>4, <1>5, <1>6 DEF LinksStep

\* The backup.
LEMMA BackupKept ==
  ASSUME Links!LinksAssumption, LinksInv, NEW c \in Conns, LinksStep(c)
  PROVE  BackupFound'
<1>1. CASE Links!Export(c)
  <2>1. /\ doing[c] = "list" /\ backup' = relations[c] /\ mixed'.backup = overlapped[c]
        /\ mixed'.stored = mixed.stored
    BY <1>1 DEF Links!Export, Links!Listed, LinksInv, LinksTypeOK
  <2>2. \A i \in 1 .. Len(relations[c]) : Found(relations[c][i], overlapped[c], mixed.stored)
    BY <2>1 DEF LinksInv, Listing
  <2>3. QED
    BY <2>1, <2>2 DEF BackupFound
<1>2. CASE ~Links!Export(c)
  <2>1. backup' = backup /\ mixed'.backup = mixed.backup /\ (mixed.stored => mixed'.stored)
    BY <1>2 DEF LinksInv, LinksTypeOK, LinksStep, Links!ImportEvidence, Links!ImportBackup,
       Links!StoreRelation, Links!CommitLinks, Links!RollbackLinks, Links!Clear, Links!ListRows,
       Links!ReadMembers, Links!Dismiss
  <2>2. QED
    BY <2>1, FoundStays DEF LinksInv, BackupFound
<1>3. QED
  BY <1>1, <1>2

----------------------------------------------------------------------------
(* The theorems.                                                           *)

\* Initially there are no relations.
LEMMA LinksInitial == Links!LinksAssumption /\ Links!Init => LinksInv
<1> SUFFICES ASSUME Links!LinksAssumption, Links!Init PROVE LinksInv
  OBVIOUS
<1>1. table = Links!Empty /\ written = Links!Empty
  BY DEF Links!Init
<1>2. LinksTypeOK
  BY <1>1, EmptyIsWhole DEF Links!Init, LinksTypeOK
<1>3. \A c \in Conns : Storing(c) /\ Listing(c)
  BY DEF Links!Init, Storing, Listing
<1>4. QED
  BY <1>1, <1>2, <1>3, EmptyIsWhole DEF Links!Init, LinksInv, LockHeld, BackupFound

\* Every step keeps the invariant.
LEMMA LinksKept == Links!LinksAssumption /\ LinksInv /\ [Links!Next]_Links!links_vars => LinksInv'
<1> SUFFICES ASSUME Links!LinksAssumption, LinksInv, [Links!Next]_Links!links_vars PROVE LinksInv'
  OBVIOUS
<1>1. CASE UNCHANGED Links!links_vars
  <2>1. LinksTypeOK'
    BY <1>1 DEF LinksInv, LinksTypeOK, Links!links_vars
  <2>2. LockHeld' /\ BackupFound'
    BY <1>1 DEF LinksInv, LockHeld, BackupFound, Links!links_vars
  <2>3. WholeTables(table, mixed.stored)' /\ WholeTables(written, mixed.stored)'
    <3>1. table' = table /\ written' = written /\ mixed' = mixed
      BY <1>1 DEF Links!links_vars
    <3>2. WholeTables(table, mixed.stored) /\ WholeTables(written, mixed.stored)
      BY DEF LinksInv
    <3>3. QED
      BY <3>1, <3>2
  <2>4. ASSUME NEW c \in Conns PROVE Storing(c)' /\ Listing(c)'
    <3>1. Storing(c) /\ Listing(c)
      BY DEF LinksInv
    <3>2. Storing(c)'
      BY <1>1, <3>1 DEF Storing, AtRelation, UpToDate, Links!links_vars
    <3>3. Listing(c)'
      BY <1>1, <3>1 DEF Listing, UpToDate, Links!links_vars
    <3>4. QED
      BY <3>2, <3>3
  <2>5. QED
    BY <2>1, <2>2, <2>3, <2>4 DEF LinksInv
<1>2. CASE Links!Next
  <2>1. PICK c \in Conns : LinksStep(c)
    BY <1>2 DEF Links!Next, LinksStep
  <2>2. QED
    BY <2>1, TypesKept, TablesKept, ConnectionsKept, BackupKept DEF LinksInv
<1>3. QED
  BY <1>1, <1>2

\* The invariant.
LEMMA LinksInvariant == ASSUME Links!LinksAssumption PROVE Links!LinksSpec => []LinksInv
<1>1. Links!Init => LinksInv
  BY LinksInitial
<1>2. LinksInv /\ [Links!Next]_Links!links_vars => LinksInv'
  BY LinksKept
<1>3. QED
  BY <1>1, <1>2, PTL DEF Links!LinksSpec

\* What the tables hold is whole.
LEMMA WholeImpliesIsWhole == Links!LinksAssumption /\ LinksInv => \A i \in Ids : Links!IsWhole(i)
<1> SUFFICES ASSUME Links!LinksAssumption, LinksInv, NEW i \in Ids PROVE Links!IsWhole(i)
  OBVIOUS
<1>1. CASE table.row[i] = NoLink
  BY <1>1 DEF LinksInv, WholeTables, Links!IsWhole
<1>2. CASE table.row[i] # NoLink
  <2> DEFINE r == RelationOf(table, i)
  <2>1. Whole(r, mixed.stored)
    BY <1>2 DEF LinksInv, WholeTables
  <2>2. /\ r.id = i /\ r.source = table.row[i].source /\ r.grade = table.row[i].grade
        /\ r.claimed = table.row[i].claimed /\ r.members = table.members[i]
    BY DEF RelationOf
  <2> HIDE DEF r
  <2>3. mixed.stored \in BOOLEAN
    BY DEF LinksInv, LinksTypeOK
  <2>4. QED
    BY <1>2, <2>1, <2>2, <2>3 DEF Whole, Named, Links!IsWhole
<1>3. QED
  BY <1>1, <1>2

\* A change of the tables is one whole file, or a clearance.
LEMMA ChangesAreWhole ==
  Links!LinksAssumption /\ LinksInv /\ [Links!Next]_Links!links_vars
    => [Links!ChangeIsWhole]_Links!links_vars
<1> SUFFICES ASSUME Links!LinksAssumption, LinksInv, Links!Next PROVE Links!ChangeIsWhole
  OBVIOUS
<1>1. PICK c \in Conns : LinksStep(c)
  BY DEF Links!Next, LinksStep
<1>2. CASE Links!Clear(c)
  BY <1>2 DEF Links!Clear, Links!Publish, Links!Cleared, Links!ChangeIsWhole
<1>3. CASE Links!CommitLinks(c) /\ holder = c
  <2>1. doing[c] = "store" /\ left[c] = <<>> /\ table' = written
    BY <1>3 DEF Links!CommitLinks, Links!Publish
  <2>2. PICK n \in 0 .. Len(relations[c]) : AtRelation(c, n)
    BY <2>1 DEF LinksInv, Storing
  <2>3. Len(relations[c]) \in Nat /\ n = Len(relations[c])
    BY <2>1, <2>2 DEF AtRelation, LinksInv, LinksTypeOK
  <2>4. RunLeads(table, relations[c], Len(relations[c]), written)
    BY <1>3, <2>2, <2>3 DEF AtRelation
  <2>5. Links!StoreAll(table, relations[c]) = written
    BY <2>3, <2>4, RunStores
  <2>6. QED
    BY <2>1, <2>5 DEF Links!ChangeIsWhole
<1>4. CASE ~Links!Clear(c) /\ ~(Links!CommitLinks(c) /\ holder = c)
  BY <1>1, <1>4 DEF LinksStep, Links!ImportEvidence, Links!ImportBackup, Links!StoreRelation,
     Links!CommitLinks, Links!RollbackLinks, Links!ListRows, Links!ReadMembers, Links!Export,
     Links!Dismiss, Links!ChangeIsWhole
<1>5. QED
  BY <1>2, <1>3, <1>4

\* Whatever the evidence, its imports, their failures and the changes that overlap the
\* lists: a stored relation is whole and unverified, and the tables change by whole
\* files.
LEMMA LinksWhole == ASSUME Links!LinksAssumption PROVE Links!LinksSpec => Links!LinksAreWhole
<1>1. Links!LinksSpec => []LinksInv
  BY LinksInvariant
<1>2. LinksInv => \A i \in Ids : Links!IsWhole(i)
  BY WholeImpliesIsWhole
<1>3. LinksInv /\ [Links!Next]_Links!links_vars => [Links!ChangeIsWhole]_Links!links_vars
  BY ChangesAreWhole
<1>4. QED
  BY <1>1, <1>2, <1>3, PTL DEF Links!LinksSpec, Links!LinksAreWhole

\* What follows of a whole relation: it can be loaded.
LEMMA WholeIsLoadable ==
  ASSUME Links!LinksAssumption, NEW r, NEW mix, Whole(r, mix)
  PROVE  Len(r.members) >= 2
BY DeliveredAreSound DEF Whole

\* The tables that a backup gives back.
LEMMA RestoredTables ==
  ASSUME Links!LinksAssumption, NEW t \in Tables
  PROVE  /\ Links!AsRestored(t) \in Tables
         /\ \A i \in Ids : Links!AsRestored(t).row[i] = NoLink <=> t.row[i] = NoLink
         /\ \A i \in Ids : Links!AsRestored(t).members[i] = Links!InHex(t.members[i])
         /\ \A i \in Ids : t.row[i] # NoLink =>
              RelationOf(Links!AsRestored(t), i) =
                [id |-> i, source |-> BackupName, grade |-> t.row[i].grade,
                 claimed |-> t.row[i].claimed, members |-> Links!InHex(t.members[i])]
<1> DEFINE u == Links!AsRestored(t)
<1>1. /\ u.row = [i \in Ids |-> IF t.row[i] = NoLink THEN NoLink
                                 ELSE [t.row[i] EXCEPT !.source = BackupName]]
      /\ u.members = [i \in Ids |-> Links!InHex(t.members[i])]
      /\ u = [row |-> u.row, members |-> u.members]
  BY DEF Links!AsRestored
<1> HIDE DEF u
<1>2. ASSUME NEW i \in Ids, t.row[i] # NoLink
      PROVE  /\ u.row[i] = [t.row[i] EXCEPT !.source = BackupName]
             /\ u.row[i] \in Links!LinkRow /\ u.row[i] # NoLink
             /\ u.row[i].source = BackupName /\ u.row[i].grade = t.row[i].grade
             /\ u.row[i].claimed = t.row[i].claimed
  <2>1. t.row[i] \in Links!LinkRow /\ BackupName \in Sources /\ NoLink \notin Links!LinkRow
    BY <1>2 DEF Tables, Links!LinksAssumption
  <2>2. u.row[i] = [t.row[i] EXCEPT !.source = BackupName]
    BY <1>1, <1>2
  <2>3. QED
    BY <2>1, <2>2 DEF Links!LinkRow
<1>3. \A i \in Ids : t.row[i] = NoLink => u.row[i] = NoLink
  BY <1>1
<1>4. \A i \in Ids : u.members[i] = Links!InHex(t.members[i]) /\ u.members[i] \in Seq(Links!Member)
  BY <1>1, HexMembers DEF Tables
<1>5. u \in Tables
  <2>1. u.row \in [Ids -> Links!LinkRow \cup {NoLink}] /\ u.members \in [Ids -> Seq(Links!Member)]
    BY <1>1, <1>2, <1>3, <1>4
  <2>2. QED
    BY <1>1, <2>1 DEF Tables
<1>6. QED
  BY <1>2, <1>3, <1>4, <1>5 DEF RelationOf, u

\* What a list has read of tables that have not changed rebuilds them.
LEMMA InvRestores == Links!LinksAssumption /\ LinksInv => Links!BackupRestores
<1> SUFFICES ASSUME Links!LinksAssumption, LinksInv PROVE Links!BackupRestores
  OBVIOUS
<1>1. ASSUME NEW c \in Conns, Links!Listed(c), ~overlapped[c]
      PROVE  /\ Links!Loadable(relations[c])
             /\ Links!StoreAll(Links!Empty, Links!FromBackup(relations[c])) = Links!AsRestored(table)
  <2> DEFINE file == relations[c]
  <2>1. /\ doing[c] = "list" /\ left[c] = <<>> /\ file \in Seq(Links!Relation) /\ UpToDate(c)
        /\ \A i \in 1 .. Len(file) : Found(file[i], FALSE, mixed.stored)
    BY <1>1 DEF LinksInv, LinksTypeOK, Links!Listed, Listing
  <2>2. \A i \in 1 .. Len(file) : Whole(file[i], mixed.stored) /\ Named(file[i])
    BY <2>1 DEF Found
  <2>3. Links!Loadable(file)
    BY <2>1, <2>2, WholeIsLoadable DEF Links!Loadable
  <2> DEFINE back == Links!FromBackup(file)
             t == Links!AsRestored(table)
  <2>4. /\ back \in Seq(Links!Relation) /\ Len(back) = Len(file)
        /\ \A i \in 1 .. Len(file) : back[i] = Again(file[i])
    BY <2>1, <2>2, BackupGives
  <2>5. table \in Tables /\ IsFiniteSet(Links!Present(table)) /\ Ids \subseteq Nat
        /\ WholeTables(table, mixed.stored)
    BY DEF LinksInv, LinksTypeOK, Links!LinksAssumption
  <2>6. /\ Len(file) = Len(Links!Rows(table))
        /\ \A i \in 1 .. Len(file) :
             file[i] = Links!WithMembers(Links!Rows(table)[i], table.members[Links!Rows(table)[i].id])
    <3>1. Len(file) \in Nat /\ Len(<<>>) = 0
      BY <2>1
    <3>2. QED
      BY <2>1, <3>1 DEF UpToDate
  <2> HIDE DEF file, back, t
  <2>7. \A n \in 1 .. Len(file) :
          table.row[file[n].id] # NoLink /\ file[n] = RelationOf(table, file[n].id)
    <3> SUFFICES ASSUME NEW n \in 1 .. Len(file)
                 PROVE  table.row[file[n].id] # NoLink /\ file[n] = RelationOf(table, file[n].id)
      OBVIOUS
    <3>1. PICK i \in Links!Present(table) :
            Links!Rows(table)[n] =
              HeadingOf(table, i)
      BY <2>5, <2>6, RowsNameThePresent
    <3>2. file[n] = RelationOf(table, i) /\ file[n].id = i
      BY <2>6, <3>1 DEF Links!WithMembers, HeadingOf, RelationOf
    <3>3. QED
      BY <3>2 DEF Links!Present
  <2>8. \A i \in Links!Present(table) : \E n \in 1 .. Len(file) : file[n].id = i
    <3> SUFFICES ASSUME NEW i \in Links!Present(table) PROVE \E n \in 1 .. Len(file) : file[n].id = i
      OBVIOUS
    <3>1. PICK n \in 1 .. Len(Links!Rows(table)) : Links!Rows(table)[n].id = i
      BY <2>5, RowsNameThePresent
    <3>2. n \in 1 .. Len(file)
      BY <2>6
    <3>3. file[n] = Links!WithMembers(Links!Rows(table)[n], table.members[Links!Rows(table)[n].id])
      BY <2>6, <3>2
    <3>4. file[n].id = i
      BY <3>1, <3>3 DEF Links!WithMembers
    <3>5. QED
      BY <3>2, <3>4
  <2>9. /\ t \in Tables
        /\ \A i \in Ids : t.row[i] = NoLink <=> table.row[i] = NoLink
        /\ \A i \in Ids : t.members[i] = Links!InHex(table.members[i])
        /\ \A i \in Ids : table.row[i] # NoLink =>
             RelationOf(t, i) = [id |-> i, source |-> BackupName, grade |-> table.row[i].grade,
                                 claimed |-> table.row[i].claimed,
                                 members |-> Links!InHex(table.members[i])]
    BY <2>5, RestoredTables DEF t
  <2>10. \A n \in 1 .. Len(back) : t.row[back[n].id] # NoLink /\ back[n] = RelationOf(t, back[n].id)
    <3> SUFFICES ASSUME NEW n \in 1 .. Len(back)
                 PROVE  t.row[back[n].id] # NoLink /\ back[n] = RelationOf(t, back[n].id)
      OBVIOUS
    <3> DEFINE r == file[n]
    <3>1. n \in 1 .. Len(file) /\ back[n] = Again(r) /\ r \in Links!Relation
      BY <2>1, <2>4 DEF file
    <3>2. r.grade \notin Links!VerifiedGrades /\ r.id \in Ids
      BY <2>2, <3>1 DEF Named, Links!Relation
    <3>3. /\ table.row[r.id] # NoLink /\ r.grade = table.row[r.id].grade
          /\ r.claimed = table.row[r.id].claimed /\ r.members = table.members[r.id]
      <4>1. table.row[r.id] # NoLink /\ r = RelationOf(table, r.id)
        BY <2>7, <3>1
      <4> HIDE DEF r
      <4>2. QED
        BY <4>1 DEF RelationOf
    <3> HIDE DEF r
    <3>4. Again(r) = [id |-> r.id, source |-> BackupName, grade |-> r.grade,
                      claimed |-> r.claimed, members |-> Links!InHex(r.members)]
      BY <3>1, <3>2, AgainIs
    <3>5. QED
      BY <2>9, <3>1, <3>2, <3>3, <3>4
  <2>11. \A i \in Ids : t.row[i] = NoLink => t.members[i] = <<>>
    <3> SUFFICES ASSUME NEW i \in Ids, t.row[i] = NoLink PROVE t.members[i] = <<>>
      OBVIOUS
    <3>1. table.row[i] = NoLink /\ t.members[i] = Links!InHex(table.members[i])
      BY <2>9
    <3>2. table.members[i] = <<>>
      BY <2>5, <3>1 DEF WholeTables
    <3>3. Links!InHex(<<>>) = <<>>
      BY DEF Links!InHex
    <3>4. QED
      BY <3>1, <3>2, <3>3
  <2>12. \A i \in Links!Present(t) : \E n \in 1 .. Len(back) : back[n].id = i
    <3> SUFFICES ASSUME NEW i \in Links!Present(t) PROVE \E n \in 1 .. Len(back) : back[n].id = i
      OBVIOUS
    <3>1. i \in Links!Present(table)
      BY <2>9 DEF Links!Present
    <3>2. PICK n \in 1 .. Len(file) : file[n].id = i
      BY <2>8, <3>1
    <3>3. file[n] \in Links!Relation /\ file[n].grade \notin Links!VerifiedGrades
      BY <2>1, <2>2 DEF file, Named
    <3>4. back[n] = Again(file[n]) /\ Again(file[n]).id = file[n].id
      BY <2>4, <3>3, AgainIs
    <3>5. QED
      BY <2>4, <3>2, <3>4
  <2>13. Links!StoreAll(Links!Empty, back) = t
    BY <2>4, <2>9, <2>10, <2>11, <2>12, StoringRebuilds
  <2>14. QED
    BY <2>3, <2>13 DEF file, back, t
<1>2. ASSUME backup # NoFile, ~mixed.backup PROVE Links!Loadable(backup)
  <2>1. /\ backup \in Seq(Links!Relation)
        /\ \A i \in 1 .. Len(backup) : Found(backup[i], mixed.backup, mixed.stored)
    BY <1>2 DEF LinksInv, LinksTypeOK, BackupFound
  <2>2. QED
    BY <1>2, <2>1, WholeIsLoadable DEF Links!Loadable, Found
<1>3. QED
  BY <1>1, <1>2 DEF Links!BackupRestores

\* A backup that no change overlapped restores the relations it was made of, whatever they
\* are: their grades, claims and members, under the name of the backup file.
LEMMA LinksBackups == ASSUME Links!LinksAssumption PROVE Links!LinksSpec => []Links!BackupRestores
<1>1. Links!LinksSpec => []LinksInv
  BY LinksInvariant
<1>2. LinksInv => Links!BackupRestores
  BY InvRestores
<1>3. QED
  BY <1>1, <1>2, PTL

\* The TX-Link tables of a database behave as TxLinks says.
LEMMA IsLinks == DatabaseSpec => Links!LinksSpec
<1>1. DatabaseInit => Links!Init
  BY DEF DatabaseInit
<1>2. [DatabaseNext]_all_vars => [Links!Next]_Links!links_vars
  BY DEF DatabaseNext, InBlocks, InLinks, RowChanges, all_vars, links_vars, Links!links_vars
<1>3. QED
  BY <1>1, <1>2, PTL DEF DatabaseSpec, Links!LinksSpec

\* A backup that no change overlapped restores the relations it was made of, whatever they
\* are: their grades, claims and members, under the name of the backup file.
THEOREM BackupsRestore == DatabaseSpec => []BackupRestores
<1>1. Links!LinksAssumption
  BY DatabaseAssumption
<1>2. Links!LinksSpec => []Links!BackupRestores
  BY <1>1, LinksBackups
<1>3. Links!BackupRestores => BackupRestores
  BY DEF BackupRestores
<1>4. QED
  BY <1>2, <1>3, IsLinks, PTL

\* Stored relations are whole and unverified, and change by whole files, whatever fails
\* and whoever else writes.
THEOREM LinksStayWhole == DatabaseSpec => LinksAreWhole
<1>1. Links!LinksAssumption
  BY DatabaseAssumption
<1>2. Links!LinksSpec => Links!LinksAreWhole
  BY <1>1, LinksWhole
<1>3. QED
  BY <1>2, IsLinks, PTL DEF LinksAreWhole
=============================================================================
