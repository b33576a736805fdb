---------------------------- MODULE CorpusStore ----------------------------
(***************************************************************************)
(* The block corpus: the SQLite table `blocks` of corpus.py, written by    *)
(* several connections (the GUI's own CorpusDB, the scan worker's, a CLI   *)
(* process).  Every writer runs inside `with conn:`, which commits the     *)
(* whole batch or rolls it back; SQLite admits one open write transaction  *)
(* at a time, and readers see the last committed table.                    *)
(*                                                                         *)
(* A row keeps four facts that the upsert treats differently:              *)
(*   place     height and branch_index (always overwritten)                *)
(*   origin    status and source       (kept from the more trusted side)   *)
(*   verified  the trust flag          (never lowered)                     *)
(*   stamp     the block timestamp     (kept when the newcomer has none)   *)
(***************************************************************************)
EXTENDS Naturals, Sequences

CONSTANTS
  Conns,      \* the database connections
  Keys,       \* primary keys: (chain, network, block_hash)
  Chains,     \* chain tickers
  ChainOf,    \* the chain of each key
  Places,     \* (height, branch_index) pairs
  Origins,    \* (status, source) pairs
  Stamps,     \* block timestamps
  NoStamp,    \* NULL in the timestamp column
  NoRow,      \* the absence of a row
  NoConn,     \* nobody holds the write lock
  Batches,    \* the record sequences an import or a scan batch may deliver
  Starter     \* the pinned records of the built-in starter corpus, in order

Record == [key : Keys, place : Places, origin : Origins,
           verified : BOOLEAN, stamp : Stamps \cup {NoStamp}]
Row    == [place : Places, origin : Origins,
           verified : BOOLEAN, stamp : Stamps \cup {NoStamp}]

ASSUME CorpusAssumption ==
  /\ NoConn \notin Conns
  /\ NoRow \notin Row
  /\ NoStamp \notin Stamps
  /\ ChainOf \in [Keys -> Chains]
  /\ Batches \subseteq Seq(Record)
  /\ Starter \in Seq(Record)
  /\ \A i \in DOMAIN Starter : Starter[i].verified

VARIABLES
  blocks,     \* the committed table: one row, or none, per key
  writer,     \* the connection that holds the write lock
  draft,      \* the table as the lock holder sees it; blocks when there is none
  op,         \* per connection: the operation it runs
  todo,       \* per connection: the records it has still to deliver
  vouched,    \* history: verified records committed since their key was pruned
  offered     \* history: the same, as the lock holder would commit it

vars == <<blocks, writer, draft, op, todo, vouched, offered>>

Ops == {"idle", "add", "starter", "starterAdd"}

----------------------------------------------------------------------------
(* The upsert.                                                             *)

IsVerified(t, k) == t[k] # NoRow /\ t[k].verified
\* Bug: the key is stored again inside the row.
RowOf_KeepsKey(r) == r

RowOf(r) == [place |-> r.place, origin |-> r.origin,
             verified |-> r.verified, stamp |-> r.stamp]

\* Bug: the CASE is dropped, the last writer names the source.
Outranks_Always(r, old) == TRUE

\* CASE WHEN excluded.verified >= blocks.verified
Outranks(r, old) == r.verified \/ ~old.verified

\* Bug: timestamp=excluded.timestamp without COALESCE.
Merge_NoCoalesce(old, r) ==
  [place |-> r.place, origin |-> IF Outranks(r, old) THEN r.origin ELSE old.origin,
   verified |-> old.verified \/ r.verified, stamp |-> r.stamp]

Merge(old, r) ==
  [place    |-> r.place,
   origin   |-> IF Outranks(r, old) THEN r.origin ELSE old.origin,
   verified |-> old.verified \/ r.verified,
   stamp    |-> IF r.stamp # NoStamp THEN r.stamp ELSE old.stamp]

Upsert(t, r) ==
  [t EXCEPT ![r.key] = IF @ = NoRow THEN RowOf(r) ELSE Merge(@, r)]

Pruned(t, chain) == [k \in Keys |-> IF ChainOf[k] = chain THEN NoRow ELSE t[k]]

----------------------------------------------------------------------------
(* Transactions.                                                           *)

\* What connection c reads: its own open transaction, else the committed table.
View(c)     == IF writer = c THEN draft ELSE blocks
Vouchers(c) == IF writer = c THEN offered ELSE vouched

\* The first DML statement of `with conn:` takes the write lock.
Deliver(c, r) ==
  /\ writer \in {NoConn, c}
  /\ writer' = c
  /\ draft' = Upsert(View(c), r)
  /\ offered' = IF r.verified THEN Vouchers(c) \cup {r} ELSE Vouchers(c)
  /\ UNCHANGED <<blocks, vouched>>

Release(c) ==
  /\ op' = [op EXCEPT ![c] = "idle"]
  /\ todo' = [todo EXCEPT ![c] = <<>>]

\* `with conn:` ends normally; without a write there is nothing to commit.
Commit(c) ==
  /\ op[c] \in {"add", "starter"}
  /\ todo[c] = <<>>
  /\ Release(c)
  /\ IF writer = c
       THEN /\ blocks' = draft
            /\ vouched' = offered
            /\ writer' = NoConn
       ELSE UNCHANGED <<blocks, vouched, writer>>
  /\ UNCHANGED <<draft, offered>>

\* Bug: no transaction around the batch, what was written stays.
Rollback_KeepsWrites(c) ==
  /\ op[c] # "idle"
  /\ Release(c)
  /\ IF writer = c
       THEN blocks' = draft /\ vouched' = offered /\ writer' = NoConn
       ELSE UNCHANGED <<blocks, vouched, writer>>
  /\ UNCHANGED <<draft, offered>>

\* An exception inside `with conn:` (an invalid record, a provider error in
\* the middle of a local scan, "database is locked" after the busy timeout)
\* or the death of the process: the open transaction vanishes.
Rollback(c) ==
  /\ op[c] # "idle"
  /\ Release(c)
  /\ IF writer = c
       THEN /\ writer' = NoConn
            /\ draft' = blocks
            /\ offered' = vouched
       ELSE UNCHANGED <<writer, draft, offered>>
  /\ UNCHANGED <<blocks, vouched>>

----------------------------------------------------------------------------
(* add_many, the scan loops' batch commits and the import handlers.        *)

BeginAdd(c) ==
  /\ op[c] = "idle"
  /\ \E b \in Batches : todo' = [todo EXCEPT ![c] = b]
  /\ op' = [op EXCEPT ![c] = "add"]
  /\ UNCHANGED <<blocks, writer, draft, vouched, offered>>

AddOne(c) ==
  /\ op[c] = "add"
  /\ todo[c] # <<>>
  /\ Deliver(c, Head(todo[c]))
  /\ todo' = [todo EXCEPT ![c] = Tail(@)]
  /\ UNCHANGED op

----------------------------------------------------------------------------
(* import_starter: resolve each pinned record, add it when it is missing.  *)

BeginStarter(c) ==
  /\ op[c] = "idle"
  /\ op' = [op EXCEPT ![c] = "starter"]
  /\ todo' = [todo EXCEPT ![c] = Starter]
  /\ UNCHANGED <<blocks, writer, draft, vouched, offered>>

\* db.resolve(...) reads without taking the write lock.
StarterResolve(c) ==
  /\ op[c] = "starter"
  /\ todo[c] # <<>>
  /\ IF View(c)[Head(todo[c]).key] = NoRow
       THEN op' = [op EXCEPT ![c] = "starterAdd"] /\ UNCHANGED todo
       ELSE todo' = [todo EXCEPT ![c] = Tail(@)] /\ UNCHANGED op
  /\ UNCHANGED <<blocks, writer, draft, vouched, offered>>

StarterAdd(c) ==
  /\ op[c] = "starterAdd"
  /\ Deliver(c, Head(todo[c]))
  /\ op' = [op EXCEPT ![c] = "starter"]
  /\ todo' = [todo EXCEPT ![c] = Tail(@)]

----------------------------------------------------------------------------
(* prune_chain.                                                            *)

\* One DELETE and its commit: nothing else runs in the transaction.
Prune(c) ==
  /\ op[c] = "idle"
  /\ writer = NoConn
  /\ \E chain \in Chains :
       /\ blocks' = Pruned(blocks, chain)
       /\ vouched' = {r \in vouched : ChainOf[r.key] # chain}
  /\ draft' = blocks'
  /\ offered' = vouched'
  /\ UNCHANGED <<writer, op, todo>>

----------------------------------------------------------------------------
Init ==
  /\ blocks = [k \in Keys |-> NoRow]
  /\ draft = blocks
  /\ writer = NoConn
  /\ op = [c \in Conns |-> "idle"]
  /\ todo = [c \in Conns |-> <<>>]
  /\ vouched = {}
  /\ offered = {}

Step(c) ==
  \/ BeginAdd(c) \/ AddOne(c)
  \/ BeginStarter(c) \/ StarterResolve(c) \/ StarterAdd(c)
  \/ Prune(c)
  \/ Commit(c) \/ Rollback(c)

Next == \E c \in Conns : Step(c)

Spec == Init /\ [][Next]_vars

----------------------------------------------------------------------------
(* Properties.                                                             *)

TypeOK ==
  /\ blocks \in [Keys -> Row \cup {NoRow}]
  /\ draft \in [Keys -> Row \cup {NoRow}]
  /\ writer \in Conns \cup {NoConn}
  /\ op \in [Conns -> Ops]
  /\ todo \in [Conns -> Seq(Record)]
  /\ vouched \subseteq Record
  /\ offered \subseteq Record

\* The source and status shown for a verified row are those of some record
\* that was itself delivered verified since the key was last pruned: an
\* unverified seed or a manual import never lends its name to a verified row,
\* whatever the order of imports, scans, rollbacks and prunes.
OriginBacked(t, records) ==
  \A k \in Keys : IsVerified(t, k) =>
    \E r \in records : r.key = k /\ r.origin = t[k].origin
SourceVouched == OriginBacked(blocks, vouched)

\* No step but a prune of its chain removes a row, takes back its verified
\* flag, or forgets its timestamp: not an upsert from a weaker source, not a
\* commit that was prepared before another connection's commit.
Survives(old, new) ==
  /\ new # NoRow
  /\ old.verified => new.verified
  /\ old.stamp # NoStamp => new.stamp # NoStamp
OnlyPruneForgets ==
  [][ \A k \in Keys :
        \/ blocks[k] = NoRow
        \/ Survives(blocks[k], blocks'[k])
        \/ blocks' = Pruned(blocks, ChainOf[k]) ]_vars
============================================================================
