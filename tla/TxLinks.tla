------------------------------- MODULE TxLinks -------------------------------
(***************************************************************************)
(* TX-Link evidence: relations between transactions of several chains, in  *)
(* two tables of the corpus database, a row per relation and a row per     *)
(* member.  An import reads a whole file, takes back its claims of         *)
(* verification, and stores it in one transaction.  A list reads the       *)
(* relations with one SELECT and then the members of each with another, so *)
(* another connection may commit in between.  A backup is a list written   *)
(* to a file that the corpus import reads again.                           *)
(*                                                                         *)
(* Reading a file overwrites two fields: a relation's source becomes the   *)
(* file's name, and a member's input type the form in which the file holds *)
(* its transaction.  The other fields come back as they were written: of a *)
(* relation its grade and claim stand for them, of a member what the       *)
(* evidence says of one transaction (Alignment looks inside).              *)
(***************************************************************************)
EXTENDS Naturals, Sequences, FiniteSets

CONSTANTS
  Conns,      \* the database connections
  NoConn,     \* nobody holds the write lock
  Ids,        \* relation ids; their order is that of the numbers
  Transactions,  \* what the evidence says of one transaction
  Claims,     \* the grades a file may claim
  Sources,    \* what the source column may hold
  BackupName, \* the source that the name of a backup file gives
  Evidence,   \* the evidence files: the source of their name, and their relations
  NoLink, NoClaim, NoFile

UserProof      == "UNVERIFIED-USER-PROOF"
VerifiedGrades == {"VERIFIED-EXPLICIT", "VERIFIED-PROTOCOL"}
Grades         == VerifiedGrades \cup {UserProof, "UNVERIFIED-HEURISTIC"}

\* tx_raw_input_type: how a serialized transaction was delivered, if it was.
InputTypes == {"HEX", "JSON-HEX", "JSON-BASE64", "BASE64", "BYTE-ARRAY", "JSON-RPC-HEX",
               "FILE-HEX", "FILE-BINARY", "none"}

Member   == [tx : Transactions, type : InputTypes]
LinkRow  == [source : Sources, grade : Grades, claimed : Claims]
Relation == [id : Ids, source : Sources, grade : Grades, claimed : Claims, members : Seq(Member)]

LinksAssumption ==
  /\ NoConn \notin Conns /\ Ids \subseteq Nat
  /\ NoClaim \in Claims /\ VerifiedGrades \subseteq Claims
  /\ NoLink \notin LinkRow
  /\ BackupName \in Sources
  /\ Evidence \subseteq [source : Sources, rows : Seq(Relation)]

VARIABLES
  table,       \* the committed tables: per id a row or NoLink, and its members
  holder,      \* the connection with an open write transaction
  written,     \* the tables as it sees them; table when there is none
  doing,       \* per connection: "idle", "store" or "list"
  left,        \* per connection: relations to store, or rows whose members to read
  relations,   \* per connection: all relations to store, or those read so far
  backup,      \* the last backup, or NoFile
  overlapped,  \* history, per connection: the table changed since its list began
  mixed        \* history: the backup overlapped, and an import of such a one

links_vars == <<table, holder, written, doing, left, relations, backup, overlapped, mixed>>

Empty == [row |-> [i \in Ids |-> NoLink], members |-> [i \in Ids |-> <<>>]]

----------------------------------------------------------------------------
(* Relations on their way in.                                              *)

\* Bug: a file's own grade is believed.
Loaded_Trusted(rel, source) == [rel EXCEPT !.source = source]

\* normalized(trusted=False, source): a claim of verification is kept as a claim, and the
\* source is the file's.
Loaded(rel, source) ==
  IF rel.grade \in VerifiedGrades
    THEN [rel EXCEPT !.source = source, !.grade = UserProof, !.claimed = rel.grade]
    ELSE [rel EXCEPT !.source = source]

\* load_tx_link_evidence
FromFile(rows, source) == [i \in DOMAIN rows |-> Loaded(rows[i], source)]

\* to_dict, as an import reads it: a transaction is there in hexadecimal digits, and its
\* input type is told anew from that.
InHex(members) ==
  [n \in DOMAIN members |-> [members[n] EXCEPT !.type = IF @ = "none" THEN "none" ELSE "HEX"]]
AsWritten(rel) == [rel EXCEPT !.members = InHex(@)]

FromBackup(listed) ==
  FromFile([i \in DOMAIN listed |-> AsWritten(listed[i])], BackupName)

\* load_tx_link_evidence raises unless every relation has two members.
Loadable(rows) == \A i \in DOMAIN rows : Len(rows[i].members) >= 2

\* Bug: the members of an older version stay.
Stored_KeepsMembers(t, rel) ==
  [row     |-> [t.row EXCEPT ![rel.id] =
                  [source |-> rel.source, grade |-> rel.grade, claimed |-> rel.claimed]],
   members |-> [t.members EXCEPT ![rel.id] = IF @ = rel.members THEN @ ELSE @ \o rel.members]]

\* store_relations, one relation: the row is replaced and so are the members.
Stored(t, rel) ==
  [row     |-> [t.row EXCEPT ![rel.id] =
                  [source |-> rel.source, grade |-> rel.grade, claimed |-> rel.claimed]],
   members |-> [t.members EXCEPT ![rel.id] = rel.members]]

----------------------------------------------------------------------------
Idle(c)  == doing[c] = "idle"
Enter(c, what, list, read) ==
  /\ doing' = [doing EXCEPT ![c] = what]
  /\ left' = [left EXCEPT ![c] = list]
  /\ relations' = [relations EXCEPT ![c] = read]
Leave(c) == Enter(c, "idle", <<>>, <<>>)

\* The committed tables change under the lists of the others.
Publish(t) ==
  /\ table' = t /\ written' = t
  /\ overlapped' = [c \in Conns |-> overlapped[c] \/ (doing[c] = "list" /\ t # table)]

----------------------------------------------------------------------------
(* Imports.                                                                *)

BeginStore(c, loaded) == Enter(c, "store", loaded, loaded)

\* _import_tx_links, import-tx-links; a file that is not loadable changes nothing.
ImportEvidence(c) ==
  /\ Idle(c)
  /\ \E file \in Evidence : Loadable(file.rows) /\ BeginStore(c, FromFile(file.rows, file.source))
  /\ UNCHANGED <<table, holder, written, backup, overlapped, mixed>>

\* _import_corpus, import-corpus: the links are loaded after the blocks of the file
\* have been committed; a file without links stores none.
ImportBackup(c) ==
  /\ Idle(c)
  /\ backup # NoFile /\ backup # <<>> /\ Loadable(backup)
  /\ BeginStore(c, FromBackup(backup))
  /\ mixed' = [mixed EXCEPT !.stored = @ \/ mixed.backup]
  /\ UNCHANGED <<table, holder, written, backup, overlapped>>

StoreRelation(c) ==
  /\ doing[c] = "store" /\ left[c] # <<>>
  /\ holder \in {NoConn, c} /\ holder' = c
  /\ written' = Stored(written, Head(left[c]))
  /\ left' = [left EXCEPT ![c] = Tail(@)]
  /\ UNCHANGED <<table, doing, relations, backup, overlapped, mixed>>

CommitLinks(c) ==
  /\ doing[c] = "store" /\ left[c] = <<>>
  /\ IF holder = c THEN Publish(written) /\ holder' = NoConn
     ELSE UNCHANGED <<table, written, overlapped, holder>>
  /\ Leave(c)
  /\ UNCHANGED <<backup, mixed>>

\* Bug: what was written before the error stays.
RollbackLinks_KeepsWrites(c) ==
  /\ doing[c] = "store"
  /\ IF holder = c THEN Publish(written) /\ holder' = NoConn
     ELSE UNCHANGED <<table, written, overlapped, holder>>
  /\ Leave(c)
  /\ UNCHANGED <<backup, mixed>>

\* A statement that raises, or the death of the process.
RollbackLinks(c) ==
  /\ doing[c] = "store"
  /\ holder' = (IF holder = c THEN NoConn ELSE holder)
  /\ written' = (IF holder = c THEN table ELSE written)
  /\ Leave(c)
  /\ UNCHANGED <<table, backup, overlapped, mixed>>

\* Bug: the members are left to the foreign key, which SQLite does not enforce unless
\* it is told to.
Cleared_RowsOnly(t) == [t EXCEPT !.row = Empty.row]

Cleared(t) == Empty

\* clear_relations: both tables in one transaction.
Clear(c) ==
  /\ Idle(c) /\ holder = NoConn
  /\ Publish(Cleared(table))
  /\ UNCHANGED <<holder, doing, left, relations, backup, mixed>>

----------------------------------------------------------------------------
(* Lists and backups.                                                      *)

Present(t) == {i \in Ids : t.row[i] # NoLink}

\* The numbers of S in their order.
Lists(s, S) ==
  /\ \A i \in S : \E n \in DOMAIN s : s[n] = i
  /\ \A m, n \in DOMAIN s : m < n => s[m] < s[n]
InOrder(S) == CHOOSE s \in [1 .. Cardinality(S) -> S] : Lists(s, S)

\* SELECT ... FROM tx_links ORDER BY relation_id
Rows(t) ==
  LET order == InOrder(Present(t))
  IN  [n \in DOMAIN order |->
         [id |-> order[n], source |-> t.row[order[n]].source,
          grade |-> t.row[order[n]].grade, claimed |-> t.row[order[n]].claimed]]

ListRows(c) ==
  /\ Idle(c)
  /\ Enter(c, "list", Rows(table), <<>>)
  /\ overlapped' = [overlapped EXCEPT ![c] = FALSE]
  /\ UNCHANGED <<table, holder, written, backup, mixed>>

\* Bug: the claim is not read back.
WithMembers_DropsClaim(row, members) ==
  [id |-> row.id, source |-> row.source, grade |-> row.grade, claimed |-> NoClaim,
   members |-> members]

WithMembers(row, members) ==
  [id |-> row.id, source |-> row.source, grade |-> row.grade, claimed |-> row.claimed,
   members |-> members]

\* The members of the next row, from the tables as they are now.
ReadMembers(c) ==
  /\ doing[c] = "list" /\ left[c] # <<>>
  /\ relations' = [relations EXCEPT ![c] = Append(@, WithMembers(Head(left[c]), table.members[Head(left[c]).id]))]
  /\ left' = [left EXCEPT ![c] = Tail(@)]
  /\ UNCHANGED <<table, holder, written, doing, backup, overlapped, mixed>>

Listed(c) == doing[c] = "list" /\ left[c] = <<>>

\* export_corpus_json of all chains, save_tx_link_evidence
Export(c) ==
  /\ Listed(c)
  /\ backup' = relations[c]
  /\ mixed' = [mixed EXCEPT !.backup = overlapped[c]]
  /\ Leave(c)
  /\ overlapped' = [overlapped EXCEPT ![c] = FALSE]
  /\ UNCHANGED <<table, holder, written>>

\* A list that is shown or built from, one that raises, or the death of its reader.
Dismiss(c) ==
  /\ doing[c] = "list"
  /\ Leave(c)
  /\ overlapped' = [overlapped EXCEPT ![c] = FALSE]
  /\ UNCHANGED <<table, holder, written, backup, mixed>>

----------------------------------------------------------------------------
Init ==
  /\ table = Empty /\ written = Empty /\ holder = NoConn
  /\ doing = [c \in Conns |-> "idle"]
  /\ left = [c \in Conns |-> <<>>] /\ relations = [c \in Conns |-> <<>>]
  /\ backup = NoFile
  /\ overlapped = [c \in Conns |-> FALSE]
  /\ mixed = [backup |-> FALSE, stored |-> FALSE]

Next ==
  \E c \in Conns :
    \/ ImportEvidence(c) \/ ImportBackup(c)
    \/ StoreRelation(c) \/ CommitLinks(c) \/ RollbackLinks(c) \/ Clear(c)
    \/ ListRows(c) \/ ReadMembers(c) \/ Export(c) \/ Dismiss(c)

LinksSpec == Init /\ [][Next]_links_vars

----------------------------------------------------------------------------
(* Properties.                                                             *)

\* Relations as evidence files deliver them, and as a backup of them delivers them again.
Given ==
  UNION {{Loaded(file.rows[i], file.source) : i \in DOMAIN file.rows} :
           file \in {f \in Evidence : Loadable(f.rows)}}
Delivered == Given \cup {Loaded(AsWritten(d), BackupName) : d \in Given}

\* The tables after all relations of a file, in order.
StoreAll(t, file) ==
  LET after[n \in 0 .. Len(file)] ==
        IF n = 0 THEN t ELSE Stored(after[n - 1], file[n])
  IN  after[Len(file)]

\* Every stored relation is one that an evidence file delivered, row and members from
\* the same delivery, never graded as verified, and no members are left of another;
\* and the tables change by whole files or are cleared.  Only the import of a backup
\* that overlapped a change may join a row and members of different deliveries.
IsWhole(i) ==
  LET row == table.row[i]
      members == table.members[i]
  IN  IF row = NoLink THEN members = <<>>
      ELSE /\ row.grade \notin VerifiedGrades
           /\ \E d, e \in Delivered :
                /\ d.id = i /\ d.source = row.source /\ d.grade = row.grade /\ d.claimed = row.claimed
                /\ e.id = i /\ e.members = members
                /\ ~mixed.stored => d = e
ChangeIsWhole ==
  \/ table' = table
  \/ table' = Empty
  \/ \E c \in Conns : doing[c] = "store" /\ table' = StoreAll(table, relations[c])
LinksAreWhole == [](\A i \in Ids : IsWhole(i)) /\ [][ChangeIsWhole]_links_vars

\* What a backup gives back of the tables: each row under the name of the backup file
\* and each transaction as hexadecimal digits, the rest as it was.
AsRestored(t) ==
  [row     |-> [i \in Ids |-> IF t.row[i] = NoLink THEN NoLink
                              ELSE [t.row[i] EXCEPT !.source = BackupName]],
   members |-> [i \in Ids |-> InHex(t.members[i])]]

\* A backup whose list no change overlapped can be loaded.  Into an empty database it
\* restores every relation of the tables it was made of and no other, with its grade,
\* its claim and its members in their order; not their sources and input types, which
\* become those of the backup file.
BackupRestores ==
  /\ \A c \in Conns : Listed(c) /\ ~overlapped[c] =>
       Loadable(relations[c]) /\ StoreAll(Empty, FromBackup(relations[c])) = AsRestored(table)
  /\ backup # NoFile /\ ~mixed.backup => Loadable(backup)
=============================================================================
