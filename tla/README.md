# Block-n-Pick in TLA+

Block-n-Pick (BnP) rebuilds a target, the bytes of some file, out of fragments of public block
hashes. It gathers a corpus of blocks, picks fragments that cover the target, publishes the
result as a recipe, and rebuilds the target from a recipe. The program is about 6,800 lines of
Python in `src/bnp`, a Tk GUI and a command line over one SQLite corpus and one output directory.
It has no tests of its own beyond two smoke scripts.

These modules model what is hard to test in it: several connections on the corpus, long scans that
are cancelled, fail and resume, two processes that publish under the same names, worker threads
that answer to a polling UI with message boxes, and the algorithms whose mistakes would still give a
plausible recipe, or a recipe that reads back as another one.

## The system

| Part | Code | State | Operations | Meets |
|---|---|---|---|---|
| Corpus database | `corpus.py` | table `blocks` | upsert in batches, prune a chain, reads | every scan and importer writes it, index builder reads it; GUI, scan worker and CLI have a connection each |
| Starter corpus | `starter_corpus.py` | none | resolve-then-add of pinned blocks | corpus |
| BTC public scan | `acquisition.py` 301-380 | position, open transaction, report | fetch a batch from two providers, admit, commit, cancel, fail | corpus, corpus tab |
| LTC seed scan | `acquisition.py` 383-448 | pending records, report | fetch one, flush, cancel, fail | corpus, governor, corpus tab |
| Local node scan | `acquisition.py` 160-240, 481-516 | one transaction, generator | chunk, yield, commit, cancel | corpus, corpus tab |
| Provider governor | `provider_governor.py` | requests made, backoff | acquire, success, failure | providers |
| Corpus tab | `gui.py` 1028-1270 | `scan_thread`, `scan_queue`, `scan_cancel`, buttons, status line | scan, probe, latest, BIP158, import, cancel, poll | scans |
| Build tab | `gui.py` 560-850 | `build_thread`, queue, cancel, buttons, chain row | build, cancel, poll, ticks and percentages | mix, engine |
| Mine tab | `gui.py` 850-965 | `mine_thread`, queue, cancel | resolve, build, verify, cancel, poll | resolver, Mine-Build |
| Chain mix | `mix.py` | percentages, pins | equal split, rebalance | build tab |
| Source index | `picker.py` 24-230 | short maps, prefix fan-out | add a record, longest candidate | pickers |
| Pickers | `picker.py` 231-780, `engine.py` 60-235 | segments, quotas, accounts | fewest, weighted, soft, proofs, refusal | index, publication |
| Output publication | `engine.py` 238-275, `recipe_io.py`, `container_format.py` | output directory | base name, `.part`, rename, seal check, cleanup | other processes |
| TX-Link evidence | `tx_links.py` 444-800 | tables `tx_links`, `tx_link_members` | load, store, list, clear, back up, restore; sources for a build | corpus connections, backups, alignment |
| Alignment modes | `alignment.py`, `engine.py` 73-102 | none | the records a build may pick from, and their grade | corpus, TX-Links, index |
| Corpus exchange | `corpus_exchange.py` 300-497 | none | backups, the Clean Stream code | corpus, TX-Links |
| Recipe formats | `recipe_io.py`, `safe_notation.py` | none | `.bnp` text and machine table, there and back; safe names | publication, resolver |
| Recipe resolver, verifier | `recipe_resolver.py`, `verifier.py` | a report | structural checks, coverage, reconstruction | Mine-Build |
| Mine-Build | `mine_builder.py` | output directory | names, stream, identity, read-back, rename, coverage map, cleanup | other processes |
| Conversions, CLI, BHB bridge, scripts | see PROJECT.json | mostly none | conversions and filters | |

What makes each part correct, and what is hard about it:

* **Corpus.** A verified row must stay verified and keep a verified source under any order of
  imports, scans, starter imports and prunes from several connections; readers see whole batches
  only. Hard: rollbacks, the starter import's read before its lock.
* **Scans.** A session of cancelled, failed, killed and resumed scans must not lose heights, and
  its reports must count what the corpus really keeps. Hard: resume heights in two directions,
  partly done batches, errors no handler expects.
* **Workspaces.** Each report reaches the user, the buttons come back, a cancel stops the job it was
  meant for and no other. Hard: a worker posts and ends between the poller's look at the thread and
  its look at the queue; a message handler starts a scan from inside the poll.
* **Publication and Mine-Build.** What carries a final name is whole and never replaced; failures
  leave no `.part`. Hard: another process in the same directory between the check of a name and the
  rename; kills at every step; writes the disk garbles.
* **TX-Links and alignment.** Evidence must not become verified by passing through an import, a backup
  or a pool of records; a relation must stay whole while others store, clear and list. Hard: rows and
  members are read by two SELECTs, a member names its origin by a hash or by a height.
* **Formats.** What is written must read back as what it was. Hard: interned blocks, sections, run
  lengths, carries from one fragment to the next, escapes that share a character.
* **Index, pickers, mix, resolver.** Longest match, minimal recipe, exact quotas, honest refusal, a
  whole mix, no unsound recipe accepted. Hard: interaction of rounding, fallbacks and orders.

PROJECT.json lists these hazards at their lines, with the properties aimed at each.

## Modules

| Module | Models | Built on |
|---|---|---|
| `CorpusLedger` | abstract: the table changes by whole operations only | |
| `CorpusStore` | the `blocks` table under several connections, one SQLite write lock, upsert, starter import, prune, rollback, death | |
| `TxLinks` | the TX-Link tables under several connections: imports, lists in two reads, backups, restores, clears | |
| `Alignment` | which records a build may pick from, in each mode, and the grade they are given | |
| `CorpusDatabase` | the corpus file: blocks, links, and what builds read | extends `CorpusStore`, instances of `TxLinks` and `Alignment`; implements `CorpusLedger` with `rows <- blocks` |
| `BtcScan`, `SeedScan`, `LocalScan` | one session per scan kind: every exit of the scan function, commits, operator's resume or restart | |
| `Acquisition` | the worker's dispatch to the scan of the chosen source | extends `BtcScan`, instances of the other two |
| `PartFiles` | names, `.part` names, inodes and open handles of the output directory | |
| `MineBuild` | `mine_recipe` for full targets in several processes | `PartFiles` |
| `PartialMine` | `mine_recipe` for BNP2 proofs: a representation with holes, then its coverage map | `PartFiles` |
| `SaveOutputs` | `save_outputs` in several processes | `PartFiles` |
| `Publication` | all that is published, by one protocol | instances of the three above |
| `SourceIndex` | `TargetSpecificIndex` | |
| `Picker` | `build_manifest`'s search over match tables | |
| `Search` | index and pickers | extends `Picker`, instance of `SourceIndex` |
| `RecipeCheck` | the resolver's checks, the fragment streams and the verifier over one recipe | |
| `RecipeFiles`, `SafeName`, `Base64Stream`, `CleanStream` | conversions and their way back | |
| `Recipes` | recipes checked, written and read | extends `RecipeCheck`, instances of the four above |
| `ScanDesk`, `JobDesk` | the corpus workspace; the build and the mine workspace | |
| `ChainMix` | the chain row and `mix.py` | |
| `Workspaces` | the workspaces over the one Tk loop | extends `ScanDesk`, instances `JobDesk` with and without the start lock, and `ChainMix` |
| `ChainMixProofs` | theorems about one component | `ChainMix` |
| `CorpusDatabaseProofs`, `AcquisitionProofs`, `PublicationProofs`, `SearchProofs`, `RecipesProofs`, `WorkspacesProofs` | theorems about the composed modules and their parts | the modules they name; `ChainMixProofs` |
| `StreamProofs` | the theorems about Base64 in pieces and the Clean Stream | `RecipesProofs` |
| `MC*` | values of the constants for TLC | |

State and actions follow the code by name where TLA+ allows it: a variable is the local variable,
attribute or column it stands for, an action is a stretch of a function between two points where
another thread, process, user or provider can get in. Variables marked *history* in their
declaration are read by properties, never by a guard. `map` in PROJECT.json gives the lines of every
definition. Definitions headed by a comment `Bug:` are not used by a specification: each
is a definition with a plausible mistake, and shows that the property it belongs to would notice.

**The composed modules are sums.** `CorpusDatabase`, `Acquisition`, `Publication`, `Search`, `Recipes`
and `Workspaces` choose one of their parts in the initial state and follow it. Nothing is lost where
the parts share nothing: no transaction writes blocks and links, a session stays with the source it was
started with, full targets, proofs and recipes have names that differ by their suffix, a conversion has no
state, and the workspaces of the GUI share no queue, event or thread. The halves of `Search` meet
in the match table: one is shown to compute it, the other gets every table there is. The composition
gives them one next-state relation, one type invariant, properties stated once for all parts that
have the same question to answer, and fairness that speaks of all of them.

**Corpus writes.** A scan's batch is one step of the scan modules and a sequence of upserts under the
write lock in `CorpusStore`; the scan modules look at heights, `CorpusStore` at what rows say.

## What is abstracted

* Block hashes, names and target bytes are members of small sets; heights, lengths, quotas and
  offsets are numbers, since the properties are about their arithmetic.
* Provider answers are chosen freely: agreement, disagreement, no answer, an error the scan
  catches, an error it does not. Pacing and backoff only delay and are left out.
* A message box runs the Tk loop until the user closes it; it takes the clicks of the window, but armed
  polls fire in it, nested in the poll that opened it (`polls`, `box`). The bound on jobs bounds the
  nesting. Of the progress messages a worker posts one waits at a time; they move a bar, which is left
  out, and overwrite the status line, which is not. After a job started in haste (`hasty`, see
  below) the model's user starts no more.
* monerod's answer holds some of the heights it was asked for, each once, in any order. A height it was not
  asked for, or one twice, is not modelled.
* A transaction, its bytes and its place inside a member of a relation are one value; whether the raw
  bytes are there and which block they name is kept (`Alignment`).
* A hash is a few digits of a small alphabet in `CleanStream`, with the longest run one digit can count
  to match; Base64 text is the sequence of the groups it encodes.
* The file system is modelled from how the code uses it (`PartFiles`): `os.replace` is atomic, a
  handle follows its inode through a rename, `open("wb")` empties the inode that is there. A disk
  may garble a chunk silently. Power loss is not modelled: the code's `fsync` and rename leave
  nothing between the two states the model has.
* `rebalance_percentages` ends in two corrections that no input reaches; they are left out and
  `MixIsWhole` shows that they are not needed.
* In `RecipeCheck` broken source material is a range outside the source; the carry of the Base64 decoder is
  in `Base64Stream`, where `b64decode(validate=True)` is that of recent Python versions, which refuses
  padding that is not at the end.
* Requests whose rounded-up proof exceeds the tolerance on tiny targets are refused whatever the
  corpus holds (`tolerances.py:70`); `RefusalIsHonest` sets them aside.

## Runs

All instances are small; the bounds are in the cfg files. All runs of a module check the same
instance; the ones with a suffix look for the divergences described below.

| Run | Configuration | Instance and why it is enough |
|---|---|---|
| `corpus` | `MCCorpus.cfg` | Blocks: two connections, two keys of two chains, two places, one stamp or none; a batch per way a record arrives (node, verified file, manual list, doubled seed), two pinned blocks. The connections are alike and give the symmetry. Two writers make every order of lock, resolve and commit; the upsert looks at one old and one new record, so two records per key give every pair. Links: two connections, two relations, three evidence files (verified by its own claim, a second version of the same relation beside another, one that cannot be loaded); every backup of every state can be restored. Builds: every corpus of four blocks of two chains with six kinds of rows, every mode, every pick, every pair of five relations that name origins by hash, by another chain's hash, by height or not at all |
| `acquisition` | `MCAcquisition.cfg` | five heights; BTC batches, node chunks and seed flushes of two (two full, one short); a budget of four, one less than the heights. A node's answer is every height of a chunk, or any set of them from monerod. Any number of cancels, errors, deaths and resumes: sessions are unbounded, the state space is finite |
| `publication` | `MCPublication.cfg` | two processes, one run each, files of two chunks, three serial names (one for each run and one more), one of the disks garbles. Targets: a sound recipe, one whose hash does not match, one that carries the size of its raw target and no hash (one that carries neither is in the theorems only). Proofs: two raw ones with different holes and one in Base64, so that two runs may share both names, the map's or none. Recipes: full and partial |
| `search` | `MCSearch.cfg` | all match tables of two chains over four bytes with fragments of up to three, three mixes and none, four requests: enough for gaps, competing chains, quotas that round and both fallbacks. All targets of up to four bits, all corpora of two records of four; short maps of one byte, prefixes of two, so that collisions and both halves of the index matter |
| `recipes` | `MCRecipes.cfg` | every list of up to three segments over a target of up to three bytes, offsets from -1 in the target and in sources of two bytes: gaps, overlaps, touching segments, wrong order, out of range on either side. Names of five characters; seven bytes (two groups and one) and eight Base64 characters (two quartets) in fragments of every length; two hashes of four digits whose runs take one, two and three tokens; written recipes of three segments over two chains, two branches, a block at a negative height and two transactions of one block |
| `workspaces` | `MCWorkspaces.cfg` | corpus: three threads (a tip lookup, a scan or probe beside it, the scan the lookup starts: what goes wrong when any part of the excuse for haste is taken away shows with three); build and mine: three jobs (one ends while an earlier report waits, one after both); message boxes nested as deep as these jobs make them. Chain row: four chains (one edited, two pinned before it, one open) and a mix of four parts, so that every split has a remainder or none |
| `seed_skip`, `seed_loss` | `MCAcquisition_skip.cfg`, `_loss.cfg` | as `acquisition` |
| `save_failure`, `proof_map` | `MCPublication_failure.cfg`, `_map.cfg` | as `publication` |
| `safe_name`, `grade_loss` | `MCRecipes_name.cfg`, `_grade.cfg` | as `recipes` |

What they show:

A property of a composed run is a conjunction of the properties of its parts where they ask one
question, for instance `CancelIsAnswered`, or `BtcReportIsTrue` for the three sides of a true report.

* **corpus.** A verified row's source is one that delivered it verified; nothing but a prune takes a
  row, its verified flag or its timestamp; every change readers see is one whole import, starter
  import or prune (refinement of `CorpusLedger`). A stored relation is a delivered one, its members are
  of the same delivery, and it is never graded verified; the tables change by whole files. A backup that no
  change overlapped, loaded into an empty database, gives back every relation of the tables it was made of,
  with its grade, its claim and its members in order, and no other; the source and the input type
  of each become those of the backup file (`tx_links.py:548`). In every mode a build's records are called
  verified only if their rows are, a verified grade is given to verified records only, LOCKED_LINK and
  EPOCH_LINK keep exactly what every chain matches, and a pool of relations spans two chains under the
  weakest grade of its relations.
* **acquisition.** BTC: every height is stored, reported as a mismatch, still to be scanned, or one
  that a cancelled batch cut off; `imported` counts committed rows; a report that is not partial is
  complete and a partial one names where to go on; a resume after a provider failure repeats nothing.
  Seed: what is stored is a hole-free beginning of the scan, a crash costs less than one flush, no
  height is skipped except the one per interruption of a descending scan. Node: what a session stored
  is one run of heights up to the resume height but for what answers left out. A node of the Core family
  leaves out nothing, since a call without a result raises. monerod's answer is taken as it comes
  (`acquisition.py:220`): after a short one the scan commits the rest and goes on, and its report is
  partial, not cancelled and without a resume height; if it was cancelled, the resume height is the
  start plus the records counted, so it is too low and heights are scanned again. Whatever the source, the
  report that follows a cancel counts nothing that had not been taken up, or asked for in one chunk, when
  the cancel came.
* **publication.** A target or a proof that carries a final name is whole, artifacts under one base come
  from one build, a success means a complete set, nothing is replaced, only killed processes leave a `.part`,
  and a run ends whatever others do to its file. A recipe's container that the disk garbled stays under
  its final name when its verification fails: of recipes only a reported success says that they are whole. A
  target without hashes is judged by its size, if its recipe carries that. Names that two overlapping runs both
  picked are excluded from all but the last two (`shared`), because the code checks names without reserving
  them; that one of the two overwrites the other is what the code does and no property denies.
* **search.** The algorithms against definitions that share nothing with them: all tilings for the shortest
  recipe, all fragments for the longest match.
* **recipes.** The resolver accepts exactly the sound recipes and reports their coverage as set arithmetic
  gives it; what it accepts streams to the end, and the verifier agrees. Both files of a recipe name the
  same bytes in the same order. Names (but those of `safe_name`), Clean Streams and Base64 text come back;
  hashing and decoding in fragments give what the whole gives, refusals included.
* **workspaces.** A running job can be cancelled and has no second beside it, a cancel hits the job it was
  meant for, the status line of a desk at rest tells how its last job ended, no report is stranded and no
  button stays locked. In the corpus workspace all but the last of these hold as long as the user
  starts no job in haste (`hasty`, below), and a job that died without an answer is still said to run.
  The mix is whole after every tick and edit, the typed percentage stands, and the pinned ones beside it
  give way only to a claim that does not fit, the newest first.

`CHECK_DEADLOCK FALSE` stands where the program comes to rest: all scans, runs or jobs done up to their
bound, or an input as long as the bound allows. `corpus` never stops and is checked for deadlock.

### Fairness

Weak fairness only, and only on code that runs by itself: the steps of a publishing process that was not
killed, armed Tk timers and a poll that began, and the worker threads of the tabs, whose scans end because
ranges are finite and HTTP and RPC calls have time-outs. A poll's fairness includes that its message box is
closed in the end: a user who leaves one open holds up the window, not the program. All workers of the
workspaces share one condition: each has few steps, so that fairness to all of them is fairness to each.
The other runs check safety only. Nothing is assumed of the user, of providers, of errors, of the disk or of kills. `DieSilently` (a worker that fails before its
`try`) and `Raise` are never forced.

### Divergences between code and text

Shown by runs:

* `seed_skip`: a descending seed scan that is stopped at a height names the height *below* it
  (`acquisition.py:425`, `:433`): the height it stopped at is in no later scan.
* `seed_loss`: the scan catches `AcquisitionError` and nothing else (`acquisition.py:429`). An error of
  another kind, such as a connection that times out while an answer is read, loses up to nine fetched
  records and the report, while `docs/ACQUISITION.md:25` says that a provider failure no longer discards records
  collected earlier. The counterexample is such an error after one fetch. The governor's exhausted
  budget is a `RuntimeError` too; with the default budget of 30 and batch of 10 it comes right after a flush and
  costs only the report.
* `save_failure`: when the machine container cannot be written or does not verify, the `.bnp` is
  published already; the GUI says "No new BnP output was published" (`gui.py:841`).
* `proof_map`: the coverage map's name is picked when the run starts and nothing claims it until it is
  written; of two overlapping runs over one target with a raw and a Base64 representation, the later
  replaces the map the earlier one reported, while `docs/MINE_BUILDING.md:42` says "Existing target files
  are not overwritten."
* `safe_name`: a dot becomes one bang and a bang two, so `a..b` is written `a!!b` and read as `a!b`
  (`safe_notation.py:6`); `docs/FORMAT_SPEC.md:36` calls the notation reversible.
* `grade_loss`: the `.bnp` text has no place for a segment's grade or its source's trust and reading it
  makes every block segment VERIFIED-EXPLICIT (`recipe_io.py:78`), while `docs/FORMAT_SPEC.md:73` says that
  USER_PICKED associations are never automatically promoted.

Seen while modelling, each excused by name in a property, without a run of its own:

* A BTC scan cancelled inside a batch resumes below the batch (`acquisition.py:372`); the rest of the
  batch is `dropped`.
* Two processes may pick the same free name in `_unique_output_path` or `save_outputs`; the later
  rename replaces the earlier file (`mine_builder.py:376`, `engine.py:244`), and two streams through
  one `.part` can publish a mixture after BUILD, whose identity check is made on the streamed bytes
  (`shared` in both modules).
* A recipe without hashes is built without any identity check (`mine_builder.py:261`).
* An unverified import overwrites height and branch of a verified row (`corpus.py:51`); the place is
  not part of `SourceVouched`.
* A starter import leaves a pinned block unverified that is there as an unverified row, and can
  rename a verified row committed between its lookup and its insert (`starter_corpus.py:44`).
* Jobs started in haste (`hasty`). The variable is set by the user's clicks alone, in three situations, and says
  nothing of what comes of them; each was found by TLC, which refutes the properties when it is left out:
  - A tip lookup posts its answer and its thread ends before the poll. The guard of the buttons looks at the
    thread (`gui.py:1141`), so Scan, Latest or a probe can be clicked now. The poll then takes the
    answer, forgets `scan_thread` and starts the lookup's scan beside the running one (`gui.py:1208-1215`),
    which clears the first one's cancel event (`gui.py:1148`). Two clicks on Latest do the same.
  - A BIP158 probe is not guarded and replaces `scan_thread` while a scan runs (`gui.py:1082`). A second scan can
    then be started, and a report can stay in the queue with no poll armed.
  - A lookup is started while an answer waits that will open a message box. The lookup's own poll fires inside that
    box and starts its scan there; the outer poll, which had seen no thread alive, then disables Cancel under the
    running scan (`gui.py:1262`).
* A scan worker that cannot open the corpus dies before its `try` (`gui.py:1161`, `gui.py:745` for builds): the
  buttons come back, but the status line goes on saying that it runs (`lost`).
* A list of relations that a store or a clear overlaps may pair rows and members of different versions, or
  give a row without members (`tx_links.py:659`); a backup of it cannot be loaded again, and its import
  then fails after its blocks were committed (`overlapped`, `mixed`). A backup is written over the
  previous one in place (`corpus_exchange.py:337`).
* A block at a negative height, which only an imported file can bring, is written as a selector that no
  reader takes for one (`recipe_io.py:46`; `Selectable`).
* `verifier.py` also takes empty segments and ones that begin before their source, and counts the bytes of overlapping proofs twice; it agrees with
  the resolver on what the resolver accepts (`CheckersAgree`).
* LOCKED_LINK, EPOCH_LINK, USER_PICKED and TX_LINKED are deferred: only a caller of `build_manifest`
  reaches them.

## Proofs

The runs check small instances; these hold for every value of the constants, under the named
assumptions of the modules. The theorems of the composed modules speak of what the runs check; most
follow from a part's own, because every step of the sum is a step or a stutter of each part.

| Property of a run | Theorem | Inductive invariant |
|---|---|---|
| `TypeOK`, `SourceVouched`, `OnlyPruneForgets` | `CorpusDatabaseProofs`: of the store, then of the database | `IInv` |
| `ImplementsLedger` | `CorpusDatabaseProofs` | the draft is what the ledger's operation has reached |
| `GradesAreEarned` | `CorpusDatabaseProofs` | none: a fact about the modes and any rows |
| `BackupRestores`, `LinksAreWhole` | `CorpusDatabaseProofs`: of the link tables, then of the database | `LinksInv` |
| `Covered`, `BtcReportIsTrue` | `AcquisitionProofs`: of the scan, then of the worker | `IInv`, `BookInv` |
| `SeedCovered`, `CommittedIsWhole` | `AcquisitionProofs`: of the scans, then of the worker | `SeedInv`, `SeedBookInv`, `NodeInv` |
| `CancelIsAnswered` | `AcquisitionProofs`: of the scans, then of the worker | until a scan returns, what is done is what was done when the cancel came; `NodeInv` |
| `TypesOK` of `Acquisition` | `AcquisitionProofs` | the three above |
| `TypesOK`, `PublishedIsWhole`, `BaseIsOneBuild`, `NoStrayParts`, `NothingOverwritten` | `PublicationProofs` | `PublicationInv` |
| `TypeOK`, `RecipeFits`, `FewestIsMinimal`, `RefusalIsHonest`, `AccountsAreTrue`, `QuotasHold` of the pickers | `SearchProofs` | `PickInv` |
| `CandidateIsFirstLongest` | `SearchProofs` | `IndexInv` |
| `TypesOK`, `RunningIsInControl`, `CancelHitsItsJob`, `StatusIsCurrent` of `Workspaces` | `WorkspacesProofs` | `WorkspacesInv` |
| `ReportIsExact`, `AcceptedRebuilds` | `RecipesProofs` | `CheckInv` |
| `FilesReturn`, `NamesReturn` | `RecipesProofs` | `SubjectInv` |
| `Base64IsOfTheWhole`, `CleanStreamReturns` | `StreamProofs` | `SubjectInv` |
| `MixIsWhole`, `EditsHold` | `ChainMixProofs`, and of the workspaces in `WorkspacesProofs` | `MixInv` |

### The corpus

`CorpusAssumption`: records are well formed, pinned records are verified. `LinksAssumption`: evidence files are
sequences of relations, relation ids are numbers, and the values that stand for no connection, no row and no
claim are what their names say. `DatabaseAssumption`: there are finitely many blocks, and the relations
a build reads are graded unverified; the last is what `LinksAreWhole` says of the tables they are read from.

* `SourceVouched` speaks of the committed table, but a commit installs the draft, so it is not
  inductive. `IInv` adds that the draft is as well vouched for by what the lock holder would commit
  (`OriginBacked(draft, offered)`), that it keeps all the committed table knows (`DraftKeeps`), that
  without a transaction both are the same (`Settled`), and that a resolved starter record is still
  first in its list. The lemmas on `Merge` and `Upsert` carry the argument; `DeliverTables` lifts them to
  a step. The action property follows from `DraftKeeps` at a commit and from the definition of a prune.
* `StoreImplementsLedger`. The ledger imports a batch in one step; the store upserts it record by record. What
  the lock holder's draft is, is said by the ledger's own recursive function over what is left of the batch:
  run on the draft, the rest gives the same table as the whole batch on the committed one. Each record moves
  both sides by one; a commit, when nothing is left, is the ledger's step.
* `LinksStayWhole`. `LinksInv` follows a relation on its ways: what a connection still has to store is
  whole, the tables the lock holder sees are the committed ones after the relations it has stored, and what
  a list has read is delivered row by row, whole if no change overlapped it.
* `BackupsRestore`. A list that nothing overlapped is a beginning of the table; the relations stored
  from it, in any table without them, give each its row, under the name of the backup, and its members again. The list is finite, since
  files are, and the recursion over it is followed by induction over its length.
* `GradesEarned`. No behaviour is involved: `Alignment`'s operators are shown to keep what is said of
  them for all rows, modes, picks and relations. The weakest grade of a pool is by its definition not above
  any member's.

### The scans

`ScanAssumption`: ranges are not empty, sizes positive. They are what the entry checks of the scan
functions leave.

* `NoHeightIsLost` of the BTC scan (`Covered`) does not survive a step alone: what
  remains depends on `current`, which moves only when a batch ends. `IInv` says at each stage how far
  heights are settled: between batches all above `current` (`AtLoop`), within a batch those above
  `height` are written or reported (`InBatch`), and when the loop was left there is a resume height, or
  the closing fallback will set one, or nothing is left (`AtClosing`). There is a lemma per action.
* The reports (`BtcReportIsTrue`) need the books: `BookInv` counts what the open transaction and the
  committed rows hold at each stage, by cardinalities of sets of heights.
* The seed scan: at the loop's end `Covered` needs what was fetched to be in safe hands, so `SeedInv` adds that
  everything outside the scan's range is settled and everything fetched is stored or pending (`SeedAtWork`), that
  the loop is left either at its end or with the resume height of its position (`SeedAtClosing`), and that a
  resume height lies in its scan's range, whose downward form starts at `First` (`SeedAtReturn`, `SeedDown`): only
  then is a resumed scan a scan of a range. `SeedHeightInRange` is the arithmetic of both directions. The
  skipped height is in the statement: without it, the code violates it (run `seed_skip`).
  `SeedBookInv` adds that what is pending is shorter than a flush and follows what is stored.
* `NodeInv`: until its one commit a node scan has in its transaction exactly what the generator yielded,
  each chunk beginning where the one before it ended; what a session committed or an answer left out is one
  run of heights that reaches up to the scan in progress. A Core-family node has left out nothing.

### Publication

`PublicationAssumption` joins those of the parts: serial names are numbered from 1, an artifact has a chunk,
the file 1 exists, the values that stand for no file, nobody and a hole are none of the real ones.

`PublicationInv` is one argument made three times, over the four file operations (`OpensAt`,
`WritesAt`, `ReplacesAt`, `UnlinksAt`):

* No file has two names (`OneName`): a `.part` is opened on the inode it has, or on one that has no
  name and that nobody holds; a rename and an unlink take a name away.
* The file behind a handle has no names but those of the run's own path (`Tied`). It need not have
  that: another run that picked the path may have renamed or removed it.
* So a step touches the names and files of its own path and no others (`At`).
* If no overlapping run had picked the path (`shared`), what the run has written is all there is in its
  `.part`, and the final name is free until it renames (`TargetRun`, `RecipeRun`, `ProofRep`, `ProofMap`).

What a step of one run does is a lemma per action (`TargetMove`, `RecipeMove`, `ProofMove`), and one lemma per
part shows that such a step keeps the invariant of all runs. Garbled chunks, deaths at every step, failing
renames and two runs in one `.part` are steps like the others. `NoStrayParts` needed strengthening for
recipes and proofs: a stray `.part` is one of the name the run works on *now*, so that one it leaves
behind when it goes on to its next name would be noticed (`RecipeParts`, `ProofParts`).

### The pickers

From `PickerAssumption`: a target has a byte, there are finitely many chains, each mix has a chain above 0, a
match ends within the target, and the tail of a match is a match. The last is proved of the index
(below), which takes every offset of a source in (`picker.py:56`), and is needed for one thing only: a
greedy picker that finds nothing at an offset has met a byte that no fragment can cover, however it began.

* `PickInv` is the recipe's books: the segments end at `pos` and, in a plan that leaves no gap, cover all
  before it (`SegmentsFit`); the accounts are the bytes of the segments, within goal and quotas
  (`AccountsFit`); what a proof without quotas left behind nothing could cover (`NothingMissed`). A fragment behind the
  others adds its bytes to theirs (`BytesAdd`), and every greedy step takes one (`BestIs`): there is a best
  offer because deficits, which are fractions, are ordered (`PreferredExists`).
* `FewestChunks`. The code keeps the costs of the next `MaxChunk` offsets only. The invariant says that there is a table
  of costs over all decided offsets of which the window is a part (`DecisionsFit`), that the choices
  spend it, and that it is not above any tiling from there (`Costs`). A new cost is the least because a
  tiling without its first fragment tiles what is behind it (`TilingTail`, `CostIsLeast`). So no cost means
  no tiling, which is the refusal; and the trace meets a choice at every offset and spends one
  segment of the cost there. Its own refusal is never reached.
* `QuotasAreKept`. The remainders add up to a multiple of the weights' sum, so the bytes left over are fewer than
  the chains with a remainder (`SumOfFew`); each of the foremost in the sort gets one, and as many
  chains are foremost as there are bytes left (`Ranks`). Sums are by induction over the parts of the set.

### The source index

From `IndexAssumption`: records are byte sequences, fragments have a byte, and the prefixes of the fan-out are one byte
longer than the longest key of the exact maps.

* `IndexInv` says what the maps are of the records added so far: a fragment is a key of the exact maps when
  a record carries it, and stands for the first place that does (`ShortFits`); under a prefix the fan-out
  has every place that carries it, in the order of the records and offsets (`LongFits`). A new record is behind
  all others, so what it is the first to supply is new and its points go to the end (`ShortKept`, `LongKept`).
  The points of one record are in order because each offset's place is the number of those before it (`InOrder`).
* `CandidatesAreFirstLongest`. A match begins with shorter ones (`MatchBegins`), so one of `LongPrefix` bytes or more
  is under its prefix; the comparison behind a hit finds how long it is (`ExtentIs`), and the first of the longest
  points is the earliest source, because the points are in order (`FirstGreatest`). Without such a match the
  longest known fragment is the answer. A cancelled build answers as well for what it has.
* `AnswersAreTables` closes the circle with the pickers: in every state of the index the lengths it answers make
  a table as `PickerAssumption` wants it, since a match without its first bytes is a match further on
  (`MatchEnds`). So that assumption is about the code's own index, not one about the corpus.

### The recipes

`RecipeAssumption`: segments are placed by integers, sizes are natural numbers. `RecipesAssumption`: the escape of a name
is not its dot, the letters of the Clean Stream that are not digits differ (`CleanAssumption`), and a written segment
is a record of its fields.

* The checks. `CheckInv` says what the loop of the resolver knows when it has looked at some of the segments:
  as long as all were good, `previous_end` is the end of the last one and the ranges are theirs; once one was
  bad, no report will be good. The rest is about orders: a sorted list is the segments again, each once
  (`SortedIs`, for the stable sort the code uses), and in it "each begins where the one before
  it ended, or later" is the same as "no two share a byte" for the whole list (`SoundIs`), which is how the property
  says it. `MergedIs` and `HolesAre` follow the two loops of `_merge_ranges`.
* `AcceptedRebuilds`. When the stream has passed the segments before `next` it has yielded them (`Yielded`). The
  verifier sorts by the offset alone and appends as long as each segment begins where the one before it ended
  (`RebuiltIs`); its order is one of those `SoundIs` speaks of, so it takes every sound full recipe
  (`VerifiesSound`). It also takes what the resolver refuses, empty segments and ones that begin before their
  source, which Python counts from its end; `PlainSegments` sets those aside in one direction.
* The conversions are folds. A `FoldLeft` of the community modules is a recursive function over sets of positions, so
  one lemma finds the function (`FoldsExist`) and what each step does is an induction over how many were
  taken. What was proved once for folds is used by the merge, the holes, the files, the hashing and the decoding.
* `FilesReturn`. The reader of what the writer has written so far has the segments before it, up to the trust and
  the grade the text has no place for (`TextReturns`). In the machine file every segment points into the
  table of sources, which has its source from then on (`TableSteps`, `MachineReturns`).
* `NamesReturn`. Decoding at the code of a character gives the character, or a bang for a dot that stands before a
  dot or a bang (`CharReturns`); so a name without such a dot comes back, and any other differs at that dot.
* `Base64IsOfTheWhole`. The carry is what is left of the bytes before it when they are cut in groups of
  three, or of four letters (`HashIsWhole`, `DecodesWhole`); a padded quartet must be the last, which the
  decoder of the pieces notices by `saw_padding` and the decoder of the whole by its place.
* `CleanStreamReturns`. A short token has one count and no end mark, so its reader looks for the next `+` and asks
  whether only counts stand before it. A `+` is written only behind an `o` of its own, so the short token is never
  taken for a long one, whatever digits follow it and whichever hash they belong to (`ShortToken`, `LongToken`,
  `GuardedBefore`). A run of any length is the sum of its counts (`RunReads`), and the digits of a hash of one
  width after the other are read back in order (`HashReads`, `CorpusReturns`).

### The workspaces

From `DeskAssumption` and `WorkspacesAssumption`: at least one job, and "no thread" is none.

* What holds the controls together is what a poll still knows when it ends. It looked at the thread
  before it drained the queue; if it found none alive, none was started since (`Polled` of the jobs,
  `DeadPolls` of the scans), so it gives the buttons back under no running job, also when it returns to a
  poll that waits in a message box.
* In the corpus workspace that holds as long as the user was not hasty (`InOneHand`): no thread lives but the
  last one and lookups that are over (`Alone`), nothing is at work while a tip waits (`TipAlone`), and a
  lookup is under way only where no other poll waits to take the buttons away under its scan (`LookupsCalm`).
  `hasty` records clicks only, so that no second scan comes of the others is proved of every click and poll.
* `ScanCounts`: each thread arms one poll, so timers and nested polls stay within the number of threads.
* `StatusIsCurrent` needs the order of reports (`ReportsInTurn`) and where the last one is (`Told`, `AnswerSaid`):
  it waits, or it is on the status line and the queue is empty. With the lock (`Locked`) every report that
  waits is the last job's.
* `CancelHitsItsJob`: a start clears the event, and finds no scan alive because a click found the last
  thread dead and no other scan can live (`Alone`), or because the poll that starts it took a
  tip (`TipAlone`); for the other two because the event is the last job's (`Cancelled`).

### The chain mix

From `MixAssumption`: there is a chain, and the whole is a natural number.

* The behaviour is simple: `MixInv` only adds to `MixIsWhole` that the pinned chains are selected ones, each
  once. The work is in the functions. Sums are recursive functions over the chains, and everything about
  them is proved by induction: sums of parts add up (`SumsAdd`, `SumOfParts`), the shares of an equal split,
  remainder and all, add up to what was split (`SharesAddUp`), an order without some of its chains keeps
  the others in their order (`OnlyOfThins`).
* `CutsAddUp` is the heart of it: going back from the newest pin, the chains passed so far have given way by
  the overflow or by all they had. Over all pins but the edited one that is the overflow, because the edited
  value alone fits. So what is left never exceeds the whole, and the two corrections at the end of
  `rebalance_percentages`, which the model leaves out, have nothing to correct.
* `PinsHold` follows from the same sums: a newer pin with something left took all the overflow that came
  to it, and the older ones saw none.

### What is only model-checked

* Liveness under fairness: `RunsEnd`, `ReportsArrive`, `ControlsComeBack`. What ENABLED
  needs is out of the prover's reach.
* The six runs that show a divergence: each is one counterexample.

Every other property of a run is a theorem. No module declares a RECURSIVE operator.

## Not modelled

The parsing of transaction bytes (`tx_links.py` 58-420) and of explorer lists and raw streams
(`corpus_exchange.py` 1-300), whose outcome is the record or the refusal the models start from; JSON and zlib
containers; HTTP, RPC and digest authentication; widgets and layout; the BHB bridge (a read-only filter
lookup), the adapters' name registry and the launch scripts. The command line calls the same operations
one after the other and counts as one more process in `CorpusStore`, `TxLinks` and `Publication`. The
tolerant pickers (`picker.py` 585-672) have no caller.

## Plan

Everything above is modelled and checked, and every safety property is proved. What could be added: the parsers
named under "Not modelled", as grammars of their own.

## Running

`tlc -config MCAcquisition.cfg MCAcquisition` and alike; `tlapm PublicationProofs.tla`. The longest run
takes about three minutes with two workers; `RecipesProofs` and `StreamProofs` take about twelve minutes
each, the other proofs together about as long.
