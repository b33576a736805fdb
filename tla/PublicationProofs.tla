------------------------- MODULE PublicationProofs -------------------------
(***************************************************************************)
(* What is published is whole, stays as it is and comes from one run, and  *)
(* no `.part` strays, for every number of processes, runs, names, files,   *)
(* chunks and recipes.                                                     *)
(*                                                                         *)
(* The argument is the same for the three kinds.  No file has two names,   *)
(* and the file a run writes has no name but those of its own path.  So a  *)
(* run touches nothing but its path, and if no overlapping run had picked  *)
(* it, what the run has written is all there is in its `.part`.            *)
(***************************************************************************)
EXTENDS Publication, TLAPS

\* What the theorems are about: a behaviour of the processes, fair or not.
PublicationSpec == PublicationInit /\ [][PublicationNext]_all_vars

----------------------------------------------------------------------------
(* Files.  P is the set of the names of one part.                          *)

Directory(P) ==
  /\ final \in [P -> Inodes \cup {NoFile}]
  /\ part \in [P -> Inodes \cup {NoFile}]
  /\ DOMAIN disk = Inodes

\* No file has two names.
OneName(P) ==
  \A p, q \in P :
    /\ final[p] # NoFile /\ final[p] = final[q] => p = q
    /\ part[p] # NoFile /\ part[p] = part[q] => p = q
    /\ final[p] # NoFile => final[p] # part[q]

\* The file i has no names but those of p.
Tied(P, i, p) == \A q \in P : i \in {part[q], final[q]} => q = p

\* The names of p, and what is in the files that carry them, stay as they are.
Untouched(p) ==
  /\ final'[p] = final[p] /\ part'[p] = part[p]
  /\ part[p] # NoFile => disk'[part[p]] = disk[part[p]]
  /\ final[p] # NoFile => disk'[final[p]] = disk[final[p]]

\* A step at p: it leaves all other names alone, and the files whose handles are
\* held keep their ties.
At(P, p, held) ==
  /\ Directory(P)' /\ OneName(P)'
  /\ \A q \in P \ {p} : Untouched(q)
  /\ \A i \in held, q \in P : Tied(P, i, q) => Tied(P, i, q)'

\* A file that is published under p stays there, with what is in it.
Kept(p) ==
  final[p] # NoFile => final'[p] = final[p] /\ disk'[final[p]] = disk[final[p]]

\* The four operations on files, whatever part they are of.
Opens(P, p, i, held) ==
  /\ IF part[p] # NoFile THEN i = part[p]
     ELSE i \notin {final[q] : q \in P} \cup {part[q] : q \in P} \cup held
  /\ part' = [part EXCEPT ![p] = i]
  /\ disk' = [disk EXCEPT ![i] = <<>>]
  /\ UNCHANGED final

Writes(i, s) == disk' = [disk EXCEPT ![i] = s] /\ UNCHANGED <<final, part>>

Replaces(p) ==
  /\ part[p] # NoFile
  /\ final' = [final EXCEPT ![p] = part[p]]
  /\ part' = [part EXCEPT ![p] = NoFile]
  /\ UNCHANGED disk

Unlinks(p, held) ==
  /\ part' = [part EXCEPT ![p] = NoFile]
  /\ disk' = [i \in Inodes |-> IF i = part[p] /\ i \notin held THEN <<>> ELSE disk[i]]
  /\ UNCHANGED final

\* Opening p.part: it is empty, and nothing else changes.
LEMMA OpensAt ==
  ASSUME NoFile \notin Inodes, NEW P, NEW p \in P, NEW i \in Inodes, NEW held \in SUBSET Inodes,
         Directory(P), OneName(P), Opens(P, p, i, held)
  PROVE  /\ At(P, p, held) /\ Kept(p)
         /\ part'[p] = i /\ disk'[i] = <<>> /\ Tied(P, i, p)'
         /\ \A j \in Inodes \ {i} : disk'[j] = disk[j]
<1>1. /\ final' = final /\ part'[p] = i /\ disk'[i] = <<>>
      /\ \A q \in P \ {p} : part'[q] = part[q]
      /\ \A j \in Inodes \ {i} : disk'[j] = disk[j]
  BY DEF Opens, Directory
<1>2. Directory(P)'
  BY DEF Opens, Directory
<1>3. \A q \in P : final[q] # i
  <2>1. CASE part[p] = NoFile
    BY <2>1 DEF Opens
  <2>2. CASE part[p] # NoFile
    BY <2>2 DEF Opens, OneName
  <2> QED BY <2>1, <2>2
<1>4. \A q \in P \ {p} : part[q] # i
  <2>1. CASE part[p] = NoFile
    BY <2>1 DEF Opens
  <2>2. CASE part[p] # NoFile
    BY <2>2 DEF Opens, OneName
  <2> QED BY <2>1, <2>2
<1>5. OneName(P)' /\ Tied(P, i, p)'
  BY <1>1, <1>3, <1>4 DEF OneName, Tied
<1>6. (\A q \in P \ {p} : Untouched(q)) /\ Kept(p)
  BY <1>1, <1>3, <1>4 DEF Untouched, Kept, Directory
<1>7. ASSUME NEW j \in held, NEW q \in P, Tied(P, j, q)
      PROVE  Tied(P, j, q)'
  <2>1. CASE part[p] = NoFile
    <3>1. j # i
      BY <2>1 DEF Opens
    <3> QED BY <1>1, <1>7, <3>1 DEF Tied
  <2>2. CASE part[p] # NoFile
    <3>1. part' = part
      BY <2>2, <1>1 DEF Opens, Directory
    <3> QED BY <1>1, <1>7, <3>1 DEF Tied
  <2> QED BY <2>1, <2>2
<1> QED BY <1>1, <1>2, <1>5, <1>6, <1>7 DEF At

\* Writing through a handle changes that file only.
LEMMA WritesAt ==
  ASSUME NEW P, NEW p \in P, NEW i \in Inodes, NEW s, NEW held \in SUBSET Inodes,
         Directory(P), OneName(P), Tied(P, i, p), Writes(i, s)
  PROVE  /\ At(P, p, held) /\ final' = final /\ part' = part /\ disk'[i] = s
         /\ \A j \in Inodes \ {i} : disk'[j] = disk[j]
<1>1. /\ final' = final /\ part' = part /\ disk'[i] = s
      /\ \A j \in Inodes \ {i} : disk'[j] = disk[j]
      /\ DOMAIN disk' = Inodes
  BY DEF Writes, Directory
<1>2. \A q \in P \ {p} : Untouched(q)
  BY <1>1 DEF Untouched, Tied, Directory
<1> QED BY <1>1, <1>2 DEF At, Directory, OneName, Tied

\* A rename moves the file from one name of p to the other.
LEMMA ReplacesAt ==
  ASSUME NoFile \notin Inodes, NEW P, NEW p \in P, NEW held \in SUBSET Inodes,
         Directory(P), OneName(P), Replaces(p)
  PROVE  /\ At(P, p, held) /\ final'[p] = part[p] /\ part'[p] = NoFile /\ disk' = disk
         /\ part[p] \in Inodes
<1>1. /\ final'[p] = part[p] /\ part'[p] = NoFile /\ disk' = disk /\ part[p] \in Inodes
      /\ \A q \in P \ {p} : final'[q] = final[q] /\ part'[q] = part[q]
  BY DEF Replaces, Directory
<1>2. Directory(P)'
  BY DEF Replaces, Directory
<1>3. OneName(P)'
  BY <1>1 DEF OneName
<1>4. \A i \in held, q \in P : Tied(P, i, q) => Tied(P, i, q)'
  BY <1>1 DEF Tied
<1> QED BY <1>1, <1>2, <1>3, <1>4 DEF At, Untouched

\* Removing p.part changes no file but that one.
LEMMA UnlinksAt ==
  ASSUME NoFile \notin Inodes, NEW P, NEW p \in P, NEW gone, NEW held \in SUBSET Inodes,
         Directory(P), OneName(P), Unlinks(p, gone)
  PROVE  /\ At(P, p, held) /\ Kept(p) /\ final' = final /\ part'[p] = NoFile
         /\ \A j \in Inodes : disk'[j] \in {disk[j], <<>>}
<1>1. /\ final' = final /\ part'[p] = NoFile
      /\ \A q \in P \ {p} : part'[q] = part[q]
      /\ \A j \in Inodes : disk'[j] \in {disk[j], <<>>}
      /\ \A j \in Inodes \ {part[p]} : disk'[j] = disk[j]
  BY DEF Unlinks, Directory
<1>2. Directory(P)'
  BY DEF Unlinks, Directory
<1>3. OneName(P)'
  BY <1>1 DEF OneName
<1>4. (\A q \in P \ {p} : Untouched(q)) /\ Kept(p)
  BY <1>1 DEF Untouched, Kept, OneName, Directory
<1>5. \A i \in held, q \in P : Tied(P, i, q) => Tied(P, i, q)'
  BY <1>1 DEF Tied
<1> QED BY <1>1, <1>2, <1>3, <1>4, <1>5 DEF At

\* A step that changes no file.
LEMMA StillAt ==
  ASSUME NEW P, NEW p, NEW held, Directory(P), OneName(P), UNCHANGED files
  PROVE  At(P, p, held) /\ Kept(p)
BY DEF At, Kept, files, Directory, OneName, Untouched, Tied

\* What a write leaves in the file.
LEMMA PutChunkIs ==
  ASSUME NEW S, NEW s \in Seq(S), NEW v \in S, Hole \in S, NEW o \in Nat \ {0},
         NEW t, t = Target!PutChunk(s, o, v)
  PROVE  /\ t \in Seq(S)
         /\ Len(t) = (IF o > Len(s) THEN o ELSE Len(s)) /\ Len(t) \in Nat
         /\ t[o] = v
         /\ \A j \in 1 .. Len(t) : j # o => t[j] = (IF j <= Len(s) THEN s[j] ELSE Hole)
<1> DEFINE n == IF o > Len(s) THEN o ELSE Len(s)
           u == [j \in 1 .. n |-> IF j = o THEN v ELSE IF j <= Len(s) THEN s[j] ELSE Hole]
<1>1. t = u
  BY DEF Target!PutChunk
<1>2. n \in Nat /\ o \in 1 .. n
  OBVIOUS
<1>3. \A j \in 1 .. n : u[j] \in S
  OBVIOUS
<1>4. u \in Seq(S) /\ Len(u) = n
  <2> HIDE DEF n
  <2>1. u \in [1 .. n -> S]
    BY <1>3
  <2> HIDE DEF u
  <2> QED BY <2>1, <1>2
<1> QED BY <1>1, <1>2, <1>4

\* The first n chunks of s are all there is, written by v or garbled.
Filled(s, v, n) == Len(s) = n /\ \A i \in 1 .. n : s[i] \in {v, Hole}

\* Writing the next chunk.
LEMMA FilledGrows ==
  ASSUME NEW S, NEW s \in Seq(S), NEW n \in Nat, NEW v \in S, Hole \in S, NEW x \in {v, Hole},
         Filled(s, v, n)
  PROVE  Filled(Target!PutChunk(s, n + 1, x), v, n + 1)
<1>1. x \in S /\ n + 1 \in Nat \ {0} /\ Len(s) = n
  BY DEF Filled
<1> PICK t : t = Target!PutChunk(s, n + 1, x)
  OBVIOUS
<1>2. /\ Len(t) = (IF n + 1 > Len(s) THEN n + 1 ELSE Len(s)) /\ t[n + 1] = x
      /\ \A j \in 1 .. Len(t) : j # n + 1 => t[j] = (IF j <= Len(s) THEN s[j] ELSE Hole)
  BY <1>1, PutChunkIs
<1>3. Len(t) = n + 1
  BY <1>1, <1>2
<1> QED BY <1>1, <1>2, <1>3 DEF Filled

----------------------------------------------------------------------------
(* Full targets.                                                           *)

TargetBefore == {"open", "stream", "verify", "readback", "replace"}

\* What a run that has its name to itself has made of it.
TargetRun(m) ==
  LET p == path[m] IN
  /\ pc[m] \in TargetBefore => final[p] = NoFile /\ published[p] = Nobody
  /\ pc[m] = "stream" => part[p] = fd[m] /\ Filled(disk[fd[m]], recipe[m], pos[m])
  /\ pc[m] \in {"verify", "readback", "replace"} =>
       /\ part[p] # NoFile /\ Filled(disk[part[p]], recipe[m], Chunks)
       /\ Identity[recipe[m]] # "mismatch"
  /\ pc[m] = "readback" =>
       fd[m] = part[p] /\ (intact[m] => \A i \in 1 .. pos[m] : disk[fd[m]][i] = recipe[m])
  /\ pc[m] = "replace" /\ verify[m] /\ Identity[recipe[m]] = "match" =>
       \A i \in 1 .. Chunks : disk[part[p]][i] = recipe[m]

TargetMiner(m) ==
  /\ pc[m] # "idle" \/ outcome[m] = "ok" => recipe[m] \in Recipes
  /\ pc[m] \in TargetBefore => outcome[m] = "running"
  /\ pc[m] \in {"stream", "readback"} => Tied(Serials, fd[m], path[m])
  /\ path[m] \notin shared =>
       TargetRun(m) /\ (outcome[m] = "ok" => published[path[m]] = recipe[m])

\* The first half of Target!PublishedIsWhole, of one name.
TargetWhole(p) ==
  published[p] # Nobody =>
    /\ final[p] # NoFile
    /\ Identity[published[p]] # "mismatch"
    /\ Len(disk[final[p]]) = Chunks
    /\ \A i \in 1 .. Chunks :
         \/ disk[final[p]][i] = published[p]
         \/ disk[final[p]][i] = Hole /\ ~Target!Proven(p)

\* Two runs in progress have one name only if it is noted as shared.
Apart ==
  \A m, n \in Workers :
    m # n /\ pc[m] # "idle" /\ pc[n] # "idle" /\ path[m] = path[n] => path[m] \in shared

TargetInv ==
  /\ Target!TypeOK /\ Target!NoStrayParts /\ OneName(Serials)
  /\ \A i \in Inodes : Len(disk[i]) <= Chunks
  /\ \A p \in Serials \ shared : TargetWhole(p)
  /\ \A m \in Workers : TargetMiner(m)
  /\ Apart

TargetHeld(m) == Target!HeldBy(Workers \ {m})

\* A step of m as far as the others can tell, and what it makes of m's own name.
TargetMove(m) ==
  /\ Target!TypeOK' /\ At(Serials, path[m], TargetHeld(m))
  /\ \A i \in Inodes : Len(disk'[i]) <= Chunks
  /\ TargetMiner(m)'
  /\ path[m] \notin shared => Kept(path[m])
  /\ \A p \in Serials : p = path[m] /\ p \notin shared' =>
       TargetWhole(p)' /\ published[p] \in {published'[p], Nobody}
  /\ \A n \in Workers \ {m} :
       /\ pc'[n] = pc[n] /\ recipe'[n] = recipe[n] /\ path'[n] = path[n] /\ verify'[n] = verify[n]
       /\ fd'[n] = fd[n] /\ pos'[n] = pos[n] /\ intact'[n] = intact[n] /\ outcome'[n] = outcome[n]
  /\ \A p \in Serials \ {path[m]} :
       published'[p] = published[p] /\ (p \in unchecked' <=> p \in unchecked)
  /\ shared \subseteq shared' /\ orphaned \subseteq orphaned'
  /\ \/ /\ pc[m] = "idle" /\ UNCHANGED <<files, published, unchecked, orphaned>>
        /\ \A n \in Workers \ {m} :
             pc[n] # "idle" /\ path[n] = path'[m] => path'[m] \in shared'
     \/ /\ pc[m] # "idle" /\ shared' = shared
        /\ IF pc'[m] = "idle" THEN path[m] \in orphaned' \/ part'[path[m]] = NoFile
           ELSE path'[m] = path[m]

LEMMA TargetConstants ==
  /\ Serials \subseteq Nat /\ Inodes \subseteq Nat /\ 1 \in Inodes
  /\ Chunks \in Nat \ {0} /\ MaxRuns \in Nat \ {0}
  /\ Nobody \notin Recipes /\ NoFile \notin Inodes /\ 1 \in Serials
  /\ Identity \in [Recipes -> {"match", "mismatch", "size", "none"}]
<1>1. Target!MineAssumption /\ Proof!PartialMineAssumption
  BY PublicationAssumption DEF PublicationAssumption
<1>2. Serials = 1 .. Proof!Cardinality(Serials) /\ 1 \in Serials
  BY <1>1, Zenon DEF Proof!PartialMineAssumption
<1>3. Serials \subseteq Nat
  <2> DEFINE k == Proof!Cardinality(Serials)
  <2>1. \A i \in Serials : i \in 1 .. k
    BY <1>2, Zenon
  <2> HIDE DEF k
  <2> QED BY <2>1
<1> QED BY <1>1, <1>2, <1>3 DEF Target!MineAssumption

LEMMA TargetDirectory ==
  ASSUME Target!TypeOK
  PROVE  Directory(Serials)
BY DEF Target!TypeOK, Target!FilesTypeOK, Directory

LEMMA TargetOperations ==
  ASSUME NEW p, NEW i, NEW h, NEW o, NEW v
  PROVE  /\ Target!OpenPart(p, i, h) => Opens(Serials, p, i, h)
         /\ Target!WriteChunk(i, o, v) => Writes(i, Target!PutChunk(disk[i], o, v))
         /\ Target!ReplacePart(p) => Replaces(p)
         /\ Target!UnlinkPart(p, h) => Unlinks(p, h)
<1>1. Target!OpenPart(p, i, h) => Opens(Serials, p, i, h)
  BY DEF Target!OpenPart, Target!Named, Opens
<1>2. Target!WriteChunk(i, o, v) => Writes(i, Target!PutChunk(disk[i], o, v))
  BY DEF Target!WriteChunk, Writes
<1>3. Target!ReplacePart(p) => Replaces(p)
  BY DEF Target!ReplacePart, Replaces
<1>4. Target!UnlinkPart(p, h) => Unlinks(p, h)
  BY DEF Target!UnlinkPart, Unlinks
<1> QED BY <1>1, <1>2, <1>3, <1>4

\* The step of one run keeps the invariant of all.
LEMMA TargetMoves ==
  ASSUME TargetInv, NEW m \in Workers, TargetMove(m)
  PROVE  TargetInv' /\ Target!KeepsPublished
<1> DEFINE p == path[m]
<1>1. /\ p \in Serials /\ path \in [Workers -> Serials] /\ path' \in [Workers -> Serials]
      /\ fd \in [Workers -> Inodes] /\ Target!TypeOK' /\ OneName(Serials)'
  BY DEF TargetInv, TargetMove, Target!TypeOK, At
<1>2. \A q \in Serials \ {p} : Untouched(q)
  BY DEF TargetMove, At
<1>3. \A q \in Serials \ shared' : TargetWhole(q)'
  <2> SUFFICES ASSUME NEW q \in Serials, q \notin shared'
               PROVE  TargetWhole(q)'
    OBVIOUS
  <2>1. CASE q = p
    BY <2>1 DEF TargetMove
  <2>2. CASE q # p
    <3>1. TargetWhole(q) /\ Untouched(q) /\ published'[q] = published[q] /\ (q \in unchecked' <=> q \in unchecked)
      BY <2>2, <1>2 DEF TargetInv, TargetMove
    <3> QED BY <3>1 DEF TargetWhole, Untouched, Target!Proven
  <2> QED BY <2>1, <2>2
<1>4. ASSUME NEW n \in Workers \ {m}
      PROVE  TargetMiner(n)'
  <2>1. /\ pc'[n] = pc[n] /\ recipe'[n] = recipe[n] /\ path'[n] = path[n] /\ verify'[n] = verify[n]
        /\ fd'[n] = fd[n] /\ pos'[n] = pos[n] /\ intact'[n] = intact[n] /\ outcome'[n] = outcome[n]
        /\ shared \subseteq shared' /\ TargetMiner(n)
    BY DEF TargetInv, TargetMove
  <2>2. pc[n] \in {"stream", "readback"} => Tied(Serials, fd[n], path[n])'
    <3> SUFFICES ASSUME pc[n] \in {"stream", "readback"}
                 PROVE  Tied(Serials, fd[n], path[n])'
      OBVIOUS
    <3>1. fd[n] \in TargetHeld(m) /\ path[n] \in Serials
      BY <1>1 DEF TargetHeld, Target!HeldBy
    <3>2. \A i \in TargetHeld(m), q \in Serials : Tied(Serials, i, q) => Tied(Serials, i, q)'
      BY DEF TargetMove, At
    <3>3. Tied(Serials, fd[n], path[n])
      BY <2>1 DEF TargetMiner
    <3> DEFINE i == fd[n]
               q == path[n]
    <3>4. i \in TargetHeld(m) /\ q \in Serials /\ Tied(Serials, i, q) /\ i = fd'[n] /\ q = path'[n]
      BY <3>1, <3>3, <2>1
    <3> QED BY <3>2, <3>4 DEF Tied
  <2>3. ASSUME path[n] \notin shared', pc[n] # "idle"
        PROVE  Untouched(path[n]) /\ published'[path[n]] = published[path[n]]
    <3>1. CASE pc[m] = "idle"
      BY <3>1 DEF TargetMove, Untouched, files
    <3>2. CASE pc[m] # "idle"
      <4>1. path[n] # p
        BY <2>1, <2>3, <3>2 DEF TargetInv, Apart
      <4> QED BY <4>1, <1>1, <1>2 DEF TargetMove
    <3> QED BY <3>1, <3>2
  <2>4. ASSUME path[n] \notin shared'
        PROVE  TargetRun(n)'
    <3>1. CASE pc[n] = "idle"
      BY <3>1, <2>1 DEF TargetRun, TargetBefore
    <3>2. CASE pc[n] # "idle"
      <4>1. TargetRun(n) /\ Untouched(path[n]) /\ published'[path[n]] = published[path[n]]
        BY <3>2, <2>1, <2>3, <2>4 DEF TargetMiner
      <4>2. fd[n] # NoFile
        BY <1>1, TargetConstants
      <4> QED BY <2>1, <4>1, <4>2 DEF TargetRun, TargetBefore, Untouched
    <3> QED BY <3>1, <3>2
  <2>5. ASSUME path[n] \notin shared', outcome[n] = "ok"
        PROVE  published'[path[n]] = recipe[n]
    <3>1. published[path[n]] = recipe[n] /\ recipe[n] # Nobody
      BY <2>1, <2>5, TargetConstants DEF TargetMiner
    <3>2. published[path[n]] \in {published'[path[n]], Nobody}
      BY <1>1, <2>5 DEF TargetMove
    <3> QED BY <3>1, <3>2
  <2> QED BY <2>1, <2>2, <2>4, <2>5 DEF TargetMiner
<1>5. Target!NoStrayParts'
  <2> SUFFICES ASSUME NEW q \in Serials, part'[q] # NoFile
               PROVE  q \in orphaned' \/ \E n \in Workers : pc'[n] # "idle" /\ path'[n] = q
    BY DEF Target!NoStrayParts
  <2>1. CASE q = p /\ pc[m] # "idle"
    BY <2>1 DEF TargetMove
  <2>2. CASE q # p \/ pc[m] = "idle"
    <3>1. part[q] # NoFile
      BY <2>2, <1>2 DEF TargetMove, Untouched, files
    <3>2. q \in orphaned \/ \E n \in Workers : pc[n] # "idle" /\ path[n] = q
      BY <3>1 DEF TargetInv, Target!NoStrayParts
    <3>3. q \in orphaned \/ \E n \in Workers \ {m} : pc[n] # "idle" /\ path[n] = q
      BY <3>2, <2>2
    <3> QED BY <3>3 DEF TargetMove
  <2> QED BY <2>1, <2>2
<1>6. Apart'
  <2> SUFFICES ASSUME NEW k \in Workers, NEW n \in Workers, k # n, k # m,
                      pc'[k] # "idle", pc'[n] # "idle", path'[k] = path'[n]
               PROVE  path'[k] \in shared'
    BY DEF Apart
  <2>1. /\ pc'[k] = pc[k] /\ path'[k] = path[k] /\ shared \subseteq shared'
        /\ n # m => pc'[n] = pc[n] /\ path'[n] = path[n]
    BY DEF TargetMove
  <2>2. CASE n # m \/ pc[m] # "idle"
    <3>1. pc[n] # "idle" /\ path'[n] = path[n]
      BY <2>1, <2>2 DEF TargetMove
    <3> QED BY <2>1, <3>1 DEF TargetInv, Apart
  <2>3. CASE n = m /\ pc[m] = "idle"
    BY <2>1, <2>3 DEF TargetMove
  <2> QED BY <2>2, <2>3
<1>7. Target!KeepsPublished
  <2> SUFFICES ASSUME NEW q \in Serials, q \notin shared
               PROVE  Kept(q)
    BY DEF Target!KeepsPublished, Kept
  <2> QED BY <1>2 DEF TargetMove, Untouched, Kept
<1>8. \A i \in Inodes : Len(disk'[i]) <= Chunks
  BY DEF TargetMove
<1>9. \A n \in Workers : TargetMiner(n)'
  BY <1>4 DEF TargetMove
<1> QED BY <1>1, <1>3, <1>5, <1>6, <1>7, <1>8, <1>9 DEF TargetInv

\* What every step of m may use of the invariant.
LEMMA TargetFacts ==
  ASSUME TargetInv, NEW m \in Workers
  PROVE  /\ Directory(Serials) /\ OneName(Serials) /\ NoFile \notin Inodes
         /\ path[m] \in Serials /\ fd[m] \in Inodes /\ pos[m] \in 0 .. Chunks
         /\ TargetHeld(m) \in SUBSET Inodes /\ TargetMiner(m)
         /\ path[m] \notin shared => TargetWhole(path[m])
<1>1. Target!TypeOK /\ Directory(Serials) /\ OneName(Serials)
  BY TargetDirectory DEF TargetInv
<1>2. path[m] \in Serials /\ fd[m] \in Inodes /\ pos[m] \in 0 .. Chunks /\ TargetHeld(m) \in SUBSET Inodes
  BY <1>1 DEF Target!TypeOK, TargetHeld, Target!HeldBy
<1> QED BY <1>1, <1>2, TargetConstants DEF TargetInv

LEMMA TargetChooses ==
  ASSUME TargetInv, NEW m \in Workers, Target!Choose(m)
  PROVE  TargetMove(m)
<1>1. PICK p \in Serials, r \in Recipes, v \in BOOLEAN :
        /\ Target!Free(p)
        /\ path' = [path EXCEPT ![m] = p] /\ recipe' = [recipe EXCEPT ![m] = r]
        /\ verify' = [verify EXCEPT ![m] = v]
        /\ shared' = IF \E n \in Workers \ {m} : pc[n] # "idle" /\ path[n] = p
                       THEN shared \cup {p} ELSE shared
  BY Zenon DEF Target!Choose
<1>2. /\ pc[m] = "idle" /\ runs[m] < MaxRuns /\ runs' = [runs EXCEPT ![m] = @ + 1]
      /\ outcome' = [outcome EXCEPT ![m] = "running"] /\ pc' = [pc EXCEPT ![m] = "open"]
      /\ UNCHANGED <<final, part, disk, fd, pos, intact, published, unchecked, orphaned>>
  BY DEF Target!Choose, Target!Goto, Target!released, Target!files
<1>3. Target!TypeOK'
  <2>1. Target!TypeOK
    BY DEF TargetInv
  <2>2. Target!FilesTypeOK(Recipes \cup {UserFile})'
    BY <2>1, <1>2 DEF Target!TypeOK, Target!FilesTypeOK
  <2>3. pc' \in [Workers -> Target!Stages]
    BY <2>1, <1>2 DEF Target!TypeOK, Target!Stages
  <2>4. /\ path' \in [Workers -> Serials] /\ recipe' \in [Workers -> Recipes \cup {Nobody}]
        /\ verify' \in [Workers -> BOOLEAN] /\ shared' \in SUBSET Serials
    <3>1. path' \in [Workers -> Serials] /\ recipe' \in [Workers -> Recipes \cup {Nobody}]
      BY <2>1, <1>1 DEF Target!TypeOK
    <3>2. verify' \in [Workers -> BOOLEAN]
      BY <2>1, <1>1, Zenon DEF Target!TypeOK
    <3>3. shared' \in SUBSET Serials
      BY <2>1, <1>1 DEF Target!TypeOK
    <3> QED BY <3>1, <3>2, <3>3
  <2>5. runs' \in [Workers -> 0 .. MaxRuns]
    BY <2>1, <1>2, TargetConstants DEF Target!TypeOK
  <2>6. outcome' \in [Workers -> {"none", "running", "ok", "failed", "died"}]
    BY <2>1, <1>2 DEF Target!TypeOK
  <2>7. UNCHANGED <<fd, pos, intact, published, unchecked, orphaned>>
    BY <1>2
  <2> QED BY <2>1, <2>2, <2>3, <2>4, <2>5, <2>6, <2>7 DEF Target!TypeOK
<1>4. At(Serials, path[m], TargetHeld(m)) /\ Kept(path[m])
  BY <1>2, StillAt, TargetFacts DEF files
<1>5. \A i \in Inodes : Len(disk'[i]) <= Chunks
  BY <1>2 DEF TargetInv
<1>6. /\ pc'[m] = "open" /\ recipe'[m] = r /\ path'[m] = p /\ outcome'[m] = "running"
      /\ shared \subseteq shared'
  BY <1>1, <1>2 DEF TargetInv, Target!TypeOK
<1>7. p \notin shared' => final[p] = NoFile /\ published[p] = Nobody
  BY <1>1, <1>6 DEF Target!Free, TargetInv, TargetWhole
<1>8. TargetMiner(m)'
  BY <1>2, <1>6, <1>7 DEF TargetMiner, TargetRun, TargetBefore
<1>9. \A q \in Serials : q \notin shared' => TargetWhole(q)' /\ published[q] = published'[q]
  BY <1>2, <1>6 DEF TargetInv, TargetWhole, Target!Proven
<1>10. \A n \in Workers \ {m} :
         /\ pc'[n] = pc[n] /\ recipe'[n] = recipe[n] /\ path'[n] = path[n] /\ verify'[n] = verify[n]
         /\ fd'[n] = fd[n] /\ pos'[n] = pos[n] /\ intact'[n] = intact[n] /\ outcome'[n] = outcome[n]
  BY <1>1, <1>2 DEF TargetInv, Target!TypeOK
<1>11. \A n \in Workers \ {m} : pc[n] # "idle" /\ path[n] = path'[m] => path'[m] \in shared'
  BY <1>1, <1>6
<1> QED BY <1>2, <1>3, <1>4, <1>5, <1>6, <1>8, <1>9, <1>10, <1>11 DEF TargetMove, files

LEMMA TargetOpens ==
  ASSUME TargetInv, NEW m \in Workers, Target!Open(m)
  PROVE  TargetMove(m)
<1> PICK p \in Serials : p = path[m]
  BY TargetFacts
<1>1. PICK i \in Inodes : Target!OpenPart(p, i, TargetHeld(m)) /\ fd' = [fd EXCEPT ![m] = i]
  BY DEF Target!Open, TargetHeld
<1>2. /\ pc[m] = "open" /\ pos' = [pos EXCEPT ![m] = 0] /\ pc' = [pc EXCEPT ![m] = "stream"]
      /\ UNCHANGED <<recipe, path, verify, intact, outcome, runs, published, unchecked, shared, orphaned>>
  BY DEF Target!Open, Target!Goto, Target!released, Target!history
<1>3. Opens(Serials, p, i, TargetHeld(m)) /\ final' = final
  BY <1>1, TargetOperations DEF Opens
<1>4. /\ At(Serials, p, TargetHeld(m)) /\ Kept(p)
      /\ part'[p] = i /\ disk'[i] = <<>> /\ Tied(Serials, i, p)'
      /\ \A j \in Inodes \ {i} : disk'[j] = disk[j]
  <2>1. /\ Directory(Serials) /\ OneName(Serials) /\ NoFile \notin Inodes
        /\ p \in Serials /\ TargetHeld(m) \in SUBSET Inodes
    BY TargetFacts
  <2> QED BY <1>3, <2>1, OpensAt
<1>5. Target!TypeOK'
  <2>1. Target!TypeOK
    BY DEF TargetInv
  <2>2. disk' \in [Inodes -> Seq(Recipes \cup {UserFile} \cup {Hole})]
    BY <2>1, <1>3 DEF Opens, Target!TypeOK, Target!FilesTypeOK
  <2>3. Target!FilesTypeOK(Recipes \cup {UserFile})'
    BY <2>2, <1>4 DEF Target!FilesTypeOK, At, Directory
  <2>4. pos' \in [Workers -> 0 .. Chunks] /\ fd' \in [Workers -> Inodes] /\ pc' \in [Workers -> Target!Stages]
    BY <1>1, <1>2, <2>1, TargetConstants DEF Target!TypeOK, Target!Stages
  <2> QED BY <2>1, <2>3, <2>4, <1>2 DEF Target!TypeOK
<1>6. \A j \in Inodes : Len(disk'[j]) <= Chunks
  BY <1>4, TargetConstants DEF TargetInv
<1>7. pc'[m] = "stream" /\ fd'[m] = i /\ pos'[m] = 0
  BY <1>1, <1>2 DEF TargetInv, Target!TypeOK
<1>8. TargetMiner(m)'
  BY <1>2, <1>3, <1>4, <1>7, TargetFacts DEF TargetMiner, TargetRun, TargetBefore, Filled, Tied
<1>9. p \notin shared => TargetWhole(p)' /\ published[p] = published'[p]
  BY <1>2, TargetFacts DEF TargetMiner, TargetRun, TargetBefore, TargetWhole
<1>10. \A n \in Workers \ {m} : pc'[n] = pc[n] /\ fd'[n] = fd[n] /\ pos'[n] = pos[n]
  BY <1>1, <1>2 DEF TargetInv, Target!TypeOK
<1> QED BY <1>2, <1>4, <1>5, <1>6, <1>7, <1>8, <1>9, <1>10 DEF TargetMove

LEMMA TargetWrites ==
  ASSUME TargetInv, NEW m \in Workers, Target!Stream(m)
  PROVE  TargetMove(m)
<1> PICK p \in Serials : p = path[m]
  BY TargetFacts
<1> PICK i \in Inodes : i = fd[m]
  BY TargetFacts
<1> DEFINE S == Recipes \cup {UserFile} \cup {Hole}
<1>1. PICK v \in {recipe[m], Hole} : Target!WriteChunk(i, pos[m] + 1, v)
  BY DEF Target!Stream
<1>2. /\ pc[m] = "stream" /\ pos[m] < Chunks /\ pos' = [pos EXCEPT ![m] = @ + 1]
      /\ UNCHANGED <<pc, recipe, path, verify, fd, intact, outcome, runs, published, unchecked, shared, orphaned>>
  BY DEF Target!Stream, Target!released, Target!history
<1> PICK t : t = Target!PutChunk(disk[i], pos[m] + 1, v)
  OBVIOUS
<1>3. Writes(i, t)
  BY <1>1, TargetOperations DEF Writes
<1>4. Target!TypeOK /\ TargetMiner(m) /\ Tied(Serials, i, p) /\ pos[m] \in Nat /\ recipe[m] \in Recipes
  BY <1>2, TargetFacts, TargetConstants DEF TargetInv, TargetMiner
<1>5. disk[i] \in Seq(S) /\ Len(disk[i]) <= Chunks /\ Len(disk[i]) \in Nat /\ v \in S
  BY <1>4 DEF TargetInv, Target!TypeOK, Target!FilesTypeOK
<1>6. t \in Seq(S) /\ Len(t) <= Chunks
  <2>1. t \in Seq(S) /\ Len(t) = (IF pos[m] + 1 > Len(disk[i]) THEN pos[m] + 1 ELSE Len(disk[i]))
    <3> PICK o \in Nat \ {0} : o = pos[m] + 1
      BY <1>4
    <3> PICK s : s = disk[i]
      OBVIOUS
    <3>1. s \in Seq(S) /\ v \in S /\ Hole \in S
      BY <1>5
    <3> HIDE DEF S
    <3>2. t = Target!PutChunk(s, o, v)
      OBVIOUS
    <3>3. t \in Seq(S) /\ Len(t) = (IF o > Len(s) THEN o ELSE Len(s))
      BY <3>1, <3>2, PutChunkIs
    <3> QED BY <3>3
  <2> QED BY <2>1, <1>2, <1>4, <1>5, TargetConstants
<1>7. p \notin shared => part[p] = i /\ final[p] = NoFile /\ published[p] = Nobody /\ Filled(t, recipe[m], pos[m] + 1)
  <2>1. p \notin shared => part[p] = i /\ final[p] = NoFile /\ published[p] = Nobody /\ Filled(disk[i], recipe[m], pos[m])
    BY <1>2, <1>4 DEF TargetMiner, TargetRun, TargetBefore
  <2> QED BY <2>1, <1>4, <1>5, FilledGrows
<1>8. /\ At(Serials, p, TargetHeld(m)) /\ final' = final /\ part' = part /\ disk'[i] = t
      /\ \A j \in Inodes \ {i} : disk'[j] = disk[j]
  <2>1. Directory(Serials) /\ OneName(Serials) /\ TargetHeld(m) \in SUBSET Inodes
    BY TargetFacts
  <2>2. Writes(i, t) /\ Tied(Serials, i, p)
    BY <1>3, <1>4
  <2>3. At(Serials, p, TargetHeld(m))
    BY <2>1, <2>2, WritesAt
  <2> QED BY <2>1, <2>2, <2>3 DEF Writes, Directory
<1>9. Target!TypeOK'
  <2>1. disk' \in [Inodes -> Seq(S)]
    BY <1>3, <1>4, <1>6 DEF Writes, Target!TypeOK, Target!FilesTypeOK
  <2>2. Target!FilesTypeOK(Recipes \cup {UserFile})'
    BY <2>1, <1>8 DEF Target!FilesTypeOK, At, Directory
  <2>3. pos' \in [Workers -> 0 .. Chunks]
    BY <1>2, <1>4, TargetConstants DEF Target!TypeOK
  <2> QED BY <2>2, <2>3, <1>2, <1>4 DEF Target!TypeOK
<1>10. \A j \in Inodes : Len(disk'[j]) <= Chunks
  BY <1>6, <1>8 DEF TargetInv
<1>11. pos'[m] = pos[m] + 1 /\ \A n \in Workers \ {m} : pos'[n] = pos[n]
  BY <1>2, <1>4 DEF Target!TypeOK
<1>12. TargetMiner(m)'
  BY <1>2, <1>4, <1>7, <1>8, <1>11 DEF TargetMiner, TargetRun, TargetBefore, Tied
<1>13. p \notin shared => TargetWhole(p)' /\ Kept(p)
  BY <1>2, <1>7, <1>8 DEF TargetWhole, Kept
<1> QED BY <1>2, <1>8, <1>9, <1>10, <1>11, <1>12, <1>13 DEF TargetMove

\* A step that changes no file and publishes nothing.
LEMMA TargetStill ==
  ASSUME TargetInv, NEW m \in Workers, pc[m] # "idle", pc'[m] # "idle",
         UNCHANGED <<files, recipe, path, verify, published, unchecked, shared, orphaned>>,
         Target!TypeOK', TargetMiner(m)',
         \A n \in Workers \ {m} :
           /\ pc'[n] = pc[n] /\ fd'[n] = fd[n] /\ pos'[n] = pos[n]
           /\ intact'[n] = intact[n] /\ outcome'[n] = outcome[n]
  PROVE  TargetMove(m)
<1>1. At(Serials, path[m], TargetHeld(m)) /\ Kept(path[m])
  BY StillAt, TargetFacts
<1>2. \A p \in Serials : p \notin shared' => TargetWhole(p)'
  BY DEF TargetInv, TargetWhole, files, Target!Proven
<1>3. \A i \in Inodes : Len(disk'[i]) <= Chunks
  BY DEF TargetInv, files
<1> QED BY <1>1, <1>2, <1>3 DEF TargetMove

LEMMA TargetChecks ==
  ASSUME TargetInv, NEW m \in Workers, Target!CheckIdentity(m)
  PROVE  TargetMove(m)
<1>1. /\ pc[m] = "stream" /\ pos[m] = Chunks /\ Identity[recipe[m]] # "mismatch"
      /\ pc' = [pc EXCEPT ![m] = IF verify[m] THEN "verify" ELSE "replace"]
      /\ UNCHANGED <<final, part, disk, recipe, path, verify, fd, pos, intact, outcome, runs,
                     published, unchecked, shared, orphaned>>
  BY DEF Target!CheckIdentity, Target!Goto, Target!files, Target!released, Target!history
<1>2. Target!TypeOK /\ TargetMiner(m) /\ fd[m] # NoFile
  BY TargetFacts DEF TargetInv
<1>3. pc'[m] = (IF verify[m] THEN "verify" ELSE "replace") /\ \A n \in Workers \ {m} : pc'[n] = pc[n]
  BY <1>1, <1>2 DEF Target!TypeOK
<1>4. Target!TypeOK'
  BY <1>1, <1>2 DEF Target!TypeOK, Target!FilesTypeOK, Target!Stages
<1>5. TargetMiner(m)'
  BY <1>1, <1>2, <1>3 DEF TargetMiner, TargetRun, TargetBefore
<1> QED BY <1>1, <1>3, <1>4, <1>5, TargetStill DEF files

LEMMA TargetOpensBack ==
  ASSUME TargetInv, NEW m \in Workers, Target!OpenBack(m)
  PROVE  TargetMove(m)
<1>1. /\ pc[m] = "verify" /\ part[path[m]] # NoFile /\ fd' = [fd EXCEPT ![m] = part[path[m]]]
      /\ pos' = [pos EXCEPT ![m] = 0] /\ intact' = [intact EXCEPT ![m] = TRUE]
      /\ pc' = [pc EXCEPT ![m] = "readback"]
      /\ UNCHANGED <<final, part, disk, recipe, path, verify, outcome, runs,
                     published, unchecked, shared, orphaned>>
  BY DEF Target!OpenBack, Target!Goto, Target!files, Target!released, Target!history
<1>2. Target!TypeOK /\ TargetMiner(m) /\ path[m] \in Serials /\ OneName(Serials)
  BY TargetFacts DEF TargetInv
<1>3. /\ pc'[m] = "readback" /\ fd'[m] = part[path[m]] /\ pos'[m] = 0
      /\ \A n \in Workers \ {m} :
           pc'[n] = pc[n] /\ fd'[n] = fd[n] /\ pos'[n] = pos[n] /\ intact'[n] = intact[n]
  BY <1>1, <1>2 DEF Target!TypeOK
<1>4. Target!TypeOK'
  <2>1. part[path[m]] \in Inodes
    BY <1>1, <1>2 DEF Target!TypeOK, Target!FilesTypeOK
  <2> QED BY <1>1, <1>2, <2>1, TargetConstants DEF Target!TypeOK, Target!FilesTypeOK, Target!Stages
<1>5. TargetMiner(m)'
  BY <1>1, <1>2, <1>3 DEF TargetMiner, TargetRun, TargetBefore, Tied, OneName
<1> QED BY <1>1, <1>3, <1>4, <1>5, TargetStill DEF files

LEMMA TargetReads ==
  ASSUME TargetInv, NEW m \in Workers, Target!ReadBack(m)
  PROVE  TargetMove(m)
<1> DEFINE right == intact[m] /\ disk[fd[m]][pos[m] + 1] = recipe[m]
<1>1. /\ pc[m] = "readback" /\ pos[m] < Len(disk[fd[m]]) /\ pos' = [pos EXCEPT ![m] = @ + 1]
      /\ UNCHANGED <<final, part, disk, pc, recipe, path, verify, fd, outcome, runs,
                     published, unchecked, shared, orphaned>>
  BY DEF Target!ReadBack, Target!files, Target!released, Target!history
<1>2. /\ Target!TypeOK /\ TargetMiner(m) /\ pos[m] \in 0 .. Chunks
      /\ Len(disk[fd[m]]) \in Nat /\ Len(disk[fd[m]]) <= Chunks
  BY TargetFacts DEF TargetInv, Target!TypeOK, Target!FilesTypeOK
<1>3. pos'[m] = pos[m] + 1 /\ \A n \in Workers \ {m} : pos'[n] = pos[n]
  BY <1>1, <1>2 DEF Target!TypeOK
<1>4. intact' = [intact EXCEPT ![m] = right]
  BY <1>3, Zenon DEF Target!ReadBack
<1>5. right \in BOOLEAN
  BY Zenon
<1>6. (intact'[m] <=> right) /\ \A n \in Workers \ {m} : intact'[n] = intact[n]
  BY <1>2, <1>4, <1>5, Zenon DEF Target!TypeOK
<1>7. Target!TypeOK'
  <2>1. pos' \in [Workers -> 0 .. Chunks]
    BY <1>1, <1>2, TargetConstants DEF Target!TypeOK
  <2>2. intact' \in [Workers -> BOOLEAN]
    BY <1>2, <1>4, <1>5 DEF Target!TypeOK
  <2> QED BY <1>1, <1>2, <2>1, <2>2 DEF Target!TypeOK, Target!FilesTypeOK
<1>8. TargetMiner(m)'
  <2>1. intact'[m] => \A i \in 1 .. pos[m] + 1 :
          path[m] \notin shared => disk[fd[m]][i] = recipe[m]
    BY <1>1, <1>2, <1>6 DEF TargetMiner, TargetRun
  <2> QED BY <1>1, <1>2, <1>3, <2>1 DEF TargetMiner, TargetRun, TargetBefore, Tied
<1> QED BY <1>1, <1>3, <1>6, <1>7, <1>8, TargetStill DEF files

LEMMA TargetVerifies ==
  ASSUME TargetInv, NEW m \in Workers, Target!Verified(m)
  PROVE  TargetMove(m)
<1>1. /\ pc[m] = "readback" /\ Target!PostWriteOK(m) /\ pc' = [pc EXCEPT ![m] = "replace"]
      /\ UNCHANGED <<final, part, disk, recipe, path, verify, fd, pos, intact, outcome, runs,
                     published, unchecked, shared, orphaned>>
  BY DEF Target!Verified, Target!AtEnd, Target!Goto, Target!files, Target!released, Target!history
<1>2. Target!TypeOK /\ TargetMiner(m)
  BY TargetFacts DEF TargetInv
<1>3. pc'[m] = "replace" /\ \A n \in Workers \ {m} : pc'[n] = pc[n]
  BY <1>1, <1>2 DEF Target!TypeOK
<1>4. Target!TypeOK'
  BY <1>1, <1>2 DEF Target!TypeOK, Target!FilesTypeOK, Target!Stages
<1>5. TargetMiner(m)'
  BY <1>1, <1>2, <1>3 DEF TargetMiner, TargetRun, TargetBefore, Target!PostWriteOK
<1> QED BY <1>1, <1>3, <1>4, <1>5, TargetStill DEF files

LEMMA TargetUnwinds ==
  ASSUME TargetInv, NEW m \in Workers, pc[m] \notin {"idle", "cleanup"}, Target!Unwind(m)
  PROVE  TargetMove(m)
<1>1. /\ pc' = [pc EXCEPT ![m] = "cleanup"] /\ outcome' = [outcome EXCEPT ![m] = "failed"]
      /\ UNCHANGED <<final, part, disk, recipe, path, verify, fd, pos, intact, runs,
                     published, unchecked, shared, orphaned>>
  BY DEF Target!Unwind, Target!Goto, Target!files, Target!released, Target!history
<1>2. Target!TypeOK /\ TargetMiner(m)
  BY TargetFacts DEF TargetInv
<1>3. /\ pc'[m] = "cleanup" /\ outcome'[m] = "failed"
      /\ \A n \in Workers \ {m} : pc'[n] = pc[n] /\ outcome'[n] = outcome[n]
  BY <1>1, <1>2 DEF Target!TypeOK
<1>4. Target!TypeOK'
  BY <1>1, <1>2 DEF Target!TypeOK, Target!FilesTypeOK, Target!Stages
<1>5. TargetMiner(m)'
  BY <1>1, <1>2, <1>3 DEF TargetMiner, TargetRun, TargetBefore
<1> QED BY <1>1, <1>3, <1>4, <1>5, TargetStill DEF files

LEMMA TargetPublishes ==
  ASSUME TargetInv, NEW m \in Workers, Target!Publish(m)
  PROVE  TargetMove(m)
<1> PICK p \in Serials : p = path[m]
  BY TargetFacts
<1>1. /\ pc[m] = "replace" /\ Target!ReplacePart(p)
      /\ published' = [published EXCEPT ![p] = recipe[m]]
      /\ unchecked' = (IF verify[m] THEN unchecked \ {p} ELSE unchecked \cup {p})
      /\ outcome' = [outcome EXCEPT ![m] = "ok"] /\ pc' = [pc EXCEPT ![m] = "cleanup"]
      /\ UNCHANGED <<recipe, path, verify, fd, pos, intact, runs, shared, orphaned>>
  BY DEF Target!Publish, Target!Goto, Target!history
<1>2. Replaces(p)
  BY <1>1, TargetOperations
<1>3. /\ At(Serials, p, TargetHeld(m))
      /\ final'[p] = part[p] /\ part'[p] = NoFile /\ disk' = disk /\ part[p] \in Inodes
  <2>1. /\ Directory(Serials) /\ OneName(Serials) /\ NoFile \notin Inodes
        /\ TargetHeld(m) \in SUBSET Inodes
    BY TargetFacts
  <2> QED BY <1>2, <2>1, ReplacesAt
<1>4. Target!TypeOK /\ TargetMiner(m) /\ recipe[m] \in Recipes
  BY <1>1, TargetFacts DEF TargetInv, TargetMiner
<1>5. /\ pc'[m] = "cleanup" /\ outcome'[m] = "ok" /\ published'[p] = recipe[m]
      /\ \A n \in Workers \ {m} : pc'[n] = pc[n] /\ outcome'[n] = outcome[n]
      /\ \A q \in Serials \ {p} : published'[q] = published[q] /\ (q \in unchecked' <=> q \in unchecked)
  BY <1>1, <1>4 DEF Target!TypeOK
<1>6. Target!TypeOK'
  <2>1. Target!FilesTypeOK(Recipes \cup {UserFile})'
    BY <1>3, <1>4 DEF Target!TypeOK, Target!FilesTypeOK, At, Directory
  <2>2. /\ pc' \in [Workers -> Target!Stages] /\ published' \in [Serials -> Recipes \cup {Nobody}]
        /\ outcome' \in [Workers -> {"none", "running", "ok", "failed", "died"}]
        /\ unchecked' \in SUBSET Serials
    BY <1>1, <1>4 DEF Target!TypeOK, Target!Stages
  <2> QED BY <2>1, <2>2, <1>1, <1>4 DEF Target!TypeOK
<1>7. TargetMiner(m)'
  BY <1>1, <1>4, <1>5 DEF TargetMiner, TargetRun, TargetBefore
<1>8. p \notin shared => Kept(p) /\ TargetWhole(p)' /\ published[p] = Nobody
  <2> SUFFICES ASSUME p \notin shared
               PROVE  Kept(p) /\ TargetWhole(p)' /\ published[p] = Nobody
    OBVIOUS
  <2>1. /\ final[p] = NoFile /\ published[p] = Nobody /\ Filled(disk[part[p]], recipe[m], Chunks)
        /\ Identity[recipe[m]] # "mismatch"
        /\ verify[m] /\ Identity[recipe[m]] = "match" => \A i \in 1 .. Chunks : disk[part[p]][i] = recipe[m]
    BY <1>1, <1>4 DEF TargetMiner, TargetRun, TargetBefore
  <2>2. p \notin unchecked' => verify[m]
    BY <1>1
  <2>3. TargetWhole(p)'
    BY <2>1, <2>2, <1>3, <1>5, TargetFacts DEF TargetWhole, Target!Proven, Filled
  <2> QED BY <2>1, <2>3 DEF Kept
<1>9. \A j \in Inodes : Len(disk'[j]) <= Chunks
  BY <1>3 DEF TargetInv
<1> QED BY <1>1, <1>3, <1>5, <1>6, <1>7, <1>8, <1>9 DEF TargetMove

\* What the end of a run leaves of it.
LEMMA TargetLeaves ==
  ASSUME TargetInv, NEW m \in Workers, NEW how \in {"none", "running", "ok", "failed", "died"},
         Target!Leave(m, how), UNCHANGED <<runs, published, unchecked, shared>>,
         how = "ok" => outcome[m] = "ok",
         Target!FilesTypeOK(Recipes \cup {UserFile})', orphaned' \in SUBSET Serials
  PROVE  /\ Target!TypeOK' /\ TargetMiner(m)' /\ pc'[m] = "idle"
         /\ \A n \in Workers \ {m} :
              /\ pc'[n] = pc[n] /\ recipe'[n] = recipe[n] /\ path'[n] = path[n] /\ verify'[n] = verify[n]
              /\ fd'[n] = fd[n] /\ pos'[n] = pos[n] /\ intact'[n] = intact[n] /\ outcome'[n] = outcome[n]
<1>1. Target!TypeOK /\ TargetMiner(m)
  BY TargetFacts DEF TargetInv
<1>2. /\ pc' = [pc EXCEPT ![m] = "idle"] /\ outcome' = [outcome EXCEPT ![m] = how]
      /\ recipe' = [recipe EXCEPT ![m] = IF how = "ok" THEN @ ELSE Nobody]
      /\ path' = [path EXCEPT ![m] = IF how = "ok" THEN @ ELSE 1]
      /\ verify' = [verify EXCEPT ![m] = FALSE] /\ fd' = [fd EXCEPT ![m] = 1]
      /\ pos' = [pos EXCEPT ![m] = 0] /\ intact' = [intact EXCEPT ![m] = FALSE]
  BY DEF Target!Leave, Target!Goto
<1>3. Target!TypeOK'
  <2>1. /\ pc' \in [Workers -> Target!Stages] /\ recipe' \in [Workers -> Recipes \cup {Nobody}]
        /\ path' \in [Workers -> Serials] /\ fd' \in [Workers -> Inodes]
        /\ pos' \in [Workers -> 0 .. Chunks]
        /\ outcome' \in [Workers -> {"none", "running", "ok", "failed", "died"}]
    BY <1>1, <1>2, TargetConstants DEF Target!TypeOK, Target!Stages
  <2>2. verify' \in [Workers -> BOOLEAN] /\ intact' \in [Workers -> BOOLEAN]
    BY <1>1, <1>2 DEF Target!TypeOK
  <2> QED BY <1>1, <2>1, <2>2 DEF Target!TypeOK
<1>4. /\ pc'[m] = "idle" /\ outcome'[m] = how
      /\ how = "ok" => recipe'[m] = recipe[m] /\ path'[m] = path[m]
  BY <1>1, <1>2 DEF Target!TypeOK
<1>5. TargetMiner(m)'
  BY <1>1, <1>4 DEF TargetMiner, TargetRun, TargetBefore
<1>6. \A n \in Workers \ {m} :
        /\ pc'[n] = pc[n] /\ recipe'[n] = recipe[n] /\ path'[n] = path[n] /\ verify'[n] = verify[n]
        /\ fd'[n] = fd[n] /\ pos'[n] = pos[n] /\ intact'[n] = intact[n] /\ outcome'[n] = outcome[n]
  BY <1>1, <1>2 DEF Target!TypeOK
<1> QED BY <1>3, <1>4, <1>5, <1>6

LEMMA TargetCleans ==
  ASSUME TargetInv, NEW m \in Workers, Target!Cleanup(m)
  PROVE  TargetMove(m)
<1> PICK p \in Serials : p = path[m]
  BY TargetFacts
<1>1. /\ pc[m] = "cleanup" /\ Target!UnlinkPart(p, TargetHeld(m)) /\ Target!Leave(m, outcome[m])
      /\ UNCHANGED <<runs, published, unchecked, shared, orphaned>>
  BY DEF Target!Cleanup, Target!released, Target!history, TargetHeld
<1>2. Unlinks(p, TargetHeld(m))
  BY <1>1, TargetOperations
<1>3. /\ At(Serials, p, TargetHeld(m)) /\ Kept(p) /\ final' = final /\ part'[p] = NoFile
      /\ \A j \in Inodes : disk'[j] \in {disk[j], <<>>}
  <2>1. /\ Directory(Serials) /\ OneName(Serials) /\ NoFile \notin Inodes
        /\ TargetHeld(m) \in SUBSET Inodes
    BY TargetFacts
  <2> QED BY <1>2, <2>1, UnlinksAt
<1>4. Target!TypeOK
  BY DEF TargetInv
<1>5. Target!FilesTypeOK(Recipes \cup {UserFile})'
  <2>1. disk' \in [Inodes -> Seq(Recipes \cup {UserFile} \cup {Hole})]
    BY <1>2, <1>4 DEF Unlinks, Target!TypeOK, Target!FilesTypeOK
  <2> QED BY <2>1, <1>3 DEF Target!FilesTypeOK, At, Directory
<1>6. /\ Target!TypeOK' /\ TargetMiner(m)' /\ pc'[m] = "idle"
      /\ \A n \in Workers \ {m} :
           /\ pc'[n] = pc[n] /\ recipe'[n] = recipe[n] /\ path'[n] = path[n] /\ verify'[n] = verify[n]
           /\ fd'[n] = fd[n] /\ pos'[n] = pos[n] /\ intact'[n] = intact[n] /\ outcome'[n] = outcome[n]
  <2>1. outcome[m] \in {"none", "running", "ok", "failed", "died"} /\ orphaned' \in SUBSET Serials
    BY <1>1, <1>4 DEF Target!TypeOK
  <2> QED BY <2>1, <1>1, <1>5, TargetLeaves
<1>7. p \notin shared => TargetWhole(p)'
  BY <1>1, <1>3, TargetFacts DEF TargetWhole, Kept, Target!Proven
<1>8. \A j \in Inodes : Len(disk'[j]) <= Chunks
  BY <1>3, TargetConstants DEF TargetInv
<1> QED BY <1>1, <1>3, <1>6, <1>7, <1>8 DEF TargetMove

LEMMA TargetDies ==
  ASSUME TargetInv, NEW m \in Workers, Target!Die(m)
  PROVE  TargetMove(m)
<1>1. /\ pc[m] # "idle" /\ Target!Leave(m, "died") /\ orphaned' = orphaned \cup {path[m]}
      /\ UNCHANGED <<final, part, disk, runs, published, unchecked, shared>>
  BY DEF Target!Die, Target!released, Target!files
<1>2. /\ Target!TypeOK' /\ TargetMiner(m)' /\ pc'[m] = "idle"
      /\ \A n \in Workers \ {m} :
           /\ pc'[n] = pc[n] /\ recipe'[n] = recipe[n] /\ path'[n] = path[n] /\ verify'[n] = verify[n]
           /\ fd'[n] = fd[n] /\ pos'[n] = pos[n] /\ intact'[n] = intact[n] /\ outcome'[n] = outcome[n]
  <2>1. Target!FilesTypeOK(Recipes \cup {UserFile})' /\ orphaned' \in SUBSET Serials
    BY <1>1, TargetFacts DEF TargetInv, Target!TypeOK, Target!FilesTypeOK
  <2> QED BY <2>1, <1>1, TargetLeaves
<1>3. At(Serials, path[m], TargetHeld(m)) /\ Kept(path[m])
  BY <1>1, StillAt, TargetFacts DEF files
<1>4. \A p \in Serials : p \notin shared' => TargetWhole(p)'
  BY <1>1 DEF TargetInv, TargetWhole, Target!Proven
<1>5. \A j \in Inodes : Len(disk'[j]) <= Chunks
  BY <1>1 DEF TargetInv
<1> QED BY <1>1, <1>2, <1>3, <1>4, <1>5 DEF TargetMove

----------------------------------------------------------------------------
(* Recipes.                                                                *)

Exts == {"bnp", "bnpm", "bnp2"}
RecipePaths == Serials \X Exts

\* The extensions a build has published, as long as nothing made it raise.
Done(w) ==
  (IF queue[w] = <<"bnpm">> THEN {"bnp"} ELSE {})
    \cup (IF pc[w] \in {"unlink", "verify"} THEN {Head(queue[w])} ELSE {})

\* What a build that has its base to itself has made of it.
RecipeRun(w) ==
  LET p == Recipe!Target(w) IN
  /\ pc[w] \in {"open", "write", "replace", "unlink", "verify"} =>
       \A ext \in Exts :
         IF ext \in Done(w) THEN published[<<path[w], ext>>] = Recipe!Build(w)
         ELSE published[<<path[w], ext>>] = Nobody /\ final[<<path[w], ext>>] = NoFile
  /\ pc[w] = "write" => part[p] = fd[w] /\ Filled(disk[fd[w]], Recipe!Build(w), pos[w])
  /\ pc[w] = "replace" => part[p] # NoFile /\ Filled(disk[part[p]], Recipe!Build(w), Chunks)
  /\ pc[w] \in {"unlink", "verify"} =>
       final[p] # NoFile /\ Filled(disk[final[p]], Recipe!Build(w), Chunks)

\* Recipe!SuccessIsComplete, of one build.
Complete(w) ==
  \/ /\ \A ext \in {"bnp", "bnpm"} : published[<<path[w], ext>>] = Recipe!Build(w)
     /\ disk[final[<<path[w], "bnpm">>]] = Recipe!Whole(Recipe!Build(w))
  \/ /\ published[<<path[w], "bnp2">>] = Recipe!Build(w)
     /\ disk[final[<<path[w], "bnp2">>]] = Recipe!Whole(Recipe!Build(w))

RecipeBuilder(w) ==
  /\ pc[w] # "idle" => outcome[w] = "running" /\ queue[w] # <<>> /\ runs[w] # 0
  /\ outcome[w] = "ok" => runs[w] # 0
  /\ pc[w] = "write" => pos[w] < Chunks /\ Tied(RecipePaths, fd[w], Recipe!Target(w))
  /\ pc[w] = "verify" => queue[w] # <<"bnp", "bnpm">>
  /\ path[w] \notin shared => RecipeRun(w) /\ (outcome[w] = "ok" => Complete(w))

\* Recipe!BaseIsOneBuild, of one base; what is published is there.
RecipeBase(b) ==
  /\ \A x, y \in Exts :
       Nobody \notin {published[<<b, x>>], published[<<b, y>>]} =>
         published[<<b, x>>] = published[<<b, y>>]
  /\ published[<<b, "bnpm">>] # Nobody => published[<<b, "bnp">>] = published[<<b, "bnpm">>]
  /\ \A ext \in Exts : published[<<b, ext>>] # Nobody => final[<<b, ext>>] # NoFile

\* A `.part` is that of a build that will yet remove or rename it, or was killed.
RecipeParts ==
  \A p \in RecipePaths : part[p] # NoFile =>
    \/ p[1] \in orphaned
    \/ \E w \in Workers : pc[w] \notin {"idle", "verify"} /\ Recipe!Target(w) = p

RecipeInv ==
  /\ Recipe!TypeOK /\ RecipeParts /\ OneName(RecipePaths)
  /\ \A b \in Serials \ shared : RecipeBase(b)
  /\ \A w \in Workers : RecipeBuilder(w)
  /\ Apart

RecipeHeld(w) == Recipe!HeldBy(Workers \ {w})

RecipeMove(w) ==
  /\ Recipe!TypeOK' /\ At(RecipePaths, Recipe!Target(w), RecipeHeld(w))
  /\ RecipeBuilder(w)'
  /\ path[w] \notin shared => \A ext \in Exts : Kept(<<path[w], ext>>)
  /\ \A b \in Serials : b = path[w] /\ b \notin shared' =>
       /\ RecipeBase(b)'
       /\ \A ext \in Exts : published[<<b, ext>>] \in {published'[<<b, ext>>], Nobody}
  /\ \A n \in Workers \ {w} :
       /\ pc'[n] = pc[n] /\ path'[n] = path[n] /\ queue'[n] = queue[n] /\ fd'[n] = fd[n]
       /\ pos'[n] = pos[n] /\ outcome'[n] = outcome[n] /\ runs'[n] = runs[n]
  /\ \A p \in RecipePaths : p[1] # path[w] => published'[p] = published[p]
  /\ shared \subseteq shared' /\ orphaned \subseteq orphaned'
  /\ \/ /\ pc[w] = "idle" /\ UNCHANGED <<files, published, orphaned>>
        /\ \A n \in Workers \ {w} :
             pc[n] # "idle" /\ path[n] = path'[w] => path'[w] \in shared'
     \/ /\ pc[w] # "idle" /\ shared' = shared
        /\ pc'[w] # "idle" => path'[w] = path[w]
        /\ \/ pc'[w] \notin {"idle", "verify"} /\ Recipe!Target(w)' = Recipe!Target(w)
           \/ path[w] \in orphaned' \/ part'[Recipe!Target(w)] = NoFile
           \/ pc[w] = "verify" /\ UNCHANGED part

LEMMA RecipeConstants ==
  /\ Recipe!BuildIds = Workers \X (1 .. MaxRuns)
  /\ Chunks \in Nat \ {0} /\ MaxRuns \in Nat \ {0} /\ Serials \subseteq Nat /\ 1 \in Serials
  /\ 1 \in Inodes /\ NoFile \notin Inodes
  /\ Hole \notin Recipe!BuildIds /\ Nobody \notin Recipe!BuildIds
<1>1. Recipe!SaveAssumption
  BY PublicationAssumption DEF PublicationAssumption
<1>2. Hole \notin Recipe!BuildIds /\ Nobody \notin Recipe!BuildIds
  BY <1>1, Zenon DEF Recipe!SaveAssumption
<1> QED BY <1>2, TargetConstants DEF Recipe!BuildIds

\* The plans of a build.
Plans == {<<>>, <<"bnp", "bnpm">>, <<"bnpm">>, <<"bnp2">>}

LEMMA PlansAre ==
  /\ Head(<<"bnp", "bnpm">>) = "bnp" /\ Tail(<<"bnp", "bnpm">>) = <<"bnpm">>
  /\ Head(<<"bnpm">>) = "bnpm" /\ Head(<<"bnp2">>) = "bnp2"
  /\ <<"bnpm">> # <<"bnp2">> /\ <<"bnpm">> # <<"bnp", "bnpm">> /\ <<"bnp2">> # <<"bnp", "bnpm">>
  /\ <<"bnpm">> # <<>> /\ <<"bnp2">> # <<>> /\ <<"bnp", "bnpm">> # <<>>
OBVIOUS

LEMMA RecipeOperations ==
  ASSUME NEW p, NEW i, NEW h, NEW o, NEW v
  PROVE  /\ Recipe!OpenPart(p, i, h) => Opens(RecipePaths, p, i, h)
         /\ Recipe!WriteChunk(i, o, v) => Writes(i, Target!PutChunk(disk[i], o, v))
         /\ Recipe!ReplacePart(p) => Replaces(p)
         /\ Recipe!UnlinkPart(p, h) => Unlinks(p, h)
<1>1. Recipe!OpenPart(p, i, h) => Opens(RecipePaths, p, i, h)
  BY DEF Recipe!OpenPart, Recipe!Named, Opens, RecipePaths, Exts
<1>2. Recipe!WriteChunk(i, o, v) => Writes(i, Target!PutChunk(disk[i], o, v))
  BY DEF Recipe!WriteChunk, Writes, Recipe!PutChunk, Target!PutChunk
<1>3. Recipe!ReplacePart(p) => Replaces(p)
  BY DEF Recipe!ReplacePart, Replaces
<1>4. Recipe!UnlinkPart(p, h) => Unlinks(p, h)
  BY DEF Recipe!UnlinkPart, Unlinks
<1> QED BY <1>1, <1>2, <1>3, <1>4

\* What every step of w may use of the invariant.
LEMMA RecipeFacts ==
  ASSUME RecipeInv, NEW w \in Workers
  PROVE  /\ Directory(RecipePaths) /\ OneName(RecipePaths) /\ NoFile \notin Inodes
         /\ path[w] \in Serials /\ fd[w] \in Inodes /\ pos[w] \in 0 .. Chunks
         /\ RecipeHeld(w) \in SUBSET Inodes /\ RecipeBuilder(w)
         /\ path[w] \notin shared => RecipeBase(path[w])
         /\ queue[w] \in Plans
         /\ pc[w] # "idle" => Recipe!Target(w) \in RecipePaths /\ Recipe!Build(w) \in Recipe!BuildIds
<1>1. /\ Recipe!TypeOK /\ OneName(RecipePaths) /\ RecipeBuilder(w)
      /\ path[w] \notin shared => RecipeBase(path[w])
  BY DEF RecipeInv, Recipe!TypeOK
<1>2. Directory(RecipePaths)
  BY <1>1 DEF Recipe!TypeOK, Recipe!FilesTypeOK, Directory, RecipePaths, Exts
<1>3. /\ path[w] \in Serials /\ fd[w] \in Inodes /\ pos[w] \in 0 .. Chunks
      /\ RecipeHeld(w) \in SUBSET Inodes /\ queue[w] \in Plans /\ runs[w] \in 0 .. MaxRuns
  BY <1>1 DEF Recipe!TypeOK, RecipeHeld, Recipe!HeldBy, Plans
<1>4. pc[w] # "idle" => Recipe!Target(w) \in RecipePaths /\ Recipe!Build(w) \in Recipe!BuildIds
  <2> SUFFICES ASSUME pc[w] # "idle"
               PROVE  Recipe!Target(w) \in RecipePaths /\ Recipe!Build(w) \in Recipe!BuildIds
    OBVIOUS
  <2>1. queue[w] # <<>> /\ runs[w] # 0
    BY <1>1 DEF RecipeBuilder
  <2>2. Head(queue[w]) \in Exts
    BY <2>1, <1>3, PlansAre DEF Plans, Exts
  <2>3. runs[w] \in 1 .. MaxRuns
    BY <2>1, <1>3, RecipeConstants
  <2> QED BY <2>2, <2>3, <1>3 DEF Recipe!Target, Recipe!Build, Recipe!BuildIds, RecipePaths
<1> QED BY <1>1, <1>2, <1>3, <1>4, RecipeConstants

\* The step of one build keeps the invariant of all.
LEMMA RecipeMoves ==
  ASSUME RecipeInv, NEW w \in Workers, RecipeMove(w)
  PROVE  RecipeInv' /\ Recipe!KeepsPublished
<1> DEFINE t == Recipe!Target(w)
<1>1. /\ path[w] \in Serials /\ path \in [Workers -> Serials] /\ path' \in [Workers -> Serials]
      /\ fd \in [Workers -> Inodes] /\ runs \in [Workers -> 0 .. MaxRuns]
      /\ Recipe!TypeOK' /\ OneName(RecipePaths)'
  BY DEF RecipeInv, RecipeMove, Recipe!TypeOK, At
<1>2. \A q \in RecipePaths : q # t => Untouched(q)
  BY DEF RecipeMove, At
<1>3. \A b \in Serials : b # path[w] =>
        \A ext \in Exts : Untouched(<<b, ext>>) /\ published'[<<b, ext>>] = published[<<b, ext>>]
  <2> SUFFICES ASSUME NEW b \in Serials, b # path[w], NEW ext \in Exts
               PROVE  Untouched(<<b, ext>>) /\ published'[<<b, ext>>] = published[<<b, ext>>]
    OBVIOUS
  <2>1. <<b, ext>> \in RecipePaths /\ <<b, ext>> # t
    BY DEF RecipePaths, Recipe!Target
  <2> QED BY <2>1, <1>2 DEF RecipeMove
<1>4. \A b \in Serials \ shared' : RecipeBase(b)'
  <2> SUFFICES ASSUME NEW b \in Serials, b \notin shared'
               PROVE  RecipeBase(b)'
    OBVIOUS
  <2>1. CASE b = path[w]
    BY <2>1 DEF RecipeMove
  <2>2. CASE b # path[w]
    <3>1. RecipeBase(b)
      BY DEF RecipeInv, RecipeMove
    <3>2. \A ext \in Exts :
            final'[<<b, ext>>] = final[<<b, ext>>] /\ published'[<<b, ext>>] = published[<<b, ext>>]
      BY <2>2, <1>3 DEF Untouched
    <3> QED BY <3>1, <3>2 DEF RecipeBase, Exts
  <2> QED BY <2>1, <2>2
<1>5. ASSUME NEW n \in Workers \ {w}
      PROVE  RecipeBuilder(n)'
  <2>1. /\ pc'[n] = pc[n] /\ path'[n] = path[n] /\ queue'[n] = queue[n] /\ fd'[n] = fd[n]
        /\ pos'[n] = pos[n] /\ outcome'[n] = outcome[n] /\ runs'[n] = runs[n]
        /\ shared \subseteq shared' /\ RecipeBuilder(n)
    BY DEF RecipeInv, RecipeMove
  <2>2. /\ Recipe!Target(n)' = Recipe!Target(n) /\ Recipe!Build(n)' = Recipe!Build(n)
        /\ Done(n)' = Done(n)
    BY <2>1 DEF Recipe!Target, Recipe!Build, Done
  <2>3. pc[n] = "write" => Tied(RecipePaths, fd[n], Recipe!Target(n))'
    <3> SUFFICES ASSUME pc[n] = "write"
                 PROVE  Tied(RecipePaths, fd[n], Recipe!Target(n))'
      OBVIOUS
    <3>1. /\ fd[n] \in RecipeHeld(w) /\ Recipe!Target(n) \in RecipePaths
          /\ Tied(RecipePaths, fd[n], Recipe!Target(n))
      BY <2>1, RecipeFacts DEF RecipeHeld, Recipe!HeldBy, RecipeBuilder
    <3>2. \A i \in RecipeHeld(w), q \in RecipePaths :
            Tied(RecipePaths, i, q) => Tied(RecipePaths, i, q)'
      BY DEF RecipeMove, At
    <3> PICK i \in RecipeHeld(w), q \in RecipePaths : i = fd[n] /\ q = Recipe!Target(n)
      BY <3>1
    <3>3. Tied(RecipePaths, i, q)'
      BY <3>1, <3>2
    <3> QED BY <3>3, <2>1, <2>2 DEF Tied
  <2>4. ASSUME path[n] \notin shared', pc[n] # "idle"
        PROVE  \A ext \in Exts :
                 Untouched(<<path[n], ext>>) /\ published'[<<path[n], ext>>] = published[<<path[n], ext>>]
    <3>1. CASE pc[w] = "idle"
      BY <3>1 DEF RecipeMove, Untouched, files
    <3>2. CASE pc[w] # "idle"
      <4>1. path[n] # path[w]
        BY <2>1, <2>4, <3>2 DEF RecipeInv, Apart
      <4> QED BY <4>1, <1>1, <1>3
    <3> QED BY <3>1, <3>2
  <2>5. ASSUME path[n] \notin shared'
        PROVE  RecipeRun(n)'
    <3>1. CASE pc[n] = "idle"
      BY <3>1, <2>1 DEF RecipeRun
    <3>2. CASE pc[n] # "idle"
      <4>1. RecipeRun(n) /\ fd[n] # NoFile
        BY <2>1, <2>5, RecipeFacts DEF RecipeBuilder
      <4> PICK q \in RecipePaths : q = Recipe!Target(n)
        BY <3>2, RecipeFacts
      <4>2. Head(queue[n]) \in Exts /\ q = <<path[n], Head(queue[n])>>
        BY DEF RecipePaths, Recipe!Target
      <4>3. Untouched(q)
        BY <4>2, <2>4, <2>5, <3>2
      <4>4. \A ext \in Exts :
              /\ final'[<<path[n], ext>>] = final[<<path[n], ext>>]
              /\ published'[<<path[n], ext>>] = published[<<path[n], ext>>]
        BY <2>4, <2>5, <3>2 DEF Untouched
      <4> QED BY <2>1, <2>2, <4>1, <4>3, <4>4 DEF RecipeRun, Untouched
    <3> QED BY <3>1, <3>2
  <2>6. ASSUME path[n] \notin shared', outcome[n] = "ok"
        PROVE  Complete(n)'
    <3> DEFINE b == path[n]
    <3>1. Complete(n) /\ Recipe!Build(n) # Nobody
      <4>1. runs[n] \in 1 .. MaxRuns
        BY <1>1, <2>1, <2>6, RecipeConstants DEF RecipeBuilder
      <4>2. Recipe!Build(n) \in Recipe!BuildIds
        BY <4>1 DEF Recipe!Build, Recipe!BuildIds
      <4> QED BY <4>2, <2>1, <2>6, RecipeConstants DEF RecipeBuilder
    <3>2. \A ext \in Exts : published[<<b, ext>>] # Nobody =>
            published'[<<b, ext>>] = published[<<b, ext>>] /\ final[<<b, ext>>] # NoFile /\ Kept(<<b, ext>>)
      <4>1. RecipeBase(b) /\ b \in Serials
        BY <1>1, <2>1, <2>6 DEF RecipeInv
      <4>2. CASE b = path[w]
        BY <4>1, <4>2, <2>1, <2>6 DEF RecipeMove, RecipeBase
      <4>3. CASE b # path[w]
        BY <4>1, <4>3, <1>3 DEF RecipeBase, Untouched, Kept
      <4> QED BY <4>2, <4>3
    <3> QED BY <3>1, <3>2, <2>1, <2>2 DEF Complete, Kept, Exts, Recipe!Whole
  <2> QED BY <2>1, <2>3, <2>5, <2>6 DEF RecipeBuilder
<1>6. RecipeParts'
  <2> SUFFICES ASSUME NEW q \in RecipePaths, part'[q] # NoFile
               PROVE  \/ q[1] \in orphaned'
                      \/ \E n \in Workers : pc'[n] \notin {"idle", "verify"} /\ Recipe!Target(n)' = q
    BY DEF RecipeParts
  <2>1. /\ orphaned \subseteq orphaned'
        /\ \A n \in Workers \ {w} : pc'[n] = pc[n] /\ Recipe!Target(n)' = Recipe!Target(n)
    BY DEF RecipeMove, Recipe!Target
  <2>2. t[1] = path[w]
    BY DEF Recipe!Target
  <2>3. CASE q = t /\ pc[w] \notin {"idle", "verify"}
    BY <2>2, <2>3 DEF RecipeMove
  <2>4. CASE q # t \/ pc[w] \in {"idle", "verify"}
    <3>1. \/ part[q] # NoFile \/ q[1] \in orphaned'
          \/ pc'[w] \notin {"idle", "verify"} /\ Recipe!Target(w)' = q
      <4>1. CASE q # t
        BY <4>1, <1>2 DEF Untouched
      <4>2. CASE q = t /\ pc[w] = "idle"
        BY <4>2 DEF RecipeMove, files
      <4>3. CASE q = t /\ pc[w] = "verify"
        <5> HIDE DEF t
        <5>1. \/ pc'[w] \notin {"idle", "verify"} /\ Recipe!Target(w)' = t
              \/ path[w] \in orphaned' \/ part'[t] = NoFile \/ UNCHANGED part
          BY <4>3 DEF RecipeMove, t
        <5> QED BY <5>1, <4>3, <2>2
      <4> QED BY <4>1, <4>2, <4>3, <2>4
    <3>2. CASE part[q] # NoFile
      <4>1. q[1] \in orphaned \/ \E n \in Workers : pc[n] \notin {"idle", "verify"} /\ Recipe!Target(n) = q
        BY <3>2 DEF RecipeInv, RecipeParts
      <4> QED BY <4>1, <2>1, <2>4
    <3> QED BY <3>1, <3>2
  <2> QED BY <2>3, <2>4
<1>7. Apart'
  <2> SUFFICES ASSUME NEW k \in Workers, NEW n \in Workers, k # n, k # w,
                      pc'[k] # "idle", pc'[n] # "idle", path'[k] = path'[n]
               PROVE  path'[k] \in shared'
    BY DEF Apart
  <2>1. /\ pc'[k] = pc[k] /\ path'[k] = path[k] /\ shared \subseteq shared'
        /\ n # w => pc'[n] = pc[n] /\ path'[n] = path[n]
    BY DEF RecipeMove
  <2>2. CASE n # w \/ pc[w] # "idle"
    <3>1. pc[n] # "idle" /\ path'[n] = path[n]
      BY <2>1, <2>2 DEF RecipeMove
    <3> QED BY <2>1, <3>1 DEF RecipeInv, Apart
  <2>3. CASE n = w /\ pc[w] = "idle"
    BY <2>1, <2>3 DEF RecipeMove
  <2> QED BY <2>2, <2>3
<1>8. Recipe!KeepsPublished
  <2> SUFFICES ASSUME NEW q \in RecipePaths, q[1] \notin shared
               PROVE  Kept(q)
    BY DEF Recipe!KeepsPublished, Kept, RecipePaths, Exts
  <2>1. q = <<q[1], q[2]>> /\ q[1] \in Serials /\ q[2] \in Exts
    BY DEF RecipePaths
  <2>2. CASE q[1] = path[w]
    <3>1. \A ext \in Exts : Kept(<<path[w], ext>>)
      BY <2>2 DEF RecipeMove
    <3> QED BY <3>1, <2>1, <2>2 DEF Kept
  <2>3. CASE q[1] # path[w]
    <3>1. Untouched(<<q[1], q[2]>>)
      BY <2>1, <2>3, <1>3
    <3> QED BY <3>1, <2>1 DEF Untouched, Kept
  <2> QED BY <2>2, <2>3
<1>9. \A n \in Workers : RecipeBuilder(n)'
  BY <1>5 DEF RecipeMove
<1> QED BY <1>1, <1>4, <1>6, <1>7, <1>8, <1>9 DEF RecipeInv

LEMMA RecipeResolves ==
  ASSUME RecipeInv, NEW w \in Workers, Recipe!Resolve(w)
  PROVE  RecipeMove(w)
<1>1. PICK b \in Serials, plan \in {<<"bnp", "bnpm">>, <<"bnp2">>} :
        /\ Recipe!BaseFree(b)
        /\ path' = [path EXCEPT ![w] = b] /\ queue' = [queue EXCEPT ![w] = plan]
        /\ shared' = IF \E n \in Workers \ {w} : pc[n] # "idle" /\ path[n] = b
                       THEN shared \cup {b} ELSE shared
  BY Zenon DEF Recipe!Resolve
<1>2. /\ pc[w] = "idle" /\ runs[w] < MaxRuns /\ runs' = [runs EXCEPT ![w] = @ + 1]
      /\ outcome' = [outcome EXCEPT ![w] = "running"] /\ pc' = [pc EXCEPT ![w] = "open"]
      /\ UNCHANGED <<final, part, disk, fd, pos, published, orphaned>>
  BY DEF Recipe!Resolve, Recipe!Goto, Recipe!files
<1>3. Recipe!TypeOK /\ runs[w] \in 0 .. MaxRuns
  BY DEF RecipeInv, Recipe!TypeOK
<1>4. /\ pc'[w] = "open" /\ path'[w] = b /\ queue'[w] = plan /\ outcome'[w] = "running"
      /\ runs'[w] = runs[w] + 1 /\ shared \subseteq shared'
      /\ \A n \in Workers \ {w} :
           /\ pc'[n] = pc[n] /\ path'[n] = path[n] /\ queue'[n] = queue[n] /\ fd'[n] = fd[n]
           /\ pos'[n] = pos[n] /\ outcome'[n] = outcome[n] /\ runs'[n] = runs[n]
  BY <1>1, <1>2, <1>3 DEF Recipe!TypeOK
<1>5. Recipe!TypeOK'
  <2>1. /\ pc' \in [Workers -> Recipe!Stages] /\ path' \in [Workers -> Serials]
        /\ runs' \in [Workers -> 0 .. MaxRuns] /\ shared' \subseteq Serials
        /\ outcome' \in [Workers -> {"none", "running", "ok", "failed", "died"}]
    BY <1>1, <1>2, <1>3, RecipeConstants DEF Recipe!TypeOK, Recipe!Stages
  <2>2. queue' \in [Workers -> {<<>>, <<"bnp", "bnpm">>, <<"bnpm">>, <<"bnp2">>}]
    BY <1>1, <1>3 DEF Recipe!TypeOK
  <2> QED BY <1>2, <1>3, <2>1, <2>2 DEF Recipe!TypeOK, Recipe!FilesTypeOK
<1>6. At(RecipePaths, Recipe!Target(w), RecipeHeld(w)) /\ \A ext \in Exts : Kept(<<path[w], ext>>)
  BY <1>2, StillAt, RecipeFacts DEF files, Kept
<1>7. \A c \in Serials : c \notin shared' =>
        RecipeBase(c)' /\ \A ext \in Exts : published'[<<c, ext>>] = published[<<c, ext>>]
  BY <1>2, <1>4 DEF RecipeInv, RecipeBase
<1>8. b \notin shared' => \A ext \in Exts : published[<<b, ext>>] = Nobody /\ final[<<b, ext>>] = NoFile
  BY <1>1, <1>4 DEF Recipe!BaseFree, RecipeInv, RecipeBase, Exts
<1>9. RecipeBuilder(w)'
  <2>1. plan # <<>> /\ plan # <<"bnpm">> /\ runs'[w] # 0
    BY <1>3, <1>4, PlansAre, RecipeConstants
  <2>2. Done(w)' = {}
    BY <1>4, <2>1 DEF Done
  <2> QED BY <1>2, <1>4, <1>8, <2>1, <2>2 DEF RecipeBuilder, RecipeRun
<1>10. \A n \in Workers \ {w} : pc[n] # "idle" /\ path[n] = path'[w] => path'[w] \in shared'
  BY <1>1, <1>4
<1> QED BY <1>2, <1>4, <1>5, <1>6, <1>7, <1>9, <1>10 DEF RecipeMove, files

LEMMA RecipeOpens ==
  ASSUME RecipeInv, NEW w \in Workers, Recipe!Open(w)
  PROVE  RecipeMove(w)
<1>1. /\ pc[w] = "open" /\ pos' = [pos EXCEPT ![w] = 0] /\ pc' = [pc EXCEPT ![w] = "write"]
      /\ UNCHANGED <<path, queue, outcome, runs, published, shared, orphaned>>
  BY DEF Recipe!Open, Recipe!Goto, Recipe!history
<1> PICK p \in RecipePaths : p = Recipe!Target(w)
  BY <1>1, RecipeFacts
<1>2. PICK i \in Inodes : Recipe!OpenPart(p, i, RecipeHeld(w)) /\ fd' = [fd EXCEPT ![w] = i]
  BY DEF Recipe!Open, RecipeHeld
<1>3. Opens(RecipePaths, p, i, RecipeHeld(w)) /\ final' = final
  BY <1>2, RecipeOperations DEF Opens
<1>4. /\ At(RecipePaths, p, RecipeHeld(w)) /\ Kept(p)
      /\ part'[p] = i /\ disk'[i] = <<>> /\ Tied(RecipePaths, i, p)'
  <2>1. /\ Directory(RecipePaths) /\ OneName(RecipePaths) /\ NoFile \notin Inodes
        /\ RecipeHeld(w) \in SUBSET Inodes
    BY RecipeFacts
  <2> QED BY <1>3, <2>1, OpensAt
<1>5. Recipe!TypeOK /\ RecipeBuilder(w)
  BY RecipeFacts DEF RecipeInv
<1>6. Recipe!TypeOK'
  <2>1. disk' \in [Inodes -> Seq(Recipe!BuildIds \cup {Hole})]
    BY <1>3, <1>5 DEF Opens, Recipe!TypeOK, Recipe!FilesTypeOK
  <2>2. Recipe!FilesTypeOK(Recipe!BuildIds)'
    BY <2>1, <1>4 DEF Recipe!FilesTypeOK, At, Directory, RecipePaths, Exts
  <2>3. pos' \in [Workers -> 0 .. Chunks] /\ fd' \in [Workers -> Inodes] /\ pc' \in [Workers -> Recipe!Stages]
    BY <1>1, <1>2, <1>5, RecipeConstants DEF Recipe!TypeOK, Recipe!Stages
  <2> QED BY <1>1, <1>5, <2>2, <2>3 DEF Recipe!TypeOK
<1>7. /\ pc'[w] = "write" /\ fd'[w] = i /\ pos'[w] = 0
      /\ \A n \in Workers \ {w} : pc'[n] = pc[n] /\ fd'[n] = fd[n] /\ pos'[n] = pos[n]
  BY <1>1, <1>2, <1>5 DEF Recipe!TypeOK
<1>8. Recipe!Target(w)' = p /\ Recipe!Build(w)' = Recipe!Build(w) /\ Done(w)' = Done(w)
  BY <1>1, <1>7 DEF Recipe!Target, Recipe!Build, Done
<1>9. RecipeBuilder(w)'
  <2>1. Tied(RecipePaths, fd[w], Recipe!Target(w))'
    BY <1>4, <1>7, <1>8 DEF Tied
  <2>2. path[w] \notin shared => RecipeRun(w)'
    BY <1>1, <1>3, <1>4, <1>5, <1>7, <1>8 DEF RecipeBuilder, RecipeRun, Filled
  <2> QED BY <1>1, <1>5, <1>7, <2>1, <2>2, RecipeConstants DEF RecipeBuilder
<1>10. path[w] \notin shared => \A ext \in Exts : Kept(<<path[w], ext>>)
  <2>1. \A ext \in Exts : <<path[w], ext>> \in RecipePaths
    BY RecipeFacts DEF RecipePaths
  <2> QED BY <2>1, <1>4 DEF At, Untouched, Kept
<1>11. \A b \in Serials : b \notin shared' => RecipeBase(b)'
  BY <1>1, <1>3 DEF RecipeInv, RecipeBase
<1> QED BY <1>1, <1>4, <1>6, <1>7, <1>8, <1>9, <1>10, <1>11 DEF RecipeMove

LEMMA RecipeWrites ==
  ASSUME RecipeInv, NEW w \in Workers, Recipe!WriteOne(w)
  PROVE  RecipeMove(w)
<1>1. /\ pc[w] = "write" /\ pos[w] < Chunks /\ pos' = [pos EXCEPT ![w] = @ + 1]
      /\ pc' = [pc EXCEPT ![w] = IF pos'[w] < Chunks THEN "write" ELSE "replace"]
      /\ UNCHANGED <<path, queue, fd, outcome, runs, published, shared, orphaned>>
  BY DEF Recipe!WriteOne, Recipe!Goto, Recipe!history
<1> PICK p \in RecipePaths : p = Recipe!Target(w)
  BY <1>1, RecipeFacts
<1> PICK i \in Inodes : i = fd[w]
  BY RecipeFacts
<1> DEFINE S == Recipe!BuildIds \cup {Hole}
<1>2. PICK v \in {Recipe!Build(w), Hole} : Recipe!WriteChunk(i, pos[w] + 1, v)
  BY DEF Recipe!WriteOne
<1> PICK t : t = Target!PutChunk(disk[i], pos[w] + 1, v)
  OBVIOUS
<1>3. Writes(i, t)
  BY <1>2, RecipeOperations DEF Writes
<1>4. /\ Recipe!TypeOK /\ RecipeBuilder(w) /\ Tied(RecipePaths, i, p) /\ pos[w] \in Nat
      /\ Recipe!Build(w) \in S
  BY <1>1, RecipeFacts, RecipeConstants DEF RecipeInv, RecipeBuilder
<1>5. disk[i] \in Seq(S) /\ v \in S
  BY <1>4 DEF Recipe!TypeOK, Recipe!FilesTypeOK
<1>6. t \in Seq(S)
  <2>1. pos[w] + 1 \in Nat \ {0} /\ Hole \in S
    BY <1>4
  <2> HIDE DEF S
  <2> QED BY <2>1, <1>5, PutChunkIs
<1>7. path[w] \notin shared =>
        /\ part[p] = i /\ Filled(t, Recipe!Build(w), pos[w] + 1)
        /\ \A ext \in Exts :
             IF ext \in Done(w) THEN published[<<path[w], ext>>] = Recipe!Build(w)
             ELSE published[<<path[w], ext>>] = Nobody /\ final[<<path[w], ext>>] = NoFile
  <2>1. path[w] \notin shared =>
          /\ part[p] = i /\ Filled(disk[i], Recipe!Build(w), pos[w])
          /\ \A ext \in Exts :
               IF ext \in Done(w) THEN published[<<path[w], ext>>] = Recipe!Build(w)
               ELSE published[<<path[w], ext>>] = Nobody /\ final[<<path[w], ext>>] = NoFile
    BY <1>1, <1>4 DEF RecipeBuilder, RecipeRun
  <2>2. Hole \in S
    OBVIOUS
  <2> HIDE DEF S
  <2> QED BY <2>1, <2>2, <1>4, <1>5, FilledGrows
<1>8. At(RecipePaths, p, RecipeHeld(w))
  <2>1. Directory(RecipePaths) /\ OneName(RecipePaths) /\ RecipeHeld(w) \in SUBSET Inodes
    BY RecipeFacts
  <2> HIDE DEF S
  <2> QED BY <2>1, <1>3, <1>4, WritesAt
<1>9. /\ final' = final /\ part' = part /\ disk'[i] = t
      /\ \A j \in Inodes \ {i} : disk'[j] = disk[j]
  BY <1>3, RecipeFacts DEF Writes, Directory
<1>10. /\ pos'[w] = pos[w] + 1 /\ pc'[w] = (IF pos[w] + 1 < Chunks THEN "write" ELSE "replace")
       /\ \A n \in Workers \ {w} : pc'[n] = pc[n] /\ pos'[n] = pos[n]
  BY <1>1, <1>4 DEF Recipe!TypeOK
<1>11. Recipe!TypeOK'
  <2>1. disk' \in [Inodes -> Seq(S)]
    BY <1>3, <1>4, <1>6 DEF Writes, Recipe!TypeOK, Recipe!FilesTypeOK
  <2>2. Recipe!FilesTypeOK(Recipe!BuildIds)'
    BY <2>1, <1>9, <1>4 DEF Recipe!FilesTypeOK, Recipe!TypeOK
  <2>3. pos' \in [Workers -> 0 .. Chunks] /\ pc' \in [Workers -> Recipe!Stages]
    BY <1>1, <1>4, RecipeConstants DEF Recipe!TypeOK, Recipe!Stages
  <2> QED BY <1>1, <1>4, <2>2, <2>3 DEF Recipe!TypeOK
<1>12. Recipe!Target(w)' = p /\ Recipe!Build(w)' = Recipe!Build(w) /\ Done(w)' = Done(w)
  BY <1>1, <1>10 DEF Recipe!Target, Recipe!Build, Done
<1>13. RecipeBuilder(w)'
  <2>1. Tied(RecipePaths, fd[w], Recipe!Target(w))'
    BY <1>1, <1>4, <1>9, <1>12 DEF Tied
  <2>2. pos[w] + 1 < Chunks \/ pos[w] + 1 = Chunks
    BY <1>1, <1>4, RecipeConstants
  <2>3. path[w] \notin shared => RecipeRun(w)'
    BY <1>1, <1>7, <1>9, <1>10, <1>12, <2>2, RecipeConstants DEF RecipeRun
  <2> QED BY <1>1, <1>4, <1>10, <2>1, <2>3 DEF RecipeBuilder
<1>14. path[w] \notin shared => \A ext \in Exts : Kept(<<path[w], ext>>)
  <2> SUFFICES ASSUME path[w] \notin shared, NEW ext \in Exts
               PROVE  Kept(<<path[w], ext>>)
    OBVIOUS
  <2>1. <<path[w], ext>> \in RecipePaths /\ OneName(RecipePaths) /\ NoFile \notin Inodes
        /\ Directory(RecipePaths)
    BY RecipeFacts DEF RecipePaths
  <2>2. final[<<path[w], ext>>] # i
    BY <2>1, <1>7 DEF OneName
  <2> QED BY <2>1, <2>2, <1>9 DEF Kept, Directory
<1>15. \A b \in Serials : b \notin shared' => RecipeBase(b)'
  BY <1>1, <1>9 DEF RecipeInv, RecipeBase
<1> QED BY <1>1, <1>8, <1>10, <1>11, <1>12, <1>13, <1>14, <1>15 DEF RecipeMove

LEMMA RecipePublishes ==
  ASSUME RecipeInv, NEW w \in Workers, Recipe!Publish(w)
  PROVE  RecipeMove(w)
<1>1. /\ pc[w] = "replace" /\ pc' = [pc EXCEPT ![w] = "unlink"]
      /\ UNCHANGED <<path, queue, fd, pos, outcome, runs, shared, orphaned>>
  BY DEF Recipe!Publish, Recipe!Goto, Recipe!history
<1> PICK p \in RecipePaths : p = Recipe!Target(w)
  BY <1>1, RecipeFacts
<1>2. /\ Recipe!ReplacePart(p) /\ published' = [published EXCEPT ![p] = Recipe!Build(w)]
  BY DEF Recipe!Publish
<1>3. Replaces(p)
  BY <1>2, RecipeOperations
<1>4. /\ At(RecipePaths, p, RecipeHeld(w))
      /\ final'[p] = part[p] /\ part'[p] = NoFile /\ disk' = disk /\ part[p] \in Inodes
  <2>1. /\ Directory(RecipePaths) /\ OneName(RecipePaths) /\ NoFile \notin Inodes
        /\ RecipeHeld(w) \in SUBSET Inodes
    BY RecipeFacts
  <2> QED BY <1>3, <2>1, ReplacesAt
<1>5. /\ Recipe!TypeOK /\ RecipeBuilder(w) /\ Recipe!Build(w) \in Recipe!BuildIds
      /\ path[w] \in Serials /\ queue[w] \in Plans /\ queue[w] # <<>>
  BY <1>1, RecipeFacts DEF RecipeInv, RecipeBuilder
<1>6. p = <<path[w], Head(queue[w])>> /\ Head(queue[w]) \in Exts
  BY DEF Recipe!Target, RecipePaths
<1>7. /\ pc'[w] = "unlink" /\ \A n \in Workers \ {w} : pc'[n] = pc[n]
      /\ published'[p] = Recipe!Build(w) /\ \A q \in RecipePaths \ {p} : published'[q] = published[q]
  BY <1>1, <1>2, <1>5 DEF Recipe!TypeOK, RecipePaths, Exts
<1>8. Recipe!TypeOK'
  <2>1. Recipe!FilesTypeOK(Recipe!BuildIds)'
    BY <1>4, <1>5 DEF Recipe!TypeOK, Recipe!FilesTypeOK, At, Directory, RecipePaths, Exts
  <2>2. pc' \in [Workers -> Recipe!Stages]
    BY <1>1, <1>5 DEF Recipe!TypeOK, Recipe!Stages
  <2>3. published' \in [Serials \X {"bnp", "bnpm", "bnp2"} -> Recipe!BuildIds \cup {Nobody}]
    BY <1>2, <1>5 DEF Recipe!TypeOK
  <2> QED BY <2>1, <2>2, <2>3, <1>1, <1>5 DEF Recipe!TypeOK
<1>9. /\ Recipe!Target(w)' = p /\ Recipe!Build(w)' = Recipe!Build(w)
      /\ Done(w)' = Done(w) \cup {Head(queue[w])}
  BY <1>1, <1>7 DEF Recipe!Target, Recipe!Build, Done
<1>10. path[w] \notin shared =>
         /\ Filled(disk[part[p]], Recipe!Build(w), Chunks)
         /\ \A ext \in Exts :
              IF ext \in Done(w) THEN published[<<path[w], ext>>] = Recipe!Build(w)
              ELSE published[<<path[w], ext>>] = Nobody /\ final[<<path[w], ext>>] = NoFile
  BY <1>1, <1>5 DEF RecipeBuilder, RecipeRun
<1>11. \A ext \in Exts : ext # Head(queue[w]) =>
         /\ published'[<<path[w], ext>>] = published[<<path[w], ext>>]
         /\ final'[<<path[w], ext>>] = final[<<path[w], ext>>]
  <2> SUFFICES ASSUME NEW ext \in Exts, ext # Head(queue[w])
               PROVE  /\ published'[<<path[w], ext>>] = published[<<path[w], ext>>]
                      /\ final'[<<path[w], ext>>] = final[<<path[w], ext>>]
    OBVIOUS
  <2>1. <<path[w], ext>> \in RecipePaths /\ <<path[w], ext>> # p
    BY <1>5, <1>6 DEF RecipePaths
  <2> QED BY <2>1, <1>4, <1>7 DEF At, Untouched
<1>12. Head(queue[w]) \notin Done(w)
  BY <1>1, <1>5, PlansAre DEF Done, Plans
<1>13. path[w] \notin shared =>
         \A ext \in Exts :
           IF ext \in Done(w) \cup {Head(queue[w])} THEN published'[<<path[w], ext>>] = Recipe!Build(w)
           ELSE published'[<<path[w], ext>>] = Nobody /\ final'[<<path[w], ext>>] = NoFile
  BY <1>6, <1>7, <1>10, <1>11, <1>12
<1>14. RecipeBuilder(w)'
  <2>1. path[w] \notin shared => RecipeRun(w)'
    BY <1>1, <1>4, <1>7, <1>9, <1>10, <1>13, RecipeConstants DEF RecipeRun
  <2> QED BY <1>1, <1>5, <1>7, <2>1 DEF RecipeBuilder
<1>15. path[w] \notin shared => \A ext \in Exts : Kept(<<path[w], ext>>)
  BY <1>4, <1>6, <1>10, <1>11, <1>12 DEF Kept
<1>16. \A b \in Serials : b = path[w] /\ b \notin shared' =>
         RecipeBase(b)' /\ \A ext \in Exts : published[<<b, ext>>] \in {published'[<<b, ext>>], Nobody}
  <2> SUFFICES ASSUME NEW b \in Serials, b = path[w], b \notin shared
               PROVE  /\ RecipeBase(b)'
                      /\ \A ext \in Exts : published[<<b, ext>>] \in {published'[<<b, ext>>], Nobody}
    BY <1>1
  <2>1. published'[<<b, "bnpm">>] # Nobody => published'[<<b, "bnp">>] = Recipe!Build(w)
    <3>1. "bnpm" \in Done(w) \cup {Head(queue[w])} => "bnp" \in Done(w) \cup {Head(queue[w])}
      BY <1>1, <1>5, PlansAre DEF Done, Plans
    <3> QED BY <3>1, <1>13 DEF Exts
  <2>2. \A ext \in Exts : published'[<<b, ext>>] \in {Recipe!Build(w), Nobody}
    BY <1>13
  <2>3. \A ext \in Exts : published'[<<b, ext>>] # Nobody => final'[<<b, ext>>] # NoFile
    <3> SUFFICES ASSUME NEW ext \in Exts, published'[<<b, ext>>] # Nobody
                 PROVE  final'[<<b, ext>>] # NoFile
      OBVIOUS
    <3>1. CASE ext = Head(queue[w])
      BY <3>1, <1>4, <1>6, RecipeConstants
    <3>2. CASE ext # Head(queue[w])
      BY <3>2, <1>11 DEF RecipeInv, RecipeBase
    <3> QED BY <3>1, <3>2
  <2>4. \A ext \in Exts : published[<<b, ext>>] \in {published'[<<b, ext>>], Nobody}
    BY <1>6, <1>10, <1>11, <1>12
  <2> QED BY <2>1, <2>2, <2>3, <2>4 DEF RecipeBase, Exts
<1>17. \A q \in RecipePaths : q[1] # path[w] => published'[q] = published[q]
  BY <1>6, <1>7
<1> QED BY <1>1, <1>4, <1>7, <1>8, <1>9, <1>14, <1>15, <1>16, <1>17 DEF RecipeMove

LEMMA RecipeUnlinks ==
  ASSUME RecipeInv, NEW w \in Workers, Recipe!Unlink(w)
  PROVE  RecipeMove(w)
<1>1. pc[w] = "unlink" /\ UNCHANGED <<path, fd, pos, outcome, runs, published, shared, orphaned>>
  BY DEF Recipe!Unlink, Recipe!history
<1> PICK p \in RecipePaths : p = Recipe!Target(w)
  BY <1>1, RecipeFacts
<1>2. /\ Recipe!UnlinkPart(p, RecipeHeld(w))
      /\ IF Head(queue[w]) = "bnp"
           THEN pc' = [pc EXCEPT ![w] = "open"] /\ queue' = [queue EXCEPT ![w] = Tail(@)]
           ELSE pc' = [pc EXCEPT ![w] = "verify"] /\ UNCHANGED queue
  BY DEF Recipe!Unlink, Recipe!Goto, RecipeHeld
<1>3. Unlinks(p, RecipeHeld(w))
  BY <1>2, RecipeOperations
<1>4. At(RecipePaths, p, RecipeHeld(w)) /\ Kept(p) /\ final' = final /\ part'[p] = NoFile
  <2>1. /\ Directory(RecipePaths) /\ OneName(RecipePaths) /\ NoFile \notin Inodes
        /\ RecipeHeld(w) \in SUBSET Inodes
    BY RecipeFacts
  <2> QED BY <1>3, <2>1, UnlinksAt
<1>5. /\ Recipe!TypeOK /\ RecipeBuilder(w) /\ path[w] \in Serials
      /\ queue[w] \in Plans /\ queue[w] # <<>>
  BY <1>1, RecipeFacts DEF RecipeInv, RecipeBuilder
<1>6. \A n \in Workers \ {w} : pc'[n] = pc[n] /\ queue'[n] = queue[n]
  BY <1>2, <1>5 DEF Recipe!TypeOK
<1>7. \/ /\ queue[w] = <<"bnp", "bnpm">> /\ Head(queue[w]) = "bnp"
         /\ pc'[w] = "open" /\ queue'[w] = <<"bnpm">>
      \/ /\ queue[w] \in {<<"bnpm">>, <<"bnp2">>} /\ pc'[w] = "verify" /\ queue'[w] = queue[w]
  <2>1. \/ pc'[w] = "open" /\ queue'[w] = Tail(queue[w]) /\ Head(queue[w]) = "bnp"
        \/ pc'[w] = "verify" /\ queue'[w] = queue[w] /\ Head(queue[w]) # "bnp"
    BY <1>2, <1>5 DEF Recipe!TypeOK
  <2> QED BY <2>1, <1>5, PlansAre DEF Plans
<1>8. Recipe!TypeOK'
  <2>1. disk' \in [Inodes -> Seq(Recipe!BuildIds \cup {Hole})]
    BY <1>3, <1>5 DEF Unlinks, Recipe!TypeOK, Recipe!FilesTypeOK
  <2>2. Recipe!FilesTypeOK(Recipe!BuildIds)'
    BY <2>1, <1>4 DEF Recipe!FilesTypeOK, At, Directory, RecipePaths, Exts
  <2>3. pc' \in [Workers -> Recipe!Stages]
    BY <1>2, <1>5 DEF Recipe!TypeOK, Recipe!Stages
  <2>4. queue' \in [Workers -> Plans]
    <3>1. queue \in [Workers -> Plans] /\ (Head(queue[w]) = "bnp" => Tail(queue[w]) \in Plans)
      BY <1>5, PlansAre DEF Recipe!TypeOK, Plans
    <3> QED BY <3>1, <1>2
  <2> QED BY <2>2, <2>3, <2>4, <1>1, <1>5 DEF Recipe!TypeOK, Plans
<1>9. Recipe!Build(w)' = Recipe!Build(w) /\ Done(w)' = Done(w)
  BY <1>1, <1>7, PlansAre DEF Recipe!Build, Done
<1>10. pc'[w] = "verify" => Recipe!Target(w)' = p
  BY <1>1, <1>7 DEF Recipe!Target
<1>11. RecipeBuilder(w)'
  <2>1. path[w] \notin shared => RecipeRun(w) /\ Filled(disk'[final'[p]], Recipe!Build(w), Chunks) /\ final'[p] # NoFile
    BY <1>1, <1>4, <1>5 DEF RecipeBuilder, RecipeRun, Kept
  <2>2. path[w] \notin shared => RecipeRun(w)'
    BY <2>1, <1>1, <1>4, <1>7, <1>9, <1>10 DEF RecipeRun
  <2> QED BY <2>2, <1>1, <1>5, <1>7, PlansAre DEF RecipeBuilder
<1>12. path[w] \notin shared => \A ext \in Exts : Kept(<<path[w], ext>>)
  <2>1. \A ext \in Exts : <<path[w], ext>> \in RecipePaths
    BY RecipeFacts DEF RecipePaths
  <2> QED BY <2>1, <1>4 DEF At, Untouched, Kept
<1>13. \A b \in Serials : b \notin shared' => RecipeBase(b)'
  BY <1>1, <1>4 DEF RecipeInv, RecipeBase
<1>14. part'[Recipe!Target(w)] = NoFile
  BY <1>4
<1> QED BY <1>1, <1>4, <1>6, <1>7, <1>8, <1>11, <1>12, <1>13, <1>14 DEF RecipeMove

\* A step that changes no file.
LEMMA RecipeStill ==
  ASSUME RecipeInv, NEW w \in Workers, pc[w] # "idle",
         UNCHANGED <<files, runs, published, shared>>, orphaned \subseteq orphaned',
         Recipe!TypeOK', RecipeBuilder(w)',
         \/ pc'[w] \notin {"idle", "verify"} /\ path'[w] = path[w] /\ Recipe!Target(w)' = Recipe!Target(w)
         \/ pc'[w] = "idle" /\ (pc[w] = "verify" \/ path[w] \in orphaned'),
         \A n \in Workers \ {w} :
           /\ pc'[n] = pc[n] /\ path'[n] = path[n] /\ queue'[n] = queue[n] /\ fd'[n] = fd[n]
           /\ pos'[n] = pos[n] /\ outcome'[n] = outcome[n]
  PROVE  RecipeMove(w)
<1>1. At(RecipePaths, Recipe!Target(w), RecipeHeld(w)) /\ \A ext \in Exts : Kept(<<path[w], ext>>)
  BY StillAt, RecipeFacts DEF files, Kept
<1>2. \A b \in Serials : b \notin shared' => RecipeBase(b)'
  BY DEF RecipeInv, RecipeBase, files
<1> QED BY <1>1, <1>2 DEF RecipeMove, files

LEMMA RecipeRaises ==
  ASSUME RecipeInv, NEW w \in Workers, pc[w] \in {"open", "write", "replace"}, Recipe!Raise(w)
  PROVE  RecipeMove(w)
<1>1. /\ pc' = [pc EXCEPT ![w] = "unwind"]
      /\ UNCHANGED <<final, part, disk, path, queue, fd, pos, outcome, runs, published, shared, orphaned>>
  BY DEF Recipe!Raise, Recipe!Goto, Recipe!files, Recipe!history
<1>2. Recipe!TypeOK /\ RecipeBuilder(w)
  BY RecipeFacts DEF RecipeInv
<1>3. pc'[w] = "unwind" /\ \A n \in Workers \ {w} : pc'[n] = pc[n]
  BY <1>1, <1>2 DEF Recipe!TypeOK
<1>4. Recipe!TypeOK'
  <2>1. pc' \in [Workers -> Recipe!Stages]
    BY <1>1, <1>2 DEF Recipe!TypeOK, Recipe!Stages
  <2> QED BY <2>1, <1>1, <1>2 DEF Recipe!TypeOK, Recipe!FilesTypeOK
<1>5. RecipeBuilder(w)' /\ Recipe!Target(w)' = Recipe!Target(w)
  BY <1>1, <1>2, <1>3 DEF RecipeBuilder, RecipeRun, Recipe!Target
<1> QED BY <1>1, <1>3, <1>4, <1>5, RecipeStill DEF files

\* What the end of a build leaves of it.
LEMMA RecipeLeaves ==
  ASSUME RecipeInv, NEW w \in Workers, pc[w] # "idle", NEW how \in {"ok", "failed", "died"},
         Recipe!Leave(w, how), UNCHANGED <<runs, published, shared>>, orphaned' \in SUBSET Serials,
         Recipe!FilesTypeOK(Recipe!BuildIds)',
         how = "ok" /\ path[w] \notin shared => Complete(w) /\ UNCHANGED <<final, disk>>
  PROVE  /\ Recipe!TypeOK' /\ RecipeBuilder(w)' /\ pc'[w] = "idle"
         /\ \A n \in Workers \ {w} :
              /\ pc'[n] = pc[n] /\ path'[n] = path[n] /\ queue'[n] = queue[n] /\ fd'[n] = fd[n]
              /\ pos'[n] = pos[n] /\ outcome'[n] = outcome[n]
<1>1. Recipe!TypeOK /\ RecipeBuilder(w)
  BY RecipeFacts DEF RecipeInv
<1>2. /\ pc' = [pc EXCEPT ![w] = "idle"] /\ outcome' = [outcome EXCEPT ![w] = how]
      /\ path' = [path EXCEPT ![w] = IF how = "ok" THEN @ ELSE 1]
      /\ queue' = [queue EXCEPT ![w] = <<>>] /\ fd' = [fd EXCEPT ![w] = 1] /\ pos' = [pos EXCEPT ![w] = 0]
  BY DEF Recipe!Leave, Recipe!Goto
<1>3. Recipe!TypeOK'
  <2>1. /\ pc' \in [Workers -> Recipe!Stages] /\ path' \in [Workers -> Serials]
        /\ fd' \in [Workers -> Inodes] /\ pos' \in [Workers -> 0 .. Chunks]
        /\ outcome' \in [Workers -> {"none", "running", "ok", "failed", "died"}]
    BY <1>1, <1>2, RecipeConstants DEF Recipe!TypeOK, Recipe!Stages
  <2>2. queue' \in [Workers -> {<<>>, <<"bnp", "bnpm">>, <<"bnpm">>, <<"bnp2">>}]
    BY <1>1, <1>2 DEF Recipe!TypeOK
  <2> QED BY <1>1, <2>1, <2>2 DEF Recipe!TypeOK
<1>4. /\ pc'[w] = "idle" /\ outcome'[w] = how /\ (how = "ok" => path'[w] = path[w])
      /\ \A n \in Workers \ {w} :
           /\ pc'[n] = pc[n] /\ path'[n] = path[n] /\ queue'[n] = queue[n] /\ fd'[n] = fd[n]
           /\ pos'[n] = pos[n] /\ outcome'[n] = outcome[n]
  BY <1>1, <1>2 DEF Recipe!TypeOK
<1>5. RecipeBuilder(w)'
  <2>1. runs'[w] # 0
    BY <1>1 DEF RecipeBuilder
  <2>2. how = "ok" /\ path[w] \notin shared => Complete(w)'
    BY <1>4 DEF Complete, Recipe!Build, Recipe!Whole
  <2> QED BY <1>4, <2>1, <2>2 DEF RecipeBuilder, RecipeRun
<1> QED BY <1>3, <1>4, <1>5

LEMMA RecipeVerifies ==
  ASSUME RecipeInv, NEW w \in Workers, Recipe!Verified(w)
  PROVE  RecipeMove(w)
<1>1. /\ pc[w] = "verify" /\ Recipe!SealsMatch(w) /\ Recipe!Leave(w, "ok")
      /\ UNCHANGED <<final, part, disk, runs, published, shared, orphaned>>
  BY DEF Recipe!Verified, Recipe!files, Recipe!history
<1> PICK p \in RecipePaths : p = Recipe!Target(w)
  BY <1>1, RecipeFacts
<1>2. /\ Recipe!TypeOK /\ RecipeBuilder(w)
      /\ queue[w] \in Plans /\ queue[w] # <<>> /\ queue[w] # <<"bnp", "bnpm">>
  BY <1>1, RecipeFacts DEF RecipeInv, RecipeBuilder
<1>3. path[w] \notin shared => Complete(w)
  <2> SUFFICES ASSUME path[w] \notin shared
               PROVE  Complete(w)
    OBVIOUS
  <2>1. /\ Filled(disk[final[p]], Recipe!Build(w), Chunks)
        /\ \A ext \in Exts \cap Done(w) : published[<<path[w], ext>>] = Recipe!Build(w)
    BY <1>1, <1>2 DEF RecipeBuilder, RecipeRun
  <2>2. PICK b \in Recipe!BuildIds : disk[final[p]] = Recipe!Whole(b)
    BY <1>1 DEF Recipe!SealsMatch
  <2>3. b = Recipe!Build(w)
    <3>1. disk[final[p]][1] = b
      BY <2>2, RecipeConstants DEF Recipe!Whole
    <3>2. disk[final[p]][1] \in {Recipe!Build(w), Hole}
      BY <2>1, RecipeConstants DEF Filled
    <3> QED BY <3>1, <3>2, RecipeConstants
  <2>4. CASE queue[w] = <<"bnpm">>
    <3>1. Done(w) = {"bnp", "bnpm"} /\ p = <<path[w], "bnpm">>
      BY <2>4, <1>1, PlansAre DEF Done, Recipe!Target
    <3> QED BY <3>1, <2>1, <2>2, <2>3 DEF Complete, Exts
  <2>5. CASE queue[w] = <<"bnp2">>
    <3>1. Done(w) = {"bnp2"} /\ p = <<path[w], "bnp2">>
      BY <2>5, <1>1, PlansAre DEF Done, Recipe!Target
    <3> QED BY <3>1, <2>1, <2>2, <2>3 DEF Complete, Exts
  <2> QED BY <2>4, <2>5, <1>2 DEF Plans
<1>4. Recipe!FilesTypeOK(Recipe!BuildIds)' /\ orphaned' \in SUBSET Serials
  BY <1>1, <1>2 DEF Recipe!TypeOK, Recipe!FilesTypeOK
<1>5. /\ Recipe!TypeOK' /\ RecipeBuilder(w)' /\ pc'[w] = "idle"
      /\ \A n \in Workers \ {w} :
           /\ pc'[n] = pc[n] /\ path'[n] = path[n] /\ queue'[n] = queue[n] /\ fd'[n] = fd[n]
           /\ pos'[n] = pos[n] /\ outcome'[n] = outcome[n]
  BY <1>1, <1>3, <1>4, RecipeLeaves
<1> QED BY <1>1, <1>5, RecipeStill DEF files

LEMMA RecipeRejects ==
  ASSUME RecipeInv, NEW w \in Workers, Recipe!VerifyFails(w)
  PROVE  RecipeMove(w)
<1>1. /\ pc[w] = "verify" /\ Recipe!Leave(w, "failed")
      /\ UNCHANGED <<final, part, disk, runs, published, shared, orphaned>>
  BY DEF Recipe!VerifyFails, Recipe!files, Recipe!history
<1>2. Recipe!FilesTypeOK(Recipe!BuildIds)' /\ orphaned' \in SUBSET Serials
  BY <1>1 DEF RecipeInv, Recipe!TypeOK, Recipe!FilesTypeOK
<1>3. /\ Recipe!TypeOK' /\ RecipeBuilder(w)' /\ pc'[w] = "idle"
      /\ \A n \in Workers \ {w} :
           /\ pc'[n] = pc[n] /\ path'[n] = path[n] /\ queue'[n] = queue[n] /\ fd'[n] = fd[n]
           /\ pos'[n] = pos[n] /\ outcome'[n] = outcome[n]
  BY <1>1, <1>2, RecipeLeaves
<1> QED BY <1>1, <1>3, RecipeStill DEF files

LEMMA RecipeDies ==
  ASSUME RecipeInv, NEW w \in Workers, Recipe!Die(w)
  PROVE  RecipeMove(w)
<1>1. /\ pc[w] # "idle" /\ Recipe!Leave(w, "died") /\ orphaned' = orphaned \cup {path[w]}
      /\ UNCHANGED <<final, part, disk, runs, published, shared>>
  BY DEF Recipe!Die, Recipe!files
<1>2. Recipe!FilesTypeOK(Recipe!BuildIds)' /\ orphaned' \in SUBSET Serials
  BY <1>1, RecipeFacts DEF RecipeInv, Recipe!TypeOK, Recipe!FilesTypeOK
<1>3. /\ Recipe!TypeOK' /\ RecipeBuilder(w)' /\ pc'[w] = "idle"
      /\ \A n \in Workers \ {w} :
           /\ pc'[n] = pc[n] /\ path'[n] = path[n] /\ queue'[n] = queue[n] /\ fd'[n] = fd[n]
           /\ pos'[n] = pos[n] /\ outcome'[n] = outcome[n]
  BY <1>1, <1>2, RecipeLeaves
<1> QED BY <1>1, <1>3, RecipeStill DEF files

LEMMA RecipeUnwinds ==
  ASSUME RecipeInv, NEW w \in Workers, Recipe!Unwind(w)
  PROVE  RecipeMove(w)
<1>1. /\ pc[w] = "unwind" /\ Recipe!Leave(w, "failed")
      /\ UNCHANGED <<runs, published, shared, orphaned>>
  BY DEF Recipe!Unwind, Recipe!history
<1> PICK p \in RecipePaths : p = Recipe!Target(w)
  BY <1>1, RecipeFacts
<1>2. Unlinks(p, RecipeHeld(w))
  BY RecipeOperations DEF Recipe!Unwind, RecipeHeld
<1>3. At(RecipePaths, p, RecipeHeld(w)) /\ Kept(p) /\ final' = final /\ part'[p] = NoFile
  <2>1. /\ Directory(RecipePaths) /\ OneName(RecipePaths) /\ NoFile \notin Inodes
        /\ RecipeHeld(w) \in SUBSET Inodes
    BY RecipeFacts
  <2> QED BY <1>2, <2>1, UnlinksAt
<1>4. Recipe!FilesTypeOK(Recipe!BuildIds)' /\ orphaned' \in SUBSET Serials
  <2>1. Recipe!TypeOK
    BY DEF RecipeInv
  <2>2. disk' \in [Inodes -> Seq(Recipe!BuildIds \cup {Hole})]
    BY <2>1, <1>2 DEF Unlinks, Recipe!TypeOK, Recipe!FilesTypeOK
  <2> QED BY <2>1, <2>2, <1>1, <1>3
          DEF Recipe!TypeOK, Recipe!FilesTypeOK, At, Directory, RecipePaths, Exts
<1>5. /\ Recipe!TypeOK' /\ RecipeBuilder(w)' /\ pc'[w] = "idle"
      /\ \A n \in Workers \ {w} :
           /\ pc'[n] = pc[n] /\ path'[n] = path[n] /\ queue'[n] = queue[n] /\ fd'[n] = fd[n]
           /\ pos'[n] = pos[n] /\ outcome'[n] = outcome[n]
  BY <1>1, <1>4, RecipeLeaves
<1>6. path[w] \notin shared => \A ext \in Exts : Kept(<<path[w], ext>>)
  <2>1. \A ext \in Exts : <<path[w], ext>> \in RecipePaths
    BY RecipeFacts DEF RecipePaths
  <2> QED BY <2>1, <1>3 DEF At, Untouched, Kept
<1>7. \A b \in Serials : b \notin shared' => RecipeBase(b)'
  BY <1>1, <1>3 DEF RecipeInv, RecipeBase
<1>8. part'[Recipe!Target(w)] = NoFile
  BY <1>3
<1> QED BY <1>1, <1>3, <1>5, <1>6, <1>7, <1>8 DEF RecipeMove

----------------------------------------------------------------------------
(* Proofs: a run works on two names, one after the other.                  *)

ProofPaths == {"raw", "b64", "map"} \X Serials

\* The name a run works on.
NameOf(m) == IF pc[m] \in Proof!MapStages THEN map_path[m] ELSE path[m]

\* What a run that has the name of its representation to itself has made of it.
ProofRep(m) ==
  LET p == path[m] IN
  /\ pc[m] \in {"map_name", "open", "extend", "stream", "replace"} =>
       final[p] = NoFile /\ published[p] = Nobody
  /\ pc[m] = "extend" => part[p] = fd[m] /\ disk[fd[m]] = <<>>
  /\ pc[m] = "stream" =>
       /\ part[p] = fd[m]
       /\ disk[fd[m]] = [c \in 1 .. Chunks |->
                           IF c \in Covers[recipe[m]] /\ c <= pos[m] THEN recipe[m] ELSE Hole]
  /\ pc[m] = "replace" => part[p] # NoFile /\ disk[part[p]] = Proof!Image(p, recipe[m])
  /\ pc[m] = "cleanup" /\ outcome[m] = "running" => published[p] = recipe[m]
  /\ pc[m] \in {"map_open", "map_write", "map_replace"} => published[p] = recipe[m]

\* The same of its map.
ProofMap(m) ==
  LET p == map_path[m] IN
  /\ \/ pc[m] \in {"open", "extend", "stream", "replace", "map_open", "map_write", "map_replace"}
     \/ pc[m] = "cleanup" /\ outcome[m] = "running"
     => final[p] = NoFile /\ published[p] = Nobody
  /\ pc[m] = "map_write" => part[p] = fd[m] /\ disk[fd[m]] = <<>>
  /\ pc[m] = "map_replace" => part[p] # NoFile /\ disk[part[p]] = Proof!Image(p, recipe[m])

ProofMiner(m) ==
  /\ pc[m] # "idle" \/ outcome[m] = "ok" => recipe[m] \in Proofs
  /\ pc[m] \in Proof!Stages \ {"idle", "cleanup", "map_cleanup"} => outcome[m] = "running"
  /\ pc[m] \in {"idle", "map_name", "open", "extend"} => pos[m] = 0
  /\ pc[m] \in {"extend", "stream", "map_write"} => Tied(ProofPaths, fd[m], NameOf(m))
  /\ path[m] \notin shared =>
       ProofRep(m) /\ (outcome[m] = "ok" => published[path[m]] = recipe[m])
  /\ map_path[m] \notin shared =>
       ProofMap(m) /\ (outcome[m] = "ok" => published[map_path[m]] = recipe[m])

\* The first half of Proof!PublishedIsWhole, of one name.
ProofWhole(p) ==
  published[p] # Nobody =>
    final[p] # NoFile /\ disk[final[p]] = Proof!Image(p, published[p])

\* A `.part` is that of a run that works on its name, or was killed.
ProofParts ==
  \A p \in ProofPaths : part[p] # NoFile =>
    p \in orphaned \/ \E m \in Workers : pc[m] \notin {"idle", "map_name"} /\ NameOf(m) = p

ProofApart ==
  \A m, n \in Workers, p \in ProofPaths :
    m # n /\ p \in Proof!Picked(m) /\ p \in Proof!Picked(n) => p \in shared

ProofInv ==
  /\ Proof!TypeOK /\ ProofParts /\ OneName(ProofPaths)
  /\ \A p \in ProofPaths \ shared : ProofWhole(p)
  /\ \A m \in Workers : ProofMiner(m)
  /\ ProofApart

ProofHeld(m) == Proof!HeldBy(Workers \ {m})

ProofFrame(m) ==
  \A n \in Workers \ {m} :
    /\ pc'[n] = pc[n] /\ recipe'[n] = recipe[n] /\ path'[n] = path[n] /\ map_path'[n] = map_path[n]
    /\ fd'[n] = fd[n] /\ pos'[n] = pos[n] /\ outcome'[n] = outcome[n]

ProofMove(m) ==
  /\ Proof!TypeOK' /\ At(ProofPaths, NameOf(m), ProofHeld(m))
  /\ ProofMiner(m)'
  /\ NameOf(m) \notin shared => Kept(NameOf(m))
  /\ \A p \in ProofPaths : p = NameOf(m) /\ p \notin shared' =>
       ProofWhole(p)' /\ published[p] \in {published'[p], Nobody}
  /\ ProofFrame(m)
  /\ \A p \in ProofPaths \ {NameOf(m)} : published'[p] = published[p]
  /\ shared \subseteq shared' /\ orphaned \subseteq orphaned'
  /\ \A n \in Workers \ {m}, p \in ProofPaths :
       p \in Proof!Picked(m)' /\ p \in Proof!Picked(n) => p \in shared'
  /\ \/ pc[m] \in {"idle", "map_name"} /\ UNCHANGED <<files, published>>
     \/ /\ pc[m] \notin {"idle", "map_name"} /\ shared' = shared
        /\ \/ pc'[m] \notin {"idle", "map_name"} /\ NameOf(m)' = NameOf(m)
           \/ NameOf(m) \in orphaned' \/ part'[NameOf(m)] = NoFile

LEMMA ProofConstants ==
  /\ Chunks \in Nat \ {0} /\ MaxRuns \in Nat \ {0} /\ Serials \subseteq Nat /\ 1 \in Serials
  /\ 1 \in Inodes /\ NoFile \notin Inodes /\ Nobody \notin Proofs
  /\ Suffix \in [Proofs -> {"raw", "b64"}] /\ Covers \in [Proofs -> SUBSET (1 .. Chunks)]
<1>1. Proof!PartialMineAssumption
  BY PublicationAssumption DEF PublicationAssumption
<1>2. Nobody \notin Proofs /\ Suffix \in [Proofs -> {"raw", "b64"}]
      /\ Covers \in [Proofs -> SUBSET (1 .. Chunks)]
  BY <1>1, Zenon DEF Proof!PartialMineAssumption
<1> QED BY <1>2, TargetConstants

LEMMA PickedIs ==
  ASSUME NEW m
  PROVE  /\ Proof!Picked(m) = (IF pc[m] = "idle" THEN {}
                                ELSE IF pc[m] = "map_name" THEN {path[m]} ELSE {path[m], map_path[m]})
         /\ Proof!Picked(m)' = (IF pc'[m] = "idle" THEN {}
                                 ELSE IF pc'[m] = "map_name" THEN {path'[m]} ELSE {path'[m], map_path'[m]})
BY DEF Proof!Picked

LEMMA ProofOperations ==
  ASSUME NEW p, NEW i, NEW h, NEW o, NEW v
  PROVE  /\ Proof!OpenPart(p, i, h) => Opens(ProofPaths, p, i, h)
         /\ Proof!WriteChunk(i, o, v) => Writes(i, Target!PutChunk(disk[i], o, v))
         /\ Proof!ReplacePart(p) => Replaces(p)
         /\ Proof!UnlinkPart(p, h) => Unlinks(p, h)
<1>1. Proof!OpenPart(p, i, h) => Opens(ProofPaths, p, i, h)
  BY DEF Proof!OpenPart, Proof!Named, Opens, ProofPaths
<1>2. Proof!WriteChunk(i, o, v) => Writes(i, Target!PutChunk(disk[i], o, v))
  BY DEF Proof!WriteChunk, Writes, Proof!PutChunk, Target!PutChunk
<1>3. Proof!ReplacePart(p) => Replaces(p)
  BY DEF Proof!ReplacePart, Replaces
<1>4. Proof!UnlinkPart(p, h) => Unlinks(p, h)
  BY DEF Proof!UnlinkPart, Unlinks
<1> QED BY <1>1, <1>2, <1>3, <1>4

\* What every step of m may use of the invariant.
LEMMA ProofFacts ==
  ASSUME ProofInv, NEW m \in Workers
  PROVE  /\ Directory(ProofPaths) /\ OneName(ProofPaths) /\ NoFile \notin Inodes
         /\ path[m] \in ProofPaths /\ map_path[m] \in ProofPaths /\ NameOf(m) \in ProofPaths
         /\ path[m] # map_path[m] /\ path[m][1] # "map" /\ map_path[m][1] = "map"
         /\ fd[m] \in Inodes /\ pos[m] \in 0 .. Chunks
         /\ ProofHeld(m) \in SUBSET Inodes /\ ProofMiner(m)
         /\ pc[m] \notin {"idle", "map_name"} => NameOf(m) \in Proof!Picked(m)
<1>1. Proof!TypeOK /\ OneName(ProofPaths) /\ ProofMiner(m)
  BY DEF ProofInv
<1>2. Directory(ProofPaths)
  BY <1>1 DEF Proof!TypeOK, Proof!FilesTypeOK, Directory, ProofPaths
<1>3. fd[m] \in Inodes /\ pos[m] \in 0 .. Chunks /\ ProofHeld(m) \in SUBSET Inodes
  BY <1>1 DEF Proof!TypeOK, ProofHeld, Proof!HeldBy
<1>4. path[m] \in {"raw", "b64"} \X Serials /\ map_path[m] \in {"map"} \X Serials
  BY <1>1 DEF Proof!TypeOK
<1>5. /\ path[m] \in ProofPaths /\ map_path[m] \in ProofPaths
      /\ path[m][1] # "map" /\ map_path[m][1] = "map"
  BY <1>4 DEF ProofPaths
<1> QED BY <1>1, <1>2, <1>3, <1>5, ProofConstants, PickedIs DEF NameOf, Proof!MapStages

\* The step of one run keeps the invariant of all.
LEMMA ProofMoves ==
  ASSUME ProofInv, NEW m \in Workers, ProofMove(m)
  PROVE  ProofInv' /\ Proof!KeepsPublished
<1> PICK t \in ProofPaths : t = NameOf(m)
  BY ProofFacts
<1>1. Proof!TypeOK' /\ OneName(ProofPaths)' /\ \A q \in ProofPaths \ {t} : Untouched(q)
  BY DEF ProofMove, At
<1>2. \A q \in ProofPaths \ shared' : ProofWhole(q)'
  <2> SUFFICES ASSUME NEW q \in ProofPaths, q \notin shared'
               PROVE  ProofWhole(q)'
    OBVIOUS
  <2>1. CASE q = t
    BY <2>1 DEF ProofMove
  <2>2. CASE q # t
    <3>1. ProofWhole(q) /\ Untouched(q) /\ published'[q] = published[q]
      BY <2>2, <1>1 DEF ProofInv, ProofMove
    <3> QED BY <3>1 DEF ProofWhole, Untouched, Proof!Image
  <2> QED BY <2>1, <2>2
<1>3. \A n \in Workers \ {m} : Proof!Picked(n)' = Proof!Picked(n) /\ NameOf(n)' = NameOf(n)
  <2> SUFFICES ASSUME NEW n \in Workers \ {m}
               PROVE  Proof!Picked(n)' = Proof!Picked(n) /\ NameOf(n)' = NameOf(n)
    OBVIOUS
  <2>1. pc'[n] = pc[n] /\ path'[n] = path[n] /\ map_path'[n] = map_path[n]
    BY DEF ProofMove, ProofFrame
  <2> QED BY <2>1, PickedIs DEF NameOf, Proof!MapStages
<1>4. ASSUME NEW n \in Workers \ {m}
      PROVE  ProofMiner(n)'
  <2>1. /\ pc'[n] = pc[n] /\ recipe'[n] = recipe[n] /\ path'[n] = path[n] /\ map_path'[n] = map_path[n]
        /\ fd'[n] = fd[n] /\ pos'[n] = pos[n] /\ outcome'[n] = outcome[n]
        /\ shared \subseteq shared' /\ ProofMiner(n)
    BY DEF ProofInv, ProofMove, ProofFrame
  <2>2. pc[n] \in {"extend", "stream", "map_write"} => Tied(ProofPaths, fd[n], NameOf(n))'
    <3> SUFFICES ASSUME pc[n] \in {"extend", "stream", "map_write"}
                 PROVE  Tied(ProofPaths, fd[n], NameOf(n))'
      OBVIOUS
    <3>1. fd[n] \in ProofHeld(m) /\ NameOf(n) \in ProofPaths /\ Tied(ProofPaths, fd[n], NameOf(n))
      BY <2>1, ProofFacts DEF ProofHeld, Proof!HeldBy, ProofMiner
    <3>2. \A i \in ProofHeld(m), q \in ProofPaths : Tied(ProofPaths, i, q) => Tied(ProofPaths, i, q)'
      BY DEF ProofMove, At
    <3> PICK i \in ProofHeld(m), q \in ProofPaths : i = fd[n] /\ q = NameOf(n)
      BY <3>1
    <3>3. Tied(ProofPaths, i, q)'
      BY <3>1, <3>2
    <3> QED BY <3>3, <2>1, <1>3 DEF Tied
  <2>3. ASSUME NEW p \in ProofPaths, p \in Proof!Picked(n), p \notin shared'
        PROVE  Untouched(p) /\ published'[p] = published[p]
    <3>1. CASE pc[m] \in {"idle", "map_name"}
      BY <3>1 DEF ProofMove, Untouched, files
    <3>2. CASE pc[m] \notin {"idle", "map_name"}
      <4>1. p # t
        BY <3>2, <2>1, <2>3, ProofFacts DEF ProofInv, ProofApart
      <4> QED BY <4>1, <1>1, <2>3 DEF ProofMove
    <3> QED BY <3>1, <3>2
  <2>4. ASSUME path[n] \notin shared'
        PROVE  ProofRep(n)'
    <3>1. CASE pc[n] = "idle"
      BY <3>1, <2>1 DEF ProofRep
    <3>2. CASE pc[n] # "idle"
      <4> PICK p \in ProofPaths : p = path[n]
        BY ProofFacts
      <4>1. ProofRep(n) /\ Untouched(p) /\ published'[p] = published[p] /\ fd[n] # NoFile
        BY <3>2, <2>1, <2>3, <2>4, PickedIs, ProofFacts DEF ProofMiner
      <4> QED BY <2>1, <4>1 DEF ProofRep, Untouched, Proof!Image
    <3> QED BY <3>1, <3>2
  <2>5. ASSUME map_path[n] \notin shared'
        PROVE  ProofMap(n)'
    <3>1. CASE pc[n] \in {"idle", "map_name"}
      BY <3>1, <2>1 DEF ProofMap
    <3>2. CASE pc[n] \notin {"idle", "map_name"}
      <4> PICK p \in ProofPaths : p = map_path[n]
        BY ProofFacts
      <4>1. ProofMap(n) /\ Untouched(p) /\ published'[p] = published[p] /\ fd[n] # NoFile
        BY <3>2, <2>1, <2>3, <2>5, PickedIs, ProofFacts DEF ProofMiner
      <4> QED BY <2>1, <4>1 DEF ProofMap, Untouched, Proof!Image
    <3> QED BY <3>1, <3>2
  <2>6. ASSUME NEW p \in ProofPaths, p \notin shared', outcome[n] = "ok", published[p] = recipe[n]
        PROVE  published'[p] = recipe[n]
    <3>1. published[p] # Nobody
      BY <2>1, <2>6, ProofConstants DEF ProofMiner
    <3> QED BY <2>6, <3>1 DEF ProofMove
  <2>7. path[n] \in ProofPaths /\ map_path[n] \in ProofPaths
    BY ProofFacts
  <2> QED BY <2>1, <2>2, <2>4, <2>5, <2>6, <2>7 DEF ProofMiner
<1>5. ProofParts'
  <2> SUFFICES ASSUME NEW q \in ProofPaths, part'[q] # NoFile
               PROVE  \/ q \in orphaned'
                      \/ \E n \in Workers : pc'[n] \notin {"idle", "map_name"} /\ NameOf(n)' = q
    BY DEF ProofParts
  <2>1. /\ orphaned \subseteq orphaned'
        /\ \A n \in Workers \ {m} : pc'[n] = pc[n] /\ NameOf(n)' = NameOf(n)
    BY <1>3 DEF ProofMove, ProofFrame
  <2>2. CASE q = t /\ pc[m] \notin {"idle", "map_name"}
    BY <2>2 DEF ProofMove
  <2>3. CASE q # t \/ pc[m] \in {"idle", "map_name"}
    <3>1. part[q] # NoFile
      BY <2>3, <1>1 DEF ProofMove, Untouched, files
    <3>2. q \in orphaned \/ \E n \in Workers : pc[n] \notin {"idle", "map_name"} /\ NameOf(n) = q
      BY <3>1 DEF ProofInv, ProofParts
    <3> QED BY <3>2, <2>1, <2>3
  <2> QED BY <2>2, <2>3
<1>6. ProofApart'
  <2> SUFFICES ASSUME NEW k \in Workers, NEW n \in Workers, k # n, k # m, NEW p \in ProofPaths,
                      p \in Proof!Picked(k)', p \in Proof!Picked(n)'
               PROVE  p \in shared'
    BY DEF ProofApart
  <2>1. CASE n = m
    BY <2>1, <1>3 DEF ProofMove
  <2>2. CASE n # m
    BY <2>2, <1>3 DEF ProofMove, ProofInv, ProofApart
  <2> QED BY <2>1, <2>2
<1>7. Proof!KeepsPublished
  <2> SUFFICES ASSUME NEW q \in ProofPaths, q \notin shared
               PROVE  Kept(q)
    BY DEF Proof!KeepsPublished, Kept, ProofPaths
  <2> QED BY <1>1 DEF ProofMove, Untouched, Kept
<1>8. \A n \in Workers : ProofMiner(n)'
  BY <1>4 DEF ProofMove
<1> QED BY <1>1, <1>2, <1>5, <1>6, <1>7, <1>8 DEF ProofInv

LEMMA ProofPicksRep ==
  ASSUME ProofInv, NEW m \in Workers, Proof!PickRep(m)
  PROVE  ProofMove(m)
<1>1. PICK r \in Proofs, p \in ProofPaths :
        /\ Proof!FirstFree(Suffix[r], p)
        /\ recipe' = [recipe EXCEPT ![m] = r] /\ path' = [path EXCEPT ![m] = p]
        /\ Proof!NoteShared(m, p)
  BY DEF Proof!PickRep, ProofPaths
<1>2. /\ pc[m] = "idle" /\ runs[m] < MaxRuns /\ runs' = [runs EXCEPT ![m] = @ + 1]
      /\ outcome' = [outcome EXCEPT ![m] = "running"] /\ pc' = [pc EXCEPT ![m] = "map_name"]
      /\ UNCHANGED <<final, part, disk, map_path, fd, pos, published, orphaned>>
  BY DEF Proof!PickRep, Proof!Goto, Proof!files
<1>3. Proof!TypeOK /\ ProofMiner(m)
  BY ProofFacts DEF ProofInv
<1>4. /\ shared \subseteq shared' /\ shared' \subseteq shared \cup {p}
      /\ \A n \in Workers \ {m} : p \in Proof!Picked(n) => p \in shared'
  BY <1>1 DEF Proof!NoteShared
<1>5. p \in {"raw", "b64"} \X Serials /\ final[p] = NoFile
  BY <1>1, ProofConstants DEF Proof!FirstFree, Proof!Free
<1>6. /\ pc'[m] = "map_name" /\ recipe'[m] = r /\ path'[m] = p /\ map_path'[m] = map_path[m]
      /\ outcome'[m] = "running" /\ pos'[m] = 0
  BY <1>1, <1>2, <1>3 DEF Proof!TypeOK, ProofMiner
<1>7. ProofFrame(m)
  BY <1>1, <1>2, <1>3 DEF ProofFrame, Proof!TypeOK
<1>8. Proof!TypeOK'
  <2>1. /\ pc' \in [Workers -> Proof!Stages] /\ recipe' \in [Workers -> Proofs \cup {Nobody}]
        /\ path' \in [Workers -> {"raw", "b64"} \X Serials]
        /\ outcome' \in [Workers -> {"none", "running", "ok", "failed", "died"}]
        /\ runs' \in [Workers -> 0 .. MaxRuns]
    BY <1>1, <1>2, <1>3, <1>5, ProofConstants DEF Proof!TypeOK, Proof!Stages
  <2>2. shared' \subseteq ProofPaths
    BY <1>3, <1>4 DEF Proof!TypeOK, ProofPaths
  <2> QED BY <1>2, <1>3, <2>1, <2>2 DEF Proof!TypeOK, Proof!FilesTypeOK, ProofPaths
<1>9. At(ProofPaths, NameOf(m), ProofHeld(m)) /\ Kept(NameOf(m))
  BY <1>2, StillAt, ProofFacts DEF files
<1>10. \A q \in ProofPaths : q \notin shared' => ProofWhole(q)' /\ published'[q] = published[q]
  BY <1>2, <1>4 DEF ProofInv, ProofWhole, Proof!Image
<1>11. ProofMiner(m)'
  <2>1. p \notin shared' => published[p] = Nobody
    BY <1>4, <1>5 DEF ProofInv, ProofWhole
  <2> QED BY <1>2, <1>5, <1>6, <2>1 DEF ProofMiner, ProofRep, ProofMap
<1>12. \A n \in Workers \ {m}, q \in ProofPaths :
         q \in Proof!Picked(m)' /\ q \in Proof!Picked(n) => q \in shared'
  BY <1>4, <1>6, PickedIs
<1> QED BY <1>2, <1>4, <1>7, <1>8, <1>9, <1>10, <1>11, <1>12 DEF ProofMove, files

LEMMA ProofPicksMap ==
  ASSUME ProofInv, NEW m \in Workers, Proof!PickMap(m)
  PROVE  ProofMove(m)
<1>1. PICK p \in ProofPaths :
        /\ Proof!FirstFree("map", p) /\ map_path' = [map_path EXCEPT ![m] = p]
        /\ Proof!NoteShared(m, p)
  BY DEF Proof!PickMap, ProofPaths
<1>2. /\ pc[m] = "map_name" /\ pc' = [pc EXCEPT ![m] = "open"]
      /\ UNCHANGED <<final, part, disk, recipe, path, fd, pos, outcome, runs, published, orphaned>>
  BY DEF Proof!PickMap, Proof!Goto, Proof!files
<1>3. Proof!TypeOK /\ ProofMiner(m) /\ path[m] \in ProofPaths
  BY ProofFacts DEF ProofInv
<1>4. /\ shared \subseteq shared' /\ shared' \subseteq shared \cup {p}
      /\ \A n \in Workers \ {m} : p \in Proof!Picked(n) => p \in shared'
  BY <1>1 DEF Proof!NoteShared
<1>5. p \in {"map"} \X Serials /\ final[p] = NoFile
  BY <1>1 DEF Proof!FirstFree, Proof!Free
<1>6. pc'[m] = "open" /\ map_path'[m] = p
  BY <1>1, <1>2, <1>3 DEF Proof!TypeOK
<1>7. ProofFrame(m)
  BY <1>1, <1>2, <1>3 DEF ProofFrame, Proof!TypeOK
<1>8. Proof!TypeOK'
  <2>1. pc' \in [Workers -> Proof!Stages] /\ map_path' \in [Workers -> {"map"} \X Serials]
    BY <1>1, <1>2, <1>3, <1>5 DEF Proof!TypeOK, Proof!Stages, Proof!RepStages
  <2>2. shared' \subseteq ProofPaths
    BY <1>3, <1>4 DEF Proof!TypeOK, ProofPaths
  <2> QED BY <1>2, <1>3, <2>1, <2>2 DEF Proof!TypeOK, Proof!FilesTypeOK, ProofPaths
<1>9. At(ProofPaths, NameOf(m), ProofHeld(m)) /\ Kept(NameOf(m))
  BY <1>2, StillAt, ProofFacts DEF files
<1>10. \A q \in ProofPaths : q \notin shared' => ProofWhole(q)' /\ published'[q] = published[q]
  BY <1>2, <1>4 DEF ProofInv, ProofWhole, Proof!Image
<1>11. ProofMiner(m)'
  <2>1. p \notin shared' => published[p] = Nobody
    BY <1>4, <1>5 DEF ProofInv, ProofWhole
  <2>2. outcome[m] = "running"
    BY <1>2, <1>3 DEF ProofMiner, Proof!Stages
  <2> QED BY <1>2, <1>3, <1>4, <1>5, <1>6, <2>1, <2>2 DEF ProofMiner, ProofRep, ProofMap
<1>12. \A n \in Workers \ {m}, q \in ProofPaths :
         q \in Proof!Picked(m)' /\ q \in Proof!Picked(n) => q \in shared'
  <2>1. Proof!Picked(m)' = Proof!Picked(m) \cup {p}
    BY <1>2, <1>6, PickedIs
  <2> QED BY <2>1, <1>4 DEF ProofInv, ProofApart
<1> QED BY <1>2, <1>4, <1>7, <1>8, <1>9, <1>10, <1>11, <1>12 DEF ProofMove, files

LEMMA ProofOpens ==
  ASSUME ProofInv, NEW m \in Workers, Proof!Open(m) \/ Proof!OpenMap(m)
  PROVE  ProofMove(m)
<1> PICK p \in ProofPaths : p = NameOf(m)
  BY ProofFacts
<1>1. PICK stage \in {"extend", "map_write"} :
        /\ Proof!OpenAs(m, p, stage)
        /\ \/ pc[m] = "open" /\ stage = "extend" /\ p = path[m]
           \/ pc[m] = "map_open" /\ stage = "map_write" /\ p = map_path[m]
  BY DEF Proof!Open, Proof!OpenMap, NameOf, Proof!MapStages
<1>2. /\ pc' = [pc EXCEPT ![m] = stage]
      /\ UNCHANGED <<recipe, path, map_path, pos, outcome, runs, published, shared, orphaned>>
  BY <1>1 DEF Proof!OpenAs, Proof!Goto, Proof!history
<1>3. PICK i \in Inodes : Proof!OpenPart(p, i, ProofHeld(m)) /\ fd' = [fd EXCEPT ![m] = i]
  BY <1>1 DEF Proof!OpenAs, ProofHeld
<1>4. Opens(ProofPaths, p, i, ProofHeld(m)) /\ final' = final
  BY <1>3, ProofOperations DEF Opens
<1>5. /\ At(ProofPaths, p, ProofHeld(m)) /\ Kept(p)
      /\ part'[p] = i /\ disk'[i] = <<>> /\ Tied(ProofPaths, i, p)'
  <2>1. /\ Directory(ProofPaths) /\ OneName(ProofPaths) /\ NoFile \notin Inodes
        /\ ProofHeld(m) \in SUBSET Inodes
    BY ProofFacts
  <2> QED BY <1>4, <2>1, OpensAt
<1>6. Proof!TypeOK /\ ProofMiner(m)
  BY ProofFacts DEF ProofInv
<1>7. Proof!TypeOK'
  <2>1. disk' \in [Inodes -> Seq(Proofs \cup {Hole})]
    BY <1>4, <1>6 DEF Opens, Proof!TypeOK, Proof!FilesTypeOK
  <2>2. Proof!FilesTypeOK(Proofs)'
    BY <2>1, <1>5 DEF Proof!FilesTypeOK, At, Directory, ProofPaths
  <2>3. fd' \in [Workers -> Inodes] /\ pc' \in [Workers -> Proof!Stages]
    BY <1>2, <1>3, <1>6 DEF Proof!TypeOK, Proof!Stages, Proof!RepStages, Proof!MapStages
  <2> QED BY <1>2, <1>6, <2>2, <2>3 DEF Proof!TypeOK
<1>8. pc'[m] = stage /\ fd'[m] = i /\ ProofFrame(m)
  BY <1>2, <1>3, <1>6 DEF ProofFrame, Proof!TypeOK
<1>9. NameOf(m)' = p
  BY <1>1, <1>2, <1>8 DEF NameOf, Proof!MapStages
<1>10. ProofMiner(m)'
  <2>1. Tied(ProofPaths, fd[m], NameOf(m))'
    BY <1>5, <1>8, <1>9 DEF Tied
  <2>2. path[m] \notin shared => ProofRep(m)'
    BY <1>1, <1>2, <1>4, <1>5, <1>6, <1>8 DEF ProofMiner, ProofRep
  <2>3. map_path[m] \notin shared => ProofMap(m)'
    BY <1>1, <1>2, <1>4, <1>5, <1>6, <1>8 DEF ProofMiner, ProofMap
  <2>4. outcome[m] = "running" /\ recipe[m] \in Proofs
    BY <1>1, <1>6 DEF ProofMiner, Proof!Stages, Proof!RepStages, Proof!MapStages
  <2>5. stage = "extend" => pos[m] = 0
    BY <1>1, <1>6 DEF ProofMiner
  <2> QED BY <1>2, <1>8, <2>1, <2>2, <2>3, <2>4, <2>5 DEF ProofMiner
<1>11. \A q \in ProofPaths : q = p /\ q \notin shared' => ProofWhole(q)'
  <2>1. p \notin shared => published[p] = Nobody
    BY <1>1, <1>6 DEF ProofMiner, ProofRep, ProofMap
  <2> QED BY <1>2, <2>1 DEF ProofWhole
<1>12. \A n \in Workers \ {m}, q \in ProofPaths :
         q \in Proof!Picked(m)' /\ q \in Proof!Picked(n) => q \in shared'
  <2>1. Proof!Picked(m)' = Proof!Picked(m)
    BY <1>1, <1>2, <1>8, PickedIs
  <2> QED BY <2>1, <1>2 DEF ProofInv, ProofApart
<1> QED BY <1>1, <1>2, <1>5, <1>7, <1>8, <1>9, <1>10, <1>11, <1>12 DEF ProofMove

\* What a write of m does to the files.
LEMMA ProofWrites ==
  ASSUME ProofInv, NEW m \in Workers, pc[m] \in {"extend", "stream", "map_write"},
         NEW o \in 1 .. Chunks, NEW v \in Proofs \cup {Hole}, Proof!WriteChunk(fd[m], o, v),
         UNCHANGED published
  PROVE  /\ At(ProofPaths, NameOf(m), ProofHeld(m)) /\ Proof!FilesTypeOK(Proofs)'
         /\ final' = final /\ part' = part /\ disk'[fd[m]] = Target!PutChunk(disk[fd[m]], o, v)
         /\ NameOf(m) \notin shared =>
              Kept(NameOf(m)) /\ \A p \in ProofPaths : p = NameOf(m) => ProofWhole(p)'
<1> PICK p \in ProofPaths : p = NameOf(m)
  BY ProofFacts
<1> PICK i \in Inodes : i = fd[m]
  BY ProofFacts
<1> PICK t : t = Target!PutChunk(disk[i], o, v)
  OBVIOUS
<1> DEFINE S == Proofs \cup {Hole}
<1>1. Writes(i, t)
  BY ProofOperations DEF Writes
<1>2. Proof!TypeOK /\ ProofMiner(m) /\ Tied(ProofPaths, i, p)
  BY ProofFacts DEF ProofInv, ProofMiner
<1>3. t \in Seq(S)
  <2>1. disk[i] \in Seq(S) /\ v \in S /\ Hole \in S /\ o \in Nat \ {0}
    BY <1>2, ProofConstants DEF Proof!TypeOK, Proof!FilesTypeOK
  <2> HIDE DEF S
  <2> QED BY <2>1, PutChunkIs
<1>4. At(ProofPaths, p, ProofHeld(m))
  <2>1. Directory(ProofPaths) /\ OneName(ProofPaths) /\ ProofHeld(m) \in SUBSET Inodes
    BY ProofFacts
  <2> HIDE DEF S
  <2> QED BY <2>1, <1>1, <1>2, WritesAt
<1>5. final' = final /\ part' = part /\ disk'[i] = t
  BY <1>1, ProofFacts DEF Writes, Directory
<1>6. Proof!FilesTypeOK(Proofs)'
  <2>1. disk' \in [Inodes -> Seq(S)]
    BY <1>1, <1>2, <1>3 DEF Writes, Proof!TypeOK, Proof!FilesTypeOK
  <2> QED BY <2>1, <1>2, <1>5 DEF Proof!FilesTypeOK, Proof!TypeOK
<1>7. p \notin shared => final[p] = NoFile /\ published[p] = Nobody
  BY <1>2 DEF ProofMiner, ProofRep, ProofMap, NameOf, Proof!MapStages
<1> QED BY <1>4, <1>5, <1>6, <1>7 DEF Kept, ProofWhole

LEMMA ProofExtends ==
  ASSUME ProofInv, NEW m \in Workers, Proof!Extend(m)
  PROVE  ProofMove(m)
<1>1. /\ pc[m] = "extend" /\ Proof!WriteChunk(fd[m], Chunks, Hole) /\ pc' = [pc EXCEPT ![m] = "stream"]
      /\ UNCHANGED <<recipe, path, map_path, fd, pos, outcome, runs, published, shared, orphaned>>
  BY DEF Proof!Extend, Proof!Goto, Proof!history
<1>2. /\ At(ProofPaths, NameOf(m), ProofHeld(m)) /\ Proof!FilesTypeOK(Proofs)'
      /\ final' = final /\ part' = part /\ disk'[fd[m]] = Target!PutChunk(disk[fd[m]], Chunks, Hole)
      /\ NameOf(m) \notin shared =>
           Kept(NameOf(m)) /\ \A p \in ProofPaths : p = NameOf(m) => ProofWhole(p)'
  BY <1>1, ProofWrites, ProofConstants
<1>3. Proof!TypeOK /\ ProofMiner(m) /\ recipe[m] \in Proofs /\ pos[m] = 0 /\ outcome[m] = "running"
  BY <1>1, ProofFacts DEF ProofInv, ProofMiner, Proof!Stages, Proof!RepStages
<1>4. pc'[m] = "stream" /\ ProofFrame(m) /\ NameOf(m)' = NameOf(m) /\ Proof!Picked(m)' = Proof!Picked(m)
  BY <1>1, <1>3, PickedIs DEF ProofFrame, Proof!TypeOK, NameOf, Proof!MapStages
<1>5. Proof!TypeOK'
  <2>1. pc' \in [Workers -> Proof!Stages]
    BY <1>1, <1>3 DEF Proof!TypeOK, Proof!Stages, Proof!RepStages
  <2> QED BY <1>1, <1>2, <1>3, <2>1 DEF Proof!TypeOK
<1>6. disk[fd[m]] = <<>> =>
        disk'[fd[m]] = [c \in 1 .. Chunks |-> IF c \in Covers[recipe[m]] /\ c <= pos[m] THEN recipe[m] ELSE Hole]
  <2>1. Target!PutChunk(<<>>, Chunks, Hole) = [c \in 1 .. Chunks |-> Hole]
    BY ProofConstants DEF Target!PutChunk
  <2>2. \A c \in 1 .. Chunks : ~(c <= pos[m])
    BY <1>3, ProofConstants
  <2> QED BY <1>2, <2>1, <2>2
<1>7. ProofMiner(m)'
  <2>1. Tied(ProofPaths, fd[m], NameOf(m))'
    BY <1>1, <1>2, <1>3, <1>4 DEF ProofMiner, Tied
  <2>2. path[m] \notin shared => ProofRep(m)'
    BY <1>1, <1>2, <1>3, <1>4, <1>6 DEF ProofMiner, ProofRep
  <2>3. map_path[m] \notin shared => ProofMap(m)'
    BY <1>1, <1>2, <1>3, <1>4 DEF ProofMiner, ProofMap
  <2> QED BY <1>1, <1>3, <1>4, <2>1, <2>2, <2>3 DEF ProofMiner
<1>8. \A n \in Workers \ {m}, q \in ProofPaths :
        q \in Proof!Picked(m)' /\ q \in Proof!Picked(n) => q \in shared'
  BY <1>1, <1>4 DEF ProofInv, ProofApart
<1> QED BY <1>1, <1>2, <1>4, <1>5, <1>7, <1>8 DEF ProofMove

LEMMA ProofStreams ==
  ASSUME ProofInv, NEW m \in Workers, Proof!Stream(m)
  PROVE  ProofMove(m)
<1>1. PICK c \in Proof!Ahead(m) :
        /\ \A d \in Proof!Ahead(m) : c <= d
        /\ Proof!WriteChunk(fd[m], c, recipe[m]) /\ pos' = [pos EXCEPT ![m] = c]
  BY DEF Proof!Stream
<1>2. /\ pc[m] = "stream"
      /\ UNCHANGED <<pc, recipe, path, map_path, fd, outcome, runs, published, shared, orphaned>>
  BY DEF Proof!Stream, Proof!history
<1>3. /\ Proof!TypeOK /\ ProofMiner(m) /\ recipe[m] \in Proofs /\ pos[m] \in 0 .. Chunks
      /\ outcome[m] = "running"
  BY <1>2, ProofFacts DEF ProofInv, ProofMiner, Proof!Stages, Proof!RepStages
<1>4. Covers[recipe[m]] \subseteq 1 .. Chunks
  BY <1>3, ProofConstants
<1>5. c \in Covers[recipe[m]] /\ c \in 1 .. Chunks /\ c > pos[m]
  BY <1>4 DEF Proof!Ahead
<1>6. /\ At(ProofPaths, NameOf(m), ProofHeld(m)) /\ Proof!FilesTypeOK(Proofs)'
      /\ final' = final /\ part' = part /\ disk'[fd[m]] = Target!PutChunk(disk[fd[m]], c, recipe[m])
      /\ NameOf(m) \notin shared =>
           Kept(NameOf(m)) /\ \A p \in ProofPaths : p = NameOf(m) => ProofWhole(p)'
  BY <1>1, <1>2, <1>3, <1>5, ProofWrites
<1>7. pos'[m] = c /\ ProofFrame(m) /\ NameOf(m)' = NameOf(m) /\ Proof!Picked(m)' = Proof!Picked(m)
  BY <1>1, <1>2, <1>3, PickedIs DEF ProofFrame, Proof!TypeOK, NameOf
<1>8. Proof!TypeOK'
  <2>1. pos' \in [Workers -> 0 .. Chunks]
    BY <1>1, <1>3, <1>5, ProofConstants DEF Proof!TypeOK
  <2> QED BY <1>2, <1>3, <1>6, <2>1 DEF Proof!TypeOK
<1>9. path[m] \notin shared =>
        disk'[fd[m]] = [j \in 1 .. Chunks |-> IF j \in Covers[recipe[m]] /\ j <= c THEN recipe[m] ELSE Hole]
  <2> SUFFICES ASSUME path[m] \notin shared
               PROVE  disk'[fd[m]] = [j \in 1 .. Chunks |->
                                       IF j \in Covers[recipe[m]] /\ j <= c THEN recipe[m] ELSE Hole]
    OBVIOUS
  <2> DEFINE s == [j \in 1 .. Chunks |-> IF j \in Covers[recipe[m]] /\ j <= pos[m] THEN recipe[m] ELSE Hole]
  <2>1. disk[fd[m]] = s
    BY <1>2, <1>3 DEF ProofMiner, ProofRep
  <2>2. Len(s) = Chunks
    BY ProofConstants
  <2>3. Target!PutChunk(s, c, recipe[m]) =
          [j \in 1 .. Chunks |-> IF j = c THEN recipe[m] ELSE IF j <= Len(s) THEN s[j] ELSE Hole]
    <3> HIDE DEF s
    <3> QED BY <1>5, <2>2, ProofConstants DEF Target!PutChunk
  <2>4. \A j \in 1 .. Chunks :
          (IF j = c THEN recipe[m] ELSE IF j <= Len(s) THEN s[j] ELSE Hole)
            = (IF j \in Covers[recipe[m]] /\ j <= c THEN recipe[m] ELSE Hole)
    <3> SUFFICES ASSUME NEW j \in 1 .. Chunks, j # c
                 PROVE  s[j] = (IF j \in Covers[recipe[m]] /\ j <= c THEN recipe[m] ELSE Hole)
      BY <1>5, <2>2, ProofConstants
    <3>1. j \in Covers[recipe[m]] /\ j > pos[m] => c <= j
      BY <1>1 DEF Proof!Ahead
    <3>2. j \in Covers[recipe[m]] => (j <= pos[m] <=> j <= c)
      BY <1>3, <1>5, <3>1, ProofConstants
    <3> QED BY <3>2
  <2> HIDE DEF s
  <2> QED BY <1>6, <2>1, <2>3, <2>4
<1>10. ProofMiner(m)'
  <2>1. Tied(ProofPaths, fd[m], NameOf(m))'
    BY <1>2, <1>3, <1>6, <1>7 DEF ProofMiner, Tied
  <2>2. path[m] \notin shared => ProofRep(m)'
    BY <1>2, <1>3, <1>6, <1>7, <1>9 DEF ProofMiner, ProofRep
  <2>3. map_path[m] \notin shared => ProofMap(m)'
    BY <1>2, <1>3, <1>6, <1>7 DEF ProofMiner, ProofMap
  <2> QED BY <1>2, <1>3, <1>7, <2>1, <2>2, <2>3 DEF ProofMiner
<1>11. \A n \in Workers \ {m}, q \in ProofPaths :
         q \in Proof!Picked(m)' /\ q \in Proof!Picked(n) => q \in shared'
  BY <1>2, <1>7 DEF ProofInv, ProofApart
<1> QED BY <1>2, <1>6, <1>7, <1>8, <1>10, <1>11 DEF ProofMove

LEMMA ProofWritesMap ==
  ASSUME ProofInv, NEW m \in Workers, Proof!WriteMap(m)
  PROVE  ProofMove(m)
<1>1. /\ pc[m] = "map_write" /\ Proof!WriteChunk(fd[m], 1, recipe[m]) /\ pc' = [pc EXCEPT ![m] = "map_replace"]
      /\ UNCHANGED <<recipe, path, map_path, fd, pos, outcome, runs, published, shared, orphaned>>
  BY DEF Proof!WriteMap, Proof!Goto, Proof!history
<1>2. /\ Proof!TypeOK /\ ProofMiner(m) /\ recipe[m] \in Proofs /\ outcome[m] = "running"
      /\ map_path[m][1] = "map"
  BY <1>1, ProofFacts DEF ProofInv, ProofMiner, Proof!Stages, Proof!MapStages
<1>3. /\ At(ProofPaths, NameOf(m), ProofHeld(m)) /\ Proof!FilesTypeOK(Proofs)'
      /\ final' = final /\ part' = part /\ disk'[fd[m]] = Target!PutChunk(disk[fd[m]], 1, recipe[m])
      /\ NameOf(m) \notin shared =>
           Kept(NameOf(m)) /\ \A p \in ProofPaths : p = NameOf(m) => ProofWhole(p)'
  <2>1. 1 \in 1 .. Chunks
    BY ProofConstants
  <2> QED BY <1>1, <1>2, <2>1, ProofWrites
<1>4. pc'[m] = "map_replace" /\ ProofFrame(m) /\ NameOf(m)' = NameOf(m) /\ Proof!Picked(m)' = Proof!Picked(m)
  BY <1>1, <1>2, PickedIs DEF ProofFrame, Proof!TypeOK, NameOf, Proof!MapStages
<1>5. Proof!TypeOK'
  <2>1. pc' \in [Workers -> Proof!Stages]
    BY <1>1, <1>2 DEF Proof!TypeOK, Proof!Stages, Proof!MapStages
  <2> QED BY <1>1, <1>2, <1>3, <2>1 DEF Proof!TypeOK
<1>6. disk[fd[m]] = <<>> => disk'[fd[m]] = <<recipe[m]>>
  <2>1. Target!PutChunk(<<>>, 1, recipe[m]) = <<recipe[m]>>
    BY DEF Target!PutChunk
  <2> QED BY <1>3, <2>1
<1>7. ProofMiner(m)'
  <2>1. path[m] \notin shared => ProofRep(m)'
    BY <1>1, <1>2, <1>3, <1>4 DEF ProofMiner, ProofRep
  <2>2. fd[m] # NoFile
    BY ProofFacts
  <2>3. map_path[m] \notin shared => ProofMap(m)'
    BY <1>1, <1>2, <1>3, <1>4, <1>6, <2>2 DEF ProofMiner, ProofMap, Proof!Image
  <2> QED BY <1>1, <1>2, <1>4, <2>1, <2>3 DEF ProofMiner
<1>8. \A n \in Workers \ {m}, q \in ProofPaths :
        q \in Proof!Picked(m)' /\ q \in Proof!Picked(n) => q \in shared'
  BY <1>1, <1>4 DEF ProofInv, ProofApart
<1> QED BY <1>1, <1>3, <1>4, <1>5, <1>7, <1>8 DEF ProofMove

\* A step that changes no file and picks no name.
LEMMA ProofStill ==
  ASSUME ProofInv, NEW m \in Workers, UNCHANGED <<files, published, shared>>,
         pc[m] \notin {"idle", "map_name"} =>
           \/ pc'[m] \notin {"idle", "map_name"} /\ NameOf(m)' = NameOf(m)
           \/ NameOf(m) \in orphaned',
         Proof!Picked(m)' \subseteq Proof!Picked(m), orphaned \subseteq orphaned',
         Proof!TypeOK', ProofMiner(m)', ProofFrame(m)
  PROVE  ProofMove(m)
<1>1. At(ProofPaths, NameOf(m), ProofHeld(m)) /\ Kept(NameOf(m))
  BY StillAt, ProofFacts
<1>2. \A q \in ProofPaths : q \notin shared' => ProofWhole(q)'
  BY DEF ProofInv, ProofWhole, files, Proof!Image
<1>3. \A n \in Workers \ {m}, q \in ProofPaths :
        q \in Proof!Picked(m)' /\ q \in Proof!Picked(n) => q \in shared'
  BY DEF ProofInv, ProofApart
<1> QED BY <1>1, <1>2, <1>3 DEF ProofMove

LEMMA ProofCloses ==
  ASSUME ProofInv, NEW m \in Workers, Proof!CloseFile(m)
  PROVE  ProofMove(m)
<1>1. /\ pc[m] = "stream" /\ Proof!Ahead(m) = {} /\ pc' = [pc EXCEPT ![m] = "replace"]
      /\ UNCHANGED <<final, part, disk, recipe, path, map_path, fd, pos, outcome, runs, published, shared, orphaned>>
  BY DEF Proof!CloseFile, Proof!Goto, Proof!history, Proof!files
<1>2. /\ Proof!TypeOK /\ ProofMiner(m) /\ recipe[m] \in Proofs /\ outcome[m] = "running"
      /\ path[m][1] # "map" /\ fd[m] # NoFile /\ pos[m] \in 0 .. Chunks
  BY <1>1, ProofFacts DEF ProofInv, ProofMiner, Proof!Stages, Proof!RepStages
<1>3. pc'[m] = "replace" /\ ProofFrame(m) /\ NameOf(m)' = NameOf(m) /\ Proof!Picked(m)' = Proof!Picked(m)
  BY <1>1, <1>2, PickedIs DEF ProofFrame, Proof!TypeOK, NameOf, Proof!MapStages
<1>4. Proof!TypeOK'
  <2>1. pc' \in [Workers -> Proof!Stages]
    BY <1>1, <1>2 DEF Proof!TypeOK, Proof!Stages, Proof!RepStages
  <2> QED BY <1>1, <1>2, <2>1 DEF Proof!TypeOK, Proof!FilesTypeOK
<1>5. path[m] \notin shared => disk[part[path[m]]] = Proof!Image(path[m], recipe[m])
  <2>1. \A c \in 1 .. Chunks : c \in Covers[recipe[m]] => c <= pos[m]
    BY <1>1, <1>2, ProofConstants DEF Proof!Ahead
  <2> QED BY <1>1, <1>2, <2>1 DEF ProofMiner, ProofRep, Proof!Image
<1>6. ProofMiner(m)'
  <2>1. path[m] \notin shared => ProofRep(m)'
    BY <1>1, <1>2, <1>3, <1>5 DEF ProofMiner, ProofRep, Proof!Image
  <2>2. map_path[m] \notin shared => ProofMap(m)'
    BY <1>1, <1>2, <1>3 DEF ProofMiner, ProofMap
  <2> QED BY <1>1, <1>2, <1>3, <2>1, <2>2 DEF ProofMiner
<1>7. pc'[m] \notin {"idle", "map_name"}
  BY <1>3
<1> QED BY <1>1, <1>3, <1>4, <1>6, <1>7, ProofStill DEF files

LEMMA ProofUnwinds ==
  ASSUME ProofInv, NEW m \in Workers,
         pc[m] \notin {"idle", "map_name", "cleanup", "map_cleanup"}, Proof!Unwind(m)
  PROVE  ProofMove(m)
<1> PICK stage \in {"cleanup", "map_cleanup"} :
       stage = IF pc[m] \in Proof!RepStages THEN "cleanup" ELSE "map_cleanup"
  OBVIOUS
<1>1. /\ pc' = [pc EXCEPT ![m] = stage] /\ outcome' = [outcome EXCEPT ![m] = "failed"]
      /\ UNCHANGED <<final, part, disk, recipe, path, map_path, fd, pos, runs, published, shared, orphaned>>
  BY DEF Proof!Unwind, Proof!Goto, Proof!history, Proof!files
<1>2. Proof!TypeOK /\ ProofMiner(m) /\ pc[m] \in Proof!Stages
  BY ProofFacts DEF ProofInv, Proof!TypeOK
<1>3. pc'[m] = stage /\ outcome'[m] = "failed" /\ ProofFrame(m)
  BY <1>1, <1>2 DEF ProofFrame, Proof!TypeOK
<1>4. NameOf(m)' = NameOf(m) /\ Proof!Picked(m)' = Proof!Picked(m)
  BY <1>1, <1>2, <1>3, PickedIs DEF NameOf, Proof!Stages, Proof!RepStages, Proof!MapStages
<1>5. Proof!TypeOK'
  <2>1. /\ pc' \in [Workers -> Proof!Stages]
        /\ outcome' \in [Workers -> {"none", "running", "ok", "failed", "died"}]
    BY <1>1, <1>2 DEF Proof!TypeOK, Proof!Stages, Proof!RepStages, Proof!MapStages
  <2> QED BY <1>1, <1>2, <2>1 DEF Proof!TypeOK, Proof!FilesTypeOK
<1>6. ProofMiner(m)'
  BY <1>1, <1>2, <1>3 DEF ProofMiner, ProofRep, ProofMap
<1> QED BY <1>1, <1>3, <1>4, <1>5, <1>6, ProofStill DEF files

LEMMA ProofPublishes ==
  ASSUME ProofInv, NEW m \in Workers, Proof!PublishRep(m) \/ Proof!PublishMap(m)
  PROVE  ProofMove(m)
<1> PICK p \in ProofPaths : p = NameOf(m)
  BY ProofFacts
<1>1. /\ Proof!ReplacePart(p) /\ published' = [published EXCEPT ![p] = recipe[m]]
      /\ \/ /\ pc[m] = "replace" /\ p = path[m] /\ pc' = [pc EXCEPT ![m] = "cleanup"]
            /\ outcome' = [outcome EXCEPT ![m] = "running"]
         \/ /\ pc[m] = "map_replace" /\ p = map_path[m] /\ pc' = [pc EXCEPT ![m] = "map_cleanup"]
            /\ outcome' = [outcome EXCEPT ![m] = "ok"]
      /\ UNCHANGED <<recipe, path, map_path, fd, pos, runs, shared, orphaned>>
  <2>1. CASE Proof!PublishRep(m)
    <3>1. pc[m] = "replace" /\ outcome' = outcome /\ outcome[m] = "running" /\ outcome \in [Workers -> {"none", "running", "ok", "failed", "died"}]
      BY <2>1, ProofFacts DEF ProofInv, ProofMiner, Proof!PublishRep, Proof!Stages, Proof!RepStages, Proof!TypeOK
    <3>2. outcome' = [outcome EXCEPT ![m] = "running"]
      BY <3>1
    <3> QED BY <2>1, <3>1, <3>2 DEF Proof!PublishRep, Proof!Goto, Proof!history, NameOf, Proof!MapStages
  <2>2. CASE Proof!PublishMap(m)
    BY <2>2 DEF Proof!PublishMap, Proof!Goto, Proof!history, NameOf, Proof!MapStages
  <2> QED BY <2>1, <2>2
<1>2. Replaces(p)
  BY <1>1, ProofOperations
<1>3. /\ At(ProofPaths, p, ProofHeld(m))
      /\ final'[p] = part[p] /\ part'[p] = NoFile /\ disk' = disk /\ part[p] \in Inodes
  <2>1. /\ Directory(ProofPaths) /\ OneName(ProofPaths) /\ NoFile \notin Inodes
        /\ ProofHeld(m) \in SUBSET Inodes
    BY ProofFacts
  <2> QED BY <1>2, <2>1, ReplacesAt
<1>4. /\ Proof!TypeOK /\ ProofMiner(m) /\ recipe[m] \in Proofs /\ path[m] # map_path[m]
      /\ path[m] \in ProofPaths /\ map_path[m] \in ProofPaths
  BY <1>1, ProofFacts DEF ProofInv, ProofMiner
<1>5. /\ ProofFrame(m) /\ published'[p] = recipe[m]
      /\ \A q \in ProofPaths \ {p} : published'[q] = published[q]
      /\ \/ pc[m] = "replace" /\ p = path[m] /\ pc'[m] = "cleanup" /\ outcome'[m] = "running"
         \/ pc[m] = "map_replace" /\ p = map_path[m] /\ pc'[m] = "map_cleanup" /\ outcome'[m] = "ok"
  <2>1. ProofFrame(m)
    BY <1>1, <1>4 DEF ProofFrame, Proof!TypeOK
  <2>2. published \in [ProofPaths -> Proofs \cup {Nobody}]
    BY <1>4 DEF Proof!TypeOK, ProofPaths
  <2>3. published'[p] = recipe[m] /\ \A q \in ProofPaths \ {p} : published'[q] = published[q]
    BY <2>2, <1>1
  <2>4. pc \in [Workers -> Proof!Stages]
    BY <1>4 DEF Proof!TypeOK
  <2>5. outcome \in [Workers -> {"none", "running", "ok", "failed", "died"}]
    BY <1>4 DEF Proof!TypeOK
  <2>6. \/ pc[m] = "replace" /\ p = path[m] /\ pc'[m] = "cleanup" /\ outcome'[m] = "running"
        \/ pc[m] = "map_replace" /\ p = map_path[m] /\ pc'[m] = "map_cleanup" /\ outcome'[m] = "ok"
    <3>1. CASE pc[m] = "replace"
      BY <3>1, <2>4, <2>5, <1>1
    <3>2. CASE pc[m] # "replace"
      BY <3>2, <2>4, <2>5, <1>1
    <3> QED BY <3>1, <3>2
  <2> QED BY <2>1, <2>3, <2>6
<1>6. NameOf(m)' = p /\ Proof!Picked(m)' = Proof!Picked(m)
  BY <1>1, <1>5, PickedIs DEF NameOf, Proof!MapStages
<1>7. Proof!TypeOK'
  <2>1. Proof!FilesTypeOK(Proofs)'
    BY <1>3, <1>4 DEF Proof!TypeOK, Proof!FilesTypeOK, At, Directory, ProofPaths
  <2>2. /\ pc' \in [Workers -> Proof!Stages]
        /\ outcome' \in [Workers -> {"none", "running", "ok", "failed", "died"}]
    BY <1>1, <1>4 DEF Proof!TypeOK, Proof!Stages, Proof!RepStages, Proof!MapStages
  <2>3. published' \in [{"raw", "b64", "map"} \X Serials -> Proofs \cup {Nobody}]
    BY <1>1, <1>4 DEF Proof!TypeOK
  <2> QED BY <2>1, <2>2, <2>3, <1>1, <1>4 DEF Proof!TypeOK
<1>8. p \notin shared =>
        final[p] = NoFile /\ published[p] = Nobody /\ disk[part[p]] = Proof!Image(p, recipe[m])
  BY <1>4, <1>5 DEF ProofMiner, ProofRep, ProofMap
<1>9. p \notin shared => ProofWhole(p)'
  BY <1>3, <1>5, <1>8, ProofConstants DEF ProofWhole, Proof!Image
<1>10. ProofMiner(m)'
  <2>1. CASE pc[m] = "replace"
    <3>1. map_path[m] \in ProofPaths \ {p} /\ pc'[m] = "cleanup" /\ outcome'[m] = "running" /\ p = path[m]
      BY <2>1, <1>4, <1>5
    <3>2. final'[map_path[m]] = final[map_path[m]] /\ published'[map_path[m]] = published[map_path[m]]
      BY <3>1, <1>3, <1>5 DEF At, Untouched
    <3>3. map_path[m] \notin shared => final[map_path[m]] = NoFile /\ published[map_path[m]] = Nobody
      BY <2>1, <1>4 DEF ProofMiner, ProofMap
    <3> QED BY <1>1, <1>4, <1>5, <3>1, <3>2, <3>3 DEF ProofMiner, ProofRep, ProofMap
  <2>2. CASE pc[m] = "map_replace"
    <3>1. path[m] \in ProofPaths \ {p} /\ pc'[m] = "map_cleanup" /\ outcome'[m] = "ok" /\ p = map_path[m]
      BY <2>2, <1>4, <1>5
    <3>2. published'[path[m]] = published[path[m]]
      BY <3>1, <1>5
    <3>3. path[m] \notin shared => published[path[m]] = recipe[m]
      BY <2>2, <1>4 DEF ProofMiner, ProofRep
    <3> QED BY <1>1, <1>4, <1>5, <3>1, <3>2, <3>3 DEF ProofMiner, ProofRep, ProofMap
  <2> QED BY <2>1, <2>2, <1>5
<1>11. \A n \in Workers \ {m}, q \in ProofPaths :
         q \in Proof!Picked(m)' /\ q \in Proof!Picked(n) => q \in shared'
  BY <1>1, <1>6 DEF ProofInv, ProofApart
<1>12. p \notin shared => Kept(p) /\ published[p] = Nobody
  BY <1>8 DEF Kept
<1>13. pc[m] \notin {"idle", "map_name"} /\ part'[NameOf(m)] = NoFile
  BY <1>3, <1>5
<1> QED BY <1>1, <1>3, <1>5, <1>7, <1>9, <1>10, <1>11, <1>12, <1>13 DEF ProofMove

\* What the end of a run leaves of it.
LEMMA ProofLeaves ==
  ASSUME ProofInv, NEW m \in Workers, NEW how \in {"none", "running", "ok", "failed", "died"},
         Proof!Leave(m, how), UNCHANGED <<runs, published, shared>>,
         how = "ok" => outcome[m] = "ok",
         Proof!FilesTypeOK(Proofs)', orphaned' \in SUBSET ProofPaths
  PROVE  /\ Proof!TypeOK' /\ ProofMiner(m)' /\ pc'[m] = "idle" /\ Proof!Picked(m)' = {} /\ ProofFrame(m)
<1>1. Proof!TypeOK /\ ProofMiner(m)
  BY ProofFacts DEF ProofInv
<1>2. /\ pc' = [pc EXCEPT ![m] = "idle"] /\ outcome' = [outcome EXCEPT ![m] = how]
      /\ fd' = [fd EXCEPT ![m] = 1] /\ pos' = [pos EXCEPT ![m] = 0]
      /\ IF how = "ok" THEN UNCHANGED <<recipe, path, map_path>>
         ELSE /\ recipe' = [recipe EXCEPT ![m] = Nobody] /\ path' = [path EXCEPT ![m] = <<"raw", 1>>]
              /\ map_path' = [map_path EXCEPT ![m] = <<"map", 1>>]
  BY DEF Proof!Leave, Proof!Goto
<1>3. Proof!TypeOK'
  <2>1. /\ pc' \in [Workers -> Proof!Stages] /\ fd' \in [Workers -> Inodes] /\ pos' \in [Workers -> 0 .. Chunks]
        /\ outcome' \in [Workers -> {"none", "running", "ok", "failed", "died"}]
    BY <1>1, <1>2, ProofConstants DEF Proof!TypeOK, Proof!Stages
  <2>2. /\ recipe' \in [Workers -> Proofs \cup {Nobody}] /\ path' \in [Workers -> {"raw", "b64"} \X Serials]
        /\ map_path' \in [Workers -> {"map"} \X Serials]
    <3>1. <<"raw", 1>> \in {"raw", "b64"} \X Serials /\ <<"map", 1>> \in {"map"} \X Serials
      BY ProofConstants
    <3>2. CASE how = "ok"
      BY <3>2, <1>1, <1>2 DEF Proof!TypeOK
    <3>3. CASE how # "ok"
      <4>1. recipe' \in [Workers -> Proofs \cup {Nobody}]
        BY <3>3, <1>1, <1>2 DEF Proof!TypeOK
      <4>2. path' \in [Workers -> {"raw", "b64"} \X Serials]
        BY <3>1, <3>3, <1>1, <1>2 DEF Proof!TypeOK
      <4>3. map_path' \in [Workers -> {"map"} \X Serials]
        BY <3>1, <3>3, <1>1, <1>2 DEF Proof!TypeOK
      <4> QED BY <4>1, <4>2, <4>3
    <3> QED BY <3>2, <3>3
  <2> QED BY <1>1, <2>1, <2>2 DEF Proof!TypeOK, ProofPaths
<1>4. /\ pc'[m] = "idle" /\ outcome'[m] = how /\ pos'[m] = 0
      /\ how = "ok" => recipe'[m] = recipe[m] /\ path'[m] = path[m] /\ map_path'[m] = map_path[m]
  BY <1>1, <1>2 DEF Proof!TypeOK
<1>5. ProofMiner(m)'
  BY <1>1, <1>4 DEF ProofMiner, ProofRep, ProofMap
<1>6. ProofFrame(m)
  BY <1>1, <1>2 DEF ProofFrame, Proof!TypeOK
<1> QED BY <1>3, <1>4, <1>5, <1>6, PickedIs

LEMMA ProofCleans ==
  ASSUME ProofInv, NEW m \in Workers, Proof!Cleanup(m) \/ Proof!CleanupMap(m)
  PROVE  ProofMove(m)
<1> PICK p \in ProofPaths : p = NameOf(m)
  BY ProofFacts
<1>1. /\ pc[m] \in {"cleanup", "map_cleanup"} /\ Proof!UnlinkPart(p, ProofHeld(m))
      /\ \/ /\ pc[m] = "cleanup" /\ outcome[m] = "running" /\ pc' = [pc EXCEPT ![m] = "map_open"]
            /\ UNCHANGED <<recipe, path, map_path, fd, pos, outcome>>
         \/ Proof!Leave(m, outcome[m])
      /\ UNCHANGED <<runs, published, shared, orphaned>>
  BY DEF Proof!Cleanup, Proof!CleanupMap, Proof!AfterRep, Proof!Goto, Proof!history, NameOf, Proof!MapStages, ProofHeld
<1>2. Unlinks(p, ProofHeld(m))
  BY <1>1, ProofOperations
<1>3. At(ProofPaths, p, ProofHeld(m)) /\ Kept(p) /\ final' = final /\ part'[p] = NoFile
  <2>1. /\ Directory(ProofPaths) /\ OneName(ProofPaths) /\ NoFile \notin Inodes
        /\ ProofHeld(m) \in SUBSET Inodes
    BY ProofFacts
  <2> QED BY <1>2, <2>1, UnlinksAt
<1>4. Proof!TypeOK /\ ProofMiner(m)
  BY ProofFacts DEF ProofInv
<1>5. Proof!FilesTypeOK(Proofs)'
  <2>1. disk' \in [Inodes -> Seq(Proofs \cup {Hole})]
    BY <1>2, <1>4 DEF Unlinks, Proof!TypeOK, Proof!FilesTypeOK
  <2> QED BY <2>1, <1>3 DEF Proof!FilesTypeOK, At, Directory, ProofPaths
<1>6. Proof!TypeOK' /\ ProofMiner(m)' /\ Proof!Picked(m)' \subseteq Proof!Picked(m) /\ ProofFrame(m)
  <2>1. CASE Proof!Leave(m, outcome[m])
    <3>1. outcome[m] \in {"none", "running", "ok", "failed", "died"} /\ orphaned' \in SUBSET ProofPaths
      BY <1>1, <1>4 DEF Proof!TypeOK, ProofPaths
    <3>2. Proof!TypeOK' /\ ProofMiner(m)' /\ Proof!Picked(m)' = {} /\ ProofFrame(m)
      BY <2>1, <3>1, <1>1, <1>5, ProofLeaves
    <3> QED BY <3>2
  <2>2. CASE /\ pc[m] = "cleanup" /\ outcome[m] = "running" /\ pc' = [pc EXCEPT ![m] = "map_open"]
             /\ UNCHANGED <<recipe, path, map_path, fd, pos, outcome>>
    <3>1. pc'[m] = "map_open" /\ ProofFrame(m)
      BY <2>2, <1>4 DEF ProofFrame, Proof!TypeOK
    <3>2. pc' \in [Workers -> Proof!Stages]
      BY <2>2, <1>4 DEF Proof!TypeOK, Proof!Stages, Proof!MapStages
    <3>3. Proof!TypeOK'
      BY <3>2, <2>2, <1>1, <1>4, <1>5 DEF Proof!TypeOK
    <3>4. ProofMiner(m)'
      BY <2>2, <3>1, <1>1, <1>3, <1>4 DEF ProofMiner, ProofRep, ProofMap
    <3> QED BY <2>2, <3>1, <3>3, <3>4, PickedIs
  <2> QED BY <2>1, <2>2, <1>1
<1>7. p \notin shared => ProofWhole(p)'
  BY <1>1, <1>3 DEF ProofInv, ProofWhole, Kept, Proof!Image
<1>8. \A n \in Workers \ {m}, q \in ProofPaths :
        q \in Proof!Picked(m)' /\ q \in Proof!Picked(n) => q \in shared'
  BY <1>1, <1>6 DEF ProofInv, ProofApart
<1>9. pc[m] \notin {"idle", "map_name"} /\ part'[NameOf(m)] = NoFile
  BY <1>1, <1>3
<1> QED BY <1>1, <1>3, <1>6, <1>7, <1>8, <1>9 DEF ProofMove

LEMMA ProofDies ==
  ASSUME ProofInv, NEW m \in Workers, Proof!Die(m)
  PROVE  ProofMove(m)
<1>1. /\ pc[m] # "idle" /\ Proof!Leave(m, "died") /\ orphaned' = orphaned \cup Proof!Picked(m)
      /\ UNCHANGED <<final, part, disk, runs, published, shared>>
  BY DEF Proof!Die, Proof!files
<1>2. Proof!FilesTypeOK(Proofs)' /\ orphaned' \in SUBSET ProofPaths
  <2>1. Proof!TypeOK /\ Proof!Picked(m) \subseteq ProofPaths
    BY ProofFacts, PickedIs DEF ProofInv
  <2> QED BY <1>1, <2>1 DEF Proof!TypeOK, Proof!FilesTypeOK, ProofPaths
<1>3. Proof!TypeOK' /\ ProofMiner(m)' /\ Proof!Picked(m)' = {} /\ ProofFrame(m)
  BY <1>1, <1>2, ProofLeaves
<1>4. pc[m] \notin {"idle", "map_name"} => NameOf(m) \in orphaned'
  BY <1>1, ProofFacts
<1> QED BY <1>1, <1>3, <1>4, ProofStill DEF files

----------------------------------------------------------------------------
(* The three parts together.                                               *)

PublicationInv ==
  \/ artifact = "target" /\ TargetInv
  \/ artifact = "proof"  /\ ProofInv
  \/ artifact = "recipe" /\ RecipeInv

Overwrites ==
  /\ artifact = "target" => Target!KeepsPublished
  /\ artifact = "proof"  => Proof!KeepsPublished
  /\ artifact = "recipe" => Recipe!KeepsPublished

LEMMA TargetStarts ==
  ASSUME Target!Init
  PROVE  TargetInv
<1>1. PICK taken \in BOOLEAN :
        /\ final = [p \in Serials |-> IF taken /\ p = 1 THEN 1 ELSE NoFile]
        /\ disk = [i \in Inodes |-> IF taken /\ i = 1 THEN <<UserFile>> ELSE <<>>]
  BY Zenon DEF Target!Init
<1>2. /\ part = [p \in Serials |-> NoFile] /\ pc = [m \in Workers |-> "idle"]
      /\ recipe = [m \in Workers |-> Nobody] /\ path = [m \in Workers |-> 1]
      /\ fd = [m \in Workers |-> 1] /\ pos = [m \in Workers |-> 0]
      /\ outcome = [m \in Workers |-> "none"] /\ runs = [m \in Workers |-> 0]
      /\ published = [p \in Serials |-> Nobody] /\ unchecked = {} /\ shared = {} /\ orphaned = {}
  BY DEF Target!Init
<1>3. verify = [m \in Workers |-> FALSE] /\ intact = [m \in Workers |-> FALSE]
  BY Zenon DEF Target!Init
<1>4. Target!TypeOK
  <2> DEFINE S == Recipes \cup {UserFile} \cup {Hole}
  <2>0. UserFile \in S
    OBVIOUS
  <2> HIDE DEF S
  <2>1. <<UserFile>> \in Seq(S) /\ <<>> \in Seq(S)
    BY <2>0
  <2>4. disk \in [Inodes -> Seq(S)]
    BY <1>1, <2>1
  <2> USE DEF S
  <2>2. Target!FilesTypeOK(Recipes \cup {UserFile})
    BY <2>4, <1>1, <1>2, TargetConstants DEF Target!FilesTypeOK
  <2>3. verify \in [Workers -> BOOLEAN] /\ intact \in [Workers -> BOOLEAN]
    BY <1>3
  <2> QED BY <1>2, <2>2, <2>3, TargetConstants DEF Target!TypeOK, Target!Stages
<1>5. OneName(Serials) /\ Target!NoStrayParts /\ Apart
  BY <1>1, <1>2, TargetConstants DEF OneName, Target!NoStrayParts, Apart
<1>6. \A i \in Inodes : Len(disk[i]) <= Chunks
  BY <1>1, TargetConstants
<1>7. \A p \in Serials : TargetWhole(p)
  BY <1>2 DEF TargetWhole
<1>8. \A m \in Workers : TargetMiner(m)
  BY <1>2 DEF TargetMiner, TargetRun, TargetBefore
<1> QED BY <1>4, <1>5, <1>6, <1>7, <1>8 DEF TargetInv

LEMMA RecipeStarts ==
  ASSUME Recipe!Init
  PROVE  RecipeInv
<1>1. /\ final = [p \in RecipePaths |-> NoFile] /\ part = [p \in RecipePaths |-> NoFile]
      /\ disk = [i \in Inodes |-> <<>>] /\ pc = [m \in Workers |-> "idle"]
      /\ path = [m \in Workers |-> 1] /\ queue = [w \in Workers |-> <<>>]
      /\ fd = [m \in Workers |-> 1] /\ pos = [m \in Workers |-> 0]
      /\ outcome = [m \in Workers |-> "none"] /\ runs = [m \in Workers |-> 0]
      /\ published = [p \in RecipePaths |-> Nobody] /\ shared = {} /\ orphaned = {}
  BY DEF Recipe!Init, RecipePaths, Exts
<1>2. Recipe!TypeOK
  BY <1>1, RecipeConstants DEF Recipe!TypeOK, Recipe!FilesTypeOK, Recipe!Stages, RecipePaths, Exts
<1>3. OneName(RecipePaths) /\ RecipeParts /\ Apart
  BY <1>1 DEF OneName, RecipeParts, Apart
<1>4. \A b \in Serials : RecipeBase(b)
  BY <1>1 DEF RecipeBase, RecipePaths, Exts
<1>5. \A w \in Workers : RecipeBuilder(w)
  BY <1>1 DEF RecipeBuilder, RecipeRun
<1> QED BY <1>2, <1>3, <1>4, <1>5 DEF RecipeInv

LEMMA ProofStarts ==
  ASSUME Proof!Init
  PROVE  ProofInv
<1>1. /\ final = [p \in ProofPaths |-> NoFile] /\ part = [p \in ProofPaths |-> NoFile]
      /\ disk = [i \in Inodes |-> <<>>] /\ pc = [m \in Workers |-> "idle"]
      /\ recipe = [m \in Workers |-> Nobody] /\ path = [m \in Workers |-> <<"raw", 1>>]
      /\ map_path = [m \in Workers |-> <<"map", 1>>]
      /\ fd = [m \in Workers |-> 1] /\ pos = [m \in Workers |-> 0]
      /\ outcome = [m \in Workers |-> "none"] /\ runs = [m \in Workers |-> 0]
      /\ published = [p \in ProofPaths |-> Nobody] /\ shared = {} /\ orphaned = {}
  BY DEF Proof!Init, ProofPaths
<1>2. Proof!TypeOK
  BY <1>1, ProofConstants DEF Proof!TypeOK, Proof!FilesTypeOK, Proof!Stages, ProofPaths
<1>3. OneName(ProofPaths) /\ ProofParts
  BY <1>1 DEF OneName, ProofParts
<1>4. ProofApart
  BY <1>1, PickedIs DEF ProofApart
<1>5. \A p \in ProofPaths : ProofWhole(p)
  BY <1>1 DEF ProofWhole
<1>6. \A m \in Workers : ProofMiner(m)
  BY <1>1 DEF ProofMiner, ProofRep, ProofMap
<1> QED BY <1>2, <1>3, <1>4, <1>5, <1>6 DEF ProofInv

LEMMA TargetSteps ==
  ASSUME TargetInv, Target!Next
  PROVE  TargetInv' /\ Target!KeepsPublished
<1>1. PICK m \in Workers : Target!Choose(m) \/ Target!Work(m) \/ Target!Fail(m) \/ Target!Die(m)
  BY DEF Target!Next
<1>2. CASE Target!Choose(m)
  BY <1>2, TargetChooses, TargetMoves
<1>3. CASE Target!Work(m)
  <2>1. CASE Target!Open(m)
    BY <2>1, TargetOpens, TargetMoves
  <2>2. CASE Target!Stream(m)
    BY <2>2, TargetWrites, TargetMoves
  <2>3. CASE Target!CheckIdentity(m)
    BY <2>3, TargetChecks, TargetMoves
  <2>4. CASE Target!OpenBack(m)
    BY <2>4, TargetOpensBack, TargetMoves
  <2>5. CASE Target!ReadBack(m)
    BY <2>5, TargetReads, TargetMoves
  <2>6. CASE Target!Verified(m)
    BY <2>6, TargetVerifies, TargetMoves
  <2>7. CASE Target!Publish(m)
    BY <2>7, TargetPublishes, TargetMoves
  <2>8. CASE Target!Reject(m)
    <3>1. pc[m] \notin {"idle", "cleanup"} /\ Target!Unwind(m)
      BY <2>8 DEF Target!Reject, Target!Rejected, Target!AtEnd
    <3> QED BY <3>1, TargetUnwinds, TargetMoves
  <2>9. CASE Target!Cleanup(m)
    BY <2>9, TargetCleans, TargetMoves
  <2> QED BY <1>3, <2>1, <2>2, <2>3, <2>4, <2>5, <2>6, <2>7, <2>8, <2>9 DEF Target!Work
<1>4. CASE Target!Fail(m)
  <2>1. pc[m] \notin {"idle", "cleanup"} /\ Target!Unwind(m)
    BY <1>4 DEF Target!Fail
  <2> QED BY <2>1, TargetUnwinds, TargetMoves
<1>5. CASE Target!Die(m)
  BY <1>5, TargetDies, TargetMoves
<1> QED BY <1>1, <1>2, <1>3, <1>4, <1>5

LEMMA RecipeSteps ==
  ASSUME RecipeInv, Recipe!Next
  PROVE  RecipeInv' /\ Recipe!KeepsPublished
<1>1. PICK w \in Workers : Recipe!Resolve(w) \/ Recipe!Work(w) \/ Recipe!Fail(w) \/ Recipe!Die(w)
  BY DEF Recipe!Next
<1>2. CASE Recipe!Resolve(w)
  BY <1>2, RecipeResolves, RecipeMoves
<1>3. CASE Recipe!Work(w)
  <2>1. CASE Recipe!Open(w)
    BY <2>1, RecipeOpens, RecipeMoves
  <2>2. CASE Recipe!WriteOne(w)
    BY <2>2, RecipeWrites, RecipeMoves
  <2>3. CASE Recipe!Publish(w)
    BY <2>3, RecipePublishes, RecipeMoves
  <2>4. CASE Recipe!Unlink(w)
    BY <2>4, RecipeUnlinks, RecipeMoves
  <2>5. CASE Recipe!Verified(w)
    BY <2>5, RecipeVerifies, RecipeMoves
  <2>6. CASE Recipe!Reject(w)
    <3>1. \/ pc[w] \in {"open", "write", "replace"} /\ Recipe!Raise(w)
          \/ Recipe!VerifyFails(w)
      BY <2>6 DEF Recipe!Reject
    <3> QED BY <3>1, RecipeRaises, RecipeRejects, RecipeMoves
  <2>7. CASE Recipe!Unwind(w)
    BY <2>7, RecipeUnwinds, RecipeMoves
  <2> QED BY <1>3, <2>1, <2>2, <2>3, <2>4, <2>5, <2>6, <2>7 DEF Recipe!Work
<1>4. CASE Recipe!Fail(w)
  <2>1. \/ pc[w] \in {"open", "write", "replace"} /\ Recipe!Raise(w)
        \/ Recipe!VerifyFails(w)
    BY <1>4 DEF Recipe!Fail
  <2> QED BY <2>1, RecipeRaises, RecipeRejects, RecipeMoves
<1>5. CASE Recipe!Die(w)
  BY <1>5, RecipeDies, RecipeMoves
<1> QED BY <1>1, <1>2, <1>3, <1>4, <1>5

LEMMA ProofSteps ==
  ASSUME ProofInv, Proof!Next
  PROVE  ProofInv' /\ Proof!KeepsPublished
<1>1. PICK m \in Workers : Proof!PickRep(m) \/ Proof!Work(m) \/ Proof!Fail(m) \/ Proof!Die(m)
  BY DEF Proof!Next
<1>2. CASE Proof!PickRep(m)
  BY <1>2, ProofPicksRep, ProofMoves
<1>3. CASE Proof!Work(m)
  <2>1. CASE Proof!PickMap(m)
    BY <2>1, ProofPicksMap, ProofMoves
  <2>2. CASE Proof!Open(m) \/ Proof!OpenMap(m)
    BY <2>2, ProofOpens, ProofMoves
  <2>3. CASE Proof!Extend(m)
    BY <2>3, ProofExtends, ProofMoves
  <2>4. CASE Proof!Stream(m)
    BY <2>4, ProofStreams, ProofMoves
  <2>5. CASE Proof!CloseFile(m)
    BY <2>5, ProofCloses, ProofMoves
  <2>6. CASE Proof!PublishRep(m) \/ Proof!PublishMap(m)
    BY <2>6, ProofPublishes, ProofMoves
  <2>7. CASE Proof!Cleanup(m) \/ Proof!CleanupMap(m)
    BY <2>7, ProofCleans, ProofMoves
  <2>8. CASE Proof!WriteMap(m)
    BY <2>8, ProofWritesMap, ProofMoves
  <2>9. CASE Proof!Reject(m)
    <3>1. pc[m] \notin {"idle", "map_name", "cleanup", "map_cleanup"} /\ Proof!Unwind(m)
      BY <2>9 DEF Proof!Reject, Proof!Rejected
    <3> QED BY <3>1, ProofUnwinds, ProofMoves
  <2> QED BY <1>3, <2>1, <2>2, <2>3, <2>4, <2>5, <2>6, <2>7, <2>8, <2>9 DEF Proof!Work
<1>4. CASE Proof!Fail(m)
  <2>1. pc[m] \notin {"idle", "map_name", "cleanup", "map_cleanup"} /\ Proof!Unwind(m)
    BY <1>4 DEF Proof!Fail, Proof!RepStages, Proof!MapStages
  <2> QED BY <2>1, ProofUnwinds, ProofMoves
<1>5. CASE Proof!Die(m)
  BY <1>5, ProofDies, ProofMoves
<1> QED BY <1>1, <1>2, <1>3, <1>4, <1>5

LEMMA PublicationStarts == PublicationInit => PublicationInv
BY TargetStarts, ProofStarts, RecipeStarts
   DEF PublicationInit, TargetInit, ProofInit, RecipeInit, PublicationInv

\* A stutter changes nothing that the invariants speak of.
LEMMA TargetStutters ==
  ASSUME TargetInv, UNCHANGED all_vars
  PROVE  TargetInv'
BY DEF all_vars, files, run_vars, target_only, TargetInv, Target!TypeOK, Target!FilesTypeOK,
       Target!NoStrayParts, OneName, TargetWhole, Target!Proven, TargetMiner, TargetRun, Filled,
       Tied, Apart

LEMMA ProofStutters ==
  ASSUME ProofInv, UNCHANGED all_vars
  PROVE  ProofInv'
<1>1. UNCHANGED <<final, part, disk, pc, path, map_path, recipe, fd, pos, outcome, runs,
                   published, shared, orphaned>>
  BY DEF all_vars, files, run_vars
<1>2. Proof!TypeOK' /\ OneName(ProofPaths)'
  BY <1>1 DEF ProofInv, Proof!TypeOK, Proof!FilesTypeOK, OneName
<1>3. ProofParts' /\ ProofApart'
  BY <1>1, PickedIs DEF ProofInv, ProofParts, NameOf, ProofApart
<1>4. \A p \in ProofPaths \ shared' : ProofWhole(p)'
  BY <1>1 DEF ProofInv, ProofWhole, Proof!Image
<1>5. ASSUME NEW m \in Workers
      PROVE  ProofMiner(m)'
  <2>1. ProofRep(m) => ProofRep(m)'
    BY <1>1 DEF ProofRep, Proof!Image
  <2>2. ProofMap(m) => ProofMap(m)'
    BY <1>1 DEF ProofMap, Proof!Image
  <2>3. NameOf(m)' = NameOf(m)
    BY <1>1 DEF NameOf
  <2>4. Tied(ProofPaths, fd[m], NameOf(m)) => Tied(ProofPaths, fd[m], NameOf(m))'
    BY <1>1, <2>3 DEF Tied
  <2>5. ProofMiner(m)
    BY DEF ProofInv
  <2> QED BY <1>1, <2>1, <2>2, <2>4, <2>5 DEF ProofMiner
<1> QED BY <1>2, <1>3, <1>4, <1>5 DEF ProofInv

LEMMA RecipeStutters ==
  ASSUME RecipeInv, UNCHANGED all_vars
  PROVE  RecipeInv'
<1>1. UNCHANGED <<final, part, disk, pc, path, queue, fd, pos, outcome, runs,
                   published, shared, orphaned>>
  BY DEF all_vars, files, run_vars
<1>2. Recipe!TypeOK' /\ OneName(RecipePaths)' /\ Apart'
  BY <1>1 DEF RecipeInv, Recipe!TypeOK, Recipe!FilesTypeOK, OneName, Apart
<1>3. \A w \in Workers : Recipe!Target(w)' = Recipe!Target(w) /\ Recipe!Build(w)' = Recipe!Build(w)
  BY <1>1 DEF Recipe!Target, Recipe!Build
<1>4. RecipeParts'
  BY <1>1, <1>3 DEF RecipeInv, RecipeParts
<1>5. ASSUME NEW b \in Serials \ shared'
      PROVE  RecipeBase(b)'
  <2>1. RecipeBase(b)
    BY <1>1 DEF RecipeInv
  <2>2. published' = published /\ final' = final
    BY <1>1
  <2> QED BY <2>1, <2>2 DEF RecipeBase
<1>6. ASSUME NEW w \in Workers
      PROVE  RecipeBuilder(w)'
  <2>1. Recipe!Target(w)' = Recipe!Target(w) /\ Recipe!Build(w)' = Recipe!Build(w)
        /\ Done(w)' = Done(w)
    BY <1>1, <1>3 DEF Done
  <2>2. RecipeRun(w) => RecipeRun(w)'
    BY <1>1, <2>1 DEF RecipeRun, Filled
  <2>3. Complete(w) => Complete(w)'
    BY <1>1, <2>1 DEF Complete, Recipe!Whole
  <2>4. Tied(RecipePaths, fd[w], Recipe!Target(w)) => Tied(RecipePaths, fd[w], Recipe!Target(w))'
    BY <1>1, <2>1 DEF Tied
  <2>5. RecipeBuilder(w)
    BY DEF RecipeInv
  <2> QED BY <1>1, <2>2, <2>3, <2>4, <2>5 DEF RecipeBuilder
<1> QED BY <1>2, <1>4, <1>5, <1>6 DEF RecipeInv

LEMMA PublicationSteps ==
  PublicationInv /\ [PublicationNext]_all_vars => PublicationInv' /\ (Overwrites \/ UNCHANGED all_vars)
<1> SUFFICES ASSUME PublicationInv, [PublicationNext]_all_vars
             PROVE  PublicationInv' /\ (Overwrites \/ UNCHANGED all_vars)
  OBVIOUS
<1>1. CASE OfTarget(Target!Next)
  BY <1>1, TargetSteps DEF OfTarget, PublicationInv, Overwrites
<1>2. CASE OfProof(Proof!Next)
  BY <1>2, ProofSteps DEF OfProof, PublicationInv, Overwrites
<1>3. CASE OfRecipe(Recipe!Next)
  BY <1>3, RecipeSteps DEF OfRecipe, PublicationInv, Overwrites
<1>4. CASE UNCHANGED all_vars
  <2>1. TargetInv => TargetInv'
    BY <1>4, TargetStutters
  <2>2. ProofInv => ProofInv'
    BY <1>4, ProofStutters
  <2>3. RecipeInv => RecipeInv'
    BY <1>4, RecipeStutters
  <2> QED BY <1>4, <2>1, <2>2, <2>3 DEF PublicationInv, all_vars
<1> QED BY <1>1, <1>2, <1>3, <1>4 DEF PublicationNext

\* What the invariants of the parts say of the properties.
LEMMA TargetHolds ==
  ASSUME TargetInv
  PROVE  Target!TypeOK /\ Target!NoStrayParts /\ Target!PublishedIsWhole
<1>1. Target!TypeOK /\ Target!NoStrayParts
  BY DEF TargetInv
<1>2. \A p \in Serials \ shared : TargetWhole(p)
  BY DEF TargetInv
<1>3. \A m \in Workers : outcome[m] = "ok" /\ path[m] \notin shared =>
        published[path[m]] = recipe[m]
  BY DEF TargetInv, TargetMiner
<1>4. Target!PublishedIsWhole
  BY <1>2, <1>3 DEF TargetWhole, Target!PublishedIsWhole, Target!Proven
<1> QED BY <1>1, <1>4

LEMMA ProofHolds ==
  ASSUME ProofInv
  PROVE  Proof!TypeOK /\ Proof!NoStrayParts /\ Proof!PublishedIsWhole
<1>1. Proof!TypeOK
  BY DEF ProofInv
<1>2. \A m \in Workers : pc[m] \notin {"idle", "map_name"} => NameOf(m) \in Proof!Picked(m)
  BY PickedIs DEF NameOf
<1>3. Proof!NoStrayParts
  BY <1>2 DEF ProofInv, ProofParts, Proof!NoStrayParts, ProofPaths
<1>4. \A p \in ProofPaths \ shared : ProofWhole(p)
  BY DEF ProofInv
<1>5. \A m \in Workers : outcome[m] = "ok" =>
        \A p \in {path[m], map_path[m]} \ shared : published[p] = recipe[m]
  BY DEF ProofInv, ProofMiner
<1>6. Proof!PublishedIsWhole
  BY <1>4, <1>5 DEF ProofWhole, Proof!PublishedIsWhole, ProofPaths
<1> QED BY <1>1, <1>3, <1>6

LEMMA RecipeHolds ==
  ASSUME RecipeInv
  PROVE  Recipe!TypeOK /\ Recipe!NoStrayParts /\ Recipe!BaseIsOneBuild /\ Recipe!SuccessIsComplete
<1>1. Recipe!TypeOK
  BY DEF RecipeInv
<1>2. \A w \in Workers, p \in RecipePaths : Recipe!Target(w) = p => path[w] = p[1]
  BY DEF Recipe!Target
<1>3. Recipe!NoStrayParts
  BY <1>2 DEF RecipeInv, RecipeParts, Recipe!NoStrayParts, RecipePaths, Exts
<1>4. \A b \in Serials \ shared : RecipeBase(b)
  BY DEF RecipeInv
<1>5. Recipe!BaseIsOneBuild
  BY <1>4 DEF RecipeBase, Recipe!BaseIsOneBuild, Exts
<1>6. \A w \in Workers : outcome[w] = "ok" /\ path[w] \notin shared => Complete(w)
  BY DEF RecipeInv, RecipeBuilder
<1>7. Recipe!SuccessIsComplete
  BY <1>6 DEF Complete, Recipe!SuccessIsComplete
<1> QED BY <1>1, <1>3, <1>5, <1>7

----------------------------------------------------------------------------
(* The theorems.                                                           *)

\* Whatever the processes publish, its part's invariant holds: no file has two
\* names, a run owns the file it writes, and what it has written so far is all
\* there is in it.
THEOREM PublicationInvariant == PublicationSpec => []PublicationInv
<1>1. PublicationInv /\ [PublicationNext]_all_vars => PublicationInv'
  BY PublicationSteps
<1> QED BY PublicationStarts, <1>1, PTL DEF PublicationSpec

\* The variables of the processes and of the directory keep their types.
THEOREM TypesAreCorrect == PublicationSpec => []TypesOK
<1>1. PublicationInv => TypesOK
  BY TargetHolds, ProofHolds, RecipeHolds DEF PublicationInv, TypesOK
<1> QED BY PublicationInvariant, <1>1, PTL

\* The final name of a target or a proof, if no two overlapping runs had picked it, carries
\* the whole file that was published under it, and a run that reported success has
\* published all it reports; of recipes only the latter is said (the outcome of
\* mine_recipe and save_outputs).
THEOREM WholesArePublished == PublicationSpec => []PublishedIsWhole
<1>1. PublicationInv => PublishedIsWhole
  BY TargetHolds, ProofHolds, RecipeHolds DEF PublicationInv, PublishedIsWhole
<1> QED BY PublicationInvariant, <1>1, PTL

\* The recipes that share a base name come from one build, the machine file beside
\* the human file of the same build (save_outputs).
THEOREM BasesAreOneBuild == PublicationSpec => []BaseIsOneBuild
<1>1. PublicationInv => BaseIsOneBuild
  BY RecipeHolds DEF PublicationInv, BaseIsOneBuild
<1> QED BY PublicationInvariant, <1>1, PTL

\* A run that is cancelled or fails leaves no `.part` (the finally blocks).
THEOREM PartsAreTakenAway == PublicationSpec => []NoStrayParts
<1>1. PublicationInv => NoStrayParts
  BY TargetHolds, ProofHolds, RecipeHolds DEF PublicationInv, NoStrayParts
<1> QED BY PublicationInvariant, <1>1, PTL

\* No step replaces or alters a published file, unless two overlapping runs had
\* picked its name (_unique_output_path looks, it does not reserve).
THEOREM PublishedStays == PublicationSpec => NothingOverwritten
<1>1. PublicationInv /\ [PublicationNext]_all_vars =>
        [ /\ artifact = "target" => Target!KeepsPublished
          /\ artifact = "proof"  => Proof!KeepsPublished
          /\ artifact = "recipe" => Recipe!KeepsPublished ]_all_vars
  BY PublicationSteps DEF Overwrites
<1> QED BY PublicationInvariant, <1>1, PTL DEF PublicationSpec, NothingOverwritten

=============================================================================
