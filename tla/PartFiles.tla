----------------------------- MODULE PartFiles -----------------------------
(***************************************************************************)
(* The directory every publisher of this program writes into.  A publisher *)
(* opens `<path>.part` for writing, fills it, and renames it onto `<path>`.*)
(* The operating system is modelled from how mine_builder.py, recipe_io.py *)
(* and container_format.py use it: directory entries name inodes, an open  *)
(* file handle follows its inode through a rename, and opening an existing *)
(* `.part` for writing empties the very inode another process may hold.    *)
(***************************************************************************)
EXTENDS Naturals, Sequences

CONSTANTS
  Paths,    \* output paths; each has a `.part` sibling
  Inodes,   \* files on the disk, numbered from 1
  NoFile,   \* no directory entry
  Hole      \* a chunk nobody wrote: zero bytes left by a seek past the end

VARIABLES
  final,    \* path -> inode, the published names
  part,     \* path -> inode, the `.part` names
  disk      \* inode -> sequence of chunks

files == <<final, part, disk>>

FilesTypeOK(Chunks) ==
  /\ final \in [Paths -> Inodes \cup {NoFile}]
  /\ part \in [Paths -> Inodes \cup {NoFile}]
  /\ disk \in [Inodes -> Seq(Chunks \cup {Hole})]

\* Bug: a published file does not make the name taken.
Free_IgnoresFinal(p) == part[p] = NoFile

\* Neither the name nor its `.part` exists.
Free(p) == final[p] = NoFile /\ part[p] = NoFile

Named == {final[p] : p \in Paths} \cup {part[p] : p \in Paths}

\* open(path.part, "wb") yields inode i; `held` are the inodes still open.
OpenPart(p, i, held) ==
  /\ IF part[p] # NoFile THEN i = part[p]
     ELSE /\ i \notin Named \cup held
          /\ \A j \in Inodes : j < i => j \in Named \cup held
  /\ part' = [part EXCEPT ![p] = i]
  /\ disk' = [disk EXCEPT ![i] = <<>>]
  /\ UNCHANGED final

PutChunk(s, offset, v) ==
  [j \in 1 .. (IF offset > Len(s) THEN offset ELSE Len(s)) |->
     IF j = offset THEN v ELSE IF j <= Len(s) THEN s[j] ELSE Hole]

\* A write through a handle, wherever its inode is linked by now.
WriteChunk(i, offset, v) ==
  /\ disk' = [disk EXCEPT ![i] = PutChunk(@, offset, v)]
  /\ UNCHANGED <<final, part>>

\* os.replace(path.part, path): atomic, and silent about what it replaces.
ReplacePart(p) ==
  /\ part[p] # NoFile
  /\ final' = [final EXCEPT ![p] = part[p]]
  /\ part' = [part EXCEPT ![p] = NoFile]
  /\ UNCHANGED disk

\* finally: if part.exists(): part.unlink(); the system frees an inode that
\* has neither a name nor an open handle.
UnlinkPart(p, held) ==
  /\ part' = [part EXCEPT ![p] = NoFile]
  /\ disk' = [i \in Inodes |-> IF i = part[p] /\ i \notin held THEN <<>> ELSE disk[i]]
  /\ UNCHANGED final
============================================================================
