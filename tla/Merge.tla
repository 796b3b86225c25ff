-------------------------------- MODULE Merge --------------------------------
(***************************************************************************)
(* The three-tree merge (src/internal/git/merge.go): how the index of a    *)
(* libgit2 merge becomes conflicts and the tree that is written to the     *)
(* visible directory.                                                      *)
(***************************************************************************)
EXTENDS PathPolicy

(* libgit2's merge of one path, and its file/directory conflicts: one side *)
(* added or changed a file at p, one side a file below p.                  *)
Touched(base, local, remote, p) ==
    \E side \in {local, remote} : side[p] # Absent /\ side[p] # base[p]
FileDirectory(base, local, remote, p) ==
    /\ Touched(base, local, remote, p)
    /\ \E q \in Paths : Below(q, p) /\ Touched(base, local, remote, q)
Unresolved(base, local, remote, p) ==
    local[p] # remote[p] /\ base[p] # local[p] /\ base[p] # remote[p]
Resolved(base, local, remote, p) == IF local[p] = base[p] THEN remote[p] ELSE local[p]

-----------------------------------------------------------------------------
DirFileConflicts(base, local, remote) ==
    {p \in Paths : FileDirectory(base, local, remote, p)}

\* A text conflict below a file/directory conflict whose local side is a
\* file is not reported: the file stays.
DropBelowLocalFiles(conflicts, dirFile, local) ==
    {p \in conflicts : ~\E d \in dirFile : local[d] # Absent /\ Below(p, d)}

TextConflicts(base, local, remote) ==
    LET dirFile == DirFileConflicts(base, local, remote) IN
    DropBelowLocalFiles({p \in Paths \ dirFile : Unresolved(base, local, remote, p)},
                        dirFile, local)

Clean(base, local, remote) ==
    DirFileConflicts(base, local, remote) \cup TextConflicts(base, local, remote) = {}

\* The mutated form shows the remote side of a file/directory conflict.
MutantMaterializeTree(base, local, remote) ==
    LET dirFile == DirFileConflicts(base, local, remote)
        text    == TextConflicts(base, local, remote) IN
    [p \in Paths |->
        IF p \in text THEN Block(local[p], remote[p])
        ELSE IF \E d \in dirFile : AtOrBelow(p, d) THEN remote[p]
        ELSE Resolved(base, local, remote, p)]

\* What lands in the visible directory: the block of a text conflict, the
\* local side at and below a file/directory conflict, the merge elsewhere.
MaterializeTree(base, local, remote) ==
    LET dirFile == DirFileConflicts(base, local, remote)
        text    == TextConflicts(base, local, remote) IN
    [p \in Paths |->
        IF p \in text THEN Block(local[p], remote[p])
        ELSE IF \E d \in dirFile : AtOrBelow(p, d) THEN local[p]
        ELSE Resolved(base, local, remote, p)]
=============================================================================
