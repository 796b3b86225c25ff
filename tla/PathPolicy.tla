----------------------------- MODULE PathPolicy -----------------------------
(***************************************************************************)
(* Notebook paths, snapshots and the path policy of one process            *)
(* (src/internal/git: path.go, readonly.go, policy.go).  A path is the     *)
(* sequence of its segments; Folded gives the Unicode case folding of a    *)
(* segment.  A snapshot maps every path to its content, or to Absent.      *)
(***************************************************************************)
EXTENDS Naturals, Sequences, FiniteSets

CONSTANTS Paths,        \* the file paths of the instance
          Folded        \* segment -> folded segment

\* A content shows a set of texts: one for an ordinary file, those of both
\* sides for a file that holds a conflict block.
Absent == [texts |-> {}, block |-> FALSE]
Plain(text) == [texts |-> {text}, block |-> FALSE]
Block(local, remote) == [texts |-> local.texts \cup remote.texts, block |-> TRUE]

EmptyTree == [p \in Paths |-> Absent]
Files(snap) == {p \in Paths : snap[p] # Absent}

Fold(path) == [n \in DOMAIN path |-> Folded[path[n]]]
Below(path, dir) == Len(path) > Len(dir) /\ SubSeq(path, 1, Len(dir)) = dir
AtOrBelow(path, dir) == path = dir \/ Below(path, dir)

-----------------------------------------------------------------------------
(* Snapshot validity: no two files of one folded name, no file that is     *)
(* also a directory.  The folded form of the second rule is for new        *)
(* content only.                                                           *)
ValidSnapshot(snap) ==
    \A p, q \in Files(snap) : /\ Fold(p) = Fold(q) => p = q
                              /\ ~Below(q, p)

FoldedDirectoryPairs(snap) ==
    {pair \in Files(snap) \X Files(snap) : Below(Fold(pair[2]), Fold(pair[1]))}

-----------------------------------------------------------------------------
(* The policy: what NewPolicy makes of the entries the operator wrote.     *)
Overlap(readOnly, writable) ==
    \E r \in readOnly, w \in writable : Fold(r) = Fold(w)

EntryBetween(anc, entry, other) ==
    \E o \in other : Below(Fold(o), Fold(anc)) /\ Below(Fold(entry), Fold(o))

\* The mutated form drops every entry an ancestor of its own set covers.
MutantCollapseEntries(items, other) ==
    {it \in items : \A anc \in items : ~Below(Fold(it), Fold(anc))}

\* An entry goes when an ancestor of its set decides every path it decides;
\* of entries with one folded form a single one stays.
CollapseEntries(items, other) ==
    LET kept == {it \in items : \A anc \in items :
                    Below(Fold(it), Fold(anc)) => EntryBetween(anc, it, other)}
    IN  {CHOOSE k \in kept : Fold(k) = Fold(it) : it \in kept}

NewPolicy(readOnly, writable) ==
    [readOnly |-> CollapseEntries(readOnly, writable),
     writable |-> CollapseEntries(writable, readOnly)]

\* The configuration, the service and the notebook each build the policy
\* from the entries of the one before.
Rebuilt(policy) == NewPolicy(policy.readOnly, policy.writable)
ProcessPolicy(readOnly, writable) == Rebuilt(Rebuilt(NewPolicy(readOnly, writable)))

Configured(policy) == policy.readOnly # {} \/ policy.writable # {}

Covering(entries, path) == {e \in entries : AtOrBelow(Fold(path), Fold(e))}
LongestMatch(entries, path) ==
    CHOOSE n \in {0} \cup {Len(e) : e \in Covering(entries, path)} :
        \A e \in Covering(entries, path) : Len(e) <= n

\* The longest entry across both sets decides; a path no entry covers is
\* protected once a writable set exists.
Protects(policy, path) ==
    LET ro == LongestMatch(policy.readOnly, path)
        wr == LongestMatch(policy.writable, path) IN
    IF ro = 0 /\ wr = 0 THEN policy.writable # {} ELSE ro > wr

ChangedProtected(policy, local, base) ==
    {p \in Paths : local[p] # base[p] /\ Protects(policy, p)}

\* Every changed path is taken from base, and what stands below one is removed.
RestoreProtected(base, local, changed) ==
    [p \in Paths |-> IF p \in changed THEN base[p]
                     ELSE IF \E c \in changed : Below(p, c) THEN Absent ELSE local[p]]
=============================================================================
