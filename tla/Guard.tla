-------------------------------- MODULE Guard --------------------------------
(***************************************************************************)
(* One process with a path policy pulls from and commits to a notebook     *)
(* other writers publish to (src/internal/notebook/pull.go, commit.go):    *)
(* the scan, the first-pull guard, the policy's pin and reset, the merge,  *)
(* and the rewrite of the visible directory with the recovery that follows *)
(* a rewrite that could not finish.  The publication race is in            *)
(* Publication: a commit here is the attempt that wins it.                 *)
(***************************************************************************)
EXTENDS Merge, SequencesExt

CONSTANTS ScanOrder,    \* Paths in the order a directory walk meets them
          TextsAt,      \* path -> the texts an ordinary file of it may hold
          Settings,     \* the policies an operator may write
          Starts,       \* notebooks the directory holds a pulled copy of at start
          MaxRemote,    \* bound: publications of the other writers
          MaxEdits      \* bound: edits of the visible directory

ASSUME PathsAssumption == Paths = Range(ScanOrder)

VARIABLES written,      \* the entries the operator wrote
          policy,       \* what the process made of them when it started
          base,         \* tree of the accepted baseline in P
          local,        \* the visible directory
          remote,       \* tree of the accepted head
          pulled,       \* the pulled marker in P
          recovery,     \* recoveryRequired in P
          last,         \* the call that just ended and its result
          published,    \* publications of the others so far
          edits         \* edits so far

vars == <<written, policy, base, local, remote, pulled, recovery, last, published, edits>>

NoCall == [op |-> "none", result |-> "none"]
Ended(op, result) == [op |-> op, result |-> result]
Protected(p) == Protects(policy, p)

-----------------------------------------------------------------------------
(* The rewrite of the visible directory.  A file below a directory that    *)
(* becomes a file goes with the directory, and its own removal then fails: *)
(* the rewrite ends there, with the target written and the files the walk  *)
(* meets later still in place.                                             *)
Rank(p) == CHOOSE n \in DOMAIN ScanOrder : ScanOrder[n] = p
Obstacles(dir, target) ==
    {q \in Files(dir) : \E p \in Files(target) : Below(q, p)}
Rewritten(dir, target) ==
    IF Obstacles(dir, target) = {} THEN target
    ELSE [p \in Paths |->
            IF \/ target[p] # Absent
               \/ p \in Obstacles(dir, target)
               \/ \E q \in Files(target) : Below(q, p)
               \/ \A q \in Obstacles(dir, target) : Rank(p) < Rank(q)
            THEN target[p] ELSE dir[p]]

\* Recovery rewrites the directory to the accepted state and records it.
Recover(dir, accepted, op) ==
    /\ local' = Rewritten(dir, accepted)
    /\ IF Obstacles(dir, accepted) = {}
       THEN base' = accepted /\ recovery' = FALSE
       ELSE base' = base /\ recovery' = TRUE
    /\ last' = Ended(op, "RECOVERY_FAILURE")

\* A rewrite that could not finish is followed by recovery in the same call.
ApplyLocal(target, baseline, accepted, op, result) ==
    IF Obstacles(local, target) = {}
    THEN /\ local' = target /\ base' = baseline /\ recovery' = FALSE
         /\ last' = Ended(op, result)
    ELSE Recover(Rewritten(local, target), accepted, op)

Refuse(op, result) ==
    /\ last' = Ended(op, result)
    /\ UNCHANGED <<base, local, remote, pulled, recovery>>

-----------------------------------------------------------------------------
(* Checks shared by pull and commit.                                       *)
Scannable == ValidSnapshot(local) /\ FoldedDirectoryPairs(local) = {}

\* A file the first pull would publish or delete refuses it.
FirstPullRefused ==
    /\ ~pulled
    /\ \E p \in Files(local) :
          IF Protected(p) THEN remote[p] = Absent
          ELSE remote # EmptyTree /\ remote[p] # local[p]

\* A pull merges the local files with the changed protected ones put back.
Pinned == RestoreProtected(base, local, ChangedProtected(policy, local, base))

\* The mutated form misses the protected files the caller added.
MutantViolations == {p \in ChangedProtected(policy, local, base) : base[p] # Absent}
Violations == ChangedProtected(policy, local, base)

\* The mutated form resets the whole directory.
MutantReset == base
Reset == RestoreProtected(base, local, Violations)

\* The mutated form lets a conflict block through.
MutantRejectMarkers(snap) == FALSE
RejectMarkers(snap) == \E p \in Paths : snap[p].block

\* The change summary reads the merged tree before anything is changed.
Readable(merged) == ValidSnapshot(merged)

\* Of the pairs of names a merge would bring together, those the accepted
\* state does not hold whole; the mutated form looks for the file only.
MutantNewFoldedPairs(merged) ==
    {pair \in FoldedDirectoryPairs(merged) : remote[pair[1]] = Absent}
NewFoldedPairs(merged) ==
    {pair \in FoldedDirectoryPairs(merged) : remote[pair[1]] = Absent \/ remote[pair[2]] = Absent}

-----------------------------------------------------------------------------
EntryRecovery(op) ==
    /\ recovery
    /\ Recover(local, remote, op)
    /\ UNCHANGED <<remote, pulled>>

PullRefused ==
    \/ ~Scannable /\ Refuse("pull", "INVALID_CONTENT")
    \/ Scannable /\ FirstPullRefused /\ Refuse("pull", "DIRECTORY_NOT_EMPTY")
    \/ Scannable /\ ~FirstPullRefused /\ ~ValidSnapshot(Pinned) /\ Refuse("pull", "INVALID_CONTENT")

PullMerges ==
    LET merged == MaterializeTree(base, Pinned, remote)
        clean  == Clean(base, Pinned, remote) IN
    /\ Scannable /\ ~FirstPullRefused /\ ValidSnapshot(Pinned)
    /\ IF ~Readable(merged) THEN Refuse("pull", "ENGINE_FAILED")
       ELSE /\ ApplyLocal(merged, remote, remote, "pull", IF clean THEN "OK" ELSE "CONFLICT")
            /\ pulled' = (pulled \/ last'.result # "RECOVERY_FAILURE")
            /\ UNCHANGED remote

\* notes_pull
Pull ==
    /\ \/ EntryRecovery("pull")
       \/ ~recovery /\ (PullRefused \/ PullMerges)
    /\ UNCHANGED <<written, policy, published, edits>>

CommitRefused ==
    \/ ~pulled /\ Refuse("commit", "PULL_REQUIRED")
    \/ pulled /\ ~Scannable /\ Refuse("commit", "INVALID_CONTENT")
    \/ pulled /\ Scannable /\ RejectMarkers(local) /\ Refuse("commit", "UNRESOLVED_MARKERS")

\* A changed protected path is reset and the commit refused.
EnforcePolicy ==
    /\ pulled /\ Scannable /\ ~RejectMarkers(local)
    /\ Violations # {}
    /\ UNCHANGED <<remote, pulled>>
    /\ IF ValidSnapshot(Reset)
       THEN ApplyLocal(Reset, base, remote, "commit", "READ_ONLY_PATH")
       ELSE Refuse("commit", "INVALID_CONTENT")

CommitMerges ==
    LET merged == MaterializeTree(base, local, remote)
        clean  == Clean(base, local, remote) IN
    /\ pulled /\ Scannable /\ ~RejectMarkers(local)
    /\ Violations = {}
    /\ IF clean
       THEN CASE merged = remote ->
                    ApplyLocal(remote, remote, remote, "commit", "OK") /\ UNCHANGED <<remote, pulled>>
              [] merged # remote /\ ~Readable(merged) -> Refuse("commit", "ENGINE_FAILED")
              [] merged # remote /\ Readable(merged) /\ NewFoldedPairs(merged) # {} ->
                    Refuse("commit", "INVALID_CONTENT")
              [] OTHER ->
                    /\ remote' = merged /\ UNCHANGED pulled
                    /\ ApplyLocal(merged, merged, merged, "commit", "OK")
       ELSE IF ~Readable(merged) THEN Refuse("commit", "ENGINE_FAILED")
            ELSE ApplyLocal(merged, remote, remote, "commit", "CONFLICT") /\ UNCHANGED <<remote, pulled>>

\* notes_commit
Commit ==
    /\ \/ EntryRecovery("commit")
       \/ ~recovery /\ (CommitRefused \/ EnforcePolicy \/ CommitMerges)
    /\ UNCHANGED <<written, policy, published, edits>>

-----------------------------------------------------------------------------
(* The editor and the other writers write or remove one file at a time; a  *)
(* file takes the place of a directory of its name, and a directory that   *)
(* of a file.                                                              *)
WriteFile(snap, p, c) ==
    [q \in Paths |-> IF q = p THEN c
                     ELSE IF c # Absent /\ (Below(q, p) \/ Below(p, q)) THEN Absent
                     ELSE snap[q]]
ContentsAt(p) == {Plain(t) : t \in TextsAt[p]} \cup {Absent}
OnDisk(snap) == \A p, q \in Files(snap) : ~Below(q, p)

EditLocal(p, c) ==
    /\ edits < MaxEdits
    /\ c # local[p]
    /\ local' = WriteFile(local, p, c)
    /\ edits' = edits + 1
    /\ last' = NoCall
    /\ UNCHANGED <<written, policy, base, remote, pulled, recovery, published>>

OthersPublish(p, c) ==
    /\ published < MaxRemote
    /\ c # remote[p] /\ ValidSnapshot(WriteFile(remote, p, c))
    /\ remote' = WriteFile(remote, p, c)
    /\ published' = published + 1
    /\ last' = NoCall
    /\ UNCHANGED <<written, policy, base, local, pulled, recovery, edits>>

\* A process whose two sets name one path does not start.
Init ==
    /\ written \in {s \in Settings : ~Overlap(s.readOnly, s.writable)}
    /\ policy = ProcessPolicy(written.readOnly, written.writable)
    /\ \E start \in Starts \cup {EmptyTree} :
          /\ base = start /\ local = start /\ remote = start
          /\ pulled = (start # EmptyTree)
    /\ recovery = FALSE
    /\ last = NoCall /\ published = 0 /\ edits = 0

Next ==
    \/ Pull
    \/ Commit
    \/ \E p \in Paths : \E c \in ContentsAt(p) : EditLocal(p, c) \/ OthersPublish(p, c)

Spec == Init /\ [][Next]_vars

-----------------------------------------------------------------------------
(* Properties                                                              *)

Results == {"none", "OK", "CONFLICT", "INVALID_CONTENT", "DIRECTORY_NOT_EMPTY",
            "ENGINE_FAILED", "PULL_REQUIRED", "UNRESOLVED_MARKERS", "READ_ONLY_PATH",
            "RECOVERY_FAILURE"}

\* Types, and that the accepted trees are snapshots every reader can read:
\* ReadSnapshot of the head or of the baseline never fails.
TypeOK ==
    /\ written \in Settings
    /\ \A t \in {base, local, remote} : \A p \in Paths :
          t[p].texts \subseteq TextsAt[p] /\ t[p].block \in BOOLEAN
    /\ ValidSnapshot(base) /\ ValidSnapshot(remote) /\ OnDisk(local)
    /\ pulled \in BOOLEAN /\ recovery \in BOOLEAN
    /\ last \in [op : {"none", "pull", "commit"}, result : Results]

\* Judged by the entries as written: the longest entry of either set.
WrittenProtects(p) ==
    LET all == {e \in written.readOnly \cup written.writable : AtOrBelow(Fold(p), Fold(e))} IN
    IF all = {} THEN written.writable # {}
    ELSE \E e \in written.readOnly \cap all : \A f \in all : Len(f) <= Len(e)

\* A commit of this process never changes, adds or removes a path the entries
\* the operator wrote protect, whatever the local files and the other
\* writers did: collapsing, rebuilding and the reset lose no entry.
ProtectedUntouched ==
    last'.op = "commit" => \A p \in Paths : WrittenProtects(p) => remote'[p] = remote[p]

\* A pull that returns, cleanly or with conflicts, leaves every text the
\* caller wrote on an unprotected path in the visible directory, unless a
\* protected file was put back above it.
LocalWorkKept ==
    last' \in {Ended("pull", "OK"), Ended("pull", "CONFLICT")} =>
       \A p \in Files(local) :
          \/ WrittenProtects(p) \/ local[p] = base[p]
          \/ local[p].texts \subseteq local'[p].texts
          \/ \E q \in Paths : Below(p, q) /\ WrittenProtects(q) /\ base[q] # Absent

\* After a clean pull the protected paths hold exactly what the accepted
\* state holds there: nothing the caller did to them survives.
PullFollowsRemote ==
    last' = Ended("pull", "OK") => \A p \in Paths : WrittenProtects(p) => local'[p] = remote'[p]

\* What a pull makes of the local side: the caller's work stays where it may
\* be, and goes where the entries protect (MaterializeTree, collapseEntries).
PullsKeepWork == [][LocalWorkKept /\ PullFollowsRemote]_vars

\* A commit refused for its protected paths leaves none of them changed, so
\* the same commit again is not refused for them, and takes no other work
\* than what stands below a file it puts back.
RefusalResets ==
    [][last' = Ended("commit", "READ_ONLY_PATH") =>
          /\ ChangedProtected(policy, local', base') = {}
          /\ \A p \in Paths : ~WrittenProtects(p) =>
                \/ local'[p] = local[p]
                \/ \E q \in Paths : Below(p, q) /\ base[q] # Absent /\ WrittenProtects(q)]_vars

\* No commit leaves a complete conflict block in the accepted state.
NoBlockPublished == last'.op = "commit" => \A p \in Paths : ~remote'[p].block

\* A commit brings no file and directory whose names differ only in case
\* together that the accepted state did not already hold together.
NoNewFoldedPair ==
    last'.op = "commit" => FoldedDirectoryPairs(remote') \subseteq FoldedDirectoryPairs(remote)

\* What no commit of this process publishes: a change of a protected path, a
\* conflict block, a new pair of names that one disk cannot hold (commit's
\* three refusals, against a remote that moves).
CommitsWithinPolicy == [][ProtectedUntouched /\ NoBlockPublished /\ NoNewFoldedPair]_vars

\* No rewrite of the visible directory ends half done when nothing fails:
\* every change of shape is covered, a directory that becomes a file too.
EveryShapeApplies == last.result # "RECOVERY_FAILURE"
=============================================================================
