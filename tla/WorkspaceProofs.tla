--------------------------- MODULE WorkspaceProofs ---------------------------
(***************************************************************************)
(* The safety of the private state for any number of processes, paths and  *)
(* faults: a record that asks for no recovery describes a whole visible    *)
(* directory and a baseline R accepted.  With a repository that keeps its  *)
(* objects it can also read that baseline, and ignored paths stay as R has *)
(* them.  That every call ends is left to TLC.                             *)
(***************************************************************************)
EXTENDS Workspace, TLAPS

\* L shows the tree, but for the user's edits, and no leftover temporary.
Whole(tree) ==
  /\ ~junk
  /\ \A q \in Paths \ Ignored :
       IF edits[q] = NoEdit THEN L[q] = tree[q] ELSE L[q] \in {edits[q], Marker}

\* A generation and its tree are what R accepted, and not ahead of it.
Follows(x, r) == x.gen <= r.gen /\ (x.gen = r.gen => x.tree = r.tree)

Shown(tree, todo) == \A q \in (Paths \ Ignored) \ todo : L[q] = tree[q]

\* The process is in applyLocked, its persistState calls included.
Applying(s) ==
  \/ s.pc \in {"stage", "inplace"}
  \/ s.pc \in {"persist", "rename"} /\ s.then # "idle"

\* Where the target is not the baseline it shows the user's edit.
TargetOK(s) ==
  \A q \in Paths \ Ignored : s.target[q] # s.base.tree[q] =>
    edits[q] # NoEdit /\ s.target[q] \in {edits[q], Marker}

\* What persistState is about to write is true of L, or asks for a recovery.
PendOK(s) ==
  /\ s.then # "none"
  /\ Follows(s.pend, remote)
  /\ s.then = "idle" => s.pend.flag \/ (s.pend = NewRecord /\ Whole(EmptyTree))
  /\ s.then \in {"stage", "inplace"} => s.pend.flag
  /\ s.then = "inplace" => Shown(s.target, s.todo)
  /\ s.then = "done" =>
       s.pend = NewBaseline(s) /\ s.mem.flag /\ ~junk /\ Shown(s.target, {})

\* What the holder of the operation lock relies on: its own flag is never
\* ahead of the durable one, and it rewrites L only under that flag.
HolderOK(s) ==
  /\ s.mem.flag => ~Trusted
  /\ s.pc \in {"scan", "remote"} => Trusted /\ s.mem = rec.st /\ s.op \in {"pull", "commit"}
  /\ s.pc = "remote" => Shown(s.local, {})
  /\ s.pc = "remote" /\ s.op = "commit" => \A q \in Paths : s.local[q] # Marker
  /\ Applying(s) => TargetOK(s) /\ Follows(s.base, remote)
  /\ s.pc = "inplace" => s.mem.flag /\ Shown(s.target, s.todo)
  /\ s.pc \in {"persist", "rename"} => PendOK(s)
  /\ s.pc = "rename" => tmp /\ s.pend.version = 1

Busy(s) == s.pc \notin {"closed", "idle"}

\* The record, and a directory that was never opened.
RecInv ==
  /\ rec.kind = "ok" => rec.st.version = 1
  /\ Follows(rec.st, remote)
  /\ Trusted => Whole(rec.st.tree)
  /\ remote.gen <= MaxGen
  /\ remote.gen = 0 => remote.tree = EmptyTree
  /\ repo.state = "missing" =>
       /\ rec = NoFile /\ ~tmp /\ Whole(EmptyTree)
       /\ \A p \in Procs : proc[p].pc = "closed"

ProcInv ==
  /\ \A p \in Procs : Busy(proc[p]) <=> lock = p
  /\ \A p \in Procs : Follows(proc[p].mem, remote)
  /\ lock \in Procs => HolderOK(proc[lock])

\* The inductive invariant.
WorkspaceInv == TypeOK /\ RecInv /\ ProcInv

-----------------------------------------------------------------------------
(* Types.                                                                   *)

\* What R accepts has no markers (Accepted).
Clean == [Paths -> Contents \cup {Absent}]

\* The fields of a process have their types.
LEMMA Fields ==
  ASSUME NEW s \in ProcStates
  PROVE  /\ s.pc \in PCs /\ s.mem \in Records /\ s.pend \in Records
         /\ s.op \in {"none", "pull", "commit", "recover"}
         /\ s.local \in Trees /\ s.target \in Trees
         /\ s.base \in Accepted /\ s.published \in BOOLEAN
         /\ s.todo \in SUBSET Paths
         /\ s.then \in {"none", "idle", "stage", "inplace", "done"}
BY DEF ProcStates

\* The fields of a record, and of the flagged one.
LEMMA RecordFields ==
  ASSUME NEW st \in Records
  PROVE  /\ st.version \in {0, 1} /\ st.gen \in Nat /\ st.tree \in Clean
         /\ st.flag \in BOOLEAN
         /\ Flagged(st) \in Records
         /\ Flagged(st).version = st.version /\ Flagged(st).gen = st.gen
         /\ Flagged(st).tree = st.tree /\ Flagged(st).flag = TRUE
BY DEF Records, Clean, Flagged

\* The fixed values are well typed.
LEMMA Constants_ ==
  /\ EmptyTree \in Clean /\ EmptyTree \in Trees
  /\ Genesis \in Accepted /\ Genesis.gen = 0 /\ Genesis.tree = EmptyTree
  /\ NewRecord \in Records /\ ZeroRecord \in Records
  /\ NewRecord.gen = 0 /\ NewRecord.tree = EmptyTree /\ NewRecord.version = 1
  /\ NewRecord.flag = FALSE
  /\ ZeroRecord.gen = 0 /\ ZeroRecord.tree = EmptyTree /\ ZeroRecord.flag = FALSE
  /\ NoFile \in Files /\ NoFile.st = ZeroRecord /\ NoFile.kind = "missing"
  /\ Closed \in ProcStates /\ Closed.pc = "closed" /\ Closed.mem = ZeroRecord
<1>1. EmptyTree \in Clean /\ EmptyTree \in Trees
  BY DEF EmptyTree, Clean, Trees
<1>2. Genesis \in Accepted /\ Genesis.gen = 0 /\ Genesis.tree = EmptyTree
  BY <1>1 DEF Genesis, Accepted, Clean
<1>3. /\ NewRecord \in Records /\ ZeroRecord \in Records
      /\ NewRecord.gen = 0 /\ NewRecord.tree = EmptyTree /\ NewRecord.version = 1
      /\ NewRecord.flag = FALSE
      /\ ZeroRecord.gen = 0 /\ ZeroRecord.tree = EmptyTree /\ ZeroRecord.flag = FALSE
  BY <1>1 DEF NewRecord, ZeroRecord, Records, Clean
<1>4. NoFile \in Files /\ NoFile.st = ZeroRecord /\ NoFile.kind = "missing"
  BY <1>3 DEF NoFile, Files
<1>5. Closed \in ProcStates /\ Closed.pc = "closed" /\ Closed.mem = ZeroRecord
  BY <1>1, <1>2, <1>3 DEF Closed, ProcStates, PCs
<1> QED BY <1>1, <1>2, <1>3, <1>4, <1>5

\* The state a returning call leaves (Rest).
LEMMA Resting ==
  ASSUME NEW s \in ProcStates
  PROVE  Rest(s) \in ProcStates /\ Rest(s).pc = "idle" /\ Rest(s).mem = s.mem
BY Constants_ DEF Rest, ProcStates, PCs

\* What R accepted stays accepted when R moves on.
LEMMA FollowsGrows ==
  ASSUME NEW r \in Accepted, NEW r2 \in Accepted, NEW x, x.gen \in Nat,
         Follows(x, r), r2 = r \/ r2.gen = r.gen + 1
  PROVE  Follows(x, r2)
BY DEF Follows, Accepted

-----------------------------------------------------------------------------
(* A step of the process that holds or takes the lock.                      *)

\* One process moves; it holds or takes the lock, and no other is at work.
LEMMA HolderStep ==
  ASSUME WorkspaceInv, NEW p \in Procs, NEW s2 \in ProcStates,
         proc' = [proc EXCEPT ![p] = s2],
         lock \in {p, Nobody},
         lock' = IF Busy(s2) THEN p ELSE Nobody,
         remote' \in Accepted,
         remote' = remote \/ remote'.gen = remote.gen + 1,
         Follows(s2.mem, remote'),
         Busy(s2) => HolderOK(s2)'
  PROVE  /\ ProcInv'
         /\ proc' \in [Procs -> ProcStates]
         /\ lock' \in Procs \cup {Nobody}
<1> USE WorkspaceAssumption DEF WorkspaceInv
<1>1. proc' \in [Procs -> ProcStates] /\ lock' \in Procs \cup {Nobody}
  BY DEF TypeOK
<1>2. /\ proc'[p] = s2
      /\ \A x \in Procs \ {p} : proc'[x] = proc[x]
  BY DEF TypeOK
<1>3. \A x \in Procs : Busy(proc'[x]) <=> lock' = x
  BY <1>2 DEF ProcInv, Busy
<1>4. \A x \in Procs : Follows(proc'[x].mem, remote')
  <2> SUFFICES ASSUME NEW x \in Procs, x # p PROVE Follows(proc'[x].mem, remote')
    BY <1>2
  <2>1. proc[x].mem.gen \in Nat
    <3>1. proc[x] \in ProcStates
      BY DEF TypeOK
    <3>2. proc[x].mem \in Records
      BY <3>1, Fields
    <3> QED BY <3>2, RecordFields
  <2>2. remote \in Accepted /\ Follows(proc[x].mem, remote)
    BY DEF TypeOK, ProcInv
  <2> QED BY <1>2, <2>1, <2>2, FollowsGrows
<1>5. ASSUME lock' \in Procs PROVE HolderOK(proc[lock])'
  <2>1. Busy(s2) /\ lock' = p
    BY <1>5
  <2>2. HolderOK(s2)' /\ proc'[lock'] = s2
    BY <1>2, <2>1
  <2>3. Applying(proc[lock])' <=> Applying(s2)'
    BY <2>2 DEF Applying
  <2>4. TargetOK(s2)' => TargetOK(proc[lock])'
    BY <2>2 DEF TargetOK
  <2>5. PendOK(s2)' => PendOK(proc[lock])'
    BY <2>2 DEF PendOK, Shown, NewBaseline
  <2> QED BY <2>2, <2>3, <2>4, <2>5 DEF HolderOK, Shown
<1> QED BY <1>1, <1>3, <1>4, <1>5 DEF ProcInv

\* The repository exists once any process has opened it.
LEMMA Opened ==
  ASSUME WorkspaceInv, NEW p \in Procs, proc[p].pc # "closed"
  PROVE  repo.state # "missing"
BY DEF WorkspaceInv, RecInv

\* The process with work under way holds the lock, and relies on it.
LEMMA Holding ==
  ASSUME WorkspaceInv, NEW p \in Procs, proc[p].pc \notin {"closed", "idle"}
  PROVE  lock = p /\ HolderOK(proc[p])
BY DEF WorkspaceInv, ProcInv, Busy

\* A step that touches neither the record nor L.
LEMMA QuietStep ==
  ASSUME WorkspaceInv, NEW p \in Procs, NEW s2 \in ProcStates,
         proc' = [proc EXCEPT ![p] = s2],
         lock \in {p, Nobody},
         lock' = IF Busy(s2) THEN p ELSE Nobody,
         UNCHANGED <<rec, tmp, L, junk, edits>>,
         remote' \in Accepted, remote'.gen <= MaxGen,
         remote' = remote \/ remote'.gen = remote.gen + 1,
         repo' \in [state : {"missing", "broken", "ok"}, held : SUBSET (0 .. MaxGen)],
         repo'.state # "missing",
         pulled' \in BOOLEAN, faults' \in 0 .. MaxFaults,
         Follows(s2.mem, remote'),
         Busy(s2) => HolderOK(s2)'
  PROVE  WorkspaceInv'
<1>1. /\ ProcInv'
      /\ proc' \in [Procs -> ProcStates]
      /\ lock' \in Procs \cup {Nobody}
  BY HolderStep
<1>2. TypeOK'
  BY <1>1 DEF WorkspaceInv, TypeOK
<1>3. RecInv'
  <2>1. Follows(rec.st, remote')
    <3>1. rec.st.gen \in Nat /\ remote \in Accepted /\ Follows(rec.st, remote)
      BY RecordFields DEF WorkspaceInv, TypeOK, RecInv, Files
    <3> QED BY <3>1, FollowsGrows
  <2>2. remote'.gen = 0 => remote'.tree = EmptyTree
    BY DEF WorkspaceInv, RecInv, TypeOK, Accepted
  <2>3. Trusted' => Whole(rec.st.tree)'
    BY DEF WorkspaceInv, RecInv, Trusted, Whole
  <2>4. (rec.kind = "ok" => rec.st.version = 1)'
    BY DEF WorkspaceInv, RecInv
  <2> QED BY <2>1, <2>2, <2>3, <2>4 DEF RecInv
<1> QED BY <1>1, <1>2, <1>3 DEF WorkspaceInv

\* The same while R stands still.
LEMMA StillStep ==
  ASSUME WorkspaceInv, NEW p \in Procs, NEW s2 \in ProcStates,
         proc' = [proc EXCEPT ![p] = s2],
         lock \in {p, Nobody},
         lock' = IF Busy(s2) THEN p ELSE Nobody,
         UNCHANGED <<remote, rec, tmp, L, junk, edits>>,
         repo' \in [state : {"missing", "broken", "ok"}, held : SUBSET (0 .. MaxGen)],
         repo'.state # "missing",
         pulled' \in BOOLEAN, faults' \in 0 .. MaxFaults,
         Follows(s2.mem, remote),
         Busy(s2) => HolderOK(s2)
  PROVE  WorkspaceInv'
<1>1. remote' \in Accepted /\ remote'.gen <= MaxGen /\ remote' = remote
  BY DEF WorkspaceInv, TypeOK, RecInv
<1>2. Follows(s2.mem, remote')
  BY <1>1
<1>3. Busy(s2) => HolderOK(s2)'
  BY DEF HolderOK, Applying, TargetOK, PendOK, Shown, Trusted, Whole, NewBaseline
<1> QED BY <1>1, <1>2, <1>3, QuietStep

\* The call returns and changes nothing but the marker.
LEMMA ReleaseStep ==
  ASSUME WorkspaceInv, NEW p \in Procs, Release(p), proc[p].pc \notin {"closed", "idle"},
         UNCHANGED <<remote, rec, tmp, repo, L, junk, edits, faults>>,
         pulled' \in BOOLEAN
  PROVE  WorkspaceInv'
<1>1. proc[p] \in ProcStates /\ Follows(proc[p].mem, remote)
  BY DEF WorkspaceInv, TypeOK, ProcInv
<1>2. PICK s2 \in ProcStates : s2 = Rest(proc[p]) /\ s2.pc = "idle" /\ s2.mem = proc[p].mem
  BY <1>1, Resting
<1>3. /\ proc' = [proc EXCEPT ![p] = s2]
      /\ lock' = IF Busy(s2) THEN p ELSE Nobody
      /\ ~Busy(s2)
  BY <1>2 DEF Release, Become, Busy
<1>4. lock = p
  BY Holding
<1>5. /\ repo' \in [state : {"missing", "broken", "ok"}, held : SUBSET (0 .. MaxGen)]
      /\ repo'.state # "missing"
      /\ faults' \in 0 .. MaxFaults
  BY Opened DEF WorkspaceInv, TypeOK
<1> QED BY <1>1, <1>2, <1>3, <1>4, <1>5, StillStep

-----------------------------------------------------------------------------
(* Open and the operation lock.                                             *)

\* Open keeps the invariant: what it is about to write is true or flagged.
LEMMA OpenStep ==
  ASSUME WorkspaceInv, NEW p \in Procs, Open(p)
  PROVE  WorkspaceInv'
<1> DEFINE fresh == rec.kind = "missing" /\ repo.state = "missing" /\ ~tmp
           s(st) == [Closed EXCEPT !.pc = "idle", !.mem = st]
<1>1. /\ proc[p].pc = "closed" /\ lock = Nobody
      /\ UNCHANGED <<remote, rec, tmp, pulled, L, junk, edits, faults>>
  BY DEF Open
<1>2. /\ repo' \in [state : {"missing", "broken", "ok"}, held : SUBSET (0 .. MaxGen)]
      /\ repo'.state # "missing"
      /\ pulled' \in BOOLEAN /\ faults' \in 0 .. MaxFaults
  BY <1>1, WorkspaceAssumption DEF Open, WorkspaceInv, TypeOK
<1>3. /\ rec.st \in Records /\ rec.kind \in {"missing", "bad", "foreign", "ok"}
      /\ tmp \in BOOLEAN /\ remote \in Accepted
      /\ Follows(rec.st, remote)
      /\ remote.gen = 0 => remote.tree = EmptyTree
  BY DEF WorkspaceInv, TypeOK, RecInv, Files
<1>4. ASSUME NEW st \in Records
      PROVE  s(st) \in ProcStates /\ s(st).pc = "idle" /\ s(st).mem = st
  BY Constants_ DEF ProcStates, PCs
<1>5. ASSUME NEW st \in Records, NEW pend \in Records
      PROVE  /\ Persisting(s(st), pend, "idle") \in ProcStates
             /\ Persisting(s(st), pend, "idle").pc = "persist"
             /\ Persisting(s(st), pend, "idle").mem = st
             /\ Persisting(s(st), pend, "idle").pend = pend
             /\ Persisting(s(st), pend, "idle").then = "idle"
  BY <1>4 DEF Persisting, ProcStates, PCs
<1> HIDE DEF s
<1>6. Follows(ZeroRecord, remote) /\ Follows(NewRecord, remote)
  BY <1>3, Constants_ DEF Follows, Accepted
<1>7. \A st \in Records : Follows(st, remote) => Follows(Flagged(st), remote)
  BY RecordFields DEF Follows
<1>8. ASSUME NEW st \in Records, Follows(st, remote),
             Become(p, s(st)), UNCHANGED lock
      PROVE  WorkspaceInv'
  <2>1. PICK s2 \in ProcStates : s2 = s(st) /\ s2.pc = "idle" /\ s2.mem = st
    BY <1>4
  <2>2. /\ proc' = [proc EXCEPT ![p] = s2] /\ ~Busy(s2)
        /\ lock \in {p, Nobody} /\ lock' = IF Busy(s2) THEN p ELSE Nobody
        /\ Follows(s2.mem, remote)
    BY <1>1, <1>8, <2>1 DEF Become, Busy
  <2> QED BY <1>1, <1>2, <2>1, <2>2, StillStep
<1>9. ASSUME NEW st \in Records, NEW pend \in Records,
             Follows(st, remote), Follows(pend, remote), ~st.flag,
             pend.flag \/ (pend = NewRecord /\ Whole(EmptyTree)),
             Become(p, Persisting(s(st), pend, "idle")), lock' = p
      PROVE  WorkspaceInv'
  <2>1. PICK s2 \in ProcStates :
          /\ s2 = Persisting(s(st), pend, "idle")
          /\ s2.pc = "persist" /\ s2.mem = st /\ s2.pend = pend /\ s2.then = "idle"
    BY <1>5
  <2>2. /\ proc' = [proc EXCEPT ![p] = s2] /\ Busy(s2)
        /\ lock \in {p, Nobody} /\ lock' = IF Busy(s2) THEN p ELSE Nobody
        /\ Follows(s2.mem, remote)
    BY <1>1, <1>9, <2>1 DEF Become, Busy
  <2>3. HolderOK(s2)
    BY <1>9, <2>1 DEF HolderOK, PendOK, Applying
  <2> QED BY <1>1, <1>2, <2>1, <2>2, <2>3, StillStep
<1>10. CASE fresh /\ Become(p, Persisting(s(ZeroRecord), NewRecord, "idle")) /\ lock' = p
  <2>1. Whole(EmptyTree)
    BY <1>10 DEF WorkspaceInv, RecInv
  <2> QED BY <1>6, <1>9, <1>10, <2>1, Constants_
<1>11. CASE Become(p, s(Flagged(ZeroRecord))) /\ UNCHANGED lock
  BY <1>6, <1>7, <1>8, <1>11, Constants_, RecordFields
<1>12. CASE Become(p, s(Flagged(rec.st))) /\ UNCHANGED lock
  BY <1>3, <1>7, <1>8, <1>12, RecordFields
<1>13. CASE /\ MarksRebuilt(repo.state # "ok")
            /\ Become(p, Persisting(s(rec.st), Flagged(rec.st), "idle")) /\ lock' = p
  BY <1>3, <1>7, <1>9, <1>13, RecordFields DEF MarksRebuilt
<1>14. CASE Become(p, s(rec.st)) /\ UNCHANGED lock
  BY <1>3, <1>8, <1>14
<1> QED BY <1>10, <1>11, <1>12, <1>13, <1>14 DEF Open, s

\* The record reread under the lock decides between work and recovery.
LEMMA BeginStep ==
  ASSUME WorkspaceInv, NEW p \in Procs, NEW op \in {"pull", "commit"}, Begin(p, op)
  PROVE  WorkspaceInv'
<1>1. /\ proc[p].pc = "idle" /\ lock = Nobody /\ lock' = p
      /\ UNCHANGED <<remote, rec, tmp, pulled, repo, L, junk, edits, faults>>
  BY DEF Begin, disk
<1>2. /\ proc[p] \in ProcStates /\ rec \in Files /\ tmp \in BOOLEAN
      /\ rec.st \in Records /\ proc[p].mem \in Records
      /\ Follows(rec.st, remote) /\ Follows(proc[p].mem, remote)
  BY Fields DEF WorkspaceInv, TypeOK, RecInv, ProcInv, Files
<1>3. PICK m \in Records :
        /\ m = Refresh(proc[p])
        /\ m.flag <=> ~Trusted
        /\ ~m.flag => m = rec.st
        /\ Follows(m, remote)
  <2>1. Refresh(proc[p]) \in Records
    BY <1>2 DEF Refresh, Records
  <2>2. Refresh(proc[p]).flag <=> ~Trusted
    BY <1>2 DEF Refresh, Records, Trusted, Readable, Files
  <2>3. ~Refresh(proc[p]).flag => Refresh(proc[p]) = rec.st
    BY <1>2 DEF Refresh, Records, Readable, Files
  <2>4. Follows(Refresh(proc[p]), remote)
    BY <1>2 DEF Refresh, Records, Follows
  <2> QED BY <2>1, <2>2, <2>3, <2>4
<1>4. PICK s2 \in ProcStates :
        /\ proc' = [proc EXCEPT ![p] = s2]
        /\ s2.mem = m
        /\ s2.op = IF m.flag THEN "recover" ELSE op
        /\ s2.pc = IF m.flag THEN "recover" ELSE "scan"
  <2> DEFINE k == [proc[p] EXCEPT !.mem = m,
                               !.op = IF m.flag THEN "recover" ELSE op,
                               !.pc = IF m.flag THEN "recover" ELSE "scan"]
  <2>1. /\ k \in ProcStates /\ k.mem = m
        /\ k.op = (IF m.flag THEN "recover" ELSE op)
        /\ k.pc = (IF m.flag THEN "recover" ELSE "scan")
    BY <1>2 DEF ProcStates, PCs
  <2>2. proc' = [proc EXCEPT ![p] = k]
    BY <1>3 DEF Begin, Become
  <2> HIDE DEF k
  <2> QED BY <2>1, <2>2
<1>5. Busy(s2) /\ HolderOK(s2)
  BY <1>3, <1>4 DEF Busy, HolderOK, Applying
<1>6. /\ repo' \in [state : {"missing", "broken", "ok"}, held : SUBSET (0 .. MaxGen)]
      /\ repo'.state # "missing"
      /\ pulled' \in BOOLEAN /\ faults' \in 0 .. MaxFaults
  BY <1>1, Opened DEF WorkspaceInv, TypeOK
<1> QED BY <1>1, <1>3, <1>4, <1>5, <1>6, StillStep

-----------------------------------------------------------------------------
(* The work of a pull or a commit.                                          *)

\* The scan sees L as it is, but for the ignored paths.
LEMMA ScanStep ==
  ASSUME WorkspaceInv, NEW p \in Procs, Scan(p)
  PROVE  WorkspaceInv'
<1> DEFINE local == [q \in Paths |-> IF q \in Ignored THEN Pinned(proc[p].mem, q) ELSE L[q]]
<1>1. /\ proc[p].pc = "scan"
      /\ UNCHANGED <<remote, rec, tmp, pulled, repo, L, junk, edits, faults>>
  BY DEF Scan, disk
<1>2. /\ repo' \in [state : {"missing", "broken", "ok"}, held : SUBSET (0 .. MaxGen)]
      /\ repo'.state # "missing"
      /\ pulled' \in BOOLEAN /\ faults' \in 0 .. MaxFaults
  BY <1>1, Opened DEF WorkspaceInv, TypeOK
<1>3. CASE proc[p].op = "commit" /\ CommitRefused(local)
  BY <1>1, <1>2, <1>3, ReleaseStep DEF Scan
<1>4. CASE ~(proc[p].op = "commit" /\ CommitRefused(local))
  <2>1. lock = p /\ HolderOK(proc[p]) /\ proc[p] \in ProcStates
        /\ proc[p].mem \in Records /\ Follows(proc[p].mem, remote)
    BY <1>1, Holding, Fields DEF WorkspaceInv, TypeOK, ProcInv
  <2>2. local \in Trees
    <3>1. \A q \in Paths : Pinned(proc[p].mem, q) \in Contents \cup {Absent, Marker}
      <4>1. PICK t \in Clean : t = proc[p].mem.tree
        BY <2>1, RecordFields
      <4>2. \A q \in Paths : t[q] \in Contents \cup {Absent}
        BY DEF Clean
      <4> QED BY <4>1, <4>2 DEF Pinned
    <3>2. \A q \in Paths : L[q] \in Contents \cup {Absent, Marker}
      BY DEF WorkspaceInv, TypeOK, Trees
    <3> QED BY <3>1, <3>2 DEF Trees
  <2>3. \A q \in Paths \ Ignored : local[q] = L[q]
    OBVIOUS
  <2>4. proc[p].op = "commit" => \A q \in Paths : local[q] # Marker
    BY <1>4 DEF CommitRefused
  <2>5. Become(p, [proc[p] EXCEPT !.local = local, !.pc = "remote"]) /\ UNCHANGED lock
    BY <1>4 DEF Scan
  <2> HIDE DEF local
  <2>6. PICK s2 \in ProcStates :
          /\ proc' = [proc EXCEPT ![p] = s2]
          /\ s2.pc = "remote" /\ s2.mem = proc[p].mem /\ s2.op = proc[p].op
          /\ s2.local = local
    <3> DEFINE k == [proc[p] EXCEPT !.local = local, !.pc = "remote"]
    <3>1. /\ k \in ProcStates /\ k.pc = "remote" /\ k.mem = proc[p].mem
          /\ k.op = proc[p].op /\ k.local = local
      BY <2>1, <2>2 DEF ProcStates, PCs
    <3>2. proc' = [proc EXCEPT ![p] = k]
      BY <2>5 DEF Become
    <3> HIDE DEF k
    <3> QED BY <3>1, <3>2
  <2>7. Busy(s2) /\ HolderOK(s2)
    BY <1>1, <2>1, <2>3, <2>4, <2>6 DEF Busy, HolderOK, Applying, Shown
  <2> QED BY <1>1, <1>2, <2>1, <2>5, <2>6, <2>7, StillStep
<1> QED BY <1>3, <1>4

\* What a merge of the scanned tree with R shows besides R (MergeTrees): the
\* user's edits and conflict blocks; a clean merge has no markers.
LEMMA Merged ==
  ASSUME WorkspaceInv, NEW p \in Procs, proc[p].pc = "remote",
         NEW merged, merged = MergeTrees(proc[p].mem.tree, proc[p].local, remote.tree)
  PROVE  /\ merged \in Trees
         /\ \A q \in Paths \ Ignored : merged[q] # remote.tree[q] =>
              edits[q] # NoEdit /\ merged[q] \in {edits[q], Marker}
         /\ /\ Conflicts(proc[p].mem.tree, proc[p].local, remote.tree) = {}
            /\ proc[p].op = "commit"
            => merged \in Clean
<1>1. /\ proc[p] \in ProcStates /\ proc[p].mem \in Records /\ proc[p].local \in Trees
      /\ HolderOK(proc[p])
  BY Holding, Fields DEF WorkspaceInv, TypeOK
<1>2. PICK b \in Clean, l \in Trees, r \in Clean :
        b = proc[p].mem.tree /\ l = proc[p].local /\ r = remote.tree
  BY <1>1, RecordFields DEF WorkspaceInv, TypeOK, Accepted, Clean
<1>3. merged = MergeTrees(b, l, r)
  BY <1>2
<1>4. /\ \A q \in Paths \ Ignored : l[q] = L[q]
      /\ \A q \in Paths \ Ignored :
           IF edits[q] = NoEdit THEN L[q] = b[q] ELSE L[q] \in {edits[q], Marker}
      /\ proc[p].op = "commit" => \A q \in Paths : l[q] # Marker
  BY <1>1, <1>2 DEF HolderOK, Shown, WorkspaceInv, RecInv, Whole
<1>5. merged \in Trees
  BY <1>2, <1>3 DEF MergeTrees, Conflicts, Trees, Clean
<1>6. \A q \in Paths \ Ignored : merged[q] # r[q] =>
              edits[q] # NoEdit /\ merged[q] \in {edits[q], Marker}
  BY <1>2, <1>3, <1>4 DEF MergeTrees, Conflicts
<1>7. Conflicts(b, l, r) = {} /\ proc[p].op = "commit" => merged \in Clean
  <2> SUFFICES ASSUME Conflicts(b, l, r) = {}, proc[p].op = "commit"
               PROVE  merged \in Clean
    OBVIOUS
  <2>1. merged = [q \in Paths |-> IF l[q] = b[q] THEN r[q] ELSE l[q]]
    BY <1>3 DEF MergeTrees
  <2>2. \A q \in Paths : l[q] \in Contents \cup {Absent}
    BY <1>2, <1>4 DEF Trees
  <2> QED BY <1>2, <2>1, <2>2 DEF Clean
<1> QED BY <1>2, <1>5, <1>6, <1>7

\* The merge's result goes to applyLocked (publish, applyLocal).
LEMMA ApplyNext ==
  ASSUME WorkspaceInv, NEW p \in Procs, proc[p].pc = "remote",
         NEW target \in Trees, NEW base \in Accepted, NEW pub \in BOOLEAN,
         Become(p, [proc[p] EXCEPT !.target = target, !.base = base, !.published = pub,
                                   !.pc = "stage"]),
         UNCHANGED <<lock, rec, tmp, pulled, L, junk, edits, faults>>,
         remote' \in Accepted, remote'.gen <= MaxGen,
         remote' = remote \/ remote'.gen = remote.gen + 1,
         repo' \in [state : {"missing", "broken", "ok"}, held : SUBSET (0 .. MaxGen)],
         repo'.state # "missing",
         base = remote',
         \A q \in Paths \ Ignored : target[q] # base.tree[q] =>
           edits[q] # NoEdit /\ target[q] \in {edits[q], Marker}
  PROVE  WorkspaceInv'
<1>1. /\ lock = p /\ HolderOK(proc[p]) /\ proc[p] \in ProcStates
      /\ proc[p].mem \in Records /\ Follows(proc[p].mem, remote)
      /\ remote \in Accepted
      /\ pulled' \in BOOLEAN /\ faults' \in 0 .. MaxFaults
  BY Holding, Fields DEF WorkspaceInv, TypeOK, ProcInv
<1>2. PICK s2 \in ProcStates :
        /\ proc' = [proc EXCEPT ![p] = s2]
        /\ s2.pc = "stage" /\ s2.mem = proc[p].mem /\ s2.target = target /\ s2.base = base
  <2> DEFINE k == [proc[p] EXCEPT !.target = target, !.base = base, !.published = pub,
                                   !.pc = "stage"]
  <2>1. /\ k \in ProcStates /\ k.pc = "stage" /\ k.mem = proc[p].mem
        /\ k.target = target /\ k.base = base
    BY <1>1 DEF ProcStates, PCs
  <2>2. proc' = [proc EXCEPT ![p] = k]
    BY DEF Become
  <2> HIDE DEF k
  <2> QED BY <2>1, <2>2
<1>3. Follows(s2.mem, remote')
  BY <1>1, <1>2, FollowsGrows, RecordFields
<1>4. Follows(base, remote')
  BY DEF Follows, Accepted
<1>5. Busy(s2) /\ lock' = IF Busy(s2) THEN p ELSE Nobody
  BY <1>1, <1>2 DEF Busy
<1>6. HolderOK(s2)'
  <2>1. TargetOK(s2)'
    BY <1>2 DEF TargetOK
  <2>2. (s2.mem.flag => ~Trusted)'
    BY <1>1, <1>2 DEF HolderOK, Trusted
  <2> QED BY <1>2, <1>4, <2>1, <2>2 DEF HolderOK
<1> QED BY <1>1, <1>2, <1>3, <1>5, <1>6, QuietStep

\* The merge, and the publication of a clean one, keep the invariant.
LEMMA MergeStep ==
  ASSUME WorkspaceInv, NEW p \in Procs, Merge(p)
  PROVE  WorkspaceInv'
<1> DEFINE held == repo.held \cup {remote.gen}
           clean == Conflicts(proc[p].mem.tree, proc[p].local, remote.tree) = {}
           Apply(target, base, pub) ==
             Become(p, [proc[p] EXCEPT !.target = target, !.base = base,
                                       !.published = pub, !.pc = "stage"])
<1>1. PICK merged : merged = MergeTrees(proc[p].mem.tree, proc[p].local, remote.tree)
  OBVIOUS
<1>2. /\ proc[p].pc = "remote" /\ repo.state = "ok"
      /\ repo' = [repo EXCEPT !.held = held \cup {remote'.gen}]
      /\ UNCHANGED <<rec, tmp, pulled, L, junk, edits, faults>>
  BY DEF Merge
<1>3. /\ remote \in Accepted /\ remote.gen \in 0 .. MaxGen /\ pulled \in BOOLEAN
      /\ faults \in 0 .. MaxFaults
      /\ repo \in [state : {"missing", "broken", "ok"}, held : SUBSET (0 .. MaxGen)]
  BY WorkspaceAssumption DEF WorkspaceInv, TypeOK, RecInv, Accepted
<1>4. ASSUME remote'.gen \in 0 .. MaxGen
      PROVE  /\ repo' \in [state : {"missing", "broken", "ok"}, held : SUBSET (0 .. MaxGen)]
             /\ repo'.state # "missing"
  BY <1>2, <1>3, <1>4
<1>5. CASE Release(p) /\ UNCHANGED remote
  <2>1. proc[p] \in ProcStates /\ Follows(proc[p].mem, remote) /\ lock = p
    BY <1>2, Holding DEF WorkspaceInv, TypeOK, ProcInv
  <2>2. PICK s2 \in ProcStates : s2 = Rest(proc[p]) /\ s2.pc = "idle" /\ s2.mem = proc[p].mem
    BY <2>1, Resting
  <2>3. /\ proc' = [proc EXCEPT ![p] = s2]
        /\ lock' = IF Busy(s2) THEN p ELSE Nobody
        /\ ~Busy(s2)
    BY <1>5, <2>2 DEF Release, Become, Busy
  <2>4. /\ repo' \in [state : {"missing", "broken", "ok"}, held : SUBSET (0 .. MaxGen)]
        /\ repo'.state # "missing"
        /\ pulled' \in BOOLEAN /\ faults' \in 0 .. MaxFaults
    BY <1>2, <1>3, <1>4, <1>5
  <2> QED BY <1>2, <1>5, <2>1, <2>2, <2>3, <2>4, StillStep
<1>6. CASE Apply(merged, remote, FALSE) /\ UNCHANGED <<remote, lock>>
  <2>1. /\ merged \in Trees
        /\ \A q \in Paths \ Ignored : merged[q] # remote.tree[q] =>
             edits[q] # NoEdit /\ merged[q] \in {edits[q], Marker}
    BY <1>1, <1>2, Merged
  <2>2. /\ repo' \in [state : {"missing", "broken", "ok"}, held : SUBSET (0 .. MaxGen)]
        /\ repo'.state # "missing"
    BY <1>3, <1>4, <1>6
  <2>3. PICK base \in Accepted : base = remote
    BY <1>3
  <2>4. /\ remote' \in Accepted /\ remote'.gen <= MaxGen /\ remote' = remote
        /\ base = remote'
    BY <1>3, <1>6, <2>3
  <2>5. Apply(merged, base, FALSE)
    BY <1>6, <2>3
  <2>6. UNCHANGED <<lock, rec, tmp, pulled, L, junk, edits, faults>>
    BY <1>2, <1>6
  <2>7. \A q \in Paths \ Ignored : merged[q] # base.tree[q] =>
             edits[q] # NoEdit /\ merged[q] \in {edits[q], Marker}
    BY <2>1, <2>3
  <2> QED BY <1>2, <2>1, <2>2, <2>3, <2>4, <2>5, <2>6, <2>7, ApplyNext
<1>7. CASE /\ proc[p].op = "commit" /\ clean
           /\ remote.gen < MaxGen
           /\ remote' = [gen |-> remote.gen + 1, tree |-> merged]
           /\ Apply(merged, remote', TRUE)
           /\ UNCHANGED lock
  <2>1. merged \in Trees /\ merged \in Clean
    BY <1>1, <1>2, <1>7, Merged
  <2>2. PICK base \in Accepted : base = remote'
    BY <1>3, <1>7, <2>1 DEF Accepted, Clean
  <2>3. /\ base.gen = remote.gen + 1 /\ base.gen \in 0 .. MaxGen /\ base.tree = merged
    BY <1>3, <1>7, <2>2, WorkspaceAssumption
  <2>4. /\ repo' \in [state : {"missing", "broken", "ok"}, held : SUBSET (0 .. MaxGen)]
        /\ repo'.state # "missing"
    BY <1>4, <2>2, <2>3
  <2>5. /\ remote' \in Accepted /\ remote'.gen <= MaxGen
        /\ remote'.gen = remote.gen + 1
    BY <2>2, <2>3, WorkspaceAssumption
  <2>6. Apply(merged, base, TRUE)
    BY <1>7, <2>2
  <2> QED BY <1>2, <1>7, <2>1, <2>2, <2>3, <2>4, <2>5, <2>6, ApplyNext
<1> QED BY <1>1, <1>5, <1>6, <1>7 DEF Merge

\* A failed pull or commit keeps the invariant, published or not.
LEMMA WorkFailsStep ==
  ASSUME WorkspaceInv, NEW p \in Procs, WorkFails(p)
  PROVE  WorkspaceInv'
<1> DEFINE clean == Conflicts(proc[p].mem.tree, proc[p].local, remote.tree) = {}
<1>1. PICK merged : merged = MergeTrees(proc[p].mem.tree, proc[p].local, remote.tree)
  OBVIOUS
<1>2. /\ proc[p].pc \in {"scan", "remote"} /\ Release(p)
      /\ UNCHANGED <<rec, tmp, pulled, L, junk, edits, faults>>
  BY DEF WorkFails
<1>3. /\ remote \in Accepted /\ remote.gen \in 0 .. MaxGen /\ pulled \in BOOLEAN
      /\ faults \in 0 .. MaxFaults /\ repo.state # "missing"
      /\ repo \in [state : {"missing", "broken", "ok"}, held : SUBSET (0 .. MaxGen)]
      /\ proc[p] \in ProcStates /\ Follows(proc[p].mem, remote) /\ lock = p
      /\ proc[p].mem.gen \in Nat
  <2>1. lock = p /\ repo.state # "missing"
    BY <1>2, Holding, Opened
  <2>2. proc[p] \in ProcStates /\ Follows(proc[p].mem, remote) /\ proc[p].mem.gen \in Nat
    BY Fields, RecordFields DEF WorkspaceInv, TypeOK, ProcInv
  <2> QED BY <2>1, <2>2, WorkspaceAssumption DEF WorkspaceInv, TypeOK, RecInv, Accepted
<1>4. CASE UNCHANGED <<remote, repo>>
  BY <1>2, <1>3, <1>4, ReleaseStep
<1>5. CASE /\ proc[p].pc = "remote" /\ proc[p].op = "commit" /\ clean
           /\ remote.gen < MaxGen
           /\ remote' = [gen |-> remote.gen + 1, tree |-> merged]
           /\ repo' = [repo EXCEPT !.held = @ \cup {remote.gen, remote'.gen}]
  <2>1. merged \in Clean
    BY <1>1, <1>2, <1>5, Merged
  <2>2. /\ remote' \in Accepted /\ remote'.gen = remote.gen + 1
        /\ remote'.gen \in 0 .. MaxGen
    BY <1>3, <1>5, <2>1, WorkspaceAssumption DEF Accepted, Clean
  <2>3. PICK s2 \in ProcStates : s2 = Rest(proc[p]) /\ s2.pc = "idle" /\ s2.mem = proc[p].mem
    BY <1>3, Resting
  <2>4. /\ proc' = [proc EXCEPT ![p] = s2]
        /\ lock' = IF Busy(s2) THEN p ELSE Nobody
        /\ ~Busy(s2)
    BY <1>2, <2>3 DEF Release, Become, Busy
  <2>5. /\ repo' \in [state : {"missing", "broken", "ok"}, held : SUBSET (0 .. MaxGen)]
        /\ repo'.state # "missing"
        /\ pulled' \in BOOLEAN /\ faults' \in 0 .. MaxFaults
    BY <1>2, <1>3, <1>5, <2>2
  <2>6. Follows(s2.mem, remote')
    BY <1>3, <2>2, <2>3, FollowsGrows
  <2>7. remote'.gen <= MaxGen
    BY <2>2, WorkspaceAssumption
  <2> QED BY <1>2, <1>3, <2>2, <2>3, <2>4, <2>5, <2>6, <2>7, QuietStep
<1> QED BY <1>1, <1>4, <1>5 DEF WorkFails

-----------------------------------------------------------------------------
(* applyLocked.                                                             *)

\* persistState starts with the flag to be set (markRecoveryRequired).
LEMMA FlagFirst ==
  ASSUME NEW s \in ProcStates, NEW then \in {"stage", "inplace"}
  PROVE  LET k == Persisting(s, Flagged(s.mem), then) IN
         /\ k \in ProcStates
         /\ k.pc = "persist" /\ k.then = then /\ k.pend = Flagged(s.mem)
         /\ k.mem = s.mem /\ k.target = s.target /\ k.base = s.base
         /\ k.todo = s.todo
<1>1. PICK f \in Records : f = Flagged(s.mem)
  BY Fields, RecordFields
<1> QED BY <1>1 DEF Persisting, ProcStates, PCs

\* A recovery takes R as target and baseline, the flag first.
LEMMA RecoverStateStep ==
  ASSUME WorkspaceInv, NEW p \in Procs, RecoverState(p)
  PROVE  WorkspaceInv'
<1> DEFINE s == [proc[p] EXCEPT !.op = "recover", !.target = remote.tree, !.base = remote]
<1>1. /\ proc[p].pc = "recover" /\ repo.state = "ok"
      /\ repo' = [repo EXCEPT !.held = @ \cup {remote.gen}]
      /\ UNCHANGED <<remote, rec, tmp, pulled, L, junk, lock, edits, faults>>
  BY DEF RecoverState
<1>2. /\ lock = p /\ HolderOK(proc[p]) /\ proc[p] \in ProcStates
      /\ proc[p].mem \in Records /\ Follows(proc[p].mem, remote)
      /\ remote \in Accepted /\ remote.gen \in 0 .. MaxGen
      /\ pulled' \in BOOLEAN /\ faults' \in 0 .. MaxFaults
  <2>1. remote \in Accepted /\ remote.gen \in 0 .. MaxGen
    BY WorkspaceAssumption DEF WorkspaceInv, TypeOK, RecInv, Accepted
  <2> QED BY <1>1, <2>1, Holding, Fields DEF WorkspaceInv, TypeOK, ProcInv
<1>3. /\ repo' \in [state : {"missing", "broken", "ok"}, held : SUBSET (0 .. MaxGen)]
      /\ repo'.state # "missing"
  BY <1>1, <1>2 DEF WorkspaceInv, TypeOK
<1>4. remote.tree \in Trees
  BY <1>2 DEF Accepted, Trees
<1>5. /\ s \in ProcStates /\ s.pc = "recover" /\ s.mem = proc[p].mem
      /\ s.target = remote.tree /\ s.base = remote
  BY <1>1, <1>2, <1>4 DEF ProcStates
<1>6. Become(p, IF s.mem.flag THEN [s EXCEPT !.pc = "stage"]
                ELSE Persisting(s, Flagged(s.mem), "stage"))
  BY DEF RecoverState
<1> HIDE DEF s
<1>7. PICK s2 \in ProcStates :
        /\ proc' = [proc EXCEPT ![p] = s2]
        /\ s2.mem = proc[p].mem /\ s2.target = remote.tree /\ s2.base = remote
        /\ \/ s2.pc = "stage"
           \/ s2.pc = "persist" /\ s2.then = "stage" /\ s2.pend = Flagged(proc[p].mem)
  <2>1. CASE s.mem.flag
    <3> DEFINE k == [s EXCEPT !.pc = "stage"]
    <3>1. k \in ProcStates /\ k.mem = s.mem /\ k.target = s.target /\ k.base = s.base
          /\ k.pc = "stage"
      BY <1>5 DEF ProcStates, PCs
    <3>2. proc' = [proc EXCEPT ![p] = k]
      BY <1>6, <2>1 DEF Become
    <3> HIDE DEF k
    <3> QED BY <1>5, <3>1, <3>2
  <2>2. CASE ~s.mem.flag
    <3> DEFINE k == Persisting(s, Flagged(s.mem), "stage")
    <3>1. /\ k \in ProcStates /\ k.mem = s.mem /\ k.target = s.target /\ k.base = s.base
          /\ k.pc = "persist" /\ k.then = "stage" /\ k.pend = Flagged(s.mem)
      BY <1>5, FlagFirst
    <3>2. proc' = [proc EXCEPT ![p] = k]
      BY <1>6, <2>2 DEF Become
    <3> HIDE DEF k
    <3> QED BY <1>5, <3>1, <3>2
  <2> QED BY <2>1, <2>2
<1>8. TargetOK(s2) /\ Follows(s2.base, remote)
  BY <1>2, <1>7 DEF TargetOK, Follows, Accepted
<1>9. Follows(Flagged(proc[p].mem), remote) /\ Flagged(proc[p].mem).flag
  BY <1>2, RecordFields DEF Follows
<1>10. HolderOK(s2)
  BY <1>2, <1>7, <1>8, <1>9 DEF HolderOK, PendOK
<1>11. Busy(s2) /\ lock' = IF Busy(s2) THEN p ELSE Nobody
  BY <1>1, <1>2, <1>7 DEF Busy
<1> QED BY <1>1, <1>2, <1>3, <1>7, <1>10, <1>11, StillStep

\* The flag is durable before L is touched.
LEMMA StageStep ==
  ASSUME WorkspaceInv, NEW p \in Procs, Stage(p)
  PROVE  WorkspaceInv'
<1> DEFINE s == [proc[p] EXCEPT !.todo = Paths \ Ignored]
<1>1. /\ s.pc = "stage"
      /\ UNCHANGED <<remote, rec, tmp, pulled, repo, L, junk, lock, edits, faults>>
      /\ Become(p, IF s.mem.flag THEN [s EXCEPT !.pc = "inplace"]
                   ELSE Persisting(s, Flagged(s.mem), "inplace"))
  BY DEF Stage, disk
<1>2. proc[p] \in ProcStates /\ proc[p].mem \in Records /\ Follows(proc[p].mem, remote)
  BY Fields DEF WorkspaceInv, TypeOK, ProcInv
<1>3. /\ s \in ProcStates /\ s.pc = proc[p].pc /\ s.mem = proc[p].mem
      /\ s.target = proc[p].target /\ s.base = proc[p].base /\ s.todo = Paths \ Ignored
  BY <1>2 DEF ProcStates
<1>4. /\ lock = p /\ HolderOK(proc[p])
      /\ pulled' \in BOOLEAN /\ faults' \in 0 .. MaxFaults
      /\ repo' \in [state : {"missing", "broken", "ok"}, held : SUBSET (0 .. MaxGen)]
      /\ repo'.state # "missing"
  BY <1>1, <1>3, Holding, Opened DEF WorkspaceInv, TypeOK
<1>5. proc[p].pc = "stage"
  BY <1>1, <1>3
<1> HIDE DEF s
<1>7. PICK s2 \in ProcStates :
        /\ proc' = [proc EXCEPT ![p] = s2]
        /\ s2.mem = proc[p].mem /\ s2.target = proc[p].target /\ s2.base = proc[p].base
        /\ s2.todo = Paths \ Ignored
        /\ \/ s2.pc = "inplace" /\ s2.mem.flag
           \/ s2.pc = "persist" /\ s2.then = "inplace" /\ s2.pend = Flagged(proc[p].mem)
  <2>1. CASE s.mem.flag
    <3> DEFINE k == [s EXCEPT !.pc = "inplace"]
    <3>1. /\ k \in ProcStates /\ k.mem = s.mem /\ k.target = s.target /\ k.base = s.base
          /\ k.pc = "inplace" /\ k.todo = s.todo
      BY <1>3 DEF ProcStates, PCs
    <3>2. proc' = [proc EXCEPT ![p] = k]
      BY <1>1, <2>1 DEF Become
    <3> HIDE DEF k
    <3> QED BY <1>3, <2>1, <3>1, <3>2
  <2>2. CASE ~s.mem.flag
    <3> DEFINE k == Persisting(s, Flagged(s.mem), "inplace")
    <3>1. /\ k \in ProcStates /\ k.mem = s.mem /\ k.target = s.target /\ k.base = s.base
          /\ k.pc = "persist" /\ k.then = "inplace" /\ k.pend = Flagged(s.mem)
          /\ k.todo = s.todo
      BY <1>3, FlagFirst
    <3>2. proc' = [proc EXCEPT ![p] = k]
      BY <1>1, <2>2 DEF Become
    <3> HIDE DEF k
    <3> QED BY <1>3, <3>1, <3>2
  <2> QED BY <2>1, <2>2
<1>8. TargetOK(s2) /\ Follows(s2.base, remote)
  BY <1>4, <1>5, <1>7 DEF HolderOK, Applying, TargetOK
<1>9. Follows(Flagged(proc[p].mem), remote) /\ Flagged(proc[p].mem).flag
  BY <1>2, RecordFields DEF Follows
<1>10. HolderOK(s2)
  BY <1>4, <1>7, <1>8, <1>9 DEF HolderOK, PendOK, Shown
<1>11. Busy(s2) /\ lock' = IF Busy(s2) THEN p ELSE Nobody
  BY <1>1, <1>4, <1>7 DEF Busy
<1>12. lock \in {p, Nobody} /\ Follows(s2.mem, remote)
  BY <1>2, <1>4, <1>7
<1>13. UNCHANGED <<remote, rec, tmp, L, junk, edits>>
  BY <1>1
<1> QED BY <1>4, <1>7, <1>10, <1>11, <1>12, <1>13, StillStep

\* The record while L is being rewritten, and R stands still.
LEMMA RecordKept ==
  ASSUME WorkspaceInv, repo.state # "missing", UNCHANGED <<remote, rec, repo>>,
         Trusted' => Trusted /\ UNCHANGED <<L, junk, edits>>
  PROVE  RecInv'
<1>1. Trusted' => Whole(rec.st.tree)'
  BY DEF WorkspaceInv, RecInv, Whole
<1>2. Follows(rec.st, remote)'
  BY DEF WorkspaceInv, RecInv
<1> QED BY <1>1, <1>2 DEF WorkspaceInv, RecInv

\* Each written path shows the target, under the flag.
LEMMA WritePathStep ==
  ASSUME WorkspaceInv, NEW p \in Procs, WritePath(p)
  PROVE  WorkspaceInv'
<1>1. PICK q \in proc[p].todo :
        /\ L' = [L EXCEPT ![q] = proc[p].target[q]]
        /\ Become(p, [proc[p] EXCEPT !.todo = @ \ {q}])
  BY DEF WritePath
<1>2. /\ proc[p].pc = "inplace"
      /\ UNCHANGED <<remote, rec, tmp, pulled, repo, junk, lock, edits, faults>>
  BY DEF WritePath, disk
<1>3. /\ proc[p] \in ProcStates /\ proc[p].mem \in Records /\ Follows(proc[p].mem, remote)
      /\ proc[p].todo \subseteq Paths /\ proc[p].target \in Trees
  BY Fields DEF WorkspaceInv, TypeOK, ProcInv
<1>4. lock = p /\ HolderOK(proc[p]) /\ repo.state # "missing"
  BY <1>2, Holding, Opened
<1>5. PICK s2 \in ProcStates :
        /\ proc' = [proc EXCEPT ![p] = s2]
        /\ s2.pc = "inplace" /\ s2.mem = proc[p].mem /\ s2.target = proc[p].target
        /\ s2.base = proc[p].base /\ s2.todo = proc[p].todo \ {q}
  <2> DEFINE k == [proc[p] EXCEPT !.todo = @ \ {q}]
  <2>1. /\ k \in ProcStates /\ k.pc = proc[p].pc /\ k.mem = proc[p].mem
        /\ k.target = proc[p].target /\ k.base = proc[p].base
        /\ k.todo = proc[p].todo \ {q}
    BY <1>3 DEF ProcStates
  <2>2. proc' = [proc EXCEPT ![p] = k]
    BY <1>1 DEF Become
  <2> HIDE DEF k
  <2> QED BY <1>2, <2>1, <2>2
<1>6. L' \in Trees
  BY <1>1, <1>3 DEF WorkspaceInv, TypeOK, Trees
<1>7. ~Trusted /\ ~Trusted'
  BY <1>2, <1>4 DEF HolderOK, Trusted
<1>8. Shown(s2.target, s2.todo)'
  BY <1>1, <1>2, <1>3, <1>4, <1>5 DEF HolderOK, Shown, WorkspaceInv, TypeOK, Trees
<1>9. HolderOK(s2)'
  <2>1. TargetOK(s2)' /\ Follows(s2.base, remote)'
    BY <1>2, <1>4, <1>5 DEF HolderOK, Applying, TargetOK
  <2> QED BY <1>2, <1>4, <1>5, <1>7, <1>8, <2>1 DEF HolderOK
<1>10. /\ ProcInv' /\ proc' \in [Procs -> ProcStates] /\ lock' \in Procs \cup {Nobody}
  <2>1. Busy(s2) /\ lock' = IF Busy(s2) THEN p ELSE Nobody
    BY <1>2, <1>4, <1>5 DEF Busy
  <2>2. remote' \in Accepted /\ remote' = remote /\ Follows(s2.mem, remote')
    BY <1>2, <1>3, <1>5 DEF WorkspaceInv, TypeOK
  <2> QED BY <1>4, <1>5, <1>9, <2>1, <2>2, HolderStep
<1>11. TypeOK'
  BY <1>2, <1>6, <1>10 DEF WorkspaceInv, TypeOK
<1>12. RecInv'
  BY <1>2, <1>4, <1>7, RecordKept
<1> QED BY <1>10, <1>11, <1>12 DEF WorkspaceInv

\* When every path is written L shows the target and no temporary.
LEMMA FinishInPlaceStep ==
  ASSUME WorkspaceInv, NEW p \in Procs, FinishInPlace(p)
  PROVE  WorkspaceInv'
<1>1. /\ proc[p].pc = "inplace" /\ proc[p].todo = {} /\ junk' = FALSE
      /\ Become(p, Persisting(proc[p], NewBaseline(proc[p]), "done"))
      /\ UNCHANGED <<remote, rec, tmp, pulled, repo, L, lock, edits, faults>>
  BY DEF FinishInPlace, disk
<1>2. /\ proc[p] \in ProcStates /\ proc[p].mem \in Records /\ proc[p].base \in Accepted
      /\ Follows(proc[p].mem, remote)
  BY Fields DEF WorkspaceInv, TypeOK, ProcInv
<1>3. lock = p /\ HolderOK(proc[p]) /\ repo.state # "missing"
  BY <1>1, Holding, Opened
<1>4. PICK b \in Records : b = NewBaseline(proc[p]) /\ Follows(b, remote)
  <2>1. /\ NewBaseline(proc[p]) \in Records
        /\ NewBaseline(proc[p]).gen = proc[p].base.gen
        /\ NewBaseline(proc[p]).tree = proc[p].base.tree
    BY <1>2 DEF NewBaseline, Records, Accepted
  <2>2. Follows(proc[p].base, remote)
    BY <1>1, <1>3 DEF HolderOK, Applying
  <2> QED BY <2>1, <2>2 DEF Follows
<1>5. PICK s2 \in ProcStates :
        /\ proc' = [proc EXCEPT ![p] = s2]
        /\ s2.pc = "persist" /\ s2.then = "done" /\ s2.pend = b
        /\ s2.mem = proc[p].mem /\ s2.target = proc[p].target /\ s2.base = proc[p].base
  <2> DEFINE k == Persisting(proc[p], b, "done")
  <2>1. /\ k \in ProcStates /\ k.pc = "persist" /\ k.then = "done" /\ k.pend = b
        /\ k.mem = proc[p].mem /\ k.target = proc[p].target /\ k.base = proc[p].base
    BY <1>2 DEF Persisting, ProcStates, PCs
  <2>2. proc' = [proc EXCEPT ![p] = k]
    BY <1>1, <1>4 DEF Become
  <2> HIDE DEF k
  <2> QED BY <2>1, <2>2
<1>6. ~Trusted /\ ~Trusted'
  BY <1>1, <1>3 DEF HolderOK, Trusted
<1>7. HolderOK(s2)'
  <2>1. TargetOK(s2)' /\ Follows(s2.base, remote)'
    BY <1>1, <1>3, <1>5 DEF HolderOK, Applying, TargetOK
  <2>2. Shown(s2.target, {})'
    BY <1>1, <1>3, <1>5 DEF HolderOK, Shown
  <2>3. s2.pend = NewBaseline(s2)
    BY <1>4, <1>5 DEF NewBaseline
  <2>4. PendOK(s2)'
    BY <1>1, <1>3, <1>4, <1>5, <2>2, <2>3 DEF PendOK, HolderOK
  <2> QED BY <1>5, <1>6, <2>1, <2>4 DEF HolderOK
<1>8. /\ ProcInv' /\ proc' \in [Procs -> ProcStates] /\ lock' \in Procs \cup {Nobody}
  <2>1. Busy(s2) /\ lock' = IF Busy(s2) THEN p ELSE Nobody
    BY <1>1, <1>3, <1>5 DEF Busy
  <2>2. remote' \in Accepted /\ remote' = remote /\ Follows(s2.mem, remote')
    BY <1>1, <1>2, <1>5 DEF WorkspaceInv, TypeOK
  <2> QED BY <1>3, <1>5, <1>7, <2>1, <2>2, HolderStep
<1>9. TypeOK'
  BY <1>1, <1>8 DEF WorkspaceInv, TypeOK
<1>10. RecInv'
  BY <1>1, <1>3, <1>6, RecordKept
<1> QED BY <1>8, <1>9, <1>10 DEF WorkspaceInv

\* A failure ends the call or starts its recovery (AfterFailure).
LEMMA Failing ==
  ASSUME NEW s \in ProcStates
  PROVE  \A s2 \in {AfterFailure(s), AfterPersistFailure(s)} :
           /\ s2 \in ProcStates
           /\ s2.pc \in {"recover", "idle", "closed"}
           /\ s2.mem = s.mem \/ (s2.pc = "closed" /\ s2.mem = ZeroRecord)
<1>1. /\ AfterFailure(s) \in ProcStates
      /\ AfterFailure(s).pc \in {"recover", "idle"}
      /\ AfterFailure(s).mem = s.mem
  <2> DEFINE k == [s EXCEPT !.pc = "recover", !.op = "recover", !.todo = {}]
  <2>1. k \in ProcStates /\ k.pc = "recover" /\ k.mem = s.mem
    BY DEF ProcStates, PCs
  <2> HIDE DEF k
  <2> QED BY <2>1, Resting DEF AfterFailure, k
<1> QED BY <1>1, Constants_ DEF AfterPersistFailure

\* A failing step leaves a holder that has only to recover.
LEMMA FailStep ==
  ASSUME WorkspaceInv, NEW p \in Procs, proc[p].pc \notin {"closed", "idle"},
         NEW s2 \in ProcStates, FailWith(p, s2),
         s2.pc \in {"recover", "idle", "closed"},
         s2.mem = proc[p].mem \/ (s2.pc = "closed" /\ s2.mem = ZeroRecord),
         UNCHANGED <<remote, rec, pulled, repo, L, edits>>,
         tmp' \in BOOLEAN, junk' \in BOOLEAN, faults' \in 0 .. MaxFaults,
         tmp => tmp',
         junk' = junk \/ ~Trusted
  PROVE  WorkspaceInv'
<1>1. /\ lock = p /\ HolderOK(proc[p]) /\ repo.state # "missing"
      /\ Follows(proc[p].mem, remote) /\ remote \in Accepted
  BY Holding, Opened DEF WorkspaceInv, TypeOK, ProcInv
<1>2. Trusted' => Trusted
  BY DEF WorkspaceInv, TypeOK, Trusted
<1>3. Follows(s2.mem, remote)
  BY <1>1, Constants_ DEF Follows, Accepted, WorkspaceInv, RecInv
<1>4. Busy(s2) => HolderOK(s2)'
  BY <1>1, <1>2 DEF Busy, HolderOK, Applying
<1>5. /\ proc' = [proc EXCEPT ![p] = s2]
      /\ lock' = IF Busy(s2) THEN p ELSE Nobody
  BY <1>1 DEF FailWith, Become, Busy
<1>6. /\ ProcInv' /\ proc' \in [Procs -> ProcStates] /\ lock' \in Procs \cup {Nobody}
  <2>1. remote' \in Accepted /\ remote' = remote /\ Follows(s2.mem, remote')
    BY <1>1, <1>3
  <2> QED BY <1>1, <1>4, <1>5, <2>1, HolderStep
<1>7. TypeOK'
  BY <1>6 DEF WorkspaceInv, TypeOK
<1>8. RecInv'
  BY <1>1, <1>2, RecordKept
<1> QED BY <1>6, <1>7, <1>8 DEF WorkspaceInv

\* A failure in applyInPlace leaves the flag behind.
LEMMA ApplyFailsStep ==
  ASSUME WorkspaceInv, NEW p \in Procs, ApplyFails(p)
  PROVE  WorkspaceInv'
<1>1. /\ proc[p].pc \in {"stage", "inplace"}
      /\ junk' \in {junk, junk \/ proc[p].pc = "inplace"}
      /\ FailWith(p, AfterFailure(proc[p]))
      /\ UNCHANGED <<remote, rec, tmp, pulled, repo, L, edits>>
      /\ Fault
  BY DEF ApplyFails, disk
<1>2. proc[p] \in ProcStates /\ HolderOK(proc[p])
  BY <1>1, Holding DEF WorkspaceInv, TypeOK
<1>3. PICK s2 \in ProcStates :
        /\ s2 = AfterFailure(proc[p])
        /\ s2.pc \in {"recover", "idle", "closed"}
        /\ s2.mem = proc[p].mem \/ (s2.pc = "closed" /\ s2.mem = ZeroRecord)
  BY <1>2, Failing
<1>4. faults' \in 0 .. MaxFaults /\ tmp' \in BOOLEAN
  BY <1>1, WorkspaceAssumption DEF Fault, WorkspaceInv, TypeOK
<1>5. junk' \in BOOLEAN /\ (junk' = junk \/ ~Trusted)
  BY <1>1, <1>2 DEF HolderOK, WorkspaceInv, TypeOK
<1> QED BY <1>1, <1>3, <1>4, <1>5, FailStep

-----------------------------------------------------------------------------
(* persistState.                                                            *)

\* A failed or refused persistState leaves the old record, or a temporary.
LEMMA PersistFailsStep ==
  ASSUME WorkspaceInv, NEW p \in Procs, PersistFails(p) \/ PersistRefused(p)
  PROVE  WorkspaceInv'
<1>1. /\ proc[p].pc \in {"persist", "rename"}
      /\ FailWith(p, AfterPersistFailure(proc[p]))
      /\ UNCHANGED <<remote, rec, pulled, repo, L, junk, edits>>
      /\ tmp' \in {tmp, TRUE}
      /\ Fault \/ UNCHANGED faults
  BY DEF PersistFails, PersistRefused, disk
<1>2. proc[p] \in ProcStates
  BY DEF WorkspaceInv, TypeOK
<1>3. PICK s2 \in ProcStates :
        /\ s2 = AfterPersistFailure(proc[p])
        /\ s2.pc \in {"recover", "idle", "closed"}
        /\ s2.mem = proc[p].mem \/ (s2.pc = "closed" /\ s2.mem = ZeroRecord)
  BY <1>2, Failing
<1>4. /\ faults' \in 0 .. MaxFaults /\ tmp' \in BOOLEAN /\ junk' \in BOOLEAN
      /\ tmp => tmp' /\ junk' = junk
  <2>1. faults' \in 0 .. MaxFaults
    BY <1>1, WorkspaceAssumption DEF Fault, WorkspaceInv, TypeOK
  <2>2. tmp \in BOOLEAN /\ junk \in BOOLEAN
    BY DEF WorkspaceInv, TypeOK
  <2>3. junk' = junk
    BY <1>1
  <2>4. tmp' \in BOOLEAN /\ (tmp => tmp')
    BY <1>1, <2>2, Zenon
  <2> QED BY <2>1, <2>2, <2>3, <2>4, Zenon
<1> QED BY <1>1, <1>3, <1>4, FailStep

\* The temporary file alone asks for a recovery.
LEMMA WriteTmpStep ==
  ASSUME WorkspaceInv, NEW p \in Procs, WriteTmp(p)
  PROVE  WorkspaceInv'
<1>1. /\ proc[p].pc = "persist" /\ proc[p].pend.version = 1 /\ tmp' = TRUE
      /\ Become(p, [proc[p] EXCEPT !.pc = "rename"])
      /\ UNCHANGED <<remote, rec, pulled, repo, L, junk, lock, edits, faults>>
  BY DEF WriteTmp, Encodes
<1>2. proc[p] \in ProcStates /\ Follows(proc[p].mem, remote)
  BY DEF WorkspaceInv, TypeOK, ProcInv
<1>3. lock = p /\ HolderOK(proc[p]) /\ repo.state # "missing"
  BY <1>1, Holding, Opened
<1>4. PICK s2 \in ProcStates :
        /\ proc' = [proc EXCEPT ![p] = s2]
        /\ s2.pc = "rename" /\ s2.then = proc[p].then /\ s2.pend = proc[p].pend
        /\ s2.mem = proc[p].mem /\ s2.target = proc[p].target /\ s2.base = proc[p].base
        /\ s2.todo = proc[p].todo
  <2> DEFINE k == [proc[p] EXCEPT !.pc = "rename"]
  <2>1. /\ k \in ProcStates /\ k.pc = "rename" /\ k.then = proc[p].then
        /\ k.pend = proc[p].pend /\ k.todo = proc[p].todo
        /\ k.mem = proc[p].mem /\ k.target = proc[p].target /\ k.base = proc[p].base
    BY <1>2 DEF ProcStates, PCs
  <2>2. proc' = [proc EXCEPT ![p] = k]
    BY <1>1 DEF Become
  <2> HIDE DEF k
  <2> QED BY <2>1, <2>2
<1>5. ~Trusted'
  BY <1>1 DEF Trusted
<1>6. HolderOK(s2)'
  <2>1. Applying(s2) => TargetOK(s2)' /\ Follows(s2.base, remote)'
    BY <1>1, <1>3, <1>4 DEF HolderOK, Applying, TargetOK
  <2>2. NewBaseline(s2) = NewBaseline(proc[p])
    BY <1>4 DEF NewBaseline
  <2>3. PendOK(s2)'
    BY <1>1, <1>3, <1>4, <2>2 DEF PendOK, HolderOK, Whole, Shown
  <2> QED BY <1>1, <1>4, <1>5, <2>1, <2>3 DEF HolderOK, Applying
<1>7. /\ ProcInv' /\ proc' \in [Procs -> ProcStates] /\ lock' \in Procs \cup {Nobody}
  <2>1. Busy(s2) /\ lock' = IF Busy(s2) THEN p ELSE Nobody
    BY <1>1, <1>3, <1>4 DEF Busy
  <2>2. remote' \in Accepted /\ remote' = remote /\ Follows(s2.mem, remote')
    BY <1>1, <1>2, <1>4 DEF WorkspaceInv, TypeOK
  <2> QED BY <1>3, <1>4, <1>6, <2>1, <2>2, HolderStep
<1>8. TypeOK'
  BY <1>1, <1>7 DEF WorkspaceInv, TypeOK
<1>9. RecInv'
  BY <1>1, <1>3, <1>5, RecordKept
<1> QED BY <1>7, <1>8, <1>9 DEF WorkspaceInv

\* The record written is true of L, or asks for a recovery (PendOK).
LEMMA RenameRecord ==
  ASSUME WorkspaceInv, NEW p \in Procs, RenameTmp(p)
  PROVE  /\ RecInv'
         /\ rec' \in Files /\ tmp' \in BOOLEAN
         /\ edits' \in [Paths -> Contents \cup {Absent, NoEdit}]
         /\ Trusted' <=> ~proc[p].pend.flag
<1>1. /\ proc[p].pc = "rename" /\ rec' = Written(proc[p].pend) /\ tmp' = FALSE
      /\ edits' = IF proc[p].then = "done" THEN EditsLeft(proc[p]) ELSE edits
      /\ UNCHANGED <<remote, pulled, repo, L, junk, faults>>
  BY DEF RenameTmp
<1>2. /\ proc[p] \in ProcStates /\ proc[p].pend \in Records
      /\ proc[p].mem \in Records /\ proc[p].base \in Accepted
  BY Fields DEF WorkspaceInv, TypeOK
<1>3. /\ HolderOK(proc[p]) /\ PendOK(proc[p]) /\ repo.state # "missing"
      /\ proc[p].pend.version = 1
  BY <1>1, Holding, Opened DEF HolderOK
<1>4. rec' \in Files /\ rec'.st = proc[p].pend /\ rec'.kind = "ok"
  BY <1>1, <1>2 DEF Written, Files
<1>5. Trusted' <=> ~proc[p].pend.flag
  BY <1>1, <1>4 DEF Trusted
<1>6. edits' \in [Paths -> Contents \cup {Absent, NoEdit}]
  BY <1>1 DEF EditsLeft, WorkspaceInv, TypeOK
<1>7. ~proc[p].pend.flag => Whole(rec.st.tree)'
  <2> SUFFICES ASSUME ~proc[p].pend.flag PROVE Whole(rec.st.tree)'
    OBVIOUS
  <2>1. proc[p].then \in {"idle", "done"}
    BY <1>2, <1>3, Fields DEF PendOK
  <2>2. CASE proc[p].then = "idle"
    <3>1. proc[p].pend = NewRecord /\ Whole(EmptyTree) /\ edits' = edits
      BY <1>1, <1>3, <2>2 DEF PendOK
    <3>2. rec'.st.tree = EmptyTree
      BY <1>4, <3>1, Constants_
    <3> QED BY <1>1, <3>1, <3>2 DEF Whole
  <2>3. CASE proc[p].then = "done"
    <3>1. /\ ~junk /\ Shown(proc[p].target, {})
          /\ rec'.st.tree = proc[p].base.tree
          /\ edits' = EditsLeft(proc[p])
      BY <1>1, <1>2, <1>3, <1>4, <2>3 DEF PendOK, NewBaseline, Records, Accepted
    <3>2. TargetOK(proc[p])
      BY <1>1, <1>3, <2>3 DEF HolderOK, Applying
    <3>3. PICK t, b : t = proc[p].target /\ b = proc[p].base.tree
      OBVIOUS
    <3>4. ASSUME NEW q \in Paths \ Ignored
          PROVE  IF edits'[q] = NoEdit THEN L[q] = b[q] ELSE L[q] \in {edits'[q], Marker}
      <4>1. L[q] = t[q] /\ (t[q] # b[q] => edits[q] # NoEdit /\ t[q] \in {edits[q], Marker})
        BY <3>1, <3>2, <3>3 DEF Shown, TargetOK
      <4>2. edits'[q] = IF t[q] = b[q] THEN NoEdit ELSE edits[q]
        BY <3>1, <3>3 DEF EditsLeft
      <4> QED BY <4>1, <4>2
    <3> QED BY <1>1, <3>1, <3>3, <3>4 DEF Whole
  <2> QED BY <2>1, <2>2, <2>3
<1>8. Follows(rec.st, remote)'
  BY <1>1, <1>3, <1>4 DEF PendOK, Follows
<1>9. RecInv'
  BY <1>1, <1>3, <1>4, <1>5, <1>7, <1>8 DEF RecInv, WorkspaceInv
<1> QED BY <1>1, <1>4, <1>5, <1>6, <1>9

\* The rename makes the pending record the durable one.
LEMMA RenameTmpStep ==
  ASSUME WorkspaceInv, NEW p \in Procs, RenameTmp(p)
  PROVE  WorkspaceInv'
<1>1. /\ proc[p].pc = "rename"
      /\ edits' = IF proc[p].then = "done" THEN EditsLeft(proc[p]) ELSE edits
      /\ UNCHANGED <<remote, pulled, repo, L, junk, faults>>
  BY DEF RenameTmp
<1>2. /\ proc[p] \in ProcStates /\ proc[p].pend \in Records
  BY Fields DEF WorkspaceInv, TypeOK
<1>3. /\ lock = p /\ HolderOK(proc[p]) /\ PendOK(proc[p]) /\ repo.state # "missing"
      /\ proc[p].then \in {"idle", "stage", "inplace", "done"}
  BY <1>1, <1>2, Holding, Opened, Fields DEF HolderOK, PendOK
<1>4. /\ RecInv'
      /\ rec' \in Files /\ tmp' \in BOOLEAN
      /\ edits' \in [Paths -> Contents \cup {Absent, NoEdit}]
      /\ Trusted' <=> ~proc[p].pend.flag
  BY RenameRecord
<1> DEFINE done == [proc[p] EXCEPT !.mem = proc[p].pend]
<1>5. /\ done \in ProcStates /\ done.mem = proc[p].pend /\ done.target = proc[p].target
      /\ done.base = proc[p].base /\ done.todo = proc[p].todo
  BY <1>2 DEF ProcStates
<1>6. \/ /\ proc[p].then \in {"stage", "inplace"}
         /\ Become(p, [done EXCEPT !.pc = proc[p].then])
         /\ UNCHANGED lock
      \/ /\ proc[p].then = "done"
         /\ Become(p, [done EXCEPT !.pc = "markpulled"])
         /\ UNCHANGED lock
      \/ Become(p, Rest(done)) /\ lock' = Nobody
  BY DEF RenameTmp
<1> HIDE DEF done
<1>7. PICK s2 \in ProcStates :
        /\ proc' = [proc EXCEPT ![p] = s2]
        /\ lock' = IF Busy(s2) THEN p ELSE Nobody
        /\ s2.mem = proc[p].pend
        /\ \/ s2.pc = "idle"
           \/ s2.pc = "markpulled"
           \/ /\ s2.pc = proc[p].then /\ proc[p].then \in {"stage", "inplace"}
              /\ s2.target = proc[p].target /\ s2.base = proc[p].base
              /\ s2.todo = proc[p].todo
  <2>1. CASE /\ proc[p].then \in {"stage", "inplace"}
             /\ Become(p, [done EXCEPT !.pc = proc[p].then])
             /\ UNCHANGED lock
    <3> DEFINE k == [done EXCEPT !.pc = proc[p].then]
    <3>1. /\ k \in ProcStates /\ k.mem = done.mem /\ k.pc = proc[p].then
          /\ k.target = done.target /\ k.base = done.base /\ k.todo = done.todo
      BY <1>5, <2>1 DEF ProcStates, PCs
    <3>2. proc' = [proc EXCEPT ![p] = k] /\ lock' = p
      BY <1>3, <2>1 DEF Become
    <3> HIDE DEF k
    <3> QED BY <1>5, <2>1, <3>1, <3>2 DEF Busy
  <2>2. CASE Become(p, [done EXCEPT !.pc = "markpulled"]) /\ UNCHANGED lock
    <3> DEFINE k == [done EXCEPT !.pc = "markpulled"]
    <3>1. k \in ProcStates /\ k.mem = done.mem /\ k.pc = "markpulled"
      BY <1>5 DEF ProcStates, PCs
    <3>2. proc' = [proc EXCEPT ![p] = k] /\ lock' = p
      BY <1>3, <2>2 DEF Become
    <3> HIDE DEF k
    <3> QED BY <1>5, <3>1, <3>2 DEF Busy
  <2>3. CASE Become(p, Rest(done)) /\ lock' = Nobody
    <3>1. Rest(done) \in ProcStates /\ Rest(done).mem = done.mem /\ Rest(done).pc = "idle"
      BY <1>5, Resting
    <3>2. proc' = [proc EXCEPT ![p] = Rest(done)]
      BY <2>3 DEF Become
    <3> QED BY <1>5, <2>3, <3>1, <3>2 DEF Busy
  <2> QED BY <1>6, <2>1, <2>2, <2>3
<1>8. Busy(s2) => HolderOK(s2)'
  <2> SUFFICES ASSUME Busy(s2) PROVE HolderOK(s2)'
    OBVIOUS
  <2>1. s2.mem.flag => ~Trusted'
    BY <1>4, <1>7
  <2>2. CASE s2.pc = "markpulled"
    BY <2>1, <2>2 DEF HolderOK, Applying
  <2>3. CASE /\ s2.pc = proc[p].then /\ proc[p].then \in {"stage", "inplace"}
             /\ s2.target = proc[p].target /\ s2.base = proc[p].base
             /\ s2.todo = proc[p].todo
    <3>1. TargetOK(s2)' /\ Follows(s2.base, remote)'
      BY <1>1, <1>3, <2>3 DEF HolderOK, Applying, TargetOK
    <3>2. s2.mem.flag
      BY <1>3, <1>7, <2>3 DEF PendOK
    <3>3. s2.pc = "inplace" => Shown(s2.target, s2.todo)'
      BY <1>1, <1>3, <2>3 DEF PendOK, Shown
    <3> QED BY <2>1, <2>3, <3>1, <3>2, <3>3 DEF HolderOK
  <2> QED BY <1>7, <2>2, <2>3 DEF Busy
<1>9. /\ ProcInv' /\ proc' \in [Procs -> ProcStates] /\ lock' \in Procs \cup {Nobody}
  <2>1. remote' \in Accepted /\ remote' = remote /\ Follows(s2.mem, remote')
    BY <1>1, <1>3, <1>7 DEF WorkspaceInv, TypeOK, PendOK
  <2> QED BY <1>3, <1>7, <1>8, <2>1, HolderStep
<1>10. TypeOK'
  BY <1>1, <1>4, <1>9 DEF WorkspaceInv, TypeOK
<1> QED BY <1>4, <1>9, <1>10 DEF WorkspaceInv

-----------------------------------------------------------------------------
(* The environment.                                                         *)

\* A crash keeps what is on disk.
LEMMA CrashStep ==
  ASSUME WorkspaceInv, NEW p \in Procs, Crash(p)
  PROVE  WorkspaceInv'
<1>1. /\ proc[p].pc # "closed" /\ Fault
      /\ junk' \in {junk, junk \/ proc[p].pc = "inplace"}
      /\ Become(p, Closed)
      /\ lock' = IF lock = p THEN Nobody ELSE lock
      /\ UNCHANGED <<remote, rec, tmp, pulled, repo, L, edits>>
  BY DEF Crash, disk
<1>2. /\ remote \in Accepted /\ faults' \in 0 .. MaxFaults
      /\ lock \in Procs \cup {Nobody} /\ junk' \in BOOLEAN
      /\ repo.state # "missing"
  <2>1. faults' \in 0 .. MaxFaults
    BY <1>1, WorkspaceAssumption DEF Fault, WorkspaceInv, TypeOK
  <2>2. junk \in BOOLEAN /\ lock \in Procs \cup {Nobody} /\ remote \in Accepted
    BY DEF WorkspaceInv, TypeOK
  <2>3. junk' \in BOOLEAN
    BY <1>1, <2>2
  <2> QED BY <1>1, <2>1, <2>2, <2>3, Opened
<1>3. junk' = junk \/ ~Trusted
  <2>1. CASE proc[p].pc = "inplace"
    BY <2>1, Holding DEF HolderOK
  <2>2. CASE proc[p].pc # "inplace"
    BY <1>1, <2>2 DEF WorkspaceInv, TypeOK
  <2> QED BY <2>1, <2>2
<1>4. /\ proc' \in [Procs -> ProcStates]
      /\ proc'[p] = Closed
      /\ \A x \in Procs \ {p} : proc'[x] = proc[x]
  BY <1>1, Constants_ DEF Become, WorkspaceInv, TypeOK
<1>5. Follows(ZeroRecord, remote)
  BY <1>2, Constants_ DEF Follows, Accepted, WorkspaceInv, RecInv
<1>6. ProcInv'
  <2>1. \A x \in Procs : Busy(proc'[x]) <=> lock' = x
    BY <1>1, <1>4, Constants_, WorkspaceAssumption DEF WorkspaceInv, ProcInv, Busy
  <2>2. \A x \in Procs : Follows(proc'[x].mem, remote')
    BY <1>1, <1>4, <1>5, Constants_ DEF WorkspaceInv, ProcInv
  <2>3. ASSUME lock' \in Procs PROVE HolderOK(proc[lock])'
    <3>1. lock # p /\ lock' = lock /\ lock \in Procs
      BY <1>1, <2>3, WorkspaceAssumption
    <3>2. PICK s \in ProcStates : s = proc[lock] /\ s = proc'[lock']
      BY <1>4, <3>1
    <3>3. HolderOK(s) /\ UNCHANGED Trusted
      BY <1>1, <3>1, <3>2 DEF WorkspaceInv, ProcInv, Trusted
    <3>4. junk' = junk
      <4>1. proc[p].pc = "idle"
        BY <1>1, <3>1 DEF WorkspaceInv, ProcInv, Busy
      <4> QED BY <1>1, <4>1 DEF WorkspaceInv, TypeOK
    <3>5. HolderOK(s)'
      BY <1>1, <3>3, <3>4 DEF HolderOK, Applying, TargetOK, PendOK, Shown, Whole
    <3> QED BY <3>2, <3>5 DEF HolderOK, Applying, TargetOK, PendOK, Shown, NewBaseline
  <2> QED BY <2>1, <2>2, <2>3 DEF ProcInv
<1>7. TypeOK'
  BY <1>1, <1>2, <1>4 DEF WorkspaceInv, TypeOK
<1>8. RecInv'
  BY <1>1, <1>2, <1>3, RecordKept DEF Trusted
<1> QED BY <1>6, <1>7, <1>8 DEF WorkspaceInv

\* An edit of the user keeps L whole.
LEMMA UserEditsStep ==
  ASSUME WorkspaceInv, UserEdits
  PROVE  WorkspaceInv'
<1>1. PICK q \in Paths \ Ignored, c \in Contents \cup {Absent} :
        L' = [L EXCEPT ![q] = c] /\ edits' = [edits EXCEPT ![q] = c]
  BY DEF UserEdits
<1>2. /\ lock = Nobody
      /\ UNCHANGED <<remote, rec, tmp, pulled, repo, junk, lock, proc, faults>>
  BY DEF UserEdits, disk
<1>3. L \in Trees /\ edits \in [Paths -> Contents \cup {Absent, NoEdit}]
  BY DEF WorkspaceInv, TypeOK
<1>4. c # NoEdit
  BY WorkspaceAssumption DEF NoEdit, Absent
<1>5. TypeOK'
  BY <1>1, <1>2, <1>3 DEF WorkspaceInv, TypeOK, Trees
<1>6. \A tree : Whole(tree) =>
        /\ ~junk'
        /\ \A x \in Paths \ Ignored :
             IF edits'[x] = NoEdit THEN L'[x] = tree[x] ELSE L'[x] \in {edits'[x], Marker}
  BY <1>1, <1>2, <1>3, <1>4 DEF Whole, Trees
<1>7. RecInv'
  <2>1. (Trusted => Whole(rec.st.tree))'
    BY <1>2, <1>6 DEF WorkspaceInv, RecInv, Trusted, Whole
  <2>2. (repo.state = "missing" => Whole(EmptyTree))'
    BY <1>2, <1>6 DEF WorkspaceInv, RecInv, Whole, EmptyTree
  <2> QED BY <1>2, <2>1, <2>2 DEF WorkspaceInv, RecInv
<1>8. ProcInv'
  BY <1>2, WorkspaceAssumption DEF WorkspaceInv, ProcInv
<1> QED BY <1>5, <1>7, <1>8 DEF WorkspaceInv

\* R moves on; what it accepted before stays accepted.
LEMMA OthersPublishStep ==
  ASSUME WorkspaceInv, OthersPublish
  PROVE  WorkspaceInv'
<1>1. PICK q \in Paths, c \in Contents \cup {Absent} :
        remote' = [gen |-> remote.gen + 1, tree |-> [remote.tree EXCEPT ![q] = c]]
  BY DEF OthersPublish
<1>2. /\ remote.gen < MaxGen
      /\ UNCHANGED <<rec, tmp, pulled, repo, L, junk, lock, proc, edits, faults>>
  BY DEF OthersPublish, disk
<1>3. remote \in Accepted /\ remote.gen \in Nat
  BY DEF WorkspaceInv, TypeOK, Accepted
<1>4. remote' \in Accepted /\ remote'.gen = remote.gen + 1
  BY <1>1, <1>3 DEF Accepted
<1>5. TypeOK'
  BY <1>2, <1>4 DEF WorkspaceInv, TypeOK
<1>6. \A x : x.gen \in Nat /\ Follows(x, remote) => Follows(x, remote')
  BY <1>3, <1>4, FollowsGrows
<1>7. RecInv'
  <2>1. rec.st.gen \in Nat
    BY RecordFields DEF WorkspaceInv, TypeOK, Files
  <2>2. Follows(rec.st, remote)'
    BY <1>2, <1>6, <2>1 DEF WorkspaceInv, RecInv
  <2>3. (Trusted => Whole(rec.st.tree))' /\ (repo.state = "missing" => Whole(EmptyTree))'
    BY <1>2 DEF WorkspaceInv, RecInv, Trusted, Whole, EmptyTree
  <2>4. (remote.gen <= MaxGen)' /\ remote'.gen # 0
    BY <1>2, <1>3, <1>4, WorkspaceAssumption
  <2> QED BY <1>2, <2>2, <2>3, <2>4 DEF WorkspaceInv, RecInv
<1>8. ProcInv'
  <2>1. \A x \in Procs : Follows(proc'[x].mem, remote')
    <3> SUFFICES ASSUME NEW x \in Procs PROVE Follows(proc[x].mem, remote')
      BY <1>2
    <3>1. proc[x] \in ProcStates
      BY DEF WorkspaceInv, TypeOK
    <3>2. proc[x].mem \in Records
      BY <3>1, Fields
    <3>3. proc[x].mem.gen \in Nat
      BY <3>2, RecordFields
    <3> QED BY <1>6, <3>3 DEF WorkspaceInv, ProcInv
  <2>2. ASSUME lock \in Procs PROVE HolderOK(proc[lock])'
    <3>1. PICK s \in ProcStates : s = proc[lock] /\ s = proc'[lock']
      BY <1>2, <2>2 DEF WorkspaceInv, TypeOK
    <3>2. HolderOK(s)
      BY <2>2, <3>1 DEF WorkspaceInv, ProcInv
    <3>3. s.base.gen \in Nat /\ s.pend.gen \in Nat
      BY Fields, RecordFields DEF Accepted
    <3>4. /\ Follows(s.base, remote) => Follows(s.base, remote')
          /\ Follows(s.pend, remote) => Follows(s.pend, remote')
      BY <1>6, <3>3
    <3>5. PendOK(s) => PendOK(s)'
      BY <1>2, <3>4 DEF PendOK, Shown, Whole
    <3>6. HolderOK(s)'
      BY <1>2, <3>2, <3>4, <3>5 DEF HolderOK, Applying, TargetOK, Shown, Trusted
    <3> QED BY <3>1, <3>6 DEF HolderOK, Applying, TargetOK, PendOK, Shown, NewBaseline
  <2> QED BY <1>2, <2>1, <2>2 DEF WorkspaceInv, ProcInv
<1> QED BY <1>5, <1>7, <1>8 DEF WorkspaceInv

\* Damage to P never makes a record trusted.
LEMMA DamageStep ==
  ASSUME WorkspaceInv, Damage
  PROVE  WorkspaceInv'
<1>1. /\ lock = Nobody /\ Fault
      /\ UNCHANGED <<remote, tmp, pulled, L, junk, lock, proc, edits>>
  BY DEF Damage
<1>2. /\ faults' \in 0 .. MaxFaults /\ rec \in Files
      /\ repo \in [state : {"missing", "broken", "ok"}, held : SUBSET (0 .. MaxGen)]
  BY <1>1, WorkspaceAssumption DEF Fault, WorkspaceInv, TypeOK
<1>3. /\ rec' \in Files
      /\ rec' = rec \/ (rec'.kind # "ok" /\ rec'.st \in {rec.st, ZeroRecord} /\ rec.kind # "missing")
  <2>1. \/ rec' = rec
        \/ rec.kind # "missing" /\ rec' \in {NoFile, [rec EXCEPT !.kind = "bad"], [rec EXCEPT !.kind = "foreign"]}
    BY DEF Damage
  <2> QED BY <1>2, <2>1, Constants_ DEF Files
<1>4. /\ repo' \in [state : {"missing", "broken", "ok"}, held : SUBSET (0 .. MaxGen)]
      /\ repo' = repo \/ repo'.state # "missing"
  BY <1>2 DEF Damage
<1>5. TypeOK'
  BY <1>1, <1>2, <1>3, <1>4 DEF WorkspaceInv, TypeOK
<1>6. Trusted' => Trusted /\ rec' = rec
  BY <1>1, <1>3 DEF Trusted
<1>7. Follows(ZeroRecord, remote)
  BY Constants_ DEF Follows, Accepted, WorkspaceInv, RecInv, TypeOK
<1>8. RecInv'
  <2>1. (Trusted => Whole(rec.st.tree))'
    BY <1>1, <1>6 DEF WorkspaceInv, RecInv, Whole
  <2>2. Follows(rec.st, remote)'
    BY <1>1, <1>3, <1>7 DEF WorkspaceInv, RecInv
  <2>3. ASSUME repo'.state = "missing"
        PROVE  /\ (rec = NoFile /\ ~tmp /\ Whole(EmptyTree))'
               /\ \A p \in Procs : proc'[p].pc = "closed"
    <3>1. repo' = repo
      BY <1>4, <2>3
    <3>2. rec = NoFile /\ rec.kind = "missing"
      BY <2>3, <3>1, Constants_ DEF WorkspaceInv, RecInv
    <3>3. rec' = rec
      BY <1>3, <3>2
    <3> QED BY <1>1, <2>3, <3>1, <3>3 DEF WorkspaceInv, RecInv, Whole, EmptyTree, NoFile, ZeroRecord
  <2> QED BY <1>1, <1>3, <2>1, <2>2, <2>3 DEF WorkspaceInv, RecInv
<1>9. ProcInv'
  BY <1>1, WorkspaceAssumption DEF WorkspaceInv, ProcInv
<1> QED BY <1>5, <1>8, <1>9 DEF WorkspaceInv

-----------------------------------------------------------------------------
(* The invariant, and what it says.                                         *)

\* The initial state satisfies the invariant.
LEMMA InitWorkspace == Init => WorkspaceInv
<1> SUFFICES ASSUME Init PROVE WorkspaceInv
  OBVIOUS
<1>1. /\ remote = Genesis /\ rec = NoFile /\ tmp = FALSE /\ L = EmptyTree /\ junk = FALSE
      /\ lock = Nobody /\ proc = [p \in Procs |-> Closed]
      /\ edits = [q \in Paths |-> NoEdit]
  BY DEF Init
<1>2. TypeOK
  <2>1. tmp \in BOOLEAN /\ pulled \in BOOLEAN /\ junk \in BOOLEAN
    BY Zenon DEF Init
  <2>2. /\ repo \in [state : {"missing", "broken", "ok"}, held : SUBSET (0 .. MaxGen)]
        /\ faults \in 0 .. MaxFaults
    BY WorkspaceAssumption DEF Init
  <2>3. edits \in [Paths -> Contents \cup {Absent, NoEdit}]
    BY <1>1
  <2> QED BY <1>1, <2>1, <2>2, <2>3, Constants_ DEF TypeOK
<1>3. Follows(ZeroRecord, remote)
  BY <1>1, Constants_ DEF Follows
<1>4. Whole(EmptyTree)
  BY <1>1 DEF Whole
<1>5. RecInv
  BY <1>1, <1>3, <1>4, Constants_, WorkspaceAssumption DEF RecInv, Trusted
<1>6. ProcInv
  BY <1>1, <1>3, Constants_, WorkspaceAssumption DEF ProcInv, Busy
<1> QED BY <1>2, <1>5, <1>6 DEF WorkspaceInv

\* Every step keeps the invariant.
LEMMA NextWorkspace == WorkspaceInv /\ [Next]_vars => WorkspaceInv'
<1> SUFFICES ASSUME WorkspaceInv, [Next]_vars PROVE WorkspaceInv'
  OBVIOUS
<1>1. ASSUME NEW p \in Procs, Open(p) \/ Step(p) \/ Crash(p) PROVE WorkspaceInv'
  <2>1. CASE Open(p) BY <2>1, OpenStep
  <2>2. CASE Scan(p) BY <2>2, ScanStep
  <2>3. CASE Merge(p) BY <2>3, MergeStep
  <2>4. CASE WorkFails(p) BY <2>4, WorkFailsStep
  <2>5. CASE RecoverState(p) BY <2>5, RecoverStateStep
  <2>6. CASE RecoverUnread(p)
    BY <2>6, ReleaseStep DEF RecoverUnread, disk, WorkspaceInv, TypeOK
  <2>7. CASE Stage(p) BY <2>7, StageStep
  <2>8. CASE WritePath(p) BY <2>8, WritePathStep
  <2>9. CASE FinishInPlace(p) BY <2>9, FinishInPlaceStep
  <2>10. CASE ApplyFails(p) BY <2>10, ApplyFailsStep
  <2>11. CASE PersistRefused(p) \/ PersistFails(p) BY <2>11, PersistFailsStep
  <2>12. CASE WriteTmp(p) BY <2>12, WriteTmpStep
  <2>13. CASE RenameTmp(p) BY <2>13, RenameTmpStep
  <2>14. CASE MarkPulled(p)
    <3>1. pulled' \in BOOLEAN
      BY <2>14 DEF MarkPulled, WorkspaceInv, TypeOK
    <3> QED BY <2>14, <3>1, ReleaseStep DEF MarkPulled
  <2>15. CASE Crash(p) BY <2>15, CrashStep
  <2> QED BY <1>1, <2>1, <2>2, <2>3, <2>4, <2>5, <2>6, <2>7, <2>8, <2>9, <2>10, <2>11,
             <2>12, <2>13, <2>14, <2>15 DEF Step
<1>2. ASSUME NEW p \in Procs, NEW op \in {"pull", "commit"}, Begin(p, op) PROVE WorkspaceInv'
  BY <1>2, BeginStep
<1>3. CASE UserEdits BY <1>3, UserEditsStep
<1>4. CASE OthersPublish BY <1>4, OthersPublishStep
<1>5. CASE Damage BY <1>5, DamageStep
<1>6. CASE UNCHANGED vars
  BY <1>6 DEF vars, WorkspaceInv, TypeOK, RecInv, ProcInv, Busy, Follows, HolderOK, Applying,
     TargetOK, PendOK, Shown, Whole, Trusted, NewBaseline
<1> QED BY <1>1, <1>2, <1>3, <1>4, <1>5, <1>6 DEF Next

\* WorkspaceInv holds in every reachable state, for every set of processes,
\* paths and contents and every number of faults and generations.
THEOREM WorkspaceInvariant == Spec => []WorkspaceInv
BY InitWorkspace, NextWorkspace, PTL DEF Spec

\* Whatever crashed, failed or was damaged in applyLocked and persistState,
\* and whichever process ran last, a record that asks for no recovery
\* describes a whole visible directory.
THEOREM TrustedIsWhole == Spec => []TrustedMeansWhole
<1>1. WorkspaceInv => TrustedMeansWhole
  BY DEF WorkspaceInv, RecInv, Whole, TrustedMeansWhole
<1> QED BY <1>1, WorkspaceInvariant, PTL

\* The recorded baseline was accepted by R and is never ahead of it, for every
\* sequence of damages, crashes and failures.
THEOREM BaselinesFollow == Spec => []BaselineFollowsR
<1>1. WorkspaceInv => BaselineFollowsR
  BY DEF WorkspaceInv, RecInv, Follows, BaselineFollowsR
<1> QED BY <1>1, WorkspaceInvariant, PTL
=============================================================================
