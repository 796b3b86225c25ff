------------------------------ MODULE Workspace ------------------------------
(***************************************************************************)
(* One visible directory L, its private directory P, and the processes     *)
(* that share them.                                                        *)
(*                                                                         *)
(* Every pull, commit and recovery rewrites L through applyLocked: stage,  *)
(* make recoveryRequired durable, rewrite L path by path, record the new   *)
(* baseline.  A process may die or a file operation may fail between any   *)
(* two of these steps; the next holder of the operation lock rereads       *)
(* state.json and decides from it alone whether L and P can be trusted.    *)
(*                                                                         *)
(* Abstraction.  A tree maps each path to its content; a path stands for   *)
(* the smallest unit the merge decides as a whole.  R is the accepted      *)
(* generation and tree, published in one step (Publication.tla has the     *)
(* steps).  The baseline head is implied by the generation.                *)
(***************************************************************************)
EXTENDS Naturals, FiniteSets

CONSTANTS
  Procs,         \* processes sharing L and P
  Paths,
  Contents,
  Ignored,       \* paths an ignore rule of this machine names
  RecordLoss,    \* state.json can be damaged from outside
  RepoLoss,      \* the private repository can become unopenable
  ObjectLoss,    \* the private repository can lose objects and still open
  MaxFaults,     \* bound: crashes, failed file operations and damages
  MaxGen         \* bound: accepted generations of R

Absent == "absent"
Marker == "marker"     \* content with a conflict-marker block
NoEdit == "unedited"
Nobody == "nobody"

ASSUME WorkspaceAssumption ==
  /\ Ignored \subseteq Paths
  /\ Contents \cap {Absent, Marker, NoEdit} = {}
  /\ Nobody \notin Procs
  /\ {RecordLoss, RepoLoss, ObjectLoss} \subseteq BOOLEAN
  /\ MaxFaults \in Nat /\ MaxGen \in Nat

VARIABLES
  remote,   \* R: the accepted generation and tree
  rec,      \* state.json
  tmp,      \* state.json.tmp exists
  pulled,   \* the pulled marker exists
  repo,     \* the private repository: does it open, which baselines can it read
  L,        \* the visible tree
  junk,     \* L holds a leftover temporary file of applyInPlace
  lock,     \* holder of operation.lock
  proc,     \* per process, volatile
  edits,    \* history: per path, the user's edit R has not got
  faults    \* history: faults so far

disk == <<rec, tmp, pulled, repo>>
vars == <<remote, rec, tmp, pulled, repo, L, junk, lock, proc, edits, faults>>

-----------------------------------------------------------------------------
Trees == [Paths -> Contents \cup {Absent, Marker}]
EmptyTree == [q \in Paths |-> Absent]

\* What R accepts holds no conflict markers.
Accepted == [gen : Nat, tree : [Paths -> Contents \cup {Absent}]]
Genesis == [gen |-> 0, tree |-> EmptyTree]

\* The record in memory and in state.json.  version 0 is the zero value Open
\* leaves when it cannot read state.json.
Records ==
  [version : {0, 1}, gen : Nat, tree : [Paths -> Contents \cup {Absent}], flag : BOOLEAN]
NewRecord == [version |-> 1, gen |-> 0, tree |-> EmptyTree, flag |-> FALSE]
ZeroRecord == [version |-> 0, gen |-> 0, tree |-> EmptyTree, flag |-> FALSE]

Flagged(st) == [st EXCEPT !.flag = TRUE]

\* What state.json holds: nothing, something undecodable, a record of another
\* identity, or this workspace's record.
Files == [kind : {"missing", "bad", "foreign", "ok"}, st : Records]
NoFile == [kind |-> "missing", st |-> ZeroRecord]
Written(st) == [kind |-> "ok", st |-> st]
Readable(f) == f.kind \in {"foreign", "ok"}

Closed == [pc |-> "closed", mem |-> ZeroRecord, op |-> "none", local |-> EmptyTree,
           target |-> EmptyTree, base |-> Genesis, published |-> FALSE,
           todo |-> {}, pend |-> ZeroRecord, then |-> "none"]

PCs == {"closed", "idle", "scan", "remote", "recover", "stage", "inplace",
        "persist", "rename", "markpulled"}

ProcStates ==
  [pc : PCs, mem : Records, op : {"none", "pull", "commit", "recover"},
   local : Trees, target : Trees, base : Accepted, published : BOOLEAN,
   todo : SUBSET Paths, pend : Records,
   then : {"none", "idle", "stage", "inplace", "done"}]

TypeOK ==
  /\ remote \in Accepted
  /\ rec \in Files
  /\ tmp \in BOOLEAN
  /\ pulled \in BOOLEAN
  /\ repo \in [state : {"missing", "broken", "ok"}, held : SUBSET (0 .. MaxGen)]
  /\ L \in Trees
  /\ junk \in BOOLEAN
  /\ lock \in Procs \cup {Nobody}
  /\ proc \in [Procs -> ProcStates]
  /\ edits \in [Paths -> Contents \cup {Absent, NoEdit}]
  /\ faults \in 0 .. MaxFaults

Init ==
  /\ remote = Genesis
  /\ rec = NoFile
  /\ tmp = FALSE
  /\ pulled = FALSE
  /\ repo = [state |-> "missing", held |-> {}]
  /\ L = EmptyTree
  /\ junk = FALSE
  /\ lock = Nobody
  /\ proc = [p \in Procs |-> Closed]
  /\ edits = [q \in Paths |-> NoEdit]
  /\ faults = 0

-----------------------------------------------------------------------------
(* Shorthand.                                                               *)

Become(p, s) == proc' = [proc EXCEPT ![p] = s]

\* The call returns: the lock is released, the workspace stays open.
Rest(s) == [Closed EXCEPT !.pc = "idle", !.mem = s.mem]
Release(p) == Become(p, Rest(proc[p])) /\ lock' = Nobody

\* Start persistState of st; `then` is where its caller continues.
Persisting(s, st, then) == [s EXCEPT !.pc = "persist", !.pend = st, !.then = then]

Fault == faults < MaxFaults /\ faults' = faults + 1

-----------------------------------------------------------------------------
(* Open.                                                                    *)

\* A rebuilt repository under a sound record: the requirement goes into it.
MarksRebuilt(rebuilt) == rebuilt /\ ~rec.st.flag

\* openPrivateState up to its persistState, if it has one.
Open(p) ==
  LET fresh   == rec.kind = "missing" /\ repo.state = "missing" /\ ~tmp
      rebuilt == repo.state # "ok"
      s(st)   == [Closed EXCEPT !.pc = "idle", !.mem = st] IN
  /\ proc[p].pc = "closed"
  /\ lock = Nobody
  /\ repo' = [state |-> "ok", held |-> (IF rebuilt THEN {} ELSE repo.held) \cup {0}]
  /\ \/ /\ fresh
        /\ Become(p, Persisting(s(ZeroRecord), NewRecord, "idle"))
        /\ lock' = p
     \/ /\ ~fresh
        /\ ~Readable(rec)
        /\ Become(p, s(Flagged(ZeroRecord)))
        /\ UNCHANGED lock
     \/ /\ Readable(rec)
        /\ rec.kind = "foreign" \/ tmp
        /\ Become(p, s(Flagged(rec.st)))
        /\ UNCHANGED lock
     \/ /\ rec.kind = "ok" /\ ~tmp
        /\ MarksRebuilt(rebuilt)
        /\ Become(p, Persisting(s(rec.st), Flagged(rec.st), "idle"))
        /\ lock' = p
     \/ /\ rec.kind = "ok" /\ ~tmp
        /\ ~MarksRebuilt(rebuilt)
        /\ Become(p, s(rec.st))
        /\ UNCHANGED lock
  /\ UNCHANGED <<remote, rec, tmp, pulled, L, junk, edits, faults>>

-----------------------------------------------------------------------------
(* The operation lock.                                                      *)

\* refreshState: the record is reread under the lock; an unreadable one keeps
\* what the process knew.
MutantRefresh(s) == s.mem

Refresh(s) ==
  [IF Readable(rec) THEN rec.st ELSE s.mem EXCEPT
     !.flag = ~Readable(rec) \/ rec.st.flag \/ rec.kind = "foreign" \/ tmp]

\* Pull and Commit: Hold, then entryRecovery when P requires it.
Begin(p, op) ==
  LET mem == Refresh(proc[p]) IN
  /\ proc[p].pc = "idle"
  /\ lock = Nobody
  /\ lock' = p
  /\ Become(p, [proc[p] EXCEPT !.mem = mem,
                               !.op = IF mem.flag THEN "recover" ELSE op,
                               !.pc = IF mem.flag THEN "recover" ELSE "scan"])
  /\ UNCHANGED <<remote, disk, L, junk, edits, faults>>

-----------------------------------------------------------------------------
(* The work of a pull or a commit.                                          *)

\* pinIgnored: ignored paths read as the baseline has them, if it is readable.
Pinned(mem, q) == IF mem.gen \in repo.held THEN mem.tree[q] ELSE Absent

\* Commit refuses before a pull and while markers are unresolved.
CommitRefused(local) == ~pulled \/ \E q \in Paths : local[q] = Marker

Scan(p) ==
  LET s     == proc[p]
      local == [q \in Paths |-> IF q \in Ignored THEN Pinned(s.mem, q) ELSE L[q]] IN
  /\ s.pc = "scan"
  /\ IF s.op = "commit" /\ CommitRefused(local)
     THEN Release(p)
     ELSE /\ Become(p, [s EXCEPT !.local = local, !.pc = "remote"])
          /\ UNCHANGED lock
  /\ UNCHANGED <<remote, disk, L, junk, edits, faults>>

Conflicts(base, local, r) ==
  {q \in Paths : local[q] \notin {base[q], r[q]} /\ r[q] # base[q]}

MergeTrees(base, local, r) ==
  [q \in Paths |-> IF q \in Conflicts(base, local, r) THEN Marker
                   ELSE IF local[q] = base[q] THEN r[q] ELSE local[q]]

\* guardFirstPull: files R lacks or holds differently, unless R is empty.
FirstPullRefused(local) ==
  /\ ~pulled
  /\ remote.tree # EmptyTree
  /\ \E q \in Paths : local[q] \notin {Absent, remote.tree[q]}

\* readRemote and the merge.  The import makes at least R's tree readable; a
\* baseline that is still not readable fails the merge for good, the strict
\* attempt included.
Merge(p) ==
  LET s      == proc[p]
      held   == repo.held \cup {remote.gen}
      merged == MergeTrees(s.mem.tree, s.local, remote.tree)
      clean  == Conflicts(s.mem.tree, s.local, remote.tree) = {}
      apply(target, base, pub) ==
        Become(p, [s EXCEPT !.target = target, !.base = base, !.published = pub,
                            !.pc = "stage"])
  IN
  /\ s.pc = "remote"
  /\ repo.state = "ok"
  /\ \/ /\ s.mem.gen \notin held \/ (s.op = "pull" /\ FirstPullRefused(s.local))
        /\ Release(p)
        /\ UNCHANGED remote
     \/ /\ s.mem.gen \in held
        /\ s.op = "pull" /\ ~FirstPullRefused(s.local)
        /\ apply(merged, remote, FALSE)
        /\ UNCHANGED <<remote, lock>>
     \/ /\ s.mem.gen \in held
        /\ s.op = "commit"
        /\ merged = remote.tree \/ ~clean
        /\ apply(merged, remote, FALSE)
        /\ UNCHANGED <<remote, lock>>
     \/ /\ s.mem.gen \in held
        /\ s.op = "commit"
        /\ merged # remote.tree /\ clean
        /\ remote.gen < MaxGen
        /\ remote' = [gen |-> remote.gen + 1, tree |-> merged]
        /\ apply(merged, remote', TRUE)
        /\ UNCHANGED lock
  /\ repo' = [repo EXCEPT !.held = held \cup {remote'.gen}]
  /\ UNCHANGED <<rec, tmp, pulled, L, junk, edits, faults>>

\* The scan, the remote read, the merge or the publication failed; a commit
\* whose write was applied but not proved leaves R changed.
WorkFails(p) ==
  LET s      == proc[p]
      merged == MergeTrees(s.mem.tree, s.local, remote.tree) IN
  /\ s.pc \in {"scan", "remote"}
  /\ Release(p)
  /\ \/ UNCHANGED <<remote, repo>>
     \/ /\ s.pc = "remote" /\ s.op = "commit" /\ repo.state = "ok"
        /\ s.mem.gen \in repo.held \cup {remote.gen}
        /\ merged # remote.tree /\ Conflicts(s.mem.tree, s.local, remote.tree) = {}
        /\ remote.gen < MaxGen
        /\ remote' = [gen |-> remote.gen + 1, tree |-> merged]
        /\ repo' = [repo EXCEPT !.held = @ \cup {remote.gen, remote'.gen}]
  /\ UNCHANGED <<rec, tmp, pulled, L, junk, edits, faults>>

-----------------------------------------------------------------------------
(* applyLocked.                                                             *)

\* recoverState: R is read strictly and becomes target and baseline; Recover
\* marks the requirement before it starts.
RecoverState(p) ==
  LET s == [proc[p] EXCEPT !.op = "recover", !.target = remote.tree,
                           !.base = remote] IN
  /\ proc[p].pc = "recover"
  /\ repo.state = "ok"
  /\ repo' = [repo EXCEPT !.held = @ \cup {remote.gen}]
  /\ Become(p, IF s.mem.flag THEN [s EXCEPT !.pc = "stage"]
               ELSE Persisting(s, Flagged(s.mem), "stage"))
  /\ UNCHANGED <<remote, rec, tmp, pulled, L, junk, lock, edits, faults>>

\* R could not be read or imported: the recovery is over, nothing touched.
RecoverUnread(p) ==
  /\ proc[p].pc = "recover"
  /\ Release(p)
  /\ UNCHANGED <<remote, disk, L, junk, edits, faults>>

\* The target is readable and staged; markRecoveryRequired.
MutantStage(p) ==
  LET s == proc[p] IN
  /\ s.pc = "stage"
  /\ Become(p, [s EXCEPT !.todo = Paths \ Ignored, !.pc = "inplace"])
  /\ UNCHANGED <<remote, disk, L, junk, lock, edits, faults>>

Stage(p) ==
  LET s == [proc[p] EXCEPT !.todo = Paths \ Ignored] IN
  /\ s.pc = "stage"
  /\ Become(p, IF s.mem.flag THEN [s EXCEPT !.pc = "inplace"]
               ELSE Persisting(s, Flagged(s.mem), "inplace"))
  /\ UNCHANGED <<remote, disk, L, junk, lock, edits, faults>>

\* applyInPlace: one path at a time, in any order.
WritePath(p) ==
  /\ proc[p].pc = "inplace"
  /\ \E q \in proc[p].todo :
       /\ L' = [L EXCEPT ![q] = proc[p].target[q]]
       /\ Become(p, [proc[p] EXCEPT !.todo = @ \ {q}])
  /\ UNCHANGED <<remote, disk, junk, lock, edits, faults>>

\* What is not in the target is gone, leftover temporaries included; record
\* the baseline and clear the requirement.
MutantNewBaseline(s) ==
  [s.mem EXCEPT !.gen = s.base.gen, !.tree = s.target, !.flag = FALSE]

NewBaseline(s) ==
  [s.mem EXCEPT !.gen = s.base.gen, !.tree = s.base.tree, !.flag = FALSE]

FinishInPlace(p) ==
  LET s == proc[p] IN
  /\ s.pc = "inplace"
  /\ s.todo = {}
  /\ junk' = FALSE
  /\ Become(p, Persisting(s, NewBaseline(s), "done"))
  /\ UNCHANGED <<remote, disk, L, lock, edits, faults>>

\* applyLocal, failAfterPublish: recover in the same call when L may have
\* changed or R has accepted; a failed recovery ends the call.
MutantAfterFailure(s) ==
  IF s.mem.flag \/ s.published
  THEN [s EXCEPT !.pc = "recover", !.op = "recover", !.todo = {}]
  ELSE Rest(s)

AfterFailure(s) ==
  IF s.op # "recover" /\ (s.mem.flag \/ s.published)
  THEN [s EXCEPT !.pc = "recover", !.op = "recover", !.todo = {}]
  ELSE Rest(s)

FailWith(p, s) ==
  /\ Become(p, s)
  /\ lock' = IF s.pc \in {"idle", "closed"} THEN Nobody ELSE lock

ApplyFails(p) ==
  /\ proc[p].pc \in {"stage", "inplace"}
  /\ Fault
  /\ junk' \in {junk, junk \/ proc[p].pc = "inplace"}
  /\ FailWith(p, AfterFailure(proc[p]))
  /\ UNCHANGED <<remote, disk, L, edits>>

-----------------------------------------------------------------------------
(* persistState: validate, write the temporary file, rename it.             *)

Encodes(st) == st.version = 1

\* Open fails when its persistState does.
AfterPersistFailure(s) == IF s.then = "idle" THEN Closed ELSE AfterFailure(s)

PersistRefused(p) ==
  /\ proc[p].pc = "persist"
  /\ ~Encodes(proc[p].pend)
  /\ FailWith(p, AfterPersistFailure(proc[p]))
  /\ UNCHANGED <<remote, disk, L, junk, edits, faults>>

WriteTmp(p) ==
  /\ proc[p].pc = "persist"
  /\ Encodes(proc[p].pend)
  /\ tmp' = TRUE
  /\ Become(p, [proc[p] EXCEPT !.pc = "rename"])
  /\ UNCHANGED <<remote, rec, pulled, repo, L, junk, lock, edits, faults>>

\* What the finished mutation leaves of the user's edits: those that still
\* differ from the recorded baseline.
EditsLeft(s) ==
  [q \in Paths |-> IF s.target[q] = s.base.tree[q] THEN NoEdit ELSE edits[q]]

RenameTmp(p) ==
  LET s    == proc[p]
      done == [s EXCEPT !.mem = s.pend] IN
  /\ s.pc = "rename"
  /\ rec' = Written(s.pend)
  /\ tmp' = FALSE
  /\ edits' = IF s.then = "done" THEN EditsLeft(s) ELSE edits
  /\ \/ /\ s.then \in {"stage", "inplace"}
        /\ Become(p, [done EXCEPT !.pc = s.then])
        /\ UNCHANGED lock
     \/ /\ s.then = "done" /\ s.op = "pull"
        /\ Become(p, [done EXCEPT !.pc = "markpulled"])
        /\ UNCHANGED lock
     \/ /\ s.then = "idle" \/ (s.then = "done" /\ s.op # "pull")
        /\ Become(p, Rest(done))
        /\ lock' = Nobody
  /\ UNCHANGED <<remote, pulled, repo, L, junk, faults>>

\* A file operation of persistState failed, before or after the temporary
\* file appeared.
PersistFails(p) ==
  /\ proc[p].pc \in {"persist", "rename"}
  /\ Fault
  /\ tmp' \in {tmp, TRUE}
  /\ FailWith(p, AfterPersistFailure(proc[p]))
  /\ UNCHANGED <<remote, rec, pulled, repo, L, junk, edits>>

MarkPulled(p) ==
  /\ proc[p].pc = "markpulled"
  /\ pulled' \in {pulled, TRUE}
  /\ Release(p)
  /\ UNCHANGED <<remote, rec, tmp, repo, L, junk, edits, faults>>

-----------------------------------------------------------------------------
(* The environment.                                                         *)

\* The process dies; the operating system releases its lock.
Crash(p) ==
  /\ proc[p].pc # "closed"
  /\ Fault
  /\ junk' \in {junk, junk \/ proc[p].pc = "inplace"}
  /\ Become(p, Closed)
  /\ lock' = IF lock = p THEN Nobody ELSE lock
  /\ UNCHANGED <<remote, disk, L, edits>>

\* Users edit only while no operation runs on L.
UserEdits ==
  /\ lock = Nobody
  /\ \E q \in Paths \ Ignored, c \in Contents \cup {Absent} :
       /\ c # L[q]
       /\ L' = [L EXCEPT ![q] = c]
       /\ edits' = [edits EXCEPT ![q] = c]
  /\ UNCHANGED <<remote, disk, junk, lock, proc, faults>>

\* Another workspace publishes a change of one path.
OthersPublish ==
  /\ remote.gen < MaxGen
  /\ \E q \in Paths, c \in Contents \cup {Absent} :
       /\ c # remote.tree[q]
       /\ remote' = [gen |-> remote.gen + 1, tree |-> [remote.tree EXCEPT ![q] = c]]
  /\ UNCHANGED <<disk, L, junk, lock, proc, edits, faults>>

\* Damage to P from outside.
Damage ==
  /\ lock = Nobody
  /\ Fault
  /\ \/ /\ RecordLoss /\ rec.kind # "missing"
        /\ rec' \in {NoFile, [rec EXCEPT !.kind = "bad"], [rec EXCEPT !.kind = "foreign"]}
        /\ UNCHANGED repo
     \/ /\ RepoLoss /\ repo.state = "ok"
        /\ repo' = [state |-> "broken", held |-> {}]
        /\ UNCHANGED rec
     \/ /\ ObjectLoss /\ repo.state = "ok"
        /\ repo' \in [state : {"ok"}, held : SUBSET repo.held]
        /\ UNCHANGED rec
  /\ UNCHANGED <<remote, tmp, pulled, L, junk, lock, proc, edits>>

-----------------------------------------------------------------------------
Step(p) ==
  \/ Scan(p) \/ Merge(p) \/ WorkFails(p)
  \/ RecoverState(p) \/ RecoverUnread(p)
  \/ Stage(p) \/ WritePath(p) \/ FinishInPlace(p) \/ ApplyFails(p)
  \/ PersistRefused(p) \/ WriteTmp(p) \/ RenameTmp(p) \/ PersistFails(p)
  \/ MarkPulled(p)

Next ==
  \/ \E p \in Procs : Open(p) \/ Step(p) \/ Crash(p)
  \/ \E p \in Procs, op \in {"pull", "commit"} : Begin(p, op)
  \/ UserEdits \/ OthersPublish \/ Damage

Spec == Init /\ [][Next]_vars

\* A call under way keeps running: every step is a bounded file or store
\* operation under the request context.
FairSpec == Spec /\ \A p \in Procs : WF_vars(Step(p))

-----------------------------------------------------------------------------
(* Properties.                                                              *)

\* What the next lock holder accepts without recovery (loadDurableState).
Trusted == rec.kind = "ok" /\ ~rec.st.flag /\ ~tmp

\* Whenever the record on disk asks for no recovery, L is whole: every path
\* shows the recorded baseline, the user's edit, or a conflict block over it,
\* and no temporary file is left, whatever crashed or failed in applyLocked
\* and persistState and whichever process ran last.
TrustedMeansWhole ==
  (lock = Nobody /\ Trusted) =>
    /\ ~junk
    /\ \A q \in Paths \ Ignored :
         IF edits[q] = NoEdit THEN L[q] = rec.st.tree[q]
                              ELSE L[q] \in {edits[q], Marker}

\* The recorded baseline was accepted by R and is not ahead of it, also when
\* processes take turns and fail on one P (refreshState, applyLocked).
BaselineFollowsR ==
  Trusted => rec.st.gen <= remote.gen /\ (rec.st.gen = remote.gen => rec.st.tree = remote.tree)

\* A record that asks for no recovery names a baseline the private repository
\* holds, "so a later reread keeps the requirement" (openPrivateState).  The
\* repository is rebuilt before the record is written: a crash or a failed
\* persistState in between leaves a record that asks for nothing over an
\* empty repository that opens.
BaselineHeld ==
  (lock = Nobody /\ Trusted /\ repo.state = "ok") => rec.st.gen \in repo.held

\* Every call ends and gives the lock back, which passes from one holder to the
\* next only by being free: no failure path waits for itself or recovers without
\* end.
CallsEnd == []<>(lock = Nobody)
=============================================================================
