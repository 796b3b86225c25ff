----------------------------- MODULE Publication -----------------------------
(***************************************************************************)
(* Writers of one notebook against one object store.                       *)
(*                                                                         *)
(* A commit reads `current`, loads the packs it references, merges, uploads*)
(* one immutable pack under a fresh key and publishes it by a conditional  *)
(* write of `current`; it may then run one checkpoint effort and the       *)
(* cleanup of unreferenced packs.  A pull is the reading half.  Any number *)
(* of processes do this at once, any of them may fail or die between two   *)
(* requests, a response may be lost, and a request that timed out may      *)
(* still be applied later.                                                 *)
(*                                                                         *)
(* The visible tree is left to other modules: a merge here is one of its   *)
(* three outcomes (conflict, nothing to publish, a change).                *)
(***************************************************************************)
EXTENDS Manifest, FiniteSets

CONSTANTS
  Writers,             \* processes, each with its own workspace
  RetryLimit,          \* --commit-retries: extra CAS attempts, stale restarts
  CheckpointPacks,     \* tail length that schedules a checkpoint
  RetainedCheckpoints, \* retained generations kept by a checkpoint
  CleanupBatch,        \* keys per delete request (1000 in the code)
  Hosted,              \* the store can refuse an upload for quota
  LocalFaults,         \* private state can fail: lost objects, failed writes
  SDKRetries,          \* the S3 client resends a conditional write itself
  MaxIDs,              \* bound: no commit starts once this many UUIDs are drawn
  MaxLate              \* bound: requests in flight after their sender gave up

ASSUME ConstantsAssumption ==
  /\ RetryLimit \in Nat
  /\ CheckpointPacks \in Nat \ {0}
  /\ RetainedCheckpoints \in Nat
  /\ CleanupBatch \in Nat \ {0}
  /\ Hosted \in BOOLEAN
  /\ LocalFaults \in BOOLEAN
  /\ SDKRetries \in BOOLEAN
  /\ MaxIDs \in Nat
  /\ MaxLate \in Nat

VARIABLES
  current,   \* the manifest object; EmptyManifest while it does not exist
  packs,     \* keys of the pack objects in the store
  writes,    \* conditional writes of current still in flight
  deletes,   \* delete requests still in flight
  baseline,  \* per writer, durable: the accepted generation and head P records
  pulled,    \* per writer, durable: the pulled marker
  repo,      \* per writer, durable: commits the private repository holds
  seq,       \* per writer: UUIDs drawn so far
  job,       \* per writer, volatile: the call in progress
  accepted   \* history: heads in the order `current` adopted them

storeVars == <<current, packs, writes, deletes>>
vars == <<current, packs, writes, deletes, baseline, pulled, repo, seq, job,
          accepted>>

-----------------------------------------------------------------------------
(* A call in progress.  pc names the next request; op says who called       *)
(* readRemote; obs is the observed manifest (its ETag is its content); prop *)
(* is the commit's proposal; cp is the key of the uploaded checkpoint pack; *)
(* mode is loadMode.                                                        *)

NoProposal == [pub |-> NoID, key |-> NoKey, manifest |-> EmptyManifest,
               compacting |-> FALSE]

Idle == [pc |-> "idle", op |-> "none", obs |-> EmptyManifest,
         prop |-> NoProposal, cp |-> NoKey, mode |-> "reusing", attempt |-> 0,
         restarts |-> 0, cutoff |-> 0, candidates |-> {}, doomed |-> {}]

ID == (Writers \X Nat) \cup {NoID}
Key_ == Keys(ID, Nat)
Manifest_ == Manifests(ID, Nat)

Proposals == [pub : ID, key : Key_, manifest : Manifest_, compacting : BOOLEAN]

Jobs ==
  [pc : {"idle", "read", "load", "reread", "merge", "apply", "upload", "cas",
         "lookup", "accept", "cpupload", "cpplan", "cpcas", "cplookup", "list",
         "roots", "delete"},
   op : {"none", "pull", "commit", "checkpoint", "recover"},
   obs : Manifest_, prop : Proposals, cp : Key_, mode : {"reusing", "strict"},
   attempt : Nat, restarts : Nat, cutoff : Nat, candidates : SUBSET Key_, doomed : SUBSET Key_]

Requests == [by : Writers, key : Key_, base : Manifest_, next : Manifest_]

TypeOK ==
  /\ current \in Manifest_
  /\ packs \subseteq Key_
  /\ writes \subseteq Requests
  /\ deletes \subseteq SUBSET Key_
  /\ baseline \in [Writers -> [gen : Nat, head : ID]]
  /\ pulled \in [Writers -> BOOLEAN]
  /\ repo \in [Writers -> SUBSET ID]
  /\ seq \in [Writers -> Nat]
  /\ job \in [Writers -> Jobs]
  /\ accepted \in Seq(ID)

Init ==
  /\ current = EmptyManifest
  /\ packs = {}
  /\ writes = {}
  /\ deletes = {}
  /\ baseline = [w \in Writers |-> [gen |-> 0, head |-> NoID]]
  /\ pulled = [w \in Writers |-> FALSE]
  /\ repo = [w \in Writers |-> {}]
  /\ seq = [w \in Writers |-> 0]
  /\ job = [w \in Writers |-> Idle]
  /\ accepted = <<>>

-----------------------------------------------------------------------------
(* Shorthand.                                                               *)

Become(w, j) == job' = [job EXCEPT ![w] = j]

\* The call with its observation spent: nothing later reads it.
Spent(j, pc) == [j EXCEPT !.pc = pc, !.obs = EmptyManifest]

CleanUp(cutoff) == [Idle EXCEPT !.pc = "list", !.cutoff = cutoff]

MutantSetBaseline(w, m) ==
  baseline' = [baseline EXCEPT ![w] = [gen |-> m.gen + 1, head |-> m.head]]

\* This mutated form records the head of the checkpoint, not of the chain.
MutantBaselineHead(w, m) ==
  baseline' = [baseline EXCEPT ![w] = [gen |-> m.gen, head |-> m.checkpoint.head]]

SetBaseline(w, m) == baseline' = [baseline EXCEPT ![w] = [gen |-> m.gen, head |-> m.head]]

\* `current` becomes m.  The history grows when the accepted head moves; a
\* checkpoint replacement keeps the head.
Adopt(m) ==
  /\ current' = m
  /\ accepted' = IF m.head = current.head THEN accepted ELSE Append(accepted, m.head)

\* The request is applied once it reaches the store, whoever still waits.
Land(base, next) ==
  IF current = base THEN Adopt(next) ELSE UNCHANGED <<current, accepted>>

-----------------------------------------------------------------------------
(* Pull and commit: entry and readRemote.                                   *)

StartPull(w) ==
  /\ job[w].pc = "idle"
  /\ Become(w, [Idle EXCEPT !.pc = "read", !.op = "pull"])
  /\ UNCHANGED <<storeVars, baseline, pulled, repo, seq, accepted>>

DrawnIDs == UNION {{<<w, n>> : n \in 1 .. seq[w]} : w \in Writers}

\* Commit requires a pulled workspace (PULL_REQUIRED otherwise).
StartCommit(w) ==
  /\ job[w].pc = "idle"
  /\ pulled[w]
  /\ Cardinality(DrawnIDs) < MaxIDs
  /\ Become(w, [Idle EXCEPT !.pc = "read", !.op = "commit", !.attempt = 1])
  /\ UNCHANGED <<storeVars, baseline, pulled, repo, seq, accepted>>

\* entryRecovery: P requires recovery, so the call only resynchronizes.
StartRecovery(w) ==
  /\ LocalFaults
  /\ job[w].pc = "idle"
  /\ Become(w, [Idle EXCEPT !.pc = "read", !.op = "recover", !.mode = "strict"])
  /\ UNCHANGED <<storeVars, baseline, pulled, repo, seq, accepted>>

\* Where readRemote returns to.
MutantAfterRead(op) == op

AfterRead(op) ==
  CASE op = "commit" -> "merge"
    [] op = "checkpoint" -> "cpplan"
    [] OTHER -> "apply"

\* What follows a recovery, done or failed: the call ends, but an accepted
\* compacting publication is cleaned up all the same (failAfterPublish).
AfterRecovery(j) ==
  IF j.prop.compacting THEN CleanUp(j.prop.key.gen) ELSE Idle

\* readRemote failed for good.
FailedRead(j) == IF j.op = "recover" THEN AfterRecovery(j) ELSE Idle

\* readRemoteMode up to the pack access.  An absent current is the empty
\* notebook whatever the baseline says; only a present one is checked for
\* rollback.
ReadCurrent(w) ==
  /\ job[w].pc = "read"
  /\ Become(w, IF ~Present(current)
               THEN [job[w] EXCEPT !.obs = current, !.pc = AfterRead(job[w].op)]
               ELSE IF RolledBack(current, baseline[w].gen)
               THEN FailedRead(job[w])
               ELSE [job[w] EXCEPT !.obs = current, !.pc = "load"])
  /\ UNCHANGED <<storeVars, baseline, pulled, repo, seq, accepted>>

\* reuseAccepted: the head is the accepted baseline's and nothing is missing.
Reused(w) ==
  LET specs == ImportSpecs(job[w].obs) IN
  /\ job[w].mode = "reusing"
  /\ baseline[w].head = job[w].obs.head
  /\ \A i \in DOMAIN specs : specs[i].head \in repo[w]

\* A pack is not fetched when its head is in the repository, unless a failed
\* validation has every pack imported again (importAll).  The pack cache only
\* spares downloads: it is best effort, so an empty one is always possible.
Available(w, spec, all) == (~all /\ spec.head \in repo[w]) \/ spec.key \in packs

\* loadRemote: packs are imported in order up to the first one that is gone.
\* The downloads of one load overlap, and the deletion of a key is final, so
\* taking them in one step loses no outcome.
LoadPacks(w) ==
  LET specs == ImportSpecs(job[w].obs) IN
  /\ job[w].pc = "load"
  /\ \E all \in IF Reused(w) THEN {FALSE} ELSE {FALSE, LocalFaults} :
       LET got == {i \in DOMAIN specs : \A k \in 1 .. i : Available(w, specs[k], all)} IN
       /\ repo' = [repo EXCEPT ![w] = @ \cup {specs[i].head : i \in got}]
       /\ Become(w, [job[w] EXCEPT !.pc =
                       IF got = DOMAIN specs THEN AfterRead(job[w].op) ELSE "reread"])
  /\ UNCHANGED <<storeVars, baseline, pulled, seq, accepted>>

\* errStaleManifest: restart when the manifest moved, else PACK_INVALID.
RereadCurrent(w) ==
  /\ job[w].pc = "reread"
  /\ Become(w, IF \/ job[w].restarts >= RetryLimit
                  \/ ~Present(current)
                  \/ current = job[w].obs
               THEN FailedRead(job[w])
               ELSE [job[w] EXCEPT !.pc = "read", !.restarts = @ + 1])
  /\ UNCHANGED <<storeVars, baseline, pulled, repo, seq, accepted>>

\* engineFailed: an attempt that may have been served from the accepted head
\* is run once more from a strict read, with the same attempt number.
MutantStrictAttempt(j) == [Idle EXCEPT !.pc = "read", !.op = j.op, !.attempt = j.attempt]

StrictAttempt(j) ==
  [Idle EXCEPT !.pc = "read", !.op = j.op, !.mode = "strict", !.attempt = j.attempt]

EngineFails(w) ==
  /\ LocalFaults
  /\ job[w].op \in {"pull", "commit"}
  /\ job[w].pc \in {"load", "merge", "apply"}
  /\ job[w].mode = "reusing"
  /\ Become(w, StrictAttempt(job[w]))
  /\ UNCHANGED <<storeVars, baseline, pulled, repo, seq, accepted>>

\* pullAttempt's Materialize and MarkPulled (the baseline is R's on a clean
\* and on a conflicting pull), and recoverState's Recover.
ApplyRemote(w) ==
  /\ job[w].pc = "apply"
  /\ SetBaseline(w, job[w].obs)
  /\ pulled' = [pulled EXCEPT ![w] = @ \/ job[w].op = "pull"]
  /\ Become(w, IF job[w].op = "recover" THEN AfterRecovery(job[w]) ELSE Idle)
  /\ UNCHANGED <<storeVars, repo, seq, accepted>>

-----------------------------------------------------------------------------
(* Commit: merge, proposal, upload.                                         *)

\* A conflict (markers materialized) or no surviving local change: L and P are
\* synchronized to R and nothing is published.
MergeToRemote(w) ==
  /\ job[w].pc = "merge"
  /\ SetBaseline(w, job[w].obs)
  /\ Become(w, Idle)
  /\ UNCHANGED <<storeVars, pulled, repo, seq, accepted>>

\* buildProposal: fresh UUIDs on every attempt.
BuildProposal(w) ==
  LET pub  == <<w, seq[w] + 1>>
      cpID == <<w, seq[w] + 2>>
      obs  == job[w].obs
      m    == IF Present(obs) THEN IncrementManifest(obs, pub)
                              ELSE FirstManifest(pub, cpID)
      key  == IF Present(obs) THEN Key("increment", NextIncrementGen(obs), pub)
                              ELSE Key("checkpoint", 1, cpID)
  IN
  /\ job[w].pc = "merge"
  /\ seq' = [seq EXCEPT ![w] = @ + IF Present(obs) THEN 1 ELSE 2]
  /\ repo' = [repo EXCEPT ![w] = @ \cup {pub}]
  /\ Become(w, [job[w] EXCEPT
                  !.prop = [pub |-> pub, key |-> key, manifest |-> m,
                            compacting |-> FALSE],
                  !.pc = "upload"])
  /\ UNCHANGED <<storeVars, baseline, pulled, accepted>>

\* UploadUnique succeeded: acknowledged, or proved by reading the key back.
\* Where the proof fails the object may be stored all the same, an orphan.
UploadPack(w) ==
  /\ job[w].pc = "upload"
  /\ packs' = packs \cup {job[w].prop.key}
  /\ \/ Become(w, [job[w] EXCEPT !.pc = "cas"])
     \/ Become(w, Idle)
  /\ UNCHANGED <<current, writes, deletes, baseline, pulled, repo, seq,
                 accepted>>

\* ErrQuotaExceeded for an increment: publish the commit as a checkpoint
\* (when that is smaller, which is left open here).
CompactOnQuota(w) ==
  LET cpID == <<w, seq[w] + 1>>
      prop == job[w].prop IN
  /\ Hosted
  /\ job[w].pc = "upload"
  /\ prop.key.kind = "increment"
  /\ seq' = [seq EXCEPT ![w] = @ + 1]
  /\ Become(w, [job[w] EXCEPT
                  !.prop = [pub |-> prop.pub,
                            key |-> Key("checkpoint", prop.key.gen, cpID),
                            manifest |-> CompactingManifest(prop.manifest, cpID),
                            compacting |-> TRUE]])
  /\ UNCHANGED <<storeVars, baseline, pulled, repo, accepted>>

-----------------------------------------------------------------------------
(* Commit: publish.  EncodeManifest validates before anything is sent.      *)

\* The writer is about to send the conditional write of its proposal.
Publishing(w) == job[w].pc = "cas" /\ ValidManifest(job[w].prop.manifest)

PublishAccepted(w) ==
  /\ Publishing(w)
  /\ current = job[w].obs
  /\ Adopt(job[w].prop.manifest)
  /\ Become(w, Spent(job[w], "accept"))
  /\ UNCHANGED <<packs, writes, deletes, baseline, pulled, repo, seq>>

\* One more request may stay in flight after its sender gave up on it.
CanBeLate == Cardinality(writes) + Cardinality(deletes) < MaxLate

\* DeleteObjects: any part of the batch is gone, now or later.
Delete(batch) ==
  \/ /\ \E gone \in SUBSET batch : packs' = packs \ gone
     /\ UNCHANGED deletes
  \/ /\ CanBeLate
     /\ deletes' = deletes \cup {batch}
     /\ UNCHANGED packs

\* discardCompaction: the store certainly refused, so a compacting proposal
\* deletes its own pack, best effort.
Discard(prop) == IF prop.compacting THEN Delete({prop.key}) ELSE UNCHANGED <<packs, deletes>>

\* errCASLost: a fresh attempt from a fresh observation, or REMOTE_BUSY.
RetryPublication(j) ==
  IF j.attempt > RetryLimit THEN Idle
  ELSE [Idle EXCEPT !.pc = "read", !.op = "commit", !.mode = j.mode,
                    !.attempt = j.attempt + 1]

PublishLost(w) ==
  /\ Publishing(w)
  /\ current # job[w].obs
  /\ Discard(job[w].prop)
  /\ Become(w, RetryPublication(job[w]))
  /\ UNCHANGED <<current, writes, baseline, pulled, repo, seq, accepted>>

\* Any other answer of the store: errManifestRefused.
MutantRefusedOnTimeout(w) ==
  /\ Publishing(w)
  /\ Discard(job[w].prop)
  /\ Land(job[w].obs, job[w].prop.manifest)
  /\ Become(w, Idle)
  /\ UNCHANGED <<writes, baseline, pulled, repo, seq>>

PublishRefused(w) ==
  /\ Publishing(w)
  /\ Discard(job[w].prop)
  /\ Become(w, Idle)
  /\ UNCHANGED <<current, writes, baseline, pulled, repo, seq, accepted>>

\* No response: the write was applied, never will be, or is still under way.
LoseResponse(w, key, base, next) ==
  \/ Land(base, next) /\ UNCHANGED writes
  \/ UNCHANGED <<current, accepted, writes>>
  \/ /\ CanBeLate
     /\ writes' = writes \cup {[by |-> w, key |-> key, base |-> base, next |-> next]}
     /\ UNCHANGED <<current, accepted>>

PublishUnanswered(w) ==
  /\ Publishing(w)
  /\ LoseResponse(w, job[w].prop.key, job[w].obs, job[w].prop.manifest)
  /\ Become(w, Spent(job[w], "lookup"))
  /\ UNCHANGED <<packs, deletes, baseline, pulled, repo, seq>>

\* The S3 client resends an applied write whose response it lost; the second
\* copy meets its own effect and is answered 412, which publish takes for a
\* lost race.  (Compaction does not exist on S3.)
PublishResent(w) ==
  /\ SDKRetries
  /\ Publishing(w)
  /\ current = job[w].obs
  /\ ~job[w].prop.compacting
  /\ Adopt(job[w].prop.manifest)
  /\ Become(w, RetryPublication(job[w]))
  /\ UNCHANGED <<packs, writes, deletes, baseline, pulled, repo, seq>>

\* lookupPublication after a lost response.  A failed read proves nothing
\* either way and ends the call: Abandon.
MutantProved(prop) == Present(current)

Proved(prop) == PublicationIn(current, prop.pub)

LookupPublication(w) ==
  /\ job[w].pc = "lookup"
  /\ Become(w, IF Proved(job[w].prop) THEN [job[w] EXCEPT !.pc = "accept"] ELSE Idle)
  /\ UNCHANGED <<storeVars, baseline, pulled, repo, seq, accepted>>

-----------------------------------------------------------------------------
(* Commit: local acceptance and what it schedules.                          *)

Accept(w) ==
  LET prop == job[w].prop IN
  /\ job[w].pc = "accept"
  /\ SetBaseline(w, prop.manifest)
  /\ Become(w, IF prop.compacting
               THEN CleanUp(prop.key.gen)
               ELSE IF Len(prop.manifest.increments) >= CheckpointPacks
               THEN [job[w] EXCEPT !.pc = "cpupload"]
               ELSE Idle)
  /\ UNCHANGED <<storeVars, pulled, repo, seq, accepted>>

\* A local mutation failed after it started: recovery rereads R in the same
\* call (applyLocal, and failAfterPublish once the remote accepted).
LocalFails(w) ==
  /\ LocalFaults
  /\ job[w].op \in {"pull", "commit"}
  /\ job[w].pc \in {"merge", "apply", "accept"}
  /\ Become(w, [Idle EXCEPT !.pc = "read", !.op = "recover", !.mode = "strict",
                            !.prop = IF job[w].prop.compacting THEN job[w].prop
                                                               ELSE NoProposal])
  /\ UNCHANGED <<storeVars, baseline, pulled, repo, seq, accepted>>

\* The recovery itself failed.
RecoverFails(w) ==
  /\ job[w].op = "recover"
  /\ job[w].pc \in {"read", "load", "reread", "apply"}
  /\ Become(w, AfterRecovery(job[w]))
  /\ UNCHANGED <<storeVars, baseline, pulled, repo, seq, accepted>>

-----------------------------------------------------------------------------
(* The checkpoint effort.                                                   *)

\* The selected prefix of the manifest whose acceptance scheduled the effort.
Plan(w) == PlanPrefix(job[w].prop.manifest, CheckpointPacks)

CheckpointUpload(w) ==
  LET id  == <<w, seq[w] + 1>>
      key == Key("checkpoint", PlanLast(Plan(w)).gen, id) IN
  /\ job[w].pc = "cpupload"
  /\ seq' = [seq EXCEPT ![w] = @ + 1]
  /\ packs' = packs \cup {key}
  /\ Become(w, [job[w] EXCEPT !.pc = "read", !.op = "checkpoint", !.cp = key,
                              !.mode = "reusing", !.attempt = 1, !.restarts = 0])
  /\ UNCHANGED <<current, writes, deletes, baseline, pulled, repo, accepted>>

\* Another checkpoint removed the prefix: discard the effort.
CheckpointPlan(w) ==
  /\ job[w].pc = "cpplan"
  /\ Become(w, IF PrefixPresent(job[w].obs, Plan(w))
               THEN [job[w] EXCEPT !.pc = "cpcas"] ELSE Idle)
  /\ UNCHANGED <<storeVars, baseline, pulled, repo, seq, accepted>>

CheckpointNext(w) ==
  CompactManifest(job[w].obs, Plan(w), job[w].cp.id, RetainedCheckpoints)

Compacting(w) == job[w].pc = "cpcas" /\ ValidManifest(CheckpointNext(w))

\* A failed MarkShallow after this step ends the effort without cleanup; that
\* is Abandon at "list".
CheckpointAccepted(w) ==
  /\ Compacting(w)
  /\ current = job[w].obs
  /\ Adopt(CheckpointNext(w))
  /\ Become(w, CleanUp(job[w].cp.gen))
  /\ UNCHANGED <<packs, writes, deletes, baseline, pulled, repo, seq>>

\* The pack is kept; only the manifest is rewritten against the new tail.
RetryCheckpoint(j) ==
  IF j.attempt > RetryLimit THEN Idle
  ELSE [j EXCEPT !.pc = "read", !.attempt = j.attempt + 1, !.restarts = 0]

CheckpointLost(w) ==
  /\ Compacting(w)
  /\ current # job[w].obs
  /\ Become(w, RetryCheckpoint(job[w]))
  /\ UNCHANGED <<storeVars, baseline, pulled, repo, seq, accepted>>

CheckpointResent(w) ==
  /\ SDKRetries
  /\ Compacting(w)
  /\ current = job[w].obs
  /\ Adopt(CheckpointNext(w))
  /\ Become(w, RetryCheckpoint(job[w]))
  /\ UNCHANGED <<packs, writes, deletes, baseline, pulled, repo, seq>>

CheckpointUnanswered(w) ==
  /\ Compacting(w)
  /\ LoseResponse(w, job[w].cp, job[w].obs, CheckpointNext(w))
  /\ Become(w, Spent(job[w], "cplookup"))
  /\ UNCHANGED <<packs, deletes, baseline, pulled, repo, seq>>

CheckpointLookup(w) ==
  /\ job[w].pc = "cplookup"
  /\ Become(w, IF CheckpointIn(current, job[w].cp.id)
               THEN CleanUp(job[w].cp.gen) ELSE Idle)
  /\ UNCHANGED <<storeVars, baseline, pulled, repo, seq, accepted>>

-----------------------------------------------------------------------------
(* Cleanup of packs no accepted manifest references.                        *)

CleanupList(w) ==
  LET found == {k \in packs : k.gen <= job[w].cutoff} IN
  /\ job[w].pc = "list"
  /\ Become(w, IF found = {} THEN Idle
               ELSE [Idle EXCEPT !.pc = "roots", !.candidates = found,
                                 !.cutoff = job[w].cutoff])
  /\ UNCHANGED <<storeVars, baseline, pulled, repo, seq, accepted>>

\* The next batch, in whatever order the listing gave.
Batches(c) ==
  {b \in SUBSET c : Cardinality(b) = IF Cardinality(c) <= CleanupBatch
                                     THEN Cardinality(c) ELSE CleanupBatch}

NextBatch(w, rest) ==
  IF rest = {} THEN Idle ELSE [job[w] EXCEPT !.pc = "roots", !.candidates = rest,
                                             !.doomed = {}]

\* cleanupRoots before every batch: what current references now is spared.
MutantDoomed(batch) == batch

Doomed(batch) == batch \ ManifestRoots(current)

CleanupRoots(w) ==
  /\ job[w].pc = "roots"
  /\ Present(current)
  /\ \E batch \in Batches(job[w].candidates) :
       LET rest == job[w].candidates \ batch IN
       Become(w, IF Doomed(batch) = {} THEN NextBatch(w, rest)
                 ELSE [job[w] EXCEPT !.pc = "delete", !.candidates = rest,
                                     !.doomed = Doomed(batch)])
  /\ UNCHANGED <<storeVars, baseline, pulled, repo, seq, accepted>>

\* A failed delete is recorded and the next batch is tried.
CleanupDelete(w) ==
  /\ job[w].pc = "delete"
  /\ Delete(job[w].doomed)
  /\ Become(w, NextBatch(w, job[w].candidates))
  /\ UNCHANGED <<current, writes, baseline, pulled, repo, seq, accepted>>

-----------------------------------------------------------------------------
(* Failures.                                                                *)

\* The call ends without touching the store: a failed request, a refused
\* merge result, an engine error, a cancelled context, or a crash.
Abandon(w) ==
  /\ job[w].pc # "idle"
  /\ Become(w, Idle)
  /\ UNCHANGED <<storeVars, baseline, pulled, repo, seq, accepted>>

\* A conditional write or a delete whose sender gave up reaches the store.
LateWrite ==
  /\ \E r \in writes : Land(r.base, r.next) /\ writes' = writes \ {r}
  /\ UNCHANGED <<packs, deletes, baseline, pulled, repo, seq, job>>

LateDelete ==
  /\ \E d \in deletes : packs' = packs \ d /\ deletes' = deletes \ {d}
  /\ UNCHANGED <<current, writes, baseline, pulled, repo, seq, job, accepted>>

-----------------------------------------------------------------------------
Read(w) ==
  \/ ReadCurrent(w) \/ LoadPacks(w) \/ RereadCurrent(w) \/ EngineFails(w)
  \/ ApplyRemote(w)

Commit(w) ==
  \/ MergeToRemote(w) \/ BuildProposal(w)
  \/ UploadPack(w) \/ CompactOnQuota(w)
  \/ PublishAccepted(w) \/ PublishLost(w) \/ PublishRefused(w)
  \/ PublishUnanswered(w) \/ PublishResent(w) \/ LookupPublication(w)
  \/ Accept(w) \/ LocalFails(w) \/ RecoverFails(w)

CheckpointEffort(w) ==
  \/ CheckpointUpload(w) \/ CheckpointPlan(w) \/ CheckpointAccepted(w)
  \/ CheckpointLost(w) \/ CheckpointResent(w) \/ CheckpointUnanswered(w) \/ CheckpointLookup(w)

Cleanup(w) == CleanupList(w) \/ CleanupRoots(w) \/ CleanupDelete(w)

Work(w) == Read(w) \/ Commit(w) \/ CheckpointEffort(w) \/ Cleanup(w) \/ Abandon(w)

Next ==
  \/ \E w \in Writers : StartPull(w) \/ StartCommit(w) \/ StartRecovery(w) \/ Work(w)
  \/ LateWrite
  \/ LateDelete

Spec == Init /\ [][Next]_vars

\* The Go scheduler runs every goroutine and every request is bounded by its
\* context, so a call in progress keeps taking steps; starting one is free.
FairSpec == Spec /\ \A w \in Writers : WF_vars(Work(w))

-----------------------------------------------------------------------------
(* Properties.                                                              *)

Heads == {accepted[i] : i \in DOMAIN accepted}

\* Every pack the accepted manifest references is in the store, whatever
\* cleanups, discarded compactions, late deletes and late publications
\* overlap (cleanupPacks, discardCompaction against publish).
ReferencedPacksExist == ManifestRoots(current) \subseteq packs

\* A key at or below the accepted cutoff that is not referenced never becomes
\* referenced again: the fact that lets cleanupPacks delete by generation
\* without a lock against runCheckpoint and buildProposal.
NewRootsAboveCutoff ==
  [][\A k \in ManifestRoots(current') \ ManifestRoots(current) :
       k.gen > current.checkpoint.through]_vars

\* The accepted chain is the end of the history of accepted heads, without a
\* gap: no rewrite of current (increment, compaction, checkpoint, late write)
\* loses or reorders a publication accepted before it.
ChainIsHistory ==
  LET n == Len(accepted)
      k == Len(current.increments) IN
  Present(current) =>
    /\ n > k
    /\ accepted[n - k] = current.checkpoint.head
    /\ \A i \in 1 .. k : accepted[n - k + i] = current.increments[i].head
    /\ Cardinality(Heads) = n

\* EncodeManifest never refuses a manifest buildProposal, compaction or
\* compactManifest built: their generation, parent, retention and uniqueness
\* arithmetic always satisfies validateManifest.
ProposalsEncode ==
  \A w \in Writers :
    /\ job[w].pc = "cas" => ValidManifest(job[w].prop.manifest)
    /\ job[w].pc = "cpcas" => ValidManifest(CheckpointNext(w))

\* A pack that is gone always means the manifest moved: readRemoteMode never
\* reports "missing and unchanged" of a healthy store.  It still reports
\* PACK_INVALID when the manifest moved in each of its retryLimit restarts.
StaleReadMoved ==
  \A w \in Writers : job[w].pc = "reread" => current # job[w].obs

\* Commit takes a proposal for accepted, and so returns OK, only when current
\* accepted it, also when the response of the conditional write was lost
\* (publish, lookupPublication).
OKMeansAccepted ==
  \A w \in Writers : job[w].pc = "accept" => job[w].prop.pub \in Heads

\* The baseline a workspace records is an accepted state and never ahead of
\* current, so CheckManifestRollback refuses nothing on a healthy store.
BaselineAccepted ==
  \A w \in Writers :
    /\ baseline[w].gen <= current.gen
    /\ baseline[w].head \in Heads \cup {NoID}

\* publish reports errCASLost or a refusal only for a proposal that is not
\* accepted, so rebuilding it cannot publish it twice and deleting the pack of
\* a compacting one cannot break the accepted chain.
LostMeansAnotherWon ==
  [][\A w \in Writers :
       (PublishLost(w) \/ PublishRefused(w) \/ PublishResent(w)) =>
         \A i \in DOMAIN accepted' : accepted'[i] # job[w].prop.pub]_vars

\* Every call comes back: CAS retries, stale restarts, the checkpoint effort
\* and cleanup are bounded (retryLimit), whatever the other writers do.
CallsReturn == \A w \in Writers : job[w].pc # "idle" ~> job[w].pc = "idle"
=============================================================================
