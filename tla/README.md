# A TLA+ model of slivingdoc

slivingdoc keeps a directory of notes in step between machines.  `pull` and
`commit` relate three things: the visible directory **L**, a private directory
**P** (a Git repository used as a cache, `state.json`, a pulled marker, an
operation lock) and the remote **R** (an object store that holds one mutable
object, the manifest `current`, and immutable packs).  Nothing runs on a
server: every guarantee comes from conditional writes of `current` and from
the order in which each client touches L, P and R.  That order is what these
modules model.

## Inventory

| Part | State | Operations | What is hard |
| --- | --- | --- | --- |
| Manifest (`internal/storage/manifest.go`, `key.go`) | active chain (checkpoint and increments), retained chains, generation | decode and encode with `validateManifest`, rollback check, the rewrites of `notebook/commit.go` and `checkpoint.go` | two generation counters that part ways, uniqueness and retention rules after every rewrite |
| Publication (`notebook/commit.go`, `pull.go`, `remote.go`, `notebook.go`) | `current`, packs, requests in flight; per writer the baseline, the pulled marker, what the repository holds | pull, commit, entry recovery; read, load, merge, upload, publish, look up, accept | CAS races, lost responses, late requests, stale manifests, accepted-head reuse, quota compaction |
| Checkpoint and cleanup (`notebook/checkpoint.go`) | the plan, the uploaded checkpoint, the candidates | plan, upload, publish with retries, list, roots, delete in batches | deletes without a lock against uploads and publications |
| Download pipeline (`notebook/remote.go`, `prefetchPacks`) | work channel, one result channel per pack, a context | dispatch, fetch, deliver, import, cancel | everyone waiting on everyone, goroutines left behind, import order |
| Workspace (`internal/workspace`) | `state.json`, its temporary file, pulled marker, repository, L, lock | open, hold, scan, apply, persist, recover, mark pulled, close | crash between any two steps, two processes on one P, what the next lock holder may trust |
| Merge and path policy (`internal/git`) | none; the policy of a process | three-tree merge, conflict materialization, read-only and writable sets, folded names | directory/file conflicts, nesting of the two sets, what a reset takes along |
| Encryption (`notebook/encryption.go`, `storage/encrypted.go`, `crypt`, `keyrecord`, `app/encryption.go`) | encrypted `current` with its doors, the key record, the decorator's cached mode and doors | init, rekey, passwd, recovery, key resolution, reads and writes through the decorator | replacing a plaintext notebook under live writers, a rekey from a stale baseline, doors computed before a prompt |
| S3 store (`s3store`, `storage/upload.go`, `probe.go`, `app/probeproof.go`) | the remote objects, the recorded probe | conditional create and replace, multipart upload, list, delete, probe | which answers are ambiguous, what the client resends, a stale proof |
| HTTP store (`httpstore`, `app/minted.go`) | a token and the space it is bound to | the same requests with tokens, retries and pages | a token that expires on the way, a name that comes to mean another space, one mint for many callers |
| Credentials and sign-in (`credentials`, `sitelogin`, `app/login.go`, `app/signin.go`) | credentials file and its lock, the sign-in lock and its page | device login, sign-in on first use, logout, default space | lost polls, two logins at once, a logout racing a login, processes that die |
| Targets, spaces and settings (`app/storage.go`, `config.go`, `association.go`, `space.go`, `settings`) | settings file and its lock, remembered notebooks, defaults | resolve a target, remember it, list, create and choose spaces | a file shared by processes and by newer builds, listings that are stale when a default is stored |
| Server (`app/app.go`, `app/service.go`, `mcp`, `git2`) | the open workspace, the service mutex, the engine | tool calls, cancellation, disconnect, bounded shutdown | closing what a running call still uses |
| CLI, terminal UI, launcher (`cli`, `tui`, `cmd`, `npm`) | none of their own | parsing and presentation | nothing concurrent |

Interaction: a command resolves a target (`Targets`) and signs in when it has
no login (`SignIn`); a tool call of the server holds the workspace lock
(`Server`, `Workspace`), then drives a pull or a commit (`Guard` for the tree,
`Publication` for the store) through the encryption decorator (`Encryption`)
and the HTTP store (`Hosted`) or S3; loading packs is the pipeline's work
(`Prefetch`).  Processes meet only in the store, in the files of the user's
configuration directory and, when they share a directory, in P and L.

## Modules

| Module | Models |
| --- | --- |
| `Manifest` | descriptors, `validateManifest` (`ValidManifest`), the manifests writers build (`FirstManifest`, `IncrementManifest`, `CompactingManifest`, `CompactManifest`) and what is asked of them (`ManifestRoots`, `PublicationIn`, `PrefixPresent`, ...) |
| `Publication` | any number of writers against one store, one action per store request or local mutation |
| `NotebookLog`, `PublicationLog` | the abstract log of publications a notebook promises, and the refinement mapping from `Publication` |
| `PublicationInv` | the inductive invariant (`PackInv`) that explains why cleanup is safe |
| `Workspace` | L, P and the processes sharing them, one action per durable step |
| `Prefetch` | the pack download pipeline of one import |
| `PathPolicy`, `Merge` | paths, snapshots, entry sets and protection; how a libgit2 merge becomes conflicts and the tree that is written (pure operators) |
| `Guard` | one process with a policy that pulls and commits: scan, first-pull guard, pin, reset, merge, rewrite and recovery of the visible directory |
| `Encryption` | the encrypt commands and the clients they race, over the same stored objects |
| `SignIn` | login, logout and sign-in on first use, over the credentials file and the account site |
| `Settings`, `Resolution` | the settings file; which store an invocation names (pure operators) |
| `Targets` | commands that resolve, check, use and remember a store, and the space command |
| `Hosted` | concurrent calls on the HTTP store, the minted tokens, the site and the gateway |
| `Server` | one serve process: tool calls, locks, cancellation, shutdown |
| `PublicationHistory` | the inductive invariant (`HistInv`) that explains why no publication is lost, doubled or reordered |
| `PublicationEncode` | the inductive invariant (`EncodeInv`) that explains why `EncodeManifest` refuses nothing a writer built |
| `PublicationProofs` | the manifest rewrites, type correctness, `PackInv` and the safety of cleanup; `HistInv`, the history properties and the refinement of the log; `EncodeInv` and the validity of every proposal, proved with TLAPS |
| `PrefetchProofs`, `WorkspaceProofs`, `EncryptionProofs`, `SignInProofs`, `TargetsProofs`, `HostedProofs`, `ServerProofs` | the inductive invariant of each component and the safety properties it gives, proved with TLAPS |
| `MC...` | instances for TLC with their symmetry sets |

### Publication

`job[w]` is the volatile state of the call a writer runs: `pc` names the next
request, `op` who asked for the remote read, `obs` the observed manifest
(whose ETag is its content), `prop` the proposal, `cp` the uploaded checkpoint
key, `mode` the load mode.  `baseline`, `pulled` and `repo` are durable.
`accepted` is a history variable: the heads in the order `current` adopted
them.

| Actions | Code |
| --- | --- |
| `StartPull`, `StartCommit`, `StartRecovery` | `Pull`, `Commit`, `entryRecovery` |
| `ReadCurrent`, `LoadPacks`, `RereadCurrent` | `readRemoteMode`, `loadRemote` with `reuseAccepted`, `importRemote` and `ensurePack`, the `errStaleManifest` restart |
| `EngineFails` | `engineFailed`: one strict attempt |
| `ApplyRemote`, `MergeToRemote` | `pullAttempt` and `recoverState`; a commit that ends in a conflict or without a change |
| `BuildProposal`, `UploadPack`, `CompactOnQuota` | `buildProposal`, `UploadUnique`, `buildCompactingProposal` |
| `PublishAccepted`, `PublishLost`, `PublishRefused`, `PublishUnanswered`, `LookupPublication` | the outcomes of `publish` |
| `PublishResent`, `CheckpointResent` | the AWS client's own retries of a conditional write (`SDKRetries`) |
| `Accept`, `LocalFails`, `RecoverFails` | local acceptance, `applyLocal`, `failAfterPublish` |
| `CheckpointUpload` to `CheckpointLookup` | `runCheckpoint` |
| `CleanupList`, `CleanupRoots`, `CleanupDelete` | `cleanupPacks`, `cleanupRoots` |
| `Abandon` | a call that ends without touching the store: any other error, a cancelled context, a crash |
| `LateWrite`, `LateDelete` | a request whose sender gave up reaches the store |

Abstractions: ids are pairs of writer and counter; a commit is named by the
publication that created it; packs are their keys; the merge is one of its
three outcomes.  A lost response is one of: applied, never applied, still in
flight.  The pack cache is always possibly empty.  The downloads of one load
are one step; `Prefetch` has their interleaving.

`NotebookLog` is what the writers promise together: a log to which every
publication is appended once, per workspace a place in it that only moves
forward, and, for a commit that learns it was accepted, that it records its
own place or fails.  `PublicationLog` maps `accepted` to the log, a recorded
baseline to its index and a commit waiting for local acceptance to the
publication it owes; `ImplementsLog` is the refinement.

### Workspace

`rec`, `tmp`, `pulled`, `repo` are what is on disk in P, `L` the visible tree,
`junk` a leftover temporary file of `applyInPlace`.  `proc[p]` is a process:
`mem` the record in memory, `pc` the next durable step.  `edits` is a history
variable: what the user changed and R has not got.  A commit and its
publication on R are one step here, because `Publication` has them in detail.

| Actions | Code |
| --- | --- |
| `Open` | `Open`, `openPrivateState` |
| `Begin` | `Hold`, `refreshState`, `entryRecovery` |
| `Scan`, `Merge`, `WorkFails` | `scanLocked` with `pinIgnored`, `rejectMarkers`, the merge of `pullAttempt` and `attemptPublication`, and their failures |
| `RecoverState`, `RecoverUnread` | `recoverState`, `Recover` |
| `Stage`, `WritePath`, `FinishInPlace`, `ApplyFails` | `applyLocked`, `markRecoveryRequired`, `applyInPlace` |
| `WriteTmp`, `RenameTmp`, `PersistRefused`, `PersistFails` | `persistState`, `validateState` |
| `MarkPulled` | `MarkPulled` |
| `Crash`, `UserEdits`, `OthersPublish`, `Damage` | the environment |

Users are assumed not to edit L while an operation runs on it, and the merge
decides each path as a whole; path policy, folded names and directory/file
conflicts are in `Guard`, which in turn has no crashes.

### Prefetch

One dispatcher, any set of workers, one importer.  A delivery is the
rendezvous on the unbuffered channel of the wanted index; leaving is the
`ctx.Done()` branch of a select or the closed work channel.

### PathPolicy, Merge, Guard

A path is a sequence of segments, a snapshot a function from paths to
contents, a content the set of texts it shows (those of both sides for a
conflict block).  `CollapseEntries`, `NewPolicy` and `Protects` follow
`readonly.go` and `policy.go`; `ProcessPolicy` builds the policy three times,
as the configuration, the service and the notebook do.  `Touched`,
`FileDirectory`, `Unresolved` and `Resolved` describe libgit2's merge of whole
files and are external; what `merge.go` makes of its index is not.

| Actions | Code |
| --- | --- |
| `Pull` (`PullRefused`, `PullMerges`) | `pullAttempt` with `guardFirstPull`, `pinProtected`, `diffStat`, `materializeTree` |
| `Commit` (`CommitRefused`, `EnforcePolicy`, `CommitMerges`) | `attemptPublication` with `rejectMarkers`, `enforcePolicy`, `restoreProtected`, `rejectNewFoldedPairs` |
| `EntryRecovery`, `Recover`, `ApplyLocal`, `Rewritten` | `entryRecovery`, `recoverState`, `applyLocal`, `applyInPlace` with the loop that removes obsolete files |
| `EditLocal`, `OthersPublish` | the editor and the other writers |

A commit here is the attempt that wins the publication race.

### Encryption

Ciphertext is the key it was sealed with: an envelope opens under that key
only, a door gives its key to its secret only.  `mode` and `cached` are what
the store decorator remembers between requests, `ring` the unlocked key,
`record` the durable key record.

| Actions | Code |
| --- | --- |
| `StartClient` to `ClientLookup` | pull and commit through `encryptedStore` (`readCurrent`, `ensureMode`, `writeCurrent`) |
| `StartInit`, `StartRekey`, `RootRead` to `RootAccept`, `CleanupList` to `CleanupDelete` | `EncryptInit`, `EncryptRekey`, `publishRoot`, `rootRemote`, `cleanupCurrent` |
| `StartPasswd`, `StartRecovery`, `DoorsRead` to `DoorsUnanswered` | `encryptPasswd`, `encryptRecovery`, `EncryptDoors` |
| `RecordChange` | `recordWarnings`, `applyRecordChange` |
| `End`, `Restart` | a failed or finished command, a process that ends |

### SignIn

A login in progress (`flow`) is a terminal's or a server's background one;
`edit` is its turn at the credentials file under `credentials.lock`, `signer`
the holder of `signin.lock`, `record` the page in `signin.json`.  `told`,
`dropped`, `half` and `deadCodes` are history: keys a person was told of, keys
of processes that died, keys a logout may have revoked without removing them.
A revocation has three outcomes (`Revokes`): applied, refused, or not answered,
and then the site applied it or did not.

| Actions | Code |
| --- | --- |
| `LoginCommand`, `Started`, `Poll...`, `Discarded`, `Listed`, `Stored`, `RevokeReplaced`, `Picked` | `Login.Run`, `Client.Start`, `Client.Wait`, `store`, `discard`, `revokeReplaced`, `offerDefault` |
| `ToolCall`, `Built`, `Adopt`, `Ended`, `Looks`, `Pending` | `signIn.await`, `build`, `adoptDefault`, `ended`, `pending` |
| `LogoutCommand`, `Revokes`, `Revoked`, `Removes` | `Logout.Run`, `remove` |
| `Expire`, `CrashLogin`, `CrashServer`, `CrashLogout` | the site and the environment |

### Settings, Resolution, Targets

`Load` is the codec with its two versions and the refusal of a newer one.
`Resolution` turns an invocation, the view of the directory and the stored
logins into a target or a refusal, in the order of `resolveStorage`; a path
style is unset, on or off at each source, and the region is left out.  `proved`
and `probes` are history.

| Actions | Code |
| --- | --- |
| `Start`, `BuildLogin`, `ResolveHostedSpace`, `ReuseProof`, `Probe`, `CheckAccess` | `Build`, `resolveHostedSpace`, `checkStoreWithProof` |
| `Operate`, `LockRecord`, `SaveRecord` | a successful operation, `rememberSpace`, `storeEntry` |
| `SpaceStart`, `Pick`, `Create`, `SetDefaultFrom`, `SelectHosted`, `LockDefaults`, `SaveDefaults` | the space command, `SetDefault`, `storeDefault`, `editDefaults` |
| `Relogin`, `Expire`, `SetClock`, `NewerBuild`, `Crash` | the environment |

### Hosted

`source` is `mintedTokens`, `minting` its channel of one, `call[c]` a request
under way with its attempt number, `late` the writes whose caller gave up.
The gateway's answers are those of `gatewaytest`, the repository's own
implementation of the protocol.

| Actions | Code |
| --- | --- |
| `Begin`, `CheckServer`, `Return` | the store's methods, `CheckAccess` |
| `Token`, `Acquire`, `Mint`, `MintFailed`, `MintRefused`, `GiveUp` | `mintedTokens.Token`, `mint`, `bind` |
| `Accept`, `Answered`, `Unauthorized` | `do`, `send`, `statusError`, `ListObjects`, `DeleteObjects` |
| `Serve`, `Busy`, `Lose`, `Land` | the gateway and the network |
| `Clock`, `Expire`, `RevokeKey`, `Rename` | time, the account, the space's owner |

### Server

`pc[c]` is where a tool call is, `mu`, `sem` and `flock` the three locks it
passes, `phase` the main goroutine.  A second process takes the file lock
from time to time and need not give it back.

| Actions | Code |
| --- | --- |
| `Arrive` to `Release` | `handler.pull`, `handler.commit`, `Service.open`, `Workspace.Open`, `acquire`, `applyLocked`, `Recover` |
| `Cancel`, `Disconnect`, `Signal` | request cancellation, the transport, the signal |
| `Drained`, `Deadline`, `CloseService`, `CloseWorkspace`, `CloseEngine`, `Exit` | `serve`, `Runtime.Close`, `Service.Close`, `Workspace.Close` |

## Runs

Bounds are small sets (two writers, processes, commands or calls, which is what
a race needs; three tool calls) and caps named `Max...`.

| Run | Bounds | Shows |
| --- | --- | --- |
| `commit_races` | 2 writers, hosted store, retry limit 1, checkpoint at 1 pack, one retained generation, 2 ids before the last commit starts, failing private state | `TypeOK`, `BaselineAccepted`, `ImplementsLog`, `LostMeansAnotherWon`, `CallsReturn` |
| `checkpoint_cleanup` | 2 writers, retry limit 0, nothing retained, 3 ids, one late request, resent writes | `ReferencedPacksExist`, `StaleReadMoved`, `OKMeansAccepted`, `ProposalsEncode`, `ChainIsHistory`, `NewRootsAboveCutoff` |
| `shared_private_state` | 2 processes, 1 path, 2 contents, 2 generations, 2 faults of any kind: crashes, failed file operations, damaged record, unopenable repository, lost objects | `TrustedMeansWhole`, `BaselineFollowsR`, `CallsEnd` |
| `prefetch` | 5 packs, 3 workers | `InOrder`, `LowestInFlight`, `EveryoneLeaves` |
| `encryption` | 2 machines (an owner, a writer who changes doors), 1 passphrase and the recovery codes, 3 random draws, 3 writes of `current` | `RootsReadable`, `SecretsOpen` (`DoorsGiveTheKey` and `RecordWasAccepted`), `NothingLost` |
| `signin` | 2 servers, a login, a logout, 2 accounts, 2 sites of one endpoint, 2 device codes, 3 commands, 1 fault, lost answers to revocations | `KeysAccounted` (`NoKeyOrphaned` and `StoredKeyNotRevoked`), `OneLoginPerEndpoint`, `ReplacedWithConsent`, `PageIsPolled` |
| `targets` | 2 commands at once, 2 directories, 2 names, 1 hosted endpoint, 2 prefixes (one empty), 2 S3 endpoints of the environment or none, at most two settings per invocation, 1 outside event | `RememberedNotebook`, `StoreWasProbed`, `DefaultsReachable`, `RecordsKept` (`WritesAreLocal` and `RecordStable`) |
| `hosted` | 2 calls at once, 3 calls, 2 spaces, 2 attempts, 2 delete batches, 2 faults | `OneSpace`, `AnswersAreTrue` (`AbsentIsTrue`, `LostRaceIsReal` and `DenialIsReal`), `MintsAreNeeded`, `CallsReturn` |
| `guard` | 6 paths (a name that is file and directory, one that differs in case, an unrelated pair), 5 policies, 2 edits, 2 publications of others | `CommitsWithinPolicy` (`ProtectedUntouched`, `NoBlockPublished` and `NoNewFoldedPair`), `PullsKeepWork` (`LocalWorkKept` and `PullFollowsRemote`), `RefusalResets` |
| `server` | 3 calls, the other process twice | `OneWriter`, `ShutdownInOrder` (`NativeNeedsEngine` and `CutOnlyByDeadline`), `TornIsFlagged`, `EverythingEnds` (`SignalEnds` and `CallsEnd`) |

Why these bounds: two ids let one writer publish the first checkpoint while
the other is still reading (a first commit draws two), three add an increment,
its checkpoint and a competing one.  One late request is enough for a write to
land after its lookup or a delete after the next publication.  Two faults
reach a crash inside the recovery from a crash, and a crash or a failed save
while a lost repository is rebuilt.  Two generations let a
conflict be pulled and then committed.  `TrustedMeansWhole` speaks of each path
by itself and paths are rewritten in any order, so one path shows what can go
wrong; the theorem has any number.  `prefetch` has more packs than workers
by two, so a worker is reused while others hold later packs.  Three draws let
a notebook be converted and then committed to or rekeyed; the second machine
needs one.  Two device codes let two logins of different people meet in the
file.  In `targets` one event is a login replaced, an expiry, a clock set or a
newer build, between any two steps of both commands.  Three calls of the HTTP
store are the startup check and two that overlap.  Two edits and two
publications turn a file into a directory on each side.

A property with parts in parentheses is their conjunction; each part has its own
comment in the module and its own mutant in `PROJECT.json`.  `TypeOK` is a
property of `Publication`, where its proof needs a strengthening; in the other
modules it documents the variables and is a part of the invariant that is
proved.

Deadlock is checked in the runs of `Publication`, `Workspace`, `Encryption` and
`Guard`; the others end when their bounded commands, calls or downloads are
done.

### Findings

Two runs end in a violation.  Each checks one property that states what the
repository says of itself and that the code does not keep (`findings` in
`PROJECT.json` has the quotations).

* `directory_replaced` (`EveryShapeApplies`): a pull whose target has a file
  where L has a directory with files ends in `RECOVERY_FAILURE` although nothing
  failed, because the files of the cleared directory are removed a second time.
* `rebuild_interrupted` (`BaselineHeld`): a private repository that does not open
  is recreated first and the recovery requirement saved afterwards
  (`workspace.go:244`).  A failed save or a crash in between leaves a record that
  asks for nothing over an empty repository that opens.  What survives is that
  the record names something R accepted (`BaselineFollowsR`) and that L is whole
  (`TrustedMeansWhole`).

### Observations

Behaviours the models have that no passing run excludes, each reached by TLC or
by reading while modelling:

* The AWS client resends an applied conditional write and gets 412 for its own
  effect, which `publish` takes for a lost race (`PublishResent`);
  `architecture/storage.md` calls such a timeout ambiguous.
  `LostMeansAnotherWon` therefore holds of the hosted store only;
  `checkpoint_cleanup` shows what still holds with resends.
* After a first `Open` that was interrupted, or with an undecodable record, the
  record in memory has version 0 and `persistState` refuses it, so the
  recovery cannot complete (`workspace.go:260`).
* A commit that scans while objects of the baseline are missing pins no ignored
  path (`scan.go:117`), imports the objects and then takes the unpinned paths
  for deleted: it publishes the deletion.  `Scan` and `Merge` have this; no
  property is stated of ignored paths, and the runs have none.
* A repair after an accepted publication that cannot read R leaves P unmarked
  (`remote.go:581`).
* An absent `current` is taken for the empty notebook whatever baseline is
  recorded; a crash between `Materialize` and `MarkPulled` makes the next pull
  of an edited directory a refused first pull.
* A commit seals `current` afresh (`writeCurrent`) and so drops a door of a type
  this build does not know; `Rewrap`, of which `architecture/encryption.md`
  speaks, keeps it.
* A command that names nothing does not always reach the notebook its directory
  remembers.  An empty recorded prefix, which `--prefix=` gives, reads as none
  recorded (`storage.go:541`); an empty recorded endpoint, which stands for the
  provider's default, passes no load option, so `AWS_ENDPOINT_URL_S3` of the later
  environment decides (`storage.go:500`), although `space.go:1370` calls every
  recorded field a value.  `targets` reaches both; `RememberedNotebook` promises
  the exact notebook where the record is complete.  The generic
  `AWS_ENDPOINT_URL` and an endpoint in the profile are not modelled.
* Where read-only entries name a directory and writable ones a path inside it,
  a text conflict can arise below the protected directory.  A clean merge that
  joins `d` and `D` as two files is refused as an engine failure until one is
  renamed.  A local file in the place of a directory with protected files makes
  the reset invalid, and nothing is reset.

### Fairness

`CallsReturn` (`Publication`) and `CallsEnd` (`Workspace`) assume weak fairness
of the steps of a call under way (`Work(w)`, `Step(p)`), `EveryoneLeaves` of
the pipeline's goroutines (`Run`), `CallsReturn` of `Hosted` that some call
that can go on does (`Steps`), `SignalEnds` and `CallsEnd` of `Server` of the
shutdown and of each call.  The Go scheduler runs every goroutine, and every
request and file operation ends by itself or by its context.  Nothing is
assumed of the user, of other writers, of late requests or of cancellation;
that the other process gives the lock back is a premise of the one property
that needs it (`CallsEnd` of `Server`).

## Proofs

Every theorem holds for every value of the constants that the named
assumptions of the modules allow: any set of writers, processes, machines,
commands, calls or callers, any number of paths, packs, draws, faults and late
requests.
The assumptions are natural bounds, a positive checkpoint threshold and batch
size, at least one pack and one worker, names that are no values (`NoSecret`,
`Nobody`, `Main`, ...), processes that are distinct (a server is no login
and no logout), and first files and logins of `Targets` that are well typed and
whose defaults were reachable when they were stored.  Each inductive invariant was checked by
TLC on small instances before it was proved.

| Theorem | States | Invariant it rests on |
| --- | --- | --- |
| `TypeCorrect` | `TypeOK` of `Publication` | `TypeOK` with `Shape` |
| `PacksSafe`, `StaleReads`, `RootsAboveCutoff` | `ReferencedPacksExist`, `StaleReadMoved`, `NewRootsAboveCutoff` | `PackInv` |
| `BaselinesAccepted`, `CommitsAccepted`, `ChainKept`, `LostProposals` | `BaselineAccepted`, `OKMeansAccepted`, `ChainIsHistory`, `LostMeansAnotherWon` (without resends) | `HistInv` with `PackInv` |
| `LogImplemented` | `ImplementsLog`: `Publication` implements `NotebookLog` | `HistInv` with `PackInv` |
| `ProposalsAlwaysEncode` | `ProposalsEncode` | `EncodeInv` with `PackInv` |
| `ImportOrder`, `InFlightIsLowest` | `InOrder`, `LowestInFlight` | in `PrefetchProofs` |
| `TrustedIsWhole`, `BaselinesFollow` | `TrustedMeansWhole`, `BaselineFollowsR` | `WorkspaceInv` |
| `PacksReadable`, `NobodyLockedOut`, `PublicationsKept` | `RootsReadable`, `SecretsOpen`, `NothingLost` | `EncryptionInv` |
| `KeysAlwaysAccounted`, `OneLoginAlways`, `AlwaysReplacedWithConsent`, `PageAlwaysPolled` | `KeysAccounted`, `OneLoginPerEndpoint`, `ReplacedWithConsent`, `PageIsPolled` | `SignInInv` |
| `StoresProbed`, `DefaultsStayReachable`, `RecordsStayKept` | `StoreWasProbed`, `DefaultsReachable`, `RecordsKept` | `TargetsInv` |
| `NotebooksRemembered` | `RememberedNotebook` | `TargetsInv` with `RememberInv` |
| `OneSpaceServes`, `AnswersHold`, `MintsWhenNeeded` | `OneSpace`, `AnswersAreTrue`, `MintsAreNeeded` | `HostedInv` |
| `OneWriterAtATime`, `ShutdownOrder`, `TornDirectoryFlagged` | `OneWriter`, `ShutdownInOrder`, `TornIsFlagged` | `ServerInv` |

### Publication

`TypeOK` is not inductive: a checkpoint effort reads the last element of a
prefix, and a compaction the last increment, so the strengthening `Shape`
records which steps guarantee a long enough tail (the threshold test in
`attemptPublication`, `prefixPresent`).  The lemmas on the manifest rewrites
come first in `PublicationProofs`; `TypeStep` has one lemma per group of
actions.

That no referenced pack is deleted depends on what every writer may still
publish.  `PackInv` (`PublicationInv`) says it:

- a proposal and a write in flight *follow* the manifest they were built on:
  they add one root, above that manifest's cutoff (`Follows`, proved of every
  rewrite);
- an observation of the accepted generation is the accepted manifest, so a
  write that lands does follow `current`;
- a pack that may still become referenced is in the store, or its generation
  is at or below the cutoff, where it can no longer be accepted (`Backed`);
- ids are drawn once, so no two writers claim one key (`RequestApart`);
- what a cleanup is about to delete, and what a delete in flight names, is
  unreferenced and either at or below the cutoff or claimed by nobody
  (`Retired`, `Dead`).

The parts are stated over values, not variables, so that one lemma
(`JobAdopts`, `JobKept`) covers what a step of one writer does to the jobs of
all the others.  Every action is then one of four kinds (`QuietStep`,
`AdoptStep`, `SendStep`, `DeleteStep`) and only its own job is left to show.

`HistInv` (`PublicationHistory`) adds the history of accepted heads to it.  A
manifest on its way to `current` either adds one head that nothing else
carries (`Adds`) or folds the oldest heads of the chain it was built on into a
checkpoint (`Keeps`), and it lands only on that chain, so the accepted chain
stays the end of the history (`EndsIn`).  A job in doubt about its proposal
(`Doubtful`) knows that a request in flight with its head is its own, and that
once it is accepted the recorded baseline is behind it; that is what makes the
answer of a lookup right and lets the baseline move forward.
`LostMeansAnotherWon` fails when the client resends (see the observations), so
`LostProposals` has the premise `~SDKRetries`; no other theorem about
`Publication` has a premise.

The refinement maps `accepted` to the log, a baseline to its place in it and an
accepted proposal still to be recorded to what its writer owes
(`PublicationLog`).  Adopting a manifest whose head is new is `Publish`,
recording it a move of the place, and every other step leaves all three alone.

`EncodeInv` (`PublicationEncode`) says of every manifest a writer holds or has
in flight that it is valid and that its chain ends at or below its generation
(`Encodable`), so that the next increment or checkpoint still fits.  What a
rewrite adds must also be new to the manifest it rewrites: a publication ID is
drawn for its proposal and so is not in the observation; the id of an uploaded
checkpoint may be there, when a resent write was accepted and taken for lost,
but then as the checkpoint at the planned cutoff (`Planning`), and a manifest
that still starts with the planned prefix has every cutoff below that.  The
lemmas `IncrementEncodable`, `CompactingEncodable` and `CompactEncodable` show
each rewrite valid under these conditions, the last one by finding every
descriptor of the new manifest but one at a place of its own in the old one
(`FoldedPlace`).  The proof does not use that the actions send only what
`ValidManifest` accepts.

### Prefetch

The inductive invariant adds to the type that indexes in flight are handed out
and held by one worker each, that until the context ends everything handed out
and not taken is in flight, and that the importer has exactly what precedes
the index it wants.

### Workspace

`WorkspaceInv` ties the record on disk to the one in memory of the process
that holds the lock: that process's flag is never ahead of the durable one, it
rewrites L only under the durable flag (`HolderOK`), and what `persistState` is
about to write is true of L or asks for a recovery (`PendOK`).  A trusted
record therefore stands over a whole directory wherever a crash falls, the
rename of the record included.

`TrustedIsWhole` and `BaselinesFollow` have no premise: they hold under any
number of faults of every kind, a repository that is lost and rebuilt again and
again among them.  What a record says of the repository itself does not
(`rebuild_interrupted`), and nothing is proved of it.

### Encryption

A machine acts on what it read some steps ago.  `EncryptionInv` says what is
left of it:

- a job's view is `current` as long as the ETag is (`Observed`), and then the
  mode, key and doors its client cached are those of `current` (`ClientOK`);
- the pack of a proposal that may still be accepted is stored (`PackOK`): a
  cleanup deletes only generations up to its cutoff, which `current` has
  reached, and a proposal's pack is above that (`AcceptOK`, `CleanupOK`);
- every door a command is going to write gives the key it writes it for, and
  one opens to the secret it will record (`DoorSet`, `RootOK`);
- a publication ID not yet sent is drawn, belongs to one job and is not in
  `current` (`Unsent`, `Claims`, `Disjoint`), so a lookup that finds it proves
  the acceptance.

`StillStep` and `StoreStep` show once what a step does to the other machines;
each action is an instance of one of them.

### SignIn

`SignInInv` follows each key from the site to the place it ends in:

- a key is in one place (`KeyOK`): with the login that received it, in the
  file, with the login that replaced it and has yet to revoke it, or nowhere,
  and then somebody was told or the process died; a key that left the file
  does not return, so what a logout is revoking stays what it read, and a
  stored key that is dead is one a logout revoked, whether or not it learned so
  (`half`);
- the file changes only under `credentials.lock`, so what an editor loaded is
  still the file when it writes (`Access`);
- a default on its way to the file is one the account of its key reaches
  (`InReach`): the account of a key never changes and what it reaches only
  grows;
- the recorded page is the one the holder of `signin.lock` polls, or that of a
  process that died (`PageOK`).

### Targets

The lemmas on the pure operators come first in `TargetsProofs`: what is read of
a settings file is a good set of records and defaults, and writing it back and
reading it again is the identity (`LoadGood`, `LoadEncode`); a write of one
record or of the defaults leaves the rest (`PutLocal`, `DefaultsSaved`); and
what resolving a target gives, branch by branch (`S3Resolves`, `LoginType`,
`HostedResolves`, `Resolves`).  `TargetsInv` says of the commands:

- the file changes only under `settings.lock`, so the snapshot an editor took
  is still the file when it writes (`SnapOK`); a newer build takes that lock
  too;
- every record is a target some operation in that directory proved, and a
  command about to record found none there (`SetOK`, `Recording`);
- a backend that was built from a login is of the stored login's account as
  long as the key is the stored one, since keys only grow (`BackendOK`), which
  makes `storeDefault`'s comparison of keys under the lock enough;
- a recorded proof is of a probe that succeeded, and a process past its check
  has a probe that was young by the clock it read (`Checked`).

`RememberedNotebook` compares every field as a value, an empty one too
(`SameNotebook`), where the record is complete, that is where neither its
prefix nor, for S3, its endpoint is empty; otherwise it promises the backend,
the name and the profile (`FollowsRecord`).  `RememberInv` says of a command
that named nothing that what it resolved, or is about to, follows the record
it saw, and that an operation there proved this record.
The type of the model speaks of strings through the constant `Texts`,
which stands for what a field of the settings may hold.

### Hosted

`HostedInv` relates the token source to every token that is held, sent or in a
write that may still land: while the process is bound to a space they are all
of that space (`OneOf`).  Per call it counts refusals against the single
replay `send` makes and knows for a conditional write that it was applied at
most once; a write that may still land belongs to a call that returned a
transport error (`LateInv`).

### Server

`ServerInv` states for each lock who holds it, by the place of the call
(`Holders`), what the shutdown has taken down in each phase (`Phases`), and that
whoever may rewrite L left the durable flag before (`Flags`).

### Only model-checked

- Liveness (`CallsReturn`, `CallsEnd`, `EveryoneLeaves`, `EverythingEnds`):
  fairness and `ENABLED` are beyond the prover.
- `Guard`.  Its operators are pure functions over finite trees, where the runs
  try every case of the instance.

## Plan

Every safety property and action property of the passing runs is proved except those of
`Guard`.  What would come next are lemmas about the pure operators of
`PathPolicy` and `Merge`, and the parts listed as partly modelled.

### Not modelled

The ciphers and key derivation, libgit2, the bytes of the codecs, terminal
input and output, the parsing of flags that take no part in choosing a store,
status and outline (they change nothing), error wording and waiting times, and
the npm launcher: none of them has state that interleaves with the rest.
Multipart upload and the probe's single requests are taken as one outcome.
Left out of the modelled parts: sign-in on first use while the server shuts
down, native calls inside the server's own recovery, the region of an S3 target,
and region and build version as parts of a recorded proof.
The test harnesses are not modelled, except the gateway and the account site
that stand for the services the client talks to.
