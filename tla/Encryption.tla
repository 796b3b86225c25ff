----------------------------- MODULE Encryption -----------------------------
(***************************************************************************)
(* Encryption of one notebook: the store decorator the clients read and    *)
(* write through, and the `encrypt` commands that convert, rekey and       *)
(* rewrite the doors of the same stored objects underneath it.             *)
(*                                                                         *)
(* Ciphertext is modelled by the key it was sealed with: an envelope opens *)
(* under exactly that key, and a door gives its key to exactly its secret. *)
(* Every random draw (notebook key, recovery code, publication ID) takes   *)
(* the next number of one counter.  What a merge makes of the text is left *)
(* to other modules; `pubs` tells only which publications a tree contains. *)
(***************************************************************************)
EXTENDS Naturals, FiniteSets

CONSTANTS
  Procs,       \* machines: a workspace, a key record and a running client each
  Pass,        \* passphrases people choose
  Commands,    \* per machine: what its user runs
  Env,         \* per machine: SLIVINGDOC_PASSPHRASE, or NoSecret
  NoSecret,
  RetryLimit,  \* --commit-retries
  MaxFresh,    \* bound on random draws
  MaxVer       \* bound on accepted writes of current

ASSUME EncryptionAssumption ==
  /\ NoSecret \notin Pass
  /\ Commands \in [Procs -> SUBSET {"pull", "commit", "init", "rekey", "passwd", "recovery"}]
  /\ Env \in [Procs -> Pass \cup {NoSecret}]
  /\ {RetryLimit, MaxFresh, MaxVer} \subseteq Nat

VARIABLES
  current,   \* the stored object; ver is its ETag, 0 while it does not exist
  packs,     \* stored packs
  baseline,  \* per machine, durable: generation and contents P records
  pulled,    \* per machine, durable: the pulled marker
  record,    \* per machine, durable: the passphrase of the key record
  cand,      \* the client's candidate secrets
  ring,      \* the client keyring's notebook key, Plain while locked
  mode,      \* the decorator's cached mode
  cached,    \* the decorator's cached doors
  job,       \* the operation under way
  fresh,     \* random draws so far
  opened     \* history: secrets that opened an accepted current

vars == <<current, packs, baseline, pulled, record, cand, ring, mode, cached, job,
          fresh, opened>>
clientVars == <<cand, ring, mode, cached>>
durable == <<baseline, pulled, record>>

Plain == 0    \* the key of an object that is not encrypted

Absent == [ver |-> 0, gen |-> 0, key |-> Plain, doors |-> {},
           roots |-> {}, pubs |-> {}]

Door(kind, secret, key) == [kind |-> kind, secret |-> secret, key |-> key]

Idle == [pc |-> "idle", op |-> "none", obs |-> Absent, key |-> Plain, doors |-> {},
         secret |-> NoSecret, open |-> Plain, id |-> 0, attempt |-> 0, cutoff |-> 0,
         doomed |-> {}]

Keys == 0 .. MaxFresh
Secrets == Pass \cup 1 .. MaxFresh \cup {NoSecret}
Doors == [kind : {"passphrase", "recovery"}, secret : Secrets, key : Nat]
PackObjects == [gen : Nat, id : Nat, key : Nat]
Currents == [ver : Nat, gen : Nat, key : Nat, doors : SUBSET Doors,
             roots : SUBSET PackObjects, pubs : SUBSET Nat]

Pcs == {"idle", "read", "load", "upload", "cas", "lookup", "rootread", "rootupload",
        "rootcas", "rootlookup", "accept", "list", "roots", "delete", "doorread",
        "doorcas", "report"}

Jobs == [pc : Pcs, op : {"none", "pull", "commit", "init", "rekey", "doors", "failed"},
         obs : Currents, key : Nat, doors : SUBSET Doors, secret : Secrets, open : Nat,
         id : Nat, attempt : Nat, cutoff : Nat, doomed : SUBSET PackObjects]

TypeOK ==
  /\ current \in Currents
  /\ packs \subseteq PackObjects
  /\ baseline \in [Procs -> [gen : Nat, pubs : SUBSET Nat]]
  /\ pulled \in [Procs -> BOOLEAN]
  /\ record \in [Procs -> Secrets]
  /\ cand \in [Procs -> SUBSET Secrets]
  /\ ring \in [Procs -> Nat]
  /\ mode \in [Procs -> {"unresolved", "plaintext", "encrypted"}]
  /\ cached \in [Procs -> SUBSET Doors]
  /\ job \in [Procs -> Jobs]
  /\ fresh \in 0 .. MaxFresh
  /\ opened \subseteq Secrets

Init ==
  /\ current = Absent
  /\ packs = {}
  /\ baseline = [p \in Procs |-> [gen |-> 0, pubs |-> {}]]
  /\ pulled = [p \in Procs |-> FALSE]
  /\ record = [p \in Procs |-> NoSecret]
  /\ cand = [p \in Procs |-> {Env[p]} \ {NoSecret}]
  /\ ring = [p \in Procs |-> Plain]
  /\ mode = [p \in Procs |-> "unresolved"]
  /\ cached = [p \in Procs |-> {}]
  /\ job = [p \in Procs |-> Idle]
  /\ fresh = 0
  /\ opened = {}

-----------------------------------------------------------------------------
(* Keyrings and envelopes.                                                  *)

\* Resolve: the environment value and the key record, else one prompted secret.
Resolve(p) == {Env[p], record[p]} \ {NoSecret}
Prompted == {{s} : s \in Pass \cup {d.secret : d \in current.doors}}
Candidates(p) == IF Resolve(p) # {} THEN {Resolve(p)} ELSE Prompted

\* resolve: a keyring that holds a key keeps it, another one takes the key of
\* any door a candidate opens.
Unwrapped(secrets, doors) == {d.key : d \in {e \in doors : e.secret \in secrets}}
ResolveKey(key, secrets, doors) ==
  IF key # Plain THEN {key} ELSE Unwrapped(secrets, doors)

\* Open authenticates the header commitment and the payload under the key.
Opens(key, obj) == obj.key = key

\* replaceDoor: every door of the kind gives way to the new ones.
ReplaceDoor(doors, kind, add) == {d \in doors : d.kind # kind} \cup add

\* Rewrap keeps the payload, the extensions and the doors of unknown types.
Rewrap(c, doors) == [c EXCEPT !.doors = doors]

NewRootDoors(secret, code, key) ==
  {Door("passphrase", secret, key), Door("recovery", code, key)}

-----------------------------------------------------------------------------
(* The stored object.                                                       *)

Become(p, j) == job' = [job EXCEPT ![p] = j]

\* A conditional write against the ETag of obs is applied.
Store(c) ==
  /\ current' = [c EXCEPT !.ver = current.ver + 1]
  /\ opened' = opened \cup {d.secret : d \in c.doors}

Matches(obs) == current.ver = obs.ver /\ current.ver < MaxVer

\* No answer: the write was applied or it was not.
MaybeStore(obs, c) ==
  \/ Matches(obs) /\ Store(c)
  \/ UNCHANGED <<current, opened>>

\* What is left of a command that only has to report.
Reported(j) == [Idle EXCEPT !.pc = "report", !.op = j.op, !.secret = j.secret]

SetBaseline(p, c) == baseline' = [baseline EXCEPT ![p] = [gen |-> c.gen, pubs |-> c.pubs]]

Draw(n) == fresh + n <= MaxFresh /\ fresh' = fresh + n

-----------------------------------------------------------------------------
(* A client: pull and commit through the decorator.                         *)

StartClient(p, op) ==
  /\ job[p].pc = "idle"
  /\ op \in Commands[p]
  /\ op = "commit" => pulled[p]
  /\ Become(p, [Idle EXCEPT !.pc = "read", !.op = op, !.attempt = 1])
  /\ UNCHANGED <<current, packs, durable, clientVars, fresh, opened>>

\* AskForSecret: a client with no candidate asks once it sees an envelope.
AskForSecret(p, s) ==
  /\ job[p].pc = "read"
  /\ cand[p] = {} /\ current.key # Plain
  /\ cand' = [cand EXCEPT ![p] = {s}]
  /\ UNCHANGED <<current, packs, durable, ring, mode, cached, job, fresh, opened>>

CacheMode(p, m, doors) ==
  /\ mode' = [mode EXCEPT ![p] = m]
  /\ cached' = [cached EXCEPT ![p] = doors]

\* A key that does not open current is the envelopeError refusal.
Refused(p) ==
  /\ Become(p, Idle)
  /\ UNCHANGED <<mode, cached>>

\* readCurrent: every read of a present current refreshes the cached mode.
ReadCurrent(p) ==
  /\ job[p].pc = "read"
  /\ \/ /\ current.ver = 0
        /\ Become(p, [job[p] EXCEPT !.pc = "load", !.obs = current])
        /\ UNCHANGED <<ring, mode, cached>>
     \/ /\ current.ver # 0 /\ current.key = Plain
        /\ CacheMode(p, "plaintext", {})
        /\ Become(p, [job[p] EXCEPT !.pc = "load", !.obs = current])
        /\ UNCHANGED ring
     \/ /\ current.key # Plain
        /\ ResolveKey(ring[p], cand[p], current.doors) = {}
        /\ Refused(p)
        /\ UNCHANGED ring
     \/ /\ current.key # Plain
        /\ \E k \in ResolveKey(ring[p], cand[p], current.doors) :
             /\ ring' = [ring EXCEPT ![p] = k]
             /\ IF Opens(k, current)
                THEN /\ CacheMode(p, "encrypted", current.doors)
                     /\ Become(p, [job[p] EXCEPT !.pc = "load", !.obs = current])
                ELSE Refused(p)
  /\ UNCHANGED <<current, packs, durable, cand, fresh, opened>>

\* The packs of the observed manifest, opened by the cached mode.  A pack that
\* is gone or does not open ends the operation.
Loads(p, c) ==
  \A r \in c.roots : r \in packs /\ r.key = IF mode[p] = "encrypted" THEN ring[p] ELSE Plain

ClientLoad(p) ==
  /\ job[p].pc = "load"
  /\ \/ /\ ~Loads(p, job[p].obs)
        /\ Become(p, Idle)
        /\ UNCHANGED <<baseline, pulled>>
     \/ /\ Loads(p, job[p].obs) /\ job[p].op = "pull"
        /\ SetBaseline(p, job[p].obs)
        /\ pulled' = [pulled EXCEPT ![p] = TRUE]
        /\ Become(p, Idle)
     \/ /\ Loads(p, job[p].obs) /\ job[p].op = "commit"
        /\ Become(p, [job[p] EXCEPT !.pc = "upload"])
        /\ UNCHANGED <<baseline, pulled>>
  /\ UNCHANGED <<current, packs, record, clientVars, fresh, opened>>

\* ensureMode: nothing is cached yet, so PutObject reads current itself.  (Its
\* shortcut for a keyring that already holds a key serves no client: a client
\* unlocks only in a read that caches the mode as well.)
EnsureMode(p) ==
  /\ job[p].pc = "upload" /\ mode[p] = "unresolved"
  /\ \/ /\ current.key = Plain
        /\ CacheMode(p, "plaintext", {})
        /\ UNCHANGED <<ring, job>>
     \/ /\ current.key # Plain /\ Unwrapped(cand[p], current.doors) = {}
        /\ Refused(p)
        /\ UNCHANGED ring
     \/ /\ \E k \in Unwrapped(cand[p], current.doors) : ring' = [ring EXCEPT ![p] = k]
        /\ CacheMode(p, "encrypted", current.doors)
        /\ UNCHANGED job
  /\ UNCHANGED <<current, packs, durable, cand, fresh, opened>>

SealKey(p) == IF mode[p] = "encrypted" THEN ring[p] ELSE Plain

ClientUpload(p) ==
  /\ job[p].pc = "upload" /\ mode[p] # "unresolved"
  /\ Draw(1)
  /\ packs' = packs \cup {[gen |-> job[p].obs.gen + 1, id |-> fresh + 1, key |-> SealKey(p)]}
  /\ Become(p, [job[p] EXCEPT !.pc = "cas", !.id = fresh + 1])
  /\ UNCHANGED <<current, durable, clientVars, opened>>

\* writeCurrent: a fresh envelope around the manifest, with the doors of the
\* current opened last; Seal knows no extension and no unknown door.
ClientNext(p) ==
  LET obs == job[p].obs IN
  [ver |-> obs.ver, gen |-> obs.gen + 1, key |-> SealKey(p), doors |-> cached[p],
   roots |-> obs.roots \cup {[gen |-> obs.gen + 1, id |-> job[p].id, key |-> SealKey(p)]},
   pubs |-> obs.pubs \cup {job[p].id}]

NoDoorSet(p) == mode[p] = "encrypted" /\ cached[p] = {}

ClientAccepted(p) ==
  /\ job[p].pc = "cas" /\ ~NoDoorSet(p)
  /\ Matches(job[p].obs)
  /\ Store(ClientNext(p))
  /\ SetBaseline(p, ClientNext(p))
  /\ Become(p, Idle)
  /\ UNCHANGED <<packs, pulled, record, clientVars, fresh>>

\* errCASLost: read again within the retry limit, or REMOTE_BUSY.
Retry(j, pc) ==
  IF j.attempt > RetryLimit THEN Idle
  ELSE [j EXCEPT !.pc = pc, !.attempt = j.attempt + 1, !.obs = Absent, !.id = 0]

ClientLost(p) ==
  /\ job[p].pc = "cas" /\ ~NoDoorSet(p)
  /\ current.ver # job[p].obs.ver
  /\ Become(p, Retry(job[p], "read"))
  /\ UNCHANGED <<current, packs, durable, clientVars, fresh, opened>>

\* An applied write without an answer; lookupPublication is ClientLookup.
ClientUnanswered(p) ==
  /\ job[p].pc = "cas" /\ ~NoDoorSet(p)
  /\ MaybeStore(job[p].obs, ClientNext(p))
  /\ Become(p, [job[p] EXCEPT !.pc = "lookup"])
  /\ UNCHANGED <<packs, durable, clientVars, fresh>>

Published(c, id) == \E r \in c.roots : r.id = id

\* The lookup reads current through the decorator too, so it refreshes the
\* mode; a current it cannot open proves nothing.
ClientLookup(p) ==
  /\ job[p].pc = "lookup"
  /\ IF current.key # Plain /\ ResolveKey(ring[p], cand[p], current.doors) = {current.key}
     THEN CacheMode(p, "encrypted", current.doors) /\ ring' = [ring EXCEPT ![p] = current.key]
     ELSE IF current.ver # 0 /\ current.key = Plain
     THEN CacheMode(p, "plaintext", {}) /\ UNCHANGED ring
     ELSE UNCHANGED <<mode, cached, ring>>
  /\ IF Published(current, job[p].id) /\ (current.key # Plain => ring'[p] = current.key)
     THEN SetBaseline(p, [gen |-> job[p].obs.gen + 1, pubs |-> job[p].obs.pubs \cup {job[p].id}])
     ELSE UNCHANGED baseline
  /\ Become(p, Idle)
  /\ UNCHANGED <<current, packs, pulled, record, cand, fresh, opened>>

-----------------------------------------------------------------------------
(* encrypt init and encrypt rekey: publishRoot.                             *)

\* encryptInit: refuse an encrypted notebook, choose the secret, draw the key
\* and the recovery code.  checkRecordConflict is decided with the record.
StartInit(p) ==
  /\ job[p].pc = "idle"
  /\ "init" \in Commands[p]
  /\ current.key = Plain
  /\ \E s \in IF Resolve(p) # {} THEN Resolve(p) ELSE Pass :
       /\ Draw(1)
       /\ Become(p, [Idle EXCEPT !.pc = "rootread", !.op = "init", !.attempt = 1,
                                 !.secret = s, !.key = fresh + 1,
                                 !.doors = NewRootDoors(s, fresh + 1, fresh + 1)])
  /\ UNCHANGED <<current, packs, durable, clientVars, opened>>

\* The command's own keyring opened current in EncryptStatus: secret s, key k.
StatusOpens(p, s, k) ==
  /\ \E cs \in Candidates(p) : s \in cs
  /\ \E d \in current.doors : d.secret = s /\ d.key = k
  /\ Opens(k, current)

\* encryptRekey: keep the unlocking secret or choose a new one.
StartRekey(p) ==
  /\ job[p].pc = "idle"
  /\ "rekey" \in Commands[p]
  /\ \E k \in Keys, s \in Secrets, t \in Secrets \ {NoSecret} :
       /\ StatusOpens(p, s, k)
       /\ t \in Pass \cup {s}
       /\ Draw(1)
       /\ Become(p, [Idle EXCEPT !.pc = "rootread", !.op = "rekey", !.attempt = 1,
                                 !.secret = t, !.key = fresh + 1, !.open = k,
                                 !.doors = NewRootDoors(t, fresh + 1, fresh + 1)])
  /\ UNCHANGED <<current, packs, durable, clientVars, opened>>

\* rootRemote for init: the plaintext state, read as a commit reads it.
InitRemote(p) ==
  /\ current.key = Plain
  /\ current.ver # 0 => pulled[p]
  /\ \A r \in current.roots : r \in packs /\ r.key = Plain

MutantRekeyRemote(p) == current.key # Plain /\ Opens(job[p].open, current)

\* encryptedRemote: the open key still opens current, which is the baseline.
RekeyRemote(p) ==
  /\ current.key # Plain
  /\ Opens(job[p].open, current)
  /\ current.gen = baseline[p].gen /\ current.pubs = baseline[p].pubs

RootRemote(p) == IF job[p].op = "init" THEN InitRemote(p) ELSE RekeyRemote(p)

RootRead(p) ==
  /\ job[p].pc = "rootread"
  /\ \/ /\ ~RootRemote(p)
        /\ Become(p, Idle)
        /\ UNCHANGED baseline
     \/ /\ RootRemote(p)
        /\ Become(p, [job[p] EXCEPT !.pc = "rootupload", !.obs = current])
        /\ UNCHANGED baseline
     \/ /\ RootRemote(p)           \* a conflict: markers are materialized
        /\ SetBaseline(p, current)
        /\ Become(p, Idle)
  /\ UNCHANGED <<current, packs, pulled, record, clientVars, fresh, opened>>

RootPack(j) == [gen |-> j.obs.gen + 1, id |-> j.id, key |-> j.key]

\* What the new root contains: init imported the accepted state, rekey has its
\* own baseline.
RootPubs(p) == (IF job[p].op = "init" THEN job[p].obs.pubs ELSE baseline[p].pubs) \cup {job[p].id}

RootNext(p) ==
  LET j == job[p] IN
  [ver |-> j.obs.ver, gen |-> j.obs.gen + 1, key |-> j.key, doors |-> j.doors,
   roots |-> {RootPack(j)}, pubs |-> RootPubs(p)]

\* buildRootProposal and uploadEncrypted.  The first attempt's publication ID
\* shares the number of the key, a later one is drawn anew.
RootUpload(p) ==
  LET id == IF job[p].attempt = 1 THEN job[p].key ELSE fresh + 1 IN
  /\ job[p].pc = "rootupload"
  /\ Draw(IF job[p].attempt = 1 THEN 0 ELSE 1)
  /\ packs' = packs \cup {RootPack([job[p] EXCEPT !.id = id])}
  /\ Become(p, [job[p] EXCEPT !.pc = "rootcas", !.id = id])
  /\ UNCHANGED <<current, durable, clientVars, opened>>

RootAccepted(p) ==
  /\ job[p].pc = "rootcas"
  /\ Matches(job[p].obs)
  /\ Store(RootNext(p))
  /\ Become(p, [job[p] EXCEPT !.pc = "accept"])
  /\ UNCHANGED <<packs, durable, clientVars, fresh>>

RootLost(p) ==
  /\ job[p].pc = "rootcas"
  /\ current.ver # job[p].obs.ver
  /\ Become(p, Retry(job[p], "rootread"))
  /\ UNCHANGED <<current, packs, durable, clientVars, fresh, opened>>

RootUnanswered(p) ==
  /\ job[p].pc = "rootcas"
  /\ MaybeStore(job[p].obs, RootNext(p))
  /\ Become(p, [job[p] EXCEPT !.pc = "rootlookup"])
  /\ UNCHANGED <<packs, durable, clientVars, fresh>>

\* lookupPublication with the sealing key; PUBLICATION_UNPROVEN otherwise.
RootLookup(p) ==
  /\ job[p].pc = "rootlookup"
  /\ Become(p, IF Opens(job[p].key, current) /\ Published(current, job[p].id)
               THEN [job[p] EXCEPT !.pc = "accept"] ELSE Idle)
  /\ UNCHANGED <<current, packs, durable, clientVars, fresh, opened>>

\* Accept and MarkPulled, or their failure; the cleanup follows either.
RootAccept(p) ==
  /\ job[p].pc = "accept"
  /\ \E ok \in BOOLEAN :
       /\ IF ok THEN /\ SetBaseline(p, RootNext(p))
                     /\ pulled' = [pulled EXCEPT ![p] = TRUE]
                ELSE UNCHANGED <<baseline, pulled>>
       /\ Become(p, [job[p] EXCEPT !.pc = "list", !.op = IF ok THEN @ ELSE "failed",
                                   !.cutoff = job[p].obs.gen + 1, !.obs = Absent,
                                   !.doors = {}, !.id = 0])
  /\ UNCHANGED <<current, packs, record, clientVars, fresh, opened>>

\* cleanupPacks with cleanupCurrent's roots: one batch stands for all.
CleanupList(p) ==
  /\ job[p].pc = "list"
  /\ Become(p, [job[p] EXCEPT !.pc = "roots",
                              !.doomed = {k \in packs : k.gen <= job[p].cutoff}])
  /\ UNCHANGED <<current, packs, durable, clientVars, fresh, opened>>

MutantSpared == {}

Spared == current.roots

CleanupRoots(p) ==
  /\ job[p].pc = "roots"
  /\ Become(p, IF current.key = Plain \/ Opens(job[p].key, current)
               THEN [job[p] EXCEPT !.pc = "delete", !.doomed = @ \ Spared]
               ELSE Reported(job[p]))
  /\ UNCHANGED <<current, packs, durable, clientVars, fresh, opened>>

CleanupDelete(p) ==
  /\ job[p].pc = "delete"
  /\ \E gone \in {job[p].doomed, {}} : packs' = packs \ gone
  /\ Become(p, Reported(job[p]))
  /\ UNCHANGED <<current, durable, clientVars, fresh, opened>>

-----------------------------------------------------------------------------
(* encrypt passwd and encrypt recovery: EncryptDoors.                       *)

\* encryptPasswd and encryptRecovery: the door set is computed from the status
\* read, before the workspace lock and the retry loop.  An empty set is refused.
StartDoors(p, k, secret, doors) ==
  /\ job[p].pc = "idle"
  /\ Draw(1)                  \* the code, or the salt of a new passphrase door
  /\ \E s \in Secrets : StatusOpens(p, s, k)
  /\ doors # {}
  /\ Become(p, [Idle EXCEPT !.pc = "doorread", !.op = "doors", !.attempt = 1,
                            !.key = k, !.secret = secret, !.doors = doors])
  /\ UNCHANGED <<current, packs, durable, clientVars, opened>>

StartPasswd(p) ==
  /\ "passwd" \in Commands[p]
  /\ \E k \in Keys, s \in Pass \cup {NoSecret} :
       StartDoors(p, k, s, ReplaceDoor(current.doors, "passphrase",
                             {Door("passphrase", t, k) : t \in {s} \ {NoSecret}}))

StartRecovery(p) ==
  /\ "recovery" \in Commands[p]
  /\ \E k \in Keys :
       StartDoors(p, k, NoSecret, ReplaceDoor(current.doors, "recovery",
                                    {Door("recovery", fresh + 1, k)}))

MutantDoorsOpenable(p) == current.key # Plain

\* Open under the command's key, then Rewrap of the same envelope.
DoorsOpenable(p) == current.key # Plain /\ Opens(job[p].key, current)

DoorsRead(p) ==
  /\ job[p].pc = "doorread"
  /\ Become(p, IF DoorsOpenable(p)
               THEN [job[p] EXCEPT !.pc = "doorcas", !.obs = current] ELSE Idle)
  /\ UNCHANGED <<current, packs, durable, clientVars, fresh, opened>>

DoorsAccepted(p) ==
  /\ job[p].pc = "doorcas"
  /\ Matches(job[p].obs)
  /\ Store(Rewrap(job[p].obs, job[p].doors))
  /\ Become(p, Reported(job[p]))
  /\ UNCHANGED <<packs, durable, clientVars, fresh>>

DoorsLost(p) ==
  /\ job[p].pc = "doorcas"
  /\ current.ver # job[p].obs.ver
  /\ Become(p, Retry(job[p], "doorread"))
  /\ UNCHANGED <<current, packs, durable, clientVars, fresh, opened>>

\* MANIFEST_WRITE without a lookup: the door set may have changed.
DoorsUnanswered(p) ==
  /\ job[p].pc = "doorcas"
  /\ MaybeStore(job[p].obs, Rewrap(job[p].obs, job[p].doors))
  /\ Become(p, Idle)
  /\ UNCHANGED <<packs, durable, clientVars, fresh>>

-----------------------------------------------------------------------------
(* The end of a command: the key record, then the report.                   *)

MutantMayRecord(p) == job[p].pc \in {"rootread", "doorread", "report"}

\* recordWarnings: store, forget or leave the record, or fail with a warning;
\* init has nothing to forget.
MayRecord(p) == job[p].pc = "report" /\ job[p].op # "failed"

RecordChange(p) ==
  /\ MayRecord(p)
  /\ \E s \in {job[p].secret, NoSecret} :
       /\ s = NoSecret => job[p].op # "init"
       /\ record' = [record EXCEPT ![p] = s]
  /\ Become(p, Idle)
  /\ UNCHANGED <<current, packs, baseline, pulled, clientVars, fresh, opened>>

\* The operation ends: reported, refused, cancelled, or dead.
End(p) ==
  /\ job[p].pc # "idle"
  /\ Become(p, Idle)
  /\ UNCHANGED <<current, packs, durable, clientVars, fresh, opened>>

\* The client is started again: the keyring resolves its candidates anew.
Restart(p) ==
  /\ job[p].pc = "idle" /\ mode[p] # "unresolved"
  /\ cand' = [cand EXCEPT ![p] = Resolve(p)]
  /\ ring' = [ring EXCEPT ![p] = Plain]
  /\ CacheMode(p, "unresolved", {})
  /\ UNCHANGED <<current, packs, durable, job, fresh, opened>>

-----------------------------------------------------------------------------
Client(p) ==
  \/ \E op \in {"pull", "commit"} : StartClient(p, op)
  \/ \E s \in Pass : AskForSecret(p, s)
  \/ ReadCurrent(p) \/ ClientLoad(p) \/ EnsureMode(p) \/ ClientUpload(p)
  \/ ClientAccepted(p) \/ ClientLost(p) \/ ClientUnanswered(p) \/ ClientLookup(p)

Root(p) ==
  \/ StartInit(p) \/ StartRekey(p) \/ RootRead(p) \/ RootUpload(p)
  \/ RootAccepted(p) \/ RootLost(p) \/ RootUnanswered(p) \/ RootLookup(p)
  \/ RootAccept(p) \/ CleanupList(p) \/ CleanupRoots(p) \/ CleanupDelete(p)

DoorChange(p) ==
  \/ StartPasswd(p) \/ StartRecovery(p) \/ DoorsRead(p) \/ DoorsAccepted(p) \/ DoorsLost(p)
  \/ DoorsUnanswered(p)

Next ==
  \/ \E p \in Procs : Client(p) \/ Root(p) \/ DoorChange(p) \/ RecordChange(p)
                      \/ End(p) \/ Restart(p)

Spec == Init /\ [][Next]_vars

-----------------------------------------------------------------------------
(* Properties.                                                              *)

\* Every pack current references is stored and opens the way current does: a
\* conversion or a rekey that races writers, lost answers and its own cleanup
\* never leaves a root in the old mode, under the old key, or deleted, and no
\* writer whose mode was cached before the conversion writes plaintext over it
\* (publishRoot, cleanupCurrent, readCurrent's refresh, writeCurrent).
RootsReadable == \A r \in current.roots : r \in packs /\ r.key = current.key

\* An encrypted current can always be opened: it has a door, and each of its
\* doors gives the key it is sealed with, although commits seal with cached
\* doors and passwd writes doors computed before a rekey (writeCurrent, Rewrap).
DoorsGiveTheKey ==
  current.key # Plain => current.doors # {} /\ \A d \in current.doors : d.key = current.key

\* No accepted publication leaves the notebook: init merges what others
\* published before it and rekey refuses a baseline that is behind
\* (rootRemote, encryptedRemote).
NothingLost == [][current.pubs \subseteq current'.pubs]_current

\* The key record never gets ahead of the store: a stored passphrase opened
\* an accepted current, whatever crashes, refusals and lost answers came
\* between (applyRecordChange runs after acceptance).
RecordWasAccepted == \A p \in Procs : record[p] \in opened \cup {NoSecret}

\* Nobody is locked out by a change of doors or of the key: every door of
\* current gives its key, and the passphrase a machine keeps has opened an
\* accepted current (EncryptDoors, publishRoot, applyRecordChange).
SecretsOpen == DoorsGiveTheKey /\ RecordWasAccepted
=============================================================================
