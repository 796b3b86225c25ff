------------------------------- MODULE Targets ------------------------------
(***************************************************************************)
(* The commands that choose, use and remember a store, running at once on  *)
(* one machine: pull, commit and serve processes that resolve the target   *)
(* of their directory, check the store and record what they proved         *)
(* (src/internal/app/app.go, association.go, probeproof.go), and the space *)
(* command that lists, creates and sets the default (app/space.go).  They  *)
(* share the settings file and its lock, the stored logins, and the store  *)
(* proofs of the pack cache.                                               *)
(***************************************************************************)
EXTENDS Resolution

CONSTANTS
    Commands,       \* processes that may run at once
    Dirs,           \* notebook directories
    NoDir,          \* the directory of a scratch server, which nothing remembers
    Texts,          \* what a field of the settings may hold
    Names,          \* names of spaces and buckets
    Endpoints,      \* hosted storage endpoints
    Accounts,       \* accounts a login may belong to
    Invocations,    \* flags and variables of a notebook command
    Listings,       \* flags and variables of a space command
    TokenSpace,     \* the space SLIVINGDOC_TOKEN reaches
    FirstFiles,     \* settings files the machine may start with
    FirstLogins,    \* stored logins and default spaces it may start with
    FirstStores,    \* the spaces and buckets that exist at first
    Nobody,         \* no process, as the holder of the lock
    TTL,            \* probeProofTTL
    MaxTime,        \* bound: the wall clock
    MaxRuns,        \* bound: commands that begin
    MaxEvents       \* bound: logins replaced, clocks set and newer builds

Account(a) == [account |-> a]     \* the hosted store of an account

-----------------------------------------------------------------------------
(* The values the modules above compute with.                              *)
SettingRecords ==
    [storage : {"auto", "s3", "hosted"}, bucket : Texts, space : Texts, bucketEnv : Texts,
     spaceEnv : Texts, endpoint : Texts, endpointEnv : Texts, prefix : Texts,
     prefixEnv : Texts, profile : Texts, profileEnv : Texts, awsEndpoint : Texts,
     pathStyle : {Unset, "yes", "no"}, pathStyleEnv : {Empty, "yes", "no"},
     signal : BOOLEAN, token : BOOLEAN]
TargetRecords ==
    [kind : {"none", "hosted", "s3"}, endpoint : Texts, profile : Texts, name : Texts,
     prefix : Texts, pathStyle : BOOLEAN]
Entries == [path : Dirs, target : TargetRecords]
Sets == [entries : Seq(Entries), defaults : Seq(TargetRecords)]
Files == [version : 0 .. 3, entries : Seq(Entries), defaults : Seq(TargetRecords)]
LoginRecords == [key : Nat, account : Accounts \cup {0}, usable : BOOLEAN, write : BOOLEAN]
ConfigRecords ==
    [kind : {"hosted", "s3"}, name : Texts,
     from : {"none", "bucket", "space", "remembered", "default", "login"},
     prefix : Texts, endpoint : Texts, profile : Texts, pathStyle : BOOLEAN,
     login : Endpoints \cup {Empty}]
BackendRecords ==
    [kind : {"hosted", "s3"}, endpoint : Texts, profile : Texts, key : Nat,
     account : Accounts \cup {0}, pathStyle : BOOLEAN, usable : BOOLEAN, write : BOOLEAN,
     current : BOOLEAN]

ASSUME TargetsAssumption ==
    /\ Names \cup Endpoints \cup {Empty, Unset, DefaultPrefix, DefaultHostedEndpoint} \subseteq Texts
    /\ Empty \notin Names \cup Endpoints \cup Dirs
    /\ TokenSpace \in Names /\ Nobody \notin Commands /\ NoDir \notin Dirs
    /\ Invocations \cup Listings \subseteq SettingRecords
    /\ FirstFiles \subseteq Files
    /\ \A f \in FirstFiles : \A n \in DOMAIN Load(f).set.defaults :
          LET t == Load(f).set.defaults[n] IN <<Key(t), t.name>> \in FirstStores
    /\ \A s \in FirstLogins :
          /\ s.logins \in [Endpoints -> LoginRecords]
          /\ s.spaces \in [Endpoints -> Names \cup {Empty}]
          /\ \A e \in Endpoints :
                s.spaces[e] # Empty => <<Account(s.logins[e].account), s.spaces[e]>> \in FirstStores
    /\ {TTL, MaxTime, MaxRuns, MaxEvents} \subseteq Nat

VARIABLES
    file,    \* the settings file
    lock,    \* the holder of workspaces.lock
    logins,  \* the stored login of each endpoint
    spaces,  \* the default space of each stored login
    have,    \* <<store, name>>: the spaces of accounts and the buckets of S3 identities
    proofs,  \* the recorded proofs, one per identity directory
    now,     \* the wall clock, which may be set
    cmd,     \* what each process is doing
    runs, events,
    proved,  \* <<directory, target>> of every operation that succeeded
    probes   \* every compatibility probe that succeeded, with its time

vars == <<file, lock, logins, spaces, have, proofs, now, cmd, runs, events, proved, probes>>
disk == <<file, lock>>
site == <<logins, spaces, have>>
checks == <<proofs, now, probes>>

Idle == [pc |-> "idle"]
Step(c, r) == cmd' = [cmd EXCEPT ![c] = r]
At(c, pc) == cmd[c].pc = pc
Goto(c, pc) == Step(c, [cmd[c] EXCEPT !.pc = pc])

\* No proof and no probe is recorded at first; the operations that recorded the
\* first entries succeeded.
Init ==
    /\ file \in FirstFiles /\ lock = Nobody
    /\ \E s \in FirstLogins : logins = s.logins /\ spaces = s.spaces
    /\ have = FirstStores
    /\ proofs = {} /\ now = 1
    /\ cmd = [c \in Commands |-> Idle]
    /\ runs = 0 /\ events = 0
    /\ proved = LET set == Load(file).set
                IN  {<<set.entries[n].path, set.entries[n].target>> : n \in DOMAIN set.entries}
    /\ probes = {}

-----------------------------------------------------------------------------
(* A notebook command.  The settings are read once; a scratch server reads *)
(* neither a record nor a default.                                         *)
EmptyView == [record |-> NoTarget, default |-> NoTarget]
View(d) ==
    IF d = NoDir THEN EmptyView
    ELSE [record |-> Lookup(Load(file).set, d), default |-> S3Default(Load(file).set)]

\* What the process keeps: its resolved configuration, the record it read, and
\* whether its flags and variables name nothing (bare).
Start(c) ==
    /\ At(c, "idle") /\ runs < MaxRuns /\ runs' = runs + 1
    /\ \E i \in Invocations, d \in Dirs \cup {NoDir} :
          LET cfg == WithStoreResolution(i, ResolveStorage(i, View(d), logins, spaces)) IN
          /\ d # NoDir => Load(file).ok
          /\ cfg.kind # "refused"
          /\ Step(c, [pc |-> IF cfg.kind = "s3" THEN "checking" ELSE "building",
                      dir |-> d, cfg |-> cfg, saw |-> View(d).record,
                      account |-> IF cfg.login = Empty THEN 0 ELSE logins[cfg.login].account,
                      token |-> i.token /\ cfg.kind = "hosted",
                      at |-> 0, snap |-> EmptySet,
                      bare |-> [i EXCEPT !.profileEnv = Empty, !.awsEndpoint = Empty,
                                         !.pathStyleEnv = Empty, !.signal = FALSE] = Bare])
    /\ UNCHANGED <<disk, site, checks, events, proved>>

\* A stored login mints its first token for the space it names, which the site
\* grants when the login's account reaches it; a token says which space it reaches.
BuildLogin(c) ==
    /\ At(c, "building") /\ cmd[c].cfg.login # Empty
    /\ \/ <<Account(cmd[c].account), cmd[c].cfg.name>> \in have /\ Goto(c, "checking")
       \/ Step(c, Idle)
    /\ UNCHANGED <<disk, site, checks, runs, events, proved>>

ResolveHostedSpace(c) ==
    /\ At(c, "building") /\ cmd[c].token
    /\ \/ /\ cmd[c].cfg.name \in {Empty, TokenSpace}
          /\ Step(c, [cmd[c] EXCEPT !.pc = "checking", !.cfg.name = TokenSpace])
       \/ cmd[c].cfg.name # Empty /\ Goto(c, "checking")     \* the lookup is not supported
       \/ Step(c, Idle)
    /\ UNCHANGED <<disk, site, checks, runs, events, proved>>

-----------------------------------------------------------------------------
(* The startup check: a fresh proof of this very store stands in for the   *)
(* probe.  The proof's directory is named by the identity, which leaves    *)
(* the addressing mode and the profile out.                                *)
Identity(cfg) == [endpoint |-> cfg.endpoint, name |-> cfg.name, prefix |-> cfg.prefix]
ProbedStore(cfg) == [id |-> Identity(cfg), pathStyle |-> cfg.pathStyle]

\* The mutated form does not see that the clock was set back.
MutantFresh(p, cfg) == p.store = ProbedStore(cfg) /\ now - p.at <= TTL

Fresh(p, cfg) == p.store = ProbedStore(cfg) /\ p.at <= now /\ now - p.at <= TTL

CheckedNow(c) == Step(c, [cmd[c] EXCEPT !.pc = "working", !.at = now])

ReuseProof(c) ==
    /\ At(c, "checking") /\ cmd[c].cfg.kind = "s3"
    /\ \E p \in proofs : Fresh(p, cmd[c].cfg)
    /\ CheckedNow(c)
    /\ UNCHANGED <<disk, site, checks, runs, events, proved>>

\* The probe succeeds and its proof is written, or cannot be; or it fails.
Probe(c) ==
    /\ At(c, "checking") /\ cmd[c].cfg.kind = "s3"
    /\ ~\E p \in proofs : Fresh(p, cmd[c].cfg)
    /\ LET p == [store |-> ProbedStore(cmd[c].cfg), at |-> now] IN
       \/ /\ CheckedNow(c) /\ probes' = probes \cup {p}
          /\ proofs' \in {proofs, {q \in proofs : q.store.id # p.store.id} \cup {p}}
       \/ Step(c, Idle) /\ UNCHANGED <<proofs, probes>>
    /\ UNCHANGED <<disk, site, now, runs, events, proved>>

CheckAccess(c) ==
    /\ At(c, "checking") /\ cmd[c].cfg.kind = "hosted"
    /\ CheckedNow(c) \/ Step(c, Idle)
    /\ UNCHANGED <<disk, site, checks, runs, events, proved>>

SetClock ==
    /\ events < MaxEvents /\ events' = events + 1
    /\ now' \in 0 .. MaxTime \ {now}
    /\ UNCHANGED <<disk, site, proofs, cmd, runs, proved, probes>>

-----------------------------------------------------------------------------
(* A successful pull or commit records the target it proved, where the     *)
(* directory remembers nothing and a setting named the target.             *)
MutantRecordEntry(c) ==
    /\ cmd[c].dir # NoDir /\ ~cmd[c].token
    /\ cmd[c].cfg.from \in {"bucket", "space"}

RecordEntry(c) ==
    /\ cmd[c].dir # NoDir /\ cmd[c].saw = NoTarget /\ ~cmd[c].token
    /\ cmd[c].cfg.from \in {"bucket", "space"}

Operate(c) ==
    /\ At(c, "working")
    /\ proved' = proved \cup {<<cmd[c].dir, TargetOf(cmd[c].cfg)>>}
    /\ Goto(c, IF RecordEntry(c) THEN "recording" ELSE "working")
    /\ UNCHANGED <<disk, site, checks, runs, events>>

\* The settings lock is exclusive, and the file is loaded under it.
MayLock == lock = Nobody

\* An entry that already says this is left alone; an unreadable file is a warning.
LockRecord(c) ==
    /\ At(c, "recording") /\ MayLock
    /\ LET read == Load(file) IN
       IF ~read.ok \/ Lookup(read.set, cmd[c].dir) = TargetOf(cmd[c].cfg)
       THEN Goto(c, "working") /\ UNCHANGED lock
       ELSE Step(c, [cmd[c] EXCEPT !.pc = "saving", !.snap = read.set]) /\ lock' = c
    /\ UNCHANGED <<file, site, checks, runs, events, proved>>

SaveRecord(c) ==
    /\ At(c, "saving") /\ lock' = Nobody
    /\ \/ file' = Encode(Put(cmd[c].snap, cmd[c].dir, TargetOf(cmd[c].cfg)))
       \/ UNCHANGED file
    /\ Step(c, [cmd[c] EXCEPT !.pc = "working", !.snap = EmptySet])
    /\ UNCHANGED <<site, checks, runs, events, proved>>

Exit(c) ==
    /\ At(c, "working") /\ Step(c, Idle)
    /\ UNCHANGED <<disk, site, checks, runs, events, proved>>

\* A process dies; the operating system releases its lock.
Crash(c) ==
    /\ ~At(c, "idle") /\ Step(c, Idle)
    /\ lock' = IF lock = c THEN Nobody ELSE lock
    /\ UNCHANGED <<file, site, checks, runs, events, proved>>

-----------------------------------------------------------------------------
(* The space command: which stored logins and which S3 identities it       *)
(* lists.  mine says that --endpoint is the endpoint of a stored login.    *)
HostedS3Flag(i) == i.profile # Unset \/ i.pathStyle # Unset \/ i.prefix # Unset
Mine(i) == i.storage # "s3" /\ Explicit(i) \in Stored(logins)

ChooseLogins(i) ==
    CASE i.storage = "s3" -> {}
      [] Mine(i) -> {Explicit(i)}
      [] OTHER -> Stored(logins)

S3EndpointSelected(i) == Explicit(i) # Empty /\ ~Mine(i)
S3EnvSelected(i) == i.profileEnv # Empty \/ i.awsEndpoint # Empty \/ i.pathStyleEnv # Empty
S3IdentityFlagSelected(i) ==
    i.profile # Unset \/ i.pathStyle # Unset \/ (i.endpoint # Unset /\ ~Mine(i))
S3FlagSelected(i) == S3IdentityFlagSelected(i) \/ i.prefix # Unset

S3CreateSelected(i) ==
    \/ i.storage = "s3"
    \/ i.storage = "auto" /\ (S3EndpointSelected(i) \/ S3EnvSelected(i) \/ S3FlagSelected(i))

\* A listing shows S3 also when the AWS files, a record or a default name it.
S3Selected(i, set) ==
    \/ S3CreateSelected(i)
    \/ i.storage = "auto" /\ (S3Signals(i) \/ RecordedS3Keys(set) # {})

Backend(kind, endpoint, profile) ==
    [kind |-> kind, endpoint |-> endpoint, profile |-> profile, key |-> 0, account |-> 0,
     pathStyle |-> FALSE, usable |-> TRUE, write |-> TRUE, current |-> FALSE]

HostedBackend(e) ==
    [Backend("hosted", e, Empty) EXCEPT !.key = logins[e].key, !.account = logins[e].account,
                                        !.usable = logins[e].usable, !.write = logins[e].write]

\* One S3 identity as the SDK resolves it.
S3Backend(i, key, pathStyle) ==
    LET endpoint == IF key.endpoint = Empty THEN i.awsEndpoint ELSE key.endpoint
    IN  [Backend("s3", endpoint, key.profile) EXCEPT !.pathStyle = pathStyle \/ endpoint # Empty]

\* The active default supplies the identity only where no flag or variable names one.
S3Current(i, set) ==
    LET named == [endpoint |-> IF Mine(i) THEN Empty ELSE Explicit(i),
                  profile |-> ResolveString(i.profile, i.profileEnv, Empty)]
        default == S3Default(set)
        useDefault == /\ ~S3IdentityFlagSelected(i) /\ ~S3EnvSelected(i)
                      /\ ~S3EndpointSelected(i) /\ default # NoTarget
    IN  [IF useDefault THEN S3Backend(i, Key(default), default.pathStyle)
                       ELSE S3Backend(i, named, ResolveBool(i.pathStyle, i.pathStyleEnv, FALSE))
         EXCEPT !.current = TRUE]

\* The groups of recorded identities other than the current one.
S3Groups(i, set) ==
    LET current == S3Current(i, set)
    IN  {current} \cup {b \in {S3Backend(i, k, FALSE) : k \in RecordedS3Keys(set)} :
                           Key(b) # Key(current)}

ListRefused(i, set) ==
    \/ i.storage = "hosted" /\ HostedS3Flag(i)
    \/ i.storage = "hosted" /\ ((Explicit(i) # Empty /\ ~Mine(i)) \/ Stored(logins) = {})
    \/ i.storage = "auto" /\ Mine(i) /\ HostedS3Flag(i)
    \/ ChooseLogins(i) = {} /\ ~S3Selected(i, set)
    \/ i.storage = "hosted" /\ \A e \in ChooseLogins(i) : ~logins[e].usable

ListBackends(i, set) ==
    {HostedBackend(e) : e \in ChooseLogins(i)}
    \cup (IF S3Selected(i, set) THEN S3Groups(i, set) ELSE {})

\* A create reads no settings and addresses exactly one store.
CreateRefused(i) ==
    \/ i.storage = "hosted" /\ HostedS3Flag(i)
    \/ i.storage = "hosted" /\ ((Explicit(i) # Empty /\ ~Mine(i)) \/ Stored(logins) = {})
    \/ i.storage = "auto" /\ Mine(i) /\ HostedS3Flag(i)
    \/ i.prefix # Unset
    \/ S3CreateSelected(i) /\ i.prefixEnv # Empty
    \/ /\ ~S3CreateSelected(i)
       /\ \/ Cardinality(ChooseLogins(i)) # 1
          \/ \E e \in ChooseLogins(i) : ~(logins[e].usable /\ logins[e].write)

CreateBackend(i) ==
    IF S3CreateSelected(i) THEN S3Current(i, EmptySet)
    ELSE HostedBackend(CHOOSE e \in ChooseLogins(i) : TRUE)

SpaceStart(c) ==
    /\ At(c, "idle") /\ runs < MaxRuns /\ runs' = runs + 1
    /\ \E i \in Listings, mode \in {"list", "set", "create"}, name \in Names :
          LET set == Load(file).set IN
          /\ mode = "create" => ~CreateRefused(i)
          /\ mode # "create" => Load(file).ok /\ ~ListRefused(i, set)
          /\ Step(c, [pc |-> "listing", mode |-> mode,
                      name |-> IF mode = "list" THEN Empty ELSE name,
                      prefix |-> ResolveString(i.prefix, i.prefixEnv, Empty),
                      groups |-> IF mode = "create" THEN {CreateBackend(i)}
                                                    ELSE ListBackends(i, set)])
    /\ UNCHANGED <<disk, site, checks, events, proved>>

-----------------------------------------------------------------------------
(* What a group lists, and the choice of one target among the groups.      *)
StoreOf(b) == IF b.kind = "hosted" THEN Account(b.account) ELSE Key(b)
Rows(b) == {n \in Names : <<StoreOf(b), n>> \in have}
Candidates(groups, name) == {b \in groups : name \in Rows(b)}

\* A listing that fails leaves its group without a reachable row.
Reachable(c) == {up \in SUBSET cmd[c].groups : \A b \in up : b.usable}

Chosen(c, b, name) ==
    Step(c, [pc |-> "selecting", backend |-> b, name |-> name, prefix |-> cmd[c].prefix,
             snap |-> EmptySet])

\* `space <name>`: exactly one reachable group lists it.
SetDefaultFrom(c) ==
    /\ At(c, "listing") /\ cmd[c].mode = "set"
    /\ \E up \in Reachable(c) :
          LET found == Candidates(up, cmd[c].name) IN
          IF Cardinality(found) = 1
          THEN Chosen(c, CHOOSE b \in found : TRUE, cmd[c].name)
          ELSE Step(c, Idle)
    /\ UNCHANGED <<disk, site, checks, runs, events, proved>>

\* The picker: a reachable row of any group, or nothing.
Pick(c) ==
    /\ At(c, "listing") /\ cmd[c].mode = "list"
    /\ \/ \E up \in Reachable(c) : \E b \in up : \E n \in Rows(b) : Chosen(c, b, n)
       \/ Step(c, Idle)
    /\ UNCHANGED <<disk, site, checks, runs, events, proved>>

\* Every S3 group creates through the current identity.
CreatesIn(c, b) ==
    IF b.kind = "s3" /\ \E d \in cmd[c].groups : d.current
    THEN CHOOSE d \in cmd[c].groups : d.current ELSE b

\* `space new` leaves the default alone; the picker's create row sets it.  The
\* site or the provider may refuse, and refuses a read login and a name that is taken.
Create(c) ==
    /\ At(c, "listing") /\ cmd[c].mode \in {"list", "create"}
    /\ \E b \in cmd[c].groups, n \in Names :
          LET store == CreatesIn(c, b) IN
          /\ cmd[c].mode = "create" => n = cmd[c].name
          /\ store.write /\ n \notin Rows(store)
          /\ have' = have \cup {<<StoreOf(store), n>>}
          /\ IF cmd[c].mode = "create" THEN Step(c, Idle) ELSE Chosen(c, store, n)
    /\ UNCHANGED <<disk, logins, spaces, checks, runs, events, proved>>

MutantMayStoreDefault(c) == cmd[c].backend.endpoint \in Stored(logins)

\* storeDefault: under the credentials lock, the login that listed the space is
\* still the one stored.
MayStoreDefault(c) == logins[cmd[c].backend.endpoint].key = cmd[c].backend.key

SelectHosted(c) ==
    /\ At(c, "selecting") /\ cmd[c].backend.kind = "hosted"
    /\ IF MayStoreDefault(c)
       THEN /\ spaces' = [spaces EXCEPT ![cmd[c].backend.endpoint] = cmd[c].name]
            /\ Goto(c, "clearing")
       ELSE Step(c, Idle) /\ UNCHANGED spaces
    /\ UNCHANGED <<disk, logins, have, checks, runs, events, proved>>

\* editDefaults loads under the settings lock.  A hosted selection clears the S3
\* default, and writes nothing where there is none.
LockDefaults(c) ==
    /\ \/ At(c, "selecting") /\ cmd[c].backend.kind = "s3"
       \/ At(c, "clearing")
    /\ MayLock
    /\ LET read == Load(file) IN
       IF ~read.ok \/ (At(c, "clearing") /\ read.set.defaults = <<>>)
       THEN Step(c, Idle) /\ UNCHANGED lock
       ELSE /\ Step(c, [cmd[c] EXCEPT !.pc = "editing", !.snap = read.set])
            /\ lock' = c
    /\ UNCHANGED <<file, site, checks, runs, events, proved>>

DefaultTarget(c) ==
    S3Target(cmd[c].backend.endpoint, cmd[c].backend.profile, cmd[c].name, cmd[c].prefix,
             cmd[c].backend.pathStyle)

SaveDefaults(c) ==
    /\ At(c, "editing") /\ lock' = Nobody
    /\ \/ file' = Encode(IF cmd[c].backend.kind = "s3" THEN PutDefault(cmd[c].snap, DefaultTarget(c))
                                                       ELSE ClearDefaults(cmd[c].snap))
       \/ UNCHANGED file
    /\ Step(c, Idle)
    /\ UNCHANGED <<site, checks, runs, events, proved>>

-----------------------------------------------------------------------------
(* Around them: a login is replaced, by the same account or another one,   *)
(* with a default of its own or none; it expires; a newer build rewrites   *)
(* the settings file.                                                      *)
Relogin(e) ==
    /\ events < MaxEvents /\ events' = events + 1
    /\ \E a \in Accounts :
          /\ logins' = [logins EXCEPT ![e] = [key |-> @.key + 1, account |-> a,
                                              usable |-> TRUE, write |-> TRUE]]
          /\ spaces' \in {[spaces EXCEPT ![e] = n] :
                             n \in {Empty} \cup {m \in Names : <<Account(a), m>> \in have}}
    /\ UNCHANGED <<disk, have, checks, cmd, runs, proved>>

Expire(e) ==
    /\ events < MaxEvents /\ events' = events + 1
    /\ logins[e].usable /\ logins' = [logins EXCEPT ![e].usable = FALSE]
    /\ UNCHANGED <<disk, spaces, have, checks, cmd, runs, proved>>

NewerBuild ==
    /\ events < MaxEvents /\ events' = events + 1
    /\ lock = Nobody /\ file' = [file EXCEPT !.version = 3]
    /\ UNCHANGED <<lock, site, checks, cmd, runs, proved>>

Next ==
    \/ \E c \in Commands :
          \/ Start(c) \/ BuildLogin(c) \/ ResolveHostedSpace(c)
          \/ ReuseProof(c) \/ Probe(c) \/ CheckAccess(c)
          \/ Operate(c) \/ LockRecord(c) \/ SaveRecord(c) \/ Exit(c) \/ Crash(c)
          \/ SpaceStart(c) \/ SetDefaultFrom(c) \/ Pick(c) \/ Create(c)
          \/ SelectHosted(c) \/ LockDefaults(c) \/ SaveDefaults(c)
    \/ \E e \in Endpoints : Relogin(e) \/ Expire(e)
    \/ SetClock \/ NewerBuild

Spec == Init /\ [][Next]_vars

-----------------------------------------------------------------------------
(* Properties.                                                             *)

\* A process of each kind: pull, commit and serve, the space command before and
\* after its choice.
NotebookRecords ==
    [pc : {"building", "checking", "working", "recording", "saving"}, dir : Dirs \cup {NoDir},
     cfg : ConfigRecords, saw : TargetRecords, account : Accounts \cup {0}, token : BOOLEAN,
     bare : BOOLEAN, at : Nat, snap : Sets]
ListingRecords ==
    [pc : {"listing"}, mode : {"list", "set", "create"}, name : Names \cup {Empty},
     prefix : Texts, groups : SUBSET BackendRecords]
ChoiceRecords ==
    [pc : {"selecting", "clearing", "editing"}, backend : BackendRecords, name : Names,
     prefix : Texts, snap : Sets]

\* The held lock and the holder agree, and the file is one this or a newer build
\* wrote.
TypeOK ==
    /\ file \in Files
    /\ lock \in Commands \cup {Nobody}
    /\ logins \in [Endpoints -> LoginRecords] /\ spaces \in [Endpoints -> Names \cup {Empty}]
    /\ now \in Nat /\ runs \in Nat /\ events \in Nat
    /\ cmd \in [Commands -> {Idle} \cup NotebookRecords \cup ListingRecords \cup ChoiceRecords]
    /\ \A c \in Commands : cmd[c].pc \in {"saving", "editing"} <=> lock = c

\* A resolved configuration and a recorded target name one notebook: every field
\* is a value, an empty one too.  A hosted target names no site and no account.
SameNotebook(cfg, t) ==
    /\ cfg.kind = t.kind /\ cfg.name = t.name /\ cfg.prefix = t.prefix
    /\ t.kind = "s3" => cfg.endpoint = t.endpoint /\ cfg.profile = t.profile

\* The record holds what the resolution would otherwise take from elsewhere: an
\* empty prefix reads as none recorded, and an empty endpoint is what the SDK finds.
Complete(t) == t.prefix # Empty /\ (t.kind = "s3" => t.endpoint # Empty)

\* The same backend, name and profile; where the record is complete, that notebook.
FollowsRecord(cfg, t) ==
    /\ cfg.kind = t.kind /\ cfg.name = t.name
    /\ t.kind = "s3" => cfg.profile = t.profile
    /\ Complete(t) => SameNotebook(cfg, t)

\* A command that runs in a directory with a record and names nothing itself.
Follows(c) ==
    /\ cmd[c].pc \in {"building", "checking", "working"}
    /\ cmd[c].bare /\ cmd[c].saw # NoTarget

\* rememberSpace and resolveStorage: a command that names nothing, in a directory
\* with a record, follows a record an earlier successful operation there left, to
\* the same backend, name and profile; where the record is complete, to exactly
\* that notebook, whatever the AWS environment, the default and the logins have
\* become since.  Otherwise it refuses.
RememberedNotebook ==
    \A c \in Commands :
        Follows(c) => /\ FollowsRecord(cmd[c].cfg, cmd[c].saw)
                      /\ <<cmd[c].dir, cmd[c].saw>> \in proved

\* recordEntry: a command that began in a directory with a record never changes
\* that record, in any number of operations and whatever its flags name.
RecordStable ==
    \A c \in Commands :
        At(c, "saving") /\ cmd[c].saw # NoTarget
            => Lookup(Load(file').set, cmd[c].dir) = Lookup(Load(file).set, cmd[c].dir)

\* storeEntry and editDefaults: a write changes one directory's entry or the
\* defaults, keeps everything else another process stored, and never touches a
\* file of a version this build does not read.
WritesAreLocal ==
    LET old == Load(file).set  new == Load(file').set IN
    file' # file /\ file'.version # 3 =>
        /\ file.version # 3 /\ file'.version = 2
        /\ \/ /\ new.defaults = old.defaults
              /\ Cardinality({d \in Dirs : Lookup(old, d) # Lookup(new, d)}) = 1
           \/ new.entries = old.entries

\* What the settings file keeps while commands write it at once: each write
\* its own part only, and no record of a directory a command saw recorded
\* (storeEntry, editDefaults, recordEntry).
RecordsKept == [][WritesAreLocal /\ RecordStable]_vars

\* checkStoreWithProof: a process that works on an S3 store has a successful probe
\* of that store, in that addressing mode, at most probeProofTTL old when it began.
StoreWasProbed ==
    \A c \in Commands :
        (At(c, "working") /\ cmd[c].cfg.kind = "s3") =>
            \E p \in probes : /\ p.store = ProbedStore(cmd[c].cfg)
                              /\ p.at <= cmd[c].at /\ cmd[c].at - p.at <= TTL

\* SetDefault: the stored defaults name targets their own identity reaches, though
\* logins are replaced while the spaces are listed.
DefaultsReachable ==
    /\ \A e \in Endpoints : spaces[e] # Empty => <<Account(logins[e].account), spaces[e]>> \in have
    /\ \A n \in DOMAIN Load(file).set.defaults :
          LET t == Load(file).set.defaults[n] IN <<Key(t), t.name>> \in have
=============================================================================
