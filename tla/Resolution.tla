----------------------------- MODULE Resolution -----------------------------
(***************************************************************************)
(* Which store a process uses (src/internal/app/storage.go, config.go):    *)
(* the flags and variables of one invocation, the settings view of its     *)
(* directory and the stored logins are resolved into one target, or into a *)
(* refusal.  An invocation is a record of what the flags (Unset when not   *)
(* given) and the environment (Empty when not set) say.                    *)
(*                                                                         *)
(* Of the three S3 identity fields the model keeps endpoint and profile;   *)
(* the region resolves by the same rule.  Of the notebook command's other  *)
(* settings none takes part in choosing the store.                         *)
(***************************************************************************)
EXTENDS Settings

DefaultPrefix == "slivingdoc"
DefaultHostedEndpoint == "hosted-default"

Bare == [storage |-> "auto", bucket |-> Unset, space |-> Unset, bucketEnv |-> Empty,
         spaceEnv |-> Empty, endpoint |-> Unset, endpointEnv |-> Empty, prefix |-> Unset,
         prefixEnv |-> Empty, profile |-> Unset, profileEnv |-> Empty, awsEndpoint |-> Empty,
         pathStyle |-> Unset, pathStyleEnv |-> Empty, signal |-> FALSE, token |-> FALSE]

\* A flag wins even when it is explicitly empty.
ResolveString(flag, env, default) ==
    IF flag # Unset THEN flag ELSE IF env # Empty THEN env ELSE default

\* resolveBool, over "yes" and "no".
ResolveBool(flag, env, default) ==
    LET named == ResolveString(flag, env, Empty)
    IN  IF named = Empty THEN default ELSE named = "yes"

Explicit(i) == ResolveString(i.endpoint, i.endpointEnv, Empty)

\* --bucket and --space are one setting: both given must agree.
FlagSpace(i) ==
    IF i.bucket # Unset /\ i.space # Unset /\ i.bucket # i.space THEN
            [name |-> Empty, from |-> "conflict"]
    ELSE IF i.space \notin {Unset, Empty} THEN [name |-> i.space, from |-> "space"]
    ELSE IF i.bucket \notin {Unset, Empty} THEN [name |-> i.bucket, from |-> "bucket"]
    ELSE IF i.bucket # Unset \/ i.space # Unset THEN [name |-> Empty, from |-> "cleared"]
    ELSE [name |-> Empty, from |-> "none"]

\* The flags win over the variables; "cleared" does not fall back to them.
ResolveBucket(i) ==
    LET flag == FlagSpace(i) IN
    IF flag.from = "cleared" THEN [name |-> Empty, from |-> "none"]
    ELSE IF flag.from # "none" THEN flag
    ELSE IF i.bucketEnv # Empty /\ i.spaceEnv # Empty /\ i.bucketEnv # i.spaceEnv THEN
            [name |-> Empty, from |-> "conflict"]
    ELSE IF i.spaceEnv # Empty THEN [name |-> i.spaceEnv, from |-> "space"]
    ELSE IF i.bucketEnv # Empty THEN [name |-> i.bucketEnv, from |-> "bucket"]
    ELSE flag

\* What configures S3 on purpose: AWS variables and files (signal), and the S3 flags.
S3Signals(i) ==
    \/ i.signal \/ i.profileEnv # Empty \/ i.awsEndpoint # Empty \/ i.pathStyleEnv # Empty
    \/ i.profile # Unset \/ i.pathStyle # Unset

-----------------------------------------------------------------------------
(* logins maps each endpoint to its stored login, or to NoLogin.           *)
NoLogin == [key |-> 0, account |-> 0, usable |-> FALSE, write |-> FALSE]
Stored(logins) == {e \in DOMAIN logins : logins[e] # NoLogin}

\* The explicit endpoint's login, else the only one.
PickLogin(logins, explicit) ==
    CASE explicit # Empty -> IF explicit \in Stored(logins) THEN {explicit} ELSE {}
      [] OTHER -> Stored(logins)

Refusal == [kind |-> "refused", login |-> Empty]
LoginFor(logins, explicit) ==
    LET picked == PickLogin(logins, explicit) IN
    IF Cardinality(picked) = 1
    THEN [kind |-> "hosted", login |-> CHOOSE e \in picked : TRUE]
    ELSE Refusal

\* The backend alone: settings, then the directory's record, then the S3
\* default, then a stored login, else S3.
SelectKind(i, named, view, logins) ==
    LET s3 == [kind |-> "s3", login |-> Empty] IN
    IF i.storage = "s3" THEN s3
    ELSE IF i.token THEN [kind |-> "hosted", login |-> Empty]
    ELSE IF i.storage = "hosted" THEN LoginFor(logins, Explicit(i))
    ELSE IF named.from = "bucket" /\ S3Signals(i) THEN s3
    ELSE IF view.record.kind = "s3" THEN s3
    ELSE IF view.record.kind = "hosted" THEN LoginFor(logins, Explicit(i))
    ELSE IF view.default # NoTarget THEN s3
    ELSE IF PickLogin(logins, Explicit(i)) = {} THEN s3
    ELSE LoginFor(logins, Explicit(i))

-----------------------------------------------------------------------------
(* The fields of the selected target.                                      *)
Refused == [kind |-> "refused", name |-> Empty, from |-> "none", prefix |-> Empty,
            endpoint |-> Empty, profile |-> Empty, pathStyle |-> FALSE, login |-> Empty]

\* The mutated form forgets that a record's prefix belongs to the record's store.
MutantTargetPrefix(i, record, default) ==
    IF i.prefix # Unset \/ i.prefixEnv # Empty
    THEN ResolveString(i.prefix, i.prefixEnv, Empty)
    ELSE IF default.prefix # Empty THEN default.prefix
    ELSE IF record.prefix # Empty THEN record.prefix
    ELSE DefaultPrefix

\* The prefix; record and default are NoTarget unless they name this very store.
TargetPrefix(i, record, default) ==
    IF i.prefix # Unset \/ i.prefixEnv # Empty
    THEN ResolveString(i.prefix, i.prefixEnv, Empty)
    ELSE IF record.prefix # Empty THEN record.prefix
    ELSE IF default.prefix # Empty THEN default.prefix
    ELSE DefaultPrefix

\* A named prefix that contradicts the record is refused.
PrefixMismatch(i, record) ==
    /\ i.prefix # Unset \/ i.prefixEnv # Empty
    /\ record.prefix \notin {Empty, ResolveString(i.prefix, i.prefixEnv, Empty)}

ResolveToken(i, named) ==
    [Refused EXCEPT !.kind = "hosted", !.name = named.name, !.from = named.from,
                    !.prefix = TargetPrefix(i, NoTarget, NoTarget),
                    !.endpoint = IF Explicit(i) = Empty THEN DefaultHostedEndpoint ELSE Explicit(i)]

\* The name of a hosted selection: the setting, the record, the login's default.
HostedName(named, view, deflt) ==
    IF named.name # Empty THEN named
    ELSE IF view.record.kind = "hosted" THEN [name |-> view.record.name, from |-> "remembered"]
    ELSE [name |-> deflt, from |-> IF deflt = Empty THEN "none" ELSE "login"]

ResolveHostedTarget(i, named, view, logins, spaces, e) ==
    LET n == HostedName(named, view, spaces[e])
        record == IF view.record.kind = "hosted" /\ view.record.name = n.name
                  THEN view.record ELSE NoTarget
    IN  IF \/ n.name = Empty \/ ~logins[e].usable \/ PrefixMismatch(i, record)
           \/ i.storage = "auto" /\ n.from \in {"bucket", "space"} /\ S3Signals(i)
        THEN Refused
        ELSE [Refused EXCEPT !.kind = "hosted", !.name = n.name, !.from = n.from,
                             !.prefix = TargetPrefix(i, record, NoTarget),
                             !.endpoint = e, !.login = e]

\* A flag, else the record, else the default, else the ambient configuration.
FieldOf(flag, record, default, field, ambient) ==
    IF flag # Unset THEN flag
    ELSE IF record # NoTarget THEN record[field]
    ELSE IF default # NoTarget THEN default[field]
    ELSE ambient

S3Name(named, record, default) ==
    IF named.name # Empty THEN named
    ELSE IF record # NoTarget THEN [name |-> record.name, from |-> "remembered"]
    ELSE IF default # NoTarget THEN [name |-> default.name, from |-> "default"]
    ELSE named

ResolveS3Target(i, named, view) ==
    LET record == IF view.record.kind = "s3" THEN view.record ELSE NoTarget
        default == view.default
        n == S3Name(named, record, default)
        same(t) == IF t.name = n.name THEN t ELSE NoTarget
    IN  IF \/ named.from = "space" /\ (record # NoTarget \/ default # NoTarget)
           \/ PrefixMismatch(i, same(record))
           \/ n.name = Empty
        THEN Refused
        ELSE [Refused EXCEPT
                 !.kind = "s3", !.name = n.name, !.from = n.from,
                 !.prefix = TargetPrefix(i, same(record), same(default)),
                 !.endpoint = FieldOf(i.endpoint, record, default, "endpoint", i.awsEndpoint),
                 !.profile = FieldOf(i.profile, record, default, "profile", i.profileEnv),
                 !.pathStyle = ResolveBool(i.pathStyle, i.pathStyleEnv,
                                   FieldOf(Unset, record, default, "pathStyle", FALSE))]

\* resolveStorage and finish: the whole resolution of one invocation.  A stored
\* login of any endpoint is read only when neither S3 nor a token was chosen.
ResolveStorage(i, view, logins, spaces) ==
    LET named == ResolveBucket(i)
        pick == SelectKind(i, named, view, logins)
    IN  IF named.from = "conflict" THEN Refused
        ELSE IF pick.kind = "refused" THEN Refused
        ELSE IF pick.kind = "s3" THEN ResolveS3Target(i, named, view)
        ELSE IF pick.login = Empty THEN ResolveToken(i, named)
        ELSE ResolveHostedTarget(i, named, view, logins, spaces, pick.login)

\* The values the built S3 store reports: an empty endpoint is what the SDK found,
\* and a base endpoint forces path style.
WithStoreResolution(i, cfg) ==
    IF cfg.kind # "s3" THEN cfg
    ELSE LET endpoint == IF cfg.endpoint = Empty THEN i.awsEndpoint ELSE cfg.endpoint
         IN  [cfg EXCEPT !.endpoint = endpoint, !.pathStyle = @ \/ endpoint # Empty]

\* The target in the shape the settings store it: a hosted one names no endpoint.
TargetOf(cfg) ==
    IF cfg.kind = "hosted" THEN HostedTarget(cfg.name, cfg.prefix)
    ELSE S3Target(cfg.endpoint, cfg.profile, cfg.name, cfg.prefix, cfg.pathStyle)
=============================================================================
