---------------------------- MODULE TargetsProofs ----------------------------
(***************************************************************************)
(* Theorems about Targets, for any number of commands, directories,        *)
(* endpoints, names and settings: the record of a directory is the         *)
(* notebook an operation there proved and stays it, a process works only   *)
(* on a store that was probed, and stored defaults stay reachable.         *)
(***************************************************************************)
EXTENDS Targets, TLAPS, FiniteSetTheorems, SequenceTheorems

-----------------------------------------------------------------------------
(* The settings file.                                                      *)

\* An element of a sequence has the sequence's type (entries, defaults).
LEMMA ElementType ==
  ASSUME NEW S, NEW s \in Seq(S)
  PROVE  /\ Len(s) \in Nat /\ DOMAIN s = 1 .. Len(s)
         /\ \A i \in DOMAIN s : s[i] \in S
  OBVIOUS

\* A sequence whose elements are mapped is a sequence of the results (DecodeV1,
\* an entry replaced by Put).
LEMMA MapType ==
  ASSUME NEW S, NEW T, NEW s \in Seq(S), NEW f,
         f = [i \in DOMAIN s |-> f[i]],
         \A i \in DOMAIN s : f[i] \in T
  PROVE  f \in Seq(T) /\ Len(f) = Len(s)
<1>1. Len(s) \in Nat /\ DOMAIN s = 1 .. Len(s)
  BY ElementType
<1>2. f \in [1 .. Len(s) -> T]
  BY <1>1
<1> QED BY <1>1, <1>2

\* What the decoder accepts of a set.
GoodSet(set) ==
    /\ GoodEntries(set.entries)
    /\ \A n \in DOMAIN set.entries : GoodTarget(set.entries[n].target)
    /\ \A n \in DOMAIN set.defaults :
          GoodTarget(set.defaults[n]) /\ set.defaults[n].kind = "s3"

\* The strings the code itself writes.
LEMMA TextsOK ==
  /\ Empty \in Texts /\ Unset \in Texts /\ DefaultPrefix \in Texts
  /\ DefaultHostedEndpoint \in Texts /\ Names \subseteq Texts /\ Endpoints \subseteq Texts
  /\ Empty \notin Names /\ Empty \notin Endpoints /\ Empty \notin Dirs
  BY TargetsAssumption

\* The empty set is one.
LEMMA EmptyGood == EmptySet \in Sets /\ GoodSet(EmptySet)
<1>1. <<>> \in Seq(Entries) /\ <<>> \in Seq(TargetRecords) /\ DOMAIN <<>> = {}
  OBVIOUS
<1>2. EmptySet \in Sets
  BY <1>1 DEF EmptySet, Sets, Entries
<1>3. GoodSet(EmptySet)
  BY <1>1 DEF EmptySet, GoodSet, GoodEntries
<1> QED BY <1>2, <1>3

\* A target without an endpoint has the type of a target (HostedTarget).
LEMMA HostedType ==
  ASSUME NEW n \in Texts, NEW p \in Texts
  PROVE  /\ HostedTarget(n, p) \in TargetRecords
         /\ n # Empty => GoodTarget(HostedTarget(n, p))
         /\ HostedTarget(n, p) = [kind |-> "hosted", endpoint |-> Empty, profile |-> Empty,
                                  name |-> n, prefix |-> p, pathStyle |-> FALSE]
<1> DEFINE t == HostedTarget(n, p)
<1>1. t = [kind |-> "hosted", endpoint |-> Empty, profile |-> Empty,
           name |-> n, prefix |-> p, pathStyle |-> FALSE]
  BY DEF HostedTarget
<1> HIDE DEF t
<1>2. t \in TargetRecords
  BY <1>1, TextsOK DEF TargetRecords
<1>3. n # Empty => GoodTarget(t)
  BY <1>1 DEF GoodTarget
<1> QED BY <1>1, <1>2, <1>3 DEF t

LEMMA NoTargetType == NoTarget \in TargetRecords
  BY TextsOK DEF NoTarget, TargetRecords

\* DecodeV1 and DecodeV2: what is read is a good set, and what is refused is empty.
LEMMA LoadGood ==
  ASSUME NEW f \in Files
  PROVE  /\ Load(f).set \in Sets /\ GoodSet(Load(f).set)
         /\ Load(f).ok \in BOOLEAN
         /\ Load(f).ok => f.version # 3
         /\ ~Load(f).ok => Load(f).set = EmptySet
<1>0. /\ f.version \in 0 .. 3 /\ f.entries \in Seq(Entries) /\ f.defaults \in Seq(TargetRecords)
  BY DEF Files, Entries
<1>1. CASE Load(f) = Malformed
  BY <1>1, EmptyGood DEF Malformed
<1>2. CASE Load(f) = Read(EmptySet) /\ f = NoFile
  BY <1>2, EmptyGood DEF Read, NoFile
<1>3. CASE f.version = 1 /\ Load(f) = DecodeV1(f) /\ Load(f) # Malformed
  <2> DEFINE es == [n \in DOMAIN f.entries |->
                       [path |-> f.entries[n].path,
                        target |-> HostedTarget(f.entries[n].target.name,
                                                f.entries[n].target.prefix)]]
             set == [entries |-> es, defaults |-> <<>>]
  <2>1. GoodEntries(f.entries) /\ Load(f) = Read(set)
    BY <1>3 DEF DecodeV1
  <2>2. \A n \in DOMAIN f.entries :
           /\ f.entries[n] \in Entries /\ f.entries[n].path \in Dirs
           /\ f.entries[n].target.name \in Texts /\ f.entries[n].target.prefix \in Texts
           /\ f.entries[n].target.name # Empty
    <3>1. \A n \in DOMAIN f.entries : f.entries[n] \in Entries
      BY <1>0, ElementType
    <3>2. \A n \in DOMAIN f.entries :
             f.entries[n].path \in Dirs /\ f.entries[n].target \in TargetRecords
      BY <3>1 DEF Entries
    <3>3. \A n \in DOMAIN f.entries : f.entries[n].target.name # Empty
      <4>1. GoodEntries(f.entries)
        BY <2>1
      <4> QED BY <4>1, Zenon DEF GoodEntries
    <3> QED BY <3>1, <3>2, <3>3 DEF TargetRecords
  <2>3. \A n \in DOMAIN f.entries : /\ es[n].target \in TargetRecords /\ GoodTarget(es[n].target)
                                    /\ es[n].path = f.entries[n].path
                                    /\ es[n] \in Entries
                                    /\ es[n].target.name = f.entries[n].target.name
    <3> TAKE n \in DOMAIN f.entries
    <3> DEFINE t == HostedTarget(f.entries[n].target.name, f.entries[n].target.prefix)
    <3>1. /\ t \in TargetRecords /\ GoodTarget(t)
          /\ t.name = f.entries[n].target.name
      BY <2>2, HostedType
    <3> HIDE DEF t
    <3>2. es[n] = [path |-> f.entries[n].path, target |-> t] /\ f.entries[n].path \in Dirs
      BY <2>2 DEF t
    <3> HIDE DEF es
    <3> QED BY <3>1, <3>2 DEF Entries
  <2>4. es \in Seq(Entries)
    <3>1. es = [n \in DOMAIN f.entries |-> es[n]]
      OBVIOUS
    <3>2. \A n \in DOMAIN f.entries : es[n] \in Entries
      BY <2>3
    <3>3. f.entries \in Seq(Entries)
      BY <1>0
    <3> HIDE DEF es
    <3> QED BY <3>1, <3>2, <3>3, MapType
  <2>5. DOMAIN es = DOMAIN f.entries
    OBVIOUS
  <2> HIDE DEF es
  <2>6. set \in Sets
    BY <2>4 DEF Sets, Entries
  <2>7. GoodEntries(es)
    BY <2>1, <2>2, <2>3, <2>5 DEF GoodEntries
  <2>8. GoodSet(set)
    BY <2>3, <2>5, <2>7 DEF GoodSet
  <2> QED BY <1>3, <2>1, <2>6, <2>8 DEF Read
<1>4. CASE f.version = 2 /\ Load(f) = DecodeV2(f) /\ Load(f) # Malformed
  <2> DEFINE set == [entries |-> f.entries, defaults |-> f.defaults]
  <2>1. /\ GoodEntries(f.entries) /\ Load(f) = Read(set)
        /\ \A n \in DOMAIN f.entries : GoodTarget(f.entries[n].target)
        /\ \A n \in DOMAIN f.defaults :
              GoodTarget(f.defaults[n]) /\ f.defaults[n].kind # "hosted"
    BY <1>4 DEF DecodeV2
  <2>2. set \in Sets
    BY <1>0 DEF Sets, Entries
  <2>3. GoodSet(set)
    BY <2>1 DEF GoodSet, GoodTarget
  <2> QED BY <1>4, <2>1, <2>2, <2>3 DEF Read
<1> QED BY <1>0, <1>1, <1>2, <1>3, <1>4 DEF Load, NoFile

\* Encode and Load: a good set that was written is read back as it is.
LEMMA LoadEncode ==
  ASSUME NEW set \in Sets, GoodSet(set)
  PROVE  Encode(set) \in Files /\ Load(Encode(set)) = Read(set)
<1>1. set = [entries |-> set.entries, defaults |-> set.defaults]
  BY DEF Sets
<1>2. Encode(set) \in Files
  BY DEF Encode, Files, Sets
<1> DEFINE f == Encode(set)
<1>3. f.version = 2 /\ f.entries = set.entries /\ f.defaults = set.defaults /\ f # NoFile
  BY DEF Encode, NoFile
<1> HIDE DEF f
<1>4. \A n \in DOMAIN set.defaults : set.defaults[n].kind # "hosted"
  BY DEF GoodSet
<1>5. DecodeV2(f) = Read([entries |-> set.entries, defaults |-> set.defaults])
  BY <1>3, <1>4 DEF DecodeV2, GoodSet
<1>6. Load(f) = Read(set)
  BY <1>1, <1>3, <1>5 DEF Load
<1> QED BY <1>2, <1>6 DEF f

-----------------------------------------------------------------------------
(* Records of the set.                                                     *)

\* Lookup finds the entry of a directory, and there is one.
LEMMA LookupFinds ==
  ASSUME NEW set \in Sets, GoodSet(set), NEW d
  PROVE  /\ Lookup(set, d) \in TargetRecords
         /\ d \notin Paths(set) => Lookup(set, d) = NoTarget
         /\ \A n \in DOMAIN set.entries :
               set.entries[n].path = d => Lookup(set, d) = set.entries[n].target
         /\ Lookup(set, d) # NoTarget =>
               /\ GoodTarget(Lookup(set, d))
               /\ \E n \in DOMAIN set.entries :
                     set.entries[n].path = d /\ set.entries[n].target = Lookup(set, d)
<1>0. /\ \A n \in DOMAIN set.entries : set.entries[n] \in Entries
      /\ \A n \in DOMAIN set.entries : set.entries[n].target \in TargetRecords
  <2>1. set.entries \in Seq(Entries)
    BY DEF Sets
  <2>2. \A n \in DOMAIN set.entries : set.entries[n] \in Entries
    BY <2>1, ElementType
  <2> QED BY <2>2 DEF Entries
<1>1. CASE d \notin Paths(set)
  <2>1. \A n \in DOMAIN set.entries : set.entries[n].path # d
    BY <1>1 DEF Paths
  <2> QED BY <1>1, <2>1, NoTargetType DEF Lookup
<1>2. CASE d \in Paths(set)
  <2> DEFINE k == CHOOSE n \in DOMAIN set.entries : set.entries[n].path = d
  <2>1. \E n \in DOMAIN set.entries : set.entries[n].path = d
    BY <1>2 DEF Paths
  <2>2. k \in DOMAIN set.entries /\ set.entries[k].path = d
    BY <2>1
  <2>3. Lookup(set, d) = set.entries[k].target
    BY <1>2 DEF Lookup
  <2> HIDE DEF k
  <2>4. \A n \in DOMAIN set.entries : set.entries[n].path = d => n = k
    BY <2>2 DEF GoodSet, GoodEntries
  <2>5. GoodTarget(set.entries[k].target)
    BY <2>2 DEF GoodSet
  <2> QED BY <1>0, <1>2, <2>2, <2>3, <2>4, <2>5
<1> QED BY <1>1, <1>2

\* Put writes the record of one directory and leaves the rest as it is.
LEMMA PutLocal ==
  ASSUME NEW set \in Sets, GoodSet(set), NEW d \in Dirs,
         NEW t \in TargetRecords, GoodTarget(t)
  PROVE  LET new == Put(set, d, t) IN
         /\ new \in Sets /\ GoodSet(new) /\ new.defaults = set.defaults
         /\ Lookup(new, d) = t
         /\ \A e : e # d => Lookup(new, e) = Lookup(set, e)
         /\ \A n \in DOMAIN new.entries :
               \/ new.entries[n] = [path |-> d, target |-> t]
               \/ \E m \in DOMAIN set.entries : new.entries[n] = set.entries[m]
<1> DEFINE new == Put(set, d, t)
           x == [path |-> d, target |-> t]
           s == set.entries
           u == new.entries
<1>0. s \in Seq(Entries) /\ set.defaults \in Seq(TargetRecords) /\ x \in Entries
  BY DEF Sets, Entries
<1>1. /\ Len(s) \in Nat /\ DOMAIN s = 1 .. Len(s) /\ \A n \in DOMAIN s : s[n] \in Entries
  BY <1>0, ElementType
<1>2. /\ \A n \in DOMAIN s : s[n].path # Empty /\ s[n].target.name # Empty
      /\ \A m, n \in DOMAIN s : s[m].path = s[n].path => m = n
      /\ \A n \in DOMAIN s : GoodTarget(s[n].target)
  BY DEF GoodSet, GoodEntries
<1>3. x.path = d /\ x.target = t /\ d # Empty /\ t.name # Empty
  BY TextsOK DEF GoodTarget
<1>4. /\ new.defaults = set.defaults /\ u \in Seq(Entries) /\ new \in Sets
      /\ DOMAIN s \subseteq DOMAIN u
      /\ \A n \in DOMAIN s : u[n] = IF s[n].path = d THEN x ELSE s[n]
      /\ \A n \in DOMAIN u : n \notin DOMAIN s => u[n] = x
      /\ d \in Paths(set) => DOMAIN u = DOMAIN s
      /\ d \notin Paths(set) => \E k \in DOMAIN u : DOMAIN u = DOMAIN s \cup {k} /\ k \notin DOMAIN s
  <2>1. CASE d \in Paths(set)
    <3> DEFINE g == [n \in DOMAIN s |-> IF s[n].path = d THEN x ELSE s[n]]
    <3>1. new = [set EXCEPT !.entries = g]
      BY <2>1 DEF Put
    <3>2. DOMAIN g = DOMAIN s /\ g = [n \in DOMAIN s |-> g[n]]
          /\ \A n \in DOMAIN s : g[n] = IF s[n].path = d THEN x ELSE s[n]
      OBVIOUS
    <3> HIDE DEF g
    <3>3. g \in Seq(Entries)
      <4>1. \A n \in DOMAIN s : g[n] \in Entries
        BY <1>0, <1>1, <3>2
      <4> HIDE DEF s
      <4> QED BY <1>0, <3>2, <4>1, MapType
    <3>4. u = g /\ new.defaults = set.defaults /\ new \in Sets
      BY <3>1, <3>3 DEF Sets
    <3> HIDE DEF new, s
    <3> QED BY <2>1, <3>2, <3>3, <3>4
  <2>2. CASE d \notin Paths(set)
    <3>1. new = [set EXCEPT !.entries = Append(s, x)]
      BY <2>2 DEF Put
    <3>2. \A n \in DOMAIN s : s[n].path # d
      BY <2>2 DEF Paths
    <3> DEFINE g == Append(s, x)
    <3>3. /\ g \in Seq(Entries) /\ DOMAIN g = 1 .. Len(s) + 1 /\ g[Len(s) + 1] = x
          /\ \A n \in 1 .. Len(s) : g[n] = s[n]
      <4> HIDE DEF s, x
      <4> QED BY <1>0, <1>1, AppendProperties
    <3> HIDE DEF g
    <3>4. u = g /\ new.defaults = set.defaults /\ new \in Sets
      BY <3>1, <3>3 DEF Sets, g
    <3> HIDE DEF new, s, x
    <3>5. /\ DOMAIN s \subseteq DOMAIN u
          /\ \A n \in DOMAIN s : u[n] = s[n]
          /\ \A n \in DOMAIN u : n \notin DOMAIN s => n = Len(s) + 1
          /\ DOMAIN u = DOMAIN s \cup {Len(s) + 1} /\ Len(s) + 1 \notin DOMAIN s
          /\ Len(s) + 1 \in DOMAIN u
      BY <1>1, <3>3, <3>4
    <3> QED BY <2>2, <3>2, <3>3, <3>4, <3>5
  <2> QED BY <2>1, <2>2
<1> HIDE DEF new, x, s
<1>5. \A n \in DOMAIN u : u[n] = x \/ (n \in DOMAIN s /\ u[n] = s[n])
  BY <1>4
<1>6. \A n \in DOMAIN u : /\ u[n].path # Empty /\ u[n].target.name # Empty
                          /\ GoodTarget(u[n].target)
  BY <1>2, <1>3, <1>5
<1>7. \A m, n \in DOMAIN u : u[m].path = u[n].path => m = n
  <2>1. CASE d \in Paths(set)
    <3>1. \A n \in DOMAIN s : u[n].path = s[n].path
      BY <1>3, <1>4
    <3> QED BY <1>2, <1>4, <2>1, <3>1
  <2>2. CASE d \notin Paths(set)
    <3>1. \A n \in DOMAIN s : s[n].path # d
      BY <2>2 DEF Paths, s
    <3>2. PICK k \in DOMAIN u : DOMAIN u = DOMAIN s \cup {k} /\ k \notin DOMAIN s
      BY <1>4, <2>2
    <3>3. u[k].path = d /\ \A n \in DOMAIN s : u[n] = s[n]
      BY <1>3, <1>4, <3>1, <3>2
    <3> QED BY <1>2, <3>1, <3>2, <3>3
  <2> QED BY <2>1, <2>2
<1>8. GoodSet(new)
  <2>1. GoodEntries(u)
    BY <1>6, <1>7 DEF GoodEntries
  <2> QED BY <1>4, <1>6, <2>1 DEF GoodSet
<1>9. \E n \in DOMAIN u : u[n].path = d /\ u[n].target = t
  <2>1. CASE d \in Paths(set)
    <3>1. PICK n \in DOMAIN s : s[n].path = d
      BY <2>1 DEF Paths, s
    <3> QED BY <1>3, <1>4, <3>1
  <2>2. CASE d \notin Paths(set)
    BY <1>3, <1>4, <2>2
  <2> QED BY <2>1, <2>2
<1>10. Lookup(new, d) = t
  BY <1>4, <1>8, <1>9, LookupFinds
<1>11. ASSUME NEW e, e # d
       PROVE  Lookup(new, e) = Lookup(set, e)
  <2>1. CASE e \in Paths(set)
    <3>1. PICK n \in DOMAIN s : s[n].path = e
      BY <2>1 DEF Paths, s
    <3>2. n \in DOMAIN u /\ u[n] = s[n]
      BY <1>4, <1>11, <3>1
    <3>3. Lookup(set, e) = s[n].target
      BY <3>1, LookupFinds DEF s
    <3>4. Lookup(new, e) = u[n].target
      BY <1>4, <1>8, <3>1, <3>2, LookupFinds
    <3> QED BY <3>2, <3>3, <3>4
  <2>2. CASE e \notin Paths(set)
    <3>1. e \notin Paths(new)
      <4>1. \A n \in DOMAIN s : s[n].path # e
        BY <2>2 DEF Paths, s
      <4>2. \A n \in DOMAIN u : u[n].path # e
        BY <1>3, <1>5, <1>11, <4>1
      <4> QED BY <4>2 DEF Paths
    <3> QED BY <1>4, <1>8, <2>2, <3>1, LookupFinds
  <2> QED BY <2>1, <2>2
<1> QED BY <1>4, <1>5, <1>8, <1>10, <1>11 DEF new, x, s

-----------------------------------------------------------------------------
(* The resolution of one invocation.                                       *)

\* The name a setting gives, and which one gave it (ResolveBucket).
LEMMA BucketType ==
  ASSUME NEW i \in SettingRecords
  PROVE  /\ ResolveBucket(i).name \in Texts
         /\ ResolveBucket(i).from \in {"none", "bucket", "space", "conflict"}
<1>1. /\ i.bucket \in Texts /\ i.space \in Texts /\ i.bucketEnv \in Texts /\ i.spaceEnv \in Texts
  BY DEF SettingRecords
<1>2. /\ FlagSpace(i).name \in Texts
      /\ FlagSpace(i).from \in {"none", "bucket", "space", "conflict", "cleared"}
  BY <1>1, TextsOK DEF FlagSpace
<1> QED BY <1>1, <1>2, TextsOK DEF ResolveBucket

LEMMA StringType ==
  ASSUME NEW f \in Texts, NEW e \in Texts, NEW d \in Texts
  PROVE  ResolveString(f, e, d) \in Texts
  BY DEF ResolveString

\* A set with one element has one, and CHOOSE finds it.
LEMMA TheOne ==
  ASSUME NEW S, Cardinality(S) = 1
  PROVE  (CHOOSE x \in S : TRUE) \in S
<1>1. S # {}
  BY FS_EmptySet
<1> QED BY <1>1

\* PickLogin names a stored login, or refuses.
LEMMA LoginType ==
  ASSUME NEW lg \in [Endpoints -> LoginRecords], NEW x
  PROVE  LET p == LoginFor(lg, x) IN
         \/ p.kind = "refused"
         \/ p.kind = "hosted" /\ p.login \in Endpoints
<1> DEFINE picked == PickLogin(lg, x)
<1>1. picked \subseteq Endpoints
  BY DEF PickLogin, Stored
<1> HIDE DEF picked
<1>2. CASE Cardinality(picked) = 1
  <2>1. (CHOOSE e \in picked : TRUE) \in picked
    BY <1>2, TheOne
  <2> DEFINE e == CHOOSE e \in picked : TRUE
  <2>2. e \in Endpoints
    BY <1>1, <2>1
  <2>3. LoginFor(lg, x) = [kind |-> "hosted", login |-> e]
    BY <1>2 DEF LoginFor, picked
  <2> HIDE DEF e
  <2> QED BY <2>2, <2>3
<1>3. CASE Cardinality(picked) # 1
  BY <1>3 DEF LoginFor, picked, Refusal
<1> QED BY <1>2, <1>3

\* The backend that is chosen: a hosted one without a login only for a token.
LEMMA KindType ==
  ASSUME NEW i \in SettingRecords, NEW named, NEW view,
         NEW lg \in [Endpoints -> LoginRecords]
  PROVE  LET p == SelectKind(i, named, view, lg) IN
         \/ p.kind = "refused" \/ p.kind = "s3"
         \/ p.kind = "hosted" /\ p.login \in Endpoints
         \/ p.kind = "hosted" /\ p.login = Empty /\ i.token
<1>1. LET p == LoginFor(lg, Explicit(i)) IN
      p.kind = "refused" \/ (p.kind = "hosted" /\ p.login \in Endpoints)
  BY LoginType
<1> QED BY <1>1 DEF SelectKind

\* The prefix is typed.
LEMMA PrefixType ==
  ASSUME NEW i \in SettingRecords, NEW r \in TargetRecords, NEW d \in TargetRecords
  PROVE  TargetPrefix(i, r, d) \in Texts
<1>1. i.prefix \in Texts /\ i.prefixEnv \in Texts /\ r.prefix \in Texts /\ d.prefix \in Texts
  BY DEF SettingRecords, TargetRecords
<1> QED BY <1>1, TextsOK DEF TargetPrefix, ResolveString

\* What a directory's record and the defaults may say to a resolution.
ViewOK(v) ==
    /\ v.record \in TargetRecords /\ v.default \in TargetRecords
    /\ v.record # NoTarget => GoodTarget(v.record)
    /\ v.default # NoTarget => GoodTarget(v.default)

\* What a resolution is: a refusal, or a target with a name, which only a
\* token may leave to the service.
ResolvedOK(i, cfg) ==
    \/ cfg.kind = "refused"
    \/ /\ cfg \in ConfigRecords
       /\ cfg.name # Empty \/ (i.token /\ cfg.kind = "hosted")

LEMMA TokenResolves ==
  ASSUME NEW i \in SettingRecords, i.token, ResolveBucket(i).from # "conflict"
  PROVE  ResolvedOK(i, ResolveToken(i, ResolveBucket(i)))
<1> DEFINE named == ResolveBucket(i)
           p == TargetPrefix(i, NoTarget, NoTarget)
           e == IF Explicit(i) = Empty THEN DefaultHostedEndpoint ELSE Explicit(i)
<1>1. named.name \in Texts /\ named.from \in {"none", "bucket", "space"}
  BY BucketType
<1>2. p \in Texts
  BY PrefixType, NoTargetType
<1>3. e \in Texts
  <2>1. i.endpoint \in Texts /\ i.endpointEnv \in Texts
    BY DEF SettingRecords
  <2>2. Explicit(i) \in Texts
    BY <2>1, TextsOK, StringType DEF Explicit
  <2> QED BY <2>2, TextsOK
<1>4. ResolveToken(i, named) = [Refused EXCEPT !.kind = "hosted", !.name = named.name,
                                   !.from = named.from, !.prefix = p, !.endpoint = e]
  BY DEF ResolveToken
<1> HIDE DEF named, p, e
<1>5. /\ ResolveToken(i, named) \in ConfigRecords /\ ResolveToken(i, named).kind = "hosted"
  BY <1>1, <1>2, <1>3, <1>4, TextsOK DEF Refused, ConfigRecords
<1> QED BY <1>2, <1>5 DEF ResolvedOK, named

LEMMA HostedResolves ==
  ASSUME NEW i \in SettingRecords, ResolveBucket(i).from # "conflict", NEW view, ViewOK(view),
         NEW lg, NEW sp \in [Endpoints -> Names \cup {Empty}], NEW e \in Endpoints
  PROVE  LET cfg == ResolveHostedTarget(i, ResolveBucket(i), view, lg, sp, e) IN
         /\ ResolvedOK(i, cfg)
         /\ cfg.kind \in {"refused", "hosted"}
         /\ (/\ cfg.kind = "hosted" /\ ResolveBucket(i).name = Empty /\ view.record.kind = "hosted"
             /\ i.prefix = Unset /\ i.prefixEnv = Empty)
               => /\ cfg.name = view.record.name
                  /\ view.record.prefix # Empty => cfg.prefix = view.record.prefix
<1> DEFINE named == ResolveBucket(i)
           n == HostedName(named, view, sp[e])
           record == IF view.record.kind = "hosted" /\ view.record.name = n.name
                     THEN view.record ELSE NoTarget
           p == TargetPrefix(i, record, NoTarget)
           cfg == ResolveHostedTarget(i, named, view, lg, sp, e)
<1>1. named.name \in Texts /\ named.from \in {"none", "bucket", "space"}
  BY BucketType
<1>2. sp[e] \in Texts /\ view.record.name \in Texts /\ view.record \in TargetRecords
  BY TextsOK DEF ViewOK, TargetRecords
<1> HIDE DEF named
<1>3. /\ n.name \in Texts
      /\ n.from \in {"none", "bucket", "space", "remembered", "default", "login"}
      /\ named.name = Empty /\ view.record.kind = "hosted" => n.name = view.record.name
  BY <1>1, <1>2 DEF HostedName
<1>4. record \in TargetRecords
  BY <1>2, NoTargetType
<1>5. /\ p \in Texts
      /\ i.prefix = Unset /\ i.prefixEnv = Empty /\ record.prefix # Empty => p = record.prefix
  <2> HIDE DEF record
  <2>1. i.prefix = Unset /\ i.prefixEnv = Empty /\ record.prefix # Empty => p = record.prefix
    BY DEF TargetPrefix
  <2> QED BY <1>4, <2>1, PrefixType, NoTargetType
<1>6. \/ cfg = Refused
      \/ /\ n.name # Empty
         /\ cfg = [Refused EXCEPT !.kind = "hosted", !.name = n.name, !.from = n.from,
                                  !.prefix = p, !.endpoint = e, !.login = e]
  <2> HIDE DEF n, p
  <2> QED BY DEF ResolveHostedTarget, n, p
<1>7. named.name = Empty /\ view.record.kind = "hosted" => record = view.record
  BY <1>3
<1>8. e \in Texts
  BY TextsOK
<1> HIDE DEF n, record, p, cfg
<1>9. CASE cfg = Refused
  BY <1>9 DEF ResolvedOK, Refused, cfg, named
<1>10. CASE /\ n.name # Empty
            /\ cfg = [Refused EXCEPT !.kind = "hosted", !.name = n.name, !.from = n.from,
                                     !.prefix = p, !.endpoint = e, !.login = e]
  <2>1. cfg \in ConfigRecords /\ cfg.kind = "hosted" /\ cfg.name = n.name /\ cfg.prefix = p
    BY <1>3, <1>5, <1>8, <1>10, TextsOK DEF Refused, ConfigRecords
  <2>2. ResolvedOK(i, cfg)
    BY <1>5, <1>10, <2>1 DEF ResolvedOK
  <2>3. named.name = Empty /\ view.record.kind = "hosted"
        /\ i.prefix = Unset /\ i.prefixEnv = Empty
          => /\ cfg.name = view.record.name
             /\ view.record.prefix # Empty => cfg.prefix = view.record.prefix
    BY <1>3, <1>5, <1>7, <2>1
  <2> QED BY <2>1, <2>2, <2>3 DEF cfg, named
<1> QED BY <1>6, <1>9, <1>10

LEMMA S3Resolves ==
  ASSUME NEW i \in SettingRecords, ResolveBucket(i).from # "conflict", NEW view, ViewOK(view)
  PROVE  LET cfg == ResolveS3Target(i, ResolveBucket(i), view) IN
         /\ ResolvedOK(i, cfg)
         /\ cfg.kind \in {"refused", "s3"}
         /\ (/\ cfg.kind = "s3" /\ ResolveBucket(i).name = Empty /\ view.record.kind = "s3"
             /\ i.prefix = Unset /\ i.prefixEnv = Empty
             /\ i.endpoint = Unset /\ i.profile = Unset)
               => /\ cfg.name = view.record.name
                  /\ view.record.prefix # Empty => cfg.prefix = view.record.prefix
                  /\ cfg.endpoint = view.record.endpoint /\ cfg.profile = view.record.profile
<1> DEFINE named == ResolveBucket(i)
           record == IF view.record.kind = "s3" THEN view.record ELSE NoTarget
           default == view.default
           n == S3Name(named, record, default)
           same(t) == IF t.name = n.name THEN t ELSE NoTarget
           p == TargetPrefix(i, same(record), same(default))
           e == FieldOf(i.endpoint, record, default, "endpoint", i.awsEndpoint)
           r == FieldOf(i.profile, record, default, "profile", i.profileEnv)
           a == FieldOf(Unset, record, default, "pathStyle", FALSE)
           b == ResolveBool(i.pathStyle, i.pathStyleEnv, a)
           cfg == ResolveS3Target(i, named, view)
<1>1. named.name \in Texts /\ named.from \in {"none", "bucket", "space"}
  BY BucketType
<1>2. record \in TargetRecords /\ default \in TargetRecords
  BY NoTargetType DEF ViewOK
<1>3. view.record.kind = "s3" => record = view.record /\ record # NoTarget
  BY DEF NoTarget
<1> HIDE DEF named, record, default
<1>4. /\ record.name \in Texts /\ record.endpoint \in Texts /\ record.profile \in Texts
      /\ default.name \in Texts /\ default.endpoint \in Texts /\ default.profile \in Texts
      /\ i.endpoint \in Texts /\ i.profile \in Texts
      /\ i.awsEndpoint \in Texts /\ i.profileEnv \in Texts
  BY <1>2 DEF TargetRecords, SettingRecords
<1>5. /\ n.name \in Texts
      /\ n.from \in {"none", "bucket", "space", "remembered", "default", "login"}
      /\ named.name = Empty /\ record # NoTarget => n.name = record.name
  BY <1>1, <1>4 DEF S3Name
<1>6. same(record) \in TargetRecords /\ same(default) \in TargetRecords
  BY <1>2, NoTargetType
<1>7. /\ p \in Texts
      /\ (/\ i.prefix = Unset /\ i.prefixEnv = Empty /\ record.prefix # Empty
          /\ n.name = record.name) => p = record.prefix
  <2>1. p \in Texts
    <3> HIDE DEF same
    <3> QED BY <1>6, PrefixType
  <2>2. (/\ i.prefix = Unset /\ i.prefixEnv = Empty /\ record.prefix # Empty
         /\ n.name = record.name) => p = record.prefix
    <3> HIDE DEF n
    <3> QED BY DEF TargetPrefix
  <2> QED BY <2>1, <2>2
<1>8. /\ e \in Texts /\ r \in Texts
      /\ i.endpoint = Unset /\ record # NoTarget => e = record.endpoint
      /\ i.profile = Unset /\ record # NoTarget => r = record.profile
  BY <1>4 DEF FieldOf
<1>9. b \in BOOLEAN
  <2>1. record.pathStyle \in BOOLEAN /\ default.pathStyle \in BOOLEAN
    BY <1>2 DEF TargetRecords
  <2>2. a \in BOOLEAN
    BY <2>1 DEF FieldOf
  <2> HIDE DEF a
  <2> QED BY <2>2 DEF ResolveBool
<1>10. \/ cfg = Refused
       \/ /\ n.name # Empty
          /\ cfg = [Refused EXCEPT !.kind = "s3", !.name = n.name, !.from = n.from, !.prefix = p,
                                   !.endpoint = e, !.profile = r, !.pathStyle = b]
  <2> HIDE DEF n, p, e, r, b
  <2> QED BY DEF ResolveS3Target, record, default, n, p, e, r, b
<1> HIDE DEF n, p, e, r, a, b, cfg
<1>11. CASE cfg = Refused
  BY <1>11 DEF ResolvedOK, Refused, cfg, named
<1>12. CASE /\ n.name # Empty
            /\ cfg = [Refused EXCEPT !.kind = "s3", !.name = n.name, !.from = n.from, !.prefix = p,
                                     !.endpoint = e, !.profile = r, !.pathStyle = b]
  <2>1. /\ cfg \in ConfigRecords /\ cfg.kind = "s3" /\ cfg.name = n.name /\ cfg.prefix = p
        /\ cfg.endpoint = e /\ cfg.profile = r
    BY <1>5, <1>7, <1>8, <1>9, <1>12, TextsOK DEF Refused, ConfigRecords
  <2>2. ResolvedOK(i, cfg)
    BY <1>7, <1>12, <2>1 DEF ResolvedOK
  <2>3. (/\ named.name = Empty /\ view.record.kind = "s3"
         /\ i.prefix = Unset /\ i.prefixEnv = Empty
         /\ i.endpoint = Unset /\ i.profile = Unset)
          => /\ cfg.name = view.record.name
             /\ view.record.prefix # Empty => cfg.prefix = view.record.prefix
             /\ cfg.endpoint = view.record.endpoint /\ cfg.profile = view.record.profile
    BY <1>3, <1>5, <1>7, <1>8, <2>1
  <2> QED BY <2>1, <2>2, <2>3 DEF cfg, named
<1> QED BY <1>10, <1>11, <1>12

\* The store's own values change neither name nor prefix.
LEMMA StoreResolves ==
  ASSUME NEW i \in SettingRecords, NEW cfg, ResolvedOK(i, cfg)
  PROVE  LET w == WithStoreResolution(i, cfg) IN
         /\ ResolvedOK(i, w)
         /\ w.kind # "refused" =>
               /\ w.kind = cfg.kind /\ w.name = cfg.name /\ w.prefix = cfg.prefix
               /\ w.profile = cfg.profile /\ cfg.endpoint \in {Empty, w.endpoint}
<1>1. CASE cfg.kind # "s3"
  BY <1>1 DEF WithStoreResolution
<1>2. CASE cfg.kind = "s3"
  <2> DEFINE e == IF cfg.endpoint = Empty THEN i.awsEndpoint ELSE cfg.endpoint
             b == cfg.pathStyle \/ e # Empty
             w == [cfg EXCEPT !.endpoint = e, !.pathStyle = b]
  <2>1. cfg \in ConfigRecords /\ cfg.name # Empty
    BY <1>2 DEF ResolvedOK
  <2>2. e \in Texts /\ cfg.endpoint \in {Empty, e}
    BY <2>1 DEF ConfigRecords, SettingRecords
  <2>3. b \in BOOLEAN
    OBVIOUS
  <2>4. WithStoreResolution(i, cfg) = w
    BY <1>2 DEF WithStoreResolution
  <2> HIDE DEF e, b
  <2>5. /\ w \in ConfigRecords /\ w.kind = cfg.kind /\ w.name = cfg.name /\ w.prefix = cfg.prefix
        /\ w.profile = cfg.profile /\ w.endpoint = e
    BY <2>1, <2>2, <2>3 DEF ConfigRecords
  <2> HIDE DEF w
  <2>6. ResolvedOK(i, w)
    BY <2>1, <2>5 DEF ResolvedOK
  <2> QED BY <2>2, <2>4, <2>5, <2>6
<1> QED BY <1>1, <1>2

\* The flags and variables of an invocation name nothing (bare in Start).
IsBare(i) ==
    [i EXCEPT !.profileEnv = Empty, !.awsEndpoint = Empty, !.pathStyleEnv = Empty,
              !.signal = FALSE] = Bare

\* resolveStorage: what comes out, and that a bare invocation in a directory with
\* a record follows it or is refused.
LEMMA Resolves ==
  ASSUME NEW i \in SettingRecords, NEW view, ViewOK(view),
         NEW lg \in [Endpoints -> LoginRecords], NEW sp \in [Endpoints -> Names \cup {Empty}]
  PROVE  LET cfg == WithStoreResolution(i, ResolveStorage(i, view, lg, sp)) IN
         /\ ResolvedOK(i, cfg)
         /\ (cfg.kind # "refused" /\ IsBare(i) /\ view.record # NoTarget)
               => FollowsRecord(cfg, view.record)
<1> DEFINE named == ResolveBucket(i)
           pick == SelectKind(i, named, view, lg)
           sel == ResolveStorage(i, view, lg, sp)
           cfg == WithStoreResolution(i, sel)
<1>1. ASSUME IsBare(i)
      PROVE  /\ i.storage = "auto" /\ i.bucket = Unset /\ i.space = Unset
             /\ i.bucketEnv = Empty /\ i.spaceEnv = Empty
             /\ i.endpoint = Unset /\ i.endpointEnv = Empty
             /\ i.prefix = Unset /\ i.prefixEnv = Empty /\ i.profile = Unset
             /\ i.token = FALSE
  <2> DEFINE j == [i EXCEPT !.profileEnv = Empty, !.awsEndpoint = Empty, !.pathStyleEnv = Empty,
                           !.signal = FALSE]
  <2>1. /\ j.storage = i.storage /\ j.bucket = i.bucket /\ j.space = i.space
        /\ j.bucketEnv = i.bucketEnv /\ j.spaceEnv = i.spaceEnv
        /\ j.endpoint = i.endpoint /\ j.endpointEnv = i.endpointEnv
        /\ j.prefix = i.prefix /\ j.prefixEnv = i.prefixEnv /\ j.profile = i.profile
        /\ j.token = i.token
    BY DEF SettingRecords
  <2>2. j = Bare
    BY <1>1 DEF IsBare
  <2> HIDE DEF j
  <2> QED BY <2>1, <2>2 DEF Bare
<1>2. IsBare(i) => named.name = Empty /\ named.from = "none"
  BY <1>1 DEF ResolveBucket, FlagSpace
<1>3. \/ pick.kind = "refused" \/ pick.kind = "s3"
      \/ pick.kind = "hosted" /\ pick.login \in Endpoints
      \/ pick.kind = "hosted" /\ pick.login = Empty /\ i.token
  BY KindType
<1>4. ASSUME IsBare(i), view.record # NoTarget
      PROVE  pick.kind \in {"refused", view.record.kind}
             /\ view.record.kind \in {"s3", "hosted"}
  <2>1. view.record.kind \in {"s3", "hosted"}
    BY <1>4 DEF ViewOK, GoodTarget
  <2>2. LET p == LoginFor(lg, Explicit(i)) IN p.kind \in {"refused", "hosted"}
    BY LoginType
  <2>3. i.storage = "auto" /\ i.token = FALSE /\ named.from = "none"
    BY <1>1, <1>2, <1>4
  <2> HIDE DEF named
  <2>4. CASE view.record.kind = "s3"
    BY <2>3, <2>4 DEF SelectKind
  <2>5. CASE view.record.kind = "hosted"
    <3>1. pick = LoginFor(lg, Explicit(i))
      BY <2>3, <2>5 DEF SelectKind
    <3> QED BY <2>2, <2>5, <3>1
  <2> QED BY <2>1, <2>4, <2>5
<1>5. CASE named.from = "conflict" \/ pick.kind = "refused"
  <2>1. sel = Refused
    BY <1>5 DEF ResolveStorage
  <2> HIDE DEF sel
  <2>2. cfg = Refused
    BY <2>1 DEF WithStoreResolution, Refused
  <2> HIDE DEF cfg
  <2> QED BY <2>2 DEF ResolvedOK, Refused, cfg, sel
<1>6. CASE named.from # "conflict" /\ pick.kind = "s3"
  <2>1. sel = ResolveS3Target(i, named, view)
    BY <1>6 DEF ResolveStorage
  <2>2. /\ ResolvedOK(i, sel) /\ sel.kind \in {"refused", "s3"}
        /\ (/\ sel.kind = "s3" /\ named.name = Empty /\ view.record.kind = "s3"
            /\ i.prefix = Unset /\ i.prefixEnv = Empty
            /\ i.endpoint = Unset /\ i.profile = Unset)
              => /\ sel.name = view.record.name
                 /\ view.record.prefix # Empty => sel.prefix = view.record.prefix
                 /\ sel.endpoint = view.record.endpoint /\ sel.profile = view.record.profile
    BY <1>6, <2>1, S3Resolves
  <2> HIDE DEF sel, pick, named
  <2>3. /\ ResolvedOK(i, cfg)
        /\ cfg.kind # "refused" =>
              /\ cfg.kind = sel.kind /\ cfg.name = sel.name /\ cfg.prefix = sel.prefix
              /\ cfg.profile = sel.profile /\ sel.endpoint \in {Empty, cfg.endpoint}
    BY <2>2, StoreResolves
  <2> HIDE DEF cfg
  <2>4. ASSUME cfg.kind # "refused", IsBare(i), view.record # NoTarget
        PROVE  FollowsRecord(cfg, view.record)
    <3>1. view.record.kind = "s3"
      BY <1>4, <1>6, <2>4
    <3> QED BY <1>1, <1>2, <2>2, <2>3, <2>4, <3>1 DEF FollowsRecord, SameNotebook, Complete
  <2> QED BY <2>3, <2>4 DEF cfg, sel
<1>7. CASE named.from # "conflict" /\ pick.kind = "hosted" /\ pick.login \in Endpoints
  <2>1. sel = ResolveHostedTarget(i, named, view, lg, sp, pick.login)
    BY <1>7, TextsOK DEF ResolveStorage
  <2> DEFINE e == pick.login
  <2>2. e \in Endpoints
    BY <1>7
  <2> HIDE DEF e
  <2>3. /\ ResolvedOK(i, sel) /\ sel.kind \in {"refused", "hosted"}
        /\ (/\ sel.kind = "hosted" /\ named.name = Empty /\ view.record.kind = "hosted"
            /\ i.prefix = Unset /\ i.prefixEnv = Empty)
              => /\ sel.name = view.record.name
                 /\ view.record.prefix # Empty => sel.prefix = view.record.prefix
    BY <1>7, <2>1, <2>2, HostedResolves DEF e
  <2> HIDE DEF sel, pick, named
  <2>4. /\ ResolvedOK(i, cfg)
        /\ cfg.kind # "refused" =>
              cfg.kind = sel.kind /\ cfg.name = sel.name /\ cfg.prefix = sel.prefix
    BY <2>3, StoreResolves
  <2> HIDE DEF cfg
  <2>5. ASSUME cfg.kind # "refused", IsBare(i), view.record # NoTarget
        PROVE  FollowsRecord(cfg, view.record)
    <3>1. view.record.kind = "hosted"
      BY <1>4, <1>7, <2>5
    <3> QED BY <1>1, <1>2, <2>3, <2>4, <2>5, <3>1 DEF FollowsRecord, SameNotebook, Complete
  <2> QED BY <2>4, <2>5 DEF cfg, sel
<1>8. CASE named.from # "conflict" /\ pick.kind = "hosted" /\ pick.login = Empty /\ i.token
  <2>1. sel = ResolveToken(i, named)
    BY <1>8 DEF ResolveStorage
  <2>2. ResolvedOK(i, sel)
    BY <1>8, <2>1, TokenResolves
  <2>3. ~IsBare(i)
    BY <1>1, <1>8
  <2> HIDE DEF sel
  <2>4. ResolvedOK(i, cfg)
    BY <2>2, StoreResolves
  <2> QED BY <2>3, <2>4 DEF sel
<1> QED BY <1>3, <1>5, <1>6, <1>7, <1>8

-----------------------------------------------------------------------------
(* The inductive invariant.  Its parts are stated over values, so that what *)
(* a step of one command does to the others is shown once.                 *)

Locked == {"saving", "editing"}
CmdRecords == {Idle} \cup NotebookRecords \cup ListingRecords \cup ChoiceRecords

\* A command about to record has no record in its directory, names a target with
\* a name, and an operation on it succeeded (recordEntry).
Recording(r, pv) ==
    r.pc \in {"recording", "saving"} =>
        /\ r.saw = NoTarget /\ r.dir \in Dirs /\ r.token = FALSE
        /\ <<r.dir, TargetOf(r.cfg)>> \in pv
        /\ r.pc = "saving" => Lookup(r.snap, r.dir) # TargetOf(r.cfg)
NamedOK(r) == r.cfg.name # Empty \/ (r.token = TRUE /\ r.cfg.kind = "hosted")

\* A process past its check has a probe that was young enough then
\* (checkStoreWithProof).
Checked(r, pb) ==
    (r.pc \in {"working", "recording", "saving"} /\ r.cfg.kind = "s3") =>
        \E p \in pb : /\ p.store = ProbedStore(r.cfg)
                      /\ p.at <= r.at /\ r.at - p.at <= TTL

\* A hosted backend was built from a login, and is of its account as long as that
\* login is the stored one (storeDefault).
BackendOK(b, lg) ==
    b.kind = "hosted" =>
        /\ b.endpoint \in Endpoints /\ b.key <= lg[b.endpoint].key
        /\ b.key = lg[b.endpoint].key => b.account = lg[b.endpoint].account

CommandOK(r, pv, pb, lg, hv) ==
    /\ r \in NotebookRecords => Recording(r, pv) /\ NamedOK(r) /\ Checked(r, pb)
    /\ r \in ListingRecords => \A b \in r.groups : BackendOK(b, lg)
    /\ r \in ChoiceRecords => BackendOK(r.backend, lg) /\ <<StoreOf(r.backend), r.name>> \in hv

\* Every record of the file is a target an operation in that directory proved,
\* and every default is reachable (rememberSpace, SetDefault).
SetOK(set, pv, hv) ==
    /\ \A n \in DOMAIN set.entries : <<set.entries[n].path, set.entries[n].target>> \in pv
    /\ \A n \in DOMAIN set.defaults : <<Key(set.defaults[n]), set.defaults[n].name>> \in hv
SpacesOK(sp, lg, hv) ==
    \A e \in Endpoints : sp[e] # Empty => <<Account(lg[e].account), sp[e]>> \in hv

\* An edit of the settings works on what the file holds: the file changes only
\* under the lock (File.Lock).
SnapOK(r, f) == r.pc \in Locked => Load(f).ok /\ r.snap = Load(f).set

TargetsInv ==
    /\ TypeOK /\ proofs \subseteq probes
    /\ \A c \in Commands : SnapOK(cmd[c], file) /\ CommandOK(cmd[c], proved, probes, logins, have)
    /\ SetOK(Load(file).set, proved, have)
    /\ SpacesOK(spaces, logins, have)

\* A bare command in a directory with a record follows it (rememberSpace).
RememberOK(r, pv) ==
    (r \in NotebookRecords /\ r.bare = TRUE /\ r.saw # NoTarget) =>
        FollowsRecord(r.cfg, r.saw) /\ <<r.dir, r.saw>> \in pv /\ r.token = FALSE
RememberInv == \A c \in Commands : RememberOK(cmd[c], proved)

-----------------------------------------------------------------------------
(* What a step of one command leaves to show.                              *)

\* A login that is replaced gets a new key; the stored logins only move on.
Onward(lg, l2) ==
    \A e \in Endpoints : /\ lg[e].key <= l2[e].key
                         /\ lg[e].key = l2[e].key => lg[e].account = l2[e].account

LEMMA BackendKept ==
  ASSUME NEW lg \in [Endpoints -> LoginRecords], NEW l2 \in [Endpoints -> LoginRecords],
         Onward(lg, l2), NEW b \in BackendRecords, BackendOK(b, lg)
  PROVE  BackendOK(b, l2)
<1> SUFFICES ASSUME b.kind = "hosted"
             PROVE  /\ b.endpoint \in Endpoints /\ b.key <= l2[b.endpoint].key
                    /\ b.key = l2[b.endpoint].key => b.account = l2[b.endpoint].account
  BY DEF BackendOK
<1> DEFINE e == b.endpoint
           x == lg[e]
           y == l2[e]
<1>1. e \in Endpoints /\ b.key <= x.key /\ (b.key = x.key => b.account = x.account)
  BY DEF BackendOK
<1>2. b.key \in Nat /\ x.key \in Nat /\ y.key \in Nat
  BY <1>1 DEF BackendRecords, LoginRecords
<1>3. x.key <= y.key /\ (x.key = y.key => x.account = y.account)
  BY <1>1 DEF Onward
<1> HIDE DEF e, x, y
<1> QED BY <1>1, <1>2, <1>3 DEF e, x, y

\* What is true of a command stays true while the others go on.
LEMMA CommandKept ==
  ASSUME NEW r, NEW pv, NEW pb, NEW lg \in [Endpoints -> LoginRecords], NEW hv,
         NEW p2, NEW b2, NEW l2 \in [Endpoints -> LoginRecords], NEW h2,
         CommandOK(r, pv, pb, lg, hv),
         pv \subseteq p2, pb \subseteq b2, Onward(lg, l2), hv \subseteq h2
  PROVE  CommandOK(r, p2, b2, l2, h2)
<1>1. ASSUME r \in NotebookRecords PROVE Recording(r, p2) /\ NamedOK(r) /\ Checked(r, b2)
  <2>1. Recording(r, pv) /\ NamedOK(r) /\ Checked(r, pb)
    BY <1>1 DEF CommandOK
  <2>2. Recording(r, p2)
    BY <2>1 DEF Recording
  <2>3. Checked(r, b2)
    BY <2>1 DEF Checked
  <2> QED BY <2>1, <2>2, <2>3
<1>2. ASSUME r \in ListingRecords PROVE \A b \in r.groups : BackendOK(b, l2)
  <2>1. \A b \in r.groups : b \in BackendRecords
    BY <1>2 DEF ListingRecords
  <2> QED BY <1>2, <2>1, BackendKept DEF CommandOK
<1>3. ASSUME r \in ChoiceRecords
      PROVE  BackendOK(r.backend, l2) /\ <<StoreOf(r.backend), r.name>> \in h2
  <2>1. r.backend \in BackendRecords
    BY <1>3 DEF ChoiceRecords
  <2> QED BY <1>3, <2>1, BackendKept DEF CommandOK
<1> QED BY <1>1, <1>2, <1>3 DEF CommandOK

LEMMA SetKept ==
  ASSUME NEW set, NEW pv, NEW hv, NEW p2, NEW h2, SetOK(set, pv, hv),
         pv \subseteq p2, hv \subseteq h2
  PROVE  SetOK(set, p2, h2)
  BY DEF SetOK

\* Every action of a command is an instance: it moves one command to r, takes or
\* gives back the lock with it, and writes the file only while it holds the lock.
LEMMA CommandStep ==
  ASSUME TargetsInv, NEW c \in Commands, NEW r \in CmdRecords, Step(c, r),
         file' \in Files, SetOK(Load(file').set, proved', have'),
         file' = file \/ (lock = c /\ r.pc \notin Locked),
         IF r.pc \in Locked THEN lock = Nobody /\ lock' = c
                            ELSE lock' = IF lock = c THEN Nobody ELSE lock,
         SnapOK(r, file'),
         CommandOK(r, proved', probes', logins, have'),
         logins' = logins, spaces' \in [Endpoints -> Names \cup {Empty}],
         SpacesOK(spaces', logins, have'),
         proved \subseteq proved', probes \subseteq probes', have \subseteq have',
         proofs' \subseteq probes', now' \in Nat, runs' \in Nat, events' \in Nat
  PROVE  TargetsInv'
<1>1. /\ lock \in Commands \cup {Nobody} /\ logins \in [Endpoints -> LoginRecords]
      /\ cmd \in [Commands -> CmdRecords]
      /\ \A d \in Commands : cmd[d].pc \in Locked <=> lock = d
      /\ \A d \in Commands : SnapOK(cmd[d], file)
      /\ \A d \in Commands : CommandOK(cmd[d], proved, probes, logins, have)
  BY DEF TargetsInv, TypeOK, CmdRecords, Locked
<1>2. /\ cmd' \in [Commands -> CmdRecords] /\ cmd'[c] = r
      /\ \A d \in Commands : d # c => cmd'[d] = cmd[d]
  BY <1>1 DEF Step
<1>3. Nobody \notin Commands
  BY TargetsAssumption
<1>4. lock' \in Commands \cup {Nobody}
  BY <1>1
<1>5. \A d \in Commands : cmd'[d].pc \in Locked <=> lock' = d
  BY <1>1, <1>2, <1>3
<1>6. TypeOK'
  BY <1>1, <1>2, <1>4, <1>5 DEF TypeOK, CmdRecords, Locked
<1>7. \A d \in Commands : SnapOK(cmd'[d], file')
  <2>1. ASSUME NEW d \in Commands, d # c PROVE SnapOK(cmd'[d], file')
    <3>1. CASE file' = file
      BY <1>1, <1>2, <2>1, <3>1
    <3>2. CASE lock = c
      <4>1. cmd'[d].pc \notin Locked
        BY <1>1, <1>2, <2>1, <3>2
      <4> QED BY <4>1 DEF SnapOK
    <3> QED BY <3>1, <3>2
  <2> QED BY <1>2, <2>1
<1>8. Onward(logins, logins)
  BY <1>1 DEF Onward, LoginRecords
<1>9. \A d \in Commands : CommandOK(cmd'[d], proved', probes', logins', have')
  <2>1. ASSUME NEW d \in Commands, d # c
        PROVE  CommandOK(cmd[d], proved', probes', logins, have')
    BY <1>1, <1>8, CommandKept
  <2> QED BY <1>2, <2>1
<1> QED BY <1>6, <1>7, <1>9 DEF TargetsInv

\* A step outside the lock, of a command that holds none.
LEMMA QuietStep ==
  ASSUME TargetsInv, NEW c \in Commands, NEW r \in CmdRecords, Step(c, r),
         r.pc \notin Locked, cmd[c].pc \notin Locked,
         file' = file, lock' = lock, logins' = logins, spaces' = spaces,
         CommandOK(r, proved', probes', logins, have'),
         proved \subseteq proved', probes \subseteq probes', have \subseteq have',
         proofs' \subseteq probes', now' = now, runs' \in Nat, events' = events
  PROVE  TargetsInv'
<1>1. TypeOK /\ SetOK(Load(file).set, proved, have) /\ SpacesOK(spaces, logins, have)
  BY DEF TargetsInv
<1>2. /\ file \in Files /\ spaces \in [Endpoints -> Names \cup {Empty}] /\ now \in Nat
      /\ events \in Nat /\ lock # c
  BY <1>1 DEF TypeOK, Locked
<1>3. SetOK(Load(file').set, proved', have')
  BY <1>1, SetKept
<1>4. SpacesOK(spaces', logins, have')
  BY <1>1 DEF SpacesOK
<1>5. SnapOK(r, file')
  BY DEF SnapOK
<1> QED BY <1>2, <1>3, <1>4, <1>5, CommandStep

\* What a command is, by its place.
LEMMA PlaceType ==
  ASSUME TypeOK, NEW c \in Commands
  PROVE  /\ cmd[c] \in CmdRecords
         /\ cmd[c].pc \in {"building", "checking", "working", "recording", "saving"}
               => cmd[c] \in NotebookRecords
         /\ cmd[c].pc = "listing" => cmd[c] \in ListingRecords
         /\ cmd[c].pc \in {"selecting", "clearing", "editing"} => cmd[c] \in ChoiceRecords
         /\ cmd[c] \in NotebookRecords \/ cmd[c] \in ListingRecords \/ cmd[c] \in ChoiceRecords
               \/ cmd[c].pc = "idle"
<1>1. cmd[c] \in CmdRecords
  BY DEF TypeOK, CmdRecords
<1> QED BY <1>1 DEF CmdRecords, Idle, NotebookRecords, ListingRecords, ChoiceRecords

LEMMA NotebookPlace ==
  ASSUME NEW r
  PROVE  /\ r \in NotebookRecords =>
               r.pc \in {"building", "checking", "working", "recording", "saving"}
         /\ r \in ListingRecords => r.pc = "listing"
         /\ r \in ChoiceRecords => r.pc \in {"selecting", "clearing", "editing"}
  BY DEF NotebookRecords, ListingRecords, ChoiceRecords

\* A process that ended has nothing left to keep.
LEMMA IdleOK ==
  ASSUME NEW pv, NEW pb, NEW lg, NEW hv
  PROVE  Idle \in CmdRecords /\ Idle.pc = "idle" /\ CommandOK(Idle, pv, pb, lg, hv)
<1>1. Idle.pc = "idle" /\ Idle \in CmdRecords
  BY DEF Idle, CmdRecords
<1>2. Idle \notin NotebookRecords /\ Idle \notin ListingRecords /\ Idle \notin ChoiceRecords
  BY <1>1, NotebookPlace
<1> QED BY <1>1, <1>2 DEF CommandOK

\* A command ends without having touched anything.
LEMMA IdleStep ==
  ASSUME TargetsInv, NEW c \in Commands, Step(c, Idle), cmd[c].pc \notin Locked,
         file' = file, lock' = lock, logins' = logins, spaces' = spaces, have \subseteq have',
         proved' = proved, probes' = probes, proofs' = proofs, now' = now,
         runs' = runs, events' = events
  PROVE  TargetsInv'
<1>1. Idle \in CmdRecords /\ Idle.pc \notin Locked
      /\ CommandOK(Idle, proved', probes', logins, have')
  BY IdleOK DEF Locked
<1>2. runs \in Nat /\ proofs \subseteq probes
  BY DEF TargetsInv, TypeOK
<1> QED BY <1>1, <1>2, QuietStep

\* What a process sees of the settings.
LEMMA ViewType ==
  ASSUME TypeOK, NEW d
  PROVE  ViewOK(View(d))
<1>1. CASE d = NoDir
  <2>1. View(d).record = NoTarget /\ View(d).default = NoTarget
    BY <1>1 DEF View, EmptyView
  <2> QED BY <2>1, NoTargetType DEF ViewOK
<1>2. CASE d # NoDir
  <2> DEFINE set == Load(file).set
  <2>1. set \in Sets /\ GoodSet(set)
    BY LoadGood DEF TypeOK
  <2>2. View(d).record = Lookup(set, d) /\ View(d).default = S3Default(set)
    BY <1>2 DEF View
  <2> HIDE DEF set
  <2>3. /\ Lookup(set, d) \in TargetRecords
        /\ Lookup(set, d) # NoTarget => GoodTarget(Lookup(set, d))
    BY <2>1, LookupFinds
  <2>4. /\ S3Default(set) \in TargetRecords
        /\ S3Default(set) # NoTarget => GoodTarget(S3Default(set))
    <3>1. set.defaults \in Seq(TargetRecords)
      BY <2>1 DEF Sets
    <3>2. CASE set.defaults = <<>>
      BY <3>2, NoTargetType DEF S3Default
    <3>3. CASE set.defaults # <<>>
      <4> DEFINE k == Len(set.defaults)
      <4>1. k \in DOMAIN set.defaults
        BY <3>1, <3>3
      <4>2. S3Default(set) = set.defaults[k]
        BY <3>3 DEF S3Default, Last
      <4>3. set.defaults[k] \in TargetRecords
        BY <3>1, <4>1, ElementType
      <4>4. GoodTarget(set.defaults[k])
        BY <2>1, <4>1 DEF GoodSet
      <4> QED BY <4>2, <4>3, <4>4
    <3> QED BY <3>2, <3>3
  <2> QED BY <2>2, <2>3, <2>4 DEF ViewOK
<1> QED BY <1>1, <1>2

\* What a notebook command keeps when it starts (loadConfig).
Begun(i, d, cfg, saw, lg) ==
    [pc |-> IF cfg.kind = "s3" THEN "checking" ELSE "building", dir |-> d, cfg |-> cfg, saw |-> saw,
     account |-> IF cfg.login = Empty THEN 0 ELSE lg[cfg.login].account,
     token |-> i.token /\ cfg.kind = "hosted",
     at |-> 0, snap |-> EmptySet, bare |-> IsBare(i)]

LEMMA BegunOK ==
  ASSUME NEW i \in SettingRecords, NEW d \in Dirs \cup {NoDir}, NEW cfg,
         ResolvedOK(i, cfg), cfg.kind # "refused", NEW saw \in TargetRecords,
         NEW lg \in [Endpoints -> LoginRecords], NEW pv, NEW pb, NEW hv
  PROVE  LET r == Begun(i, d, cfg, saw, lg) IN
         /\ r \in NotebookRecords /\ r.pc \in {"building", "checking"}
         /\ r.cfg = cfg /\ r.saw = saw /\ r.dir = d
         /\ r.bare = TRUE => IsBare(i)
         /\ r.token = TRUE => i.token
         /\ r.token = FALSE <=> ~(i.token /\ cfg.kind = "hosted")
         /\ CommandOK(r, pv, pb, lg, hv)
<1> DEFINE a == IF cfg.login = Empty THEN 0 ELSE lg[cfg.login].account
           k == i.token /\ cfg.kind = "hosted"
           b == IsBare(i)
           q == IF cfg.kind = "s3" THEN "checking" ELSE "building"
           r == Begun(i, d, cfg, saw, lg)
<1>1. cfg \in ConfigRecords
  BY DEF ResolvedOK
<1>2. a \in Accounts \cup {0}
  <2>1. cfg.login \in Endpoints \cup {Empty}
    BY <1>1 DEF ConfigRecords
  <2>2. CASE cfg.login = Empty
    BY <2>2
  <2>3. CASE cfg.login # Empty
    <3>1. lg[cfg.login] \in LoginRecords
      BY <2>1, <2>3
    <3> QED BY <2>3, <3>1 DEF LoginRecords
  <2> QED BY <2>2, <2>3
<1>3. k \in BOOLEAN /\ b \in BOOLEAN
  BY DEF IsBare
<1>4. q \in {"building", "checking"}
  OBVIOUS
<1>5. EmptySet \in Sets
  BY EmptyGood
<1>6. r = [pc |-> q, dir |-> d, cfg |-> cfg, saw |-> saw, account |-> a, token |-> k,
           at |-> 0, snap |-> EmptySet, bare |-> b]
  BY DEF Begun
<1>7. cfg.name # Empty \/ (k = TRUE /\ cfg.kind = "hosted")
  BY DEF ResolvedOK
<1>8. (b = TRUE => IsBare(i)) /\ (k = TRUE => i.token)
      /\ (k = FALSE <=> ~(i.token /\ cfg.kind = "hosted"))
  OBVIOUS
<1> HIDE DEF a, k, b, q, r
<1>9. r \in NotebookRecords
  BY <1>1, <1>2, <1>3, <1>4, <1>5, <1>6 DEF NotebookRecords
<1>10. /\ r.pc = q /\ r.cfg = cfg /\ r.saw = saw /\ r.dir = d /\ r.bare = b /\ r.token = k
  BY <1>6
<1>11. NamedOK(r)
  BY <1>7, <1>10 DEF NamedOK
<1>12. Recording(r, pv) /\ Checked(r, pb)
  BY <1>4, <1>10 DEF Recording, Checked
<1>13. CommandOK(r, pv, pb, lg, hv)
  BY <1>4, <1>9, <1>10, <1>11, <1>12, NotebookPlace DEF CommandOK
<1> QED BY <1>4, <1>8, <1>9, <1>10, <1>13 DEF r

-----------------------------------------------------------------------------
(* The actions of a notebook command.                                      *)

LEMMA StartStep ==
  ASSUME TargetsInv, NEW c \in Commands, Start(c)
  PROVE  /\ TargetsInv'
         /\ RememberInv => RememberInv'
<1>1. PICK i \in Invocations, d \in Dirs \cup {NoDir} :
         LET cfg == WithStoreResolution(i, ResolveStorage(i, View(d), logins, spaces)) IN
         /\ cfg.kind # "refused"
         /\ Step(c, Begun(i, d, cfg, View(d).record, logins))
  BY Zenon DEF Start, Begun, IsBare
<1> DEFINE cfg == WithStoreResolution(i, ResolveStorage(i, View(d), logins, spaces))
           saw == View(d).record
           r == Begun(i, d, cfg, saw, logins)
<1>2. /\ TypeOK /\ logins \in [Endpoints -> LoginRecords]
      /\ spaces \in [Endpoints -> Names \cup {Empty}] /\ runs \in Nat /\ proofs \subseteq probes
      /\ SetOK(Load(file).set, proved, have) /\ file \in Files
  BY DEF TargetsInv, TypeOK
<1>3. i \in SettingRecords
  BY TargetsAssumption
<1>4. ViewOK(View(d)) /\ saw \in TargetRecords
  BY <1>2, ViewType DEF ViewOK
<1>5. /\ ResolvedOK(i, cfg) /\ cfg.kind # "refused"
      /\ (IsBare(i) /\ saw # NoTarget) => FollowsRecord(cfg, saw)
  BY <1>1, <1>2, <1>3, <1>4, Resolves
<1>6. Step(c, r) /\ cmd[c].pc = "idle"
  BY <1>1 DEF Start, At
<1> HIDE DEF cfg, saw
<1>7. /\ r \in NotebookRecords /\ r.pc \in {"building", "checking"}
      /\ r.cfg = cfg /\ r.saw = saw /\ r.dir = d
      /\ r.bare = TRUE => IsBare(i)
      /\ r.token = TRUE => i.token
      /\ r.token = FALSE <=> ~(i.token /\ cfg.kind = "hosted")
      /\ CommandOK(r, proved', probes', logins, have')
  BY <1>2, <1>3, <1>4, <1>5, BegunOK
<1> HIDE DEF r
<1>8. /\ file' = file /\ lock' = lock /\ logins' = logins /\ spaces' = spaces /\ have' = have
      /\ proofs' = proofs /\ probes' = probes /\ now' = now /\ events' = events
      /\ proved' = proved /\ runs' \in Nat
  BY <1>2 DEF Start, disk, site, checks
<1>9. TargetsInv'
  BY <1>2, <1>6, <1>7, <1>8, QuietStep DEF Locked, CmdRecords
<1>10. ASSUME RememberInv PROVE RememberInv'
  <2>1. ASSUME saw # NoTarget
        PROVE  <<d, saw>> \in proved
    <3> DEFINE set == Load(file).set
    <3>1. set \in Sets /\ GoodSet(set)
      BY <1>2, LoadGood
    <3>2. saw = Lookup(set, d)
      BY <2>1 DEF View, EmptyView, saw
    <3>3. SetOK(set, proved, have)
      BY <1>2
    <3> HIDE DEF set
    <3>4. PICK n \in DOMAIN set.entries : set.entries[n].path = d /\ set.entries[n].target = saw
      BY <2>1, <3>1, <3>2, LookupFinds
    <3> QED BY <3>3, <3>4 DEF SetOK
  <2>2. RememberOK(r, proved)
    <3>1. ASSUME r.bare = TRUE, r.saw # NoTarget
          PROVE  FollowsRecord(r.cfg, r.saw) /\ <<r.dir, r.saw>> \in proved /\ r.token = FALSE
      <4>1. i.token = FALSE
        <5> DEFINE j == [i EXCEPT !.profileEnv = Empty, !.awsEndpoint = Empty,
                                  !.pathStyleEnv = Empty, !.signal = FALSE]
        <5>1. j.token = i.token
          BY <1>3 DEF SettingRecords
        <5>2. j = Bare
          BY <1>7, <3>1 DEF IsBare
        <5> HIDE DEF j
        <5> QED BY <5>1, <5>2 DEF Bare
      <4> QED BY <1>5, <1>7, <2>1, <3>1, <4>1
    <3> QED BY <3>1 DEF RememberOK
  <2>3. cmd \in [Commands -> CmdRecords]
    BY <1>2 DEF TypeOK, CmdRecords
  <2> QED BY <1>6, <1>8, <1>10, <2>2, <2>3 DEF RememberInv, Step
<1> QED BY <1>9, <1>10

\* A notebook command that only moves on keeps its configuration.
LEMMA Moves ==
  ASSUME NEW x \in NotebookRecords,
         NEW q \in {"building", "checking", "working", "recording", "saving"}
  PROVE  LET r == [x EXCEPT !.pc = q] IN
         /\ r \in NotebookRecords /\ r.pc = q /\ r.cfg = x.cfg /\ r.dir = x.dir /\ r.saw = x.saw
         /\ r.token = x.token /\ r.bare = x.bare /\ r.at = x.at /\ r.snap = x.snap
  BY DEF NotebookRecords

LEMMA TypeOfCommand ==
  ASSUME TargetsInv, NEW c \in Commands
  PROVE  /\ TypeOK /\ proofs \subseteq probes
         /\ SnapOK(cmd[c], file)
         /\ cmd[c] \in NotebookRecords =>
               Recording(cmd[c], proved) /\ NamedOK(cmd[c]) /\ Checked(cmd[c], probes)
         /\ cmd[c] \in ListingRecords => \A b \in cmd[c].groups : BackendOK(b, logins)
         /\ cmd[c] \in ChoiceRecords => /\ BackendOK(cmd[c].backend, logins)
                                        /\ <<StoreOf(cmd[c].backend), cmd[c].name>> \in have
  BY DEF TargetsInv, CommandOK

\* What is to show of a notebook command, the prefix part with it.
LEMMA NotebookIs ==
  ASSUME NEW r \in NotebookRecords, NEW pv, NEW pb, NEW lg, NEW hv,
         Recording(r, pv), NamedOK(r), Checked(r, pb)
  PROVE  r \in CmdRecords /\ CommandOK(r, pv, pb, lg, hv)
  BY NotebookPlace DEF CommandOK, CmdRecords

\* A command keeps what it remembers when its target and directory stay.
LEMMA RememberStep ==
  ASSUME TargetsInv, RememberInv, NEW c \in Commands, NEW r, Step(c, r),
         \/ r \notin NotebookRecords
         \/ /\ cmd[c] \in NotebookRecords
            /\ r.saw = cmd[c].saw /\ r.dir = cmd[c].dir /\ r.bare = cmd[c].bare
            /\ \/ r.cfg = cmd[c].cfg /\ r.token = cmd[c].token
               \/ cmd[c].token = TRUE,
         proved \subseteq proved'
  PROVE  RememberInv'
<1>1. cmd \in [Commands -> CmdRecords]
  BY DEF TargetsInv, TypeOK, CmdRecords
<1>2. cmd'[c] = r /\ \A d \in Commands : d # c => cmd'[d] = cmd[d]
  BY <1>1 DEF Step
<1>3. RememberOK(r, proved')
  BY DEF RememberInv, RememberOK
<1>4. \A d \in Commands : d # c => RememberOK(cmd'[d], proved')
  BY <1>2 DEF RememberInv, RememberOK
<1> QED BY <1>2, <1>3, <1>4 DEF RememberInv

LEMMA IdleRemember ==
  ASSUME TargetsInv, RememberInv, NEW c \in Commands, Step(c, Idle), proved \subseteq proved'
  PROVE  RememberInv'
<1>1. Idle \notin NotebookRecords
  BY NotebookPlace DEF Idle
<1> QED BY <1>1, RememberStep

LEMMA BuildStep ==
  ASSUME TargetsInv, NEW c \in Commands, BuildLogin(c)
  PROVE  TargetsInv' /\ (RememberInv => RememberInv')
<1> DEFINE x == cmd[c]
           r == [x EXCEPT !.pc = "checking"]
<1>1. /\ file' = file /\ lock' = lock /\ logins' = logins /\ spaces' = spaces /\ have' = have
      /\ proofs' = proofs /\ probes' = probes /\ now' = now /\ events' = events
      /\ proved' = proved /\ runs' = runs /\ x.pc = "building"
      /\ Step(c, r) \/ Step(c, Idle)
  BY DEF BuildLogin, disk, site, checks, At, Goto
<1>2. /\ TypeOK /\ x \in NotebookRecords /\ Recording(x, proved) /\ NamedOK(x) /\ Checked(x, probes)
      /\ proofs \subseteq probes /\ runs \in Nat
  BY <1>1, TypeOfCommand, PlaceType DEF TypeOK
<1>3. CASE Step(c, Idle)
  BY <1>1, <1>3, IdleStep, IdleRemember DEF Locked
<1>4. CASE Step(c, r)
  <2>1. /\ r \in NotebookRecords /\ r.pc = "checking" /\ r.cfg = x.cfg /\ r.dir = x.dir
        /\ r.saw = x.saw /\ r.token = x.token /\ r.bare = x.bare
    BY <1>2, Moves
  <2> HIDE DEF r
  <2>2. Recording(r, proved) /\ NamedOK(r) /\ Checked(r, probes)
    BY <1>2, <2>1 DEF Recording, NamedOK, Checked
  <2>3. r \in CmdRecords /\ CommandOK(r, proved', probes', logins, have')
    BY <1>1, <2>1, <2>2, NotebookIs
  <2>4. TargetsInv'
    BY <1>1, <1>2, <1>4, <2>1, <2>3, QuietStep DEF Locked
  <2>5. RememberInv => RememberInv'
    BY <1>1, <1>2, <1>4, <2>1, RememberStep
  <2> QED BY <2>4, <2>5
<1> QED BY <1>1, <1>3, <1>4

LEMMA ResolveStep ==
  ASSUME TargetsInv, NEW c \in Commands, ResolveHostedSpace(c)
  PROVE  TargetsInv' /\ (RememberInv => RememberInv')
<1> DEFINE x == cmd[c]
           r == [x EXCEPT !.pc = "checking"]
           s == [x EXCEPT !.pc = "checking", !.cfg.name = TokenSpace]
<1>1. /\ file' = file /\ lock' = lock /\ logins' = logins /\ spaces' = spaces /\ have' = have
      /\ proofs' = proofs /\ probes' = probes /\ now' = now /\ events' = events
      /\ proved' = proved /\ runs' = runs /\ x.pc = "building" /\ x.token
      /\ Step(c, r) \/ Step(c, s) \/ Step(c, Idle)
  BY DEF ResolveHostedSpace, disk, site, checks, At, Goto
<1>2. /\ TypeOK /\ x \in NotebookRecords /\ Recording(x, proved) /\ NamedOK(x) /\ Checked(x, probes)
      /\ proofs \subseteq probes /\ runs \in Nat
  BY <1>1, TypeOfCommand, PlaceType DEF TypeOK
<1>3. CASE Step(c, Idle)
  BY <1>1, <1>3, IdleStep, IdleRemember DEF Locked
<1>4. x.token = TRUE
  BY <1>1, <1>2 DEF NotebookRecords
<1>5. /\ r \in NotebookRecords /\ r.pc = "checking" /\ r.cfg = x.cfg /\ r.dir = x.dir
      /\ r.saw = x.saw /\ r.token = x.token /\ r.bare = x.bare
  BY <1>2, Moves
<1>6. /\ s \in NotebookRecords /\ s.pc = "checking" /\ s.cfg.name = TokenSpace
      /\ s.dir = x.dir /\ s.saw = x.saw /\ s.token = x.token /\ s.bare = x.bare
  <2> DEFINE y == [x.cfg EXCEPT !.name = TokenSpace]
  <2>1. x.cfg \in ConfigRecords
    BY <1>2 DEF NotebookRecords
  <2>2. TokenSpace \in Texts
    BY TargetsAssumption
  <2>3. y \in ConfigRecords /\ y.name = TokenSpace
    BY <2>1, <2>2 DEF ConfigRecords
  <2>4. s = [x EXCEPT !.pc = "checking", !.cfg = y]
    OBVIOUS
  <2> HIDE DEF y
  <2> QED BY <1>2, <2>3, <2>4 DEF NotebookRecords
<1>7. CASE Step(c, r)
  <2> HIDE DEF r
  <2>2. Recording(r, proved) /\ NamedOK(r) /\ Checked(r, probes)
    BY <1>2, <1>5 DEF Recording, NamedOK, Checked
  <2>3. r \in CmdRecords /\ CommandOK(r, proved', probes', logins, have')
    BY <1>1, <1>5, <2>2, NotebookIs
  <2>4. TargetsInv'
    BY <1>1, <1>2, <1>5, <1>7, <2>3, QuietStep DEF Locked
  <2>5. RememberInv => RememberInv'
    BY <1>1, <1>2, <1>5, <1>7, RememberStep
  <2> QED BY <2>4, <2>5
<1>8. CASE Step(c, s)
  <2> HIDE DEF s
  <2>1. TokenSpace # Empty
    BY TargetsAssumption
  <2>2. Recording(s, proved) /\ NamedOK(s) /\ Checked(s, probes)
    BY <1>6, <2>1 DEF Recording, NamedOK, Checked
  <2>3. s \in CmdRecords /\ CommandOK(s, proved', probes', logins, have')
    BY <1>1, <1>6, <2>2, NotebookIs
  <2>4. TargetsInv'
    BY <1>1, <1>2, <1>6, <1>8, <2>3, QuietStep DEF Locked
  <2>5. RememberInv => RememberInv'
    BY <1>1, <1>2, <1>4, <1>6, <1>8, RememberStep
  <2> QED BY <2>4, <2>5
<1> QED BY <1>1, <1>3, <1>7, <1>8

\* The process works from now on, on a store whose probe is young enough now.
LEMMA CheckedStep ==
  ASSUME TargetsInv, NEW c \in Commands, CheckedNow(c), cmd[c].pc = "checking",
         file' = file, lock' = lock, logins' = logins, spaces' = spaces, have' = have,
         proved' = proved, runs' = runs, events' = events, now' = now,
         probes \subseteq probes', proofs' \subseteq probes',
         cmd[c].cfg.kind = "s3" =>
            \E p \in probes' : p.store = ProbedStore(cmd[c].cfg) /\ p.at <= now /\ now - p.at <= TTL
  PROVE  TargetsInv' /\ (RememberInv => RememberInv')
<1> DEFINE x == cmd[c]
           r == [x EXCEPT !.pc = "working", !.at = now]
<1>1. Step(c, r)
  BY DEF CheckedNow
<1>2. /\ TypeOK /\ x \in NotebookRecords /\ Recording(x, proved) /\ NamedOK(x) /\ Checked(x, probes)
      /\ proofs \subseteq probes /\ runs \in Nat /\ now \in Nat
  BY TypeOfCommand, PlaceType DEF TypeOK
<1>3. /\ r \in NotebookRecords /\ r.pc = "working" /\ r.cfg = x.cfg /\ r.dir = x.dir
      /\ r.saw = x.saw /\ r.token = x.token /\ r.bare = x.bare /\ r.at = now
  BY <1>2 DEF NotebookRecords
<1> HIDE DEF r
<1>4. Recording(r, proved) /\ NamedOK(r) /\ Checked(r, probes')
  BY <1>2, <1>3 DEF Recording, NamedOK, Checked
<1>5. r \in CmdRecords /\ CommandOK(r, proved', probes', logins, have')
  BY <1>3, <1>4, NotebookIs
<1>6. TargetsInv'
  BY <1>1, <1>2, <1>3, <1>5, QuietStep DEF Locked
<1>7. RememberInv => RememberInv'
  BY <1>1, <1>2, <1>3, RememberStep
<1> QED BY <1>6, <1>7

LEMMA CheckSteps ==
  ASSUME TargetsInv, NEW c \in Commands, ReuseProof(c) \/ Probe(c) \/ CheckAccess(c)
  PROVE  TargetsInv' /\ (RememberInv => RememberInv')
<1>1. /\ file' = file /\ lock' = lock /\ logins' = logins /\ spaces' = spaces /\ have' = have
      /\ now' = now /\ events' = events
      /\ proved' = proved /\ runs' = runs /\ cmd[c].pc = "checking"
  BY DEF ReuseProof, Probe, CheckAccess, disk, site, checks, At
<1>2. TypeOK /\ proofs \subseteq probes /\ now \in Nat
  BY TypeOfCommand DEF TypeOK
<1>3. CASE ReuseProof(c)
  <2>1. /\ probes' = probes /\ proofs' = proofs /\ CheckedNow(c)
        /\ \E p \in proofs : Fresh(p, cmd[c].cfg)
    BY <1>3 DEF ReuseProof, checks
  <2>2. \E p \in probes' : p.store = ProbedStore(cmd[c].cfg) /\ p.at <= now /\ now - p.at <= TTL
    BY <1>2, <2>1 DEF Fresh
  <2> QED BY <1>1, <1>2, <2>1, <2>2, CheckedStep
<1>4. CASE Probe(c)
  <2> DEFINE p == [store |-> ProbedStore(cmd[c].cfg), at |-> now]
  <2>1. CASE /\ CheckedNow(c) /\ probes' = probes \cup {p}
             /\ proofs' \in {proofs, {q \in proofs : q.store.id # p.store.id} \cup {p}}
    <3>1. p.store = ProbedStore(cmd[c].cfg) /\ p.at = now /\ now <= now /\ now - now <= TTL
      BY <1>2, TargetsAssumption
    <3> HIDE DEF p
    <3>2. probes \subseteq probes' /\ proofs' \subseteq probes' /\ p \in probes'
      BY <1>2, <2>1
    <3>3. \E s \in probes' : s.store = ProbedStore(cmd[c].cfg) /\ s.at <= now /\ now - s.at <= TTL
      BY <3>1, <3>2
    <3> QED BY <1>1, <2>1, <3>2, <3>3, CheckedStep
  <2>2. CASE Step(c, Idle) /\ UNCHANGED <<proofs, probes>>
    BY <1>1, <2>2, IdleStep, IdleRemember DEF Locked
  <2> QED BY <1>4, <2>1, <2>2 DEF Probe
<1>5. CASE CheckAccess(c)
  <2>1. probes' = probes /\ proofs' = proofs /\ cmd[c].cfg.kind = "hosted"
        /\ (CheckedNow(c) \/ Step(c, Idle))
    BY <1>5 DEF CheckAccess, checks
  <2>2. CASE CheckedNow(c)
    BY <1>1, <1>2, <2>1, <2>2, CheckedStep
  <2>3. CASE Step(c, Idle)
    BY <1>1, <2>1, <2>3, IdleStep, IdleRemember DEF Locked
  <2> QED BY <2>1, <2>2, <2>3
<1> QED BY <1>3, <1>4, <1>5

\* A resolved target with a name is one the settings accept.
LEMMA TargetType ==
  ASSUME NEW cfg \in ConfigRecords, cfg.name # Empty
  PROVE  /\ TargetOf(cfg) \in TargetRecords /\ GoodTarget(TargetOf(cfg))
         /\ TargetOf(cfg).prefix = cfg.prefix
<1> DEFINE t == TargetOf(cfg)
<1>1. CASE cfg.kind = "hosted"
  <2>1. t = HostedTarget(cfg.name, cfg.prefix) /\ cfg.name \in Texts /\ cfg.prefix \in Texts
    BY <1>1 DEF TargetOf, ConfigRecords
  <2> QED BY <2>1, HostedType
<1>2. CASE cfg.kind = "s3"
  <2>1. t = [kind |-> "s3", endpoint |-> cfg.endpoint, profile |-> cfg.profile, name |-> cfg.name,
             prefix |-> cfg.prefix, pathStyle |-> cfg.pathStyle]
    BY <1>2 DEF TargetOf, S3Target
  <2> HIDE DEF t
  <2>2. t \in TargetRecords /\ GoodTarget(t) /\ t.prefix = cfg.prefix
    BY <2>1 DEF TargetRecords, ConfigRecords, GoodTarget
  <2> QED BY <2>2 DEF t
<1> QED BY <1>1, <1>2 DEF ConfigRecords

LEMMA OperateStep ==
  ASSUME TargetsInv, NEW c \in Commands, Operate(c)
  PROVE  TargetsInv' /\ (RememberInv => RememberInv')
<1> DEFINE x == cmd[c]
           q == IF RecordEntry(c) THEN "recording" ELSE "working"
           r == [x EXCEPT !.pc = q]
<1>1. /\ file' = file /\ lock' = lock /\ logins' = logins /\ spaces' = spaces /\ have' = have
      /\ proofs' = proofs /\ probes' = probes /\ now' = now /\ events' = events
      /\ proved' = proved \cup {<<x.dir, TargetOf(x.cfg)>>} /\ runs' = runs /\ x.pc = "working"
      /\ Step(c, r)
  BY DEF Operate, disk, site, checks, At, Goto
<1>2. /\ TypeOK /\ x \in NotebookRecords /\ Recording(x, proved) /\ NamedOK(x) /\ Checked(x, probes)
      /\ proofs \subseteq probes /\ runs \in Nat
  BY <1>1, TypeOfCommand, PlaceType DEF TypeOK
<1>3. q \in {"recording", "working"}
      /\ (q = "recording" => x.dir # NoDir /\ x.saw = NoTarget /\ ~x.token)
  BY DEF RecordEntry
<1>4. q = "recording" => x.dir \in Dirs /\ x.saw = NoTarget /\ x.token = FALSE
  BY <1>2, <1>3 DEF NotebookRecords
<1> HIDE DEF q
<1>5. /\ r \in NotebookRecords /\ r.pc = q /\ r.cfg = x.cfg /\ r.dir = x.dir /\ r.at = x.at
      /\ r.saw = x.saw /\ r.token = x.token /\ r.bare = x.bare
  <2>1. q \in {"building", "checking", "working", "recording", "saving"}
    BY <1>3
  <2>2. x \in NotebookRecords
    BY <1>2
  <2> HIDE DEF x
  <2> QED BY <2>1, <2>2 DEF NotebookRecords
<1> HIDE DEF r
<1>6. Recording(r, proved')
  BY <1>1, <1>3, <1>4, <1>5 DEF Recording
<1>7. NamedOK(r) /\ Checked(r, probes)
  BY <1>1, <1>2, <1>3, <1>5 DEF NamedOK, Checked
<1>8. r \in CmdRecords /\ CommandOK(r, proved', probes', logins, have')
  BY <1>1, <1>5, <1>6, <1>7, NotebookIs
<1>9. TargetsInv'
  BY <1>1, <1>2, <1>3, <1>5, <1>8, QuietStep DEF Locked
<1>10. RememberInv => RememberInv'
  BY <1>1, <1>2, <1>5, RememberStep
<1> QED BY <1>9, <1>10

\* The lock is taken and the file read under it.
LEMMA LockRecordStep ==
  ASSUME TargetsInv, NEW c \in Commands, LockRecord(c)
  PROVE  TargetsInv' /\ (RememberInv => RememberInv')
<1> DEFINE x == cmd[c]
           read == Load(file)
           r == [x EXCEPT !.pc = "working"]
           s == [x EXCEPT !.pc = "saving", !.snap = read.set]
<1>1. /\ file' = file /\ logins' = logins /\ spaces' = spaces /\ have' = have
      /\ proofs' = proofs /\ probes' = probes /\ now' = now /\ events' = events
      /\ proved' = proved /\ runs' = runs /\ x.pc = "recording" /\ lock = Nobody
      /\ \/ Step(c, r) /\ lock' = lock
         \/ /\ Step(c, s) /\ lock' = c /\ read.ok
            /\ Lookup(read.set, x.dir) # TargetOf(x.cfg)
  BY DEF LockRecord, site, checks, At, Goto, MayLock
<1>2. /\ TypeOK /\ x \in NotebookRecords /\ Recording(x, proved) /\ NamedOK(x) /\ Checked(x, probes)
      /\ proofs \subseteq probes /\ runs \in Nat /\ file \in Files /\ now \in Nat /\ events \in Nat
      /\ spaces \in [Endpoints -> Names \cup {Empty}]
  BY <1>1, TypeOfCommand, PlaceType DEF TypeOK
<1>3. CASE Step(c, r) /\ lock' = lock
  <2>1. /\ r \in NotebookRecords /\ r.pc = "working" /\ r.cfg = x.cfg /\ r.dir = x.dir
        /\ r.saw = x.saw /\ r.token = x.token /\ r.bare = x.bare /\ r.at = x.at
    BY <1>2, Moves
  <2> HIDE DEF r
  <2>2. Recording(r, proved) /\ NamedOK(r) /\ Checked(r, probes)
    BY <1>1, <1>2, <2>1 DEF Recording, NamedOK, Checked
  <2>3. r \in CmdRecords /\ CommandOK(r, proved', probes', logins, have')
    BY <1>1, <2>1, <2>2, NotebookIs
  <2>4. TargetsInv'
    BY <1>1, <1>2, <1>3, <2>1, <2>3, QuietStep DEF Locked
  <2>5. RememberInv => RememberInv'
    BY <1>1, <1>2, <1>3, <2>1, RememberStep
  <2> QED BY <2>4, <2>5
<1>4. CASE /\ Step(c, s) /\ lock' = c /\ read.ok
           /\ Lookup(read.set, x.dir) # TargetOf(x.cfg)
  <2>1. read.set \in Sets
    BY <1>2, LoadGood
  <2>2. /\ s \in NotebookRecords /\ s.pc = "saving" /\ s.cfg = x.cfg /\ s.dir = x.dir
        /\ s.saw = x.saw /\ s.token = x.token /\ s.bare = x.bare /\ s.at = x.at
        /\ s.snap = read.set
    <3> HIDE DEF read
    <3> QED BY <1>2, <2>1 DEF NotebookRecords
  <2> HIDE DEF s
  <2>3. Recording(s, proved) /\ NamedOK(s) /\ Checked(s, probes)
    BY <1>1, <1>2, <1>4, <2>2 DEF Recording, NamedOK, Checked
  <2>4. s \in CmdRecords /\ CommandOK(s, proved', probes', logins, have')
    BY <1>1, <2>2, <2>3, NotebookIs
  <2>5. SnapOK(s, file')
    BY <1>1, <1>4, <2>2 DEF SnapOK
  <2>6. SetOK(Load(file').set, proved', have') /\ SpacesOK(spaces', logins, have')
    BY <1>1 DEF TargetsInv
  <2>7. TargetsInv'
    BY <1>1, <1>2, <1>4, <2>2, <2>4, <2>5, <2>6, CommandStep DEF Locked
  <2>8. RememberInv => RememberInv'
    BY <1>1, <1>2, <1>4, <2>2, RememberStep
  <2> QED BY <2>7, <2>8
<1> QED BY <1>1, <1>3, <1>4

\* A set with a record written into it can be encoded and is read back.
LEMMA PutRead ==
  ASSUME NEW set \in Sets, GoodSet(set), NEW d \in Dirs,
         NEW t \in TargetRecords, GoodTarget(t)
  PROVE  LET new == Put(set, d, t) IN
         Encode(new) \in Files /\ Load(Encode(new)) = Read(new)
<1> DEFINE new == Put(set, d, t)
<1>1. new \in Sets /\ GoodSet(new)
  BY PutLocal
<1> HIDE DEF new
<1>2. Encode(new) \in Files /\ Load(Encode(new)) = Read(new)
  BY <1>1, LoadEncode
<1> QED BY <1>2 DEF new

\* What the file holds after a record was saved.
LEMMA RecordSaved ==
  ASSUME TargetsInv, NEW c \in Commands, cmd[c].pc = "saving",
         NEW new, new = Put(cmd[c].snap, cmd[c].dir, TargetOf(cmd[c].cfg))
  PROVE  /\ Encode(new) \in Files /\ Load(Encode(new)) = Read(new)
         /\ cmd[c].snap = Load(file).set /\ Load(file).ok
         /\ cmd[c].dir \in Dirs /\ cmd[c].saw = NoTarget
         /\ new.defaults = Load(file).set.defaults
         /\ Lookup(new, cmd[c].dir) # Lookup(Load(file).set, cmd[c].dir)
         /\ \A e : e # cmd[c].dir => Lookup(new, e) = Lookup(Load(file).set, e)
         /\ SetOK(new, proved, have)
<1> DEFINE x == cmd[c]
           set == Load(file).set
           t == TargetOf(x.cfg)
<1>1. /\ TypeOK /\ x \in NotebookRecords /\ Recording(x, proved) /\ NamedOK(x) /\ SnapOK(x, file)
      /\ file \in Files
  BY TypeOfCommand, PlaceType DEF TypeOK
<1>2. /\ x.saw = NoTarget /\ x.dir \in Dirs /\ x.token = FALSE /\ <<x.dir, t>> \in proved
      /\ Lookup(x.snap, x.dir) # t /\ Load(file).ok /\ x.snap = set
  BY <1>1 DEF Recording, SnapOK, Locked
<1>3. set \in Sets /\ GoodSet(set)
  BY <1>1, LoadGood
<1>4. SetOK(set, proved, have)
  BY DEF TargetsInv
<1>5. t \in TargetRecords /\ GoodTarget(t) /\ t.prefix = x.cfg.prefix
  <2>1. x.cfg \in ConfigRecords /\ x.cfg.name # Empty
    BY <1>1, <1>2 DEF NotebookRecords, NamedOK
  <2> QED BY <2>1, TargetType
<1> HIDE DEF t, set
<1>6. new = Put(set, x.dir, t)
  BY <1>2 DEF t
<1>7. /\ new \in Sets /\ GoodSet(new) /\ new.defaults = set.defaults
      /\ Lookup(new, x.dir) = t
      /\ \A e : e # x.dir => Lookup(new, e) = Lookup(set, e)
      /\ \A n \in DOMAIN new.entries :
            \/ new.entries[n] = [path |-> x.dir, target |-> t]
            \/ \E m \in DOMAIN set.entries : new.entries[n] = set.entries[m]
  BY <1>2, <1>3, <1>5, <1>6, PutLocal
<1>8. Encode(new) \in Files /\ Load(Encode(new)) = Read(new)
  <2>1. x.dir \in Dirs
    BY <1>2, Zenon
  <2> HIDE DEF x
  <2> QED BY <1>3, <1>5, <1>6, <2>1, PutRead
<1>9. SetOK(new, proved, have)
  <2>1. \A n \in DOMAIN new.entries : <<new.entries[n].path, new.entries[n].target>> \in proved
    BY <1>2, <1>4, <1>7 DEF SetOK
  <2> QED BY <1>4, <1>7, <2>1, Zenon DEF SetOK
<1> QED BY <1>2, <1>7, <1>8, <1>9 DEF set

LEMMA SaveRecordStep ==
  ASSUME TargetsInv, NEW c \in Commands, SaveRecord(c)
  PROVE  TargetsInv' /\ (RememberInv => RememberInv')
<1> DEFINE x == cmd[c]
           r == [x EXCEPT !.pc = "working", !.snap = EmptySet]
           new == Put(x.snap, x.dir, TargetOf(x.cfg))
<1>1. /\ logins' = logins /\ spaces' = spaces /\ have' = have
      /\ proofs' = proofs /\ probes' = probes /\ now' = now /\ events' = events
      /\ proved' = proved /\ runs' = runs /\ x.pc = "saving" /\ lock' = Nobody
      /\ Step(c, r) /\ (file' = Encode(new) \/ file' = file)
  BY DEF SaveRecord, site, checks, At
<1>2. /\ TypeOK /\ x \in NotebookRecords /\ Recording(x, proved) /\ NamedOK(x) /\ Checked(x, probes)
      /\ proofs \subseteq probes /\ runs \in Nat /\ file \in Files /\ now \in Nat /\ events \in Nat
      /\ spaces \in [Endpoints -> Names \cup {Empty}] /\ lock = c
  BY <1>1, TypeOfCommand, PlaceType DEF TypeOK
<1>3. /\ r \in NotebookRecords /\ r.pc = "working" /\ r.cfg = x.cfg /\ r.dir = x.dir
      /\ r.saw = x.saw /\ r.token = x.token /\ r.bare = x.bare /\ r.at = x.at
  BY <1>2, EmptyGood DEF NotebookRecords
<1> HIDE DEF r
<1>4. Recording(r, proved) /\ NamedOK(r) /\ Checked(r, probes)
  BY <1>1, <1>2, <1>3 DEF Recording, NamedOK, Checked
<1>5. r \in CmdRecords /\ CommandOK(r, proved', probes', logins, have')
  BY <1>1, <1>3, <1>4, NotebookIs
<1>6. SnapOK(r, file')
  BY <1>3 DEF SnapOK, Locked
<1>7. /\ Encode(new) \in Files /\ Load(Encode(new)) = Read(new) /\ SetOK(new, proved, have)
  BY <1>1, RecordSaved
<1> HIDE DEF new
<1>8. file' \in Files /\ SetOK(Load(file').set, proved', have')
  <2>1. SetOK(Load(file).set, proved, have)
    BY DEF TargetsInv
  <2> QED BY <1>1, <1>2, <1>7, <2>1 DEF Read
<1>9. SpacesOK(spaces', logins, have')
  BY <1>1 DEF TargetsInv
<1>10. TargetsInv'
  BY <1>1, <1>2, <1>3, <1>5, <1>6, <1>8, <1>9, CommandStep DEF Locked
<1>11. RememberInv => RememberInv'
  BY <1>1, <1>2, <1>3, RememberStep
<1> QED BY <1>10, <1>11

LEMMA EndSteps ==
  ASSUME TargetsInv, NEW c \in Commands, Exit(c) \/ Crash(c)
  PROVE  TargetsInv' /\ (RememberInv => RememberInv')
<1>1. /\ file' = file /\ logins' = logins /\ spaces' = spaces /\ have' = have
      /\ proofs' = proofs /\ probes' = probes /\ now' = now /\ events' = events
      /\ proved' = proved /\ runs' = runs /\ Step(c, Idle)
  BY DEF Exit, Crash, disk, site, checks
<1>2. /\ TypeOK /\ proofs \subseteq probes
      /\ runs \in Nat /\ file \in Files /\ now \in Nat /\ events \in Nat
      /\ spaces \in [Endpoints -> Names \cup {Empty}] /\ (cmd[c].pc = "working" => lock # c)
  BY TypeOfCommand DEF TypeOK
<1>3. lock' = IF lock = c THEN Nobody ELSE lock
  BY <1>2 DEF Exit, Crash, disk, At
<1>4. /\ Idle \in CmdRecords /\ Idle.pc \notin Locked
      /\ CommandOK(Idle, proved', probes', logins, have') /\ SnapOK(Idle, file')
  BY IdleOK DEF Locked, SnapOK
<1>5. SetOK(Load(file').set, proved', have') /\ SpacesOK(spaces', logins, have')
  BY <1>1 DEF TargetsInv
<1>6. TargetsInv'
  BY <1>1, <1>2, <1>3, <1>4, <1>5, CommandStep
<1> QED BY <1>1, <1>6, IdleRemember

-----------------------------------------------------------------------------
(* The actions of the space command.                                       *)

LEMMA HostedBackendOK ==
  ASSUME logins \in [Endpoints -> LoginRecords], NEW e \in Endpoints
  PROVE  HostedBackend(e) \in BackendRecords /\ BackendOK(HostedBackend(e), logins)
<1> DEFINE l == logins[e]
           b == HostedBackend(e)
<1>1. l \in LoginRecords /\ l.key \in Nat /\ l.account \in Accounts \cup {0}
      /\ l.usable \in BOOLEAN /\ l.write \in BOOLEAN
  BY DEF LoginRecords
<1> DEFINE z == Backend("hosted", e, Empty)
<1>2. /\ z = [kind |-> "hosted", endpoint |-> e, profile |-> Empty, key |-> 0, account |-> 0,
              pathStyle |-> FALSE, usable |-> TRUE, write |-> TRUE, current |-> FALSE]
      /\ z \in BackendRecords
  BY TextsOK DEF Backend, BackendRecords
<1>3. b = [z EXCEPT !.key = l.key, !.account = l.account, !.usable = l.usable, !.write = l.write]
  BY DEF HostedBackend
<1> HIDE DEF l, z, b
<1>4. /\ b \in BackendRecords /\ b.endpoint = e /\ b.key = l.key /\ b.account = l.account
  BY <1>1, <1>2, <1>3 DEF BackendRecords
<1>5. b.key <= l.key
  BY <1>1, <1>4
<1>6. BackendOK(b, logins)
  BY <1>4, <1>5 DEF BackendOK, l
<1> QED BY <1>4, <1>6 DEF b

LEMMA S3BackendOK ==
  ASSUME NEW i \in SettingRecords, NEW k, k.endpoint \in Texts, k.profile \in Texts,
         NEW ps \in BOOLEAN
  PROVE  /\ S3Backend(i, k, ps) \in BackendRecords /\ S3Backend(i, k, ps).kind = "s3"
<1> DEFINE e == IF k.endpoint = Empty THEN i.awsEndpoint ELSE k.endpoint
           p == ps \/ e # Empty
           z == Backend("s3", e, k.profile)
           b == S3Backend(i, k, ps)
<1>1. e \in Texts /\ p \in BOOLEAN
  BY DEF SettingRecords
<1>2. b = [z EXCEPT !.pathStyle = p]
  BY DEF S3Backend
<1> HIDE DEF e, p, b
<1>3. z \in BackendRecords /\ z.kind = "s3"
  BY <1>1 DEF Backend, BackendRecords
<1> HIDE DEF z
<1>4. b \in BackendRecords /\ b.kind = "s3"
  BY <1>1, <1>2, <1>3 DEF BackendRecords
<1> QED BY <1>4 DEF b

LEMMA DefaultType ==
  ASSUME NEW set \in Sets
  PROVE  S3Default(set) \in TargetRecords
<1>1. set.defaults \in Seq(TargetRecords)
  BY DEF Sets
<1>2. CASE set.defaults = <<>>
  BY <1>2, NoTargetType DEF S3Default
<1>3. CASE set.defaults # <<>>
  <2>1. Len(set.defaults) \in DOMAIN set.defaults
    BY <1>1, <1>3
  <2>2. set.defaults[Len(set.defaults)] \in TargetRecords
    BY <1>1, <2>1, ElementType
  <2> QED BY <1>3, <2>2 DEF S3Default, Last
<1> QED BY <1>2, <1>3

LEMMA S3CurrentOK ==
  ASSUME NEW i \in SettingRecords, NEW set \in Sets
  PROVE  S3Current(i, set) \in BackendRecords /\ S3Current(i, set).kind = "s3"
<1> DEFINE named == [endpoint |-> IF Mine(i) THEN Empty ELSE Explicit(i),
                     profile |-> ResolveString(i.profile, i.profileEnv, Empty)]
           default == S3Default(set)
           b1 == S3Backend(i, Key(default), default.pathStyle)
           ps == ResolveBool(i.pathStyle, i.pathStyleEnv, FALSE)
           b2 == S3Backend(i, named, ps)
           b == S3Current(i, set)
<1>1. \E z \in {b1, b2} : b = [z EXCEPT !.current = TRUE]
  BY DEF S3Current
<1>2. /\ i.endpoint \in Texts /\ i.endpointEnv \in Texts /\ i.profile \in Texts
      /\ i.profileEnv \in Texts /\ ps \in BOOLEAN /\ Empty \in Texts
  BY TextsOK DEF SettingRecords, ResolveBool
<1>3. Explicit(i) \in Texts /\ ResolveString(i.profile, i.profileEnv, Empty) \in Texts
  BY <1>2, StringType DEF Explicit
<1>4. named.endpoint \in Texts /\ named.profile \in Texts
  BY <1>2, <1>3
<1> HIDE DEF named, ps
<1>5. b2 \in BackendRecords /\ b2.kind = "s3"
  BY <1>2, <1>4, S3BackendOK
<1>6. default \in TargetRecords
  BY DefaultType
<1> HIDE DEF default
<1>7. /\ Key(default).endpoint \in Texts /\ Key(default).profile \in Texts
      /\ default.pathStyle \in BOOLEAN
  BY <1>6 DEF Key, TargetRecords
<1>8. b1 \in BackendRecords /\ b1.kind = "s3"
  BY <1>7, S3BackendOK
<1> HIDE DEF b1, b2, b
<1>9. PICK z \in BackendRecords : z.kind = "s3" /\ b = [z EXCEPT !.current = TRUE]
  BY <1>1, <1>5, <1>8
<1>10. b \in BackendRecords /\ b.kind = "s3"
  BY <1>9 DEF BackendRecords
<1> QED BY <1>10 DEF b

LEMMA LoginsChosen ==
  ASSUME logins \in [Endpoints -> LoginRecords], NEW i
  PROVE  ChooseLogins(i) \subseteq Endpoints
  BY DEF ChooseLogins, Mine, Stored

LEMMA ListedOK ==
  ASSUME logins \in [Endpoints -> LoginRecords], NEW i \in SettingRecords, NEW set \in Sets
  PROVE  /\ ListBackends(i, set) \subseteq BackendRecords
         /\ \A b \in ListBackends(i, set) : BackendOK(b, logins)
<1> SUFFICES ASSUME NEW b \in ListBackends(i, set)
             PROVE  b \in BackendRecords /\ BackendOK(b, logins)
  OBVIOUS
<1>1. \/ \E e \in ChooseLogins(i) : b = HostedBackend(e)
      \/ b = S3Current(i, set)
      \/ \E k \in RecordedS3Keys(set) : b = S3Backend(i, k, FALSE)
  BY DEF ListBackends, S3Groups
<1>2. CASE \E e \in ChooseLogins(i) : b = HostedBackend(e)
  BY <1>2, LoginsChosen, HostedBackendOK
<1>3. CASE b = S3Current(i, set)
  BY <1>3, S3CurrentOK DEF BackendOK
<1>4. CASE \E k \in RecordedS3Keys(set) : b = S3Backend(i, k, FALSE)
  <2>1. PICK k \in RecordedS3Keys(set) : b = S3Backend(i, k, FALSE)
    BY <1>4
  <2>2. set.entries \in Seq(Entries) /\ set.defaults \in Seq(TargetRecords)
    BY DEF Sets
  <2>3. \A n \in DOMAIN set.entries : set.entries[n] \in Entries
    BY <2>2, ElementType
  <2>4. \A n \in DOMAIN set.defaults : set.defaults[n] \in TargetRecords
    BY <2>2, ElementType
  <2>5. \E t \in TargetRecords : k = Key(t)
    BY <2>1, <2>3, <2>4 DEF RecordedS3Keys, Entries
  <2>6. k.endpoint \in Texts /\ k.profile \in Texts
    BY <2>5 DEF Key, TargetRecords
  <2>7. FALSE \in BOOLEAN
    OBVIOUS
  <2> QED BY <2>1, <2>6, <2>7, S3BackendOK DEF BackendOK
<1> QED BY <1>1, <1>2, <1>3, <1>4

LEMMA CreatedOK ==
  ASSUME logins \in [Endpoints -> LoginRecords], NEW i \in SettingRecords, ~CreateRefused(i)
  PROVE  CreateBackend(i) \in BackendRecords /\ BackendOK(CreateBackend(i), logins)
<1>1. CASE S3CreateSelected(i)
  BY <1>1, S3CurrentOK, EmptyGood DEF CreateBackend, BackendOK
<1>2. CASE ~S3CreateSelected(i)
  <2>1. Cardinality(ChooseLogins(i)) = 1
    BY <1>2 DEF CreateRefused
  <2>2. (CHOOSE e \in ChooseLogins(i) : TRUE) \in ChooseLogins(i)
    BY <2>1, TheOne
  <2> DEFINE e == CHOOSE e \in ChooseLogins(i) : TRUE
  <2>3. e \in Endpoints
    BY <2>2, LoginsChosen
  <2>4. CreateBackend(i) = HostedBackend(e)
    BY <1>2 DEF CreateBackend
  <2> HIDE DEF e
  <2> QED BY <2>3, <2>4, HostedBackendOK
<1> QED BY <1>1, <1>2

\* A space command's record is no notebook's.
LEMMA SpaceIs ==
  ASSUME NEW r, r \in ListingRecords \/ r \in ChoiceRecords, NEW pv, NEW pb, NEW lg, NEW hv,
         r \in ListingRecords => \A b \in r.groups : BackendOK(b, lg),
         r \in ChoiceRecords => BackendOK(r.backend, lg) /\ <<StoreOf(r.backend), r.name>> \in hv
  PROVE  r \in CmdRecords /\ r \notin NotebookRecords /\ CommandOK(r, pv, pb, lg, hv)
  BY NotebookPlace DEF CommandOK, CmdRecords

LEMMA SpaceRemember ==
  ASSUME TargetsInv, RememberInv, NEW c \in Commands, NEW r, Step(c, r), r \notin NotebookRecords,
         proved' = proved
  PROVE  RememberInv'
  BY RememberStep

LEMMA SpaceStartStep ==
  ASSUME TargetsInv, NEW c \in Commands, SpaceStart(c)
  PROVE  TargetsInv' /\ (RememberInv => RememberInv')
<1>1. /\ file' = file /\ lock' = lock /\ logins' = logins /\ spaces' = spaces /\ have' = have
      /\ proofs' = proofs /\ probes' = probes /\ now' = now /\ events' = events
      /\ proved' = proved /\ runs' = runs + 1 /\ cmd[c].pc = "idle"
  BY DEF SpaceStart, disk, site, checks, At
<1>2. /\ TypeOK /\ proofs \subseteq probes /\ runs \in Nat /\ file \in Files
      /\ logins \in [Endpoints -> LoginRecords]
  BY TypeOfCommand DEF TypeOK
<1> DEFINE set == Load(file).set
           rec(i, m, n) ==
              [pc |-> "listing", mode |-> m, name |-> IF m = "list" THEN Empty ELSE n,
               prefix |-> ResolveString(i.prefix, i.prefixEnv, Empty),
               groups |-> IF m = "create" THEN {CreateBackend(i)} ELSE ListBackends(i, set)]
<1>3. PICK i \in Listings, m \in {"list", "set", "create"}, n \in Names :
         (m = "create" => ~CreateRefused(i)) /\ Step(c, rec(i, m, n))
  BY DEF SpaceStart
<1> DEFINE r == rec(i, m, n)
           g == IF m = "create" THEN {CreateBackend(i)} ELSE ListBackends(i, set)
<1>4. i \in SettingRecords
  BY TargetsAssumption
<1>5. set \in Sets
  BY <1>2, LoadGood
<1>6. g \subseteq BackendRecords /\ \A b \in g : BackendOK(b, logins)
  <2>1. CASE m = "create"
    BY <1>2, <1>3, <1>4, <2>1, CreatedOK
  <2>2. CASE m # "create"
    BY <1>2, <1>4, <1>5, <2>2, ListedOK
  <2> QED BY <2>1, <2>2
<1>7. ResolveString(i.prefix, i.prefixEnv, Empty) \in Texts
  BY <1>4, TextsOK DEF ResolveString, SettingRecords
<1>8. /\ r.pc = "listing" /\ r.mode = m /\ r.name = (IF m = "list" THEN Empty ELSE n)
      /\ r.groups = g /\ r \in ListingRecords
  <2> DEFINE q == ResolveString(i.prefix, i.prefixEnv, Empty)
             k == IF m = "list" THEN Empty ELSE n
  <2>1. k \in Names \cup {Empty} /\ q \in Texts
    BY <1>7
  <2>2. r = [pc |-> "listing", mode |-> m, name |-> k, prefix |-> q, groups |-> g]
    OBVIOUS
  <2> HIDE DEF q, k, g, r
  <2>3. r \in ListingRecords /\ r.pc = "listing" /\ r.mode = m /\ r.name = k /\ r.groups = g
    BY <1>6, <2>1, <2>2 DEF ListingRecords
  <2> QED BY <2>3 DEF k
<1>9. Step(c, r)
  BY <1>3
<1> HIDE DEF r, g, set
<1>10. r \in CmdRecords /\ r \notin NotebookRecords /\ CommandOK(r, proved', probes', logins, have')
  BY <1>6, <1>8, SpaceIs, NotebookPlace
<1>11. TargetsInv'
  BY <1>1, <1>2, <1>8, <1>9, <1>10, QuietStep DEF Locked
<1>12. RememberInv => RememberInv'
  BY <1>1, <1>9, <1>10, SpaceRemember
<1> QED BY <1>11, <1>12

\* The space command chose a target its own listing showed.
LEMMA ChosenStep ==
  ASSUME TargetsInv, NEW c \in Commands, cmd[c].pc = "listing",
         NEW b \in cmd[c].groups, NEW n \in Names, <<StoreOf(b), n>> \in have', Chosen(c, b, n),
         file' = file, lock' = lock, logins' = logins, spaces' = spaces, have \subseteq have',
         proved' = proved, probes' = probes, proofs' = proofs, now' = now,
         runs' = runs, events' = events
  PROVE  TargetsInv' /\ (RememberInv => RememberInv')
<1> DEFINE x == cmd[c]
           r == [pc |-> "selecting", backend |-> b, name |-> n, prefix |-> x.prefix,
                 snap |-> EmptySet]
<1>1. Step(c, r)
  BY DEF Chosen
<1>2. /\ TypeOK /\ proofs \subseteq probes /\ runs \in Nat /\ x \in ListingRecords
      /\ b \in BackendRecords /\ BackendOK(b, logins) /\ x.prefix \in Texts
  BY TypeOfCommand, PlaceType DEF TypeOK, ListingRecords
<1>3. /\ r \in ChoiceRecords /\ r.pc = "selecting" /\ r.backend = b /\ r.name = n
  BY <1>2, EmptyGood DEF ChoiceRecords
<1> HIDE DEF r
<1>4. r \in CmdRecords /\ r \notin NotebookRecords /\ CommandOK(r, proved', probes', logins, have')
  BY <1>2, <1>3, SpaceIs, NotebookPlace
<1>5. TargetsInv'
  BY <1>1, <1>2, <1>3, <1>4, QuietStep DEF Locked
<1>6. RememberInv => RememberInv'
  BY <1>1, <1>4, SpaceRemember
<1> QED BY <1>5, <1>6

LEMMA ChooseSteps ==
  ASSUME TargetsInv, NEW c \in Commands, SetDefaultFrom(c) \/ Pick(c)
  PROVE  TargetsInv' /\ (RememberInv => RememberInv')
<1>1. /\ file' = file /\ lock' = lock /\ logins' = logins /\ spaces' = spaces /\ have' = have
      /\ proofs' = proofs /\ probes' = probes /\ now' = now /\ events' = events
      /\ proved' = proved /\ runs' = runs /\ cmd[c].pc = "listing"
  BY DEF SetDefaultFrom, Pick, disk, site, checks, At
<1>2. CASE Step(c, Idle)
  BY <1>1, <1>2, IdleStep, IdleRemember DEF Locked
<1>3. \/ Step(c, Idle)
      \/ \E b \in cmd[c].groups, n \in Names : <<StoreOf(b), n>> \in have /\ Chosen(c, b, n)
  <2>1. CASE SetDefaultFrom(c)
    <3>1. PICK up \in Reachable(c) :
             LET found == Candidates(up, cmd[c].name) IN
             IF Cardinality(found) = 1
             THEN Chosen(c, CHOOSE b \in found : TRUE, cmd[c].name)
             ELSE Step(c, Idle)
      BY <2>1 DEF SetDefaultFrom
    <3> DEFINE found == Candidates(up, cmd[c].name)
               b == CHOOSE b \in found : TRUE
    <3>2. CASE Cardinality(found) = 1
      <4>1. b \in found /\ Chosen(c, b, cmd[c].name)
        BY <3>1, <3>2, TheOne
      <4> HIDE DEF b
      <4>2. b \in up /\ cmd[c].name \in Rows(b)
        BY <4>1 DEF Candidates
      <4>3. b \in cmd[c].groups
        BY <4>2 DEF Reachable
      <4>4. cmd[c].name \in Names /\ <<StoreOf(b), cmd[c].name>> \in have
        BY <4>2 DEF Rows
      <4> QED BY <4>1, <4>3, <4>4
    <3>3. CASE Cardinality(found) # 1
      BY <3>1, <3>3
    <3> QED BY <3>2, <3>3
  <2>2. CASE Pick(c)
    <3>1. \/ Step(c, Idle)
          \/ \E up \in Reachable(c) : \E b \in up : \E n \in Rows(b) : Chosen(c, b, n)
      BY <2>2 DEF Pick
    <3>2. ASSUME NEW up \in Reachable(c), NEW b \in up, NEW n \in Rows(b), Chosen(c, b, n)
          PROVE  b \in cmd[c].groups /\ n \in Names /\ <<StoreOf(b), n>> \in have
      BY <3>2 DEF Reachable, Rows
    <3> QED BY <3>1, <3>2
  <2> QED BY <2>1, <2>2
<1>4. ASSUME NEW b \in cmd[c].groups, NEW n \in Names, <<StoreOf(b), n>> \in have, Chosen(c, b, n)
      PROVE  TargetsInv' /\ (RememberInv => RememberInv')
  BY <1>1, <1>4, ChosenStep
<1> QED BY <1>2, <1>3, <1>4

LEMMA CreateStep ==
  ASSUME TargetsInv, NEW c \in Commands, Create(c)
  PROVE  TargetsInv' /\ (RememberInv => RememberInv')
<1>1. /\ file' = file /\ lock' = lock /\ logins' = logins /\ spaces' = spaces
      /\ proofs' = proofs /\ probes' = probes /\ now' = now /\ events' = events
      /\ proved' = proved /\ runs' = runs /\ cmd[c].pc = "listing"
  BY DEF Create, disk, checks, At
<1>2. PICK b \in cmd[c].groups, n \in Names :
         LET store == CreatesIn(c, b) IN
         /\ have' = have \cup {<<StoreOf(store), n>>}
         /\ Step(c, Idle) \/ Chosen(c, store, n)
  BY DEF Create
<1> DEFINE store == CreatesIn(c, b)
<1>3. store \in cmd[c].groups
  <2>1. CASE b.kind = "s3" /\ \E d \in cmd[c].groups : d.current
    <3> DEFINE e == CHOOSE d \in cmd[c].groups : d.current
    <3>1. e \in cmd[c].groups
      BY <2>1
    <3>2. store = e
      BY <2>1 DEF CreatesIn
    <3> HIDE DEF e, store
    <3> QED BY <3>1, <3>2
  <2>2. CASE ~(b.kind = "s3" /\ \E d \in cmd[c].groups : d.current)
    BY <2>2 DEF CreatesIn
  <2> QED BY <2>1, <2>2
<1>4. have \subseteq have' /\ <<StoreOf(store), n>> \in have' /\ (Step(c, Idle) \/ Chosen(c, store, n))
  BY <1>2
<1> HIDE DEF store
<1>5. CASE Step(c, Idle)
  BY <1>1, <1>4, <1>5, IdleStep, IdleRemember DEF Locked
<1>6. CASE Chosen(c, store, n)
  BY <1>1, <1>3, <1>4, <1>6, ChosenStep
<1> QED BY <1>4, <1>5, <1>6

LEMMA SelectStep ==
  ASSUME TargetsInv, NEW c \in Commands, SelectHosted(c)
  PROVE  TargetsInv' /\ (RememberInv => RememberInv')
<1> DEFINE x == cmd[c]
           b == x.backend
           r == [x EXCEPT !.pc = "clearing"]
<1>1. /\ file' = file /\ lock' = lock /\ logins' = logins /\ have' = have
      /\ proofs' = proofs /\ probes' = probes /\ now' = now /\ events' = events
      /\ proved' = proved /\ runs' = runs /\ x.pc = "selecting" /\ b.kind = "hosted"
      /\ \/ /\ logins[b.endpoint].key = b.key
            /\ spaces' = [spaces EXCEPT ![b.endpoint] = x.name] /\ Step(c, r)
         \/ Step(c, Idle) /\ spaces' = spaces
  BY DEF SelectHosted, MayStoreDefault, disk, checks, At, Goto
<1>2. /\ TypeOK /\ proofs \subseteq probes /\ runs \in Nat /\ x \in ChoiceRecords
      /\ BackendOK(b, logins) /\ <<StoreOf(b), x.name>> \in have
      /\ file \in Files /\ now \in Nat /\ events \in Nat
      /\ spaces \in [Endpoints -> Names \cup {Empty}] /\ lock # c
  BY <1>1, TypeOfCommand, PlaceType DEF TypeOK
<1>3. CASE Step(c, Idle) /\ spaces' = spaces
  BY <1>1, <1>3, IdleStep, IdleRemember DEF Locked
<1>4. CASE /\ logins[b.endpoint].key = b.key
           /\ spaces' = [spaces EXCEPT ![b.endpoint] = x.name] /\ Step(c, r)
  <2>1. /\ r \in ChoiceRecords /\ r.pc = "clearing" /\ r.backend = b /\ r.name = x.name
        /\ x.name \in Names
    BY <1>2 DEF ChoiceRecords
  <2>2. b.endpoint \in Endpoints /\ b.account = logins[b.endpoint].account
    BY <1>1, <1>2, <1>4 DEF BackendOK
  <2>3. <<Account(logins[b.endpoint].account), x.name>> \in have
    BY <1>1, <1>2, <2>2 DEF StoreOf
  <2>4. SpacesOK(spaces, logins, have)
    BY DEF TargetsInv
  <2> HIDE DEF r, b, x
  <2>5. spaces' \in [Endpoints -> Names \cup {Empty}] /\ SpacesOK(spaces', logins, have')
    BY <1>1, <1>2, <1>4, <2>1, <2>2, <2>3, <2>4 DEF SpacesOK
  <2>6. r \in CmdRecords /\ r \notin NotebookRecords /\ CommandOK(r, proved', probes', logins, have')
    BY <1>1, <1>2, <2>1, SpaceIs, NotebookPlace
  <2>7. SetOK(Load(file').set, proved', have') /\ SnapOK(r, file')
    BY <1>1, <2>1 DEF TargetsInv, SnapOK, Locked
  <2>8. TargetsInv'
    BY <1>1, <1>2, <1>4, <2>1, <2>5, <2>6, <2>7, CommandStep DEF Locked
  <2>9. RememberInv => RememberInv'
    BY <1>1, <1>4, <2>6, SpaceRemember
  <2> QED BY <2>8, <2>9
<1> QED BY <1>1, <1>3, <1>4

LEMMA LockDefaultsStep ==
  ASSUME TargetsInv, NEW c \in Commands, LockDefaults(c)
  PROVE  TargetsInv' /\ (RememberInv => RememberInv')
<1> DEFINE x == cmd[c]
           read == Load(file)
           s == [x EXCEPT !.pc = "editing", !.snap = read.set]
<1>1. /\ file' = file /\ logins' = logins /\ spaces' = spaces /\ have' = have
      /\ proofs' = proofs /\ probes' = probes /\ now' = now /\ events' = events
      /\ proved' = proved /\ runs' = runs /\ x.pc \in {"selecting", "clearing"} /\ lock = Nobody
      /\ \/ Step(c, Idle) /\ lock' = lock
         \/ Step(c, s) /\ lock' = c /\ read.ok
  BY DEF LockDefaults, site, checks, At, MayLock
<1>2. /\ TypeOK /\ proofs \subseteq probes /\ runs \in Nat /\ x \in ChoiceRecords
      /\ BackendOK(x.backend, logins) /\ <<StoreOf(x.backend), x.name>> \in have
      /\ file \in Files /\ now \in Nat /\ events \in Nat
      /\ spaces \in [Endpoints -> Names \cup {Empty}]
  BY <1>1, TypeOfCommand, PlaceType DEF TypeOK
<1>3. CASE Step(c, Idle) /\ lock' = lock
  BY <1>1, <1>3, IdleStep, IdleRemember DEF Locked
<1>4. CASE Step(c, s) /\ lock' = c /\ read.ok
  <2>1. read.set \in Sets
    BY <1>2, LoadGood
  <2>2. /\ s \in ChoiceRecords /\ s.pc = "editing" /\ s.backend = x.backend /\ s.name = x.name
        /\ s.snap = read.set
    <3> HIDE DEF read
    <3> QED BY <1>2, <2>1 DEF ChoiceRecords
  <2> HIDE DEF s
  <2>3. s \in CmdRecords /\ s \notin NotebookRecords /\ CommandOK(s, proved', probes', logins, have')
    BY <1>1, <1>2, <2>2, SpaceIs, NotebookPlace
  <2>4. SnapOK(s, file')
    BY <1>1, <1>4, <2>2 DEF SnapOK
  <2>5. SetOK(Load(file').set, proved', have') /\ SpacesOK(spaces', logins, have')
    BY <1>1 DEF TargetsInv
  <2>6. TargetsInv'
    BY <1>1, <1>2, <1>4, <2>2, <2>3, <2>4, <2>5, CommandStep DEF Locked
  <2>7. RememberInv => RememberInv'
    BY <1>1, <1>4, <2>3, SpaceRemember
  <2> QED BY <2>6, <2>7
<1> QED BY <1>1, <1>3, <1>4

\* What the file holds after the defaults were edited.
LEMMA DefaultsSaved ==
  ASSUME TargetsInv, NEW c \in Commands, cmd[c].pc = "editing",
         NEW new, new = IF cmd[c].backend.kind = "s3" THEN PutDefault(cmd[c].snap, DefaultTarget(c))
                                                      ELSE ClearDefaults(cmd[c].snap)
  PROVE  /\ Encode(new) \in Files /\ Load(Encode(new)) = Read(new) /\ Load(file).ok
         /\ new.entries = Load(file).set.entries
         /\ SetOK(new, proved, have)
<1> DEFINE x == cmd[c]
           b == x.backend
           set == Load(file).set
           t == DefaultTarget(c)
           ds == IF b.kind = "s3" THEN <<t>> ELSE <<>>
<1>1. /\ TypeOK /\ x \in ChoiceRecords /\ SnapOK(x, file) /\ file \in Files
      /\ <<StoreOf(b), x.name>> \in have
  BY TypeOfCommand, PlaceType DEF TypeOK
<1>2. Load(file).ok /\ x.snap = set
  BY <1>1 DEF SnapOK, Locked
<1>3. set \in Sets /\ GoodSet(set) /\ SetOK(set, proved, have)
  BY <1>1, LoadGood DEF TargetsInv
<1>4. /\ t = [kind |-> "s3", endpoint |-> b.endpoint, profile |-> b.profile, name |-> x.name,
              prefix |-> x.prefix, pathStyle |-> b.pathStyle]
  BY DEF DefaultTarget, S3Target
<1>5. /\ b \in BackendRecords /\ x.name \in Names /\ x.prefix \in Texts
  BY <1>1 DEF ChoiceRecords
<1> HIDE DEF t, x, b
<1>6. t \in TargetRecords /\ GoodTarget(t) /\ t.kind = "s3"
  BY <1>4, <1>5, TextsOK DEF TargetRecords, BackendRecords, GoodTarget
<1>7. b.kind = "s3" => <<Key(t), t.name>> \in have
  <2>1. Key(t) = Key(b) /\ t.name = x.name
    BY <1>4 DEF Key
  <2> QED BY <1>1, <2>1 DEF StoreOf
<1>8. new = [set EXCEPT !.defaults = ds]
  BY <1>2 DEF PutDefault, ClearDefaults, t, x, b
<1>9. /\ ds \in Seq(TargetRecords)
      /\ \A n \in DOMAIN ds : ds[n] = t /\ b.kind = "s3"
  <2>1. CASE b.kind = "s3"
    <3>1. ds = <<t>>
      BY <2>1
    <3> QED BY <1>6, <2>1, <3>1
  <2>2. CASE b.kind # "s3"
    <3>1. ds = <<>>
      BY <2>2
    <3> QED BY <3>1
  <2> QED BY <2>1, <2>2
<1> HIDE DEF ds, set
<1>10. new \in Sets /\ new.entries = set.entries /\ new.defaults = ds
  BY <1>3, <1>8, <1>9 DEF Sets
<1>11. GoodSet(new)
  BY <1>3, <1>6, <1>9, <1>10 DEF GoodSet
<1>12. SetOK(new, proved, have)
  BY <1>3, <1>7, <1>9, <1>10 DEF SetOK
<1> QED BY <1>2, <1>10, <1>11, <1>12, LoadEncode DEF set

LEMMA SaveDefaultsStep ==
  ASSUME TargetsInv, NEW c \in Commands, SaveDefaults(c)
  PROVE  TargetsInv' /\ (RememberInv => RememberInv')
<1> DEFINE x == cmd[c]
           new == IF x.backend.kind = "s3" THEN PutDefault(x.snap, DefaultTarget(c))
                                           ELSE ClearDefaults(x.snap)
<1>1. /\ logins' = logins /\ spaces' = spaces /\ have' = have
      /\ proofs' = proofs /\ probes' = probes /\ now' = now /\ events' = events
      /\ proved' = proved /\ runs' = runs /\ x.pc = "editing" /\ lock' = Nobody
      /\ Step(c, Idle) /\ (file' = Encode(new) \/ file' = file)
  BY DEF SaveDefaults, site, checks, At
<1>2. /\ TypeOK /\ proofs \subseteq probes /\ runs \in Nat /\ file \in Files /\ now \in Nat
      /\ events \in Nat /\ spaces \in [Endpoints -> Names \cup {Empty}] /\ lock = c
  BY <1>1, TypeOfCommand DEF TypeOK
<1>3. /\ Encode(new) \in Files /\ Load(Encode(new)) = Read(new)
      /\ new.entries = Load(file).set.entries /\ SetOK(new, proved, have)
  BY <1>1, DefaultsSaved
<1> HIDE DEF new
<1>4. file' \in Files /\ SetOK(Load(file').set, proved', have')
      /\ Load(file').set.entries = Load(file).set.entries
  <2>1. SetOK(Load(file).set, proved, have)
    BY DEF TargetsInv
  <2> QED BY <1>1, <1>2, <1>3, <2>1 DEF Read
<1>5. /\ Idle \in CmdRecords /\ Idle.pc \notin Locked /\ Idle \notin NotebookRecords
      /\ CommandOK(Idle, proved', probes', logins, have') /\ SnapOK(Idle, file')
  BY IdleOK, NotebookPlace DEF Locked, SnapOK
<1>6. SpacesOK(spaces', logins, have')
  BY <1>1 DEF TargetsInv
<1>7. TargetsInv'
  BY <1>1, <1>2, <1>4, <1>5, <1>6, CommandStep
<1>8. RememberInv => RememberInv'
  BY <1>1, <1>5, SpaceRemember
<1> QED BY <1>7, <1>8

-----------------------------------------------------------------------------
(* The world around the commands.                                          *)

LEMMA WorldStep ==
  ASSUME TargetsInv, cmd' = cmd, lock' = lock, have' = have,
         proved' = proved, probes' = probes, proofs' = proofs,
         file' \in Files, file' = file \/ lock = Nobody, SetOK(Load(file').set, proved, have),
         logins' \in [Endpoints -> LoginRecords], Onward(logins, logins'),
         spaces' \in [Endpoints -> Names \cup {Empty}], SpacesOK(spaces', logins', have),
         now' \in Nat, runs' \in Nat, events' \in Nat
  PROVE  TargetsInv'
<1>1. /\ TypeOK /\ logins \in [Endpoints -> LoginRecords]
      /\ \A d \in Commands : cmd[d].pc \in Locked <=> lock = d
      /\ \A d \in Commands : SnapOK(cmd[d], file)
      /\ \A d \in Commands : CommandOK(cmd[d], proved, probes, logins, have)
  BY DEF TargetsInv, TypeOK, Locked
<1>2. TypeOK'
  BY <1>1 DEF TypeOK
<1>3. \A d \in Commands : SnapOK(cmd[d], file')
  <2>1. CASE lock = Nobody
    BY <1>1, <2>1, TargetsAssumption DEF SnapOK
  <2> QED BY <1>1, <2>1
<1>4. \A d \in Commands : CommandOK(cmd[d], proved, probes, logins', have)
  BY <1>1, CommandKept
<1> QED BY <1>2, <1>3, <1>4 DEF TargetsInv

LEMMA WorldRemember ==
  ASSUME RememberInv, cmd' = cmd, proved' = proved
  PROVE  RememberInv'
  BY DEF RememberInv

LEMMA LoginSteps ==
  ASSUME TargetsInv, NEW e \in Endpoints, Relogin(e) \/ Expire(e)
  PROVE  TargetsInv' /\ (RememberInv => RememberInv')
<1>1. /\ file' = file /\ lock' = lock /\ have' = have /\ cmd' = cmd
      /\ proofs' = proofs /\ probes' = probes /\ now' = now /\ events' = events + 1
      /\ proved' = proved /\ runs' = runs
  BY DEF Relogin, Expire, disk, checks
<1>2. /\ TypeOK /\ logins \in [Endpoints -> LoginRecords]
      /\ spaces \in [Endpoints -> Names \cup {Empty}] /\ runs \in Nat /\ now \in Nat
      /\ events \in Nat /\ file \in Files
      /\ SetOK(Load(file).set, proved, have) /\ SpacesOK(spaces, logins, have)
  BY DEF TargetsInv, TypeOK
<1>3. logins[e] \in LoginRecords /\ logins[e].key \in Nat /\ \A d \in Endpoints : logins[d].key \in Nat
  BY <1>2 DEF LoginRecords
<1>4. /\ logins' \in [Endpoints -> LoginRecords] /\ Onward(logins, logins')
      /\ spaces' \in [Endpoints -> Names \cup {Empty}] /\ SpacesOK(spaces', logins', have)
  <2>1. CASE Relogin(e)
    <3>1. PICK a \in Accounts, n \in Names \cup {Empty} :
             /\ n # Empty => <<Account(a), n>> \in have
             /\ logins' = [logins EXCEPT ![e] = [key |-> logins[e].key + 1, account |-> a,
                                                 usable |-> TRUE, write |-> TRUE]]
             /\ spaces' = [spaces EXCEPT ![e] = n]
      BY <2>1, <1>2 DEF Relogin
    <3> DEFINE l == [key |-> logins[e].key + 1, account |-> a, usable |-> TRUE, write |-> TRUE]
    <3>2. l \in LoginRecords /\ l.key = logins[e].key + 1 /\ l.account = a
      BY <1>3 DEF LoginRecords
    <3>3. logins' = [logins EXCEPT ![e] = l]
      BY <3>1
    <3> HIDE DEF l
    <3>4. /\ logins' \in [Endpoints -> LoginRecords] /\ logins'[e] = l
          /\ \A d \in Endpoints : d # e => logins'[d] = logins[d]
      BY <1>2, <3>2, <3>3
    <3>5. Onward(logins, logins')
      BY <1>3, <3>2, <3>4 DEF Onward
    <3>6. /\ spaces' \in [Endpoints -> Names \cup {Empty}] /\ spaces'[e] = n
          /\ \A d \in Endpoints : d # e => spaces'[d] = spaces[d]
      BY <1>2, <3>1
    <3>7. SpacesOK(spaces', logins', have)
      BY <1>2, <3>1, <3>2, <3>4, <3>6 DEF SpacesOK
    <3> QED BY <3>4, <3>5, <3>6, <3>7
  <2>2. CASE Expire(e)
    <3>1. logins' = [logins EXCEPT ![e].usable = FALSE] /\ spaces' = spaces
      BY <2>2 DEF Expire
    <3> DEFINE l == [logins[e] EXCEPT !.usable = FALSE]
    <3>2. l \in LoginRecords /\ l.key = logins[e].key /\ l.account = logins[e].account
      BY <1>3 DEF LoginRecords
    <3>3. logins' = [logins EXCEPT ![e] = l]
      BY <3>1
    <3> HIDE DEF l
    <3>4. /\ logins' \in [Endpoints -> LoginRecords] /\ logins'[e] = l
          /\ \A d \in Endpoints : d # e => logins'[d] = logins[d]
      BY <1>2, <3>2, <3>3
    <3>5. Onward(logins, logins')
      BY <1>3, <3>2, <3>4 DEF Onward
    <3>6. \A d \in Endpoints : logins'[d].account = logins[d].account
      BY <3>2, <3>4
    <3>7. SpacesOK(spaces', logins', have)
      BY <1>2, <3>1, <3>6 DEF SpacesOK
    <3> QED BY <1>2, <3>1, <3>4, <3>5, <3>7
  <2> QED BY <2>1, <2>2
<1>5. TargetsInv'
  BY <1>1, <1>2, <1>4, WorldStep
<1>6. RememberInv => RememberInv'
  BY <1>1, WorldRemember
<1> QED BY <1>5, <1>6

\* A file of a newer version is read as nothing.
LEMMA NewerFile ==
  ASSUME NEW f \in Files
  PROVE  LET g == [f EXCEPT !.version = 3] IN
         g \in Files /\ g.version = 3 /\ Load(g).set = EmptySet
<1> DEFINE g == [f EXCEPT !.version = 3]
<1>1. g \in Files /\ g.version = 3
  BY DEF Files
<1> HIDE DEF g
<1>2. g # NoFile
  BY <1>1 DEF NoFile
<1>3. Load(g) = Malformed
  BY <1>1, <1>2 DEF Load
<1> QED BY <1>1, <1>3 DEF Malformed, g

LEMMA OtherSteps ==
  ASSUME TargetsInv, SetClock \/ NewerBuild \/ UNCHANGED vars
  PROVE  TargetsInv' /\ (RememberInv => RememberInv')
<1>1. /\ TypeOK /\ logins \in [Endpoints -> LoginRecords]
      /\ spaces \in [Endpoints -> Names \cup {Empty}] /\ runs \in Nat /\ now \in Nat
      /\ events \in Nat /\ file \in Files
      /\ SetOK(Load(file).set, proved, have) /\ SpacesOK(spaces, logins, have)
  BY DEF TargetsInv, TypeOK
<1>2. /\ lock' = lock /\ have' = have /\ cmd' = cmd /\ logins' = logins /\ spaces' = spaces
      /\ proofs' = proofs /\ probes' = probes /\ proved' = proved /\ runs' = runs
  BY DEF SetClock, NewerBuild, vars, disk, site, checks
<1>3. Onward(logins, logins')
  BY <1>1, <1>2 DEF Onward, LoginRecords
<1>4. CASE SetClock \/ UNCHANGED vars
  <2>1. file' = file /\ now' \in Nat /\ events' \in Nat
    BY <1>1, <1>4, TargetsAssumption DEF SetClock, vars, disk
  <2>2. TargetsInv'
    BY <1>1, <1>2, <1>3, <2>1, WorldStep
  <2> QED BY <1>2, <2>2, WorldRemember
<1>5. CASE NewerBuild
  <2>1. /\ file' = [file EXCEPT !.version = 3] /\ lock = Nobody /\ now' = now /\ events' \in Nat
    BY <1>1, <1>5 DEF NewerBuild, checks
  <2>2. file' \in Files /\ Load(file').set = EmptySet
    BY <1>1, <2>1, NewerFile
  <2>3. DOMAIN EmptySet.entries = {} /\ DOMAIN EmptySet.defaults = {}
    BY DEF EmptySet
  <2>4. SetOK(Load(file').set, proved, have)
    BY <2>2, <2>3 DEF SetOK
  <2>5. TargetsInv'
    BY <1>1, <1>2, <1>3, <2>1, <2>2, <2>4, WorldStep
  <2> QED BY <1>2, <2>4, <2>5, WorldRemember
<1> QED BY <1>4, <1>5

-----------------------------------------------------------------------------
(* The invariant, and what it gives.                                       *)

LEMMA InvInit == Init => TargetsInv
<1> SUFFICES ASSUME Init PROVE TargetsInv
  OBVIOUS
<1>1. file \in FirstFiles /\ file \in Files
  BY TargetsAssumption DEF Init
<1>2. PICK s \in FirstLogins : logins = s.logins /\ spaces = s.spaces
  BY DEF Init
<1>3. /\ logins \in [Endpoints -> LoginRecords] /\ spaces \in [Endpoints -> Names \cup {Empty}]
      /\ SpacesOK(spaces, logins, have)
  BY <1>2, TargetsAssumption DEF Init, SpacesOK
<1>4. SetOK(Load(file).set, proved, have)
  <2> DEFINE set == Load(file).set
  <2>1. \A n \in DOMAIN set.defaults : <<Key(set.defaults[n]), set.defaults[n].name>> \in have
    BY <1>1, TargetsAssumption DEF Init
  <2>2. proved = {<<set.entries[n].path, set.entries[n].target>> : n \in DOMAIN set.entries}
    BY DEF Init
  <2> HIDE DEF set
  <2>3. \A n \in DOMAIN set.entries : <<set.entries[n].path, set.entries[n].target>> \in proved
    BY <2>2
  <2> QED BY <2>1, <2>3 DEF SetOK, set
<1>5. cmd = [c \in Commands |-> Idle] /\ lock = Nobody /\ Nobody \notin Commands
  BY TargetsAssumption DEF Init
<1>6. Idle.pc = "idle" /\ Idle \in CmdRecords
  BY IdleOK
<1>7. TypeOK
  BY <1>1, <1>3, <1>5, <1>6 DEF Init, TypeOK, CmdRecords
<1>8. \A c \in Commands : SnapOK(cmd[c], file) /\ CommandOK(cmd[c], proved, probes, logins, have)
  BY <1>5, <1>6, IdleOK DEF SnapOK, Locked
<1>9. proofs \subseteq probes
  BY DEF Init
<1> QED BY <1>3, <1>4, <1>7, <1>8, <1>9 DEF TargetsInv

LEMMA InvNext ==
  ASSUME TargetsInv, [Next]_vars
  PROVE  TargetsInv' /\ (RememberInv => RememberInv')
<1>1. ASSUME NEW c \in Commands,
             \/ Start(c) \/ BuildLogin(c) \/ ResolveHostedSpace(c)
             \/ ReuseProof(c) \/ Probe(c) \/ CheckAccess(c)
             \/ Operate(c) \/ LockRecord(c) \/ SaveRecord(c) \/ Exit(c) \/ Crash(c)
      PROVE  TargetsInv' /\ (RememberInv => RememberInv')
  BY <1>1, StartStep, BuildStep, ResolveStep, CheckSteps, OperateStep, LockRecordStep,
     SaveRecordStep, EndSteps
<1>2. ASSUME NEW c \in Commands,
             \/ SpaceStart(c) \/ SetDefaultFrom(c) \/ Pick(c) \/ Create(c)
             \/ SelectHosted(c) \/ LockDefaults(c) \/ SaveDefaults(c)
      PROVE  TargetsInv' /\ (RememberInv => RememberInv')
  BY <1>2, SpaceStartStep, ChooseSteps, CreateStep, SelectStep, LockDefaultsStep, SaveDefaultsStep
<1>3. ASSUME NEW e \in Endpoints, Relogin(e) \/ Expire(e)
      PROVE  TargetsInv' /\ (RememberInv => RememberInv')
  BY <1>3, LoginSteps
<1>4. ASSUME SetClock \/ NewerBuild \/ UNCHANGED vars
      PROVE  TargetsInv' /\ (RememberInv => RememberInv')
  BY <1>4, OtherSteps
<1> QED BY <1>1, <1>2, <1>3, <1>4 DEF Next

\* TargetsInv is an invariant: what each process holds of the settings, the
\* logins and the probes agrees with them, at every step of every other process.
THEOREM TargetsInvariant == Spec => []TargetsInv
<1>1. Init => TargetsInv
  BY InvInit
<1>2. TargetsInv /\ [Next]_vars => TargetsInv'
  BY InvNext
<1> QED BY <1>1, <1>2, PTL DEF Spec

\* checkStoreWithProof: a process works on an S3 store only with a successful
\* probe of that store, in that addressing mode, young enough when it began,
\* though the clock is set and proofs are replaced meanwhile.
THEOREM StoresProbed == Spec => []StoreWasProbed
<1>1. TargetsInv => StoreWasProbed
  <2> SUFFICES ASSUME TargetsInv, NEW c \in Commands, cmd[c].pc = "working", cmd[c].cfg.kind = "s3"
               PROVE  \E p \in probes : /\ p.store = ProbedStore(cmd[c].cfg)
                                        /\ p.at <= cmd[c].at /\ cmd[c].at - p.at <= TTL
    BY DEF StoreWasProbed, At
  <2>1. Checked(cmd[c], probes)
    BY TypeOfCommand, PlaceType
  <2> QED BY <2>1 DEF Checked
<1> QED BY <1>1, TargetsInvariant, PTL

\* SetDefault: the stored defaults name targets their own identity reaches, for
\* any number of logins replaced while spaces are listed, created and selected.
THEOREM DefaultsStayReachable == Spec => []DefaultsReachable
<1>1. TargetsInv => DefaultsReachable
  BY DEF TargetsInv, SetOK, SpacesOK, DefaultsReachable
<1> QED BY <1>1, TargetsInvariant, PTL

LEMMA WritesLocal ==
  ASSUME TargetsInv, Next
  PROVE  WritesAreLocal /\ RecordStable
<1>1. RecordStable
  <2> SUFFICES ASSUME NEW c \in Commands, cmd[c].pc = "saving" PROVE cmd[c].saw = NoTarget
    BY DEF RecordStable, At
  <2>1. cmd[c] \in NotebookRecords /\ Recording(cmd[c], proved)
    BY TypeOfCommand, PlaceType
  <2> QED BY <2>1 DEF Recording
<1>2. ASSUME NEW c \in Commands, SaveRecord(c), file' # file
      PROVE  WritesAreLocal
  <2> DEFINE x == cmd[c]
             new == Put(x.snap, x.dir, TargetOf(x.cfg))
             old == Load(file).set
  <2>1. x.pc = "saving" /\ file' = Encode(new)
    BY <1>2 DEF SaveRecord, At
  <2>2. /\ Load(Encode(new)) = Read(new) /\ Load(file).ok /\ x.dir \in Dirs
        /\ new.defaults = old.defaults
        /\ Lookup(new, x.dir) # Lookup(old, x.dir)
        /\ \A e : e # x.dir => Lookup(new, e) = Lookup(old, e)
    BY <2>1, RecordSaved
  <2>3. file.version # 3
    BY <2>2, TypeOfCommand, LoadGood DEF TypeOK
  <2>4. file'.version = 2
    BY <2>1 DEF Encode
  <2> HIDE DEF new, old
  <2>5. Load(file').set = new
    BY <2>1, <2>2 DEF Read
  <2>6. {d \in Dirs : Lookup(old, d) # Lookup(new, d)} = {x.dir}
    BY <2>2
  <2>7. Cardinality({d \in Dirs : Lookup(old, d) # Lookup(new, d)}) = 1
    BY <2>6, FS_Singleton
  <2> QED BY <2>2, <2>3, <2>4, <2>5, <2>7 DEF WritesAreLocal, old
<1>3. ASSUME NEW c \in Commands, SaveDefaults(c), file' # file
      PROVE  WritesAreLocal
  <2> DEFINE x == cmd[c]
             new == IF x.backend.kind = "s3" THEN PutDefault(x.snap, DefaultTarget(c))
                                             ELSE ClearDefaults(x.snap)
  <2>1. x.pc = "editing" /\ file' = Encode(new)
    BY <1>3 DEF SaveDefaults, At
  <2>2. /\ Load(Encode(new)) = Read(new) /\ Load(file).ok
        /\ new.entries = Load(file).set.entries
    BY <2>1, DefaultsSaved
  <2>3. file.version # 3
    BY <2>2, TypeOfCommand, LoadGood DEF TypeOK
  <2>4. file'.version = 2
    BY <2>1 DEF Encode
  <2> HIDE DEF new
  <2>5. Load(file').set = new
    BY <2>1, <2>2 DEF Read
  <2> QED BY <2>2, <2>3, <2>4, <2>5 DEF WritesAreLocal
<1>4. CASE NewerBuild
  <2>1. file' = [file EXCEPT !.version = 3] /\ file \in Files
    BY <1>4 DEF NewerBuild, TargetsInv, TypeOK
  <2>2. file'.version = 3
    BY <2>1, NewerFile
  <2> QED BY <1>1, <2>2 DEF WritesAreLocal
<1>5. CASE file' = file
  <2>1. WritesAreLocal
    BY <1>5, Zenon DEF WritesAreLocal
  <2> QED BY <1>1, <2>1
<1>6. \/ file' = file \/ NewerBuild
      \/ \E c \in Commands : SaveRecord(c) \/ SaveDefaults(c)
  BY Zenon DEF Next, Start, BuildLogin, ResolveHostedSpace, ReuseProof, Probe, CheckAccess,
         Operate, LockRecord, Exit, Crash, SpaceStart, SetDefaultFrom, Pick, Create,
         SelectHosted, LockDefaults, Relogin, Expire, SetClock, disk
<1> QED BY <1>1, <1>2, <1>3, <1>4, <1>5, <1>6

\* storeEntry and editDefaults: each write changes one directory's record or the
\* defaults and keeps all else, never a file of a newer version, and no command
\* changes the record of a directory in which it saw one.
THEOREM RecordsStayKept == Spec => RecordsKept
<1>1. TargetsInv /\ [Next]_vars => [WritesAreLocal /\ RecordStable]_vars
  BY WritesLocal
<1> QED BY <1>1, TargetsInvariant, PTL DEF Spec, RecordsKept

\* rememberSpace and resolveStorage: a command that names nothing in a directory
\* with a record follows a record an earlier operation there proved, to the same
\* backend, name and profile and, where the record is complete, to exactly that
\* notebook; or it refuses.
THEOREM NotebooksRemembered == Spec => []RememberedNotebook
<1>1. Init => TargetsInv /\ RememberInv
  <2> SUFFICES ASSUME Init PROVE RememberInv
    BY InvInit
  <2>1. \A c \in Commands : cmd[c] = Idle
    BY DEF Init
  <2>2. Idle \notin NotebookRecords
    BY NotebookPlace DEF Idle
  <2> QED BY <2>1, <2>2 DEF RememberInv, RememberOK
<1>2. TargetsInv /\ RememberInv /\ [Next]_vars => (TargetsInv /\ RememberInv)'
  BY InvNext
<1>3. TargetsInv /\ RememberInv => RememberedNotebook
  <2> SUFFICES ASSUME TargetsInv, RememberInv, NEW c \in Commands,
                      cmd[c].pc \in {"building", "checking", "working"},
                      cmd[c].bare, cmd[c].saw # NoTarget
               PROVE  /\ FollowsRecord(cmd[c].cfg, cmd[c].saw)
                      /\ <<cmd[c].dir, cmd[c].saw>> \in proved
    BY DEF RememberedNotebook, Follows
  <2>1. cmd[c] \in NotebookRecords
    BY TypeOfCommand, PlaceType
  <2>2. cmd[c].bare = TRUE
    BY <2>1 DEF NotebookRecords
  <2> QED BY <2>1, <2>2 DEF RememberInv, RememberOK
<1> QED BY <1>1, <1>2, <1>3, PTL DEF Spec
=============================================================================
