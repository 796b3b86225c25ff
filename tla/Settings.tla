------------------------------ MODULE Settings ------------------------------
(***************************************************************************)
(* The scoped settings file workspaces.json (src/internal/settings): what  *)
(* a file of each version decodes to, and the pure edits of the decoded    *)
(* set.  A file is its version, its entries and its stored defaults, in    *)
(* file order; an empty string is an empty field.                          *)
(***************************************************************************)
EXTENDS Naturals, Sequences, SequencesExt, FiniteSets

Empty == ""                     \* an empty field
Unset == "unset"                \* a flag that was not given

NoTarget == [kind |-> "none", endpoint |-> Empty, profile |-> Empty, name |-> Empty,
             prefix |-> Empty, pathStyle |-> FALSE]
HostedTarget(name, prefix) ==
    [kind |-> "hosted", endpoint |-> Empty, profile |-> Empty, name |-> name,
     prefix |-> prefix, pathStyle |-> FALSE]
S3Target(endpoint, profile, name, prefix, pathStyle) ==
    [kind |-> "s3", endpoint |-> endpoint, profile |-> profile, name |-> name,
     prefix |-> prefix, pathStyle |-> pathStyle]

\* The store identity around a target: one listing group per key.
Key(t) == [endpoint |-> t.endpoint, profile |-> t.profile]

EmptySet == [entries |-> <<>>, defaults |-> <<>>]
NoFile == [version |-> 0, entries |-> <<>>, defaults |-> <<>>]
Malformed == [ok |-> FALSE, set |-> EmptySet]
Read(set) == [ok |-> TRUE, set |-> set]

-----------------------------------------------------------------------------
(* The decoder.  A version-1 target is a hosted space without an endpoint; *)
(* a version this build does not know is not read.                         *)
GoodTarget(t) ==
    /\ t.kind \in {"hosted", "s3"} /\ t.name # Empty
    /\ t.kind = "hosted" => t.profile = Empty /\ ~t.pathStyle

GoodEntries(entries) ==
    /\ \A n \in DOMAIN entries : entries[n].path # Empty /\ entries[n].target.name # Empty
    /\ \A m, n \in DOMAIN entries : entries[m].path = entries[n].path => m = n

DecodeV1(file) ==
    IF GoodEntries(file.entries)
    THEN Read([entries |-> [n \in DOMAIN file.entries |->
                               [path |-> file.entries[n].path,
                                target |-> HostedTarget(file.entries[n].target.name,
                                                        file.entries[n].target.prefix)]],
               defaults |-> <<>>])
    ELSE Malformed

DecodeV2(file) ==
    IF /\ GoodEntries(file.entries)
       /\ \A n \in DOMAIN file.entries : GoodTarget(file.entries[n].target)
       /\ \A n \in DOMAIN file.defaults :
             GoodTarget(file.defaults[n]) /\ file.defaults[n].kind # "hosted"
    THEN Read([entries |-> file.entries, defaults |-> file.defaults])
    ELSE Malformed

\* The mutated form reads a newer file as if it were of this version.
MutantLoad(file) ==
    CASE file = NoFile -> Read(EmptySet)
      [] file.version = 1 -> DecodeV1(file)
      [] OTHER -> DecodeV2(file)

Load(file) ==
    CASE file = NoFile -> Read(EmptySet)
      [] file.version = 1 -> DecodeV1(file)
      [] file.version = 2 -> DecodeV2(file)
      [] OTHER -> Malformed

\* Every save writes version 2, with the defaults list even when it is empty.
Encode(set) == [version |-> 2, entries |-> set.entries, defaults |-> set.defaults]

-----------------------------------------------------------------------------
(* The decoded set.                                                        *)
Paths(set) == {set.entries[n].path : n \in DOMAIN set.entries}
Lookup(set, path) ==
    IF path \in Paths(set)
    THEN set.entries[CHOOSE n \in DOMAIN set.entries : set.entries[n].path = path].target
    ELSE NoTarget

\* An entry of the same path is replaced where it stands; a new one is appended.
Put(set, path, target) ==
    IF path \in Paths(set)
    THEN [set EXCEPT !.entries =
             [n \in DOMAIN set.entries |->
                 IF set.entries[n].path = path THEN [path |-> path, target |-> target]
                                               ELSE set.entries[n]]]
    ELSE [set EXCEPT !.entries = Append(@, [path |-> path, target |-> target])]

\* The last stored default is the active one.
S3Default(set) == IF set.defaults = <<>> THEN NoTarget ELSE Last(set.defaults)
PutDefault(set, target) == [set EXCEPT !.defaults = <<target>>]
ClearDefaults(set) == [set EXCEPT !.defaults = <<>>]

\* The S3 store keys of the records and the defaults.
RecordedS3Keys(set) ==
    {Key(set.entries[n].target) : n \in {m \in DOMAIN set.entries :
                                            set.entries[m].target.kind = "s3"}}
    \cup {Key(set.defaults[n]) : n \in DOMAIN set.defaults}
=============================================================================
