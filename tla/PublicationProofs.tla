-------------------------- MODULE PublicationProofs --------------------------
(***************************************************************************)
(* Theorems about Publication, for every set of writers and every retry,   *)
(* checkpoint, retention and batch setting.  First the manifests and what  *)
(* rewrites them, type correctness and the safety of cleanup (PackInv);    *)
(* then the history: no publication is lost, doubled or reordered          *)
(* (HistInv), the writers together implement the log of NotebookLog, and   *)
(* every manifest they build is one EncodeManifest accepts (EncodeInv).    *)
(***************************************************************************)
EXTENDS PublicationHistory, PublicationEncode, TLAPS, SequenceTheorems, FiniteSetTheorems

-----------------------------------------------------------------------------
(* What the rewrites of a manifest preserve, for every manifest.           *)

\* Sequences, in the forms the provers use below.
\* An element of a sequence has the sequence's type (increments, retained).
LEMMA ElementType ==
  ASSUME NEW S, NEW s \in Seq(S)
  PROVE  /\ Len(s) \in Nat
         /\ DOMAIN s = 1 .. Len(s)
         /\ \A i \in 1 .. Len(s) : s[i] \in S
         /\ s # <<>> => Len(s) > 0
BY ElementOfSeq, LenProperties, EmptySeq

\* The oldest n elements of a sequence: planCheckpoint's prefix.
LEMMA PrefixType ==
  ASSUME NEW S, NEW s \in Seq(S), NEW n \in Nat, n <= Len(s)
  PROVE  /\ SubSeq(s, 1, n) \in Seq(S)
         /\ Len(SubSeq(s, 1, n)) = n
         /\ \A i \in 1 .. n : SubSeq(s, 1, n)[i] = s[i]
<1>1. \A i \in 1 .. n : s[i] \in S
  BY ElementType
<1> QED
  BY <1>1, SubSeqProperties

\* The elements after the oldest n: the tail compactManifest keeps.
LEMMA SuffixType ==
  ASSUME NEW S, NEW s \in Seq(S), NEW n \in Nat, n <= Len(s)
  PROVE  /\ SubSeq(s, n + 1, Len(s)) \in Seq(S)
         /\ Len(SubSeq(s, n + 1, Len(s))) = Len(s) - n
         /\ \A i \in 1 .. Len(s) - n : SubSeq(s, n + 1, Len(s))[i] = s[n + i]
<1>1. /\ Len(s) \in Nat
      /\ \A i \in n + 1 .. Len(s) : s[i] \in S
  BY ElementType
<1>2. /\ SubSeq(s, n + 1, Len(s)) \in Seq(S)
      /\ Len(SubSeq(s, n + 1, Len(s))) = IF n + 1 <= Len(s) THEN Len(s) - (n + 1) + 1 ELSE 0
      /\ \A i \in 1 .. Len(s) - (n + 1) + 1 : SubSeq(s, n + 1, Len(s))[i] = s[n + 1 + i - 1]
  BY <1>1, SubSeqProperties
<1> QED
  BY <1>1, <1>2

\* A manifest's parts have their types, for any ids and generations.
LEMMA TrimType ==
  ASSUME NEW S, NEW s \in Seq(S), NEW n \in Nat
  PROVE  /\ Trim(s, n) \in Seq(S)
         /\ Len(Trim(s, n)) <= Len(s)
         /\ \A i \in 1 .. Len(Trim(s, n)) : Trim(s, n)[i] = s[i]
<1>1. Len(s) \in Nat
  BY ElementType
<1>2. CASE n < Len(s)
  BY <1>1, <1>2, PrefixType DEF Trim
<1>3. CASE ~(n < Len(s))
  BY <1>1, <1>3 DEF Trim
<1> QED
  BY <1>2, <1>3

\* A proposed increment (buildIncrementProposal) is a manifest.
LEMMA IncrementManifestType ==
  ASSUME NEW IDs, NEW m \in Manifests(IDs, Nat), NEW pub \in IDs
  PROVE  /\ IncrementManifest(m, pub) \in Manifests(IDs, Nat)
         /\ NextIncrementGen(m) \in Nat
         /\ Len(IncrementManifest(m, pub).increments) = Len(m.increments) + 1
<1> DEFINE inc == Increment(NextIncrementGen(m), pub, m.head, pub)
<1>1. /\ m.gen \in Nat /\ m.head \in IDs /\ m.checkpoint.through \in Nat
      /\ m.increments \in Seq(Increments(IDs, Nat))
      /\ Len(m.increments) \in Nat
  BY ElementType DEF Manifests, Checkpoints
<1>2. NextIncrementGen(m) \in Nat
  BY <1>1 DEF NextIncrementGen
<1>3. inc \in Increments(IDs, Nat)
  BY <1>1, <1>2 DEF Increment, Increments, Key, Keys
<1>4. /\ Append(m.increments, inc) \in Seq(Increments(IDs, Nat))
      /\ Len(Append(m.increments, inc)) = Len(m.increments) + 1
  BY <1>1, <1>3, AppendProperties
<1> HIDE DEF inc
<1>5. IncrementManifest(m, pub) =
        [gen |-> m.gen + 1, head |-> pub, checkpoint |-> m.checkpoint,
         increments |-> Append(m.increments, inc), retained |-> m.retained]
  BY DEF IncrementManifest, inc
<1> QED
  BY <1>1, <1>2, <1>4, <1>5 DEF Manifests

\* So is the first publication (buildFirstProposal).
LEMMA FirstManifestType ==
  ASSUME NEW IDs, NEW pub \in IDs, NEW cpID \in IDs
  PROVE  FirstManifest(pub, cpID) \in Manifests(IDs, Nat)
BY EmptySeq DEF FirstManifest, Manifests, Checkpoint, Checkpoints, Key, Keys

\* And the empty notebook (emptyRemote).
LEMMA EmptyManifestType ==
  ASSUME NEW IDs, NoID \in IDs
  PROVE  EmptyManifest \in Manifests(IDs, Nat)
BY EmptySeq DEF EmptyManifest, Manifests, Checkpoint, Checkpoints, Key, Keys

\* A compacting proposal (buildCompactingProposal) is a manifest.
LEMMA CompactingManifestType ==
  ASSUME NEW IDs, NEW m \in Manifests(IDs, Nat), NEW cpID \in IDs, Len(m.increments) > 0
  PROVE  /\ CompactingManifest(m, cpID) \in Manifests(IDs, Nat)
         /\ CompactingManifest(m, cpID).increments = <<>>
<1> DEFINE last == m.increments[Len(m.increments)]
<1>1. last \in Increments(IDs, Nat)
  BY ElementType DEF Manifests
<1>2. Checkpoint(cpID, last.pub, last.gen, last.head) \in Checkpoints(IDs, Nat)
  BY <1>1 DEF Increments, Checkpoint, Checkpoints, Key, Keys
<1>3. CompactingManifest(m, cpID) =
        [gen |-> m.gen, head |-> m.head,
         checkpoint |-> Checkpoint(cpID, last.pub, last.gen, last.head),
         increments |-> <<>>, retained |-> <<>>]
  BY DEF CompactingManifest
<1> HIDE DEF last
<1> QED
  BY <1>2, <1>3, EmptySeq DEF Manifests

\* A checkpoint replacement (compactManifest) is a manifest.
LEMMA CompactManifestType ==
  ASSUME NEW IDs, NEW m \in Manifests(IDs, Nat), NEW cpID \in IDs, NEW keep \in Nat,
         NEW prefix \in Seq(Increments(IDs, Nat)), Len(prefix) > 0,
         Len(prefix) <= Len(m.increments)
  PROVE  CompactManifest(m, prefix, cpID, keep) \in Manifests(IDs, Nat)
<1> DEFINE I    == Increments(IDs, Nat)
           last == PlanLast(prefix)
           rest == SubSeq(m.increments, Len(prefix) + 1, Len(m.increments))
           old  == Retained(m.gen + 1, last.head, m.checkpoint,
                            SubSeq(m.increments, 1, Len(prefix)))
           cp   == Checkpoint(cpID, last.pub, last.gen, last.head)
           head == IF rest = <<>> THEN last.head ELSE rest[Len(rest)].head
<1>1. /\ m.gen \in Nat /\ m.checkpoint \in Checkpoints(IDs, Nat)
      /\ m.increments \in Seq(I)
      /\ m.retained \in Seq(Retireds(IDs, Nat))
  BY DEF Manifests
<1>2. Len(prefix) \in Nat /\ Len(m.increments) \in Nat /\ last \in I
  BY <1>1, ElementType DEF PlanLast
<1>3. last.head \in IDs /\ last.gen \in Nat /\ last.pub \in IDs
  BY <1>2 DEF Increments
<1>4. rest \in Seq(I) /\ SubSeq(m.increments, 1, Len(prefix)) \in Seq(I)
  BY <1>1, <1>2, PrefixType, SuffixType
<1>5. head \in IDs
  <2>1. CASE rest = <<>>
    BY <2>1, <1>3
  <2>2. CASE rest # <<>>
    <3> HIDE DEF rest
    <3>1. Len(rest) \in 1 .. Len(rest) /\ \A i \in 1 .. Len(rest) : rest[i] \in I
      BY <2>2, <1>4, ElementType
    <3>2. rest[Len(rest)] \in I
      BY <3>1
    <3> QED
      BY <3>2, <2>2 DEF Increments
  <2> QED
    BY <2>1, <2>2
<1>6. cp \in Checkpoints(IDs, Nat)
  BY <1>3 DEF Checkpoint, Checkpoints, Key, Keys
<1>7. old \in Retireds(IDs, Nat)
  BY <1>1, <1>3, <1>4 DEF Retained, Retireds
<1>8. Trim(<<old>> \o m.retained, keep) \in Seq(Retireds(IDs, Nat))
  <2>1. <<old>> \in Seq(Retireds(IDs, Nat))
    BY <1>7
  <2>2. <<old>> \o m.retained \in Seq(Retireds(IDs, Nat))
    BY <2>1, <1>1, ConcatProperties
  <2> QED
    BY <2>2, TrimType
<1>9. CompactManifest(m, prefix, cpID, keep) =
        [gen |-> m.gen + 1, head |-> head, checkpoint |-> cp, increments |-> rest,
         retained |-> Trim(<<old>> \o m.retained, keep)]
  BY DEF CompactManifest
<1> HIDE DEF cp, old, rest, head, last
<1> QED
  BY <1>1, <1>4, <1>5, <1>6, <1>8, <1>9 DEF Manifests

-----------------------------------------------------------------------------
(* Every manifest a writer builds follows the one it was built on: it adds *)
(* one root, above the cutoff, and no publication but its own.             *)

\* The parts of a manifest have their types.
LEMMA ManifestParts ==
  ASSUME NEW m \in Manifest_
  PROVE  /\ m.gen \in Nat /\ m.head \in ID
         /\ m.checkpoint \in Checkpoints(ID, Nat)
         /\ m.checkpoint.through \in Nat /\ m.checkpoint.id \in ID
         /\ m.increments \in Seq(Increments(ID, Nat))
         /\ Len(m.increments) \in Nat
         /\ DOMAIN m.increments = 1 .. Len(m.increments)
         /\ \A i \in 1 .. Len(m.increments) : m.increments[i] \in Increments(ID, Nat)
         /\ m.retained \in Seq(Retireds(ID, Nat))
         /\ Len(m.retained) \in Nat
         /\ DOMAIN m.retained = 1 .. Len(m.retained)
         /\ \A c \in 1 .. Len(m.retained) : m.retained[c] \in Retireds(ID, Nat)
BY ElementType DEF Manifest_, Manifests, Checkpoints

\* The empty notebook has no roots (emptyRemote).
LEMMA EmptyFacts ==
  /\ Chained(EmptyManifest)
  /\ ManifestRoots(EmptyManifest) = {}
  /\ Publications(EmptyManifest) = {}
  /\ EmptyManifest.gen = 0
  /\ EmptyManifest.checkpoint.through = 0
<1>1. /\ EmptyManifest.gen = 0
      /\ EmptyManifest.checkpoint = Checkpoint(NoID, NoID, 0, NoID)
      /\ EmptyManifest.increments = <<>>
      /\ EmptyManifest.retained = <<>>
  BY DEF EmptyManifest
<1>2. Chained(EmptyManifest)
  BY <1>1 DEF Chained, Checkpoint
<1> QED BY <1>1, <1>2 DEF ManifestRoots, Publications, Present, Checkpoint

\* The first publication (buildFirstProposal).
LEMMA FirstFollows ==
  ASSUME NEW pub \in ID, NEW cpID \in ID
  PROVE  LET m == FirstManifest(pub, cpID) IN
         /\ Follows(Key("checkpoint", 1, cpID), EmptyManifest, m)
         /\ Publications(m) \subseteq {pub}
<1> DEFINE m == FirstManifest(pub, cpID)
<1>1. /\ m.gen = 1
      /\ m.checkpoint = Checkpoint(cpID, pub, 1, pub)
      /\ m.increments = <<>>
      /\ m.retained = <<>>
  BY DEF FirstManifest
<1> HIDE DEF m
<1>2. m.checkpoint.key = Key("checkpoint", 1, cpID) /\ m.checkpoint.through = 1
      /\ m.checkpoint.id = cpID /\ m.checkpoint.pub = pub
  BY <1>1 DEF Checkpoint
<1>3. Chained(m)
  BY <1>1, <1>2 DEF Chained, Present
<1>4. ManifestRoots(m) = {Key("checkpoint", 1, cpID)} /\ Publications(m) = {pub}
  BY <1>1, <1>2 DEF ManifestRoots, Publications, ChainKeys, ChainPublications, Present
<1>5. Follows(Key("checkpoint", 1, cpID), EmptyManifest, m)
  BY <1>1, <1>2, <1>3, <1>4, EmptyFacts DEF Follows, Key
<1> QED BY <1>4, <1>5 DEF m

\* One more increment (buildIncrementProposal).
LEMMA IncrementFollows ==
  ASSUME NEW obs \in Manifest_, Chained(obs), Present(obs), NEW pub \in ID
  PROVE  LET m   == IncrementManifest(obs, pub)
             key == Key("increment", NextIncrementGen(obs), pub)
             last == m.increments[Len(m.increments)] IN
         /\ Follows(key, obs, m)
         /\ Publications(m) \subseteq Publications(obs) \cup {pub}
         /\ last.gen = key.gen /\ last.pub = pub
<1> DEFINE m   == IncrementManifest(obs, pub)
           n   == Len(obs.increments)
           g   == NextIncrementGen(obs)
           key == Key("increment", g, pub)
           inc == Increment(g, pub, obs.head, pub)
<1>1. /\ n \in Nat /\ obs.gen \in Nat /\ obs.checkpoint.through \in Nat
      /\ obs.increments \in Seq(Increments(ID, Nat))
      /\ DOMAIN obs.increments = 1 .. n
      /\ obs.head \in ID
  BY ManifestParts
<1>2. g = obs.checkpoint.through + n + 1
  BY DEF NextIncrementGen
<1>3. inc \in Increments(ID, Nat)
  BY <1>1, <1>2 DEF Increment, Increments, Key, Keys
<1>4. /\ m.gen = obs.gen + 1
      /\ m.checkpoint = obs.checkpoint
      /\ m.increments = Append(obs.increments, inc)
      /\ m.retained = obs.retained
  BY DEF IncrementManifest
<1>5. inc.gen = g /\ inc.pub = pub /\ inc.key = key /\ key.gen = g
  BY DEF Increment, Key
<1> HIDE DEF m, inc, g
<1>6. /\ Len(m.increments) = n + 1
      /\ DOMAIN m.increments = 1 .. n + 1
      /\ \A i \in 1 .. n : m.increments[i] = obs.increments[i]
      /\ m.increments[n + 1] = inc
  BY <1>1, <1>3, <1>4, AppendProperties, ElementType
<1>7. Chained(m)
  <2>1. \A i \in 1 .. n : m.increments[i].gen = m.checkpoint.through + i
    BY <1>1, <1>4, <1>6 DEF Chained
  <2>2. m.increments[n + 1].gen = m.checkpoint.through + (n + 1)
    BY <1>1, <1>2, <1>4, <1>5, <1>6
  <2>3. \A i \in DOMAIN m.increments : m.increments[i].gen = m.checkpoint.through + i
    BY <1>1, <1>6, <2>1, <2>2
  <2>4. Present(m)
    BY <1>1, <1>4 DEF Present
  <2> QED BY <1>4, <2>3, <2>4 DEF Chained
<1>8. ChainKeys(m) \subseteq ChainKeys(obs) \cup {key}
  BY <1>1, <1>4, <1>5, <1>6 DEF ChainKeys
<1>9. ChainPublications(m) \subseteq ChainPublications(obs) \cup {pub}
  BY <1>1, <1>4, <1>5, <1>6 DEF ChainPublications
<1>10. ManifestRoots(m) \subseteq ManifestRoots(obs) \cup {key}
  BY <1>1, <1>4, <1>8 DEF ManifestRoots, Present
<1>11. Publications(m) \subseteq Publications(obs) \cup {pub}
  BY <1>1, <1>4, <1>9 DEF Publications, Present
<1>12. Follows(key, obs, m)
  BY <1>1, <1>2, <1>4, <1>5, <1>7, <1>10 DEF Follows
<1> QED BY <1>5, <1>6, <1>11, <1>12 DEF m, g, key

\* A compacting proposal (buildCompactingProposal) replaces a refused
\* increment at the same position.
LEMMA CompactingFollows ==
  ASSUME NEW inc \in Manifest_, NEW obs \in Manifest_, NEW key \in Key_, NEW pub \in ID,
         NEW cpID \in ID, Len(inc.increments) > 0, Follows(key, obs, inc),
         inc.increments[Len(inc.increments)].gen = key.gen,
         inc.increments[Len(inc.increments)].pub = pub
  PROVE  LET m == CompactingManifest(inc, cpID)
             new == Key("checkpoint", key.gen, cpID) IN
         /\ Follows(new, obs, m)
         /\ Publications(m) \subseteq {pub}
         /\ m.checkpoint.through = key.gen
<1> DEFINE m == CompactingManifest(inc, cpID)
           last == inc.increments[Len(inc.increments)]
           new == Key("checkpoint", key.gen, cpID)
<1>1. /\ m.gen = inc.gen
      /\ m.checkpoint = Checkpoint(cpID, last.pub, last.gen, last.head)
      /\ m.increments = <<>>
      /\ m.retained = <<>>
  BY DEF CompactingManifest
<1>2. key.gen \in Nat /\ obs.gen \in Nat /\ obs.checkpoint.through \in Nat /\ inc.gen \in Nat
  BY ManifestParts DEF Key_, Keys
<1> HIDE DEF m
<1>3. /\ m.checkpoint.key = new /\ m.checkpoint.through = key.gen
      /\ m.checkpoint.id = cpID /\ m.checkpoint.pub = pub /\ new.gen = key.gen
  BY <1>1 DEF Checkpoint, Key
<1>4. m.gen > obs.gen /\ obs.checkpoint.through < key.gen
  BY <1>1 DEF Follows
<1>5. Chained(m)
  BY <1>1, <1>2, <1>3, <1>4 DEF Chained, Present
<1>6. ManifestRoots(m) \subseteq {new} /\ Publications(m) \subseteq {pub}
  BY <1>1, <1>3 DEF ManifestRoots, Publications, ChainKeys, ChainPublications
<1>7. Follows(new, obs, m)
  BY <1>2, <1>3, <1>4, <1>5, <1>6 DEF Follows
<1> QED BY <1>3, <1>6, <1>7 DEF m

\* A checkpoint replacement (compactManifest): the new checkpoint is the only
\* new root, and its cutoff is the generation of the last planned increment.
LEMMA CompactFollows ==
  ASSUME NEW obs \in Manifest_, Chained(obs), NEW prefix \in Seq(Increments(ID, Nat)),
         Len(prefix) > 0, PrefixPresent(obs, prefix), NEW cpID \in ID, NEW keep \in Nat
  PROVE  LET m   == CompactManifest(obs, prefix, cpID, keep)
             key == Key("checkpoint", PlanLast(prefix).gen, cpID) IN
         /\ Follows(key, obs, m)
         /\ Publications(m) \subseteq Publications(obs)
         /\ m.checkpoint.through = key.gen
<1> DEFINE m    == CompactManifest(obs, prefix, cpID, keep)
           n    == Len(prefix)
           k    == Len(obs.increments)
           last == PlanLast(prefix)
           key  == Key("checkpoint", last.gen, cpID)
           rest == SubSeq(obs.increments, n + 1, k)
           head == SubSeq(obs.increments, 1, n)
           old  == Retained(obs.gen + 1, last.head, obs.checkpoint, head)
           all  == <<old>> \o obs.retained
<1>1. /\ obs.gen \in Nat /\ obs.checkpoint.through \in Nat
      /\ obs.increments \in Seq(Increments(ID, Nat))
      /\ k \in Nat /\ DOMAIN obs.increments = 1 .. k
      /\ obs.retained \in Seq(Retireds(ID, Nat))
      /\ Len(obs.retained) \in Nat
      /\ DOMAIN obs.retained = 1 .. Len(obs.retained)
  BY ManifestParts
<1>2. n \in Nat /\ n > 0 /\ n <= k /\ DOMAIN prefix = 1 .. n
  BY ElementType DEF PrefixPresent
<1>3. \A i \in 1 .. n : obs.increments[i] = prefix[i]
  BY <1>2 DEF PrefixPresent
<1>4. last = obs.increments[n]
  BY <1>2, <1>3 DEF PlanLast
<1>5. last.gen = obs.checkpoint.through + n
  BY <1>1, <1>2, <1>4 DEF Chained
<1>6. /\ rest \in Seq(Increments(ID, Nat)) /\ Len(rest) = k - n
      /\ \A i \in 1 .. k - n : rest[i] = obs.increments[n + i]
      /\ DOMAIN rest = 1 .. k - n
  BY <1>1, <1>2, SuffixType, ElementType
<1>7. /\ head \in Seq(Increments(ID, Nat)) /\ Len(head) = n
      /\ \A i \in 1 .. n : head[i] = obs.increments[i]
      /\ DOMAIN head = 1 .. n
  BY <1>1, <1>2, PrefixType, ElementType
<1>8. /\ m.gen = obs.gen + 1
      /\ m.checkpoint = Checkpoint(cpID, last.pub, last.gen, last.head)
      /\ m.increments = rest
      /\ m.retained = Trim(all, keep)
  BY DEF CompactManifest
<1>9. /\ m.checkpoint.key = key /\ m.checkpoint.through = last.gen
      /\ m.checkpoint.id = cpID /\ m.checkpoint.pub = last.pub /\ key.gen = last.gen
  BY <1>8 DEF Checkpoint, Key
<1>10. old \in Retireds(ID, Nat) /\ old.checkpoint = obs.checkpoint /\ old.increments = head
  <2>1. last \in Increments(ID, Nat)
    BY <1>1, <1>2, <1>4, ElementType
  <2>2. last.head \in ID /\ obs.gen + 1 \in Nat
    BY <1>1, <2>1 DEF Increments
  <2> HIDE DEF head, last
  <2> QED BY <1>1, <1>7, <2>2, ManifestParts DEF Retained, Retireds
<1> HIDE DEF m, n, k, last, rest, head, old
<1>11. \A c \in DOMAIN m.retained :
         m.retained[c] = old \/ \E b \in DOMAIN obs.retained : m.retained[c] = obs.retained[b]
  <2>1. /\ all \in Seq(Retireds(ID, Nat))
        /\ Len(all) = 1 + Len(obs.retained)
        /\ all[1] = old
        /\ \A i \in 2 .. 1 + Len(obs.retained) : all[i] = obs.retained[i - 1]
    <3>1. <<old>> \in Seq(Retireds(ID, Nat)) /\ Len(<<old>>) = 1 /\ <<old>>[1] = old
      BY <1>10
    <3> QED BY <3>1, <1>1, ConcatProperties
  <2> HIDE DEF all
  <2>2. /\ Trim(all, keep) \in Seq(Retireds(ID, Nat))
        /\ Len(Trim(all, keep)) <= Len(all)
        /\ \A i \in 1 .. Len(Trim(all, keep)) : Trim(all, keep)[i] = all[i]
    BY <2>1, TrimType
  <2> DEFINE t == Trim(all, keep)
  <2> HIDE DEF t
  <2>3. Len(t) \in Nat /\ DOMAIN t = 1 .. Len(t)
    BY <2>2, ElementType DEF t
  <2>4. \A c \in DOMAIN t : c = 1 \/ (c - 1 \in DOMAIN obs.retained /\ t[c] = obs.retained[c - 1])
    <3> SUFFICES ASSUME NEW c \in 1 .. Len(t), c # 1
                 PROVE  c - 1 \in 1 .. Len(obs.retained) /\ t[c] = obs.retained[c - 1]
      BY <1>1, <2>3
    <3>1. t[c] = all[c] /\ Len(t) <= 1 + Len(obs.retained)
      BY <2>1, <2>2 DEF t
    <3>2. c \in 2 .. 1 + Len(obs.retained)
      BY <1>1, <2>3, <3>1
    <3> QED BY <1>1, <2>1, <3>1, <3>2
  <2>5. 1 \in DOMAIN t => t[1] = old
    BY <2>1, <2>2, <2>3 DEF t
  <2> QED BY <1>8, <2>4, <2>5 DEF t
<1>12. Chained(m)
  <2>1. Present(m)
    BY <1>1, <1>8 DEF Present
  <2>2. \A i \in DOMAIN m.increments : m.increments[i].gen = m.checkpoint.through + i
    <3> SUFFICES ASSUME NEW i \in 1 .. k - n
                 PROVE  rest[i].gen = last.gen + i
      BY <1>6, <1>8, <1>9
    <3>1. n + i \in 1 .. k /\ i \in Nat
      BY <1>1, <1>2
    <3>2. obs.increments[n + i].gen = obs.checkpoint.through + (n + i)
      BY <1>1, <3>1 DEF Chained
    <3>3. rest[i] = obs.increments[n + i]
      BY <1>6
    <3> QED BY <1>1, <1>2, <1>5, <3>1, <3>2, <3>3
  <2>3. ASSUME NEW c \in DOMAIN m.retained
        PROVE  LET cp == m.retained[c].checkpoint IN
               /\ cp.key = Key("checkpoint", cp.through, cp.id)
               /\ cp.through <= m.checkpoint.through
    <3>1. CASE m.retained[c] = old
      BY <3>1, <1>1, <1>2, <1>5, <1>9, <1>10 DEF Chained
    <3>2. CASE m.retained[c] # old
      <4>1. PICK b \in DOMAIN obs.retained : m.retained[c] = obs.retained[b]
        BY <1>11, <3>2
      <4>2. obs.retained[b].checkpoint.through \in Nat
        BY ManifestParts DEF Retireds, Checkpoints
      <4>3. LET cp == obs.retained[b].checkpoint IN
            /\ cp.key = Key("checkpoint", cp.through, cp.id)
            /\ cp.through <= obs.checkpoint.through
        BY <1>1 DEF Chained
      <4>4. obs.checkpoint.through \in Nat /\ obs.checkpoint.through <= m.checkpoint.through
        BY <1>1, <1>2, <1>5, <1>9
      <4>5. m.checkpoint.through \in Nat
        BY <1>1, <1>2, <1>5, <1>9
      <4> QED BY <4>1, <4>2, <4>3, <4>4, <4>5
    <3> QED BY <3>1, <3>2
  <2> QED BY <1>9, <2>1, <2>2, <2>3 DEF Chained
<1>13. Present(obs)
  BY <1>1, <1>2, EmptySeq DEF Chained, EmptyManifest
<1>14. ManifestRoots(m) \subseteq ManifestRoots(obs) \cup {key}
  <2>1. ChainKeys(m) \subseteq ChainKeys(obs) \cup {key}
    <3>1. \A i \in 1 .. k - n : rest[i] = obs.increments[n + i] /\ n + i \in 1 .. k
      BY <1>1, <1>2, <1>6
    <3>2. \A i \in 1 .. k - n : rest[i].key \in ChainKeys(obs)
      BY <1>1, <3>1 DEF ChainKeys
    <3>3. ChainKeys(m) = {key} \cup {rest[i].key : i \in 1 .. k - n}
      BY <1>6, <1>8, <1>9 DEF ChainKeys
    <3> QED BY <3>2, <3>3
  <2>2. ChainKeys(old) \subseteq ChainKeys(obs)
    BY <1>1, <1>2, <1>7, <1>10 DEF ChainKeys
  <2>3. \A c \in DOMAIN m.retained : ChainKeys(m.retained[c]) \subseteq ManifestRoots(obs)
    BY <1>11, <1>13, <2>2 DEF ManifestRoots
  <2>4. Present(m)
    BY <1>1, <1>8 DEF Present
  <2> QED BY <1>13, <2>1, <2>3, <2>4 DEF ManifestRoots
<1>15. Publications(m) \subseteq Publications(obs)
  <2>1. ChainPublications(m) \subseteq ChainPublications(obs)
    <3>1. \A i \in 1 .. k - n : rest[i] = obs.increments[n + i] /\ n + i \in 1 .. k
      BY <1>1, <1>2, <1>6
    <3>2. n \in 1 .. k
      BY <1>1, <1>2
    <3>3. \A i \in 1 .. k - n : rest[i].pub \in ChainPublications(obs)
      BY <1>1, <3>1 DEF ChainPublications
    <3>4. last.pub \in ChainPublications(obs)
      BY <1>1, <1>4, <3>2 DEF ChainPublications
    <3>5. ChainPublications(m) = {last.pub} \cup {rest[i].pub : i \in 1 .. k - n}
      BY <1>6, <1>8, <1>9 DEF ChainPublications
    <3> QED BY <3>3, <3>4, <3>5
  <2>2. ChainPublications(old) \subseteq ChainPublications(obs)
    BY <1>1, <1>2, <1>7, <1>10 DEF ChainPublications
  <2>3. \A c \in DOMAIN m.retained : ChainPublications(m.retained[c]) \subseteq Publications(obs)
    BY <1>11, <1>13, <2>2 DEF Publications
  <2>4. Present(m)
    BY <1>1, <1>8 DEF Present
  <2> QED BY <1>13, <2>1, <2>3, <2>4 DEF Publications
<1>16. Follows(key, obs, m)
  <2>1. m.gen > obs.gen
    BY <1>1, <1>8
  <2>2. obs.checkpoint.through < key.gen /\ obs.checkpoint.through <= m.checkpoint.through
    BY <1>1, <1>2, <1>5, <1>9
  <2> QED BY <1>12, <1>14, <2>1, <2>2 DEF Follows
<1> QED BY <1>9, <1>15, <1>16 DEF m, last, key

\* What an import needs is referenced (importRemote against manifestRoots).
LEMMA SpecsRooted ==
  ASSUME NEW m \in Manifest_, Present(m)
  PROVE  /\ \E n \in Nat : DOMAIN ImportSpecs(m) = 1 .. n
         /\ \A i \in DOMAIN ImportSpecs(m) : ImportSpecs(m)[i].key \in ManifestRoots(m)
<1> DEFINE cps  == <<[key |-> m.checkpoint.key, head |-> m.checkpoint.head]>>
           tail == [i \in 1 .. Len(m.increments) |->
                      [key |-> m.increments[i].key, head |-> m.increments[i].head]]
           S    == [key : ManifestRoots(m), head : ID]
<1>1. /\ Len(m.increments) \in Nat /\ DOMAIN m.increments = 1 .. Len(m.increments)
      /\ \A i \in 1 .. Len(m.increments) : m.increments[i].head \in ID
      /\ m.checkpoint.head \in ID
  BY ManifestParts DEF Increments, Checkpoints
<1>2. /\ m.checkpoint.key \in ManifestRoots(m)
      /\ \A i \in 1 .. Len(m.increments) : m.increments[i].key \in ManifestRoots(m)
  BY <1>1 DEF ManifestRoots, ChainKeys
<1>3. cps \in Seq(S)
  BY <1>1, <1>2
<1>4. tail \in Seq(S)
  BY <1>1, <1>2
<1>5. ImportSpecs(m) = cps \o tail
  BY DEF ImportSpecs
<1> HIDE DEF cps, tail
<1>6. ImportSpecs(m) \in Seq(S)
  BY <1>3, <1>4, <1>5, ConcatProperties
<1>7. \A i \in DOMAIN ImportSpecs(m) : ImportSpecs(m)[i] \in S
  BY <1>6, ElementType
<1>8. \E n \in Nat : DOMAIN ImportSpecs(m) = 1 .. n
  BY <1>6
<1> QED BY <1>7, <1>8

\* A checkpoint a manifest records is a root at or below its cutoff
\* (checkpointAccepted).
LEMMA CheckpointRooted ==
  ASSUME NEW m \in Manifest_, Chained(m), NEW id, CheckpointIn(m, id)
  PROVE  \E k \in ManifestRoots(m) : k.id = id /\ k.gen <= m.checkpoint.through
<1>1. m.checkpoint.through \in Nat
  BY ManifestParts
<1>2. CASE m.checkpoint.id = id
  <2>1. m.checkpoint.key \in ManifestRoots(m)
    BY DEF CheckpointIn, ManifestRoots, ChainKeys
  <2>2. m.checkpoint.key.id = id /\ m.checkpoint.key.gen = m.checkpoint.through
    BY <1>2 DEF Chained, Key
  <2> QED BY <1>1, <2>1, <2>2
<1>3. CASE \E c \in DOMAIN m.retained : m.retained[c].checkpoint.id = id
  <2>1. PICK c \in DOMAIN m.retained : m.retained[c].checkpoint.id = id
    BY <1>3
  <2> DEFINE cp == m.retained[c].checkpoint
  <2>2. cp.key \in ManifestRoots(m)
    BY <2>1 DEF CheckpointIn, ManifestRoots, ChainKeys
  <2>3. cp.key.id = id /\ cp.key.gen = cp.through /\ cp.through <= m.checkpoint.through
    <3>1. cp.key = Key("checkpoint", cp.through, cp.id) /\ cp.through <= m.checkpoint.through
      BY DEF Chained
    <3> HIDE DEF cp
    <3>2. cp.id = id
      BY <2>1 DEF cp
    <3> QED BY <3>1, <3>2 DEF Key
  <2> QED BY <2>2, <2>3
<1> QED BY <1>2, <1>3 DEF CheckpointIn

-----------------------------------------------------------------------------
(* Type correctness.  TypeOK alone is not inductive: a checkpoint effort   *)
(* reads the last increment of a prefix whose length only the threshold    *)
(* test of attemptPublication guarantees.                                  *)

\* The tail a job works on is long enough for what it does with it.
Shaped(j) ==
  /\ (j.pc = "upload" /\ j.prop.key.kind = "increment")
       => Len(j.prop.manifest.increments) > 0
  /\ (j.op = "checkpoint" \/ j.pc = "cpupload")
       => Len(j.prop.manifest.increments) >= CheckpointPacks
  /\ j.pc \in {"merge", "upload", "cas", "lookup", "accept", "cpupload"} => j.op = "commit"
  /\ j.pc \in {"cpplan", "cpcas", "cplookup"} => j.op = "checkpoint"
  /\ j.pc = "cpcas" => Len(j.obs.increments) >= CheckpointPacks

Shape == \A w \in Writers : Shaped(job[w])

TypeInv == TypeOK /\ Shape

\* The values a job is built from have their types.
LEMMA IdleType ==
  /\ NoID \in ID
  /\ EmptyManifest \in Manifest_
  /\ NoProposal \in Proposals
  /\ Idle \in Jobs
<1>1. NoID \in ID
  BY DEF ID
<1>2. EmptyManifest \in Manifest_
  BY <1>1, EmptyManifestType DEF Manifest_
<1>3. NoKey \in Key_
  BY <1>1 DEF NoKey, Key, Key_, Keys
<1>4. NoProposal \in Proposals
  BY <1>1, <1>2, <1>3 DEF NoProposal, Proposals
<1> QED
  BY <1>1, <1>2, <1>3, <1>4 DEF Idle, Jobs

\* A drawn UUID is an id.
LEMMA DrawnType ==
  ASSUME NEW w \in Writers, NEW n \in Nat
  PROVE  <<w, n>> \in ID
BY DEF ID

\* The states a job returns to keep the type.
LEMMA JobStates ==
  ASSUME NEW j \in Jobs
  PROVE  /\ \A c \in Nat : CleanUp(c) \in Jobs
         /\ AfterRecovery(j) \in Jobs
         /\ FailedRead(j) \in Jobs
         /\ StrictAttempt(j) \in Jobs
         /\ RetryPublication(j) \in Jobs
         /\ RetryCheckpoint(j) \in Jobs
         /\ AfterRead(j.op) \in {"merge", "cpplan", "apply"}
<1>1. \A c \in Nat : CleanUp(c) \in Jobs
  BY IdleType DEF CleanUp, Jobs, Idle
<1>2. j.prop.key.gen \in Nat
  BY DEF Jobs, Proposals, Key_, Keys
<1>3. AfterRecovery(j) \in Jobs
  BY <1>1, <1>2, IdleType DEF AfterRecovery
<1>4. FailedRead(j) \in Jobs
  BY <1>3, IdleType DEF FailedRead
<1>5. StrictAttempt(j) \in Jobs
  BY IdleType DEF StrictAttempt, Jobs, Idle
<1> DEFINE n == j.attempt + 1
<1>n. n \in Nat
  BY DEF Jobs
<1> HIDE DEF n
<1>6. RetryPublication(j) \in Jobs
  <2>1. [Idle EXCEPT !.pc = "read", !.op = "commit", !.mode = j.mode, !.attempt = n] \in Jobs
    BY <1>n, IdleType DEF Jobs
  <2> QED
    BY <2>1, IdleType DEF RetryPublication, n
<1>7. RetryCheckpoint(j) \in Jobs
  <2>1. [j EXCEPT !.pc = "read", !.attempt = n, !.restarts = 0] \in Jobs
    BY <1>n DEF Jobs
  <2> QED
    BY <2>1, IdleType DEF RetryCheckpoint, n
<1>8. AfterRead(j.op) \in {"merge", "cpplan", "apply"}
  BY DEF AfterRead
<1> QED
  BY <1>1, <1>3, <1>4, <1>5, <1>6, <1>7, <1>8

\* The same states need no tail.
LEMMA JobShapes ==
  ASSUME NEW j \in Jobs, Shaped(j)
  PROVE  /\ Shaped(Idle)
         /\ \A c \in Nat : Shaped(CleanUp(c))
         /\ Shaped(AfterRecovery(j))
         /\ Shaped(FailedRead(j))
         /\ j.op \in {"pull", "commit"} => Shaped(StrictAttempt(j))
         /\ Shaped(RetryPublication(j))
         /\ j.op = "checkpoint" => Shaped(RetryCheckpoint(j))
<1>1. Shaped(Idle)
  BY DEF Shaped, Idle
<1>2. \A c \in Nat : Shaped(CleanUp(c))
  BY DEF Shaped, CleanUp, Idle
<1>3. j.prop.key.gen \in Nat
  BY DEF Jobs, Proposals, Key_, Keys
<1>4. Shaped(AfterRecovery(j))
  BY <1>1, <1>2, <1>3 DEF AfterRecovery
<1>5. Shaped(FailedRead(j))
  BY <1>1, <1>4 DEF FailedRead
<1>6. j.op \in {"pull", "commit"} => Shaped(StrictAttempt(j))
  BY DEF Shaped, StrictAttempt, Idle
<1> DEFINE n == j.attempt + 1
<1> HIDE DEF n
<1>7. Shaped(RetryPublication(j))
  <2>1. Shaped([Idle EXCEPT !.pc = "read", !.op = "commit", !.mode = j.mode, !.attempt = n])
    BY DEF Shaped, Idle
  <2> QED
    BY <2>1, <1>1 DEF RetryPublication, n
<1>8. j.op = "checkpoint" => Shaped(RetryCheckpoint(j))
  <2>1. j.op = "checkpoint" =>
          Shaped([j EXCEPT !.pc = "read", !.attempt = n, !.restarts = 0])
    BY DEF Shaped, Jobs
  <2> QED
    BY <2>1, <1>1 DEF RetryCheckpoint, n
<1> QED
  BY <1>1, <1>2, <1>4, <1>5, <1>6, <1>7, <1>8

\* One writer's job is replaced.
LEMMA Becoming ==
  ASSUME TypeInv, NEW w \in Writers, NEW j \in Jobs, Shaped(j), Become(w, j)
  PROVE  job' \in [Writers -> Jobs] /\ Shape'
<1>1. job \in [Writers -> Jobs] /\ \A v \in Writers : Shaped(job[v])
  BY DEF TypeInv, TypeOK, Shape
<1>2. job' = [job EXCEPT ![w] = j]
  BY DEF Become
<1>3. \A v \in Writers : job'[v] = j \/ job'[v] = job[v]
  BY <1>1, <1>2
<1>4. \A v \in Writers : Shaped(job'[v])
  BY <1>1, <1>3
<1> QED
  BY <1>1, <1>2, <1>4 DEF Shape

\* Steps that change a job and nothing else.
LEMMA JobOnly ==
  ASSUME TypeInv, NEW w \in Writers, NEW j \in Jobs, Shaped(j), Become(w, j),
         UNCHANGED <<storeVars, baseline, pulled, repo, seq, accepted>>
  PROVE  TypeInv'
<1>1. job' \in [Writers -> Jobs] /\ Shape'
  BY Becoming
<1> QED
  BY <1>1 DEF TypeInv, TypeOK, storeVars

\* Entering a call, reading R and failing: the actions that change only the
\* job keep the types.
LEMMA TypeReading ==
  ASSUME TypeInv, NEW w \in Writers,
         \/ StartPull(w) \/ StartCommit(w) \/ StartRecovery(w)
         \/ ReadCurrent(w) \/ RereadCurrent(w) \/ EngineFails(w)
         \/ LookupPublication(w) \/ LocalFails(w) \/ RecoverFails(w) \/ Abandon(w)
  PROVE  TypeInv'
<1> DEFINE j == job[w]
<1>1. j \in Jobs /\ Shaped(j) /\ current \in Manifest_
  BY DEF TypeInv, TypeOK, Shape
<1>2. CASE StartPull(w)
  <2>1. [Idle EXCEPT !.pc = "read", !.op = "pull"] \in Jobs
    BY IdleType DEF Jobs
  <2>2. Shaped([Idle EXCEPT !.pc = "read", !.op = "pull"])
    BY DEF Shaped, Idle
  <2> QED
    BY <1>2, <2>1, <2>2, JobOnly DEF StartPull
<1>3. CASE StartCommit(w)
  <2>1. [Idle EXCEPT !.pc = "read", !.op = "commit", !.attempt = 1] \in Jobs
    BY IdleType DEF Jobs
  <2>2. Shaped([Idle EXCEPT !.pc = "read", !.op = "commit", !.attempt = 1])
    BY DEF Shaped, Idle
  <2> QED
    BY <1>3, <2>1, <2>2, JobOnly DEF StartCommit
<1>4. CASE StartRecovery(w)
  <2>1. [Idle EXCEPT !.pc = "read", !.op = "recover", !.mode = "strict"] \in Jobs
    BY IdleType DEF Jobs
  <2>2. Shaped([Idle EXCEPT !.pc = "read", !.op = "recover", !.mode = "strict"])
    BY DEF Shaped, Idle
  <2> QED
    BY <1>4, <2>1, <2>2, JobOnly DEF StartRecovery
<1>5. CASE ReadCurrent(w)
  <2>1. FailedRead(j) \in Jobs /\ Shaped(FailedRead(j))
    BY <1>1, JobStates, JobShapes
  <2>2. [j EXCEPT !.obs = current, !.pc = "load"] \in Jobs
    BY <1>1 DEF Jobs
  <2>3. Shaped([j EXCEPT !.obs = current, !.pc = "load"])
    BY <1>1 DEF Shaped, Jobs
  <2>4. [j EXCEPT !.obs = current, !.pc = AfterRead(j.op)] \in Jobs
    <3> DEFINE a == AfterRead(j.op)
    <3>1. a \in {"merge", "cpplan", "apply"}
      BY <1>1, JobStates
    <3> HIDE DEF a
    <3>2. [j EXCEPT !.obs = current, !.pc = a] \in Jobs
      BY <1>1, <3>1 DEF Jobs
    <3> QED BY <3>2 DEF a
  <2>5. Shaped([j EXCEPT !.obs = current, !.pc = AfterRead(j.op)])
    BY <1>1 DEF Shaped, Jobs, AfterRead
  <2> QED
    BY <1>5, <2>1, <2>2, <2>3, <2>4, <2>5, JobOnly DEF ReadCurrent
<1>6. CASE RereadCurrent(w)
  <2> DEFINE n == j.restarts + 1
  <2>1. FailedRead(j) \in Jobs /\ Shaped(FailedRead(j))
    BY <1>1, JobStates, JobShapes
  <2>2. n \in Nat
    BY <1>1 DEF Jobs
  <2> HIDE DEF n
  <2>3. [j EXCEPT !.pc = "read", !.restarts = n] \in Jobs
    BY <1>1, <2>2 DEF Jobs
  <2>4. Shaped([j EXCEPT !.pc = "read", !.restarts = n])
    BY <1>1 DEF Shaped, Jobs
  <2> QED
    BY <1>6, <2>1, <2>3, <2>4, JobOnly DEF RereadCurrent, n
<1>7. CASE EngineFails(w)
  <2>1. StrictAttempt(j) \in Jobs /\ Shaped(StrictAttempt(j))
    BY <1>1, <1>7, JobStates, JobShapes DEF EngineFails
  <2> QED
    BY <1>7, <2>1, JobOnly DEF EngineFails
<1>8. CASE LookupPublication(w)
  <2>1. [j EXCEPT !.pc = "accept"] \in Jobs
    BY <1>1 DEF Jobs
  <2>2. Shaped([j EXCEPT !.pc = "accept"])
    BY <1>1, <1>8 DEF Shaped, Jobs, LookupPublication
  <2> DEFINE k == IF Proved(j.prop) THEN [j EXCEPT !.pc = "accept"] ELSE Idle
  <2>3. k \in Jobs /\ Shaped(k)
    BY <1>1, <2>1, <2>2, IdleType, JobShapes
  <2>4. Become(w, k)
    BY <1>8, Zenon DEF LookupPublication
  <2> HIDE DEF k
  <2> QED
    BY <1>8, <2>3, <2>4, JobOnly DEF LookupPublication
<1>9. CASE LocalFails(w)
  <2> DEFINE p == IF j.prop.compacting THEN j.prop ELSE NoProposal
  <2>1. p \in Proposals
    BY <1>1, IdleType DEF Jobs
  <2> HIDE DEF p
  <2>2. [Idle EXCEPT !.pc = "read", !.op = "recover", !.mode = "strict", !.prop = p] \in Jobs
    BY <2>1, IdleType DEF Jobs
  <2>3. Shaped([Idle EXCEPT !.pc = "read", !.op = "recover", !.mode = "strict", !.prop = p])
    BY DEF Shaped, Idle
  <2> QED
    BY <1>9, <2>2, <2>3, JobOnly DEF LocalFails, p
<1>10. CASE RecoverFails(w)
  BY <1>1, <1>10, JobStates, JobShapes, JobOnly DEF RecoverFails
<1>11. CASE Abandon(w)
  BY <1>1, <1>11, IdleType, JobShapes, JobOnly DEF Abandon
<1> QED
  BY <1>2, <1>3, <1>4, <1>5, <1>6, <1>7, <1>8, <1>9, <1>10, <1>11

\* Adopting a manifest, or the landing of a request, keeps the types.
LEMMA TypeAdopt ==
  ASSUME TypeInv, NEW next \in Manifest_
  PROVE  /\ Adopt(next) => current' \in Manifest_ /\ accepted' \in Seq(ID)
         /\ \A base : Land(base, next) => current' \in Manifest_ /\ accepted' \in Seq(ID)
<1>1. current \in Manifest_ /\ accepted \in Seq(ID) /\ next.head \in ID
  BY DEF TypeInv, TypeOK, Manifest_, Manifests
<1>2. Append(accepted, next.head) \in Seq(ID)
  BY <1>1, AppendProperties
<1>3. Adopt(next) => current' \in Manifest_ /\ accepted' \in Seq(ID)
  BY <1>1, <1>2 DEF Adopt
<1> QED
  BY <1>1, <1>3 DEF Land

\* A lost response keeps the types, whether the write landed or is in flight.
LEMMA TypeLoseResponse ==
  ASSUME TypeInv, NEW w \in Writers, NEW key \in Key_, NEW base \in Manifest_,
         NEW next \in Manifest_, LoseResponse(w, key, base, next)
  PROVE  current' \in Manifest_ /\ accepted' \in Seq(ID) /\ writes' \subseteq Requests
<1>1. writes \subseteq Requests /\ current \in Manifest_ /\ accepted \in Seq(ID)
  BY DEF TypeInv, TypeOK
<1>2. [by |-> w, key |-> key, base |-> base, next |-> next] \in Requests
  BY DEF Requests
<1>3. CASE Land(base, next) /\ UNCHANGED writes
  BY <1>1, <1>3, TypeAdopt
<1>4. CASE UNCHANGED <<current, accepted, writes>>
  BY <1>1, <1>4
<1>5. CASE /\ writes' = writes \cup {[by |-> w, key |-> key, base |-> base, next |-> next]}
           /\ UNCHANGED <<current, accepted>>
  BY <1>1, <1>2, <1>5
<1> QED
  BY <1>3, <1>4, <1>5 DEF LoseResponse

\* A deletion keeps the types, whether it landed or is in flight.
LEMMA TypeDelete ==
  ASSUME TypeInv, NEW batch \in SUBSET Key_, Delete(batch)
  PROVE  packs' \subseteq Key_ /\ deletes' \subseteq SUBSET Key_
BY DEF TypeInv, TypeOK, Delete

\* The manifest of a checkpoint replacement has its type.
LEMMA CheckpointNextType ==
  ASSUME TypeInv, NEW w \in Writers, job[w].pc = "cpcas"
  PROVE  CheckpointNext(w) \in Manifest_
<1> DEFINE j == job[w]
<1>1. j \in Jobs /\ Shaped(j)
  BY DEF TypeInv, TypeOK, Shape
<1>2. /\ j.obs \in Manifests(ID, Nat) /\ j.prop.manifest \in Manifests(ID, Nat)
      /\ j.cp.id \in ID
      /\ Len(j.prop.manifest.increments) >= CheckpointPacks
      /\ Len(j.obs.increments) >= CheckpointPacks
  BY <1>1 DEF Jobs, Proposals, Manifest_, Key_, Keys, Shaped
<1>3. j.prop.manifest.increments \in Seq(Increments(ID, Nat))
  BY <1>2 DEF Manifests
<1>4. /\ Plan(w) \in Seq(Increments(ID, Nat))
      /\ Len(Plan(w)) = CheckpointPacks
  BY <1>2, <1>3, PrefixType, ConstantsAssumption DEF Plan, PlanPrefix
<1>5. CompactManifest(j.obs, Plan(w), j.cp.id, RetainedCheckpoints) \in Manifests(ID, Nat)
  BY <1>2, <1>4, CompactManifestType, ConstantsAssumption
<1> QED
  BY <1>5 DEF CheckpointNext, Manifest_

\* Loading packs and applying R keep the types.
LEMMA TypeApplying ==
  ASSUME TypeInv, NEW w \in Writers,
         LoadPacks(w) \/ ApplyRemote(w) \/ MergeToRemote(w) \/ Accept(w)
  PROVE  TypeInv'
<1> DEFINE j == job[w]
<1>1. j \in Jobs /\ Shaped(j)
  BY DEF TypeInv, TypeOK, Shape
<1>2. /\ j.obs \in Manifest_ /\ j.prop \in Proposals /\ j.prop.manifest \in Manifest_
      /\ j.prop.key.gen \in Nat
  BY <1>1 DEF Jobs, Proposals, Key_, Keys
<1>3. \A m \in Manifest_ :
        SetBaseline(w, m) => baseline' \in [Writers -> [gen : Nat, head : ID]]
  BY DEF TypeInv, TypeOK, SetBaseline, Manifest_, Manifests
<1>4. CASE LoadPacks(w)
  <2> DEFINE specs == ImportSpecs(j.obs)
  <2>1. \A i \in DOMAIN specs : specs[i].head \in ID
    <3> DEFINE incs == j.obs.increments
               H    == [key : Key_, head : ID]
               cps  == <<[key |-> j.obs.checkpoint.key, head |-> j.obs.checkpoint.head]>>
               tail == [i \in 1 .. Len(incs) |->
                          [key |-> incs[i].key, head |-> incs[i].head]]
    <3>1. incs \in Seq(Increments(ID, Nat)) /\ j.obs.checkpoint \in Checkpoints(ID, Nat)
      BY <1>2 DEF Manifest_, Manifests
    <3>2. Len(incs) \in Nat /\ \A i \in 1 .. Len(incs) : incs[i] \in Increments(ID, Nat)
      BY <3>1, ElementType
    <3>3. \A i \in 1 .. Len(incs) : [key |-> incs[i].key, head |-> incs[i].head] \in H
      BY <3>2 DEF Increments, Key_
    <3> HIDE DEF incs
    <3>4. tail \in Seq(H)
      BY <3>2, <3>3
    <3>5. cps \in Seq(H)
      BY <3>1 DEF Checkpoints, Key_
    <3>6. specs = cps \o tail
      BY DEF ImportSpecs, incs
    <3> HIDE DEF cps, tail, specs
    <3>7. specs \in Seq(H)
      BY <3>4, <3>5, <3>6, ConcatProperties
    <3>8. \A i \in DOMAIN specs : specs[i] \in H
      BY <3>7, ElementType
    <3> QED
      BY <3>8
  <2>2. PICK all :
          LET got == {i \in DOMAIN specs : \A k \in 1 .. i : Available(w, specs[k], all)} IN
          /\ repo' = [repo EXCEPT ![w] = @ \cup {specs[i].head : i \in got}]
          /\ Become(w, [j EXCEPT !.pc = IF got = DOMAIN specs THEN AfterRead(j.op)
                                                             ELSE "reread"])
    BY <1>4, Zenon DEF LoadPacks
  <2> DEFINE got == {i \in DOMAIN specs : \A k \in 1 .. i : Available(w, specs[k], all)}
             pc  == IF got = DOMAIN specs THEN AfterRead(j.op) ELSE "reread"
  <2>3. {specs[i].head : i \in got} \subseteq ID
    BY <2>1
  <2>4. /\ repo' = [repo EXCEPT ![w] = @ \cup {specs[i].head : i \in got}]
        /\ Become(w, [j EXCEPT !.pc = pc])
    BY <2>2
  <2>5. pc = AfterRead(j.op) \/ pc = "reread"
    OBVIOUS
  <2> HIDE DEF pc, got, specs
  <2>6. [j EXCEPT !.pc = pc] \in Jobs
    <3>1. pc \in {"merge", "cpplan", "apply", "reread"}
      BY <1>1, <2>5, JobStates
    <3> QED
      BY <1>1, <3>1 DEF Jobs
  <2>7. Shaped([j EXCEPT !.pc = pc])
    BY <1>1, <2>5 DEF Shaped, Jobs, AfterRead
  <2>8. job' \in [Writers -> Jobs] /\ Shape'
    BY <2>4, <2>6, <2>7, Becoming
  <2>9. repo' \in [Writers -> SUBSET ID]
    BY <2>3, <2>4 DEF TypeInv, TypeOK
  <2> QED
    BY <1>4, <2>8, <2>9 DEF LoadPacks, TypeInv, TypeOK, storeVars
<1>5. CASE ApplyRemote(w)
  <2> DEFINE k == IF j.op = "recover" THEN AfterRecovery(j) ELSE Idle
  <2>1. k \in Jobs /\ Shaped(k)
    BY <1>1, IdleType, JobStates, JobShapes
  <2>2. Become(w, k)
    BY <1>5 DEF ApplyRemote
  <2> HIDE DEF k
  <2>3. job' \in [Writers -> Jobs] /\ Shape'
    BY <2>1, <2>2, Becoming
  <2>4. pulled' \in [Writers -> BOOLEAN]
    BY <1>5, Zenon DEF ApplyRemote, TypeInv, TypeOK
  <2> QED
    BY <1>2, <1>3, <1>5, <2>3, <2>4 DEF ApplyRemote, TypeInv, TypeOK, storeVars
<1>6. CASE MergeToRemote(w)
  <2>1. job' \in [Writers -> Jobs] /\ Shape'
    BY <1>1, <1>6, IdleType, JobShapes, Becoming DEF MergeToRemote
  <2> QED
    BY <1>2, <1>3, <1>6, <2>1 DEF MergeToRemote, TypeInv, TypeOK, storeVars
<1>7. CASE Accept(w)
  <2> DEFINE k == IF j.prop.compacting THEN CleanUp(j.prop.key.gen)
                  ELSE IF Len(j.prop.manifest.increments) >= CheckpointPacks
                  THEN [j EXCEPT !.pc = "cpupload"] ELSE Idle
  <2>1. [j EXCEPT !.pc = "cpupload"] \in Jobs
    BY <1>1 DEF Jobs
  <2>2. Len(j.prop.manifest.increments) >= CheckpointPacks => Shaped([j EXCEPT !.pc = "cpupload"])
    BY <1>1, <1>7 DEF Shaped, Jobs, Accept
  <2>3. CleanUp(j.prop.key.gen) \in Jobs /\ Shaped(CleanUp(j.prop.key.gen))
    BY <1>1, <1>2, JobStates, JobShapes
  <2>4. k \in Jobs /\ Shaped(k)
    BY <1>1, <2>1, <2>2, <2>3, IdleType, JobShapes
  <2>5. Become(w, k)
    BY <1>7 DEF Accept
  <2> HIDE DEF k
  <2>6. job' \in [Writers -> Jobs] /\ Shape'
    BY <2>4, <2>5, Becoming
  <2> QED
    BY <1>2, <1>3, <1>7, <2>6 DEF Accept, TypeInv, TypeOK, storeVars
<1> QED
  BY <1>4, <1>5, <1>6, <1>7

\* Building a proposal, compacting it and uploading its pack keep the types.
LEMMA TypeProposing ==
  ASSUME TypeInv, NEW w \in Writers,
         BuildProposal(w) \/ CompactOnQuota(w) \/ UploadPack(w)
  PROVE  TypeInv'
<1> DEFINE j == job[w]
<1>1. j \in Jobs /\ Shaped(j) /\ seq[w] \in Nat
  BY DEF TypeInv, TypeOK, Shape
<1>2. /\ j.obs \in Manifest_ /\ j.prop \in Proposals /\ j.prop.manifest \in Manifest_
      /\ j.prop.pub \in ID /\ j.prop.key \in Key_ /\ j.prop.key.gen \in Nat
  BY <1>1 DEF Jobs, Proposals, Key_, Keys
<1>3. <<w, seq[w] + 1>> \in ID /\ <<w, seq[w] + 2>> \in ID
  BY <1>1, DrawnType
<1>4. CASE BuildProposal(w)
  <2> DEFINE pub  == <<w, seq[w] + 1>>
             cpID == <<w, seq[w] + 2>>
             m    == IF Present(j.obs) THEN IncrementManifest(j.obs, pub)
                                       ELSE FirstManifest(pub, cpID)
             key  == IF Present(j.obs) THEN Key("increment", NextIncrementGen(j.obs), pub)
                                       ELSE Key("checkpoint", 1, cpID)
             prop == [pub |-> pub, key |-> key, manifest |-> m, compacting |-> FALSE]
  <2>1. pub \in ID /\ cpID \in ID
    BY <1>3
  <2>2. /\ Become(w, [j EXCEPT !.prop = prop, !.pc = "upload"])
        /\ repo' = [repo EXCEPT ![w] = @ \cup {pub}]
    BY <1>4, Zenon DEF BuildProposal
  <2> HIDE DEF pub, cpID
  <2>3. m \in Manifest_ /\ key \in Key_
    <3>1. CASE Present(j.obs)
      BY <1>2, <2>1, <3>1, IncrementManifestType DEF Manifest_, Key, Key_, Keys
    <3>2. CASE ~Present(j.obs)
      BY <2>1, <3>2, FirstManifestType DEF Manifest_, Key, Key_, Keys
    <3> QED
      BY <3>1, <3>2
  <2>4. key.kind = "increment" => Len(m.increments) > 0
    <3>1. CASE Present(j.obs)
      <4>1. Len(j.obs.increments) \in Nat
        BY <1>2, ElementType DEF Manifest_, Manifests
      <4>2. Len(IncrementManifest(j.obs, pub).increments) = Len(j.obs.increments) + 1
        BY <1>2, <2>1, IncrementManifestType DEF Manifest_
      <4> QED
        BY <3>1, <4>1, <4>2
    <3>2. CASE ~Present(j.obs)
      BY <3>2 DEF Key
    <3> QED
      BY <3>1, <3>2
  <2> HIDE DEF m, key
  <2>5. prop \in Proposals
    BY <2>1, <2>3 DEF Proposals
  <2>6. prop.key = key /\ prop.manifest = m
    OBVIOUS
  <2> HIDE DEF prop
  <2>7. [j EXCEPT !.prop = prop, !.pc = "upload"] \in Jobs
    BY <1>1, <2>5 DEF Jobs
  <2>8. j.op = "commit"
    BY <1>1, <1>4 DEF BuildProposal, Shaped
  <2>9. Shaped([j EXCEPT !.prop = prop, !.pc = "upload"])
    BY <1>1, <2>4, <2>6, <2>8 DEF Shaped, Jobs
  <2>10. job' \in [Writers -> Jobs] /\ Shape'
    BY <2>2, <2>7, <2>9, Becoming
  <2>11. repo' \in [Writers -> SUBSET ID]
    BY <2>1, <2>2 DEF TypeInv, TypeOK
  <2>12. seq' \in [Writers -> Nat]
    BY <1>1, <1>4 DEF BuildProposal, TypeInv, TypeOK
  <2> QED
    BY <1>4, <2>10, <2>11, <2>12 DEF BuildProposal, TypeInv, TypeOK, storeVars
<1>5. CASE CompactOnQuota(w)
  <2> DEFINE cpID == <<w, seq[w] + 1>>
             prop == [pub |-> j.prop.pub, key |-> Key("checkpoint", j.prop.key.gen, cpID),
                      manifest |-> CompactingManifest(j.prop.manifest, cpID),
                      compacting |-> TRUE]
  <2>1. Become(w, [j EXCEPT !.prop = prop])
    BY <1>5, Zenon DEF CompactOnQuota
  <2>2. Len(j.prop.manifest.increments) > 0
    BY <1>1, <1>5 DEF CompactOnQuota, Shaped
  <2>3. CompactingManifest(j.prop.manifest, cpID) \in Manifest_
    BY <1>2, <1>3, <2>2, CompactingManifestType DEF Manifest_
  <2>4. Key("checkpoint", j.prop.key.gen, cpID) \in Key_
    BY <1>2, <1>3 DEF Key, Key_, Keys
  <2>5. prop \in Proposals
    BY <1>2, <2>3, <2>4 DEF Proposals
  <2>6. prop.key.kind = "checkpoint"
    BY DEF Key
  <2> HIDE DEF prop
  <2>7. [j EXCEPT !.prop = prop] \in Jobs
    BY <1>1, <2>5 DEF Jobs
  <2>8. j.op = "commit" /\ j.pc = "upload"
    BY <1>1, <1>5 DEF CompactOnQuota, Shaped
  <2>9. Shaped([j EXCEPT !.prop = prop])
    BY <1>1, <2>6, <2>8 DEF Shaped, Jobs
  <2>10. job' \in [Writers -> Jobs] /\ Shape'
    BY <2>1, <2>7, <2>9, Becoming
  <2>11. seq' \in [Writers -> Nat]
    BY <1>1, <1>5 DEF CompactOnQuota, TypeInv, TypeOK
  <2> QED
    BY <1>5, <2>10, <2>11 DEF CompactOnQuota, TypeInv, TypeOK, storeVars
<1>6. CASE UploadPack(w)
  <2>1. [j EXCEPT !.pc = "cas"] \in Jobs
    BY <1>1 DEF Jobs
  <2>2. Shaped([j EXCEPT !.pc = "cas"])
    BY <1>1, <1>6 DEF Shaped, Jobs, UploadPack
  <2>3. job' \in [Writers -> Jobs] /\ Shape'
    BY <1>1, <1>6, <2>1, <2>2, IdleType, JobShapes, Becoming DEF UploadPack
  <2> QED
    BY <1>2, <1>6, <2>3 DEF UploadPack, TypeInv, TypeOK
<1> QED
  BY <1>4, <1>5, <1>6

\* The answers to a conditional write of a proposal keep the types.
LEMMA TypePublishing ==
  ASSUME TypeInv, NEW w \in Writers,
         \/ PublishAccepted(w) \/ PublishLost(w) \/ PublishRefused(w)
         \/ PublishUnanswered(w) \/ PublishResent(w)
  PROVE  TypeInv'
<1> DEFINE j == job[w]
<1>1. j \in Jobs /\ Shaped(j) /\ j.pc = "cas"
  BY DEF TypeInv, TypeOK, Shape, PublishAccepted, PublishLost, PublishRefused,
         PublishUnanswered, PublishResent, Publishing
<1>2. j.obs \in Manifest_ /\ j.prop.manifest \in Manifest_ /\ j.prop.key \in Key_
  BY <1>1 DEF Jobs, Proposals
<1>3. /\ Idle \in Jobs /\ Shaped(Idle)
      /\ RetryPublication(j) \in Jobs /\ Shaped(RetryPublication(j))
  BY <1>1, IdleType, JobStates, JobShapes
<1>4. \A pc \in {"accept", "lookup"} : Spent(j, pc) \in Jobs
  BY <1>1, IdleType DEF Spent, Jobs
<1>5. \A pc \in {"accept", "lookup"} : Shaped(Spent(j, pc))
  BY <1>1 DEF Spent, Jobs, Shaped
<1>6. Discard(j.prop) => packs' \subseteq Key_ /\ deletes' \subseteq SUBSET Key_
  <2>1. {j.prop.key} \in SUBSET Key_
    BY <1>2
  <2>2. Delete({j.prop.key}) => packs' \subseteq Key_ /\ deletes' \subseteq SUBSET Key_
    BY <2>1, TypeDelete
  <2>3. UNCHANGED <<packs, deletes>> => packs' \subseteq Key_ /\ deletes' \subseteq SUBSET Key_
    BY DEF TypeInv, TypeOK
  <2> QED
    BY <2>2, <2>3, Zenon DEF Discard
<1>7. CASE PublishAccepted(w)
  <2>1. job' \in [Writers -> Jobs] /\ Shape'
    BY <1>4, <1>5, <1>7, Becoming DEF PublishAccepted
  <2> QED
    BY <1>2, <1>7, <2>1, TypeAdopt DEF PublishAccepted, TypeInv, TypeOK
<1>8. CASE PublishLost(w)
  <2>1. job' \in [Writers -> Jobs] /\ Shape'
    BY <1>3, <1>8, Becoming DEF PublishLost
  <2> QED
    BY <1>6, <1>8, <2>1 DEF PublishLost, TypeInv, TypeOK
<1>9. CASE PublishRefused(w)
  <2>1. job' \in [Writers -> Jobs] /\ Shape'
    BY <1>3, <1>9, Becoming DEF PublishRefused
  <2> QED
    BY <1>6, <1>9, <2>1 DEF PublishRefused, TypeInv, TypeOK
<1>10. CASE PublishUnanswered(w)
  <2>1. job' \in [Writers -> Jobs] /\ Shape'
    BY <1>4, <1>5, <1>10, Becoming DEF PublishUnanswered
  <2> QED
    BY <1>2, <1>10, <2>1, TypeLoseResponse DEF PublishUnanswered, TypeInv, TypeOK
<1>11. CASE PublishResent(w)
  <2>1. job' \in [Writers -> Jobs] /\ Shape'
    BY <1>3, <1>11, Becoming DEF PublishResent
  <2> QED
    BY <1>2, <1>11, <2>1, TypeAdopt DEF PublishResent, TypeInv, TypeOK
<1> QED
  BY <1>7, <1>8, <1>9, <1>10, <1>11

\* The steps of a checkpoint effort keep the types.
LEMMA TypeCheckpoint ==
  ASSUME TypeInv, NEW w \in Writers, CheckpointEffort(w)
  PROVE  TypeInv'
<1> DEFINE j == job[w]
<1>1. j \in Jobs /\ Shaped(j) /\ seq[w] \in Nat
  BY DEF TypeInv, TypeOK, Shape
<1>2. /\ j.obs \in Manifest_ /\ j.prop.manifest \in Manifest_
      /\ j.cp \in Key_ /\ j.cp.gen \in Nat
  BY <1>1 DEF Jobs, Proposals, Key_, Keys
<1>3. /\ Idle \in Jobs /\ Shaped(Idle)
      /\ CleanUp(j.cp.gen) \in Jobs /\ Shaped(CleanUp(j.cp.gen))
      /\ RetryCheckpoint(j) \in Jobs
      /\ j.op = "checkpoint" => Shaped(RetryCheckpoint(j))
  BY <1>1, <1>2, IdleType, JobStates, JobShapes
<1>4. CASE CheckpointUpload(w)
  <2> DEFINE incs == j.prop.manifest.increments
             id   == <<w, seq[w] + 1>>
             key  == Key("checkpoint", PlanLast(Plan(w)).gen, id)
  <2>1. incs \in Seq(Increments(ID, Nat)) /\ Len(incs) >= CheckpointPacks
    BY <1>1, <1>2, <1>4 DEF Manifest_, Manifests, Shaped, CheckpointUpload
  <2>2. PlanLast(Plan(w)) \in Increments(ID, Nat)
    <3>1. /\ Plan(w) \in Seq(Increments(ID, Nat))
          /\ Len(Plan(w)) = CheckpointPacks
      BY <2>1, PrefixType, ConstantsAssumption DEF Plan, PlanPrefix
    <3>2. Len(Plan(w)) \in 1 .. Len(Plan(w))
      BY <3>1, ConstantsAssumption
    <3> QED
      BY <3>1, <3>2, ElementType DEF PlanLast
  <2>3. key \in Key_
    BY <1>1, <2>2, DrawnType DEF Increments, Key, Key_, Keys
  <2>4. /\ Become(w, [j EXCEPT !.pc = "read", !.op = "checkpoint", !.cp = key,
                               !.mode = "reusing", !.attempt = 1, !.restarts = 0])
        /\ packs' = packs \cup {key}
    BY <1>4, Zenon DEF CheckpointUpload
  <2> HIDE DEF key
  <2>5. [j EXCEPT !.pc = "read", !.op = "checkpoint", !.cp = key,
                  !.mode = "reusing", !.attempt = 1, !.restarts = 0] \in Jobs
    BY <1>1, <2>3 DEF Jobs
  <2>6. Shaped([j EXCEPT !.pc = "read", !.op = "checkpoint", !.cp = key,
                         !.mode = "reusing", !.attempt = 1, !.restarts = 0])
    BY <1>1, <2>1 DEF Jobs, Shaped
  <2>7. job' \in [Writers -> Jobs] /\ Shape'
    BY <2>4, <2>5, <2>6, Becoming
  <2>8. seq' \in [Writers -> Nat]
    BY <1>1, <1>4 DEF CheckpointUpload, TypeInv, TypeOK
  <2>9. packs' \subseteq Key_
    BY <2>3, <2>4 DEF TypeInv, TypeOK
  <2> QED
    BY <1>4, <2>7, <2>8, <2>9 DEF CheckpointUpload, TypeInv, TypeOK
<1>5. CASE CheckpointPlan(w)
  <2> DEFINE k == IF PrefixPresent(j.obs, Plan(w)) THEN [j EXCEPT !.pc = "cpcas"] ELSE Idle
  <2>1. j.op = "checkpoint"
    BY <1>1, <1>5 DEF CheckpointPlan, Shaped
  <2>2. PrefixPresent(j.obs, Plan(w)) => Len(j.obs.increments) >= CheckpointPacks
    <3>1. /\ j.prop.manifest.increments \in Seq(Increments(ID, Nat))
          /\ Len(j.prop.manifest.increments) >= CheckpointPacks
      BY <1>1, <1>2, <2>1 DEF Manifest_, Manifests, Shaped
    <3>2. Len(Plan(w)) = CheckpointPacks
      BY <3>1, PrefixType, ConstantsAssumption DEF Plan, PlanPrefix
    <3> QED
      BY <3>2 DEF PrefixPresent
  <2>3. [j EXCEPT !.pc = "cpcas"] \in Jobs
    BY <1>1 DEF Jobs
  <2>4. PrefixPresent(j.obs, Plan(w)) => Shaped([j EXCEPT !.pc = "cpcas"])
    BY <1>1, <2>1, <2>2 DEF Shaped, Jobs
  <2>5. k \in Jobs /\ Shaped(k)
    BY <1>3, <2>3, <2>4
  <2>6. Become(w, k)
    BY <1>5, Zenon DEF CheckpointPlan
  <2> HIDE DEF k
  <2> QED
    BY <1>5, <2>5, <2>6, JobOnly DEF CheckpointPlan
<1>6. CASE CheckpointLookup(w)
  <2> DEFINE k == IF CheckpointIn(current, j.cp.id) THEN CleanUp(j.cp.gen) ELSE Idle
  <2>1. k \in Jobs /\ Shaped(k)
    BY <1>3
  <2>2. Become(w, k)
    BY <1>6, Zenon DEF CheckpointLookup
  <2> HIDE DEF k
  <2> QED
    BY <1>6, <2>1, <2>2, JobOnly DEF CheckpointLookup
<1>7. CASE \/ CheckpointAccepted(w) \/ CheckpointLost(w) \/ CheckpointResent(w)
           \/ CheckpointUnanswered(w)
  <2>1. j.pc = "cpcas" /\ j.op = "checkpoint" /\ CheckpointNext(w) \in Manifest_
    BY <1>1, <1>7, CheckpointNextType
       DEF CheckpointAccepted, CheckpointLost, CheckpointResent, CheckpointUnanswered,
           Compacting, Shaped
  <2>2. Spent(j, "cplookup") \in Jobs
    BY <1>1, IdleType DEF Spent, Jobs
  <2>3. Shaped(Spent(j, "cplookup"))
    BY <1>1, <2>1 DEF Spent, Jobs, Shaped
  <2>4. job' \in [Writers -> Jobs] /\ Shape'
    BY <1>3, <1>7, <2>1, <2>2, <2>3, Becoming
       DEF CheckpointAccepted, CheckpointLost, CheckpointResent, CheckpointUnanswered
  <2>5. CASE CheckpointAccepted(w)
    BY <2>1, <2>4, <2>5, TypeAdopt DEF CheckpointAccepted, TypeInv, TypeOK
  <2>6. CASE CheckpointLost(w)
    BY <2>4, <2>6 DEF CheckpointLost, TypeInv, TypeOK, storeVars
  <2>7. CASE CheckpointResent(w)
    BY <2>1, <2>4, <2>7, TypeAdopt DEF CheckpointResent, TypeInv, TypeOK
  <2>8. CASE CheckpointUnanswered(w)
    BY <1>2, <2>1, <2>4, <2>8, TypeLoseResponse DEF CheckpointUnanswered, TypeInv, TypeOK
  <2> QED
    BY <1>7, <2>5, <2>6, <2>7, <2>8
<1> QED
  BY <1>4, <1>5, <1>6, <1>7 DEF CheckpointEffort

\* The steps of a cleanup keep the types.
LEMMA TypeCleanup ==
  ASSUME TypeInv, NEW w \in Writers, Cleanup(w)
  PROVE  TypeInv'
<1> DEFINE j == job[w]
<1>1. j \in Jobs /\ Shaped(j) /\ packs \subseteq Key_
  BY DEF TypeInv, TypeOK, Shape
<1>2. /\ Idle \in Jobs /\ Shaped(Idle)
      /\ j.candidates \subseteq Key_ /\ j.doomed \in SUBSET Key_
  BY <1>1, IdleType, JobShapes DEF Jobs
<1>3. ASSUME NEW rest \in SUBSET Key_, j.pc \in {"roots", "delete"}
      PROVE  NextBatch(w, rest) \in Jobs /\ Shaped(NextBatch(w, rest))
  <2>1. [j EXCEPT !.pc = "roots", !.candidates = rest, !.doomed = {}] \in Jobs
    BY <1>1 DEF Jobs
  <2>2. Shaped([j EXCEPT !.pc = "roots", !.candidates = rest, !.doomed = {}])
    BY <1>1 DEF Jobs, Shaped
  <2> QED
    BY <1>2, <2>1, <2>2 DEF NextBatch
<1>4. CASE CleanupList(w)
  <2> DEFINE found == {k \in packs : k.gen <= j.cutoff}
             k == [Idle EXCEPT !.pc = "roots", !.candidates = found, !.cutoff = j.cutoff]
  <2>1. found \subseteq Key_ /\ j.cutoff \in Nat
    BY <1>1 DEF Jobs
  <2>2. Become(w, IF found = {} THEN Idle ELSE k)
    BY <1>4, Zenon DEF CleanupList
  <2> HIDE DEF found
  <2>3. k \in Jobs
    BY <2>1, IdleType DEF Jobs
  <2>4. Shaped(k)
    BY DEF Shaped, Idle
  <2> HIDE DEF k
  <2>5. Become(w, Idle) \/ Become(w, k)
    BY <2>2
  <2> QED
    BY <1>2, <1>4, <2>3, <2>4, <2>5, JobOnly DEF CleanupList
<1>5. CASE CleanupRoots(w)
  <2>1. PICK batch \in Batches(j.candidates) :
          Become(w, IF Doomed(batch) = {} THEN NextBatch(w, j.candidates \ batch)
                    ELSE [j EXCEPT !.pc = "delete", !.candidates = j.candidates \ batch,
                                   !.doomed = Doomed(batch)])
    BY <1>5, Zenon DEF CleanupRoots
  <2> DEFINE rest == j.candidates \ batch
             dead == Doomed(batch)
             k == [j EXCEPT !.pc = "delete", !.candidates = rest, !.doomed = dead]
  <2>2. batch \subseteq j.candidates
    BY <2>1 DEF Batches
  <2>3. rest \in SUBSET Key_ /\ dead \in SUBSET Key_
    BY <1>2, <2>2 DEF Doomed
  <2>4. Become(w, NextBatch(w, rest)) \/ Become(w, k)
    BY <2>1
  <2> HIDE DEF rest, dead
  <2>5. k \in Jobs
    BY <1>1, <2>3 DEF Jobs
  <2>6. Shaped(k)
    BY <1>1, <1>5 DEF Shaped, Jobs, CleanupRoots
  <2>7. NextBatch(w, rest) \in Jobs /\ Shaped(NextBatch(w, rest))
    BY <1>3, <1>5, <2>3 DEF CleanupRoots
  <2> HIDE DEF k
  <2> QED
    BY <1>5, <2>4, <2>5, <2>6, <2>7, JobOnly DEF CleanupRoots
<1>6. CASE CleanupDelete(w)
  <2>1. NextBatch(w, j.candidates) \in Jobs /\ Shaped(NextBatch(w, j.candidates))
    BY <1>2, <1>3, <1>6 DEF CleanupDelete
  <2>2. job' \in [Writers -> Jobs] /\ Shape'
    BY <1>6, <2>1, Becoming DEF CleanupDelete
  <2>3. packs' \subseteq Key_ /\ deletes' \subseteq SUBSET Key_
    BY <1>2, <1>6, TypeDelete DEF CleanupDelete
  <2> QED
    BY <1>6, <2>2, <2>3 DEF CleanupDelete, TypeInv, TypeOK
<1> QED
  BY <1>4, <1>5, <1>6 DEF Cleanup

\* A request that arrives late keeps the types.
LEMMA TypeLate ==
  ASSUME TypeInv, LateWrite \/ LateDelete
  PROVE  TypeInv'
<1>1. CASE LateWrite
  <2>1. PICK r \in writes : Land(r.base, r.next) /\ writes' = writes \ {r}
    BY <1>1 DEF LateWrite
  <2>2. r.next \in Manifest_ /\ writes' \subseteq Requests
    BY <2>1 DEF TypeInv, TypeOK, Requests
  <2>3. current' \in Manifest_ /\ accepted' \in Seq(ID)
    BY <2>1, <2>2, TypeAdopt
  <2> QED
    BY <1>1, <2>2, <2>3 DEF LateWrite, TypeInv, TypeOK, Shape
<1>2. CASE LateDelete
  BY <1>2 DEF LateDelete, TypeInv, TypeOK, Shape
<1> QED
  BY <1>1, <1>2

\* The type invariant holds initially.
LEMMA TypeInit == Init => TypeInv
<1> SUFFICES ASSUME Init PROVE TypeInv
  OBVIOUS
<1>1. Shaped(Idle)
  BY IdleType, JobShapes DEF Shaped, Idle
<1>2. accepted \in Seq(ID)
  BY EmptySeq DEF Init
<1>3. pulled \in [Writers -> BOOLEAN]
  BY DEF Init
<1>4. baseline \in [Writers -> [gen : Nat, head : ID]]
  BY IdleType DEF Init
<1> QED
  BY <1>1, <1>2, <1>3, <1>4, IdleType DEF Init, TypeInv, TypeOK, Shape

\* Every step preserves it.
LEMMA TypeStep == TypeInv /\ [Next]_vars => TypeInv'
<1> SUFFICES ASSUME TypeInv, [Next]_vars PROVE TypeInv'
  OBVIOUS
<1>1. CASE UNCHANGED vars
  BY <1>1 DEF vars, TypeInv, TypeOK, Shape
<1>2. CASE LateWrite \/ LateDelete
  BY <1>2, TypeLate
<1>3. ASSUME NEW w \in Writers,
             StartPull(w) \/ StartCommit(w) \/ StartRecovery(w) \/ Work(w)
      PROVE  TypeInv'
  BY <1>3, TypeReading, TypeApplying, TypeProposing, TypePublishing, TypeCheckpoint,
     TypeCleanup DEF Work, Read, Commit
<1> QED
  BY <1>1, <1>2, <1>3 DEF Next

\* Every variable keeps its type, and every checkpoint effort finds the tail
\* it plans to compact.
THEOREM TypeCorrect == Spec => []TypeOK
<1>1. TypeInv => TypeOK
  BY DEF TypeInv
<1> QED
  BY TypeInit, TypeStep, <1>1, PTL DEF Spec

-----------------------------------------------------------------------------
(* Cleanup, discarded compactions and late requests never remove a pack    *)
(* the accepted manifest references: PackInv is an invariant.              *)

-----------------------------------------------------------------------------
(* What keeps a job sound, whichever step is taken.                         *)

\* The parts of a job have their types.
LEMMA JobParts ==
  ASSUME NEW j \in Jobs
  PROVE  /\ j.obs \in Manifest_ /\ j.obs.gen \in Nat
         /\ j.prop \in Proposals /\ j.prop.manifest \in Manifest_ /\ j.prop.pub \in ID
         /\ j.prop.key \in Key_ /\ j.prop.key.gen \in Nat
         /\ j.cp \in Key_ /\ j.cp.gen \in Nat /\ j.cp.id \in ID
         /\ j.cutoff \in Nat /\ j.candidates \subseteq Key_ /\ j.doomed \subseteq Key_
BY DEF Jobs, Proposals, Key_, Keys, Manifest_, Manifests

\* A job survives the adoption of a manifest its own claims are apart from.
LEMMA JobAdopts ==
  ASSUME NEW j \in Jobs, NEW r \in Requests, NEW pk, Follows(r.key, r.base, r.next),
         RequestApart(j, r), CurrentOK(j, r.base), BackedOK(j, r.base, pk),
         CleanupOK(j, r.base)
  PROVE  /\ CurrentOK(j, r.next)
         /\ BackedOK(j, r.next, pk)
         /\ CleanupOK(j, r.next)
<1> DEFINE cur == r.base
           next == r.next
<1>1. /\ cur \in Manifest_ /\ next \in Manifest_ /\ r.key \in Key_
      /\ cur.gen \in Nat /\ next.gen \in Nat
      /\ cur.checkpoint.through \in Nat /\ next.checkpoint.through \in Nat
  BY ManifestParts DEF Requests
<1>2. /\ next.gen > cur.gen
      /\ ManifestRoots(next) \subseteq ManifestRoots(cur) \cup {r.key}
      /\ cur.checkpoint.through < r.key.gen
      /\ cur.checkpoint.through <= next.checkpoint.through
  BY DEF Follows
<1>3. /\ j.obs.gen \in Nat /\ j.prop.key.gen \in Nat /\ j.cp.gen \in Nat
      /\ j.cutoff \in Nat /\ j.doomed \subseteq Key_
  BY JobParts
<1> HIDE DEF cur, next
<1>4. CurrentOK(j, next)
  <2> USE DEF CurrentOK, cur, next
  <2>1. j.obs.gen < next.gen
    BY <1>1, <1>2, <1>3
  <2>2. Proposing(j) => j.prop.key \notin ManifestRoots(next)
    BY <1>2 DEF RequestApart
  <2>3. (j.pc = "upload" /\ ~j.prop.compacting) => j.prop.pub \notin Publications(next)
    BY DEF RequestApart
  <2>4. (j.pc \in {"upload", "cas", "lookup"} /\ j.prop.compacting) =>
          (j.prop.pub \in Publications(next) => j.prop.key.gen <= next.checkpoint.through)
    BY <1>1, <1>2, <1>3 DEF RequestApart
  <2>5. ((j.pc = "accept" \/ j.op = "recover") /\ j.prop.compacting) =>
          j.prop.key.gen <= next.checkpoint.through
    BY <1>1, <1>2, <1>3
  <2>6. j.op = "checkpoint" => \A k \in ManifestRoots(next) : k.id = j.cp.id => k = j.cp
    BY <1>2 DEF RequestApart
  <2>7. j.obs.gen <= next.gen /\ j.obs.gen # next.gen /\ j.obs # next
    BY <1>1, <1>3, <2>1
  <2> HIDE DEF cur, next
  <2> QED
    BY <2>2, <2>3, <2>4, <2>5, <2>6, <2>7
<1>5. \A k \in Key_ : Backed(k, cur, pk) => Backed(k, next, pk)
  BY <1>1, <1>2 DEF Backed, Key_, Keys, cur, next
<1>6. BackedOK(j, next, pk)
  BY <1>5, JobParts DEF BackedOK, cur
<1>7. CleanupOK(j, next)
  <2>1. j.cutoff <= cur.checkpoint.through => j.cutoff <= next.checkpoint.through
    BY <1>1, <1>2, <1>3 DEF cur, next
  <2>2. \A k \in Key_ : Retired(k, cur) => Retired(k, next)
    BY <1>1, <1>2 DEF Retired, Key_, Keys, cur, next
  <2> QED
    BY <1>3, <2>1, <2>2 DEF CleanupOK, cur
<1> QED
  BY <1>4, <1>6, <1>7 DEF next

\* A job survives what the other writers do to the rest of the store: more
\* UUIDs, more packs, fewer packs that it does not claim, other requests.
LEMMA JobKept ==
  ASSUME NEW j \in Jobs, NEW cur \in Manifest_, NEW own, NEW own2, NEW pk, NEW pk2, NEW wr,
         NEW wr2, JobOK(j, own, cur, pk, wr), own \subseteq own2,
         \A k \in pk \ pk2 : k.gen <= cur.checkpoint.through \/ ~Claims(j, k),
         \A r \in wr2 : RequestApart(j, r)
  PROVE  JobOK(j, own2, cur, pk2, wr2)
<1>1. cur.checkpoint.through \in Nat /\ j.prop.key.gen \in Nat /\ j.cp.gen \in Nat
  BY ManifestParts, JobParts
<1>2. ProposalOK(j, own2)
  BY DEF JobOK, ProposalOK
<1>3. BackedOK(j, cur, pk2)
  <2>1. j.pc = "cas" => Backed(j.prop.key, cur, pk2)
    BY <1>1 DEF JobOK, BackedOK, Backed, Claims, Proposing
  <2>2. (j.op = "checkpoint" /\ j.pc # "cplookup") => Backed(j.cp, cur, pk2)
    BY <1>1 DEF JobOK, BackedOK, Backed, Claims
  <2> QED
    BY <2>1, <2>2 DEF BackedOK
<1> QED
  BY <1>2, <1>3 DEF JobOK

\* A job that has nothing in hand: before a call, at its start, and when a
\* cleanup is about to begin.
Fresh(j, cur) ==
  /\ j.obs = EmptyManifest /\ j.candidates = {} /\ j.op # "checkpoint"
  /\ j.pc \in {"idle", "read", "list"}
  /\ j.pc = "list" => j.cutoff <= cur.checkpoint.through
  /\ j.prop.compacting => j.op = "recover" /\ j.prop.key.gen <= cur.checkpoint.through

\* A job that starts over claims nothing.
LEMMA FreshJob ==
  ASSUME NEW j \in Jobs, NEW cur \in Manifest_, Chained(cur), NEW own, NEW pk, NEW wr,
         Fresh(j, cur)
  PROVE  JobOK(j, own, cur, pk, wr) /\ \A k : ~Claims(j, k)
<1>1. cur.gen \in Nat /\ (cur.gen = 0 => cur = EmptyManifest)
  BY ManifestParts DEF Chained, Present
<1>2. ProposalOK(j, own)
  BY EmptyFacts DEF ProposalOK, Fresh, Proposing
<1>3. CurrentOK(j, cur)
  BY <1>1, EmptyFacts DEF CurrentOK, Fresh, Proposing
<1>4. BackedOK(j, cur, pk) /\ CleanupOK(j, cur) /\ \A r \in wr : RequestApart(j, r)
  BY DEF BackedOK, CleanupOK, RequestApart, Fresh, Proposing
<1> QED
  BY <1>2, <1>3, <1>4 DEF JobOK, Claims, Fresh, Proposing

\* The writes of one writer are apart from the jobs of another.
LEMMA Apart ==
  ASSUME NEW j \in Jobs, NEW own, NEW other, ProposalOK(j, own), NEW r \in Requests,
         r.key.id \in other, Publications(r.next) \subseteq Publications(r.base) \cup other,
         own \cap other = {}
  PROVE  RequestApart(j, r)
BY DEF RequestApart, ProposalOK, Proposing

-----------------------------------------------------------------------------
(* The kinds of step, and what each asks of the job that takes it.          *)

Inv == TypeInv /\ PackInv

Own(w) == OwnIDs(w, seq[w])

\* UUIDs are drawn once: two writers never hold the same one, and the next one
\* is new.
LEMMA DrawnFacts ==
  ASSUME TypeInv
  PROVE  /\ \A v \in Writers : Own(v) \subseteq DrawnIDs
         /\ \A v, w \in Writers : v # w => Own(v) \cap Own(w) = {}
         /\ \A w \in Writers : \A n \in Nat : n > seq[w] => <<w, n>> \notin DrawnIDs
<1>1. \A v \in Writers : seq[v] \in Nat
  BY DEF TypeInv, TypeOK
<1>2. \A v \in Writers : Own(v) \subseteq DrawnIDs
  BY DEF Own, OwnIDs, DrawnIDs
<1>3. \A v, w \in Writers : v # w => Own(v) \cap Own(w) = {}
  BY DEF Own, OwnIDs
<1>4. \A w \in Writers : \A n \in Nat : n > seq[w] => <<w, n>> \notin DrawnIDs
  BY <1>1 DEF DrawnIDs
<1> QED
  BY <1>2, <1>3, <1>4

\* Drawing more keeps what was drawn.
LEMMA DrawnGrows ==
  ASSUME TypeInv, TypeInv', \A v \in Writers : seq'[v] >= seq[v]
  PROVE  /\ DrawnIDs \subseteq DrawnIDs'
         /\ \A v \in Writers : Own(v) \subseteq OwnIDs(v, seq'[v])
<1>1. \A v \in Writers : seq[v] \in Nat /\ seq'[v] \in Nat
  <2>1. seq \in [Writers -> Nat] /\ seq' \in [Writers -> Nat]
    BY Zenon DEF TypeInv, TypeOK
  <2> QED BY <2>1
<1>2. \A v \in Writers : 1 .. seq[v] \subseteq 1 .. seq'[v]
  BY <1>1
<1> QED BY <1>2 DEF DrawnIDs, Own, OwnIDs

\* The job of one writer is replaced.
LEMMA Replaced ==
  ASSUME TypeInv, NEW w \in Writers, NEW j, Become(w, j)
  PROVE  job'[w] = j /\ \A v \in Writers : v # w => job'[v] = job[v]
BY DEF Become, TypeInv, TypeOK

\* A step that moves nothing in the store but may add a pack.
LEMMA QuietStep ==
  ASSUME Inv, TypeInv', NEW w \in Writers, NEW j, Become(w, j),
         current' = current, writes' = writes, deletes' = deletes, packs \subseteq packs',
         \A v \in Writers : seq'[v] >= seq[v],
         JobOK(j, OwnIDs(w, seq'[w]), current, packs', writes),
         \A k \in Key_ : Claims(j, k) => Claims(job[w], k) \/ k.id \notin DrawnIDs
  PROVE  PackInv'
<1>1. /\ TypeInv /\ current \in Manifest_
      /\ \A v \in Writers : job[v] \in Jobs
      /\ \A d \in deletes : d \subseteq Key_
  BY DEF Inv, TypeInv, TypeOK
<1>2. /\ DrawnIDs \subseteq DrawnIDs'
      /\ \A v \in Writers : Own(v) \subseteq OwnIDs(v, seq'[v])
  BY <1>1, DrawnGrows
<1>3. job'[w] = j /\ \A v \in Writers : v # w => job'[v] = job[v]
  BY <1>1, Replaced
<1>4. StoreOK(current, packs', DrawnIDs')
  BY <1>2 DEF Inv, PackInv, StoreOK
<1>5. \A r \in writes : RequestOK(r, current, packs', DrawnIDs')
  BY <1>2 DEF Inv, PackInv, RequestOK, Backed
<1>6. \A d \in deletes : \A k \in d : Dead(k)'
  <2> SUFFICES ASSUME NEW d \in deletes, NEW k \in d PROVE Dead(k)'
    OBVIOUS
  <2>1. k \in Key_ /\ Dead(k)
    BY <1>1 DEF Inv, PackInv
  <2>2. Unclaimed(k) => Unclaimed(k)'
    BY <1>2, <1>3, <2>1 DEF Unclaimed
  <2> QED
    BY <2>1, <2>2 DEF Dead
<1>7. \A v \in Writers : JobOK(job'[v], OwnIDs(v, seq'[v]), current, packs', writes)
  <2> SUFFICES ASSUME NEW v \in Writers, v # w
               PROVE  JobOK(job[v], OwnIDs(v, seq'[v]), current, packs', writes)
    BY <1>3
  <2>1. JobOK(job[v], Own(v), current, packs, writes)
    BY DEF Inv, PackInv, Own
  <2>2. \A r \in writes : RequestApart(job[v], r)
    BY <2>1 DEF JobOK
  <2> QED
    BY <1>1, <1>2, <2>1, <2>2, JobKept
<1> QED
  BY <1>4, <1>5, <1>6, <1>7 DEF PackInv

\* The store adopts the manifest of a request, its sender's or a late one.
LEMMA AdoptStep ==
  ASSUME Inv, TypeInv', NEW r \in Requests, current = r.base, current' = r.next,
         packs' = packs, deletes' = deletes, writes' \subseteq writes, seq' = seq,
         RequestOK(r, current, packs, DrawnIDs),
         r \in writes \/ \E w \in Writers : Claims(job[w], r.key),
         \A v \in Writers :
           \/ job'[v] = job[v] /\ RequestApart(job[v], r)
           \/ JobOK(job'[v], Own(v), r.next, packs, writes),
         \A v \in Writers : \A k \in Key_ : Claims(job'[v], k) => Claims(job[v], k)
  PROVE  PackInv'
<1>1. /\ current \in Manifest_ /\ r.next \in Manifest_ /\ r.key \in Key_
      /\ current.checkpoint.through \in Nat /\ r.next.checkpoint.through \in Nat
      /\ \A v \in Writers : job[v] \in Jobs
      /\ \A d \in deletes : d \subseteq Key_
      /\ writes \subseteq Requests
  BY ManifestParts DEF Inv, TypeInv, TypeOK, Requests
<1>2. /\ Follows(r.key, current, r.next)
      /\ Chained(r.next)
      /\ ManifestRoots(r.next) \subseteq ManifestRoots(current) \cup {r.key}
      /\ current.checkpoint.through < r.key.gen
      /\ current.checkpoint.through <= r.next.checkpoint.through
      /\ Publications(r.next) \subseteq Publications(current) \cup DrawnIDs
      /\ r.key.id \in DrawnIDs /\ r.key \in packs
  BY DEF RequestOK, Follows, Backed
<1>3. DrawnIDs' = DrawnIDs
  BY DEF DrawnIDs
<1>4. StoreOK(r.next, packs, DrawnIDs)
  BY <1>2 DEF Inv, PackInv, StoreOK
<1>5. \A q \in writes' : RequestOK(q, r.next, packs, DrawnIDs)
  <2> SUFFICES ASSUME NEW q \in writes PROVE RequestOK(q, r.next, packs, DrawnIDs)
    OBVIOUS
  <2>1. RequestOK(q, current, packs, DrawnIDs) /\ q.key \in Key_
    BY <1>1 DEF Inv, PackInv, Requests
  <2>2. q.key.gen \in Nat
    BY <2>1 DEF Key_, Keys
  <2>3. Backed(q.key, r.next, packs)
    BY <1>1, <1>2, <2>1, <2>2 DEF RequestOK, Backed
  <2> QED
    BY <2>1, <2>3 DEF RequestOK
<1>6. \A d \in deletes : \A k \in d : Dead(k)'
  <2> SUFFICES ASSUME NEW d \in deletes, NEW k \in d PROVE Dead(k)'
    OBVIOUS
  <2>1. k \in Key_ /\ Dead(k) /\ k.gen \in Nat
    BY <1>1 DEF Inv, PackInv, Key_, Keys
  <2>2. k # r.key
    BY <1>1, <1>2, <2>1 DEF Dead, Unclaimed
  <2>3. k \notin ManifestRoots(r.next)
    BY <1>2, <2>1, <2>2 DEF Dead
  <2>4. Unclaimed(k) => Unclaimed(k)'
    BY <1>3, <2>1 DEF Unclaimed
  <2>5. k.gen <= current.checkpoint.through => k.gen <= r.next.checkpoint.through
    BY <1>1, <1>2, <2>1
  <2> QED
    BY <2>1, <2>3, <2>4, <2>5 DEF Dead
<1>7. \A v \in Writers : JobOK(job'[v], Own(v), r.next, packs, writes')
  <2> SUFFICES ASSUME NEW v \in Writers
               PROVE  JobOK(job'[v], Own(v), r.next, packs, writes')
    OBVIOUS
  <2>1. CASE job'[v] = job[v] /\ RequestApart(job[v], r)
    <3>1. JobOK(job[v], Own(v), current, packs, writes)
      BY DEF Inv, PackInv, Own
    <3>2. /\ CurrentOK(job[v], r.next)
          /\ BackedOK(job[v], r.next, packs)
          /\ CleanupOK(job[v], r.next)
      BY <1>1, <1>2, <2>1, <3>1, JobAdopts DEF JobOK
    <3> QED
      BY <2>1, <3>1, <3>2 DEF JobOK
  <2>2. CASE JobOK(job'[v], Own(v), r.next, packs, writes)
    BY <2>2 DEF JobOK
  <2> QED
    BY <2>1, <2>2
<1> QED
  BY <1>3, <1>4, <1>5, <1>6, <1>7 DEF PackInv, Own

\* A conditional write stays in flight.
LEMMA SendStep ==
  ASSUME Inv, TypeInv', NEW w \in Writers, NEW j, Become(w, j), NEW r \in Requests,
         writes' = writes \cup {r}, current' = current, packs' = packs, deletes' = deletes,
         seq' = seq, RequestOK(r, current, packs, DrawnIDs), Claims(job[w], r.key),
         \A v \in Writers \ {w} : RequestApart(job[v], r),
         JobOK(j, Own(w), current, packs, writes'),
         \A k \in Key_ : Claims(j, k) => Claims(job[w], k)
  PROVE  PackInv'
<1>1. /\ TypeInv /\ current \in Manifest_
      /\ \A v \in Writers : job[v] \in Jobs
      /\ \A d \in deletes : d \subseteq Key_
  BY DEF Inv, TypeInv, TypeOK
<1>2. job'[w] = j /\ \A v \in Writers : v # w => job'[v] = job[v]
  BY <1>1, Replaced
<1>3. DrawnIDs' = DrawnIDs
  BY DEF DrawnIDs
<1>4. \A q \in writes' : RequestOK(q, current, packs, DrawnIDs)
  BY DEF Inv, PackInv
<1>5. \A d \in deletes : \A k \in d : Dead(k)'
  <2> SUFFICES ASSUME NEW d \in deletes, NEW k \in d PROVE Dead(k)'
    OBVIOUS
  <2>1. k \in Key_ /\ Dead(k)
    BY <1>1 DEF Inv, PackInv
  <2>2. Unclaimed(k) => Unclaimed(k)'
    BY <1>2, <1>3, <2>1 DEF Unclaimed
  <2> QED
    BY <2>1, <2>2 DEF Dead
<1>6. \A v \in Writers : JobOK(job'[v], Own(v), current, packs, writes')
  <2> SUFFICES ASSUME NEW v \in Writers, v # w
               PROVE  JobOK(job[v], Own(v), current, packs, writes')
    BY <1>2
  <2>1. JobOK(job[v], Own(v), current, packs, writes)
    BY DEF Inv, PackInv, Own
  <2> QED
    BY <2>1 DEF JobOK
<1>7. StoreOK(current, packs, DrawnIDs)
  BY DEF Inv, PackInv
<1> QED
  BY <1>3, <1>4, <1>5, <1>6, <1>7 DEF PackInv, Own

\* Packs are deleted, or their deletion stays in flight: they must be dead
\* once the step is taken.
LEMMA DeleteStep ==
  ASSUME Inv, TypeInv', NEW batch \in SUBSET Key_, current' = current, writes' = writes,
         seq' = seq, packs \ packs' \subseteq batch, packs' \subseteq packs,
         deletes' \subseteq deletes \cup {batch}, \A k \in batch : Dead(k)',
         \A v \in Writers : JobOK(job'[v], Own(v), current, packs, writes),
         \A v \in Writers : \A k \in Key_ : Claims(job'[v], k) => Claims(job[v], k)
  PROVE  PackInv'
<1>1. /\ TypeInv /\ current \in Manifest_
      /\ \A v \in Writers : job'[v] \in Jobs
      /\ \A d \in deletes : d \subseteq Key_
      /\ current.checkpoint.through \in Nat
  BY ManifestParts DEF Inv, TypeInv, TypeOK
<1>2. DrawnIDs' = DrawnIDs
  BY DEF DrawnIDs
<1>3. \A k \in packs \ packs' :
        /\ k \notin ManifestRoots(current)
        /\ \/ k.gen <= current.checkpoint.through
           \/ /\ \A v \in Writers : ~Claims(job'[v], k)
              /\ \A r \in writes : r.key # k
  BY DEF Dead, Unclaimed
<1>4. StoreOK(current, packs', DrawnIDs)
  BY <1>3 DEF Inv, PackInv, StoreOK
<1>5. \A r \in writes : RequestOK(r, current, packs', DrawnIDs)
  <2> SUFFICES ASSUME NEW r \in writes PROVE RequestOK(r, current, packs', DrawnIDs)
    OBVIOUS
  <2>1. RequestOK(r, current, packs, DrawnIDs) /\ r.key.gen \in Nat
    BY DEF Inv, PackInv, TypeInv, TypeOK, Requests, Key_, Keys
  <2>2. Backed(r.key, current, packs')
    BY <1>1, <1>3, <2>1 DEF RequestOK, Backed
  <2> QED
    BY <2>1, <2>2 DEF RequestOK
<1>6. \A d \in deletes' : \A k \in d : Dead(k)'
  <2> SUFFICES ASSUME NEW d \in deletes, NEW k \in d PROVE Dead(k)'
    OBVIOUS
  <2>1. k \in Key_ /\ Dead(k)
    BY <1>1 DEF Inv, PackInv
  <2>2. Unclaimed(k) => Unclaimed(k)'
    BY <1>2, <2>1 DEF Unclaimed
  <2> QED
    BY <2>1, <2>2 DEF Dead
<1>7. \A v \in Writers : JobOK(job'[v], Own(v), current, packs', writes)
  <2> SUFFICES ASSUME NEW v \in Writers
               PROVE  JobOK(job'[v], Own(v), current, packs', writes)
    OBVIOUS
  <2>1. \A r \in writes : RequestApart(job'[v], r)
    BY DEF JobOK
  <2>2. \A k \in packs \ packs' :
          k.gen <= current.checkpoint.through \/ ~Claims(job'[v], k)
    BY <1>3
  <2> QED
    BY <1>1, <2>1, <2>2, JobKept
<1> QED
  BY <1>2, <1>4, <1>5, <1>6, <1>7 DEF PackInv, Own

\* The conditional write of a writer's own proposal or checkpoint.
LEMMA OwnRequest ==
  ASSUME Inv, NEW w \in Writers, NEW r \in Requests, r.key.id \in Own(w),
         Follows(r.key, r.base, r.next), Backed(r.key, current, packs),
         Publications(r.next) \subseteq Publications(r.base) \cup Own(w)
  PROVE  /\ RequestOK(r, current, packs, DrawnIDs)
         /\ \A v \in Writers \ {w} : RequestApart(job[v], r)
<1>1. TypeInv /\ \A v \in Writers : job[v] \in Jobs
  BY DEF Inv, TypeInv, TypeOK
<1>2. RequestOK(r, current, packs, DrawnIDs)
  BY <1>1, DrawnFacts DEF RequestOK
<1>3. ASSUME NEW v \in Writers \ {w} PROVE RequestApart(job[v], r)
  <2>1. ProposalOK(job[v], Own(v))
    BY DEF Inv, PackInv, JobOK, Own
  <2>2. Own(v) \cap Own(w) = {}
    BY <1>1, DrawnFacts
  <2> QED
    BY <1>1, <2>1, <2>2, Apart
<1> QED
  BY <1>2, <1>3

-----------------------------------------------------------------------------
(* The jobs the actions produce.                                            *)

\* The states a call ends in or starts over from have nothing in hand.
LEMMA FreshStates ==
  ASSUME NEW j \in Jobs, NEW cur \in Manifest_, CurrentOK(j, cur)
  PROVE  /\ Fresh(Idle, cur)
         /\ \A c \in Nat : c <= cur.checkpoint.through => Fresh(CleanUp(c), cur)
         /\ j.op = "recover" => Fresh(AfterRecovery(j), cur)
         /\ Fresh(FailedRead(j), cur)
         /\ j.op \in {"pull", "commit"} => Fresh(StrictAttempt(j), cur)
         /\ Fresh(RetryPublication(j), cur)
<1>1. cur.checkpoint.through \in Nat /\ j.prop.key.gen \in Nat
  BY ManifestParts, JobParts
<1>2. Fresh(Idle, cur)
  BY DEF Fresh, Idle, NoProposal
<1>3. \A c \in Nat : c <= cur.checkpoint.through => Fresh(CleanUp(c), cur)
  BY DEF Fresh, CleanUp, Idle, NoProposal
<1>4. j.op = "recover" => Fresh(AfterRecovery(j), cur)
  BY <1>1, <1>2, <1>3 DEF AfterRecovery, CurrentOK
<1>5. Fresh(FailedRead(j), cur)
  BY <1>2, <1>4 DEF FailedRead
<1>6. j.op \in {"pull", "commit"} => Fresh(StrictAttempt(j), cur)
  BY DEF Fresh, StrictAttempt, Idle, NoProposal
<1> DEFINE n == j.attempt + 1
<1> HIDE DEF n
<1>7. Fresh(RetryPublication(j), cur)
  <2>1. Fresh([Idle EXCEPT !.pc = "read", !.op = "commit", !.mode = j.mode,
                           !.attempt = n], cur)
    BY DEF Fresh, Idle, NoProposal
  <2> QED
    BY <1>2, <2>1 DEF RetryPublication, n
<1> QED
  BY <1>2, <1>3, <1>4, <1>5, <1>6, <1>7

\* A call that reads, loads, plans or reads again keeps what it has in hand.
LEMMA Reading ==
  ASSUME NEW j \in Jobs, Shaped(j), NEW k \in Jobs, NEW cur, NEW own, NEW pk, NEW wr,
         JobOK(j, own, cur, pk, wr),
         j.pc \in {"read", "load", "reread", "merge", "apply", "cpplan", "cpcas"},
         k.pc \in {"read", "load", "reread", "merge", "apply", "cpplan", "cpcas"},
         k.op = j.op, k.prop = j.prop, k.cp = j.cp, k.candidates = j.candidates,
         k.cutoff = j.cutoff, Chained(k.obs), k.obs.gen <= cur.gen,
         k.obs.gen = cur.gen => k.obs = cur,
         k.pc = "load" => Present(k.obs), k.pc = "reread" => k.obs # cur,
         k.pc = "cpcas" => PrefixPresent(k.obs, PlanPrefix(k.prop.manifest, CheckpointPacks))
  PROVE  JobOK(k, own, cur, pk, wr) /\ \A x : Claims(k, x) => Claims(j, x)
<1>1. ProposalOK(k, own)
  <2>1. (k.op \in {"pull", "commit"} /\ k.pc \in {"read", "load", "reread", "merge", "apply"})
          => ~k.prop.compacting
    BY DEF JobOK, ProposalOK, Shaped
  <2>2. ~Proposing(k)
    BY DEF Proposing
  <2> QED
    BY <2>1, <2>2 DEF JobOK, ProposalOK
<1>2. CurrentOK(k, cur)
  BY DEF JobOK, CurrentOK, Proposing
<1>3. BackedOK(k, cur, pk)
  BY DEF JobOK, BackedOK
<1>4. CleanupOK(k, cur)
  BY DEF JobOK, CleanupOK
<1>5. \A r \in wr : RequestApart(k, r)
  BY DEF JobOK, RequestApart, Proposing
<1> QED
  BY <1>1, <1>2, <1>3, <1>4, <1>5 DEF JobOK, Claims, Proposing

\* A cleanup that goes on keeps what it has in hand.
LEMMA Cleaning ==
  ASSUME NEW j \in Jobs, NEW k \in Jobs, NEW cur, NEW own, NEW pk, NEW wr,
         JobOK(j, own, cur, pk, wr), j.pc \in {"roots", "delete"}, k.pc \in {"roots", "delete"},
         k.op = j.op, k.prop = j.prop, k.cp = j.cp, k.obs = j.obs, k.cutoff = j.cutoff,
         k.candidates \subseteq j.candidates,
         k.pc = "delete" => \A x \in k.doomed : Retired(x, cur)
  PROVE  JobOK(k, own, cur, pk, wr) /\ \A x : Claims(k, x) => Claims(j, x)
<1>1. ProposalOK(k, own)
  BY DEF JobOK, ProposalOK, Proposing
<1>2. CurrentOK(k, cur)
  BY DEF JobOK, CurrentOK, Proposing
<1>3. BackedOK(k, cur, pk)
  BY DEF JobOK, BackedOK
<1>4. CleanupOK(k, cur)
  BY DEF JobOK, CleanupOK
<1>5. \A r \in wr : RequestApart(k, r)
  BY DEF JobOK, RequestApart, Proposing
<1> QED
  BY <1>1, <1>2, <1>3, <1>4, <1>5 DEF JobOK, Claims, Proposing

\* A step that only changes the job.
LEMMA JobStep ==
  ASSUME Inv, TypeInv', NEW w \in Writers, NEW j, Become(w, j), UNCHANGED <<storeVars, seq>>,
         JobOK(j, Own(w), current, packs, writes),
         \A k \in Key_ : Claims(j, k) => Claims(job[w], k)
  PROVE  PackInv'
<1>1. /\ current' = current /\ packs' = packs /\ writes' = writes /\ deletes' = deletes
      /\ seq' = seq
  BY DEF storeVars
<1>2. \A v \in Writers : seq'[v] >= seq[v]
  BY <1>1 DEF Inv, TypeInv, TypeOK
<1>3. JobOK(j, OwnIDs(w, seq'[w]), current, packs', writes)
  BY <1>1 DEF Own
<1> QED
  BY <1>1, <1>2, <1>3, QuietStep

\* A step after which the job has nothing in hand.
LEMMA FreshStep ==
  ASSUME Inv, TypeInv', NEW w \in Writers, NEW j, Become(w, j), UNCHANGED <<storeVars, seq>>,
         Fresh(j, current)
  PROVE  PackInv'
<1>1. TypeInv /\ current \in Manifest_ /\ Chained(current) /\ job'[w] \in Jobs
  BY DEF Inv, TypeInv, TypeOK, PackInv, StoreOK
<1>2. job'[w] = j
  BY <1>1, Replaced
<1>3. JobOK(j, Own(w), current, packs, writes) /\ \A k : ~Claims(j, k)
  BY <1>1, <1>2, FreshJob
<1> QED
  BY <1>3, JobStep

\* What the invariant says of one writer.
LEMMA WriterOK ==
  ASSUME Inv, NEW w \in Writers
  PROVE  /\ TypeInv /\ job[w] \in Jobs /\ Shaped(job[w])
         /\ current \in Manifest_ /\ Chained(current)
         /\ ProposalOK(job[w], Own(w)) /\ CurrentOK(job[w], current)
         /\ BackedOK(job[w], current, packs) /\ CleanupOK(job[w], current)
         /\ \A r \in writes : RequestApart(job[w], r)
         /\ JobOK(job[w], Own(w), current, packs, writes)
<1>1. JobOK(job[w], Own(w), current, packs, writes)
  BY DEF Inv, PackInv, Own
<1>2. TypeInv /\ job[w] \in Jobs /\ Shaped(job[w]) /\ current \in Manifest_
  BY DEF Inv, TypeInv, TypeOK, Shape
<1>3. Chained(current)
  BY DEF Inv, PackInv, StoreOK
<1> QED
  BY <1>1, <1>2, <1>3 DEF JobOK

-----------------------------------------------------------------------------
(* The actions.                                                             *)

\* Entering a call, and the failures that end or restart one.
LEMMA PackEntry ==
  ASSUME Inv, TypeInv', NEW w \in Writers,
         \/ StartPull(w) \/ StartCommit(w) \/ StartRecovery(w) \/ EngineFails(w)
         \/ ApplyRemote(w) \/ MergeToRemote(w) \/ LocalFails(w) \/ RecoverFails(w)
         \/ Abandon(w)
  PROVE  PackInv'
<1> DEFINE j == job[w]
<1>1. /\ j \in Jobs /\ Shaped(j) /\ current \in Manifest_ /\ CurrentOK(j, current)
      /\ ProposalOK(j, Own(w))
  BY WriterOK
<1>2. /\ Fresh(Idle, current)
      /\ j.op = "recover" => Fresh(AfterRecovery(j), current)
      /\ j.op \in {"pull", "commit"} => Fresh(StrictAttempt(j), current)
  BY <1>1, FreshStates
<1> HIDE DEF j
<1>3. CASE StartPull(w)
  <2>1. Fresh([Idle EXCEPT !.pc = "read", !.op = "pull"], current)
    BY DEF Fresh, Idle, NoProposal
  <2> QED
    BY <1>3, <2>1, FreshStep DEF StartPull
<1>4. CASE StartCommit(w)
  <2>1. Fresh([Idle EXCEPT !.pc = "read", !.op = "commit", !.attempt = 1], current)
    BY DEF Fresh, Idle, NoProposal
  <2> QED
    BY <1>4, <2>1, FreshStep DEF StartCommit
<1>5. CASE StartRecovery(w)
  <2>1. Fresh([Idle EXCEPT !.pc = "read", !.op = "recover", !.mode = "strict"], current)
    BY DEF Fresh, Idle, NoProposal
  <2> QED
    BY <1>5, <2>1, FreshStep DEF StartRecovery
<1>6. CASE EngineFails(w)
  BY <1>2, <1>6, FreshStep DEF EngineFails, j
<1>7. CASE ApplyRemote(w)
  <2> DEFINE k == IF j.op = "recover" THEN AfterRecovery(j) ELSE Idle
  <2>1. Become(w, k)
    BY <1>7, Zenon DEF ApplyRemote, j
  <2>2. Fresh(k, current)
    BY <1>2
  <2> HIDE DEF k
  <2> QED
    BY <1>7, <2>1, <2>2, FreshStep DEF ApplyRemote
<1>8. CASE MergeToRemote(w)
  BY <1>2, <1>8, FreshStep DEF MergeToRemote
<1>9. CASE LocalFails(w)
  <2> DEFINE p == IF j.prop.compacting THEN j.prop ELSE NoProposal
             k == [Idle EXCEPT !.pc = "read", !.op = "recover", !.mode = "strict", !.prop = p]
  <2>1. Become(w, k)
    BY <1>9, Zenon DEF LocalFails, j
  <2>2. j.prop.compacting => j.prop.key.gen <= current.checkpoint.through
    BY <1>1, <1>9 DEF LocalFails, j, ProposalOK, CurrentOK
  <2>3. p.compacting => p.key.gen <= current.checkpoint.through
    BY <2>2 DEF NoProposal
  <2> HIDE DEF p
  <2>4. Fresh(k, current)
    BY <2>3 DEF Fresh, Idle
  <2> HIDE DEF k
  <2> QED
    BY <1>9, <2>1, <2>4, FreshStep DEF LocalFails
<1>10. CASE RecoverFails(w)
  BY <1>2, <1>10, FreshStep DEF RecoverFails, j
<1>11. CASE Abandon(w)
  BY <1>2, <1>11, FreshStep DEF Abandon
<1> QED
  BY <1>3, <1>4, <1>5, <1>6, <1>7, <1>8, <1>9, <1>10, <1>11

\* Reading R: readRemote, the packs, and the read after a pack was gone.
LEMMA PackReading ==
  ASSUME Inv, TypeInv', NEW w \in Writers,
         ReadCurrent(w) \/ LoadPacks(w) \/ RereadCurrent(w) \/ CheckpointPlan(w)
  PROVE  PackInv'
<1> DEFINE j == job[w]
<1>1. /\ TypeInv /\ j \in Jobs /\ Shaped(j) /\ current \in Manifest_ /\ Chained(current)
      /\ CurrentOK(j, current) /\ ProposalOK(j, Own(w))
      /\ JobOK(j, Own(w), current, packs, writes)
  BY WriterOK
<1>2. current.gen \in Nat /\ j.obs \in Manifest_
  BY <1>1, ManifestParts, JobParts
<1>3. Fresh(Idle, current) /\ Fresh(FailedRead(j), current)
  BY <1>1, FreshStates
<1>4. AfterRead(j.op) \in {"merge", "cpplan", "apply"}
  BY <1>1, JobStates
<1> HIDE DEF j
<1>5. CASE ReadCurrent(w)
  <2>1. j.pc = "read"
    BY <1>5 DEF ReadCurrent, j
  <2>2. ASSUME NEW p \in {"merge", "cpplan", "apply", "load"}, p = "load" => Present(current)
        PROVE  LET k == [j EXCEPT !.obs = current, !.pc = p] IN
               /\ JobOK(k, Own(w), current, packs, writes)
               /\ \A x : Claims(k, x) => Claims(j, x)
    <3> DEFINE k == [j EXCEPT !.obs = current, !.pc = p]
    <3>1. /\ k \in Jobs /\ k.pc = p /\ k.obs = current
          /\ k.op = j.op /\ k.prop = j.prop /\ k.cp = j.cp /\ k.candidates = j.candidates
          /\ k.cutoff = j.cutoff
      BY <1>1 DEF Jobs
    <3> HIDE DEF k
    <3>2. k.obs.gen <= current.gen /\ k.pc # "cpcas" /\ k.pc # "reread"
      BY <1>2, <2>2, <3>1
    <3>3. JobOK(k, Own(w), current, packs, writes) /\ \A x : Claims(k, x) => Claims(j, x)
      BY <1>1, <2>1, <2>2, <3>1, <3>2, Reading
    <3> QED
      BY <3>3 DEF k
  <2> DEFINE a == [j EXCEPT !.obs = current, !.pc = AfterRead(j.op)]
             b == [j EXCEPT !.obs = current, !.pc = "load"]
  <2>3. \/ Become(w, a) \/ Become(w, FailedRead(j))
        \/ Become(w, b) /\ Present(current)
    BY <1>5 DEF ReadCurrent, j
  <2>4. JobOK(a, Own(w), current, packs, writes) /\ \A x : Claims(a, x) => Claims(j, x)
    BY <1>4, <2>2
  <2>5. Present(current) =>
          JobOK(b, Own(w), current, packs, writes) /\ \A x : Claims(b, x) => Claims(j, x)
    BY <2>2
  <2> HIDE DEF a, b
  <2>6. UNCHANGED <<storeVars, seq>>
    BY <1>5 DEF ReadCurrent
  <2>7. CASE Become(w, a)
    BY <2>4, <2>6, <2>7, JobStep DEF j
  <2>8. CASE Become(w, FailedRead(j))
    BY <1>3, <2>6, <2>8, FreshStep
  <2>9. CASE Become(w, b) /\ Present(current)
    BY <2>5, <2>6, <2>9, JobStep DEF j
  <2> QED
    BY <2>3, <2>7, <2>8, <2>9
<1>6. CASE LoadPacks(w)
  <2> DEFINE specs == ImportSpecs(j.obs)
  <2>1. j.pc = "load" /\ Present(j.obs) /\ UNCHANGED <<storeVars, seq>>
    BY <1>1, <1>6 DEF LoadPacks, j, ProposalOK
  <2>2. PICK all :
          LET got == {i \in DOMAIN specs : \A k \in 1 .. i : Available(w, specs[k], all)} IN
          Become(w, [j EXCEPT !.pc = IF got = DOMAIN specs THEN AfterRead(j.op)
                                     ELSE "reread"])
    BY <1>6, Zenon DEF LoadPacks, j
  <2> DEFINE got == {i \in DOMAIN specs : \A k \in 1 .. i : Available(w, specs[k], all)}
             p   == IF got = DOMAIN specs THEN AfterRead(j.op) ELSE "reread"
             k   == [j EXCEPT !.pc = p]
  <2>3. Become(w, k)
    BY <2>2
  <2>4. p = "reread" => j.obs # current
    <3> SUFFICES ASSUME j.obs = current PROVE got = DOMAIN specs
      BY <1>4
    <3>1. \A i \in DOMAIN specs : specs[i].key \in packs
      BY <1>1, <2>1, SpecsRooted DEF Inv, PackInv, StoreOK
    <3>2. PICK n \in Nat : DOMAIN specs = 1 .. n
      BY <1>2, <2>1, SpecsRooted
    <3> HIDE DEF specs
    <3> QED
      BY <3>1, <3>2 DEF Available
  <2>5. p \in {"merge", "cpplan", "apply", "reread"}
    BY <1>4
  <2> HIDE DEF got, p, specs
  <2>6. /\ k \in Jobs /\ k.pc = p /\ k.obs = j.obs
        /\ k.op = j.op /\ k.prop = j.prop /\ k.cp = j.cp /\ k.candidates = j.candidates
        /\ k.cutoff = j.cutoff
    BY <1>1, <2>5 DEF Jobs
  <2> HIDE DEF k
  <2>7. /\ k.pc # "cpcas" /\ k.pc # "load" /\ (k.pc = "reread" => k.obs # current)
        /\ Chained(k.obs) /\ k.obs.gen <= current.gen
        /\ (k.obs.gen = current.gen => k.obs = current)
    BY <1>1, <2>4, <2>5, <2>6 DEF ProposalOK, CurrentOK
  <2>8. JobOK(k, Own(w), current, packs, writes) /\ \A x : Claims(k, x) => Claims(j, x)
    BY <1>1, <2>1, <2>5, <2>6, <2>7, Reading
  <2> QED
    BY <2>1, <2>3, <2>8, JobStep DEF j
<1>7. CASE RereadCurrent(w)
  <2> DEFINE n == j.restarts + 1
  <2>1. n \in Nat
    BY <1>1 DEF Jobs
  <2> HIDE DEF n
  <2> DEFINE k == [j EXCEPT !.pc = "read", !.restarts = n]
  <2>2. /\ j.pc = "reread" /\ UNCHANGED <<storeVars, seq>>
        /\ Become(w, FailedRead(j)) \/ Become(w, k)
    BY <1>7 DEF RereadCurrent, j, n
  <2>3. /\ k \in Jobs /\ k.pc = "read" /\ k.obs = j.obs
        /\ k.op = j.op /\ k.prop = j.prop /\ k.cp = j.cp /\ k.candidates = j.candidates
        /\ k.cutoff = j.cutoff
    BY <1>1, <2>1 DEF Jobs
  <2> HIDE DEF k
  <2>4. /\ Chained(k.obs) /\ k.obs.gen <= current.gen
        /\ (k.obs.gen = current.gen => k.obs = current)
    BY <1>1, <2>3 DEF ProposalOK, CurrentOK
  <2>5. JobOK(k, Own(w), current, packs, writes) /\ \A x : Claims(k, x) => Claims(j, x)
    BY <1>1, <2>2, <2>3, <2>4, Reading
  <2>6. CASE Become(w, k)
    BY <2>2, <2>5, <2>6, JobStep DEF j
  <2>7. CASE Become(w, FailedRead(j))
    BY <1>3, <2>2, <2>7, FreshStep
  <2> QED
    BY <2>2, <2>6, <2>7
<1>8. CASE CheckpointPlan(w)
  <2> DEFINE k == [j EXCEPT !.pc = "cpcas"]
  <2>1. j.pc = "cpplan" /\ UNCHANGED <<storeVars, seq>>
    BY <1>8 DEF CheckpointPlan, j
  <2>2. \/ Become(w, Idle)
        \/ Become(w, k) /\ PrefixPresent(j.obs, PlanPrefix(j.prop.manifest, CheckpointPacks))
    BY <1>8 DEF CheckpointPlan, j, Plan
  <2>3. /\ k \in Jobs /\ k.pc = "cpcas" /\ k.obs = j.obs
        /\ k.op = j.op /\ k.prop = j.prop /\ k.cp = j.cp /\ k.candidates = j.candidates
        /\ k.cutoff = j.cutoff
    BY <1>1 DEF Jobs
  <2> HIDE DEF k
  <2>4. /\ Chained(k.obs) /\ k.obs.gen <= current.gen
        /\ (k.obs.gen = current.gen => k.obs = current)
    BY <1>1, <2>3 DEF ProposalOK, CurrentOK
  <2>5. CASE Become(w, Idle)
    BY <1>3, <2>1, <2>5, FreshStep
  <2>6. CASE Become(w, k) /\ PrefixPresent(j.obs, PlanPrefix(j.prop.manifest, CheckpointPacks))
    <3>1. JobOK(k, Own(w), current, packs, writes) /\ \A x : Claims(k, x) => Claims(j, x)
      BY <1>1, <2>1, <2>3, <2>4, <2>6, Reading
    <3> QED
      BY <2>1, <2>6, <3>1, JobStep DEF j
  <2> QED
    BY <2>2, <2>5, <2>6
<1> QED
  BY <1>5, <1>6, <1>7, <1>8

\* The proposal a commit builds: fresh UUIDs, one new pack.
LEMMA PackBuild ==
  ASSUME Inv, TypeInv', NEW w \in Writers, BuildProposal(w)
  PROVE  PackInv'
<1> DEFINE j    == job[w]
           obs  == j.obs
           pub  == <<w, seq[w] + 1>>
           cpID == <<w, seq[w] + 2>>
           m    == IF Present(obs) THEN IncrementManifest(obs, pub)
                                   ELSE FirstManifest(pub, cpID)
           key  == IF Present(obs) THEN Key("increment", NextIncrementGen(obs), pub)
                                   ELSE Key("checkpoint", 1, cpID)
           prop == [pub |-> pub, key |-> key, manifest |-> m, compacting |-> FALSE]
           k    == [j EXCEPT !.prop = prop, !.pc = "upload"]
           own  == OwnIDs(w, seq'[w])
<1>1. /\ TypeInv /\ j \in Jobs /\ Shaped(j) /\ current \in Manifest_
      /\ CurrentOK(j, current) /\ ProposalOK(j, Own(w)) /\ CleanupOK(j, current)
  BY WriterOK
<1>2. /\ seq[w] \in Nat /\ pub \in ID /\ cpID \in ID /\ obs \in Manifest_
      /\ Chained(obs)
  BY <1>1, DrawnType, JobParts DEF TypeInv, TypeOK, ProposalOK
<1>3. /\ j.pc = "merge" /\ UNCHANGED storeVars
      /\ Become(w, k)
      /\ seq' = [seq EXCEPT ![w] = @ + IF Present(obs) THEN 1 ELSE 2]
  BY Zenon DEF BuildProposal
<1>4. /\ \A v \in Writers : seq'[v] >= seq[v]
      /\ seq'[w] = seq[w] + IF Present(obs) THEN 1 ELSE 2
  <2>1. seq \in [Writers -> Nat]
    BY <1>1, Zenon DEF TypeInv, TypeOK
  <2> QED BY <1>3, <2>1
<1>5. pub \notin DrawnIDs /\ cpID \notin DrawnIDs
  BY <1>1, <1>2, DrawnFacts
<1>6. pub \in own /\ (~Present(obs) => cpID \in own)
  BY <1>2, <1>4 DEF OwnIDs
<1>7. /\ Follows(key, obs, m)
      /\ Publications(m) \subseteq Publications(obs) \cup {pub}
      /\ key.kind = "increment" => /\ m.increments[Len(m.increments)].gen = key.gen
                                   /\ m.increments[Len(m.increments)].pub = pub
      /\ key.id \in own /\ key.id \notin DrawnIDs
  <2>1. CASE Present(obs)
    <3>1. m = IncrementManifest(obs, pub) /\ key = Key("increment", NextIncrementGen(obs), pub)
      BY <2>1
    <3>2. key.id = pub
      BY <3>1 DEF Key
    <3> HIDE DEF m, key, obs, pub
    <3> QED
      BY <1>2, <1>5, <1>6, <2>1, <3>1, <3>2, IncrementFollows
  <2>2. CASE ~Present(obs)
    <3>1. m = FirstManifest(pub, cpID) /\ key = Key("checkpoint", 1, cpID)
      BY <2>2
    <3>2. key.id = cpID /\ key.kind = "checkpoint"
      BY <3>1 DEF Key
    <3>3. obs = EmptyManifest
      BY <1>2, <2>2 DEF Chained
    <3> HIDE DEF m, key, obs, pub, cpID
    <3> QED
      BY <1>2, <1>5, <1>6, <2>2, <3>1, <3>2, <3>3, FirstFollows
  <2> QED
    BY <2>1, <2>2
<1> HIDE DEF m, key, pub, cpID, own
<1>8. /\ k.pc = "upload" /\ k.op = j.op /\ k.obs = obs /\ k.cp = j.cp
      /\ k.candidates = j.candidates /\ k.cutoff = j.cutoff
      /\ k.prop.pub = pub /\ k.prop.key = key
      /\ k.prop.manifest = m /\ k.prop.compacting = FALSE /\ k.op = "commit"
  BY <1>1, <1>3 DEF Jobs, Shaped
<1> HIDE DEF k, j, obs
<1>9. ProposalOK(k, own)
  BY <1>2, <1>6, <1>7, <1>8 DEF ProposalOK, Proposing
<1>10. CurrentOK(k, current)
  <2>1. /\ \A x \in ManifestRoots(current) : x.id \in DrawnIDs
        /\ Publications(current) \subseteq DrawnIDs
    BY DEF Inv, PackInv, StoreOK
  <2> QED
    BY <1>1, <1>5, <1>7, <1>8, <2>1 DEF CurrentOK, obs
<1>11. ASSUME NEW r \in writes PROVE RequestApart(k, r)
  <2>1. r.key.id \in DrawnIDs /\ Publications(r.next) \subseteq Publications(r.base) \cup DrawnIDs
    BY DEF Inv, PackInv, RequestOK
  <2> QED
    BY <1>5, <1>7, <1>8, <2>1 DEF RequestApart
<1>12. BackedOK(k, current, packs) /\ CleanupOK(k, current)
  BY <1>1, <1>8 DEF BackedOK, CleanupOK, j
<1>13. JobOK(k, own, current, packs, writes)
  BY <1>9, <1>10, <1>11, <1>12 DEF JobOK
<1>14. \A x : Claims(k, x) => x.id \notin DrawnIDs
  BY <1>7, <1>8 DEF Claims
<1> QED
  BY <1>3, <1>4, <1>13, <1>14, QuietStep DEF storeVars, own

\* A refused increment rebuilt as a checkpoint through its own generation.
LEMMA PackCompact ==
  ASSUME Inv, TypeInv', NEW w \in Writers, CompactOnQuota(w)
  PROVE  PackInv'
<1> DEFINE j    == job[w]
           cpID == <<w, seq[w] + 1>>
           old  == j.prop
           key  == Key("checkpoint", old.key.gen, cpID)
           m    == CompactingManifest(old.manifest, cpID)
           prop == [pub |-> old.pub, key |-> key, manifest |-> m, compacting |-> TRUE]
           k    == [j EXCEPT !.prop = prop]
           own  == OwnIDs(w, seq'[w])
<1>1. /\ TypeInv /\ j \in Jobs /\ Shaped(j) /\ current \in Manifest_
      /\ CurrentOK(j, current) /\ ProposalOK(j, Own(w)) /\ CleanupOK(j, current)
      /\ \A r \in writes : RequestApart(j, r)
  BY WriterOK
<1>2. /\ seq[w] \in Nat /\ cpID \in ID /\ j.obs \in Manifest_ /\ old.manifest \in Manifest_
      /\ old.key \in Key_ /\ old.pub \in ID /\ Chained(j.obs)
  BY <1>1, DrawnType, JobParts DEF TypeInv, TypeOK, ProposalOK
<1>3. /\ j.pc = "upload" /\ old.key.kind = "increment" /\ UNCHANGED storeVars
      /\ Become(w, k)
      /\ seq' = [seq EXCEPT ![w] = @ + 1]
  BY Zenon DEF CompactOnQuota
<1>4. /\ \A v \in Writers : seq'[v] >= seq[v]
      /\ seq'[w] = seq[w] + 1
  <2>1. seq \in [Writers -> Nat]
    BY <1>1, Zenon DEF TypeInv, TypeOK
  <2> QED BY <1>3, <2>1
<1>5. cpID \notin DrawnIDs /\ cpID \in own /\ Own(w) \subseteq own
  BY <1>1, <1>2, <1>4, DrawnFacts DEF OwnIDs, Own
<1>6. /\ Follows(old.key, j.obs, old.manifest) /\ old.pub \in Own(w)
      /\ Len(old.manifest.increments) > 0
      /\ old.manifest.increments[Len(old.manifest.increments)].gen = old.key.gen
      /\ old.manifest.increments[Len(old.manifest.increments)].pub = old.pub
      /\ ~old.compacting
  BY <1>1, <1>3 DEF ProposalOK, Proposing, Shaped
<1>7. key.id = cpID /\ key.gen = old.key.gen /\ key.kind = "checkpoint"
  BY DEF Key
<1> HIDE DEF j, cpID, own
<1>8. /\ Follows(key, j.obs, m)
      /\ Publications(m) \subseteq {old.pub}
      /\ m.checkpoint.through = key.gen
  BY <1>2, <1>6, <1>7, CompactingFollows
<1> HIDE DEF key, m
<1>9. /\ k.pc = "upload" /\ k.op = "commit" /\ k.obs = j.obs /\ k.cp = j.cp
      /\ k.candidates = j.candidates /\ k.cutoff = j.cutoff
      /\ k.prop.pub = old.pub /\ k.prop.key = key
      /\ k.prop.manifest = m /\ k.prop.compacting = TRUE
  BY <1>1, <1>3 DEF Jobs, Shaped
<1> HIDE DEF k, old
<1>10. ProposalOK(k, own)
  BY <1>2, <1>5, <1>6, <1>7, <1>8, <1>9 DEF ProposalOK, Proposing
<1>11. CurrentOK(k, current)
  <2>1. \A x \in ManifestRoots(current) : x.id \in DrawnIDs
    BY DEF Inv, PackInv, StoreOK
  <2>2. old.pub \notin Publications(current)
    BY <1>1, <1>3, <1>6 DEF CurrentOK, old
  <2> QED
    BY <1>1, <1>5, <1>7, <1>9, <2>1, <2>2 DEF CurrentOK
<1>12. ASSUME NEW r \in writes PROVE RequestApart(k, r)
  <2>1. r.key.id \in DrawnIDs
    BY DEF Inv, PackInv, RequestOK
  <2>2. old.pub \in Publications(r.next) => old.pub \in Publications(r.base)
    BY <1>1, <1>3, <1>6 DEF RequestApart, old
  <2> QED
    BY <1>5, <1>7, <1>9, <2>1, <2>2 DEF RequestApart
<1>13. BackedOK(k, current, packs) /\ CleanupOK(k, current)
  BY <1>1, <1>9 DEF BackedOK, CleanupOK
<1>14. JobOK(k, own, current, packs, writes)
  BY <1>10, <1>11, <1>12, <1>13 DEF JobOK
<1>15. \A x : Claims(k, x) => x.id \notin DrawnIDs
  BY <1>5, <1>7, <1>9 DEF Claims
<1> QED
  BY <1>3, <1>4, <1>14, <1>15, QuietStep DEF storeVars, own

\* The upload of a proposal's pack.
LEMMA PackUpload ==
  ASSUME Inv, TypeInv', NEW w \in Writers, UploadPack(w)
  PROVE  PackInv'
<1> DEFINE j == job[w]
           k == [j EXCEPT !.pc = "cas"]
<1>1. /\ TypeInv /\ j \in Jobs /\ Shaped(j) /\ current \in Manifest_ /\ Chained(current)
      /\ JobOK(j, Own(w), current, packs, writes)
  BY WriterOK
<1>2. /\ j.pc = "upload" /\ packs' = packs \cup {j.prop.key}
      /\ Become(w, k) \/ Become(w, Idle)
      /\ current' = current /\ writes' = writes /\ deletes' = deletes /\ seq' = seq
  BY DEF UploadPack
<1>3. \A v \in Writers : seq'[v] >= seq[v]
  BY <1>1, <1>2 DEF TypeInv, TypeOK
<1>4. Own(w) = OwnIDs(w, seq'[w])
  BY <1>2 DEF Own
<1>5. CASE Become(w, k)
  <2>1. /\ k.pc = "cas" /\ k.op = j.op /\ k.obs = j.obs /\ k.cp = j.cp /\ k.prop = j.prop
        /\ k.candidates = j.candidates /\ k.cutoff = j.cutoff /\ j.op = "commit"
    BY <1>1, <1>2 DEF Jobs, Shaped
  <2> HIDE DEF k, j
  <2>2. ProposalOK(k, Own(w))
    BY <1>1, <1>2, <2>1 DEF JobOK, ProposalOK, Proposing
  <2>3. CurrentOK(k, current)
    BY <1>1, <1>2, <2>1 DEF JobOK, CurrentOK, Proposing
  <2>4. BackedOK(k, current, packs') /\ CleanupOK(k, current)
    BY <1>1, <1>2, <2>1 DEF JobOK, BackedOK, Backed, CleanupOK
  <2>5. \A r \in writes : RequestApart(k, r)
    BY <1>1, <1>2, <2>1 DEF JobOK, RequestApart, Proposing
  <2>6. JobOK(k, OwnIDs(w, seq'[w]), current, packs', writes)
    BY <1>4, <2>2, <2>3, <2>4, <2>5 DEF JobOK
  <2>7. \A x : Claims(k, x) => Claims(j, x)
    BY <1>2, <2>1 DEF Claims, Proposing
  <2> QED
    BY <1>2, <1>3, <1>5, <2>6, <2>7, QuietStep DEF j
<1>6. CASE Become(w, Idle)
  <2>1. Fresh(Idle, current)
    BY <1>1, FreshStates DEF JobOK
  <2>2. /\ JobOK(Idle, OwnIDs(w, seq'[w]), current, packs', writes)
        /\ \A x : ~Claims(Idle, x)
    BY <1>1, <2>1, IdleType, FreshJob
  <2> QED
    BY <1>2, <1>3, <1>6, <2>2, QuietStep
<1> QED
  BY <1>2, <1>5, <1>6

\* The store adopts the writer's own request and the writer goes on as j.
LEMMA AdoptOwn ==
  ASSUME Inv, TypeInv', NEW w \in Writers, NEW j, Become(w, j), NEW r \in Requests,
         Claims(job[w], r.key), r.key.id \in Own(w), Follows(r.key, r.base, r.next),
         Backed(r.key, current, packs),
         Publications(r.next) \subseteq Publications(r.base) \cup Own(w),
         current = r.base, current' = r.next, UNCHANGED <<packs, writes, deletes, seq>>,
         JobOK(j, Own(w), r.next, packs, writes),
         \A k \in Key_ : Claims(j, k) => Claims(job[w], k)
  PROVE  PackInv'
<1>1. TypeInv /\ job'[w] = j /\ \A v \in Writers : v # w => job'[v] = job[v]
  BY Replaced DEF Inv
<1>2. /\ RequestOK(r, current, packs, DrawnIDs)
      /\ \A v \in Writers \ {w} : RequestApart(job[v], r)
  BY OwnRequest
<1>3. \A v \in Writers :
        \/ job'[v] = job[v] /\ RequestApart(job[v], r)
        \/ JobOK(job'[v], Own(v), r.next, packs, writes)
  BY <1>1, <1>2
<1>4. \A v \in Writers : \A k \in Key_ : Claims(job'[v], k) => Claims(job[v], k)
  BY <1>1
<1> QED
  BY <1>2, <1>3, <1>4, AdoptStep

\* The response of the writer's own request is lost: the write landed, was
\* dropped, or is still in flight.
LEMMA LostOwn ==
  ASSUME Inv, TypeInv', NEW w \in Writers, NEW j \in Jobs, Become(w, j),
         NEW key \in Key_, NEW base \in Manifest_, NEW next \in Manifest_,
         LoseResponse(w, key, base, next), UNCHANGED <<packs, deletes, seq>>,
         Claims(job[w], key), key.id \in Own(w), Follows(key, base, next),
         Backed(key, current, packs),
         Publications(next) \subseteq Publications(base) \cup Own(w),
         JobOK(j, Own(w), current, packs, writes),
         RequestApart(j, [by |-> w, key |-> key, base |-> base, next |-> next]),
         \A k \in Key_ : Claims(j, k) => Claims(job[w], k)
  PROVE  PackInv'
<1> DEFINE r == [by |-> w, key |-> key, base |-> base, next |-> next]
<1>1. r \in Requests /\ r.key = key /\ r.base = base /\ r.next = next
  BY DEF Requests
<1>2. /\ RequestApart(j, r)
      /\ \/ current = base /\ current' = next /\ writes' = writes
         \/ current' = current /\ writes' = writes
         \/ writes' = writes \cup {r} /\ current' = current
  BY DEF LoseResponse, Land, Adopt
<1> HIDE DEF r
<1>3. CASE current = base /\ current' = next /\ writes' = writes
  <2>1. /\ CurrentOK(j, next) /\ BackedOK(j, next, packs) /\ CleanupOK(j, next)
    BY <1>1, <1>2, <1>3, JobAdopts DEF JobOK
  <2>2. JobOK(j, Own(w), next, packs, writes)
    BY <2>1 DEF JobOK
  <2> QED
    BY <1>1, <1>3, <2>2, AdoptOwn
<1>4. CASE current' = current /\ writes' = writes
  BY <1>4, JobStep DEF storeVars
<1>5. CASE writes' = writes \cup {r} /\ current' = current
  <2>1. /\ RequestOK(r, current, packs, DrawnIDs)
        /\ \A v \in Writers \ {w} : RequestApart(job[v], r)
    BY <1>1, OwnRequest
  <2>2. JobOK(j, Own(w), current, packs, writes')
    BY <1>2, <1>5 DEF JobOK
  <2> QED
    BY <1>1, <1>5, <2>1, <2>2, SendStep
<1> QED
  BY <1>2, <1>3, <1>4, <1>5

\* A deletion touches its batch only.
LEMMA DeleteFacts ==
  ASSUME NEW batch, Delete(batch)
  PROVE  /\ packs \ packs' \subseteq batch
         /\ packs' \subseteq packs
         /\ deletes' \subseteq deletes \cup {batch}
BY DEF Delete

\* A job whose observation is spent, after its conditional write.
LEMMA SpentJob ==
  ASSUME NEW j \in Jobs, Shaped(j), j.pc \in {"cas", "cpcas"}, NEW p, NEW cur \in Manifest_,
         Chained(cur), NEW own, ProposalOK(j, own), CurrentOK(j, cur), NEW pk, NEW wr,
         CleanupOK(j, cur), \A r \in wr : RequestApart(j, r),
         \/ j.pc = "cas" /\ p = "lookup"
         \/ j.pc = "cpcas" /\ p = "cplookup"
  PROVE  /\ JobOK(Spent(j, p), own, cur, pk, wr)
         /\ \A x : Claims(Spent(j, p), x) => Claims(j, x)
<1> DEFINE k == Spent(j, p)
<1>1. /\ k.pc = p /\ k.op = j.op /\ k.obs = EmptyManifest /\ k.cp = j.cp /\ k.prop = j.prop
      /\ k.candidates = j.candidates /\ k.cutoff = j.cutoff
  BY DEF Spent, Jobs
<1>2. /\ (j.pc = "cas" => j.op = "commit") /\ (j.pc = "cpcas" => j.op = "checkpoint")
      /\ cur.gen \in Nat /\ (cur.gen = 0 => cur = EmptyManifest)
  BY ManifestParts DEF Shaped, Chained, Present
<1> HIDE DEF k
<1>3. ProposalOK(k, own)
  BY <1>1, <1>2, EmptyFacts DEF ProposalOK, Proposing
<1>4. CurrentOK(k, cur)
  BY <1>1, <1>2, EmptyFacts DEF CurrentOK, Proposing
<1>5. BackedOK(k, cur, pk) /\ CleanupOK(k, cur)
  BY <1>1, <1>2 DEF BackedOK, CleanupOK
<1>6. \A r \in wr : RequestApart(k, r)
  BY <1>1, <1>2 DEF RequestApart, Proposing
<1>7. \A x : Claims(k, x) => Claims(j, x)
  BY <1>1, <1>2 DEF Claims, Proposing
<1> QED
  BY <1>3, <1>4, <1>5, <1>6, <1>7 DEF JobOK, k

\* Publishing: the answers to the conditional write of a proposal.
LEMMA PackPublishing ==
  ASSUME Inv, TypeInv', NEW w \in Writers,
         \/ PublishAccepted(w) \/ PublishLost(w) \/ PublishRefused(w)
         \/ PublishUnanswered(w) \/ PublishResent(w)
  PROVE  PackInv'
<1> DEFINE j == job[w]
           key == j.prop.key
           next == j.prop.manifest
           r == [by |-> w, key |-> key, base |-> j.obs, next |-> next]
<1>1. /\ TypeInv /\ j \in Jobs /\ Shaped(j) /\ current \in Manifest_ /\ Chained(current)
      /\ CurrentOK(j, current) /\ ProposalOK(j, Own(w)) /\ CleanupOK(j, current)
      /\ BackedOK(j, current, packs) /\ \A q \in writes : RequestApart(j, q)
      /\ j.pc = "cas"
  BY WriterOK DEF PublishAccepted, PublishLost, PublishRefused, PublishUnanswered,
                  PublishResent, Publishing
<1>2. j.obs \in Manifest_ /\ next \in Manifest_ /\ key \in Key_ /\ key.gen \in Nat
  BY <1>1, JobParts
<1>3. /\ Follows(key, j.obs, next) /\ key.id \in Own(w) /\ j.prop.pub \in Own(w)
      /\ Publications(next) \subseteq Publications(j.obs) \cup Own(w)
      /\ j.prop.compacting => next.checkpoint.through = key.gen
      /\ Backed(key, current, packs) /\ Claims(j, key)
      /\ key \notin ManifestRoots(current)
  BY <1>1 DEF ProposalOK, BackedOK, CurrentOK, Proposing, Claims
<1>4. r \in Requests /\ r.key = key /\ r.base = j.obs /\ r.next = next
  BY <1>2 DEF Requests
<1>5. Chained(next) /\ next.gen \in Nat /\ next.checkpoint.through \in Nat
  BY <1>2, <1>3, ManifestParts DEF Follows
<1>6. j.op = "commit"
  BY <1>1 DEF Shaped
<1> HIDE DEF r, j, key, next
<1>7. CASE PublishAccepted(w)
  <2> DEFINE k == Spent(j, "accept")
  <2>1. /\ Become(w, k) /\ current = j.obs /\ current' = next
        /\ UNCHANGED <<packs, writes, deletes, seq>>
    BY <1>7 DEF PublishAccepted, Adopt, j, next
  <2>2. /\ k.pc = "accept" /\ k.op = "commit" /\ k.obs = EmptyManifest /\ k.cp = j.cp
        /\ k.prop = j.prop /\ k.candidates = j.candidates /\ k.cutoff = j.cutoff
    BY <1>1, <1>6 DEF Spent, Jobs
  <2> HIDE DEF k
  <2>3. ProposalOK(k, Own(w))
    BY <2>2, EmptyFacts DEF ProposalOK, Proposing
  <2>4. CurrentOK(k, next)
    <3>1. k.prop.compacting => k.prop.key.gen <= next.checkpoint.through
      BY <1>2, <1>3, <1>5, <2>2 DEF key
    <3>2. k.obs.gen <= next.gen /\ (k.obs.gen = next.gen => k.obs = next)
      BY <1>5, <2>2, EmptyFacts DEF Chained, Present
    <3> QED
      BY <2>2, <3>1, <3>2 DEF CurrentOK, Proposing
  <2>5. BackedOK(k, next, packs) /\ CleanupOK(k, next)
    BY <1>1, <2>2 DEF BackedOK, CleanupOK
  <2>6. \A q \in writes : RequestApart(k, q)
    BY <2>2 DEF RequestApart, Proposing
  <2>7. JobOK(k, Own(w), next, packs, writes) /\ \A x : ~Claims(k, x)
    BY <2>2, <2>3, <2>4, <2>5, <2>6 DEF JobOK, Claims, Proposing
  <2> QED
    BY <1>3, <1>4, <2>1, <2>7, AdoptOwn DEF j
<1>8. CASE PublishResent(w)
  <2> DEFINE k == RetryPublication(j)
  <2>1. /\ Become(w, k) /\ current = j.obs /\ current' = next
        /\ UNCHANGED <<packs, writes, deletes, seq>>
    BY <1>8 DEF PublishResent, Adopt, j, next
  <2>2. k \in Jobs /\ Fresh(k, current)
    BY <1>1, JobStates, FreshStates
  <2> HIDE DEF k
  <2>3. current.checkpoint.through <= next.checkpoint.through
    BY <1>3, <2>1 DEF Follows
  <2>4. Fresh(k, next)
    <3>1. k.cutoff \in Nat /\ k.prop.key.gen \in Nat /\ current.checkpoint.through \in Nat
      BY <1>1, <2>2, JobParts, ManifestParts
    <3> QED
      BY <1>5, <2>2, <2>3, <3>1 DEF Fresh
  <2>5. JobOK(k, Own(w), next, packs, writes) /\ \A x : ~Claims(k, x)
    BY <1>2, <1>5, <2>2, <2>4, FreshJob
  <2> QED
    BY <1>3, <1>4, <2>1, <2>5, AdoptOwn DEF j
<1>9. CASE PublishUnanswered(w)
  <2> DEFINE k == Spent(j, "lookup")
  <2>1. /\ Become(w, k) /\ LoseResponse(w, key, j.obs, next)
        /\ UNCHANGED <<packs, deletes, seq>>
    BY <1>9 DEF PublishUnanswered, j, key, next
  <2>2. JobOK(k, Own(w), current, packs, writes) /\ \A x : Claims(k, x) => Claims(j, x)
    BY <1>1, SpentJob
  <2>3. k \in Jobs /\ k.pc = "lookup" /\ k.op = "commit" /\ k.prop = j.prop
    BY <1>1, <1>6, IdleType DEF Spent, Jobs
  <2> HIDE DEF k
  <2>4. RequestApart(k, r)
    BY <1>2, <1>3, <1>4, <1>5, <2>3 DEF RequestApart, Proposing, key
  <2> QED
    BY <1>2, <1>3, <2>1, <2>2, <2>3, <2>4, LostOwn DEF j, r
<1>10. CASE PublishLost(w) \/ PublishRefused(w)
  <2>1. PICK k : /\ k \in Jobs /\ Fresh(k, current) /\ Become(w, k)
                 /\ Discard(j.prop) /\ UNCHANGED <<current, writes, seq>>
    <3>1. /\ Idle \in Jobs /\ Fresh(Idle, current)
          /\ RetryPublication(j) \in Jobs /\ Fresh(RetryPublication(j), current)
      BY <1>1, IdleType, JobStates, FreshStates
    <3> QED
      BY <1>10, <3>1 DEF PublishLost, PublishRefused, j
  <2>2. JobOK(k, Own(w), current, packs, writes) /\ \A x : ~Claims(k, x)
    BY <1>1, <2>1, FreshJob
  <2>3. job'[w] = k /\ \A v \in Writers : v # w => job'[v] = job[v]
    BY <1>1, <2>1, Replaced
  <2>4. CASE j.prop.compacting
    <3>1. Delete({key})
      BY <2>1, <2>4, Zenon DEF Discard, key
    <3>2. /\ packs \ packs' \subseteq {key} /\ packs' \subseteq packs
          /\ deletes' \subseteq deletes \cup {{key}}
      BY <3>1, DeleteFacts
    <3>3. key.id \in DrawnIDs' /\ DrawnIDs' = DrawnIDs
      BY <1>1, <1>3, <2>1, DrawnFacts DEF DrawnIDs
    <3>4. \A v \in Writers : ~Claims(job'[v], key)
      <4> SUFFICES ASSUME NEW v \in Writers, v # w PROVE ~Claims(job[v], key)
        BY <2>2, <2>3
      <4>1. ProposalOK(job[v], Own(v)) /\ Own(v) \cap Own(w) = {}
        BY <1>1, WriterOK, DrawnFacts
      <4> QED
        BY <1>3, <4>1 DEF ProposalOK, Claims
    <3>5. \A q \in writes : q.key # key
      BY <1>1 DEF RequestApart, Proposing, key
    <3> PICK gone \in Key_ : gone = key
      BY <1>2
    <3>6. \A x \in {gone} : Dead(x)'
      BY <1>3, <2>1, <3>3, <3>4, <3>5 DEF Dead, Unclaimed
    <3>7. \A v \in Writers : JobOK(job'[v], Own(v), current, packs, writes)
      BY <2>2, <2>3, WriterOK
    <3>8. \A v \in Writers : \A x \in Key_ : Claims(job'[v], x) => Claims(job[v], x)
      BY <2>2, <2>3
    <3>9. /\ packs \ packs' \subseteq {gone} /\ packs' \subseteq packs
          /\ deletes' \subseteq deletes \cup {{gone}} /\ {gone} \in SUBSET Key_
      BY <3>2
    <3> QED
      BY <2>1, <3>6, <3>7, <3>8, <3>9, DeleteStep
  <2>5. CASE ~j.prop.compacting
    <3>1. UNCHANGED <<packs, deletes>>
      BY <2>1, <2>5, Zenon DEF Discard
    <3> QED
      BY <2>1, <2>2, <3>1, JobStep DEF storeVars
  <2> QED
    BY <2>4, <2>5
<1> QED
  BY <1>7, <1>8, <1>9, <1>10

\* The lookup after a lost response, and local acceptance.
LEMMA PackAccepting ==
  ASSUME Inv, TypeInv', NEW w \in Writers, LookupPublication(w) \/ Accept(w)
  PROVE  PackInv'
<1> DEFINE j == job[w]
<1>1. /\ TypeInv /\ j \in Jobs /\ Shaped(j) /\ current \in Manifest_ /\ Chained(current)
      /\ CurrentOK(j, current) /\ ProposalOK(j, Own(w)) /\ CleanupOK(j, current)
      /\ \A r \in writes : RequestApart(j, r)
  BY WriterOK
<1>2. /\ Fresh(Idle, current)
      /\ \A c \in Nat : c <= current.checkpoint.through => Fresh(CleanUp(c), current)
  BY <1>1, FreshStates
<1>3. ASSUME NEW p \in {"accept", "cpupload"}, j.op = "commit",
             p = "accept" /\ j.prop.compacting =>
               j.prop.key.gen <= current.checkpoint.through,
             Become(w, [j EXCEPT !.pc = p]), UNCHANGED <<storeVars, seq>>
      PROVE  PackInv'
  <2> DEFINE k == [j EXCEPT !.pc = p]
  <2>1. /\ k.pc = p /\ k.op = "commit" /\ k.obs = j.obs /\ k.cp = j.cp
        /\ k.prop = j.prop /\ k.candidates = j.candidates /\ k.cutoff = j.cutoff
    BY <1>1, <1>3 DEF Jobs
  <2> HIDE DEF k, j
  <2>2. ProposalOK(k, Own(w))
    BY <1>1, <2>1 DEF ProposalOK, Proposing
  <2>3. CurrentOK(k, current)
    BY <1>1, <1>3, <2>1 DEF CurrentOK, Proposing
  <2>4. BackedOK(k, current, packs) /\ CleanupOK(k, current)
    BY <1>1, <2>1 DEF BackedOK, CleanupOK
  <2>5. \A r \in writes : RequestApart(k, r)
    BY <2>1 DEF RequestApart, Proposing
  <2>6. JobOK(k, Own(w), current, packs, writes) /\ \A x : ~Claims(k, x)
    BY <2>1, <2>2, <2>3, <2>4, <2>5 DEF JobOK, Claims, Proposing
  <2> QED
    BY <1>3, <2>6, JobStep DEF k
<1>4. CASE LookupPublication(w)
  <2>1. /\ j.pc = "lookup" /\ j.op = "commit" /\ UNCHANGED <<storeVars, seq>>
        /\ \/ Become(w, Idle)
           \/ j.prop.pub \in Publications(current) /\ Become(w, [j EXCEPT !.pc = "accept"])
    BY <1>1, <1>4 DEF LookupPublication, Proved, PublicationIn, Shaped
  <2>2. CASE Become(w, Idle)
    BY <1>2, <2>1, <2>2, FreshStep
  <2>3. CASE j.prop.pub \in Publications(current) /\ Become(w, [j EXCEPT !.pc = "accept"])
    <3>1. j.prop.compacting => j.prop.key.gen <= current.checkpoint.through
      BY <1>1, <2>1, <2>3 DEF CurrentOK
    <3> QED
      BY <1>3, <2>1, <2>3, <3>1
  <2> QED
    BY <2>1, <2>2, <2>3
<1>5. CASE Accept(w)
  <2>1. /\ j.pc = "accept" /\ j.op = "commit" /\ UNCHANGED <<storeVars, seq>>
        /\ \/ Become(w, Idle)
           \/ Become(w, [j EXCEPT !.pc = "cpupload"])
           \/ j.prop.compacting /\ Become(w, CleanUp(j.prop.key.gen))
    BY <1>1, <1>5 DEF Accept, Shaped
  <2>2. CASE Become(w, Idle)
    BY <1>2, <2>1, <2>2, FreshStep
  <2>3. CASE Become(w, [j EXCEPT !.pc = "cpupload"])
    BY <1>3, <2>1, <2>3
  <2>4. CASE j.prop.compacting /\ Become(w, CleanUp(j.prop.key.gen))
    <3>1. j.prop.key.gen <= current.checkpoint.through /\ j.prop.key.gen \in Nat
      BY <1>1, <2>1, <2>4, JobParts DEF CurrentOK
    <3>2. Fresh(CleanUp(j.prop.key.gen), current)
      BY <1>2, <3>1
    <3> QED
      BY <2>1, <2>4, <3>2, FreshStep
  <2> QED
    BY <2>1, <2>2, <2>3, <2>4
<1> QED
  BY <1>4, <1>5

\* The upload of a checkpoint pack, under a fresh UUID.
LEMMA PackCheckpointUpload ==
  ASSUME Inv, TypeInv', NEW w \in Writers, CheckpointUpload(w)
  PROVE  PackInv'
<1> DEFINE j   == job[w]
           id  == <<w, seq[w] + 1>>
           key == Key("checkpoint", PlanLast(Plan(w)).gen, id)
           k   == [j EXCEPT !.pc = "read", !.op = "checkpoint", !.cp = key,
                            !.mode = "reusing", !.attempt = 1, !.restarts = 0]
           own == OwnIDs(w, seq'[w])
<1>1. /\ TypeInv /\ j \in Jobs /\ current \in Manifest_ /\ seq[w] \in Nat
      /\ CurrentOK(j, current) /\ ProposalOK(j, Own(w)) /\ CleanupOK(j, current)
  BY WriterOK DEF TypeInv, TypeOK
<1>2. /\ j.pc = "cpupload" /\ Become(w, k) /\ packs' = packs \cup {key}
      /\ seq' = [seq EXCEPT ![w] = @ + 1]
      /\ current' = current /\ writes' = writes /\ deletes' = deletes
  BY Zenon DEF CheckpointUpload
<1>3. /\ \A v \in Writers : seq'[v] >= seq[v]
      /\ seq'[w] = seq[w] + 1
  BY <1>1, <1>2 DEF TypeInv, TypeOK
<1>4. id \notin DrawnIDs /\ id \in own
  BY <1>1, <1>3, DrawnFacts DEF OwnIDs
<1>5. key.id = id /\ key = Key("checkpoint", PlanLast(Plan(w)).gen, key.id)
  BY DEF Key
<1> HIDE DEF id, key, own
<1>6. /\ k.pc = "read" /\ k.op = "checkpoint" /\ k.cp = key /\ k.obs = j.obs
      /\ k.prop = j.prop /\ k.candidates = j.candidates /\ k.cutoff = j.cutoff
  BY <1>1 DEF Jobs
<1>7. Plan(w) = PlanPrefix(j.prop.manifest, CheckpointPacks)
  BY DEF Plan
<1> HIDE DEF k, j
<1>8. ProposalOK(k, own)
  BY <1>1, <1>4, <1>5, <1>6, <1>7 DEF ProposalOK, Proposing
<1>9. CurrentOK(k, current)
  <2>1. \A x \in ManifestRoots(current) : x.id \in DrawnIDs
    BY DEF Inv, PackInv, StoreOK
  <2> QED
    BY <1>1, <1>4, <1>5, <1>6, <2>1 DEF CurrentOK, Proposing
<1>10. ASSUME NEW r \in writes PROVE RequestApart(k, r)
  <2>1. r.key.id \in DrawnIDs
    BY DEF Inv, PackInv, RequestOK
  <2> QED
    BY <1>4, <1>5, <1>6, <2>1 DEF RequestApart, Proposing
<1>11. BackedOK(k, current, packs') /\ CleanupOK(k, current)
  BY <1>1, <1>2, <1>6 DEF BackedOK, Backed, CleanupOK
<1>12. JobOK(k, own, current, packs', writes)
  BY <1>8, <1>9, <1>10, <1>11 DEF JobOK
<1>13. \A x : Claims(k, x) => x.id \notin DrawnIDs
  BY <1>4, <1>5, <1>6 DEF Claims, Proposing
<1> QED
  BY <1>2, <1>3, <1>12, <1>13, QuietStep DEF own

\* The manifest of a checkpoint effort follows the observed one.
LEMMA CheckpointRequest ==
  ASSUME Inv, NEW w \in Writers, job[w].pc = "cpcas"
  PROVE  /\ CheckpointNext(w) \in Manifest_
         /\ Follows(job[w].cp, job[w].obs, CheckpointNext(w))
         /\ Publications(CheckpointNext(w)) \subseteq Publications(job[w].obs)
         /\ CheckpointNext(w).checkpoint.through = job[w].cp.gen
         /\ job[w].cp.id \in Own(w) /\ Claims(job[w], job[w].cp)
         /\ Backed(job[w].cp, current, packs)
<1> DEFINE j == job[w]
           prefix == PlanPrefix(j.prop.manifest, CheckpointPacks)
<1>1. /\ TypeInv /\ j \in Jobs /\ Shaped(j) /\ ProposalOK(j, Own(w))
      /\ BackedOK(j, current, packs) /\ j.pc = "cpcas" /\ j.op = "checkpoint"
  BY WriterOK DEF Shaped
<1>2. j.obs \in Manifest_ /\ j.prop.manifest \in Manifest_ /\ j.cp.id \in ID
  BY <1>1, JobParts
<1>3. /\ Chained(j.obs) /\ PrefixPresent(j.obs, prefix)
      /\ j.cp = Key("checkpoint", PlanLast(prefix).gen, j.cp.id) /\ j.cp.id \in Own(w)
  BY <1>1 DEF ProposalOK
<1>4. prefix \in Seq(Increments(ID, Nat)) /\ Len(prefix) > 0
  <2>1. /\ j.prop.manifest.increments \in Seq(Increments(ID, Nat))
        /\ Len(j.prop.manifest.increments) >= CheckpointPacks
    BY <1>1, <1>2, ManifestParts DEF Shaped
  <2> QED
    BY <2>1, PrefixType, ConstantsAssumption DEF PlanPrefix
<1>5. CheckpointNext(w) = CompactManifest(j.obs, prefix, j.cp.id, RetainedCheckpoints)
  BY DEF CheckpointNext, Plan
<1>6. RetainedCheckpoints \in Nat
  BY ConstantsAssumption
<1>7. /\ Claims(j, j.cp) /\ Backed(j.cp, current, packs) /\ CheckpointNext(w) \in Manifest_
  BY <1>1, CheckpointNextType DEF Claims, BackedOK
<1> HIDE DEF j, prefix
<1>8. /\ Follows(j.cp, j.obs, CheckpointNext(w))
      /\ Publications(CheckpointNext(w)) \subseteq Publications(j.obs)
      /\ CheckpointNext(w).checkpoint.through = j.cp.gen
  BY <1>2, <1>3, <1>4, <1>5, <1>6, CompactFollows
<1> QED
  BY <1>3, <1>7, <1>8 DEF j

\* The answers to the conditional write of a checkpoint, and its lookup.
LEMMA PackCheckpoint ==
  ASSUME Inv, TypeInv', NEW w \in Writers,
         \/ CheckpointAccepted(w) \/ CheckpointLost(w) \/ CheckpointResent(w)
         \/ CheckpointUnanswered(w) \/ CheckpointLookup(w)
  PROVE  PackInv'
<1> DEFINE j    == job[w]
           next == CheckpointNext(w)
           r    == [by |-> w, key |-> j.cp, base |-> j.obs, next |-> next]
           n    == j.attempt + 1
           k    == [j EXCEPT !.pc = "read", !.attempt = n, !.restarts = 0]
<1>1. /\ TypeInv /\ j \in Jobs /\ Shaped(j) /\ current \in Manifest_ /\ Chained(current)
      /\ CurrentOK(j, current) /\ ProposalOK(j, Own(w)) /\ CleanupOK(j, current)
      /\ BackedOK(j, current, packs) /\ \A q \in writes : RequestApart(j, q)
      /\ JobOK(j, Own(w), current, packs, writes)
  BY WriterOK
<1>2. j.obs \in Manifest_ /\ j.cp \in Key_ /\ j.cp.gen \in Nat /\ n \in Nat
  BY <1>1, JobParts DEF Jobs
<1>3. /\ Fresh(Idle, current)
      /\ \A c \in Nat : c <= current.checkpoint.through => Fresh(CleanUp(c), current)
  BY <1>1, FreshStates
<1>4. j.pc = "cpcas" =>
        /\ next \in Manifest_ /\ Follows(j.cp, j.obs, next)
        /\ Publications(next) \subseteq Publications(j.obs) \cup Own(w)
        /\ next.checkpoint.through = j.cp.gen
        /\ j.cp.id \in Own(w) /\ Claims(j, j.cp) /\ Backed(j.cp, current, packs)
        /\ j.op = "checkpoint"
  BY <1>1, CheckpointRequest DEF Shaped
<1>5. j.pc = "cpcas" => r \in Requests /\ r.key = j.cp /\ r.base = j.obs /\ r.next = next
  BY <1>2, <1>4 DEF Requests
<1>6. j.pc = "cpcas" => Chained(next) /\ next.checkpoint.through \in Nat
  BY <1>2, <1>4 DEF Follows
<1> HIDE DEF next, n, r
<1>7. /\ k \in Jobs /\ k.pc = "read" /\ k.op = j.op /\ k.obs = j.obs /\ k.cp = j.cp
      /\ k.prop = j.prop /\ k.candidates = j.candidates /\ k.cutoff = j.cutoff
  BY <1>1, <1>2 DEF Jobs
<1> HIDE DEF k
<1>8. j.pc = "cpcas" =>
        JobOK(k, Own(w), current, packs, writes) /\ \A x : Claims(k, x) => Claims(j, x)
  <2>1. /\ Chained(k.obs) /\ k.obs.gen <= current.gen
        /\ (k.obs.gen = current.gen => k.obs = current)
    BY <1>1, <1>7 DEF ProposalOK, CurrentOK
  <2> QED
    BY <1>1, <1>7, <2>1, Reading
<1>9. j.pc = "cpcas" => RetryCheckpoint(j) = k \/ RetryCheckpoint(j) = Idle
  BY DEF RetryCheckpoint, k, n
<1> HIDE DEF j
<1>10. CASE CheckpointAccepted(w)
  <2>1. /\ j.pc = "cpcas" /\ Become(w, CleanUp(j.cp.gen)) /\ current = j.obs
        /\ current' = next /\ UNCHANGED <<packs, writes, deletes, seq>>
    BY <1>10 DEF CheckpointAccepted, Compacting, Adopt, j, next
  <2>2. CleanUp(j.cp.gen) \in Jobs
    BY <1>1, <1>2, JobStates
  <2>3. Fresh(CleanUp(j.cp.gen), next)
    BY <1>2, <1>4, <2>1 DEF Fresh, CleanUp, Idle, NoProposal
  <2>4. /\ JobOK(CleanUp(j.cp.gen), Own(w), next, packs, writes)
        /\ \A x : ~Claims(CleanUp(j.cp.gen), x)
    BY <1>4, <1>6, <2>1, <2>2, <2>3, FreshJob
  <2> QED
    BY <1>4, <1>5, <2>1, <2>4, AdoptOwn DEF j
<1>11. CASE CheckpointLost(w)
  <2>1. /\ j.pc = "cpcas" /\ Become(w, RetryCheckpoint(j)) /\ UNCHANGED <<storeVars, seq>>
    BY <1>11 DEF CheckpointLost, Compacting, j
  <2>2. CASE Become(w, k)
    BY <1>8, <2>1, <2>2, JobStep DEF j
  <2>3. CASE Become(w, Idle)
    BY <1>3, <2>1, <2>3, FreshStep
  <2> QED
    BY <1>9, <2>1, <2>2, <2>3
<1>12. CASE CheckpointResent(w)
  <2>1. /\ j.pc = "cpcas" /\ Become(w, RetryCheckpoint(j)) /\ current = j.obs
        /\ current' = next /\ UNCHANGED <<packs, writes, deletes, seq>>
    BY <1>12 DEF CheckpointResent, Compacting, Adopt, j, next
  <2>2. CASE Become(w, k)
    <3>1. RequestApart(k, r)
      BY <1>5, <1>7, <2>1 DEF RequestApart, Proposing
    <3>2. /\ CurrentOK(k, next) /\ BackedOK(k, next, packs) /\ CleanupOK(k, next)
      BY <1>4, <1>5, <1>7, <1>8, <2>1, <3>1, JobAdopts DEF JobOK
    <3>3. JobOK(k, Own(w), next, packs, writes)
      BY <1>8, <2>1, <3>2 DEF JobOK
    <3> QED
      BY <1>4, <1>5, <1>8, <2>1, <2>2, <3>3, AdoptOwn DEF j
  <2>3. CASE Become(w, Idle)
    <3>1. Fresh(Idle, next)
      BY DEF Fresh, Idle, NoProposal
    <3>2. JobOK(Idle, Own(w), next, packs, writes) /\ \A x : ~Claims(Idle, x)
      BY <1>4, <1>6, <2>1, <3>1, IdleType, FreshJob
    <3> QED
      BY <1>4, <1>5, <2>1, <2>3, <3>2, AdoptOwn DEF j
  <2> QED
    BY <1>9, <2>1, <2>2, <2>3
<1>13. CASE CheckpointUnanswered(w)
  <2> DEFINE l == Spent(j, "cplookup")
  <2>1. /\ j.pc = "cpcas" /\ Become(w, l) /\ LoseResponse(w, j.cp, j.obs, next)
        /\ UNCHANGED <<packs, deletes, seq>>
    BY <1>13 DEF CheckpointUnanswered, Compacting, j, next
  <2>2. JobOK(l, Own(w), current, packs, writes) /\ \A x : Claims(l, x) => Claims(j, x)
    BY <1>1, <2>1, SpentJob
  <2>3. l \in Jobs /\ l.pc = "cplookup" /\ l.cp = j.cp
    BY <1>1, IdleType DEF Spent, Jobs
  <2> HIDE DEF l
  <2>4. RequestApart(l, r)
    BY <1>5, <2>1, <2>3 DEF RequestApart, Proposing
  <2> QED
    BY <1>2, <1>4, <2>1, <2>2, <2>3, <2>4, LostOwn DEF j, r
<1>14. CASE CheckpointLookup(w)
  <2>1. /\ j.pc = "cplookup" /\ j.op = "checkpoint" /\ UNCHANGED <<storeVars, seq>>
        /\ \/ Become(w, Idle)
           \/ CheckpointIn(current, j.cp.id) /\ Become(w, CleanUp(j.cp.gen))
    BY <1>1, <1>14 DEF CheckpointLookup, Shaped, j
  <2>2. CASE Become(w, Idle)
    BY <1>3, <2>1, <2>2, FreshStep
  <2>3. CASE CheckpointIn(current, j.cp.id) /\ Become(w, CleanUp(j.cp.gen))
    <3>1. PICK x \in ManifestRoots(current) :
            x.id = j.cp.id /\ x.gen <= current.checkpoint.through
      BY <1>1, <2>3, CheckpointRooted
    <3>2. x = j.cp
      BY <1>1, <2>1, <3>1 DEF CurrentOK
    <3>3. Fresh(CleanUp(j.cp.gen), current)
      BY <1>2, <1>3, <3>1, <3>2
    <3> QED
      BY <2>1, <2>3, <3>3, FreshStep
  <2> QED
    BY <2>1, <2>2, <2>3
<1> QED
  BY <1>10, <1>11, <1>12, <1>13, <1>14

\* Cleanup: what it deletes is retired.
LEMMA PackCleanup ==
  ASSUME Inv, TypeInv', NEW w \in Writers, Cleanup(w)
  PROVE  PackInv'
<1> DEFINE j == job[w]
<1>1. /\ TypeInv /\ j \in Jobs /\ Shaped(j) /\ current \in Manifest_ /\ Chained(current)
      /\ CurrentOK(j, current) /\ CleanupOK(j, current)
      /\ JobOK(j, Own(w), current, packs, writes)
  BY WriterOK
<1>2. /\ j.cutoff \in Nat /\ j.candidates \subseteq Key_ /\ j.doomed \subseteq Key_
      /\ current.checkpoint.through \in Nat
  BY <1>1, JobParts, ManifestParts
<1>3. Idle \in Jobs /\ Fresh(Idle, current)
  BY <1>1, FreshStates, IdleType
<1>4. /\ JobOK(Idle, Own(w), current, packs, writes)
      /\ \A x : ~Claims(Idle, x)
  BY <1>1, <1>3, FreshJob
<1>5. ASSUME NEW rest \in SUBSET j.candidates, j.pc \in {"roots", "delete"}
      PROVE  /\ JobOK(NextBatch(w, rest), Own(w), current, packs, writes)
             /\ \A x : Claims(NextBatch(w, rest), x) => Claims(j, x)
  <2> DEFINE k == [j EXCEPT !.pc = "roots", !.candidates = rest, !.doomed = {}]
  <2>1. /\ k \in Jobs /\ k.pc = "roots" /\ k.op = j.op /\ k.obs = j.obs /\ k.cp = j.cp
        /\ k.prop = j.prop /\ k.candidates = rest /\ k.cutoff = j.cutoff
    BY <1>1, <1>2, <1>5 DEF Jobs
  <2>2. NextBatch(w, rest) = Idle \/ NextBatch(w, rest) = k
    BY DEF NextBatch
  <2> HIDE DEF k
  <2>3. JobOK(k, Own(w), current, packs, writes) /\ \A x : Claims(k, x) => Claims(j, x)
    BY <1>1, <1>5, <2>1, Cleaning
  <2> QED
    BY <1>4, <2>2, <2>3
<1>6. CASE CleanupList(w)
  <2> DEFINE found == {x \in packs : x.gen <= j.cutoff}
             k == [Idle EXCEPT !.pc = "roots", !.candidates = found, !.cutoff = j.cutoff]
  <2>1. Become(w, IF found = {} THEN Idle ELSE k)
    BY <1>6, Zenon DEF CleanupList
  <2>2. Become(w, Idle) \/ Become(w, k)
    BY <2>1
  <2>3. j.pc = "list" /\ UNCHANGED <<storeVars, seq>>
    BY <1>6 DEF CleanupList
  <2>4. \A x \in found : x.gen <= j.cutoff
    OBVIOUS
  <2> HIDE DEF found
  <2>5. /\ k.pc = "roots" /\ k.op = "none" /\ k.obs = EmptyManifest /\ k.candidates = found
        /\ k.cutoff = j.cutoff
    BY DEF Idle
  <2> HIDE DEF k
  <2>6. ProposalOK(k, Own(w))
    BY <2>5, EmptyFacts DEF ProposalOK, Proposing
  <2>7. CurrentOK(k, current)
    <3>1. k.obs.gen <= current.gen /\ (k.obs.gen = current.gen => k.obs = current)
      BY <1>1, <2>5, EmptyFacts, ManifestParts DEF Chained, Present
    <3> QED
      BY <2>5, <3>1 DEF CurrentOK, Proposing
  <2>8. BackedOK(k, current, packs) /\ \A q \in writes : RequestApart(k, q)
    BY <2>5 DEF BackedOK, RequestApart, Proposing
  <2>9. CleanupOK(k, current)
    BY <1>1, <2>3, <2>4, <2>5 DEF CleanupOK
  <2>10. JobOK(k, Own(w), current, packs, writes) /\ \A x : ~Claims(k, x)
    BY <2>5, <2>6, <2>7, <2>8, <2>9 DEF JobOK, Claims, Proposing
  <2>11. CASE Become(w, Idle)
    BY <1>3, <2>3, <2>11, FreshStep
  <2>12. CASE Become(w, k)
    BY <2>3, <2>10, <2>12, JobStep
  <2> QED
    BY <2>2, <2>11, <2>12
<1>7. CASE CleanupRoots(w)
  <2>1. j.pc = "roots" /\ UNCHANGED <<storeVars, seq>>
    BY <1>7 DEF CleanupRoots
  <2>2. PICK batch \in Batches(j.candidates) :
          Become(w, IF Doomed(batch) = {} THEN NextBatch(w, j.candidates \ batch)
                    ELSE [j EXCEPT !.pc = "delete", !.candidates = j.candidates \ batch,
                                   !.doomed = Doomed(batch)])
    BY <1>7, Zenon DEF CleanupRoots
  <2> DEFINE rest == j.candidates \ batch
             dead == Doomed(batch)
             k == [j EXCEPT !.pc = "delete", !.candidates = rest, !.doomed = dead]
  <2>3. Become(w, NextBatch(w, rest)) \/ Become(w, k)
    BY <2>2
  <2>4. batch \subseteq j.candidates
    BY <2>2 DEF Batches
  <2>5. rest \in SUBSET j.candidates /\ dead \in SUBSET Key_
    BY <1>2, <2>4 DEF Doomed
  <2>6. \A x \in dead : Retired(x, current)
    <3>1. \A x \in batch : x.gen \in Nat /\ x.gen <= j.cutoff
      BY <1>1, <1>2, <2>4 DEF CleanupOK, Key_, Keys
    <3>2. j.cutoff <= current.checkpoint.through
      BY <1>1, <2>1 DEF CleanupOK
    <3> QED
      BY <1>2, <3>1, <3>2 DEF Doomed, Retired
  <2> HIDE DEF rest, dead
  <2>7. /\ k \in Jobs /\ k.pc = "delete" /\ k.op = j.op /\ k.obs = j.obs /\ k.cp = j.cp
        /\ k.prop = j.prop /\ k.candidates = rest /\ k.cutoff = j.cutoff /\ k.doomed = dead
    BY <1>1, <1>2, <2>5 DEF Jobs
  <2> HIDE DEF k
  <2>8. JobOK(k, Own(w), current, packs, writes) /\ \A x : Claims(k, x) => Claims(j, x)
    BY <1>1, <2>1, <2>5, <2>6, <2>7, Cleaning
  <2>9. CASE Become(w, NextBatch(w, rest))
    BY <1>5, <2>1, <2>5, <2>9, JobStep
  <2>10. CASE Become(w, k)
    BY <2>1, <2>8, <2>10, JobStep
  <2> QED
    BY <2>3, <2>9, <2>10
<1>8. CASE CleanupDelete(w)
  <2>1. /\ j.pc = "delete" /\ Delete(j.doomed) /\ Become(w, NextBatch(w, j.candidates))
        /\ UNCHANGED <<current, writes, seq>>
    BY <1>8 DEF CleanupDelete
  <2>2. PICK batch \in SUBSET Key_ : batch = j.doomed
    BY <1>2
  <2>3. /\ packs \ packs' \subseteq batch /\ packs' \subseteq packs
        /\ deletes' \subseteq deletes \cup {batch}
    BY <2>1, <2>2, DeleteFacts
  <2>4. PICK k : k = NextBatch(w, j.candidates)
    OBVIOUS
  <2>5. JobOK(k, Own(w), current, packs, writes) /\ \A x : Claims(k, x) => Claims(j, x)
    BY <1>5, <2>1, <2>4
  <2>6. job'[w] = k /\ \A v \in Writers : v # w => job'[v] = job[v]
    BY <1>1, <2>1, <2>4, Replaced
  <2>7. \A x \in batch : Dead(x)'
    <3>1. \A x \in batch : Retired(x, current)
      BY <1>1, <2>1, <2>2 DEF CleanupOK
    <3> QED
      BY <2>1, <3>1 DEF Retired, Dead
  <2>8. \A v \in Writers : JobOK(job'[v], Own(v), current, packs, writes)
    BY <2>5, <2>6, WriterOK
  <2>9. \A v \in Writers : \A x \in Key_ : Claims(job'[v], x) => Claims(job[v], x)
    BY <2>5, <2>6
  <2> QED
    BY <2>1, <2>3, <2>7, <2>8, <2>9, DeleteStep
<1> QED
  BY <1>6, <1>7, <1>8 DEF Cleanup

\* Requests that reach the store after their sender gave up.
LEMMA PackLate ==
  ASSUME Inv, TypeInv', LateWrite \/ LateDelete
  PROVE  PackInv'
<1>1. CASE LateWrite
  <2>1. PICK r \in writes : Land(r.base, r.next) /\ writes' = writes \ {r}
    BY <1>1 DEF LateWrite
  <2>2. /\ UNCHANGED <<packs, deletes, seq, job>> /\ writes' \subseteq writes
        /\ r \in Requests /\ RequestOK(r, current, packs, DrawnIDs)
    BY <1>1, <2>1 DEF LateWrite, Inv, PackInv, TypeInv, TypeOK
  <2>3. \A v \in Writers : job'[v] = job[v] /\ RequestApart(job[v], r)
    BY <2>1, <2>2, WriterOK
  <2>4. CASE current = r.base
    <3>1. current' = r.next
      BY <2>1, <2>4 DEF Land, Adopt
    <3> QED
      BY <2>1, <2>2, <2>3, <2>4, <3>1, AdoptStep
  <2>5. CASE current # r.base
    <3>1. current' = current
      BY <2>1, <2>5 DEF Land
    <3>2. DrawnIDs' = DrawnIDs
      BY <2>2 DEF DrawnIDs
    <3>3. \A d \in deletes : \A k \in d : Dead(k)'
      BY <2>2, <3>1, <3>2 DEF Inv, PackInv, Dead, Unclaimed
    <3>4. \A v \in Writers : JobOK(job[v], OwnIDs(v, seq[v]), current, packs, writes')
      BY <2>2 DEF Inv, PackInv, JobOK
    <3> QED
      BY <2>2, <3>1, <3>2, <3>3, <3>4 DEF Inv, PackInv
  <2> QED
    BY <2>4, <2>5
<1>2. CASE LateDelete
  <2>1. PICK d \in deletes : packs' = packs \ d /\ deletes' = deletes \ {d}
    BY <1>2 DEF LateDelete
  <2>2. /\ UNCHANGED <<current, writes, seq, job>> /\ d \in SUBSET Key_
        /\ packs \ packs' \subseteq d /\ packs' \subseteq packs
        /\ deletes' \subseteq deletes \cup {d}
    BY <1>2, <2>1 DEF LateDelete, Inv, TypeInv, TypeOK
  <2>3. \A k \in d : Dead(k)'
    <3>1. DrawnIDs' = DrawnIDs
      BY <2>2 DEF DrawnIDs
    <3> QED
      BY <2>2, <3>1 DEF Inv, PackInv, Dead, Unclaimed
  <2>4. \A v \in Writers : JobOK(job'[v], Own(v), current, packs, writes)
    BY <2>2, WriterOK
  <2> QED
    BY <2>2, <2>3, <2>4, DeleteStep
<1> QED
  BY <1>1, <1>2

-----------------------------------------------------------------------------
(* The theorems.                                                            *)

\* The invariant holds in the empty store.
LEMMA PackInit == Init => Inv
<1> SUFFICES ASSUME Init PROVE Inv
  OBVIOUS
<1>1. TypeInv
  BY TypeInit
<1>2. StoreOK(current, packs, DrawnIDs)
  BY EmptyFacts DEF Init, StoreOK
<1>3. \A w \in Writers : JobOK(job[w], OwnIDs(w, seq[w]), current, packs, writes)
  <2>1. Fresh(Idle, current)
    BY DEF Fresh, Idle, NoProposal
  <2>2. \A w \in Writers : job[w] = Idle
    BY DEF Init
  <2>3. current \in Manifest_ /\ Chained(current)
    BY <1>1, <1>2 DEF TypeInv, TypeOK, StoreOK
  <2> QED
    BY <2>1, <2>2, <2>3, IdleType, FreshJob
<1> QED
  BY <1>1, <1>2, <1>3 DEF Init, Inv, PackInv

\* Every step preserves it.
LEMMA PackStep == Inv /\ [Next]_vars => Inv'
<1> SUFFICES ASSUME Inv, [Next]_vars PROVE Inv'
  OBVIOUS
<1>1. TypeInv'
  BY TypeStep DEF Inv
<1>2. CASE UNCHANGED vars
  <2>1. DrawnIDs' = DrawnIDs
    BY <1>2 DEF vars, DrawnIDs
  <2>2. \A k : Dead(k)' <=> Dead(k)
    BY <1>2, <2>1 DEF vars, Dead, Unclaimed
  <2>3. PackInv'
    BY <1>2, <2>1, <2>2 DEF vars, Inv, PackInv
  <2> QED
    BY <1>1, <2>3 DEF Inv
<1>3. CASE LateWrite \/ LateDelete
  BY <1>1, <1>3, PackLate DEF Inv
<1>4. ASSUME NEW w \in Writers,
             StartPull(w) \/ StartCommit(w) \/ StartRecovery(w) \/ Work(w)
      PROVE  PackInv'
  <2>1. CASE StartPull(w) \/ StartCommit(w) \/ StartRecovery(w) \/ Abandon(w)
    BY <1>1, <2>1, PackEntry
  <2>2. CASE Read(w)
    BY <1>1, <2>2, PackEntry, PackReading DEF Read
  <2>3. CASE Commit(w)
    BY <1>1, <2>3, PackEntry, PackBuild, PackCompact, PackUpload, PackPublishing,
       PackAccepting DEF Commit
  <2>4. CASE CheckpointEffort(w)
    BY <1>1, <2>4, PackReading, PackCheckpointUpload, PackCheckpoint DEF CheckpointEffort
  <2>5. CASE Cleanup(w)
    BY <1>1, <2>5, PackCleanup
  <2> QED
    BY <1>4, <2>1, <2>2, <2>3, <2>4, <2>5 DEF Work
<1> QED
  BY <1>1, <1>2, <1>3, <1>4 DEF Next, Inv

\* The inductive invariant the pack properties rest on.
THEOREM PackInvariant == Spec => []PackInv
<1>1. Inv => PackInv
  BY DEF Inv
<1> QED
  BY PackInit, PackStep, <1>1, PTL DEF Spec

\* Whatever cleanups, discarded compactions and late requests overlap, every
\* pack the accepted manifest references is in the store.
THEOREM PacksSafe == Spec => []ReferencedPacksExist
<1>1. Inv => ReferencedPacksExist
  BY DEF Inv, PackInv, StoreOK, ReferencedPacksExist
<1> QED
  BY PackInit, PackStep, <1>1, PTL DEF Spec

\* A reader that misses a pack always finds that the manifest has moved, so
\* readRemoteMode never reports a missing pack of an unchanged manifest.
THEOREM StaleReads == Spec => []StaleReadMoved
<1>1. Inv => StaleReadMoved
  <2> SUFFICES ASSUME Inv, NEW w \in Writers, job[w].pc = "reread"
               PROVE  current # job[w].obs
    BY DEF StaleReadMoved
  <2> QED
    BY WriterOK DEF CurrentOK
<1> QED
  BY PackInit, PackStep, <1>1, PTL DEF Spec

\* A step either leaves current alone or replaces it by one that follows it.
LEMMA CurrentFollows ==
  ASSUME Inv, [Next]_vars
  PROVE  current' = current \/ \E key \in Key_ : Follows(key, current, current')
<1>1. CASE UNCHANGED vars
  BY <1>1 DEF vars
<1>2. CASE LateWrite
  <2>1. PICK r \in writes : Land(r.base, r.next)
    BY <1>2 DEF LateWrite
  <2>2. r.key \in Key_ /\ Follows(r.key, r.base, r.next)
    BY DEF Inv, PackInv, RequestOK, TypeInv, TypeOK, Requests
  <2> QED
    BY <2>1, <2>2 DEF Land, Adopt
<1>3. CASE LateDelete
  BY <1>3 DEF LateDelete
<1>4. ASSUME NEW w \in Writers,
             StartPull(w) \/ StartCommit(w) \/ StartRecovery(w) \/ Work(w)
      PROVE  current' = current \/ \E key \in Key_ : Follows(key, current, current')
  <2>1. job[w] \in Jobs /\ ProposalOK(job[w], Own(w))
    BY WriterOK
  <2>2. job[w].prop.key \in Key_ /\ job[w].cp \in Key_
    BY <2>1, JobParts
  <2>3. CASE PublishAccepted(w) \/ PublishResent(w) \/ PublishUnanswered(w)
    <3>1. Follows(job[w].prop.key, job[w].obs, job[w].prop.manifest)
      BY <2>1, <2>3 DEF PublishAccepted, PublishResent, PublishUnanswered, Publishing,
                        ProposalOK, Proposing
    <3> QED
      BY <2>2, <2>3, <3>1 DEF PublishAccepted, PublishResent, PublishUnanswered,
                              LoseResponse, Land, Adopt
  <2>4. CASE CheckpointAccepted(w) \/ CheckpointResent(w) \/ CheckpointUnanswered(w)
    <3>1. Follows(job[w].cp, job[w].obs, CheckpointNext(w))
      BY <2>4, CheckpointRequest DEF CheckpointAccepted, CheckpointResent,
                                     CheckpointUnanswered, Compacting
    <3> QED
      BY <2>2, <2>4, <3>1 DEF CheckpointAccepted, CheckpointResent, CheckpointUnanswered,
                              LoseResponse, Land, Adopt
  <2>5. CASE \/ StartPull(w) \/ StartCommit(w) \/ StartRecovery(w) \/ Read(w) \/ Abandon(w)
    BY <2>5 DEF StartPull, StartCommit, StartRecovery, Read, ReadCurrent, LoadPacks,
                RereadCurrent, EngineFails, ApplyRemote, Abandon, storeVars
  <2>6. CASE \/ MergeToRemote(w) \/ BuildProposal(w) \/ UploadPack(w) \/ CompactOnQuota(w)
             \/ PublishLost(w) \/ PublishRefused(w) \/ LookupPublication(w) \/ Accept(w)
             \/ LocalFails(w) \/ RecoverFails(w)
    BY <2>6 DEF MergeToRemote, BuildProposal, UploadPack, CompactOnQuota, PublishLost,
                PublishRefused, LookupPublication, Accept, LocalFails, RecoverFails, storeVars
  <2>7. CASE \/ CheckpointUpload(w) \/ CheckpointPlan(w) \/ CheckpointLost(w)
             \/ CheckpointLookup(w) \/ Cleanup(w)
    BY <2>7 DEF CheckpointUpload, CheckpointPlan, CheckpointLost, CheckpointLookup, Cleanup,
                CleanupList, CleanupRoots, CleanupDelete, storeVars
  <2> QED
    BY <1>4, <2>3, <2>4, <2>5, <2>6, <2>7 DEF Work, Commit, CheckpointEffort
<1> QED
  BY <1>1, <1>2, <1>3, <1>4 DEF Next

\* A key at or below the accepted cutoff that is not referenced never becomes
\* referenced: cleanup may delete by generation without a lock.
THEOREM RootsAboveCutoff == Spec => NewRootsAboveCutoff
<1>1. Inv /\ [Next]_vars =>
        [\A k \in ManifestRoots(current') \ ManifestRoots(current) :
           k.gen > current.checkpoint.through]_vars
  <2> SUFFICES ASSUME Inv, [Next]_vars,
                      NEW k \in ManifestRoots(current') \ ManifestRoots(current)
               PROVE  k.gen > current.checkpoint.through
    OBVIOUS
  <2>1. PICK key \in Key_ : Follows(key, current, current')
    BY CurrentFollows
  <2>2. k = key /\ current.checkpoint.through < key.gen
    BY <2>1 DEF Follows
  <2>3. key.gen \in Nat /\ current.checkpoint.through \in Nat
    BY <2>1, ManifestParts DEF Key_, Keys, Inv, TypeInv, TypeOK
  <2> QED
    BY <2>2, <2>3
<1> QED
  BY PackInit, PackStep, <1>1, PTL DEF Spec, NewRootsAboveCutoff

-----------------------------------------------------------------------------
(* Histories.                                                               *)

\* A history grows at its end and keeps what it has.
LEMMA Grown ==
  ASSUME NEW acc \in Seq(ID), NEW h \in ID
  PROVE  LET a == Append(acc, h) IN
         /\ a \in Seq(ID) /\ Len(acc) \in Nat
         /\ DOMAIN acc = 1 .. Len(acc) /\ DOMAIN a = 1 .. Len(acc) + 1
         /\ Len(a) = Len(acc) + 1
         /\ \A i \in 1 .. Len(acc) : a[i] = acc[i]
         /\ a[Len(acc) + 1] = h
         /\ AcceptedIn(a) = AcceptedIn(acc) \cup {h}
         /\ \A f, g : Upto(acc, f, g) => Upto(a, f, g)
         /\ \A f \in AcceptedIn(acc) \cup {NoID} : Upto(a, f, h)
<1> DEFINE a == Append(acc, h)
           n == Len(acc)
<1>1. /\ n \in Nat /\ DOMAIN acc = 1 .. n
      /\ a \in Seq(ID) /\ Len(a) = n + 1 /\ DOMAIN a = 1 .. n + 1
      /\ \A i \in 1 .. n : a[i] = acc[i]
      /\ a[n + 1] = h
  BY ElementType, AppendProperties
<1> HIDE DEF a, n
<1>2. AcceptedIn(a) = AcceptedIn(acc) \cup {h}
  <2>1. \A i \in 1 .. n + 1 : i \in 1 .. n \/ i = n + 1
    BY <1>1
  <2>2. \A i \in 1 .. n : i \in 1 .. n + 1
    BY <1>1
  <2>3. n + 1 \in 1 .. n + 1
    BY <1>1
  <2> QED
    BY <1>1, <2>1, <2>2, <2>3 DEF AcceptedIn
<1>3. ASSUME NEW f, NEW g, Upto(acc, f, g) PROVE Upto(a, f, g)
  BY <1>1, <1>3 DEF Upto
<1>4. ASSUME NEW f \in AcceptedIn(acc) \cup {NoID} PROVE Upto(a, f, h)
  <2>1. CASE f = NoID
    BY <2>1 DEF Upto
  <2>2. CASE f \in AcceptedIn(acc)
    <3>1. PICK i \in 1 .. n : acc[i] = f
      BY <1>1, <2>2 DEF AcceptedIn
    <3>2. i \in DOMAIN a /\ n + 1 \in DOMAIN a /\ i <= n + 1 /\ a[i] = f /\ a[n + 1] = h
      BY <1>1, <3>1
    <3> QED
      BY <3>2 DEF Upto
  <2> QED
    BY <2>1, <2>2
<1> QED
  BY <1>1, <1>2, <1>3, <1>4 DEF a, n

\* The head of a chain is that of its last descriptor.
LEMMA HeadOfChain ==
  ASSUME NEW m \in Manifest_
  PROVE  /\ Len(m.increments) = 0 => ChainHead(m) = m.checkpoint.head
         /\ Len(m.increments) > 0 => ChainHead(m) = m.increments[Len(m.increments)].head
<1>1. /\ m.increments \in Seq(Increments(ID, Nat)) /\ Len(m.increments) \in Nat
  BY ManifestParts
<1>2. m.increments = <<>> <=> Len(m.increments) = 0
  BY <1>1, EmptySeq, ElementType
<1> QED
  BY <1>1, <1>2 DEF ChainHead

\* The accepted head is the last of the history, so everything accepted comes
\* no later.
LEMMA HeadIsLast ==
  ASSUME NEW cur \in Manifest_, NEW acc \in Seq(ID), NEW drawn, StoreHist(cur, acc, drawn),
         Present(cur)
  PROVE  /\ Len(acc) \in Nat \ {0} /\ cur.head = acc[Len(acc)]
         /\ cur.head \in AcceptedIn(acc)
         /\ \A f \in AcceptedIn(acc) \cup {NoID} : Upto(acc, f, cur.head)
<1> DEFINE n == Len(acc)
           k == Len(cur.increments)
<1>1. n \in Nat /\ DOMAIN acc = 1 .. n /\ k \in Nat
  BY ElementType, ManifestParts
<1>2. EndsIn(cur, acc) /\ cur.head = ChainHead(cur)
  BY DEF StoreHist, Headed
<1>3. n > k /\ cur.head = acc[n]
  <2>1. CASE k = 0
    BY <1>1, <1>2, <2>1, HeadOfChain DEF EndsIn
  <2>2. CASE k > 0
    <3>1. k \in 1 .. k /\ n - k + k = n
      BY <1>1, <2>2
    <3> QED
      BY <1>1, <1>2, <2>2, <3>1, HeadOfChain DEF EndsIn
  <2> QED
    BY <1>1, <2>1, <2>2
<1>4. n \in DOMAIN acc /\ n \in Nat \ {0} /\ \A i \in DOMAIN acc : i <= n
  BY <1>1, <1>3
<1> QED
  BY <1>3, <1>4 DEF AcceptedIn, Upto

\* An absent current means an empty history.
LEMMA HeadAccepted ==
  ASSUME NEW cur \in Manifest_, NEW acc \in Seq(ID), NEW drawn, StoreHist(cur, acc, drawn),
         Chained(cur)
  PROVE  /\ cur.head \in AcceptedIn(acc) \cup {NoID}
         /\ Present(cur) => Headed(cur) /\ cur.head \in AcceptedIn(acc)
         /\ \A f \in AcceptedIn(acc) \cup {NoID} : Upto(acc, f, cur.head)
<1>1. CASE Present(cur)
  BY <1>1, HeadIsLast DEF StoreHist
<1>2. CASE ~Present(cur)
  <2>1. acc = <<>> /\ cur = EmptyManifest
    BY <1>2 DEF StoreHist, Chained
  <2>2. AcceptedIn(acc) = {} /\ cur.head = NoID
    BY <2>1 DEF AcceptedIn, EmptyManifest
  <2> QED
    BY <1>2, <2>2 DEF Upto
<1> QED
  BY <1>1, <1>2

-----------------------------------------------------------------------------
(* The manifests writers propose.                                           *)

\* The first proposal and an increment add their publication.
LEMMA FirstAdds ==
  ASSUME NEW pub \in ID, pub # NoID, NEW cpID \in ID
  PROVE  LET m == FirstManifest(pub, cpID) IN
         m.head = pub /\ Adds(EmptyManifest, m)
<1> DEFINE m == FirstManifest(pub, cpID)
<1>1. /\ m.head = pub /\ m.increments = <<>> /\ m.checkpoint.head = pub
  BY DEF FirstManifest, Checkpoint
<1>2. Publications(m) \subseteq {pub} /\ m \in Manifest_
  BY FirstFollows, FirstManifestType DEF Manifest_
<1> HIDE DEF m
<1>3. Len(m.increments) = 0
  BY <1>1, EmptySeq
<1>4. Headed(m)
  BY <1>1, <1>2, <1>3, HeadOfChain DEF Headed
<1> QED
  BY <1>1, <1>2, <1>3, <1>4 DEF Adds, m

\* An increment adds its head to the chain it was built on.
LEMMA IncrementAdds ==
  ASSUME NEW obs \in Manifest_, Chained(obs), Present(obs), NEW pub \in ID, pub # NoID
  PROVE  LET m == IncrementManifest(obs, pub) IN
         m.head = pub /\ Adds(obs, m)
<1> DEFINE m   == IncrementManifest(obs, pub)
           n   == Len(obs.increments)
           inc == Increment(NextIncrementGen(obs), pub, obs.head, pub)
<1>1. /\ m \in Manifest_ /\ Publications(m) \subseteq Publications(obs) \cup {pub}
      /\ NextIncrementGen(obs) \in Nat
  BY IncrementFollows, IncrementManifestType DEF Manifest_
<1>2. /\ m.head = pub /\ m.checkpoint = obs.checkpoint
      /\ m.increments = Append(obs.increments, inc)
  BY DEF IncrementManifest
<1>3. /\ inc \in Increments(ID, Nat) /\ inc.head = pub
  <2>1. obs.head \in ID
    BY ManifestParts
  <2> QED
    BY <1>1, <2>1 DEF Increment, Increments, Key, Keys
<1>4. /\ n \in Nat /\ obs.increments \in Seq(Increments(ID, Nat))
  BY ManifestParts
<1> HIDE DEF m, inc
<1>5. /\ Len(m.increments) = n + 1
      /\ \A i \in 1 .. n : m.increments[i] = obs.increments[i]
      /\ m.increments[n + 1] = inc
  BY <1>2, <1>3, <1>4, AppendProperties
<1>6. Headed(m)
  BY <1>1, <1>2, <1>3, <1>4, <1>5, HeadOfChain DEF Headed
<1> QED
  BY <1>1, <1>2, <1>4, <1>5, <1>6 DEF Adds, Extends, m

\* A refused increment rebuilt as a checkpoint still adds its publication.
LEMMA CompactingAdds ==
  ASSUME NEW obs \in Manifest_, NEW inc \in Manifest_, NEW cpID \in ID, Adds(obs, inc),
         NEW pub, Len(inc.increments) > 0, inc.head = pub,
         inc.increments[Len(inc.increments)].pub = pub,
         Publications(CompactingManifest(inc, cpID)) \subseteq {pub}
  PROVE  LET m == CompactingManifest(inc, cpID) IN
         m.head = pub /\ Adds(obs, m)
<1> DEFINE m == CompactingManifest(inc, cpID)
           last == inc.increments[Len(inc.increments)]
<1>1. /\ m \in Manifest_ /\ m.increments = <<>>
  BY CompactingManifestType DEF Manifest_
<1>2. m.head = inc.head /\ m.checkpoint.head = last.head
  BY DEF CompactingManifest, Checkpoint
<1>3. last.head = pub
  BY HeadOfChain DEF Adds, Headed
<1> HIDE DEF m
<1>4. Len(m.increments) = 0
  BY <1>1, EmptySeq
<1>5. Headed(m)
  BY <1>1, <1>2, <1>3, <1>4, HeadOfChain DEF Headed
<1> QED
  BY <1>2, <1>4, <1>5 DEF Adds, m

\* A checkpoint keeps every head of the chain it compacts.
LEMMA CompactKeeps ==
  ASSUME NEW obs \in Manifest_, Chained(obs), Headed(obs),
         NEW prefix \in Seq(Increments(ID, Nat)),
         Len(prefix) > 0, PrefixPresent(obs, prefix), NEW cpID \in ID, NEW keep \in Nat
  PROVE  LET m == CompactManifest(obs, prefix, cpID, keep) IN
         m.head = obs.head /\ Keeps(obs, m)
<1> DEFINE m    == CompactManifest(obs, prefix, cpID, keep)
           d    == Len(prefix)
           n    == Len(obs.increments)
           last == PlanLast(prefix)
           rest == SubSeq(obs.increments, d + 1, n)
<1>1. /\ n \in Nat /\ d \in Nat /\ obs.increments \in Seq(Increments(ID, Nat)) /\ d <= n
      /\ DOMAIN prefix = 1 .. d
  BY ManifestParts, ElementType DEF PrefixPresent
<1>2. m \in Manifest_
  BY <1>1, CompactManifestType DEF Manifest_
<1>3. Publications(m) \subseteq Publications(obs)
  BY CompactFollows
<1>4. /\ m.head = IF rest = <<>> THEN last.head ELSE rest[Len(rest)].head
      /\ m.checkpoint.head = last.head /\ m.increments = rest
  BY DEF CompactManifest, Checkpoint
<1>5. /\ rest \in Seq(Increments(ID, Nat)) /\ Len(rest) = n - d
      /\ \A i \in 1 .. n - d : rest[i] = obs.increments[d + i]
  BY <1>1, SuffixType
<1>6. last = obs.increments[d]
  BY <1>1 DEF PlanLast, PrefixPresent
<1> HIDE DEF m, rest, last, d, n
<1>7. (rest = <<>> <=> Len(rest) = 0) /\ d > 0
  BY <1>5, EmptySeq, ElementType DEF d
<1>8. Headed(m)
  BY <1>1, <1>2, <1>4, <1>5, <1>7, HeadOfChain DEF Headed
<1>9. m.head = obs.head
  <2>1. obs.head = obs.increments[n].head
    BY <1>1, <1>7, HeadOfChain DEF Headed, n
  <2>2. CASE n = d
    BY <1>1, <1>4, <1>5, <1>6, <1>7, <2>1, <2>2
  <2>3. CASE n > d
    <3>1. n - d \in 1 .. n - d /\ d + (n - d) = n /\ n - d # 0
      BY <1>1, <2>3
    <3> QED
      BY <1>4, <1>5, <1>7, <2>1, <3>1
  <2> QED
    BY <1>1, <2>2, <2>3
<1>10. d \in 1 .. n
  BY <1>1, <1>7
<1> QED
  BY <1>3, <1>4, <1>5, <1>6, <1>8, <1>9, <1>10 DEF Keeps, m, n

-----------------------------------------------------------------------------
(* The store adopts a manifest.                                             *)

\* A landed publication extends the history by its head.
LEMMA AdoptAdds ==
  ASSUME NEW cur \in Manifest_, Chained(cur), NEW next \in Manifest_, Present(next),
         NEW acc \in Seq(ID), NEW drawn, StoreHist(cur, acc, drawn), Adds(cur, next),
         next.head \in drawn \ AcceptedIn(acc)
  PROVE  /\ next.head # cur.head
         /\ StoreHist(next, Append(acc, next.head), drawn)
<1> DEFINE h == next.head
           a == Append(acc, h)
           n == Len(acc)
           k == Len(next.increments)
<1>1. /\ h \in ID /\ k \in Nat
  BY ManifestParts
<1>2. /\ n \in Nat /\ DOMAIN acc = 1 .. n /\ DOMAIN a = 1 .. n + 1 /\ Len(a) = n + 1
      /\ \A i \in 1 .. n : a[i] = acc[i]
      /\ a[n + 1] = h /\ AcceptedIn(a) = AcceptedIn(acc) \cup {h}
  BY <1>1, Grown
<1>3. h # cur.head
  BY HeadAccepted DEF Adds
<1> HIDE DEF a, h, n
<1>4. Once(a)
  <2>1. NoID \notin AcceptedIn(a)
    BY <1>2 DEF StoreHist, Once, Adds, h
  <2>2. ASSUME NEW i \in DOMAIN a, NEW l \in DOMAIN a, a[i] = a[l] PROVE i = l
    <3>1. \A x \in 1 .. n : acc[x] # h
      BY <1>2 DEF AcceptedIn, h
    <3>2. (i \in 1 .. n \/ i = n + 1) /\ (l \in 1 .. n \/ l = n + 1)
      BY <1>2
    <3> QED
      BY <1>2, <2>2, <3>1, <3>2 DEF StoreHist, Once
  <2> QED
    BY <2>1, <2>2 DEF Once
<1>5. EndsIn(next, a)
  <2>1. h = ChainHead(next)
    BY DEF Adds, Headed, h
  <2>2. CASE k = 0
    BY <1>2, <2>1, <2>2, HeadOfChain DEF EndsIn
  <2>3. CASE Extends(cur, next)
    <3> DEFINE l == Len(cur.increments)
    <3>1. l \in Nat /\ k = l + 1
      BY <2>3, ManifestParts DEF Extends
    <3>2. EndsIn(cur, acc)
      BY <2>3 DEF Extends, StoreHist
    <3>n. n \in Nat
      BY <1>2
    <3>3. /\ n > l /\ acc[n - l] = cur.checkpoint.head
          /\ \A i \in 1 .. l : acc[n - l + i] = cur.increments[i].head
      BY <3>2 DEF EndsIn, n
    <3> HIDE DEF l, k
    <3>i. n - l \in 1 .. n /\ \A i \in 1 .. l : n - l + i \in 1 .. n
      BY <3>n, <3>1, <3>3
    <3>4. n + 1 > k /\ n + 1 - k = n - l
      BY <3>n, <3>1, <3>3
    <3>5. ASSUME NEW i \in 1 .. k PROVE a[n - l + i] = next.increments[i].head
      <4>1. CASE i \in 1 .. l
        BY <1>2, <2>3, <3>3, <3>i, <4>1 DEF Extends, l
      <4>2. CASE i = l + 1
        <5>1. n - l + i = n + 1 /\ k > 0 /\ i = k
          BY <3>n, <3>1, <4>2
        <5> QED
          BY <1>2, <2>1, <5>1, HeadOfChain DEF k
      <4> QED
        BY <3>1, <4>1, <4>2
    <3>6. a[n - l] = next.checkpoint.head
      BY <1>2, <2>3, <3>3, <3>i DEF Extends
    <3> QED
      <4>1. a[n + 1 - k] = next.checkpoint.head
        BY <3>4, <3>6
      <4>2. \A i \in 1 .. k : a[n + 1 - k + i] = next.increments[i].head
        BY <3>4, <3>5
      <4>3. Len(a) = n + 1
        BY <1>2
      <4>4. Len(a) > k /\ a[Len(a) - k] = next.checkpoint.head
            /\ \A i \in 1 .. k : a[Len(a) - k + i] = next.increments[i].head
        BY <1>1, <3>n, <3>4, <4>1, <4>2, <4>3
      <4> QED
        BY <4>4 DEF EndsIn, k
  <2> QED
    BY <2>2, <2>3 DEF Adds
<1>6. Publications(next) \subseteq AcceptedIn(a) /\ AcceptedIn(a) \subseteq drawn
  BY <1>2 DEF StoreHist, Adds, h
<1> QED
  BY <1>3, <1>4, <1>5, <1>6 DEF StoreHist, Adds, a, h

\* A landed checkpoint or compaction leaves the history as it is.
LEMMA AdoptKeeps ==
  ASSUME NEW cur \in Manifest_, Chained(cur), NEW next \in Manifest_, Present(next),
         NEW acc \in Seq(ID), NEW drawn, StoreHist(cur, acc, drawn), Keeps(cur, next)
  PROVE  StoreHist(next, acc, drawn)
<1> DEFINE n == Len(acc)
           l == Len(cur.increments)
           k == Len(next.increments)
<1>1. n \in Nat /\ l \in Nat /\ k \in Nat
  BY ElementType, ManifestParts
<1>2. PICK d \in 1 .. l :
       /\ k = l - d
       /\ next.checkpoint.head = cur.increments[d].head
       /\ \A i \in 1 .. k : next.increments[i].head = cur.increments[d + i].head
  BY DEF Keeps
<1>3. Present(cur)
  <2>1. Len(EmptyManifest.increments) = 0
    BY EmptySeq DEF EmptyManifest
  <2> QED
    BY <1>1, <1>2, <2>1 DEF Chained
<1>4. /\ n > l
      /\ \A i \in 1 .. l : acc[n - l + i] = cur.increments[i].head
  BY <1>3 DEF StoreHist, EndsIn
<1>5. n > k /\ n - k = n - l + d
  BY <1>1, <1>2, <1>4
<1>6. ASSUME NEW i \in 1 .. k PROVE acc[n - k + i] = next.increments[i].head
  <2>1. d + i \in 1 .. l /\ n - k + i = n - l + (d + i)
    BY <1>1, <1>2, <1>5
  <2> QED
    BY <1>2, <1>4, <2>1
<1>7. EndsIn(next, acc)
  BY <1>2, <1>4, <1>5, <1>6 DEF EndsIn
<1> QED
  BY <1>7 DEF StoreHist, Keeps

-----------------------------------------------------------------------------
(* The kinds of step.                                                       *)

\* A job survives what the others do: the history grows by a head that is not
\* its own, or by its own once; requests that join carry other heads.
LEMMA KeptJob ==
  ASSUME NEW j \in Jobs, NEW bl, NEW cur, NEW cur2, NEW acc \in Seq(ID), NEW h \in ID,
         NEW acc2, NEW wr, NEW wr2, JobHist(j, bl, cur, acc, wr),
         cur.gen \in Nat, cur2.gen \in Nat, cur.gen <= cur2.gen,
         bl.head \in AcceptedIn(acc) \cup {NoID},
         \/ acc2 = acc
         \/ /\ acc2 = Append(acc, h)
            /\ h \notin AcceptedIn(acc) \cup {NoID}
            /\ Proposing(j) => h # j.prop.pub
            /\ Doubtful(j) /\ h = j.prop.pub => j.prop.manifest.gen <= cur2.gen,
         \A r \in wr2 :
           \/ r \in wr
           \/ Proposing(j) \/ Doubtful(j) => r.next.head # j.prop.pub
           \/ r.next.head \in AcceptedIn(acc)
  PROVE  JobHist(j, bl, cur2, acc2, wr2)
<1> DEFINE pub == j.prop.pub
<1>1. j.prop.manifest.gen \in Nat
  BY JobParts, ManifestParts
<1>2. /\ AcceptedIn(acc) \subseteq AcceptedIn(acc2)
      /\ \A f, g : Upto(acc, f, g) => Upto(acc2, f, g)
      /\ acc2 # acc => AcceptedIn(acc2) = AcceptedIn(acc) \cup {h}
      /\ acc2 # acc => \A f \in AcceptedIn(acc) \cup {NoID} : Upto(acc2, f, h)
  <2>1. CASE acc2 = acc
    BY <2>1
  <2>2. CASE acc2 = Append(acc, h)
    BY <2>2, Grown
  <2> QED
    BY <2>1, <2>2
<1>3. /\ Present(j.obs) => Headed(j.obs) /\ j.obs.head \in AcceptedIn(acc2)
      /\ j.pc \in {"load", "merge", "apply"} => Upto(acc2, bl.head, j.obs.head)
      /\ Proposing(j) \/ Doubtful(j) => j.prop.manifest.head = pub
  BY <1>2 DEF JobHist
<1>4. Proposing(j) => /\ Adds(j.obs, j.prop.manifest)
                      /\ pub \notin AcceptedIn(acc2)
                      /\ \A r \in wr2 : r.next.head # pub
  BY <1>2 DEF JobHist
<1>5. ASSUME Doubtful(j), pub \in AcceptedIn(acc2)
      PROVE  j.prop.manifest.gen <= cur2.gen /\ Upto(acc2, bl.head, pub) /\ bl.head # pub
  <2>1. CASE pub \in AcceptedIn(acc)
    BY <1>1, <1>2, <1>5, <2>1 DEF JobHist
  <2>2. CASE pub \notin AcceptedIn(acc)
    <3>1. acc2 # acc /\ h = pub
      BY <1>2, <1>5, <2>2
    <3> QED
      BY <1>2, <1>5, <2>2, <3>1
  <2> QED
    BY <2>1, <2>2
<1>6. ASSUME Doubtful(j), pub \notin AcceptedIn(acc2)
      PROVE  /\ j.pc = "lookup"
             /\ \A r \in wr2 : r.next.head = pub => r.next.gen = j.prop.manifest.gen
  <2>1. pub \notin AcceptedIn(acc)
    BY <1>2, <1>6
  <2> QED
    BY <1>6, <2>1 DEF JobHist
<1> QED
  BY <1>3, <1>4, <1>5, <1>6 DEF JobHist

\* What the invariants say of one writer and of the store.
LEMMA HistParts ==
  ASSUME Inv, HistInv
  PROVE  /\ TypeInv /\ current \in Manifest_ /\ Chained(current) /\ current.gen \in Nat
         /\ accepted \in Seq(ID) /\ writes \subseteq Requests
         /\ StoreHist(current, accepted, DrawnIDs)
         /\ \A r \in writes : RequestHist(r, accepted, DrawnIDs)
         /\ \A w \in Writers :
              /\ job[w] \in Jobs
              /\ baseline[w].gen \in Nat /\ baseline[w].head \in ID
              /\ BaselineHist(baseline[w], current, accepted)
              /\ JobHist(job[w], baseline[w], current, accepted, writes)
<1>1. current \in Manifest_ /\ TypeInv
  BY DEF Inv, TypeInv, TypeOK
<1> QED
  BY <1>1, ManifestParts DEF Inv, HistInv, TypeInv, TypeOK, PackInv, StoreOK

\* A step that leaves current and the writes alone.
LEMMA StillStep ==
  ASSUME Inv, HistInv, TypeInv', NEW w \in Writers,
         current' = current, writes' = writes, accepted' = accepted,
         \A v \in Writers : seq'[v] >= seq[v],
         \A v \in Writers \ {w} : job'[v] = job[v] /\ baseline'[v] = baseline[v],
         BaselineHist(baseline'[w], current, accepted),
         JobHist(job'[w], baseline'[w], current, accepted, writes)
  PROVE  HistInv'
<1>1. DrawnIDs \subseteq DrawnIDs'
  BY DrawnGrows, HistParts
<1>2. StoreHist(current, accepted, DrawnIDs')
  BY <1>1 DEF HistInv, StoreHist
<1>3. \A r \in writes : RequestHist(r, accepted, DrawnIDs')
  BY <1>1 DEF HistInv, RequestHist
<1>4. \A v \in Writers : BaselineHist(baseline'[v], current, accepted)
  BY HistParts
<1>5. \A v \in Writers : JobHist(job'[v], baseline'[v], current, accepted, writes)
  BY HistParts
<1>6. \A q, r \in writes : q.next.head = r.next.head /\ q # r =>
        q.next.head \in AcceptedIn(accepted)
  BY DEF HistInv
<1> QED
  BY <1>2, <1>3, <1>4, <1>5, <1>6 DEF HistInv

\* The store adopts the manifest of a request, its sender's or a late one.
LEMMA AdoptHist ==
  ASSUME Inv, HistInv, TypeInv', NEW r \in Requests, Follows(r.key, r.base, r.next),
         current = r.base, Adopt(r.next), writes' \subseteq writes, seq' = seq,
         baseline' = baseline, RequestHist(r, accepted, DrawnIDs),
         \A q \in writes' : q.next.head = r.next.head =>
           q.next.head \in AcceptedIn(accepted),
         \A v \in Writers :
           \/ /\ job'[v] = job[v]
              /\ Proposing(job[v]) => r.next.head # job[v].prop.pub
              /\ Doubtful(job[v]) /\ r.next.head = job[v].prop.pub
                   /\ r.next.head \notin AcceptedIn(accepted)
                   => job[v].prop.manifest.gen <= r.next.gen
           \/ JobHist(job'[v], baseline[v], r.next, accepted', writes')
  PROVE  HistInv'
<1> DEFINE next == r.next
           h == next.head
<1>1. /\ current \in Manifest_ /\ Chained(current) /\ current.gen \in Nat
      /\ accepted \in Seq(ID) /\ writes \subseteq Requests
      /\ StoreHist(current, accepted, DrawnIDs)
      /\ \A q \in writes : RequestHist(q, accepted, DrawnIDs)
      /\ \A v \in Writers :
           /\ job[v] \in Jobs
           /\ baseline[v].gen \in Nat /\ baseline[v].head \in ID
           /\ BaselineHist(baseline[v], current, accepted)
           /\ JobHist(job[v], baseline[v], current, accepted, writes)
  BY HistParts
<1>2. /\ next \in Manifest_ /\ next.gen \in Nat /\ h \in ID
      /\ next.gen > current.gen /\ Present(next)
  <2>1. next \in Manifest_
    BY DEF Requests
  <2> QED
    BY <1>1, <2>1, ManifestParts DEF Follows, Present
<1>3. DrawnIDs' = DrawnIDs
  BY DEF DrawnIDs
<1>4. current' = next /\ accepted' = IF h = current.head THEN accepted ELSE Append(accepted, h)
  BY DEF Adopt
<1> HIDE DEF next, h
<1>5. /\ StoreHist(next, accepted', DrawnIDs)
      /\ \/ accepted' = accepted
         \/ accepted' = Append(accepted, h) /\ h \notin AcceptedIn(accepted) \cup {NoID}
  <2>1. CASE Keeps(current, next)
    <3>1. accepted' = accepted
      BY <1>4, <2>1 DEF Keeps, h
    <3> QED
      BY <1>1, <1>2, <2>1, <3>1, AdoptKeeps
  <2>2. CASE Adds(current, next) /\ h \in DrawnIDs \ AcceptedIn(accepted)
    <3>1. h # current.head /\ StoreHist(next, Append(accepted, h), DrawnIDs)
      BY <1>1, <1>2, <2>2, AdoptAdds DEF h
    <3> QED
      BY <1>4, <2>2, <3>1 DEF Adds, h
  <2> QED
    BY <2>1, <2>2 DEF RequestHist, next, h
<1>6. /\ AcceptedIn(accepted) \subseteq AcceptedIn(accepted')
      /\ AcceptedIn(accepted') \subseteq AcceptedIn(accepted) \cup {h}
  BY <1>1, <1>2, <1>5, Grown
<1>7. \A q \in writes' : RequestHist(q, accepted', DrawnIDs)
  <2> SUFFICES ASSUME NEW q \in writes' PROVE RequestHist(q, accepted', DrawnIDs)
    OBVIOUS
  <2>1. RequestHist(q, accepted, DrawnIDs)
    BY <1>1
  <2>2. q.next.head = h => q.next.head \in AcceptedIn(accepted)
    BY DEF h, next
  <2> QED
    BY <1>6, <2>1, <2>2 DEF RequestHist
<1>8. \A q, p \in writes' : q.next.head = p.next.head /\ q # p =>
        q.next.head \in AcceptedIn(accepted')
  BY <1>6 DEF HistInv
<1>9. \A v \in Writers : BaselineHist(baseline[v], next, accepted')
  BY <1>1, <1>2, <1>6 DEF BaselineHist
<1>10. \A v \in Writers : JobHist(job'[v], baseline[v], next, accepted', writes')
  <2> SUFFICES ASSUME NEW v \in Writers,
                      job'[v] = job[v],
                      Proposing(job[v]) => h # job[v].prop.pub,
                      Doubtful(job[v]) /\ h = job[v].prop.pub
                        /\ h \notin AcceptedIn(accepted)
                        => job[v].prop.manifest.gen <= next.gen
               PROVE  JobHist(job[v], baseline[v], next, accepted', writes')
    BY DEF h, next
  <2>1. baseline[v].head \in AcceptedIn(accepted) \cup {NoID}
    BY <1>1 DEF BaselineHist
  <2>2. current.gen <= next.gen
    BY <1>1, <1>2
  <2>3. \/ accepted' = accepted
        \/ /\ accepted' = Append(accepted, h)
           /\ h \notin AcceptedIn(accepted) \cup {NoID}
           /\ Proposing(job[v]) => h # job[v].prop.pub
           /\ Doubtful(job[v]) /\ h = job[v].prop.pub =>
                job[v].prop.manifest.gen <= next.gen
    BY <1>5
  <2>4. \A q \in writes' : q \in writes
    OBVIOUS
  <2>5. /\ job[v] \in Jobs /\ accepted \in Seq(ID) /\ h \in ID
        /\ current.gen \in Nat /\ next.gen \in Nat
        /\ JobHist(job[v], baseline[v], current, accepted, writes)
    BY <1>1, <1>2
  <2>0. PICK j, bl, cur, acc, acc2, wr, wr2 :
        /\ j = job[v] /\ bl = baseline[v] /\ cur = current
        /\ acc = accepted /\ acc2 = accepted' /\ wr = writes /\ wr2 = writes'
    OBVIOUS
  <2>6. /\ j \in Jobs /\ acc \in Seq(ID) /\ h \in ID /\ JobHist(j, bl, cur, acc, wr)
        /\ cur.gen \in Nat /\ next.gen \in Nat /\ cur.gen <= next.gen
        /\ bl.head \in AcceptedIn(acc) \cup {NoID}
        /\ \A q \in wr2 :
             \/ q \in wr
             \/ Proposing(j) \/ Doubtful(j) => q.next.head # j.prop.pub
             \/ q.next.head \in AcceptedIn(acc)
    BY <2>0, <2>1, <2>2, <2>4, <2>5
  <2>7. \/ acc2 = acc
        \/ /\ acc2 = Append(acc, h)
           /\ h \notin AcceptedIn(acc) \cup {NoID}
           /\ Proposing(j) => h # j.prop.pub
           /\ Doubtful(j) /\ h = j.prop.pub => j.prop.manifest.gen <= next.gen
    BY <2>0, <2>3
  <2> HIDE DEF h, next
  <2>8. JobHist(j, bl, next, acc2, wr2)
    BY <2>6, <2>7, KeptJob
  <2> QED
    BY <2>0, <2>8
<1> QED
  BY <1>3, <1>4, <1>5, <1>7, <1>8, <1>9, <1>10 DEF HistInv

\* A conditional write stays in flight.
LEMMA SendHist ==
  ASSUME Inv, HistInv, TypeInv', NEW w \in Writers, NEW r \in Requests,
         current' = current, accepted' = accepted, writes' = writes \cup {r}, seq' = seq,
         baseline' = baseline, RequestHist(r, accepted, DrawnIDs),
         \A q \in writes : q.next.head = r.next.head => q.next.head \in AcceptedIn(accepted),
         \A v \in Writers \ {w} :
           /\ job'[v] = job[v]
           /\ \/ Proposing(job[v]) \/ Doubtful(job[v]) => r.next.head # job[v].prop.pub
              \/ r.next.head \in AcceptedIn(accepted),
         JobHist(job'[w], baseline[w], current, accepted, writes')
  PROVE  HistInv'
<1>1. /\ current.gen \in Nat /\ accepted \in Seq(ID)
      /\ StoreHist(current, accepted, DrawnIDs)
      /\ \A q \in writes : RequestHist(q, accepted, DrawnIDs)
      /\ \A v \in Writers :
           /\ job[v] \in Jobs
           /\ BaselineHist(baseline[v], current, accepted)
           /\ JobHist(job[v], baseline[v], current, accepted, writes)
  BY HistParts
<1>2. DrawnIDs' = DrawnIDs
  BY DEF DrawnIDs
<1>3. \A q \in writes' : RequestHist(q, accepted, DrawnIDs)
  BY <1>1
<1>4. \A q, p \in writes' : q.next.head = p.next.head /\ q # p =>
        q.next.head \in AcceptedIn(accepted)
  BY DEF HistInv
<1>5. \A v \in Writers : JobHist(job'[v], baseline[v], current, accepted, writes')
  <2> SUFFICES ASSUME NEW v \in Writers \ {w}
               PROVE  JobHist(job[v], baseline[v], current, accepted, writes')
    OBVIOUS
  <2>1. baseline[v].head \in AcceptedIn(accepted) \cup {NoID} /\ current.gen <= current.gen
    BY <1>1 DEF BaselineHist
  <2>2. \A q \in writes' :
          \/ q \in writes
          \/ Proposing(job[v]) \/ Doubtful(job[v]) => q.next.head # job[v].prop.pub
          \/ q.next.head \in AcceptedIn(accepted)
    OBVIOUS
  <2> QED
    BY <1>1, <2>1, <2>2, KeptJob, IdleType
<1> QED
  BY <1>1, <1>2, <1>3, <1>4, <1>5 DEF HistInv

-----------------------------------------------------------------------------
(* The jobs the actions produce.                                            *)

\* A job that neither applies an observation nor has a proposal under way.
Resting(k, j) ==
  /\ k.obs \in {EmptyManifest, j.obs}
  /\ k.pc \notin {"load", "merge", "apply", "upload", "cas", "lookup", "accept", "cpplan"}
  /\ k.pc = "cpcas" => j.pc = "cpplan" /\ k.obs = j.obs /\ k.cp = j.cp

\* A job that proposes nothing relies only on what was accepted.
LEMMA RestingJob ==
  ASSUME NEW k, NEW j, Resting(k, j), NEW bl, NEW bl2, NEW cur, NEW cur2, NEW acc,
         NEW acc2, NEW wr, NEW wr2, JobHist(j, bl, cur, acc, wr),
         AcceptedIn(acc) \subseteq AcceptedIn(acc2)
  PROVE  JobHist(k, bl2, cur2, acc2, wr2)
<1>1. Present(k.obs) => k.obs = j.obs
  BY EmptyFacts DEF Resting, Present
<1> QED
  BY <1>1 DEF Resting, JobHist, Proposing, Doubtful

\* The states a call ends in or starts over from are at rest.
LEMMA RestingStates ==
  ASSUME NEW j \in Jobs
  PROVE  /\ Resting(Idle, j)
         /\ \A c : Resting(CleanUp(c), j)
         /\ Resting(AfterRecovery(j), j)
         /\ Resting(FailedRead(j), j)
         /\ Resting(StrictAttempt(j), j)
         /\ Resting(RetryPublication(j), j)
         /\ Resting(RetryCheckpoint(j), j)
<1>1. Resting(Idle, j)
  BY DEF Resting, Idle
<1>2. \A c : Resting(CleanUp(c), j)
  BY DEF Resting, CleanUp, Idle
<1>3. Resting(AfterRecovery(j), j)
  BY <1>1, <1>2, Zenon DEF AfterRecovery
<1>4. Resting(FailedRead(j), j)
  BY <1>1, <1>3, Zenon DEF FailedRead
<1>5. Resting(StrictAttempt(j), j)
  BY DEF Resting, StrictAttempt, Idle
<1> DEFINE n == j.attempt + 1
<1> HIDE DEF n
<1>6. Resting(RetryPublication(j), j)
  <2>1. Resting([Idle EXCEPT !.pc = "read", !.op = "commit", !.mode = j.mode,
                             !.attempt = n], j)
    BY DEF Resting, Idle
  <2> QED
    BY <1>1, <2>1, Zenon DEF RetryPublication, n
<1>7. Resting(RetryCheckpoint(j), j)
  <2>1. Resting([j EXCEPT !.pc = "read", !.attempt = n, !.restarts = 0], j)
    BY DEF Resting, Jobs
  <2> QED
    BY <1>1, <2>1, Zenon DEF RetryCheckpoint, n
<1> QED
  BY <1>1, <1>2, <1>3, <1>4, <1>5, <1>6, <1>7

\* Which actions leave the job at rest.
LEMMA RestingAfter ==
  ASSUME TypeInv, NEW w \in Writers,
         \/ StartPull(w) \/ StartCommit(w) \/ StartRecovery(w) \/ EngineFails(w)
         \/ ApplyRemote(w) \/ MergeToRemote(w) \/ LocalFails(w) \/ RecoverFails(w)
         \/ Abandon(w) \/ RereadCurrent(w) \/ CheckpointPlan(w) \/ CheckpointUpload(w)
         \/ CheckpointLost(w) \/ CheckpointLookup(w) \/ CheckpointAccepted(w)
         \/ CheckpointResent(w) \/ CheckpointUnanswered(w) \/ Cleanup(w)
         \/ PublishLost(w) \/ PublishRefused(w) \/ PublishResent(w) \/ Accept(w)
  PROVE  Resting(job'[w], job[w]) /\ \A v \in Writers \ {w} : job'[v] = job[v]
<1> DEFINE j == job[w]
<1>1. j \in Jobs
  BY DEF TypeInv, TypeOK
<1>2. /\ Resting(Idle, j) /\ \A c : Resting(CleanUp(c), j)
      /\ Resting(AfterRecovery(j), j) /\ Resting(FailedRead(j), j)
      /\ Resting(StrictAttempt(j), j) /\ Resting(RetryPublication(j), j)
      /\ Resting(RetryCheckpoint(j), j)
  BY <1>1, RestingStates
<1> SUFFICES \E k : Resting(k, j) /\ Become(w, k)
  BY Replaced
<1> HIDE DEF j
<1>3. CASE StartPull(w)
  <2>1. Resting([Idle EXCEPT !.pc = "read", !.op = "pull"], j)
    BY DEF Resting, Idle
  <2> QED BY <1>3, <2>1 DEF StartPull
<1>4. CASE StartCommit(w)
  <2>1. Resting([Idle EXCEPT !.pc = "read", !.op = "commit", !.attempt = 1], j)
    BY DEF Resting, Idle
  <2> QED BY <1>4, <2>1 DEF StartCommit
<1>5. CASE StartRecovery(w)
  <2>1. Resting([Idle EXCEPT !.pc = "read", !.op = "recover", !.mode = "strict"], j)
    BY DEF Resting, Idle
  <2> QED BY <1>5, <2>1 DEF StartRecovery
<1>6. CASE EngineFails(w) \/ RecoverFails(w) \/ Abandon(w) \/ MergeToRemote(w)
           \/ PublishRefused(w)
  BY <1>2, <1>6, Zenon DEF EngineFails, RecoverFails, Abandon, MergeToRemote, PublishRefused, j
<1>7. CASE PublishLost(w) \/ PublishResent(w) \/ CheckpointLost(w) \/ CheckpointResent(w)
           \/ CheckpointAccepted(w)
  BY <1>2, <1>7, Zenon DEF PublishLost, PublishResent, CheckpointLost, CheckpointResent,
                           CheckpointAccepted, j
<1>8. CASE ApplyRemote(w)
  BY <1>2, <1>8, Zenon DEF ApplyRemote, j
<1>9. CASE LocalFails(w)
  <2> DEFINE p == IF j.prop.compacting THEN j.prop ELSE NoProposal
             k == [Idle EXCEPT !.pc = "read", !.op = "recover", !.mode = "strict", !.prop = p]
  <2>1. Become(w, k)
    BY <1>9, Zenon DEF LocalFails, j
  <2> HIDE DEF p
  <2>2. Resting(k, j)
    BY DEF Resting, Idle
  <2> QED BY <2>1, <2>2
<1>10. CASE RereadCurrent(w)
  <2> DEFINE n == j.restarts + 1
             k == [j EXCEPT !.pc = "read", !.restarts = n]
  <2>1. Become(w, FailedRead(j)) \/ Become(w, k)
    BY <1>10 DEF RereadCurrent, j
  <2> HIDE DEF n
  <2>2. Resting(k, j)
    BY <1>1 DEF Resting, Jobs
  <2> QED BY <1>2, <2>1, <2>2
<1>11. CASE CheckpointPlan(w)
  <2>0. j.pc = "cpplan"
    BY <1>11 DEF CheckpointPlan, j
  <2>1. Resting([j EXCEPT !.pc = "cpcas"], j)
    BY <1>1, <2>0 DEF Resting, Jobs
  <2> QED BY <1>2, <1>11, <2>1 DEF CheckpointPlan, j
<1>12. CASE CheckpointUpload(w)
  <2> DEFINE key == Key("checkpoint", PlanLast(Plan(w)).gen, <<w, seq[w] + 1>>)
             k == [j EXCEPT !.pc = "read", !.op = "checkpoint", !.cp = key,
                            !.mode = "reusing", !.attempt = 1, !.restarts = 0]
  <2>1. Become(w, k)
    BY <1>12, Zenon DEF CheckpointUpload, j
  <2> HIDE DEF key
  <2>2. Resting(k, j)
    BY <1>1 DEF Resting, Jobs
  <2> QED BY <2>1, <2>2
<1>13. CASE CheckpointLookup(w)
  BY <1>2, <1>13, Zenon DEF CheckpointLookup, j
<1>14. CASE CheckpointUnanswered(w)
  <2>1. Resting(Spent(j, "cplookup"), j)
    BY <1>1 DEF Resting, Spent, Jobs
  <2> QED BY <1>14, <2>1 DEF CheckpointUnanswered, j
<1>15. CASE Accept(w)
  <2>1. Resting([j EXCEPT !.pc = "cpupload"], j)
    BY <1>1 DEF Resting, Jobs
  <2>2. \/ Become(w, Idle) \/ Become(w, [j EXCEPT !.pc = "cpupload"])
        \/ Become(w, CleanUp(j.prop.key.gen))
    BY <1>15 DEF Accept, j
  <2> QED BY <1>2, <2>1, <2>2
<1>16. CASE Cleanup(w)
  <2>1. ASSUME NEW rest PROVE Resting(NextBatch(w, rest), j)
    <3>1. Resting([j EXCEPT !.pc = "roots", !.candidates = rest, !.doomed = {}], j)
      BY <1>1 DEF Resting, Jobs
    <3> QED BY <1>2, <3>1, Zenon DEF NextBatch, j
  <2>2. CASE CleanupList(w)
    <3> DEFINE found == {x \in packs : x.gen <= j.cutoff}
               k == [Idle EXCEPT !.pc = "roots", !.candidates = found, !.cutoff = j.cutoff]
    <3>1. Become(w, IF found = {} THEN Idle ELSE k)
      BY <2>2, Zenon DEF CleanupList, j
    <3>2. Become(w, Idle) \/ Become(w, k)
      BY <3>1
    <3> HIDE DEF found
    <3>3. Resting(k, j)
      BY DEF Resting, Idle
    <3> QED BY <1>2, <3>2, <3>3
  <2>3. CASE CleanupRoots(w)
    <3>1. PICK batch : Become(w, IF Doomed(batch) = {} THEN NextBatch(w, j.candidates \ batch)
                      ELSE [j EXCEPT !.pc = "delete", !.candidates = j.candidates \ batch,
                                     !.doomed = Doomed(batch)])
      BY <2>3, Zenon DEF CleanupRoots, j
    <3> DEFINE rest == j.candidates \ batch
               dead == Doomed(batch)
               k == [j EXCEPT !.pc = "delete", !.candidates = rest, !.doomed = dead]
    <3>2. Become(w, NextBatch(w, rest)) \/ Become(w, k)
      BY <3>1
    <3> HIDE DEF rest, dead
    <3>3. Resting(k, j)
      BY <1>1 DEF Resting, Jobs
    <3> QED BY <2>1, <3>2, <3>3
  <2>4. CASE CleanupDelete(w)
    BY <2>1, <2>4, Zenon DEF CleanupDelete
  <2> QED BY <1>16, <2>2, <2>3, <2>4 DEF Cleanup
<1> QED
  BY <1>3, <1>4, <1>5, <1>6, <1>7, <1>8, <1>9, <1>10, <1>11, <1>12, <1>13, <1>14, <1>15, <1>16

-----------------------------------------------------------------------------
(* The actions.                                                             *)

\* Entering, leaving, planning, cleaning: nothing of the history moves.
LEMMA HistQuiet ==
  ASSUME Inv, HistInv, TypeInv', NEW w \in Writers,
         \/ StartPull(w) \/ StartCommit(w) \/ StartRecovery(w) \/ EngineFails(w)
         \/ LocalFails(w) \/ RecoverFails(w) \/ Abandon(w) \/ RereadCurrent(w)
         \/ CheckpointPlan(w) \/ CheckpointUpload(w) \/ CheckpointLost(w)
         \/ CheckpointLookup(w) \/ Cleanup(w) \/ PublishLost(w) \/ PublishRefused(w)
  PROVE  HistInv'
<1>1. /\ TypeInv /\ BaselineHist(baseline[w], current, accepted)
      /\ JobHist(job[w], baseline[w], current, accepted, writes)
  BY HistParts
<1>2. Resting(job'[w], job[w]) /\ \A v \in Writers \ {w} : job'[v] = job[v]
  BY <1>1, RestingAfter, Zenon
<1>3. /\ current' = current /\ writes' = writes /\ accepted' = accepted
      /\ baseline' = baseline
  BY DEF StartPull, StartCommit, StartRecovery, EngineFails, LocalFails, RecoverFails,
         Abandon, RereadCurrent, CheckpointPlan, CheckpointUpload, CheckpointLost,
         CheckpointLookup, Cleanup, CleanupList, CleanupRoots, CleanupDelete, PublishLost,
         PublishRefused, storeVars
<1>4. \A v \in Writers : seq'[v] >= seq[v]
  <2>1. CASE seq' = seq
    BY <1>1, <2>1 DEF TypeInv, TypeOK
  <2>2. CASE CheckpointUpload(w)
    BY <1>1, <2>2 DEF CheckpointUpload, TypeInv, TypeOK
  <2> QED
    BY <2>1, <2>2 DEF StartPull, StartCommit, StartRecovery, EngineFails, LocalFails,
       RecoverFails, Abandon, RereadCurrent, CheckpointPlan, CheckpointLost,
       CheckpointLookup, Cleanup, CleanupList, CleanupRoots, CleanupDelete, PublishLost,
       PublishRefused
<1>5. JobHist(job'[w], baseline[w], current, accepted, writes)
  BY <1>1, <1>2, RestingJob
<1> QED
  BY <1>1, <1>2, <1>3, <1>4, <1>5, StillStep

\* A workspace records an observed manifest or its own accepted proposal.
LEMMA HistRecord ==
  ASSUME Inv, HistInv, TypeInv', NEW w \in Writers,
         ApplyRemote(w) \/ MergeToRemote(w) \/ Accept(w)
  PROVE  HistInv'
<1> DEFINE j == job[w]
<1>1. /\ TypeInv /\ BaselineHist(baseline[w], current, accepted)
      /\ JobHist(j, baseline[w], current, accepted, writes) /\ j \in Jobs
      /\ baseline \in [Writers -> [gen : Nat, head : ID]]
  BY HistParts DEF TypeInv, TypeOK
<1>2. Resting(job'[w], j) /\ \A v \in Writers \ {w} : job'[v] = job[v]
  BY <1>1, RestingAfter
<1>3. /\ current' = current /\ writes' = writes /\ accepted' = accepted /\ seq' = seq
  BY DEF ApplyRemote, MergeToRemote, Accept, storeVars
<1>4. \A v \in Writers : seq'[v] >= seq[v]
  BY <1>1, <1>3 DEF TypeInv, TypeOK
<1>5. PICK m : /\ SetBaseline(w, m) /\ m.gen <= current.gen
               /\ m.head \in AcceptedIn(accepted) \cup {NoID}
  <2>1. CASE ApplyRemote(w) \/ MergeToRemote(w)
    <3>1. CurrentOK(j, current) /\ ProposalOK(j, Own(w))
      BY WriterOK
    <3>2. j.obs.gen <= current.gen /\ (Present(j.obs) \/ j.obs = EmptyManifest)
      BY <3>1 DEF CurrentOK, ProposalOK, Chained
    <3>3. j.obs.head \in AcceptedIn(accepted) \cup {NoID}
      BY <1>1, <3>2 DEF JobHist, EmptyManifest
    <3> QED
      BY <2>1, <3>2, <3>3 DEF ApplyRemote, MergeToRemote
  <2>2. CASE Accept(w)
    <3>1. j.pc = "accept" /\ SetBaseline(w, j.prop.manifest)
      BY <2>2 DEF Accept
    <3>2. j.prop.manifest.gen <= current.gen /\ j.prop.manifest.head \in AcceptedIn(accepted)
      BY <1>1, <3>1 DEF JobHist, Doubtful
    <3> QED
      BY <3>1, <3>2
  <2> QED
    BY <2>1, <2>2
<1>6. /\ BaselineHist(baseline'[w], current, accepted)
      /\ \A v \in Writers \ {w} : baseline'[v] = baseline[v]
  BY <1>1, <1>5 DEF SetBaseline, BaselineHist
<1>7. JobHist(job'[w], baseline'[w], current, accepted, writes)
  BY <1>1, <1>2, RestingJob
<1> QED
  BY <1>2, <1>3, <1>4, <1>6, <1>7, StillStep

\* Reading R: what is observed is the latest of the history.
LEMMA HistReading ==
  ASSUME Inv, HistInv, TypeInv', NEW w \in Writers, ReadCurrent(w) \/ LoadPacks(w)
  PROVE  HistInv'
<1> DEFINE j == job[w]
           bl == baseline[w]
<1>1. /\ TypeInv /\ BaselineHist(bl, current, accepted)
      /\ JobHist(j, bl, current, accepted, writes) /\ j \in Jobs
      /\ current \in Manifest_ /\ Chained(current) /\ accepted \in Seq(ID)
      /\ StoreHist(current, accepted, DrawnIDs)
  BY HistParts
<1>2. /\ current' = current /\ writes' = writes /\ accepted' = accepted /\ seq' = seq
      /\ baseline' = baseline
  BY DEF ReadCurrent, LoadPacks, storeVars
<1>3. \A v \in Writers : seq'[v] >= seq[v]
  BY <1>1, <1>2 DEF TypeInv, TypeOK
<1>4. /\ Present(current) => Headed(current) /\ current.head \in AcceptedIn(accepted)
      /\ Upto(accepted, bl.head, current.head)
  BY <1>1, HeadAccepted DEF BaselineHist
<1>5. AfterRead(j.op) \in {"merge", "cpplan", "apply"}
  BY <1>1, JobStates
<1> HIDE DEF j, bl
<1>6. \E k : Become(w, k) /\ JobHist(k, bl, current, accepted, writes)
  <2>1. CASE ReadCurrent(w)
    <3>1. ASSUME NEW p \in {"merge", "cpplan", "apply", "load"}
          PROVE  JobHist([j EXCEPT !.obs = current, !.pc = p], bl, current, accepted, writes)
      <4> DEFINE k == [j EXCEPT !.obs = current, !.pc = p]
      <4>1. k.obs = current /\ k.pc = p
        BY <1>1 DEF Jobs
      <4> HIDE DEF k
      <4>2. JobHist(k, bl, current, accepted, writes)
        BY <1>4, <4>1 DEF JobHist, Proposing, Doubtful
      <4> QED
        BY <4>2 DEF k
    <3>2. JobHist(FailedRead(j), bl, current, accepted, writes)
      BY <1>1, RestingStates, RestingJob
    <3>3. \/ Become(w, [j EXCEPT !.obs = current, !.pc = AfterRead(j.op)])
          \/ Become(w, FailedRead(j))
          \/ Become(w, [j EXCEPT !.obs = current, !.pc = "load"])
      BY <2>1 DEF ReadCurrent, j
    <3> QED
      BY <1>5, <3>1, <3>2, <3>3
  <2>2. CASE LoadPacks(w)
    <3> DEFINE specs == ImportSpecs(j.obs)
    <3>1. PICK all :
            LET got == {i \in DOMAIN specs : \A k \in 1 .. i : Available(w, specs[k], all)} IN
            Become(w, [j EXCEPT !.pc = IF got = DOMAIN specs THEN AfterRead(j.op)
                                       ELSE "reread"])
      BY <2>2, Zenon DEF LoadPacks, j
    <3> DEFINE got == {i \in DOMAIN specs : \A k \in 1 .. i : Available(w, specs[k], all)}
               p   == IF got = DOMAIN specs THEN AfterRead(j.op) ELSE "reread"
               k   == [j EXCEPT !.pc = p]
    <3>2. Become(w, k)
      BY <3>1
    <3>3. p \in {"merge", "cpplan", "apply", "reread"} /\ j.pc = "load"
      BY <1>5, <2>2 DEF LoadPacks, j
    <3> HIDE DEF got, p, specs
    <3>4. k.pc = p /\ k.obs = j.obs
      BY <1>1 DEF Jobs
    <3> HIDE DEF k
    <3>5. JobHist(k, bl, current, accepted, writes)
      BY <1>1, <3>3, <3>4 DEF JobHist, Proposing, Doubtful
    <3> QED
      BY <3>2, <3>5
  <2> QED
    BY <2>1, <2>2
<1>7. /\ JobHist(job'[w], bl, current, accepted, writes)
      /\ \A v \in Writers \ {w} : job'[v] = job[v]
  BY <1>1, <1>6, Replaced
<1> QED
  BY <1>1, <1>2, <1>3, <1>7, StillStep DEF bl

\* A writer's publication is nobody else's.
LEMMA OwnPublication ==
  ASSUME Inv, NEW w \in Writers, NEW v \in Writers, v # w,
         job[w].pc \in {"upload", "cas", "lookup"}, job[v].pc \in {"upload", "cas", "lookup"}
  PROVE  job[w].prop.pub # job[v].prop.pub
<1>1. job[w].prop.pub \in Own(w) /\ job[v].prop.pub \in Own(v)
  BY WriterOK DEF ProposalOK
<1>2. Own(v) \cap Own(w) = {}
  BY WriterOK, DrawnFacts
<1> QED
  BY <1>1, <1>2

\* Building a proposal, rebuilding it as a checkpoint, uploading its pack.
LEMMA HistPropose ==
  ASSUME Inv, HistInv, TypeInv', NEW w \in Writers,
         BuildProposal(w) \/ CompactOnQuota(w) \/ UploadPack(w) \/ LookupPublication(w)
  PROVE  HistInv'
<1> DEFINE j == job[w]
           bl == baseline[w]
<1>1. /\ TypeInv /\ BaselineHist(bl, current, accepted)
      /\ JobHist(j, bl, current, accepted, writes) /\ j \in Jobs
      /\ StoreHist(current, accepted, DrawnIDs)
      /\ \A r \in writes : RequestHist(r, accepted, DrawnIDs)
      /\ ProposalOK(j, Own(w)) /\ Shaped(j) /\ seq[w] \in Nat
  BY HistParts, WriterOK DEF TypeInv, TypeOK
<1>2. /\ current' = current /\ writes' = writes /\ accepted' = accepted
      /\ baseline' = baseline
  BY DEF BuildProposal, CompactOnQuota, UploadPack, LookupPublication, storeVars
<1>3. \A v \in Writers : seq'[v] >= seq[v]
  <2>1. CASE seq' = seq
    BY <1>1, <2>1 DEF TypeInv, TypeOK
  <2>2. CASE CompactOnQuota(w)
    BY <1>1, <2>2 DEF CompactOnQuota, TypeInv, TypeOK
  <2>3. CASE BuildProposal(w)
    <3>1. seq' = [seq EXCEPT ![w] = @ + IF Present(j.obs) THEN 1 ELSE 2]
      BY <2>3, Zenon DEF BuildProposal
    <3> QED
      BY <1>1, <3>1 DEF TypeInv, TypeOK
  <2> QED
    BY <2>1, <2>2, <2>3 DEF UploadPack, LookupPublication
<1>4. j.obs \in Manifest_ /\ Chained(j.obs) /\ j.prop.manifest \in Manifest_
      /\ j.prop.pub \in ID /\ j.prop.key \in Key_
  BY <1>1, JobParts DEF ProposalOK
<1>5. Resting(Idle, j)
  BY <1>1, RestingStates
<1> HIDE DEF j, bl
<1>6. \E k : Become(w, k) /\ JobHist(k, bl, current, accepted, writes)
  <2>1. CASE BuildProposal(w)
    <3> DEFINE pub  == <<w, seq[w] + 1>>
               cpID == <<w, seq[w] + 2>>
               m    == IF Present(j.obs) THEN IncrementManifest(j.obs, pub)
                                         ELSE FirstManifest(pub, cpID)
               key  == IF Present(j.obs) THEN Key("increment", NextIncrementGen(j.obs), pub)
                                         ELSE Key("checkpoint", 1, cpID)
               prop == [pub |-> pub, key |-> key, manifest |-> m, compacting |-> FALSE]
               k    == [j EXCEPT !.prop = prop, !.pc = "upload"]
    <3>1. Become(w, k)
      BY <2>1, Zenon DEF BuildProposal, j
    <3>2. pub \in ID /\ cpID \in ID /\ pub # NoID /\ pub \notin DrawnIDs
      BY <1>1, DrawnType, DrawnFacts DEF NoID
    <3>3. m.head = pub /\ Adds(j.obs, m)
      <4>1. CASE Present(j.obs)
        <5>1. m = IncrementManifest(j.obs, pub)
          BY <4>1
        <5> HIDE DEF m, pub
        <5> QED
          BY <1>4, <3>2, <4>1, <5>1, IncrementAdds
      <4>2. CASE ~Present(j.obs)
        <5>1. m = FirstManifest(pub, cpID) /\ j.obs = EmptyManifest
          BY <1>4, <4>2 DEF Chained
        <5> HIDE DEF m, pub, cpID
        <5> QED
          BY <3>2, <5>1, FirstAdds
      <4> QED
        BY <4>1, <4>2
    <3> HIDE DEF m, key, pub
    <3>4. k.pc = "upload" /\ k.obs = j.obs /\ k.prop.pub = pub /\ k.prop.manifest = m
      BY <1>1 DEF Jobs
    <3> HIDE DEF k
    <3>5. pub \notin AcceptedIn(accepted) /\ \A r \in writes : r.next.head # pub
      BY <1>1, <3>2 DEF StoreHist, RequestHist
    <3>6. JobHist(k, bl, current, accepted, writes)
      BY <1>1, <3>3, <3>4, <3>5 DEF JobHist, Proposing, Doubtful
    <3> QED
      BY <3>1, <3>6
  <2>2. CASE CompactOnQuota(w)
    <3> DEFINE cpID == <<w, seq[w] + 1>>
               old  == j.prop
               key  == Key("checkpoint", old.key.gen, cpID)
               m    == CompactingManifest(old.manifest, cpID)
               prop == [pub |-> old.pub, key |-> key, manifest |-> m, compacting |-> TRUE]
               k    == [j EXCEPT !.prop = prop]
    <3>1. Become(w, k) /\ j.pc = "upload" /\ old.key.kind = "increment"
      BY <2>2, Zenon DEF CompactOnQuota, j
    <3>2. cpID \in ID
      BY <1>1, DrawnType
    <3>3. /\ Follows(old.key, j.obs, old.manifest)
          /\ Len(old.manifest.increments) > 0
          /\ old.manifest.increments[Len(old.manifest.increments)].gen = old.key.gen
          /\ old.manifest.increments[Len(old.manifest.increments)].pub = old.pub
      BY <1>1, <3>1 DEF ProposalOK, Proposing, Shaped
    <3>4. /\ Adds(j.obs, old.manifest) /\ old.manifest.head = old.pub
          /\ old.pub \notin AcceptedIn(accepted) /\ \A r \in writes : r.next.head # old.pub
      BY <1>1, <3>1 DEF JobHist, Proposing
    <3> HIDE DEF cpID
    <3>5. Publications(m) \subseteq {old.pub}
      BY <1>4, <3>2, <3>3, CompactingFollows
    <3>6. m.head = old.pub /\ Adds(j.obs, m)
      BY <1>4, <3>2, <3>3, <3>4, <3>5, CompactingAdds
    <3> HIDE DEF m, key
    <3>7. /\ k.pc = "upload" /\ k.obs = j.obs /\ k.prop.pub = old.pub
          /\ k.prop.manifest = m
      BY <1>1, <3>1 DEF Jobs
    <3> HIDE DEF k
    <3>8. JobHist(k, bl, current, accepted, writes)
      BY <1>1, <3>4, <3>6, <3>7 DEF JobHist, Proposing, Doubtful
    <3> QED
      BY <3>1, <3>8
  <2>3. CASE UploadPack(w)
    <3> DEFINE k == [j EXCEPT !.pc = "cas"]
    <3>1. j.pc = "upload" /\ (Become(w, k) \/ Become(w, Idle))
      BY <2>3 DEF UploadPack, j
    <3>2. k.pc = "cas" /\ k.obs = j.obs /\ k.prop = j.prop
      BY <1>1 DEF Jobs
    <3> HIDE DEF k
    <3>3. JobHist(k, bl, current, accepted, writes)
      BY <1>1, <3>1, <3>2 DEF JobHist, Proposing, Doubtful
    <3>4. JobHist(Idle, bl, current, accepted, writes)
      BY <1>1, <1>5, RestingJob
    <3> QED
      BY <3>1, <3>3, <3>4
  <2>4. CASE LookupPublication(w)
    <3> DEFINE k == [j EXCEPT !.pc = "accept"]
    <3>1. /\ j.pc = "lookup"
          /\ \/ Become(w, Idle)
             \/ j.prop.pub \in Publications(current) /\ Become(w, k)
      BY <2>4 DEF LookupPublication, Proved, PublicationIn, j
    <3>2. k.pc = "accept" /\ k.obs = j.obs /\ k.prop = j.prop
      BY <1>1 DEF Jobs
    <3> HIDE DEF k
    <3>3. ASSUME j.prop.pub \in Publications(current)
          PROVE  JobHist(k, bl, current, accepted, writes)
      <4>1. j.prop.pub \in AcceptedIn(accepted)
        BY <1>1, <3>3 DEF StoreHist
      <4> QED
        BY <1>1, <3>1, <3>2, <4>1 DEF JobHist, Proposing, Doubtful
    <3>4. JobHist(Idle, bl, current, accepted, writes)
      BY <1>1, <1>5, RestingJob
    <3> QED
      BY <3>1, <3>3, <3>4
  <2> QED
    BY <2>1, <2>2, <2>3, <2>4
<1>7. /\ JobHist(job'[w], bl, current, accepted, writes)
      /\ \A v \in Writers \ {w} : job'[v] = job[v]
  BY <1>1, <1>6, Replaced
<1> QED
  BY <1>1, <1>2, <1>3, <1>7, StillStep DEF bl

\* The store adopts the writer's own manifest and the writer goes on as k.
LEMMA AdoptOwnHist ==
  ASSUME Inv, HistInv, TypeInv', NEW w \in Writers, NEW k, Become(w, k),
         NEW r \in Requests, Follows(r.key, r.base, r.next), current = r.base,
         Adopt(r.next), writes' = writes, seq' = seq, baseline' = baseline,
         RequestHist(r, accepted, DrawnIDs),
         \A q \in writes : q.next.head = r.next.head => q.next.head \in AcceptedIn(accepted),
         \/ r.next.head \in AcceptedIn(accepted)
         \/ r.next.head = job[w].prop.pub /\ job[w].pc = "cas",
         JobHist(k, baseline[w], r.next, accepted', writes)
  PROVE  HistInv'
<1>1. job'[w] = k /\ \A v \in Writers : v # w => job'[v] = job[v]
  BY HistParts, Replaced
<1>2. ASSUME NEW v \in Writers, v # w
      PROVE  /\ Proposing(job[v]) => r.next.head # job[v].prop.pub
             /\ Doubtful(job[v]) /\ r.next.head = job[v].prop.pub
                  => r.next.head \in AcceptedIn(accepted)
  <2>1. JobHist(job[v], baseline[v], current, accepted, writes)
    BY HistParts
  <2>2. CASE r.next.head \in AcceptedIn(accepted)
    BY <2>1, <2>2 DEF JobHist
  <2>3. CASE r.next.head = job[w].prop.pub /\ job[w].pc = "cas"
    <3>1. job[v].pc \in {"upload", "cas", "lookup"} => job[w].prop.pub # job[v].prop.pub
      BY <1>2, <2>3, OwnPublication
    <3> QED
      BY <2>1, <2>3, <3>1 DEF JobHist, Proposing, Doubtful
  <2> QED
    BY <2>2, <2>3
<1>3. \A v \in Writers :
        \/ /\ job'[v] = job[v]
           /\ Proposing(job[v]) => r.next.head # job[v].prop.pub
           /\ Doubtful(job[v]) /\ r.next.head = job[v].prop.pub
                /\ r.next.head \notin AcceptedIn(accepted)
                => job[v].prop.manifest.gen <= r.next.gen
        \/ JobHist(job'[v], baseline[v], r.next, accepted', writes')
  BY <1>1, <1>2
<1> QED
  BY <1>3, AdoptHist

\* The history after a manifest is adopted.
LEMMA AdoptedIn ==
  ASSUME NEW m \in Manifest_, accepted \in Seq(ID), Adopt(m)
  PROVE  /\ AcceptedIn(accepted) \subseteq AcceptedIn(accepted')
         /\ m.head # current.head =>
              /\ m.head \in AcceptedIn(accepted')
              /\ \A f \in AcceptedIn(accepted) \cup {NoID} : Upto(accepted', f, m.head)
<1>1. m.head \in ID
  BY ManifestParts
<1>2. accepted' = IF m.head = current.head THEN accepted ELSE Append(accepted, m.head)
  BY DEF Adopt
<1>3. CASE m.head = current.head
  BY <1>2, <1>3
<1>4. CASE m.head # current.head
  BY <1>1, <1>2, <1>4, Grown
<1> QED
  BY <1>3, <1>4

\* The request a commit sends.
LEMMA CommitRequest ==
  ASSUME Inv, HistInv, NEW w \in Writers, job[w].pc = "cas"
  PROVE  LET j == job[w]
             r == [by |-> w, key |-> j.prop.key, base |-> j.obs, next |-> j.prop.manifest] IN
         /\ r \in Requests /\ Follows(r.key, r.base, r.next)
         /\ RequestHist(r, accepted, DrawnIDs)
         /\ \A q \in writes : q.next.head # r.next.head
         /\ r.next.head = j.prop.pub
         /\ j.prop.pub \notin AcceptedIn(accepted) \cup {NoID}
<1> DEFINE j == job[w]
           r == [by |-> w, key |-> j.prop.key, base |-> j.obs, next |-> j.prop.manifest]
<1>1. /\ TypeInv /\ j \in Jobs /\ JobHist(j, baseline[w], current, accepted, writes)
      /\ ProposalOK(j, Own(w))
  BY HistParts, WriterOK
<1>2. /\ r \in Requests /\ r.key = j.prop.key /\ r.base = j.obs /\ r.next = j.prop.manifest
  BY <1>1, JobParts DEF Requests
<1>3. /\ Adds(j.obs, j.prop.manifest) /\ j.prop.manifest.head = j.prop.pub
      /\ j.prop.pub \notin AcceptedIn(accepted)
      /\ \A q \in writes : q.next.head # j.prop.pub
  BY <1>1 DEF JobHist, Proposing
<1>4. j.prop.pub \in DrawnIDs /\ Follows(j.prop.key, j.obs, j.prop.manifest)
  BY <1>1, DrawnFacts DEF ProposalOK, Proposing
<1>5. j.prop.pub # NoID
  BY <1>3 DEF Adds
<1> HIDE DEF r
<1> QED
  BY <1>2, <1>3, <1>4, <1>5 DEF RequestHist, r

\* The conditional write of a proposal: accepted, resent, or its fate unknown.
LEMMA HistPublish ==
  ASSUME Inv, HistInv, TypeInv', NEW w \in Writers,
         PublishAccepted(w) \/ PublishResent(w) \/ PublishUnanswered(w)
  PROVE  HistInv'
<1> DEFINE j == job[w]
           bl == baseline[w]
           next == j.prop.manifest
           r == [by |-> w, key |-> j.prop.key, base |-> j.obs, next |-> next]
<1>1. /\ TypeInv /\ BaselineHist(bl, current, accepted)
      /\ JobHist(j, bl, current, accepted, writes) /\ j \in Jobs
      /\ current \in Manifest_ /\ Chained(current) /\ accepted \in Seq(ID)
      /\ StoreHist(current, accepted, DrawnIDs) /\ next \in Manifest_ /\ next.gen \in Nat
  BY HistParts, JobParts, ManifestParts
<1>2. j.pc = "cas"
  BY DEF PublishAccepted, PublishResent, PublishUnanswered, Publishing
<1>3. /\ r \in Requests /\ Follows(r.key, r.base, r.next)
      /\ RequestHist(r, accepted, DrawnIDs)
      /\ \A q \in writes : q.next.head # r.next.head
      /\ r.next.head = j.prop.pub
      /\ j.prop.pub \notin AcceptedIn(accepted) \cup {NoID}
  BY <1>2, CommitRequest
<1>4. r.base = j.obs /\ r.next = next
  OBVIOUS
<1>5. next.head # current.head
  BY <1>1, <1>3, HeadAccepted
<1>6. seq' = seq /\ baseline' = baseline
  BY DEF PublishAccepted, PublishResent, PublishUnanswered
<1> HIDE DEF j, bl, next, r
<1>7. ASSUME Adopt(next), NEW k, k.pc \in {"lookup", "accept"}, k.obs = EmptyManifest,
             k.prop = j.prop
      PROVE  JobHist(k, bl, next, accepted', writes)
  <2>1. /\ AcceptedIn(accepted) \subseteq AcceptedIn(accepted')
        /\ next.head \in AcceptedIn(accepted')
        /\ Upto(accepted', bl.head, next.head)
    BY <1>1, <1>5, <1>7, AdoptedIn DEF BaselineHist
  <2>2. bl.head # j.prop.pub
    BY <1>1, <1>3 DEF BaselineHist
  <2>3. ~Present(k.obs)
    BY <1>7, EmptyFacts DEF Present
  <2>4. next.head = j.prop.pub /\ k.prop.manifest = next /\ next.gen <= next.gen
    BY <1>1, <1>3, <1>4, <1>7 DEF next
  <2> QED
    BY <1>7, <2>1, <2>2, <2>3, <2>4 DEF JobHist, Proposing, Doubtful
<1>8. CASE PublishAccepted(w)
  <2> DEFINE k == Spent(j, "accept")
  <2>1. Become(w, k) /\ current = j.obs /\ Adopt(next) /\ writes' = writes
    BY <1>8 DEF PublishAccepted, j, next
  <2>2. k.pc = "accept" /\ k.obs = EmptyManifest /\ k.prop = j.prop
    BY <1>1 DEF Spent, Jobs
  <2> HIDE DEF k
  <2>3. JobHist(k, bl, next, accepted', writes)
    BY <1>7, <2>1, <2>2
  <2> QED
    BY <1>2, <1>3, <1>4, <1>6, <2>1, <2>3, AdoptOwnHist DEF bl, j
<1>9. CASE PublishResent(w)
  <2> DEFINE k == RetryPublication(j)
  <2>1. Become(w, k) /\ current = j.obs /\ Adopt(next) /\ writes' = writes
    BY <1>9 DEF PublishResent, j, next
  <2>2. AcceptedIn(accepted) \subseteq AcceptedIn(accepted')
    BY <1>1, <2>1, AdoptedIn
  <2>3. JobHist(k, bl, next, accepted', writes)
    BY <1>1, <2>2, RestingStates, RestingJob
  <2> HIDE DEF k
  <2> QED
    BY <1>2, <1>3, <1>4, <1>6, <2>1, <2>3, AdoptOwnHist DEF bl, j
<1>10. CASE PublishUnanswered(w)
  <2> DEFINE k == Spent(j, "lookup")
  <2>1. Become(w, k) /\ LoseResponse(w, j.prop.key, j.obs, next)
    BY <1>10 DEF PublishUnanswered, j, next
  <2>2. k.pc = "lookup" /\ k.obs = EmptyManifest /\ k.prop = j.prop
    BY <1>1 DEF Spent, Jobs
  <2> HIDE DEF k
  <2>3. job'[w] = k /\ \A v \in Writers : v # w => job'[v] = job[v]
    BY <1>1, <2>1, Replaced
  <2>4. ASSUME NEW wr, wr \subseteq writes \cup {r}
        PROVE  JobHist(k, bl, current, accepted, wr)
    <3>1. ~Present(k.obs)
      BY <2>2, EmptyFacts DEF Present
    <3>2. next.head = j.prop.pub /\ k.prop.manifest = next /\ k.prop.pub = j.prop.pub
      BY <1>3, <1>4, <2>2 DEF next
    <3>3. \A q \in wr : q.next.head = j.prop.pub => q.next.gen = next.gen
      BY <1>3, <1>4, <2>4
    <3> QED
      BY <1>3, <2>2, <3>1, <3>2, <3>3 DEF JobHist, Proposing, Doubtful
  <2>5. CASE current = j.obs /\ Adopt(next) /\ writes' = writes
    <3>1. JobHist(k, bl, next, accepted', writes)
      BY <1>7, <2>2, <2>5
    <3> QED
      BY <1>2, <1>3, <1>4, <1>6, <2>1, <2>5, <3>1, AdoptOwnHist DEF bl, j
  <2>6. CASE current' = current /\ accepted' = accepted /\ writes' = writes
    <3>1. JobHist(k, bl, current, accepted, writes)
      BY <2>4
    <3>2. \A v \in Writers : seq'[v] >= seq[v]
      BY <1>1, <1>6 DEF TypeInv, TypeOK
    <3> QED
      BY <1>1, <1>6, <2>3, <2>6, <3>1, <3>2, StillStep DEF bl
  <2>7. CASE current' = current /\ accepted' = accepted /\ writes' = writes \cup {r}
    <3>1. JobHist(job'[w], bl, current, accepted, writes')
      BY <2>3, <2>4, <2>7
    <3>2. ASSUME NEW v \in Writers \ {w}
          PROVE  /\ job'[v] = job[v]
                 /\ \/ Proposing(job[v]) \/ Doubtful(job[v]) => r.next.head # job[v].prop.pub
                    \/ r.next.head \in AcceptedIn(accepted)
      <4>1. job[v].pc \in {"upload", "cas", "lookup"} => j.prop.pub # job[v].prop.pub
        BY <1>2, OwnPublication DEF j
      <4>2. job[v].pc = "accept" => job[v].prop.pub \in AcceptedIn(accepted)
        BY HistParts DEF JobHist, Doubtful
      <4> QED
        BY <1>3, <2>3, <4>1, <4>2 DEF Proposing, Doubtful
    <3> QED
      BY <1>3, <1>6, <2>7, <3>1, <3>2, SendHist DEF bl
  <2> QED
    BY <2>1, <2>5, <2>6, <2>7 DEF LoseResponse, Land, r
<1> QED
  BY <1>8, <1>9, <1>10

\* The request of a checkpoint effort keeps every head.
LEMMA CheckpointHist ==
  ASSUME Inv, HistInv, NEW w \in Writers, job[w].pc = "cpcas"
  PROVE  LET j == job[w]
             r == [by |-> w, key |-> j.cp, base |-> j.obs, next |-> CheckpointNext(w)] IN
         /\ r \in Requests /\ Follows(r.key, r.base, r.next)
         /\ RequestHist(r, accepted, DrawnIDs)
         /\ r.next.head \in AcceptedIn(accepted)
<1> DEFINE j == job[w]
           next == CheckpointNext(w)
           r == [by |-> w, key |-> j.cp, base |-> j.obs, next |-> next]
           prefix == PlanPrefix(j.prop.manifest, CheckpointPacks)
<1>1. /\ j \in Jobs /\ JobHist(j, baseline[w], current, accepted, writes)
      /\ ProposalOK(j, Own(w)) /\ Shaped(j) /\ j.op = "checkpoint"
  BY HistParts, WriterOK DEF Shaped
<1>2. /\ next \in Manifest_ /\ Follows(j.cp, j.obs, next)
  BY CheckpointRequest
<1>3. /\ j.obs \in Manifest_ /\ j.cp \in Key_ /\ j.cp.id \in ID /\ j.prop.manifest \in Manifest_
  BY <1>1, JobParts
<1>4. /\ r \in Requests /\ r.key = j.cp /\ r.base = j.obs /\ r.next = next
  BY <1>2, <1>3 DEF Requests
<1>5. /\ prefix \in Seq(Increments(ID, Nat)) /\ Len(prefix) > 0
      /\ PrefixPresent(j.obs, prefix)
  <2>1. Len(j.prop.manifest.increments) >= CheckpointPacks
    BY <1>1 DEF Shaped
  <2>2. CheckpointPacks \in Nat \ {0}
    BY ConstantsAssumption
  <2>3. /\ j.prop.manifest.increments \in Seq(Increments(ID, Nat))
        /\ Len(j.prop.manifest.increments) \in Nat
    BY <1>3, ManifestParts
  <2>4. /\ prefix \in Seq(Increments(ID, Nat)) /\ Len(prefix) = CheckpointPacks
    BY <2>1, <2>2, <2>3, PrefixType DEF PlanPrefix
  <2> QED
    BY <1>1, <2>2, <2>4 DEF ProposalOK
<1>6. Present(j.obs)
  <2>1. Len(EmptyManifest.increments) = 0
    BY EmptySeq DEF EmptyManifest
  <2>2. Len(j.obs.increments) >= CheckpointPacks /\ CheckpointPacks > 0
    BY <1>1, ConstantsAssumption DEF Shaped
  <2> QED
    BY <1>1, <2>1, <2>2, ConstantsAssumption DEF ProposalOK, Chained
<1>7. Headed(j.obs) /\ j.obs.head \in AcceptedIn(accepted) /\ Chained(j.obs)
  BY <1>1, <1>6 DEF JobHist, ProposalOK
<1>8. next = CompactManifest(j.obs, prefix, j.cp.id, RetainedCheckpoints)
  BY DEF CheckpointNext, Plan
<1>9. RetainedCheckpoints \in Nat
  BY ConstantsAssumption
<1> HIDE DEF j, next, prefix, r
<1>10. next.head = j.obs.head /\ Keeps(j.obs, next)
  BY <1>3, <1>5, <1>7, <1>8, <1>9, CompactKeeps
<1> QED
  BY <1>2, <1>4, <1>7, <1>10 DEF RequestHist, r, j, next

\* The conditional write of a checkpoint keeps the invariant.
LEMMA HistCheckpoint ==
  ASSUME Inv, HistInv, TypeInv', NEW w \in Writers,
         CheckpointAccepted(w) \/ CheckpointResent(w) \/ CheckpointUnanswered(w)
  PROVE  HistInv'
<1> DEFINE j == job[w]
           bl == baseline[w]
           next == CheckpointNext(w)
           r == [by |-> w, key |-> j.cp, base |-> j.obs, next |-> next]
<1>1. /\ TypeInv /\ BaselineHist(bl, current, accepted)
      /\ JobHist(j, bl, current, accepted, writes) /\ j \in Jobs
      /\ current \in Manifest_ /\ Chained(current) /\ accepted \in Seq(ID)
  BY HistParts
<1>2. j.pc = "cpcas" /\ seq' = seq /\ baseline' = baseline
  BY DEF CheckpointAccepted, CheckpointResent, CheckpointUnanswered, Compacting
<1>3. /\ r \in Requests /\ Follows(r.key, r.base, r.next)
      /\ RequestHist(r, accepted, DrawnIDs)
      /\ r.next.head \in AcceptedIn(accepted)
  BY <1>2, CheckpointHist
<1>4. r.base = j.obs /\ r.next = next /\ next \in Manifest_
  BY <1>2, CheckpointRequest
<1>5. Resting(job'[w], j) /\ \A v \in Writers \ {w} : job'[v] = job[v]
  BY <1>1, RestingAfter
<1>6. PICK k : Become(w, k)
  BY DEF CheckpointAccepted, CheckpointResent, CheckpointUnanswered
<1>7. Resting(k, j) /\ job'[w] = k
  BY <1>1, <1>5, <1>6, Replaced
<1>8. \/ current = j.obs /\ Adopt(next) /\ writes' = writes
      \/ current' = current /\ accepted' = accepted /\ writes' = writes
      \/ current' = current /\ accepted' = accepted /\ writes' = writes \cup {r}
  BY DEF CheckpointAccepted, CheckpointResent, CheckpointUnanswered, LoseResponse, Land
<1> HIDE DEF j, bl, next, r
<1>9. CASE current = j.obs /\ Adopt(next) /\ writes' = writes
  <2>1. AcceptedIn(accepted) \subseteq AcceptedIn(accepted')
    BY <1>1, <1>4, <1>9, AdoptedIn
  <2>2. JobHist(k, bl, next, accepted', writes)
    BY <1>1, <1>7, <2>1, RestingJob
  <2> QED
    BY <1>2, <1>3, <1>4, <1>6, <1>9, <2>2, AdoptOwnHist DEF bl
<1>10. CASE current' = current /\ accepted' = accepted /\ writes' = writes
  <2>1. JobHist(job'[w], bl, current, accepted, writes)
    BY <1>1, <1>5, RestingJob
  <2>2. \A v \in Writers : seq'[v] >= seq[v]
    BY <1>1, <1>2 DEF TypeInv, TypeOK
  <2> QED
    BY <1>1, <1>2, <1>5, <1>10, <2>1, <2>2, StillStep DEF bl
<1>11. CASE current' = current /\ accepted' = accepted /\ writes' = writes \cup {r}
  <2>1. JobHist(job'[w], bl, current, accepted, writes')
    BY <1>1, <1>5, RestingJob
  <2>2. \A q \in writes : q.next.head = r.next.head => q.next.head \in AcceptedIn(accepted)
    BY <1>3
  <2> QED
    BY <1>2, <1>3, <1>5, <1>11, <2>1, <2>2, SendHist DEF bl
<1> QED
  BY <1>8, <1>9, <1>10, <1>11

\* Requests that reach the store after their sender gave up.
LEMMA HistLate ==
  ASSUME Inv, HistInv, TypeInv', LateWrite \/ LateDelete
  PROVE  HistInv'
<1>1. CASE LateWrite
  <2>1. PICK r \in writes : Land(r.base, r.next) /\ writes' = writes \ {r}
    BY <1>1 DEF LateWrite
  <2>2. /\ seq' = seq /\ baseline' = baseline /\ job' = job
        /\ r \in Requests /\ Follows(r.key, r.base, r.next)
        /\ RequestHist(r, accepted, DrawnIDs)
    BY <1>1, HistParts DEF LateWrite, Inv, PackInv, RequestOK
  <2>3. CASE current = r.base
    <3>1. Adopt(r.next)
      BY <2>1, <2>3 DEF Land
    <3>2. \A q \in writes' : q.next.head = r.next.head =>
            q.next.head \in AcceptedIn(accepted)
      BY <2>1 DEF HistInv
    <3>3. ASSUME NEW v \in Writers
          PROVE  /\ Proposing(job[v]) => r.next.head # job[v].prop.pub
                 /\ Doubtful(job[v]) /\ r.next.head = job[v].prop.pub
                      /\ r.next.head \notin AcceptedIn(accepted)
                      => job[v].prop.manifest.gen <= r.next.gen
      <4>1. JobHist(job[v], baseline[v], current, accepted, writes) /\ job[v] \in Jobs
        BY HistParts
      <4>2. job[v].prop.manifest.gen \in Nat
        BY <4>1, JobParts, ManifestParts
      <4> QED
        BY <4>1, <4>2 DEF JobHist
    <3> QED
      BY <2>1, <2>2, <2>3, <3>1, <3>2, <3>3, AdoptHist
  <2>4. CASE current # r.base
    <3>1. current' = current /\ accepted' = accepted
      BY <2>1, <2>4 DEF Land
    <3>2. DrawnIDs' = DrawnIDs
      BY <2>2 DEF DrawnIDs
    <3>3. \A v \in Writers : JobHist(job[v], baseline[v], current, accepted, writes')
      BY <2>1, HistParts DEF JobHist
    <3> QED
      BY <2>1, <2>2, <3>1, <3>2, <3>3 DEF HistInv
  <2> QED
    BY <2>3, <2>4
<1>2. CASE LateDelete
  <2>1. UNCHANGED <<current, writes, baseline, seq, job, accepted>>
    BY <1>2 DEF LateDelete
  <2>2. DrawnIDs' = DrawnIDs
    BY <2>1 DEF DrawnIDs
  <2> QED
    BY <2>1, <2>2 DEF HistInv
<1> QED
  BY <1>1, <1>2

-----------------------------------------------------------------------------
(* The invariant.                                                           *)

\* It holds in the empty store.
LEMMA HistInit == Init => HistInv
<1> SUFFICES ASSUME Init PROVE HistInv
  OBVIOUS
<1>1. AcceptedIn(accepted) = {} /\ accepted = <<>> /\ writes = {}
  BY DEF Init, AcceptedIn
<1>2. /\ current = EmptyManifest /\ ~Present(current) /\ Publications(current) = {}
      /\ current.gen = 0
  BY EmptyFacts DEF Init, Present
<1>3. StoreHist(current, accepted, DrawnIDs)
  BY <1>1, <1>2 DEF StoreHist, Once
<1>4. \A w \in Writers : BaselineHist(baseline[w], current, accepted)
  BY <1>2 DEF Init, BaselineHist
<1>5. \A w \in Writers : JobHist(job[w], baseline[w], current, accepted, writes)
  <2>1. Idle.pc = "idle" /\ Idle.obs = EmptyManifest
    BY DEF Idle
  <2>2. \A w \in Writers : job[w] = Idle
    BY DEF Init
  <2> QED
    BY <1>2, <2>1, <2>2 DEF JobHist, Proposing, Doubtful
<1> QED
  BY <1>1, <1>3, <1>4, <1>5 DEF HistInv

\* Every step preserves it.
LEMMA HistStep == Inv /\ HistInv /\ [Next]_vars => HistInv'
<1> SUFFICES ASSUME Inv, HistInv, [Next]_vars PROVE HistInv'
  OBVIOUS
<1>1. TypeInv'
  BY TypeStep DEF Inv
<1>2. CASE UNCHANGED vars
  <2>1. DrawnIDs' = DrawnIDs
    BY <1>2 DEF vars, DrawnIDs
  <2> QED
    BY <1>2, <2>1 DEF vars, HistInv
<1>3. CASE LateWrite \/ LateDelete
  BY <1>1, <1>3, HistLate
<1>4. ASSUME NEW w \in Writers,
             StartPull(w) \/ StartCommit(w) \/ StartRecovery(w) \/ Work(w)
      PROVE  HistInv'
  <2>1. CASE StartPull(w) \/ StartCommit(w) \/ StartRecovery(w) \/ Abandon(w) \/ Cleanup(w)
    BY <1>1, <2>1, HistQuiet
  <2>2. CASE Read(w)
    BY <1>1, <2>2, HistQuiet, HistReading, HistRecord DEF Read
  <2>3. CASE Commit(w)
    BY <1>1, <2>3, HistQuiet, HistRecord, HistPropose, HistPublish DEF Commit
  <2>4. CASE CheckpointEffort(w)
    BY <1>1, <2>4, HistQuiet, HistCheckpoint DEF CheckpointEffort
  <2> QED
    BY <1>4, <2>1, <2>2, <2>3, <2>4 DEF Work
<1> QED
  BY <1>2, <1>3, <1>4 DEF Next

\* The inductive invariant the history properties rest on.
THEOREM HistoryInvariant == Spec => []HistInv
BY PackInit, PackStep, HistInit, HistStep, PTL DEF Spec

\* The baseline a workspace records is an accepted state and never ahead of
\* current, so CheckManifestRollback refuses nothing on a healthy store.
THEOREM BaselinesAccepted == Spec => []BaselineAccepted
<1>1. HistInv => BaselineAccepted
  BY DEF HistInv, BaselineHist, BaselineAccepted, Heads, AcceptedIn
<1> QED
  BY HistoryInvariant, <1>1, PTL

\* A commit that reports OK was accepted, also when the response of its
\* conditional write was lost and lookupPublication had to find it.
THEOREM CommitsAccepted == Spec => []OKMeansAccepted
<1>1. HistInv => OKMeansAccepted
  BY DEF HistInv, JobHist, Doubtful, OKMeansAccepted, Heads, AcceptedIn
<1> QED
  BY HistoryInvariant, <1>1, PTL

\* No rewrite of current loses, doubles or reorders an accepted publication.
THEOREM ChainKept == Spec => []ChainIsHistory
<1>1. Inv /\ HistInv => ChainIsHistory
  <2> SUFFICES ASSUME Inv, HistInv, Present(current) PROVE ChainIsHistory
    BY DEF ChainIsHistory
  <2> DEFINE n == Len(accepted)
  <2>1. /\ EndsIn(current, accepted) /\ Once(accepted) /\ accepted \in Seq(ID)
    BY HistParts DEF StoreHist
  <2>2. n \in Nat /\ DOMAIN accepted = 1 .. n /\ accepted \in [1 .. n -> ID]
    BY <2>1, ElementType, LenProperties
  <2>3. Heads = {accepted[i] : i \in 1 .. n}
    BY <2>2 DEF Heads
  <2> HIDE DEF n
  <2>4. accepted \in Bijection(1 .. n, Heads)
    <3>1. accepted \in [1 .. n -> Heads]
      BY <2>2, <2>3
    <3>2. \A a, b \in 1 .. n : accepted[a] = accepted[b] => a = b
      BY <2>1, <2>2 DEF Once
    <3>3. \A t \in Heads : \E s \in 1 .. n : accepted[s] = t
      BY <2>3
    <3> QED
      BY <3>1, <3>2, <3>3 DEF Bijection, Injection, Surjection, IsInjective
  <2>5. IsFiniteSet(1 .. n) /\ Cardinality(1 .. n) = n
    BY <2>2, FS_Interval
  <2>6. Cardinality(Heads) = n
    BY <2>4, <2>5, FS_Bijection DEF ExistsBijection
  <2> QED
    BY <2>1, <2>6 DEF EndsIn, ChainIsHistory, n
<1> QED
  BY PackInit, PackStep, HistInit, HistStep, <1>1, PTL DEF Spec

\* Where the store answers each conditional write itself, a proposal reported
\* lost or refused is not accepted, so rebuilding it cannot publish it twice.
THEOREM LostProposals == ~SDKRetries => (Spec => LostMeansAnotherWon)
<1> SUFFICES ASSUME ~SDKRetries PROVE Spec => LostMeansAnotherWon
  OBVIOUS
<1> DEFINE Lost == \A w \in Writers :
       (PublishLost(w) \/ PublishRefused(w) \/ PublishResent(w)) =>
         \A i \in DOMAIN accepted' : accepted'[i] # job[w].prop.pub
<1>1. HistInv /\ [Next]_vars => [Lost]_vars
  <2> SUFFICES ASSUME HistInv, NEW w \in Writers,
                      PublishLost(w) \/ PublishRefused(w) \/ PublishResent(w)
               PROVE  \A i \in DOMAIN accepted' : accepted'[i] # job[w].prop.pub
    OBVIOUS
  <2>1. PublishLost(w) \/ PublishRefused(w)
    BY DEF PublishResent
  <2>2. accepted' = accepted /\ job[w].pc = "cas"
    BY <2>1 DEF PublishLost, PublishRefused, Publishing
  <2>3. job[w].prop.pub \notin AcceptedIn(accepted)
    BY <2>2 DEF HistInv, JobHist, Proposing
  <2> QED
    BY <2>2, <2>3 DEF AcceptedIn
<1> QED
  BY <1>1, HistoryInvariant, PTL DEF Spec, LostMeansAnotherWon

-----------------------------------------------------------------------------
(* The writers implement the log of NotebookLog.                            *)

\* In a history without repetition a head stands in one place.
LEMMA PlaceFacts ==
  ASSUME NEW acc \in Seq(ID), Once(acc), NEW h \in AcceptedIn(acc) \cup {NoID}
  PROVE  /\ Place(acc, h) \in Nat
         /\ h = NoID => Place(acc, h) = 0
         /\ h # NoID => Place(acc, h) \in DOMAIN acc /\ acc[Place(acc, h)] = h
         /\ \A i \in DOMAIN acc : acc[i] = h => i = Place(acc, h)
<1>1. DOMAIN acc = 1 .. Len(acc) /\ Len(acc) \in Nat
  BY ElementType
<1>2. CASE h = NoID
  BY <1>2 DEF Place, Once, AcceptedIn
<1>3. CASE h # NoID
  <2>1. \E i \in DOMAIN acc : acc[i] = h
    BY <1>3 DEF AcceptedIn
  <2>2. Place(acc, h) \in DOMAIN acc /\ acc[Place(acc, h)] = h
    BY <1>3, <2>1 DEF Place
  <2> QED
    BY <1>1, <1>3, <2>2 DEF Once
<1> QED
  BY <1>2, <1>3

\* The place of a head does not move when the history grows.
LEMMA PlaceKept ==
  ASSUME NEW acc \in Seq(ID), NEW h \in ID, Once(acc), Once(Append(acc, h)),
         NEW g \in AcceptedIn(acc) \cup {NoID}
  PROVE  Place(Append(acc, h), g) = Place(acc, g)
<1> DEFINE a == Append(acc, h)
<1>1. /\ a \in Seq(ID) /\ AcceptedIn(a) = AcceptedIn(acc) \cup {h}
      /\ DOMAIN acc = 1 .. Len(acc) /\ DOMAIN a = 1 .. Len(acc) + 1 /\ Len(acc) \in Nat
      /\ \A i \in 1 .. Len(acc) : a[i] = acc[i]
  BY Grown
<1>2. /\ g # NoID => Place(acc, g) \in DOMAIN acc /\ acc[Place(acc, g)] = g
      /\ g = NoID => Place(acc, g) = 0
  BY PlaceFacts
<1> HIDE DEF a
<1>3. CASE g = NoID
  BY <1>2, <1>3 DEF Place, a
<1>4. CASE g # NoID
  <2>1. Place(acc, g) \in DOMAIN a /\ a[Place(acc, g)] = g
    BY <1>1, <1>2, <1>4
  <2>2. \A i \in DOMAIN a : a[i] = g => i = Place(a, g)
    BY <1>1, PlaceFacts DEF a
  <2> QED
    BY <2>1, <2>2 DEF a
<1> QED
  BY <1>3, <1>4

\* The order of two heads is that of their places.
LEMMA PlaceOrder ==
  ASSUME NEW acc \in Seq(ID), Once(acc), NEW f \in AcceptedIn(acc) \cup {NoID},
         NEW g \in AcceptedIn(acc) \cup {NoID}, Upto(acc, f, g)
  PROVE  /\ Place(acc, f) <= Place(acc, g)
         /\ f # g => Place(acc, f) < Place(acc, g)
<1>1. /\ DOMAIN acc = 1 .. Len(acc) /\ Len(acc) \in Nat
      /\ Place(acc, f) \in Nat /\ Place(acc, g) \in Nat
  BY ElementType, PlaceFacts
<1>2. CASE f = NoID
  <2>1. Place(acc, f) = 0 /\ (g # NoID => Place(acc, g) \in 1 .. Len(acc))
    BY <1>1, <1>2, PlaceFacts
  <2> QED
    BY <1>1, <1>2, <2>1
<1>3. CASE f # NoID
  <2>1. PICK i, k \in DOMAIN acc : i <= k /\ acc[i] = f /\ acc[k] = g
    BY <1>3 DEF Upto
  <2>2. i = Place(acc, f) /\ k = Place(acc, g)
    BY <2>1, PlaceFacts
  <2> QED
    BY <1>1, <2>1, <2>2
<1> QED
  BY <1>2, <1>3

\* A publication enters the log.
LEMMA LogGrows ==
  ASSUME Inv, HistInv, HistInv', NEW h \in ID, accepted' = Append(accepted, h),
         h \notin AcceptedIn(accepted), baseline' = baseline,
         \/ Owed' = Owed
         \/ \E w \in Writers : Owed[w] = NoID /\ Owed' = [Owed EXCEPT ![w] = h]
  PROVE  Abstract!Next
<1>1. accepted \in Seq(ID) /\ Once(accepted) /\ Once(accepted')
  BY HistParts DEF HistInv, StoreHist
<1>2. Seen' = Seen
  <2>1. \A w \in Writers : baseline[w].head \in AcceptedIn(accepted) \cup {NoID}
    BY HistParts DEF BaselineHist
  <2>2. \A w \in Writers :
          Place(accepted', baseline[w].head) = Place(accepted, baseline[w].head)
    BY <1>1, <2>1, PlaceKept
  <2> QED
    BY <2>2 DEF Seen
<1>3. Len(accepted) + 1 \in DOMAIN accepted' /\ accepted'[Len(accepted) + 1] = h
  BY <1>1, Grown
<1>4. \A i \in DOMAIN accepted : accepted[i] # h
  BY DEF AcceptedIn
<1>5. Abstract!Publish(h)
  BY <1>2, <1>4 DEF Abstract!Publish, Abstract!Owe
<1> QED
  BY <1>3, <1>5 DEF Abstract!Next

\* Nothing of the log moves; what the writer was owed it may forget.
LEMMA LogForgets ==
  ASSUME NEW w \in Writers, accepted' = accepted, baseline' = baseline,
         \A v \in Writers \ {w} : job'[v] = job[v], job'[w].pc # "accept"
  PROVE  Abstract!Next
<1>1. Seen' = Seen
  BY DEF Seen
<1>2. Owed' = [Owed EXCEPT ![w] = NoID]
  BY DEF Owed
<1> QED
  BY <1>1, <1>2 DEF Abstract!Next, Abstract!Forget

\* A step that ends elsewhere than at the acceptance of the writer's proposal.
LEMMA LogQuiet ==
  ASSUME Inv, NEW w \in Writers,
         \/ StartPull(w) \/ StartCommit(w) \/ StartRecovery(w) \/ EngineFails(w)
         \/ LocalFails(w) \/ RecoverFails(w) \/ Abandon(w) \/ RereadCurrent(w)
         \/ CheckpointPlan(w) \/ CheckpointUpload(w) \/ CheckpointLost(w)
         \/ CheckpointLookup(w) \/ Cleanup(w) \/ PublishLost(w) \/ PublishRefused(w)
         \/ ReadCurrent(w) \/ LoadPacks(w)
         \/ BuildProposal(w) \/ CompactOnQuota(w) \/ UploadPack(w)
  PROVE  Abstract!Next
<1> DEFINE j == job[w]
<1>1. TypeInv /\ j \in Jobs
  BY WriterOK
<1>2. accepted' = accepted /\ baseline' = baseline
  BY DEF StartPull, StartCommit, StartRecovery, EngineFails, LocalFails, RecoverFails,
         Abandon, RereadCurrent, CheckpointPlan, CheckpointUpload, CheckpointLost,
         CheckpointLookup, Cleanup, CleanupList, CleanupRoots, CleanupDelete, PublishLost,
         PublishRefused, ReadCurrent, LoadPacks, BuildProposal, CompactOnQuota, UploadPack
<1>3. job'[w].pc # "accept" /\ \A v \in Writers \ {w} : job'[v] = job[v]
  <2>1. CASE ReadCurrent(w) \/ LoadPacks(w)
    <3>1. AfterRead(j.op) \in {"merge", "cpplan", "apply"}
      BY <1>1, JobStates
    <3>2. FailedRead(j).pc # "accept"
      BY <1>1, RestingStates DEF Resting
    <3>3. ASSUME NEW p \in {"merge", "cpplan", "apply", "load", "reread"}
          PROVE  /\ [j EXCEPT !.pc = p].pc # "accept"
                 /\ [j EXCEPT !.obs = current, !.pc = p].pc # "accept"
      BY <1>1 DEF Jobs
    <3>4. CASE ReadCurrent(w)
      <4>1. \/ Become(w, [j EXCEPT !.obs = current, !.pc = AfterRead(j.op)])
            \/ Become(w, FailedRead(j))
            \/ Become(w, [j EXCEPT !.obs = current, !.pc = "load"])
        BY <3>4 DEF ReadCurrent
      <4>2. \E k : Become(w, k) /\ k.pc # "accept"
        BY <3>1, <3>2, <3>3, <4>1
      <4> QED
        BY <1>1, <4>2, Replaced
    <3>5. CASE LoadPacks(w)
      <4> DEFINE specs == ImportSpecs(j.obs)
      <4>1. PICK all :
              LET got == {i \in DOMAIN specs :
                            \A k \in 1 .. i : Available(w, specs[k], all)} IN
              Become(w, [j EXCEPT !.pc = IF got = DOMAIN specs THEN AfterRead(j.op)
                                         ELSE "reread"])
        BY <3>5, Zenon DEF LoadPacks
      <4> DEFINE got == {i \in DOMAIN specs : \A k \in 1 .. i : Available(w, specs[k], all)}
                 p   == IF got = DOMAIN specs THEN AfterRead(j.op) ELSE "reread"
      <4>2. Become(w, [j EXCEPT !.pc = p])
        BY <4>1
      <4>3. p \in {"merge", "cpplan", "apply", "load", "reread"}
        BY <3>1
      <4> HIDE DEF p
      <4>4. [j EXCEPT !.pc = p].pc # "accept"
        BY <3>3, <4>3
      <4> QED
        BY <1>1, <4>2, <4>4, Replaced
    <3> QED
      BY <2>1, <3>4, <3>5
  <2>2. CASE BuildProposal(w) \/ CompactOnQuota(w) \/ UploadPack(w)
    <3>1. ASSUME NEW p PROVE /\ [j EXCEPT !.prop = p, !.pc = "upload"].pc # "accept"
                             /\ [j EXCEPT !.prop = p].pc = j.pc
      BY <1>1 DEF Jobs
    <3>2. [j EXCEPT !.pc = "cas"].pc # "accept" /\ Idle.pc # "accept"
      BY <1>1 DEF Jobs, Idle
    <3>3. \E k : Become(w, k) /\ k.pc # "accept"
      <4>1. CASE BuildProposal(w)
        <5>1. \E p : Become(w, [j EXCEPT !.prop = p, !.pc = "upload"])
          BY <4>1, Zenon DEF BuildProposal
        <5> QED
          BY <3>1, <5>1
      <4>2. CASE CompactOnQuota(w)
        <5>1. j.pc = "upload" /\ \E p : Become(w, [j EXCEPT !.prop = p])
          BY <4>2, Zenon DEF CompactOnQuota
        <5> QED
          BY <3>1, <5>1
      <4>3. CASE UploadPack(w)
        BY <3>2, <4>3 DEF UploadPack
      <4> QED
        BY <2>2, <4>1, <4>2, <4>3
    <3> QED
      BY <1>1, <3>3, Replaced
  <2>3. CASE ~(\/ ReadCurrent(w) \/ LoadPacks(w)
               \/ BuildProposal(w) \/ CompactOnQuota(w) \/ UploadPack(w))
    BY <1>1, <2>3, RestingAfter DEF Resting
  <2> QED
    BY <2>1, <2>2, <2>3
<1> QED
  BY <1>2, <1>3, LogForgets

\* A workspace catches up with what it has observed.
LEMMA LogCatchesUp ==
  ASSUME Inv, HistInv, NEW w \in Writers, ApplyRemote(w) \/ MergeToRemote(w)
  PROVE  Abstract!Next \/ UNCHANGED <<accepted, Seen, Owed>>
<1> DEFINE j == job[w]
           g == j.obs.head
           f == baseline[w].head
<1>1. /\ TypeInv /\ j \in Jobs /\ accepted \in Seq(ID) /\ Once(accepted)
      /\ JobHist(j, baseline[w], current, accepted, writes) /\ Chained(j.obs)
      /\ f \in AcceptedIn(accepted) \cup {NoID}
      /\ baseline \in [Writers -> [gen : Nat, head : ID]]
  BY HistParts, WriterOK DEF StoreHist, BaselineHist, ProposalOK, TypeInv, TypeOK
<1>2. /\ j.pc \in {"merge", "apply"} /\ accepted' = accepted
      /\ baseline' = [baseline EXCEPT ![w] = [gen |-> j.obs.gen, head |-> g]]
  BY DEF ApplyRemote, MergeToRemote, SetBaseline
<1>3. job'[w].pc # "accept" /\ \A v \in Writers \ {w} : job'[v] = job[v]
  BY <1>1, RestingAfter DEF Resting
<1>4. Owed' = Owed /\ Owed[w] = NoID
  BY <1>2, <1>3 DEF Owed
<1>5. g \in AcceptedIn(accepted) \cup {NoID} /\ Upto(accepted, f, g)
  BY <1>1, <1>2 DEF JobHist, Chained, EmptyManifest
<1>6. Seen' = [Seen EXCEPT ![w] = Place(accepted, g)]
  BY <1>1, <1>2 DEF Seen
<1>7. Seen[w] = Place(accepted, f)
  BY DEF Seen
<1> HIDE DEF f, g, j
<1>8. /\ Place(accepted, f) \in Nat /\ Place(accepted, g) \in Nat
      /\ Place(accepted, f) <= Place(accepted, g) /\ Place(accepted, g) <= Len(accepted)
      /\ Len(accepted) \in Nat
  <2>1. Len(accepted) \in Nat /\ DOMAIN accepted = 1 .. Len(accepted)
    BY <1>1, ElementType
  <2>2. /\ Place(accepted, g) \in Nat
        /\ g = NoID => Place(accepted, g) = 0
        /\ g # NoID => Place(accepted, g) \in DOMAIN accepted
    BY <1>1, <1>5, PlaceFacts
  <2> QED
    BY <1>1, <1>5, <2>1, <2>2, PlaceFacts, PlaceOrder
<1>9. CASE Place(accepted, g) = Place(accepted, f)
  BY <1>2, <1>4, <1>6, <1>7, <1>9 DEF Seen
<1>10. CASE Place(accepted, g) > Place(accepted, f)
  <2>1. Place(accepted, g) \in Seen[w] + 1 .. Len(accepted)
    BY <1>7, <1>8, <1>10
  <2>2. Abstract!CatchUp(w)
    BY <1>2, <1>4, <1>6, <2>1 DEF Abstract!CatchUp
  <2> QED
    BY <2>2 DEF Abstract!Next
<1> QED
  BY <1>8, <1>9, <1>10

\* A writer records the publication it learnt was accepted.
LEMMA LogRecords ==
  ASSUME Inv, HistInv, NEW w \in Writers, Accept(w)
  PROVE  Abstract!Next
<1> DEFINE j == job[w]
           g == j.prop.pub
           f == baseline[w].head
<1>1. /\ TypeInv /\ j \in Jobs /\ accepted \in Seq(ID) /\ Once(accepted)
      /\ JobHist(j, baseline[w], current, accepted, writes)
      /\ f \in AcceptedIn(accepted) \cup {NoID}
      /\ baseline \in [Writers -> [gen : Nat, head : ID]]
  BY HistParts DEF StoreHist, BaselineHist, TypeInv, TypeOK
<1>2. /\ j.pc = "accept" /\ accepted' = accepted
      /\ SetBaseline(w, j.prop.manifest)
  BY DEF Accept
<1>3. job'[w].pc # "accept" /\ \A v \in Writers \ {w} : job'[v] = job[v]
  BY <1>1, RestingAfter DEF Resting
<1>4. Owed' = [Owed EXCEPT ![w] = NoID] /\ Owed[w] = g
  BY <1>2, <1>3 DEF Owed
<1>5. /\ j.prop.manifest.head = g /\ g \in AcceptedIn(accepted)
      /\ Upto(accepted, f, g) /\ f # g
  BY <1>1, <1>2 DEF JobHist, Doubtful
<1>6. Seen' = [Seen EXCEPT ![w] = Place(accepted, g)]
  BY <1>1, <1>2, <1>5 DEF Seen, SetBaseline
<1>7. Seen[w] = Place(accepted, f)
  BY DEF Seen
<1> HIDE DEF f, g, j
<1>8. /\ Place(accepted, f) \in Nat /\ Place(accepted, f) < Place(accepted, g)
      /\ Place(accepted, g) \in 1 .. Len(accepted) /\ accepted[Place(accepted, g)] = g
  <2>1. Len(accepted) \in Nat /\ DOMAIN accepted = 1 .. Len(accepted)
    BY <1>1, ElementType
  <2>2. g # NoID
    BY <1>1, <1>5 DEF Once
  <2> QED
    BY <1>1, <1>5, <2>1, <2>2, PlaceFacts, PlaceOrder
<1>9. Place(accepted, g) \in Seen[w] + 1 .. Len(accepted)
  BY <1>7, <1>8
<1>10. Abstract!Record(w)
  BY <1>2, <1>4, <1>6, <1>8, <1>9 DEF Abstract!Record
<1> QED
  BY <1>10 DEF Abstract!Next

\* The history after the store adopts what a request carries.
LEMMA AdoptGrows ==
  ASSUME Inv, HistInv, NEW r \in Requests, current = r.base, Adopt(r.next),
         RequestHist(r, accepted, DrawnIDs)
  PROVE  \/ accepted' = accepted
         \/ /\ accepted' = Append(accepted, r.next.head) /\ r.next.head \in ID
            /\ r.next.head \notin AcceptedIn(accepted)
<1>1. r.next.head \in ID
  BY ManifestParts DEF Requests
<1> QED
  BY <1>1 DEF Adopt, RequestHist, Keeps

\* Publishing, looking up a publication, checkpointing, and late requests.
LEMMA LogPublishes ==
  ASSUME Inv, HistInv, HistInv', NEW w \in Writers,
         \/ PublishAccepted(w) \/ PublishResent(w) \/ PublishUnanswered(w)
         \/ LookupPublication(w) \/ CheckpointAccepted(w) \/ CheckpointResent(w)
         \/ CheckpointUnanswered(w)
  PROVE  Abstract!Next
<1> DEFINE j == job[w]
           r == [by |-> w, key |-> j.prop.key, base |-> j.obs, next |-> j.prop.manifest]
           c == [by |-> w, key |-> j.cp, base |-> j.obs, next |-> CheckpointNext(w)]
<1>1. /\ TypeInv /\ j \in Jobs
      /\ JobHist(j, baseline[w], current, accepted, writes)
      /\ StoreHist(current, accepted, DrawnIDs)
  BY HistParts
<1>2. baseline' = baseline
  BY DEF PublishAccepted, PublishResent, PublishUnanswered, LookupPublication,
         CheckpointAccepted, CheckpointResent, CheckpointUnanswered
<1>3. j.pc = "cas" =>
        /\ r \in Requests /\ RequestHist(r, accepted, DrawnIDs)
        /\ r.next.head = j.prop.pub
        /\ j.prop.pub \notin AcceptedIn(accepted) \cup {NoID}
  BY CommitRequest
<1>4. j.pc = "cpcas" =>
        /\ c \in Requests /\ RequestHist(c, accepted, DrawnIDs)
  BY CheckpointHist
<1>5. r.base = j.obs /\ r.next = j.prop.manifest /\ c.base = j.obs /\ c.next = CheckpointNext(w)
  OBVIOUS
<1> HIDE DEF r, c
<1>6. ASSUME NEW q \in Requests, current = q.base, Adopt(q.next),
             RequestHist(q, accepted, DrawnIDs), NEW k, Become(w, k), k.pc # "accept",
             j.pc # "accept"
      PROVE  Abstract!Next
  <2>1. job'[w] = k /\ \A v \in Writers : v # w => job'[v] = job[v]
    BY <1>1, <1>6, Replaced
  <2>2. Owed' = Owed
    BY <1>6, <2>1 DEF Owed
  <2>3. CASE accepted' = accepted
    BY <1>2, <1>6, <2>1, <2>3, LogForgets
  <2>4. CASE /\ accepted' = Append(accepted, q.next.head) /\ q.next.head \in ID
             /\ q.next.head \notin AcceptedIn(accepted)
    BY <1>2, <2>2, <2>4, LogGrows
  <2> QED
    BY <1>6, <2>3, <2>4, AdoptGrows
<1>7. CASE PublishAccepted(w)
  <2> DEFINE k == Spent(j, "accept")
  <2>1. /\ j.pc = "cas" /\ Become(w, k) /\ current = j.obs /\ Adopt(j.prop.manifest)
    BY <1>7 DEF PublishAccepted, Publishing
  <2>2. k.pc = "accept" /\ k.prop = j.prop
    BY <1>1 DEF Spent, Jobs
  <2> HIDE DEF k
  <2>3. job'[w] = k /\ \A v \in Writers : v # w => job'[v] = job[v]
    BY <1>1, <2>1, Replaced
  <2>4. Owed[w] = NoID /\ Owed' = [Owed EXCEPT ![w] = j.prop.pub]
    BY <2>1, <2>2, <2>3 DEF Owed
  <2>5. accepted' = Append(accepted, j.prop.pub) /\ j.prop.pub \in ID
    <3>1. j.prop.pub # current.head
      <4>1. /\ current \in Manifest_ /\ Chained(current) /\ accepted \in Seq(ID)
        BY HistParts
      <4> QED
        BY <1>1, <1>3, <2>1, <4>1, HeadAccepted
    <3> QED
      BY <1>1, <1>3, <1>5, <2>1, <3>1, JobParts DEF Adopt
  <2> QED
    BY <1>2, <1>3, <2>1, <2>4, <2>5, LogGrows
<1>8. CASE PublishResent(w)
  <2>1. /\ j.pc = "cas" /\ Become(w, RetryPublication(j)) /\ current = r.base /\ Adopt(r.next)
    BY <1>5, <1>8 DEF PublishResent, Publishing
  <2>2. RetryPublication(j).pc # "accept"
    BY <1>1, RestingStates DEF Resting
  <2> QED
    BY <1>3, <1>6, <2>1, <2>2
<1>9. CASE PublishUnanswered(w)
  <2> DEFINE k == Spent(j, "lookup")
  <2>1. /\ j.pc = "cas" /\ Become(w, k)
        /\ \/ current = r.base /\ Adopt(r.next)
           \/ accepted' = accepted
    BY <1>5, <1>9 DEF PublishUnanswered, Publishing, LoseResponse, Land
  <2>2. k.pc = "lookup"
    BY <1>1 DEF Spent, Jobs
  <2> HIDE DEF k
  <2>3. job'[w] = k /\ \A v \in Writers : v # w => job'[v] = job[v]
    BY <1>1, <2>1, Replaced
  <2>4. CASE current = r.base /\ Adopt(r.next)
    BY <1>3, <1>6, <2>1, <2>2, <2>4
  <2>5. CASE accepted' = accepted
    BY <1>2, <2>2, <2>3, <2>5, LogForgets
  <2> QED
    BY <2>1, <2>4, <2>5
<1>10. CASE LookupPublication(w)
  <2> DEFINE k == [j EXCEPT !.pc = "accept"]
  <2>1. /\ j.pc = "lookup" /\ accepted' = accepted
        /\ \/ Become(w, Idle)
           \/ j.prop.pub \in Publications(current) /\ Become(w, k)
    BY <1>10 DEF LookupPublication, Proved, PublicationIn
  <2>2. k.pc = "accept" /\ k.prop = j.prop /\ Idle.pc # "accept"
    BY <1>1 DEF Jobs, Idle
  <2> HIDE DEF k
  <2>3. CASE Become(w, Idle)
    <3>1. job'[w] = Idle /\ \A v \in Writers : v # w => job'[v] = job[v]
      BY <1>1, <2>3, Replaced
    <3> QED
      BY <1>2, <2>1, <2>2, <3>1, LogForgets
  <2>4. CASE j.prop.pub \in Publications(current) /\ Become(w, k)
    <3>1. job'[w] = k /\ \A v \in Writers : v # w => job'[v] = job[v]
      BY <1>1, <2>4, Replaced
    <3>2. Owed[w] = NoID /\ Owed' = [Owed EXCEPT ![w] = j.prop.pub] /\ Seen' = Seen
      BY <1>2, <2>1, <2>2, <3>1 DEF Owed, Seen
    <3>3. \E i \in DOMAIN accepted : accepted[i] = j.prop.pub
      BY <1>1, <2>4 DEF StoreHist, AcceptedIn
    <3>4. Abstract!Learn(w)
      BY <2>1, <3>2, <3>3 DEF Abstract!Learn, Abstract!Owe
    <3> QED
      BY <3>4 DEF Abstract!Next
  <2> QED
    BY <2>1, <2>3, <2>4
<1>11. CASE CheckpointAccepted(w) \/ CheckpointResent(w) \/ CheckpointUnanswered(w)
  <2>1. job'[w].pc # "accept" /\ \A v \in Writers \ {w} : job'[v] = job[v]
    BY <1>1, <1>11, RestingAfter DEF Resting
  <2>2. /\ j.pc = "cpcas" /\ \E k : Become(w, k)
        /\ \/ current = c.base /\ Adopt(c.next)
           \/ accepted' = accepted
    BY <1>5, <1>11 DEF CheckpointAccepted, CheckpointResent, CheckpointUnanswered, Compacting,
                       LoseResponse, Land
  <2>3. PICK k : Become(w, k) /\ k.pc # "accept"
    BY <1>1, <2>1, <2>2, Replaced
  <2>4. CASE current = c.base /\ Adopt(c.next)
    BY <1>4, <1>6, <2>2, <2>3, <2>4
  <2>5. CASE accepted' = accepted
    BY <1>2, <2>1, <2>5, LogForgets
  <2> QED
    BY <2>2, <2>4, <2>5
<1> QED
  BY <1>7, <1>8, <1>9, <1>10, <1>11

\* A late write publishes one head or nothing; a late delete nothing.
LEMMA LogLate ==
  ASSUME Inv, HistInv, HistInv', LateWrite \/ LateDelete
  PROVE  Abstract!Next \/ UNCHANGED <<accepted, Seen, Owed>>
<1>1. baseline' = baseline /\ job' = job
  BY DEF LateWrite, LateDelete
<1>2. Owed' = Owed
  BY <1>1 DEF Owed
<1>3. CASE accepted' = accepted
  BY <1>1, <1>2, <1>3 DEF Seen
<1>4. CASE LateWrite
  <2>1. PICK r \in writes : Land(r.base, r.next)
    BY <1>4 DEF LateWrite
  <2>2. r \in Requests /\ RequestHist(r, accepted, DrawnIDs)
    BY HistParts
  <2>3. CASE current = r.base
    <3>1. Adopt(r.next)
      BY <2>1, <2>3 DEF Land
    <3> QED
      BY <1>1, <1>2, <1>3, <2>2, <2>3, <3>1, AdoptGrows, LogGrows
  <2>4. CASE current # r.base
    BY <1>3, <2>1, <2>4 DEF Land
  <2> QED
    BY <2>3, <2>4
<1> QED
  BY <1>3, <1>4 DEF LateDelete

\* Every step of the writers is a step of the log or leaves it alone.
LEMMA LogStep ==
  ASSUME Inv, HistInv, HistInv', [Next]_vars
  PROVE  Abstract!Next \/ UNCHANGED <<accepted, Seen, Owed>>
<1>1. CASE UNCHANGED vars
  BY <1>1 DEF vars, Seen, Owed
<1>2. CASE LateWrite \/ LateDelete
  BY <1>2, LogLate
<1>3. ASSUME NEW w \in Writers,
             StartPull(w) \/ StartCommit(w) \/ StartRecovery(w) \/ Work(w)
      PROVE  Abstract!Next \/ UNCHANGED <<accepted, Seen, Owed>>
  <2>1. CASE StartPull(w) \/ StartCommit(w) \/ StartRecovery(w) \/ Abandon(w) \/ Cleanup(w)
    BY <2>1, LogQuiet
  <2>2. CASE Read(w)
    BY <2>2, LogQuiet, LogCatchesUp DEF Read
  <2>3. CASE Commit(w)
    BY <2>3, LogQuiet, LogCatchesUp, LogRecords, LogPublishes DEF Commit
  <2>4. CASE CheckpointEffort(w)
    BY <2>4, LogQuiet, LogPublishes DEF CheckpointEffort
  <2> QED
    BY <1>3, <2>1, <2>2, <2>3, <2>4 DEF Work
<1> QED
  BY <1>1, <1>2, <1>3 DEF Next

\* The writers together implement the log: each accepted head is one
\* publication, made once; a commit records exactly the publication it learnt
\* was accepted; a recorded baseline only moves forward.
THEOREM LogImplemented == Spec => ImplementsLog
<1>1. Init => Abstract!Init
  <2> SUFFICES ASSUME Init PROVE Abstract!Init
    OBVIOUS
  <2>1. Seen = [w \in Writers |-> 0]
    BY DEF Init, Seen, Place
  <2>2. Owed = [w \in Writers |-> NoID]
    BY DEF Init, Owed, Idle
  <2> QED
    BY <2>1, <2>2 DEF Init, Abstract!Init
<1>2. Inv /\ HistInv /\ HistInv' /\ [Next]_vars => [Abstract!Next]_<<accepted, Seen, Owed>>
  BY LogStep
<1> QED
  BY PackInit, PackStep, HistInit, HistStep, <1>1, <1>2, PTL
     DEF Spec, ImplementsLog, Abstract!Spec

-----------------------------------------------------------------------------
(* Every manifest a writer builds is one EncodeManifest accepts.            *)

\* A chain of a manifest has its types (ChainAt).
LEMMA ChainParts ==
  ASSUME NEW m \in Manifest_, NEW c \in 0 .. Len(m.retained)
  PROVE  LET s == ChainAt(m, c).increments IN
         /\ s \in Seq(Increments(ID, Nat)) /\ Len(s) \in Nat /\ DOMAIN s = 1 .. Len(s)
         /\ ChainAt(m, c).checkpoint \in Checkpoints(ID, Nat)
<1>1. CASE c = 0
  BY <1>1, ManifestParts DEF ChainAt
<1>2. CASE c # 0
  <2>1. m.retained[c] \in Retireds(ID, Nat)
    BY <1>2, ManifestParts
  <2>2. /\ m.retained[c].increments \in Seq(Increments(ID, Nat))
        /\ m.retained[c].checkpoint \in Checkpoints(ID, Nat)
    BY <2>1 DEF Retireds
  <2> QED BY <1>2, <2>2, ElementType DEF ChainAt
<1> QED BY <1>1, <1>2

\* Where a chain ends (FinalGen).
LEMMA FinalOfChain ==
  ASSUME NEW m \in Manifest_, CheckChain(m)
  PROVE  FinalGen(m) = m.checkpoint.through + Len(m.increments)
<1>1. /\ m.increments \in Seq(Increments(ID, Nat)) /\ Len(m.increments) \in Nat
      /\ DOMAIN m.increments = 1 .. Len(m.increments) /\ m.checkpoint.through \in Nat
  BY ManifestParts
<1>2. m.increments = <<>> <=> Len(m.increments) = 0
  BY <1>1, EmptySeq, ElementType
<1>3. CASE Len(m.increments) = 0
  BY <1>1, <1>2, <1>3 DEF FinalGen
<1>4. CASE Len(m.increments) # 0
  <2>1. Len(m.increments) \in DOMAIN m.increments
    BY <1>1, <1>4
  <2> QED BY <1>1, <1>2, <1>4, <2>1 DEF FinalGen, CheckChain
<1> QED BY <1>3, <1>4

\* A position of a manifest is a chain and a place in it (validateManifest's walk).
LEMMA PositionIs ==
  ASSUME NEW m \in Manifest_
  PROVE  /\ \A p \in Positions(m) :
              /\ p = <<p[1], p[2]>> /\ p[1] \in 0 .. Len(m.retained)
              /\ p[2] \in 0 .. Len(ChainAt(m, p[1]).increments)
         /\ \A c \in 0 .. Len(m.retained) : \A i \in 0 .. Len(ChainAt(m, c).increments) :
              <<c, i>> \in Positions(m)
<1>1. DOMAIN m.retained = 1 .. Len(m.retained) /\ Len(m.retained) \in Nat
  BY ManifestParts
<1>2. ASSUME NEW p \in Positions(m)
      PROVE  /\ p = <<p[1], p[2]>> /\ p[1] \in 0 .. Len(m.retained)
             /\ p[2] \in 0 .. Len(ChainAt(m, p[1]).increments)
  <2>1. CASE p \in {<<0, i>> : i \in 0 .. Len(m.increments)}
    BY <1>1, <2>1 DEF ChainAt
  <2>2. CASE \E c \in DOMAIN m.retained : p \in {<<c, i>> : i \in 0 .. Len(m.retained[c].increments)}
    <3>1. PICK c \in DOMAIN m.retained : p \in {<<c, i>> : i \in 0 .. Len(m.retained[c].increments)}
      BY <2>2
    <3>2. PICK i \in 0 .. Len(m.retained[c].increments) : p = <<c, i>>
      BY <3>1
    <3>3. c # 0 /\ ChainAt(m, c) = m.retained[c]
      BY <1>1 DEF ChainAt
    <3> QED BY <1>1, <3>2, <3>3
  <2> QED BY <2>1, <2>2 DEF Positions
<1>3. ASSUME NEW c \in 0 .. Len(m.retained), NEW i \in 0 .. Len(ChainAt(m, c).increments)
      PROVE  <<c, i>> \in Positions(m)
  <2>1. CASE c = 0
    BY <2>1 DEF Positions, ChainAt
  <2>2. CASE c # 0
    <3>1. c \in DOMAIN m.retained /\ i \in 0 .. Len(m.retained[c].increments)
      BY <1>1, <2>2 DEF ChainAt
    <3> QED BY <3>1 DEF Positions
  <2> QED BY <2>1, <2>2
<1> QED BY <1>2, <1>3

\* What the descriptor at a position is and where its key and its publication
\* count (checkChain, manifestRoots, publicationIn).
LEMMA DescriptorIs ==
  ASSUME NEW m \in Manifest_, Present(m),
         \A c \in 0 .. Len(m.retained) : CheckChain(ChainAt(m, c)),
         NEW p \in Positions(m)
  PROVE  LET d == DescriptorAt(m, p[1], p[2]) IN
         /\ d.key \in ManifestRoots(m) /\ d.pub \in Publications(m)
         /\ p[2] = 0 => d.key = Key("checkpoint", d.through, d.id)
         /\ p[2] # 0 => d.key = Key("increment", d.gen, d.pub)
<1> DEFINE c == p[1]
           i == p[2]
           h == ChainAt(m, c)
           d == DescriptorAt(m, c, i)
<1>1. c \in 0 .. Len(m.retained) /\ i \in 0 .. Len(h.increments)
  BY PositionIs
<1>2. /\ Len(h.increments) \in Nat /\ DOMAIN h.increments = 1 .. Len(h.increments)
      /\ CheckChain(h)
  BY <1>1, ChainParts
<1>3. DOMAIN m.retained = 1 .. Len(m.retained) /\ Len(m.retained) \in Nat
  BY ManifestParts
<1>4. ChainKeys(h) \subseteq ManifestRoots(m) /\ ChainPublications(h) \subseteq Publications(m)
  BY <1>1, <1>3 DEF ChainAt, ManifestRoots, Publications
<1>5. d = IF i = 0 THEN h.checkpoint ELSE h.increments[i]
  BY DEF DescriptorAt
<1> HIDE DEF c, i, h, d
<1>6. CASE i = 0
  <2>1. d.key \in ChainKeys(h) /\ d.pub \in ChainPublications(h)
    BY <1>5, <1>6 DEF ChainKeys, ChainPublications
  <2>2. d.key = Key("checkpoint", d.through, d.id)
    BY <1>2, <1>5, <1>6 DEF CheckChain
  <2> QED BY <1>4, <1>6, <2>1, <2>2 DEF d, c, i
<1>7. CASE i # 0
  <2>1. i \in DOMAIN h.increments
    BY <1>1, <1>2, <1>7
  <2>2. d.key \in ChainKeys(h) /\ d.pub \in ChainPublications(h)
    BY <1>5, <1>7, <2>1 DEF ChainKeys, ChainPublications
  <2>3. d.key = Key("increment", d.gen, d.pub)
    BY <1>2, <1>5, <1>7, <2>1 DEF CheckChain
  <2> QED BY <1>4, <1>7, <2>2, <2>3 DEF d, c, i
<1> QED BY <1>6, <1>7

\* next has one descriptor more than m, at p0, that agrees with the others; f
\* says where m has those.
OneMore(m, next, f, p0) ==
  /\ \A p \in Positions(next) : p # p0 =>
       /\ f[p] \in Positions(m)
       /\ DescriptorAt(next, p[1], p[2]) = DescriptorAt(m, f[p][1], f[p][2])
       /\ p[2] = 0 => f[p][2] = 0
  /\ \A p, q \in Positions(next) : p # p0 /\ q # p0 /\ f[p] = f[q] => p = q
  /\ \A q \in Positions(m) :
       LET d == DescriptorAt(next, p0[1], p0[2])
           e == DescriptorAt(m, q[1], q[2]) IN
       /\ d.key # e.key
       /\ p0[2] = 0 /\ q[2] = 0 => d.id # e.id
       /\ d.pub = e.pub => d.head = e.head

\* Such a manifest agrees as a whole (seenKeys, seenCheckpointIDs, pubHeads).
LEMMA AgreeWithOneMore ==
  ASSUME NEW m, NEW next, NEW f, NEW p0, DescriptorsAgree(m), OneMore(m, next, f, p0)
  PROVE  DescriptorsAgree(next)
<1> DEFINE N(p) == DescriptorAt(next, p[1], p[2])
           M(q) == DescriptorAt(m, q[1], q[2])
<1> SUFFICES ASSUME NEW p \in Positions(next), NEW q \in Positions(next)
             PROVE  /\ N(p).key = N(q).key => p = q
                    /\ (p[2] = 0 /\ q[2] = 0 /\ N(p).id = N(q).id) => p = q
                    /\ N(p).pub = N(q).pub => N(p).head = N(q).head
  BY DEF DescriptorsAgree
<1>1. \A r \in Positions(next) : r # p0 =>
         f[r] \in Positions(m) /\ N(r) = M(f[r]) /\ (r[2] = 0 => f[r][2] = 0)
  BY DEF OneMore
<1>2. \A r \in Positions(m) :
         /\ N(p0).key # M(r).key
         /\ p0[2] = 0 /\ r[2] = 0 => N(p0).id # M(r).id
         /\ N(p0).pub = M(r).pub => N(p0).head = M(r).head
  BY DEF OneMore
<1>3. \A r, s \in Positions(m) :
         /\ M(r).key = M(s).key => r = s
         /\ (r[2] = 0 /\ s[2] = 0 /\ M(r).id = M(s).id) => r = s
         /\ M(r).pub = M(s).pub => M(r).head = M(s).head
  BY DEF DescriptorsAgree
<1> HIDE DEF N, M
<1>4. CASE p = p0 /\ q = p0
  BY <1>4
<1>5. CASE p # p0 /\ q = p0
  BY <1>1, <1>2, <1>5
<1>6. CASE p = p0 /\ q # p0
  BY <1>1, <1>2, <1>6
<1>7. CASE p # p0 /\ q # p0
  <2>1. f[p] = f[q] => p = q
    BY <1>7 DEF OneMore
  <2> QED BY <1>1, <1>3, <1>7, <2>1
<1> QED BY <1>4, <1>5, <1>6, <1>7

\* A manifest of one checkpoint (buildFirstProposal, buildCompactingProposal).
LEMMA SingleEncodable ==
  ASSUME NEW m \in Manifest_, m.gen >= 1, m.increments = <<>>, m.retained = <<>>,
         m.checkpoint.key = Key("checkpoint", m.checkpoint.through, m.checkpoint.id),
         m.head = m.checkpoint.head, m.checkpoint.through <= m.gen
  PROVE  Encodable(m)
<1>1. Len(m.increments) = 0 /\ Len(m.retained) = 0 /\ DOMAIN m.increments = {}
      /\ DOMAIN m.retained = {}
  BY EmptySeq
<1>2. CheckChain(m)
  BY <1>1 DEF CheckChain
<1>3. \A c \in 0 .. Len(m.retained) : CheckChain(ChainAt(m, c))
  BY <1>1, <1>2 DEF ChainAt
<1>4. \A p \in Positions(m) : p = <<0, 0>>
  BY <1>1 DEF Positions
<1>5. DescriptorsAgree(m)
  BY <1>4 DEF DescriptorsAgree
<1>6. m.head = ChainHead(m) /\ FinalGen(m) = m.checkpoint.through
  BY DEF ChainHead, FinalGen
<1> QED BY <1>1, <1>3, <1>5, <1>6 DEF Encodable, ValidManifest

\* The first publication (buildFirstProposal).
LEMMA FirstEncodable ==
  ASSUME NEW pub \in ID, NEW cpID \in ID
  PROVE  Encodable(FirstManifest(pub, cpID))
<1> DEFINE m == FirstManifest(pub, cpID)
<1>1. m \in Manifest_
  BY FirstManifestType DEF Manifest_
<1>2. /\ m.gen = 1 /\ m.increments = <<>> /\ m.retained = <<>> /\ m.head = pub
      /\ m.checkpoint = Checkpoint(cpID, pub, 1, pub)
  BY DEF FirstManifest
<1> HIDE DEF m
<1>3. /\ m.checkpoint.key = Key("checkpoint", m.checkpoint.through, m.checkpoint.id)
      /\ m.checkpoint.head = pub /\ m.checkpoint.through = 1
  BY <1>2 DEF Checkpoint
<1>4. Encodable(m)
  BY <1>1, <1>2, <1>3, SingleEncodable
<1> QED BY <1>4 DEF m

\* A refused increment as a checkpoint (buildCompactingProposal).
LEMMA CompactingEncodable ==
  ASSUME NEW inc \in Manifest_, Encodable(inc), Present(inc), Len(inc.increments) > 0,
         NEW cpID \in ID
  PROVE  Encodable(CompactingManifest(inc, cpID))
<1> DEFINE m == CompactingManifest(inc, cpID)
           last == inc.increments[Len(inc.increments)]
<1>1. m \in Manifest_
  BY CompactingManifestType DEF Manifest_
<1>2. /\ m.gen = inc.gen /\ m.increments = <<>> /\ m.retained = <<>> /\ m.head = inc.head
      /\ m.checkpoint = Checkpoint(cpID, last.pub, last.gen, last.head)
  BY DEF CompactingManifest
<1>3. /\ inc.gen \in Nat /\ inc.gen >= 1 /\ inc.head = ChainHead(inc)
      /\ FinalGen(inc) <= inc.gen
  BY ManifestParts DEF Encodable, ValidManifest
<1>4. inc.increments # <<>>
  BY EmptySeq
<1>5. inc.head = last.head /\ FinalGen(inc) = last.gen
  BY <1>3, <1>4 DEF ChainHead, FinalGen
<1> HIDE DEF m, last
<1>6. /\ m.checkpoint.key = Key("checkpoint", m.checkpoint.through, m.checkpoint.id)
      /\ m.checkpoint.head = last.head /\ m.checkpoint.through = last.gen
  BY <1>2 DEF Checkpoint
<1>7. Encodable(m)
  BY <1>1, <1>2, <1>3, <1>5, <1>6, SingleEncodable
<1> QED BY <1>7 DEF m

\* One more increment (buildIncrementProposal): its publication is new, its
\* generation and parent continue the chain.
LEMMA IncrementEncodable ==
  ASSUME NEW m \in Manifest_, Encodable(m), Present(m), NEW pub \in ID, pub \notin Publications(m)
  PROVE  Encodable(IncrementManifest(m, pub))
<1> DEFINE next == IncrementManifest(m, pub)
           n    == Len(m.increments)
           inc  == Increment(NextIncrementGen(m), pub, m.head, pub)
           p0   == <<0, n + 1>>
           f    == [p \in Positions(next) |-> p]
<1>1. /\ m.gen \in Nat /\ m.checkpoint.through \in Nat /\ n \in Nat
      /\ m.increments \in Seq(Increments(ID, Nat)) /\ DOMAIN m.increments = 1 .. n
      /\ Len(m.retained) \in Nat /\ DOMAIN m.retained = 1 .. Len(m.retained)
      /\ \A c \in 1 .. Len(m.retained) : m.retained[c] \in Retireds(ID, Nat)
  BY ManifestParts
<1>2. ValidManifest(m) /\ FinalGen(m) <= m.gen
  BY DEF Encodable
<1>3. /\ next \in Manifest_ /\ next.increments \in Seq(Increments(ID, Nat))
      /\ Len(next.increments) = n + 1 /\ DOMAIN next.increments = 1 .. n + 1
  BY IncrementManifestType, ManifestParts DEF Manifest_
<1>4. /\ next.gen = m.gen + 1 /\ next.head = pub /\ next.checkpoint = m.checkpoint
      /\ next.retained = m.retained
  BY DEF IncrementManifest
<1>5. /\ next.increments[n + 1] = inc
      /\ \A i \in 1 .. n : next.increments[i] = m.increments[i]
  <2>1. next.increments = Append(m.increments, inc)
    BY DEF IncrementManifest
  <2> HIDE DEF inc, next
  <2> QED BY <1>1, <1>3, <2>1, AppendProperties
<1>6. /\ inc.gen = m.checkpoint.through + (n + 1) /\ inc.pub = pub /\ inc.parent = m.head
      /\ inc.head = pub /\ inc.key = Key("increment", inc.gen, pub)
  BY <1>1 DEF Increment, NextIncrementGen
<1> HIDE DEF next, inc
<1>7. /\ ChainAt(m, 0) = m /\ ChainAt(next, 0) = next
      /\ \A c \in 1 .. Len(m.retained) : ChainAt(next, c) = ChainAt(m, c)
      /\ \A c \in 1 .. Len(m.retained) : ChainAt(m, c) = m.retained[c]
  BY <1>1, <1>4 DEF ChainAt
<1>8. CheckChain(m) /\ \A c \in 0 .. Len(m.retained) : CheckChain(ChainAt(m, c))
  BY <1>1, <1>2, <1>7 DEF ValidManifest
<1>9. CheckChain(next)
  <2>1. next.checkpoint.key = Key("checkpoint", next.checkpoint.through, next.checkpoint.id)
    BY <1>4, <1>8 DEF CheckChain
  <2>2. m.head = IF n = 0 THEN m.checkpoint.head ELSE m.increments[n].head
    <3>1. m.increments = <<>> <=> n = 0
      BY <1>1, EmptySeq, ElementType
    <3> QED BY <1>2, <3>1 DEF ValidManifest, ChainHead
  <2>3. ASSUME NEW i \in 1 .. n + 1
        PROVE  /\ next.increments[i].gen = next.checkpoint.through + i
               /\ next.increments[i].parent = IF i = 1 THEN next.checkpoint.head
                                              ELSE next.increments[i - 1].head
               /\ next.increments[i].key =
                    Key("increment", next.increments[i].gen, next.increments[i].pub)
    <3>1. CASE i = n + 1
      <4>1. n = 0 \/ n \in 1 .. n
        BY <1>1
      <4>2. i - 1 = n /\ (i = 1 <=> n = 0)
        BY <1>1, <3>1
      <4> QED BY <1>4, <1>5, <1>6, <2>2, <3>1, <4>1, <4>2
    <3>2. CASE i # n + 1
      <4>1. i \in 1 .. n /\ (i = 1 \/ i - 1 \in 1 .. n)
        BY <1>1, <3>2
      <4>2. /\ m.increments[i].gen = m.checkpoint.through + i
            /\ m.increments[i].parent = IF i = 1 THEN m.checkpoint.head
                                        ELSE m.increments[i - 1].head
            /\ m.increments[i].key = Key("increment", m.increments[i].gen, m.increments[i].pub)
        BY <1>1, <1>8, <4>1 DEF CheckChain
      <4>3. i # 1 => next.increments[i - 1] = m.increments[i - 1]
        BY <1>5, <4>1
      <4> HIDE DEF n
      <4> QED BY <1>4, <1>5, <4>1, <4>2, <4>3, Zenon
    <3> QED BY <3>1, <3>2
  <2> QED BY <1>3, <2>1, <2>3 DEF CheckChain
<1>10. \A c \in 0 .. Len(next.retained) : CheckChain(ChainAt(next, c))
  <2> SUFFICES ASSUME NEW c \in 0 .. Len(m.retained)
               PROVE  CheckChain(ChainAt(next, c))
    BY <1>4
  <2>1. CASE c = 0
    BY <1>7, <1>9, <2>1
  <2>2. CASE c # 0
    BY <1>1, <1>7, <1>8, <2>2
  <2> QED BY <2>1, <2>2
<1>11. \A p \in Positions(next) : p # p0 =>
          /\ p \in Positions(m)
          /\ DescriptorAt(next, p[1], p[2]) = DescriptorAt(m, p[1], p[2])
  <2> SUFFICES ASSUME NEW p \in Positions(next), p # p0
               PROVE  /\ p \in Positions(m)
                      /\ DescriptorAt(next, p[1], p[2]) = DescriptorAt(m, p[1], p[2])
    OBVIOUS
  <2>1. /\ p = <<p[1], p[2]>> /\ p[1] \in 0 .. Len(m.retained)
        /\ p[2] \in 0 .. Len(ChainAt(next, p[1]).increments)
    BY <1>3, <1>4, PositionIs
  <2>2. CASE p[1] = 0
    <3>1. p[2] \in 0 .. n + 1 /\ p[2] # n + 1
      BY <1>3, <1>7, <2>1, <2>2
    <3>2. p[2] \in 0 .. n
      BY <1>1, <3>1
    <3>3. <<0, p[2]>> \in Positions(m)
      BY <1>1, <1>7, <3>2, PositionIs
    <3>4. DescriptorAt(next, 0, p[2]) = DescriptorAt(m, 0, p[2])
      BY <1>1, <1>4, <1>5, <1>7, <3>2 DEF DescriptorAt
    <3> QED BY <2>1, <2>2, <3>3, <3>4
  <2>3. CASE p[1] # 0
    <3>1. p[1] \in 1 .. Len(m.retained)
      BY <1>1, <2>1, <2>3
    <3>2. ChainAt(next, p[1]) = ChainAt(m, p[1])
      BY <1>7, <3>1
    <3>3. <<p[1], p[2]>> \in Positions(m)
      BY <2>1, <3>2, PositionIs
    <3> QED BY <2>1, <3>2, <3>3 DEF DescriptorAt
  <2> QED BY <2>2, <2>3
<1>12. \A q \in Positions(m) :
          LET d == DescriptorAt(next, p0[1], p0[2])
              e == DescriptorAt(m, q[1], q[2]) IN
          /\ d.key # e.key
          /\ p0[2] = 0 /\ q[2] = 0 => d.id # e.id
          /\ d.pub = e.pub => d.head = e.head
  <2>1. DescriptorAt(next, p0[1], p0[2]) = inc /\ p0[2] # 0
    BY <1>1, <1>5, <1>7 DEF DescriptorAt
  <2> SUFFICES ASSUME NEW q \in Positions(m)
               PROVE  /\ inc.key # DescriptorAt(m, q[1], q[2]).key
                      /\ inc.pub # DescriptorAt(m, q[1], q[2]).pub
    BY <2>1
  <2> DEFINE e == DescriptorAt(m, q[1], q[2])
  <2>2. /\ e.pub \in Publications(m)
        /\ q[2] = 0 => e.key = Key("checkpoint", e.through, e.id)
        /\ q[2] # 0 => e.key = Key("increment", e.gen, e.pub)
    BY <1>8, DescriptorIs
  <2> HIDE DEF e
  <2>3. e.pub # pub
    BY <2>2
  <2>4. inc.key # e.key
    BY <1>6, <2>2, <2>3 DEF Key
  <2> QED BY <1>6, <2>3, <2>4 DEF e
<1>13. DescriptorsAgree(next)
  <2>1. \A p \in Positions(next) : f[p] = p
    OBVIOUS
  <2>2. DescriptorsAgree(m)
    BY <1>2 DEF ValidManifest
  <2>3. \A p \in Positions(next) : p # p0 =>
           /\ f[p] \in Positions(m)
           /\ DescriptorAt(next, p[1], p[2]) = DescriptorAt(m, f[p][1], f[p][2])
           /\ p[2] = 0 => f[p][2] = 0
    BY <1>11, <2>1
  <2>4. \A p, q \in Positions(next) : p # p0 /\ q # p0 /\ f[p] = f[q] => p = q
    BY <2>1
  <2> HIDE DEF f, p0
  <2>5. OneMore(m, next, f, p0)
    BY <1>12, <2>3, <2>4, Zenon DEF OneMore
  <2> QED BY <2>2, <2>5, AgreeWithOneMore, Zenon
<1>14. next.head = ChainHead(next) /\ FinalGen(next) = m.checkpoint.through + (n + 1)
  <2>1. next.increments # <<>>
    BY <1>1, <1>3, EmptySeq
  <2> QED BY <1>1, <1>3, <1>4, <1>5, <1>6, <2>1 DEF ChainHead, FinalGen
<1>15. m.checkpoint.through + n <= m.gen
  BY <1>2, <1>8, FinalOfChain
<1>16. \A c \in DOMAIN next.retained :
          LET r == next.retained[c] IN
          /\ r.retiredAt < IF c = 1 THEN next.gen + 1 ELSE next.retained[c - 1].retiredAt
          /\ r.retiredAt > FinalGen(r)
          /\ r.head = ChainHead(r)
  <2> SUFFICES ASSUME NEW c \in 1 .. Len(m.retained)
               PROVE  LET r == m.retained[c] IN
                      /\ r.retiredAt < IF c = 1 THEN m.gen + 1 + 1 ELSE m.retained[c - 1].retiredAt
                      /\ r.retiredAt > FinalGen(r)
                      /\ r.head = ChainHead(r)
    BY <1>1, <1>4
  <2>1. m.retained[c].retiredAt \in Nat
    BY <1>1 DEF Retireds
  <2>2. LET r == m.retained[c] IN
        /\ r.retiredAt < IF c = 1 THEN m.gen + 1 ELSE m.retained[c - 1].retiredAt
        /\ r.retiredAt > FinalGen(r)
        /\ r.head = ChainHead(r)
    BY <1>1, <1>2 DEF ValidManifest
  <2> QED BY <1>1, <2>1, <2>2
<1>17. ValidManifest(next)
  <2>1. next.gen >= 1 /\ next.checkpoint.through <= next.gen
    BY <1>1, <1>4, <1>15
  <2> QED BY <1>10, <1>13, <1>14, <1>16, <2>1, Zenon DEF ValidManifest
<1> QED
  BY <1>1, <1>4, <1>14, <1>15, <1>17 DEF Encodable, next

\* next is m with its n oldest increments folded into a checkpoint
\* (compactManifest).
Folded(m, next, n, cpID) ==
  LET k    == Len(m.increments)
      last == m.increments[n]
      old  == next.retained[1] IN
  /\ n \in 1 .. k
  /\ next.gen = m.gen + 1
  /\ next.checkpoint = Checkpoint(cpID, last.pub, last.gen, last.head)
  /\ Len(next.increments) = k - n
  /\ \A i \in 1 .. k - n : next.increments[i] = m.increments[n + i]
  /\ next.head = IF k = n THEN last.head ELSE m.increments[k].head
  /\ Len(next.retained) <= 1 + Len(m.retained)
  /\ 1 <= Len(next.retained) =>
       /\ old.retiredAt = m.gen + 1 /\ old.head = last.head
       /\ old.checkpoint = m.checkpoint
       /\ Len(old.increments) = n
       /\ \A i \in 1 .. n : old.increments[i] = m.increments[i]
  /\ \A c \in 2 .. Len(next.retained) : next.retained[c] = m.retained[c - 1]

LEMMA CompactFolds ==
  ASSUME NEW m \in Manifest_, NEW prefix \in Seq(Increments(ID, Nat)), Len(prefix) > 0,
         PrefixPresent(m, prefix), NEW cpID \in ID, NEW keep \in Nat
  PROVE  LET next == CompactManifest(m, prefix, cpID, keep)
             n    == Len(prefix) IN
         /\ next \in Manifest_ /\ Folded(m, next, n, cpID)
         /\ PlanLast(prefix) = m.increments[n]
<1> DEFINE next == CompactManifest(m, prefix, cpID, keep)
           n    == Len(prefix)
           k    == Len(m.increments)
           last == PlanLast(prefix)
           rest == SubSeq(m.increments, n + 1, k)
           head == SubSeq(m.increments, 1, n)
           old  == Retained(m.gen + 1, last.head, m.checkpoint, head)
           all  == <<old>> \o m.retained
           t    == Trim(all, keep)
<1>1. /\ m.increments \in Seq(Increments(ID, Nat)) /\ k \in Nat
      /\ m.retained \in Seq(Retireds(ID, Nat)) /\ Len(m.retained) \in Nat
      /\ \A i \in 1 .. k : m.increments[i] \in Increments(ID, Nat)
      /\ m.gen \in Nat /\ m.checkpoint \in Checkpoints(ID, Nat)
  BY ManifestParts
<1>2. n \in Nat /\ n > 0 /\ n <= k /\ DOMAIN prefix = 1 .. n
  BY ElementType DEF PrefixPresent
<1>3. last = m.increments[n]
  BY <1>2 DEF PlanLast, PrefixPresent
<1>4. /\ rest \in Seq(Increments(ID, Nat)) /\ Len(rest) = k - n
      /\ \A i \in 1 .. k - n : rest[i] = m.increments[n + i]
  BY <1>1, <1>2, SuffixType
<1>5. /\ head \in Seq(Increments(ID, Nat)) /\ Len(head) = n
      /\ \A i \in 1 .. n : head[i] = m.increments[i]
  BY <1>1, <1>2, PrefixType
<1>6. next \in Manifest_
  BY <1>1, <1>2, CompactManifestType DEF Manifest_
<1>7. /\ next.gen = m.gen + 1
      /\ next.checkpoint = Checkpoint(cpID, last.pub, last.gen, last.head)
      /\ next.increments = rest
      /\ next.head = IF rest = <<>> THEN last.head ELSE rest[Len(rest)].head
      /\ next.retained = t
  BY DEF CompactManifest
<1>8. /\ old.retiredAt = m.gen + 1 /\ old.head = last.head
      /\ old.checkpoint = m.checkpoint /\ old.increments = head
  BY DEF Retained
<1>9. old \in Retireds(ID, Nat)
  <2>1. last \in Increments(ID, Nat)
    BY <1>1, <1>2, <1>3
  <2>2. last.head \in ID /\ m.gen + 1 \in Nat
    BY <1>1, <2>1 DEF Increments
  <2> HIDE DEF head, last
  <2> QED BY <1>1, <1>5, <2>2 DEF Retained, Retireds
<1> HIDE DEF next, n, k, last, rest, head, old
<1>10. /\ all \in Seq(Retireds(ID, Nat)) /\ Len(all) = 1 + Len(m.retained)
       /\ all[1] = old
       /\ \A c \in 2 .. 1 + Len(m.retained) : all[c] = m.retained[c - 1]
  <2>1. <<old>> \in Seq(Retireds(ID, Nat)) /\ Len(<<old>>) = 1 /\ <<old>>[1] = old
    BY <1>9
  <2> QED BY <2>1, <1>1, ConcatProperties
<1> HIDE DEF all
<1>11. /\ t \in Seq(Retireds(ID, Nat)) /\ Len(t) <= Len(all)
       /\ \A c \in 1 .. Len(t) : t[c] = all[c]
  BY <1>10, TrimType
<1> HIDE DEF t
<1>12. Len(t) \in Nat /\ Len(t) <= 1 + Len(m.retained)
  BY <1>10, <1>11, ElementType
<1>13. /\ 1 <= Len(t) => t[1] = old
       /\ \A c \in 2 .. Len(t) : t[c] = m.retained[c - 1]
  BY <1>1, <1>10, <1>11, <1>12
<1>14. next.head = IF k = n THEN last.head ELSE m.increments[k].head
  <2>1. CASE k = n
    <3>1. rest = <<>>
      BY <1>1, <1>2, <1>4, <2>1, EmptySeq, ElementType
    <3> QED BY <1>7, <2>1, <3>1
  <2>2. CASE k # n
    <3>1. rest # <<>> /\ k - n \in 1 .. k - n /\ n + (k - n) = k
      BY <1>1, <1>2, <1>4, <2>2, EmptySeq
    <3> QED BY <1>4, <1>7, <2>2, <3>1
  <2> QED BY <2>1, <2>2
<1>15. Folded(m, next, n, cpID)
  <2>1. n \in 1 .. k
    BY <1>1, <1>2
  <2>2. 1 <= Len(t) => /\ t[1].retiredAt = m.gen + 1 /\ t[1].head = last.head
                       /\ t[1].checkpoint = m.checkpoint /\ t[1].increments = head
    BY <1>8, <1>13
  <2> QED
    BY <1>3, <1>4, <1>5, <1>7, <1>12, <1>13, <1>14, <2>1, <2>2, Zenon DEF Folded, k
<1> QED BY <1>3, <1>6, <1>15 DEF next, n, last

\* The chains of the folded manifest are the rest of the active one, its folded
\* part, and the retained ones (checkChain).
LEMMA FoldedChains ==
  ASSUME NEW m \in Manifest_, NEW next \in Manifest_, NEW n, NEW cpID,
         Folded(m, next, n, cpID), ValidManifest(m)
  PROVE  /\ m.increments[n].gen = m.checkpoint.through + n
         /\ \A c \in 0 .. Len(next.retained) : CheckChain(ChainAt(next, c))
<1> DEFINE k    == Len(m.increments)
           last == m.increments[n]
<1>1. /\ m.checkpoint.through \in Nat /\ k \in Nat /\ DOMAIN m.increments = 1 .. k
      /\ Len(m.retained) \in Nat /\ DOMAIN m.retained = 1 .. Len(m.retained)
      /\ Len(next.increments) \in Nat /\ Len(next.retained) \in Nat
      /\ DOMAIN next.increments = 1 .. Len(next.increments)
      /\ DOMAIN next.retained = 1 .. Len(next.retained)
      /\ \A c \in 1 .. Len(next.retained) : next.retained[c] \in Retireds(ID, Nat)
  BY ManifestParts
<1>2. n \in 1 .. k
  BY DEF Folded
<1>3. \A c \in 0 .. Len(m.retained) : CheckChain(ChainAt(m, c))
  BY DEF ValidManifest
<1>4. CheckChain(m)
  <2>1. 0 \in 0 .. Len(m.retained) /\ ChainAt(m, 0) = m
    BY <1>1 DEF ChainAt
  <2> QED BY <1>3, <2>1
<1>5. /\ m.checkpoint.key = Key("checkpoint", m.checkpoint.through, m.checkpoint.id)
      /\ \A i \in 1 .. k :
           /\ m.increments[i].gen = m.checkpoint.through + i
           /\ m.increments[i].parent = IF i = 1 THEN m.checkpoint.head ELSE m.increments[i - 1].head
           /\ m.increments[i].key = Key("increment", m.increments[i].gen, m.increments[i].pub)
  BY <1>1, <1>4 DEF CheckChain
<1>6. last.gen = m.checkpoint.through + n
  BY <1>2, <1>5
<1>7. CheckChain(next)
  <2>1. /\ next.checkpoint.key = Key("checkpoint", next.checkpoint.through, next.checkpoint.id)
        /\ next.checkpoint.through = last.gen /\ next.checkpoint.head = last.head
    BY DEF Folded, Checkpoint
  <2>2. /\ DOMAIN next.increments = 1 .. k - n
        /\ \A i \in 1 .. k - n : next.increments[i] = m.increments[n + i]
    BY <1>1 DEF Folded
  <2>3. ASSUME NEW i \in 1 .. k - n
        PROVE  /\ next.increments[i].gen = next.checkpoint.through + i
               /\ next.increments[i].parent = IF i = 1 THEN next.checkpoint.head
                                              ELSE next.increments[i - 1].head
               /\ next.increments[i].key =
                    Key("increment", next.increments[i].gen, next.increments[i].pub)
    <3>1. n + i \in 1 .. k /\ n + i # 1
      BY <1>1, <1>2
    <3>2. /\ m.increments[n + i].gen = m.checkpoint.through + (n + i)
          /\ m.increments[n + i].parent = m.increments[(n + i) - 1].head
          /\ m.increments[n + i].key =
               Key("increment", m.increments[n + i].gen, m.increments[n + i].pub)
      <4>1. \A x \in 1 .. k : x # 1 =>
              /\ m.increments[x].gen = m.checkpoint.through + x
              /\ m.increments[x].parent = m.increments[x - 1].head
              /\ m.increments[x].key = Key("increment", m.increments[x].gen, m.increments[x].pub)
        BY <1>5
      <4> HIDE DEF k
      <4> QED BY <3>1, <4>1, Zenon
    <3>3. next.increments[i] = m.increments[n + i]
      BY <2>2
    <3>4. i = 1 => (n + i) - 1 = n
      BY <1>2
    <3>5. i # 1 => i - 1 \in 1 .. k - n /\ (n + i) - 1 = n + (i - 1)
      BY <1>1, <1>2
    <3>6. i # 1 => next.increments[i - 1] = m.increments[(n + i) - 1]
      BY <2>2, <3>5
    <3>7. next.checkpoint.through + i = m.checkpoint.through + (n + i)
      BY <1>1, <1>2, <1>6, <2>1
    <3> QED BY <2>1, <3>2, <3>3, <3>4, <3>6, <3>7
  <2> QED BY <2>1, <2>2, <2>3 DEF CheckChain
<1>8. ASSUME 1 <= Len(next.retained)
      PROVE  CheckChain(next.retained[1])
  <2> DEFINE old == next.retained[1]
  <2>1. /\ old.checkpoint = m.checkpoint /\ Len(old.increments) = n
        /\ \A i \in 1 .. n : old.increments[i] = m.increments[i]
    BY <1>8 DEF Folded
  <2>2. DOMAIN old.increments = 1 .. n
    <3>1. old \in Retireds(ID, Nat)
      BY <1>1, <1>8
    <3> QED BY <2>1, <3>1, ElementType DEF Retireds
  <2> HIDE DEF old
  <2>3. ASSUME NEW i \in 1 .. n
        PROVE  /\ old.increments[i].gen = old.checkpoint.through + i
               /\ old.increments[i].parent = IF i = 1 THEN old.checkpoint.head
                                             ELSE old.increments[i - 1].head
               /\ old.increments[i].key =
                    Key("increment", old.increments[i].gen, old.increments[i].pub)
    <3>1. i \in 1 .. k /\ (i # 1 => i - 1 \in 1 .. n)
      BY <1>1, <1>2
    <3> QED BY <1>5, <2>1, <3>1
  <2> QED BY <1>5, <2>1, <2>2, <2>3 DEF CheckChain, old
<1>9. ASSUME NEW c \in 0 .. Len(next.retained)
      PROVE  CheckChain(ChainAt(next, c))
  <2>1. CASE c = 0
    BY <1>7, <2>1 DEF ChainAt
  <2>2. CASE c = 1
    BY <1>1, <1>8, <2>2 DEF ChainAt
  <2>3. CASE c # 0 /\ c # 1
    <3>1. c \in 2 .. Len(next.retained) /\ Len(next.retained) <= 1 + Len(m.retained)
      BY <1>1, <2>3 DEF Folded
    <3>2. next.retained[c] = m.retained[c - 1]
      BY <3>1 DEF Folded
    <3>3. c - 1 \in 1 .. Len(m.retained)
      BY <1>1, <3>1
    <3>4. ChainAt(next, c) = next.retained[c] /\ ChainAt(m, c - 1) = m.retained[c - 1]
      BY <2>3, <3>3 DEF ChainAt
    <3>5. c - 1 \in 0 .. Len(m.retained)
      BY <1>1, <3>3
    <3> QED BY <1>3, <3>2, <3>4, <3>5
  <2> QED BY <2>1, <2>2, <2>3
<1> QED BY <1>6, <1>9

\* Each of its descriptors but the new checkpoint stands somewhere in m, each
\* somewhere else (seenKeys, seenCheckpointIDs, pubHeads).
FoldedAt(m, n, p) ==
  IF p[1] = 0 THEN <<0, n + p[2]>> ELSE <<p[1] - 1, p[2]>>

LEMMA FoldedPlace ==
  ASSUME NEW m \in Manifest_, NEW next \in Manifest_, NEW n, NEW cpID,
         Folded(m, next, n, cpID), NEW p \in Positions(next), p # <<0, 0>>
  PROVE  LET q == FoldedAt(m, n, p) IN
         /\ q \in Positions(m)
         /\ DescriptorAt(next, p[1], p[2]) = DescriptorAt(m, q[1], q[2])
         /\ p[2] = 0 => q[2] = 0
<1> DEFINE k == Len(m.increments)
           c == p[1]
           i == p[2]
<1>1. /\ k \in Nat /\ Len(m.retained) \in Nat /\ Len(next.retained) \in Nat
  BY ManifestParts
<1>2. n \in 1 .. k
  BY DEF Folded
<1>3. p = <<c, i>> /\ c \in 0 .. Len(next.retained) /\ i \in 0 .. Len(ChainAt(next, c).increments)
  BY PositionIs
<1>4. 0 \in 0 .. Len(m.retained) /\ ChainAt(m, 0) = m /\ ChainAt(next, 0) = next
  BY <1>1 DEF ChainAt
<1>5. CASE c = 0
  <2>1. i \in 1 .. k - n
    <3>1. i \in 0 .. k - n /\ i # 0
      BY <1>3, <1>4, <1>5 DEF Folded
    <3> QED BY <1>1, <1>2, <3>1
  <2>2. n + i \in 0 .. k /\ n + i # 0 /\ i # 0
    BY <1>1, <1>2, <2>1
  <2>3. <<0, n + i>> \in Positions(m)
    BY <1>4, <2>2, PositionIs
  <2>4. next.increments[i] = m.increments[n + i]
    BY <2>1 DEF Folded
  <2>5. DescriptorAt(next, 0, i) = DescriptorAt(m, 0, n + i)
    BY <1>4, <2>2, <2>4 DEF DescriptorAt
  <2>6. FoldedAt(m, n, p) = <<0, n + i>>
    BY <1>5 DEF FoldedAt
  <2> QED BY <1>5, <2>2, <2>3, <2>5, <2>6
<1>6. CASE c = 1
  <2>1. 1 <= Len(next.retained) /\ ChainAt(next, 1) = next.retained[1]
    BY <1>1, <1>3, <1>6 DEF ChainAt
  <2>2. /\ next.retained[1].checkpoint = m.checkpoint
        /\ Len(next.retained[1].increments) = n
        /\ \A x \in 1 .. n : next.retained[1].increments[x] = m.increments[x]
    BY <2>1 DEF Folded
  <2>3. i \in 0 .. n
    BY <1>3, <1>6, <2>1, <2>2
  <2>4. i \in 0 .. k /\ (i # 0 => i \in 1 .. n)
    BY <1>1, <1>2, <2>3
  <2>5. <<0, i>> \in Positions(m)
    BY <1>4, <2>4, PositionIs
  <2>6. DescriptorAt(next, 1, i) = DescriptorAt(m, 0, i)
    BY <1>4, <2>1, <2>2, <2>4 DEF DescriptorAt
  <2>7. FoldedAt(m, n, p) = <<0, i>>
    BY <1>6 DEF FoldedAt
  <2> QED BY <1>6, <2>5, <2>6, <2>7
<1>7. CASE c # 0 /\ c # 1
  <2>1. c \in 2 .. Len(next.retained) /\ Len(next.retained) <= 1 + Len(m.retained)
    BY <1>1, <1>3, <1>7 DEF Folded
  <2>2. next.retained[c] = m.retained[c - 1]
    BY <2>1 DEF Folded
  <2>3. c - 1 \in 0 .. Len(m.retained) /\ c - 1 # 0
    BY <1>1, <2>1
  <2>4. ChainAt(next, c) = ChainAt(m, c - 1)
    BY <1>7, <2>2, <2>3 DEF ChainAt
  <2>5. <<c - 1, i>> \in Positions(m)
    BY <1>3, <2>3, <2>4, PositionIs
  <2>6. FoldedAt(m, n, p) = <<c - 1, i>>
    BY <1>7 DEF FoldedAt
  <2> QED BY <2>4, <2>5, <2>6 DEF DescriptorAt
<1> QED BY <1>5, <1>6, <1>7

\* The new checkpoint's key and id are in no descriptor of m: an id planned
\* earlier would stand at a cutoff above the one m has.
LEMMA FoldedAgrees ==
  ASSUME NEW m \in Manifest_, NEW next \in Manifest_, NEW n, NEW cpID,
         Folded(m, next, n, cpID), ValidManifest(m), Chained(m),
         \A k \in ManifestRoots(m) :
            k.id = cpID => k = Key("checkpoint", m.increments[n].gen, cpID)
  PROVE  DescriptorsAgree(next)
<1> DEFINE last == m.increments[n]
           p0   == <<0, 0>>
           f    == [p \in Positions(next) |-> FoldedAt(m, n, p)]
           D(p) == DescriptorAt(next, p[1], p[2])
           E(q) == DescriptorAt(m, q[1], q[2])
<1>1. /\ m.checkpoint.through \in Nat /\ Len(m.increments) \in Nat
      /\ Len(m.retained) \in Nat /\ DOMAIN m.retained = 1 .. Len(m.retained)
      /\ \A c \in 1 .. Len(m.retained) : m.retained[c].checkpoint.through \in Nat
  BY ManifestParts DEF Retireds, Checkpoints
<1>2. n \in 1 .. Len(m.increments) /\ n \in Nat /\ n # 0
  BY DEF Folded
<1>3. last.gen = m.checkpoint.through + n
  BY FoldedChains
<1>4. /\ D(p0) = next.checkpoint
      /\ next.checkpoint = Checkpoint(cpID, last.pub, last.gen, last.head)
  BY DEF DescriptorAt, ChainAt, Folded
<1>5. <<0, n>> \in Positions(m) /\ E(<<0, n>>) = last
  <2>1. 0 \in 0 .. Len(m.retained) /\ ChainAt(m, 0) = m /\ n \in 0 .. Len(m.increments)
    BY <1>1, <1>2 DEF ChainAt
  <2> QED BY <1>2, <2>1, PositionIs DEF DescriptorAt
<1>6. /\ D(p0).key = Key("checkpoint", last.gen, cpID) /\ D(p0).id = cpID
      /\ D(p0).pub = last.pub /\ D(p0).head = last.head
  BY <1>4 DEF Checkpoint
<1>7. Present(m) /\ \A c \in 0 .. Len(m.retained) : CheckChain(ChainAt(m, c))
  BY ManifestParts DEF ValidManifest, Present
<1>8. ASSUME NEW q \in Positions(m)
      PROVE  /\ D(p0).key # E(q).key
             /\ p0[2] = 0 /\ q[2] = 0 => D(p0).id # E(q).id
             /\ D(p0).pub = E(q).pub => D(p0).head = E(q).head
  <2>1. /\ E(q).key \in ManifestRoots(m)
        /\ q[2] = 0 => E(q).key = Key("checkpoint", E(q).through, E(q).id)
        /\ q[2] # 0 => E(q).key = Key("increment", E(q).gen, E(q).pub)
    BY <1>7, DescriptorIs
  <2>2. D(p0).pub = E(q).pub => D(p0).head = E(q).head
    <3>1. E(<<0, n>>).pub = E(q).pub => E(<<0, n>>).head = E(q).head
      BY <1>5 DEF ValidManifest, DescriptorsAgree
    <3> HIDE DEF D, E, last
    <3> QED BY <1>5, <1>6, <3>1
  <2>3. q[2] = 0 => E(q).through <= m.checkpoint.through /\ E(q).through \in Nat
    <3>1. q[1] \in 0 .. Len(m.retained)
      BY PositionIs
    <3>2. q[2] = 0 => E(q) = IF q[1] = 0 THEN m.checkpoint ELSE m.retained[q[1]].checkpoint
      BY DEF DescriptorAt, ChainAt
    <3>3. q[1] # 0 => q[1] \in 1 .. Len(m.retained)
      BY <1>1, <3>1
    <3>4. q[1] # 0 => m.retained[q[1]].checkpoint.through <= m.checkpoint.through
      BY <1>1, <3>3 DEF Chained
    <3> HIDE DEF E
    <3> QED BY <1>1, <3>2, <3>3, <3>4
  <2> HIDE DEF D, E, last
  <2>4. q[2] = 0 => E(q).id # cpID
    <3> SUFFICES ASSUME q[2] = 0, E(q).id = cpID
                 PROVE  FALSE
      OBVIOUS
    <3>1. E(q).key.id = cpID /\ E(q).key.gen = E(q).through
      BY <2>1 DEF Key
    <3>2. E(q).key.gen = last.gen
      BY <2>1, <3>1 DEF Key, last
    <3> QED BY <1>1, <1>2, <1>3, <2>3, <3>1, <3>2
  <2>5. D(p0).key # E(q).key
    BY <1>6, <2>1, <2>4 DEF Key
  <2> QED BY <1>6, <2>2, <2>4, <2>5
<1>9. \A p \in Positions(next) : f[p] = FoldedAt(m, n, p)
  OBVIOUS
<1>10. \A p \in Positions(next) : p # p0 =>
          /\ f[p] \in Positions(m)
          /\ D(p) = E(f[p])
          /\ p[2] = 0 => f[p][2] = 0
  BY <1>9, FoldedPlace
<1>11. ASSUME NEW p \in Positions(next), NEW q \in Positions(next), p # p0, q # p0,
              f[p] = f[q]
       PROVE  p = q
  <2>1. FoldedAt(m, n, p) = FoldedAt(m, n, q)
    BY <1>9, <1>11
  <2>2. /\ p = <<p[1], p[2]>> /\ p[1] \in 0 .. Len(next.retained)
        /\ p[2] \in 0 .. Len(ChainAt(next, p[1]).increments)
        /\ q = <<q[1], q[2]>> /\ q[1] \in 0 .. Len(next.retained)
        /\ q[2] \in 0 .. Len(ChainAt(next, q[1]).increments)
    BY PositionIs
  <2>3. /\ p[1] \in Nat /\ q[1] \in Nat /\ p[2] \in Nat /\ q[2] \in Nat
    BY <2>2
  <2>4. /\ p[1] = 0 => p[2] # 0
        /\ q[1] = 0 => q[2] # 0
    BY <1>11, <2>2
  <2>5. /\ p[1] = 1 => p[2] <= n
        /\ q[1] = 1 => q[2] <= n
    <3>1. ASSUME 1 \in 0 .. Len(next.retained)
          PROVE  Len(ChainAt(next, 1).increments) = n
      BY <3>1 DEF Folded, ChainAt
    <3> QED BY <1>2, <2>2, <3>1
  <2> HIDE DEF f
  <2> QED BY <1>2, <2>1, <2>2, <2>3, <2>4, <2>5 DEF FoldedAt
<1>12. OneMore(m, next, f, p0)
  BY <1>8, <1>10, <1>11, Zenon DEF OneMore
<1>13. DescriptorsAgree(m)
  BY DEF ValidManifest
<1> QED BY <1>12, <1>13, AgreeWithOneMore, Zenon

\* The folded part is the newest retained generation; the others keep their
\* order (retiredAtGeneration).
LEMMA FoldedRetains ==
  ASSUME NEW m \in Manifest_, NEW next \in Manifest_, NEW n, NEW cpID,
         Folded(m, next, n, cpID), Encodable(m), Present(m),
         NEW c \in DOMAIN next.retained
  PROVE  LET r == next.retained[c] IN
         /\ r.retiredAt < IF c = 1 THEN next.gen + 1 ELSE next.retained[c - 1].retiredAt
         /\ r.retiredAt > FinalGen(r)
         /\ r.head = ChainHead(r)
<1>1. /\ m.gen \in Nat /\ m.checkpoint.through \in Nat /\ Len(m.increments) \in Nat
      /\ Len(m.retained) \in Nat /\ DOMAIN m.retained = 1 .. Len(m.retained)
      /\ Len(next.retained) \in Nat /\ DOMAIN next.retained = 1 .. Len(next.retained)
      /\ \A b \in 1 .. Len(m.retained) : m.retained[b].retiredAt \in Nat
      /\ \A b \in 1 .. Len(next.retained) : next.retained[b] \in Retireds(ID, Nat)
  BY ManifestParts DEF Retireds
<1>2. n \in 1 .. Len(m.increments)
  BY DEF Folded
<1>3. ValidManifest(m) /\ FinalGen(m) <= m.gen
  BY DEF Encodable
<1>4. c = 1 \/ c \in 2 .. Len(next.retained)
  BY <1>1
<1>5. 1 <= Len(next.retained) =>
        /\ next.retained[1].retiredAt = m.gen + 1
        /\ next.retained[1].head = m.increments[n].head
        /\ Len(next.retained[1].increments) = n
        /\ next.retained[1].increments[n] = m.increments[n]
  BY <1>2 DEF Folded
<1>6. CASE c = 1
  <2> DEFINE old == next.retained[1]
  <2>1. 1 <= Len(next.retained) /\ old \in Retireds(ID, Nat)
    BY <1>1, <1>6
  <2>2. m.increments[n].gen = m.checkpoint.through + n
    BY <1>3, FoldedChains
  <2>3. m.checkpoint.through + n <= m.gen
    <3>1. CheckChain(m)
      <4>1. 0 \in 0 .. Len(m.retained) /\ ChainAt(m, 0) = m
        BY <1>1 DEF ChainAt
      <4> QED BY <1>3, <4>1 DEF ValidManifest
    <3>2. FinalGen(m) = m.checkpoint.through + Len(m.increments)
      BY <3>1, FinalOfChain
    <3> QED BY <1>1, <1>2, <1>3, <3>2
  <2>4. old.increments # <<>>
    BY <1>2, <1>5, <2>1, EmptySeq
  <2>5. FinalGen(old) = m.checkpoint.through + n /\ ChainHead(old) = m.increments[n].head
    BY <1>5, <2>1, <2>2, <2>4 DEF FinalGen, ChainHead
  <2>6. next.gen = m.gen + 1
    BY DEF Folded
  <2> HIDE DEF old
  <2>7. old.retiredAt = m.gen + 1 /\ old.head = m.increments[n].head
    BY <1>5, <2>1 DEF old
  <2>8. old.retiredAt < next.gen + 1 /\ old.retiredAt > FinalGen(old) /\ old.head = ChainHead(old)
    BY <1>1, <1>2, <2>3, <2>5, <2>6, <2>7
  <2> QED BY <1>6, <2>8 DEF old
<1>7. CASE c \in 2 .. Len(next.retained)
  <2>1. /\ Len(next.retained) <= 1 + Len(m.retained)
        /\ \A b \in 2 .. Len(next.retained) : next.retained[b] = m.retained[b - 1]
    BY DEF Folded
  <2>2. c - 1 \in 1 .. Len(m.retained) /\ next.retained[c] = m.retained[c - 1] /\ c # 1
    BY <1>1, <1>7, <2>1
  <2> DEFINE b == c - 1
  <2>3. LET r == m.retained[b] IN
        /\ r.retiredAt < IF b = 1 THEN m.gen + 1 ELSE m.retained[b - 1].retiredAt
        /\ r.retiredAt > FinalGen(r)
        /\ r.head = ChainHead(r)
    BY <1>1, <1>3, <2>2 DEF ValidManifest
  <2>4. next.retained[b].retiredAt = IF b = 1 THEN m.gen + 1 ELSE m.retained[b - 1].retiredAt
    <3>1. CASE b = 1
      BY <1>1, <1>5, <1>7, <3>1
    <3>2. CASE b # 1
      <4>1. b \in 2 .. Len(next.retained)
        BY <1>1, <1>7, <3>2
      <4> QED BY <2>1, <3>2, <4>1
    <3> QED BY <3>1, <3>2
  <2> QED BY <2>2, <2>3, <2>4
<1> QED BY <1>4, <1>6, <1>7

\* A checkpoint replacement (compactManifest).
LEMMA CompactEncodable ==
  ASSUME NEW m \in Manifest_, Chained(m), Encodable(m), Present(m),
         NEW prefix \in Seq(Increments(ID, Nat)), Len(prefix) > 0,
         PrefixPresent(m, prefix), NEW cpID \in ID, NEW keep \in Nat,
         \A k \in ManifestRoots(m) :
            k.id = cpID => k = Key("checkpoint", PlanLast(prefix).gen, cpID)
  PROVE  /\ ValidManifest(CompactManifest(m, prefix, cpID, keep))
         /\ Encodable(CompactManifest(m, prefix, cpID, keep))
<1> DEFINE next == CompactManifest(m, prefix, cpID, keep)
           n    == Len(prefix)
           k    == Len(m.increments)
<1>1. next \in Manifest_ /\ Folded(m, next, n, cpID) /\ PlanLast(prefix) = m.increments[n]
  BY CompactFolds
<1> HIDE DEF next, n
<1>2. /\ m.gen \in Nat /\ m.checkpoint.through \in Nat /\ k \in Nat
      /\ next.increments \in Seq(Increments(ID, Nat)) /\ Len(m.retained) \in Nat
  BY <1>1, ManifestParts
<1>3. ValidManifest(m) /\ FinalGen(m) <= m.gen
  BY DEF Encodable
<1>4. /\ m.increments[n].gen = m.checkpoint.through + n
      /\ \A c \in 0 .. Len(next.retained) : CheckChain(ChainAt(next, c))
  BY <1>1, <1>3, FoldedChains
<1>5. DescriptorsAgree(next)
  BY <1>1, <1>3, FoldedAgrees
<1>6. \A c \in DOMAIN next.retained :
         LET r == next.retained[c] IN
         /\ r.retiredAt < IF c = 1 THEN next.gen + 1 ELSE next.retained[c - 1].retiredAt
         /\ r.retiredAt > FinalGen(r)
         /\ r.head = ChainHead(r)
  BY <1>1, FoldedRetains
<1>7. CheckChain(m) /\ CheckChain(next)
  <2>1. /\ 0 \in 0 .. Len(m.retained) /\ ChainAt(m, 0) = m
        /\ 0 \in 0 .. Len(next.retained) /\ ChainAt(next, 0) = next
    BY <1>1, <1>2, ManifestParts DEF ChainAt
  <2> QED BY <1>3, <1>4, <2>1 DEF ValidManifest
<1>8. /\ n \in 1 .. k /\ next.gen = m.gen + 1 /\ Len(next.increments) = k - n
      /\ next.checkpoint.through = m.increments[n].gen
      /\ next.checkpoint.head = m.increments[n].head
      /\ next.head = IF k = n THEN m.increments[n].head ELSE m.increments[k].head
      /\ \A i \in 1 .. k - n : next.increments[i] = m.increments[n + i]
  BY <1>1 DEF Folded, Checkpoint
<1>9. m.checkpoint.through + k <= m.gen
  BY <1>3, <1>7, FinalOfChain
<1>10. FinalGen(next) = m.checkpoint.through + k
  <2>1. FinalGen(next) = next.checkpoint.through + (k - n)
    BY <1>1, <1>7, <1>8, FinalOfChain
  <2>2. n \in Nat /\ k \in Nat /\ n <= k
    BY <1>2, <1>8
  <2> HIDE DEF k
  <2> QED BY <1>2, <1>4, <1>8, <2>1, <2>2
<1>11. next.head = ChainHead(next)
  <2>1. CASE k = n
    <3>1. next.increments = <<>>
      BY <1>2, <1>8, <2>1, EmptySeq, ElementType
    <3> QED BY <1>8, <2>1, <3>1 DEF ChainHead
  <2>2. CASE k # n
    <3>1. next.increments # <<>> /\ k - n \in 1 .. k - n /\ n + (k - n) = k
      BY <1>2, <1>8, <2>2, EmptySeq
    <3> QED BY <1>8, <2>2, <3>1 DEF ChainHead
  <2> QED BY <2>1, <2>2
<1>12. next.gen >= 1 /\ next.checkpoint.through <= next.gen /\ FinalGen(next) <= next.gen
  BY <1>2, <1>4, <1>8, <1>9, <1>10
<1>13. ValidManifest(next)
  BY <1>4, <1>5, <1>6, <1>11, <1>12, Zenon DEF ValidManifest
<1> QED BY <1>12, <1>13 DEF Encodable, next

-----------------------------------------------------------------------------
(* Every step keeps what writers build encodable.                           *)

\* What a writer can rely on (validateManifest against buildProposal's UUIDs).
LEMMA EncodeParts ==
  ASSUME Inv, EncodeInv, NEW w \in Writers
  PROVE  /\ EncodeJob(job[w], DrawnIDs) /\ Encodable(current)
         /\ Publications(current) \subseteq DrawnIDs
         /\ job[w] \in Jobs /\ Shaped(job[w]) /\ TypeInv /\ seq[w] \in Nat
         /\ job[w].obs \in Manifest_ /\ job[w].prop.manifest \in Manifest_
BY WriterOK, JobParts DEF EncodeInv, Inv, PackInv, StoreOK, TypeInv, TypeOK

\* A step of one writer leaves the others as they were.
LEMMA EncodeKept ==
  ASSUME TypeInv, TypeInv', EncodeInv, NEW w \in Writers,
         \A v \in Writers \ {w} : job'[v] = job[v],
         \A v \in Writers : seq'[v] >= seq[v],
         Encodable(current'), \A r \in writes' : Encodable(r.next),
         EncodeJob(job'[w], DrawnIDs')
  PROVE  EncodeInv'
<1>1. DrawnIDs \subseteq DrawnIDs'
  BY DrawnGrows
<1>2. ASSUME NEW v \in Writers, v # w
      PROVE  EncodeJob(job'[v], DrawnIDs')
  <2>1. EncodeJob(job[v], DrawnIDs) /\ job'[v] = job[v]
    BY <1>2 DEF EncodeInv
  <2> QED BY <1>1, <2>1 DEF EncodeJob
<1> QED BY <1>2 DEF EncodeInv

\* A job at rest holds nothing to encode, but for the plan it just confirmed.
LEMMA RestingEncode ==
  ASSUME NEW k, NEW j, NEW drawn, NEW drawn2, Resting(k, j), Shaped(j),
         EncodeJob(j, drawn), drawn \subseteq drawn2
  PROVE  EncodeJob(k, drawn2)
<1>1. k.obs \in {EmptyManifest, j.obs} /\ ~Proposing(k)
  BY DEF Resting, Proposing
<1>2. Encodable(k.obs) /\ Publications(k.obs) \subseteq drawn2
  BY <1>1, EmptyFacts DEF EncodeJob, Encodable, Present
<1>3. ASSUME Planning(k)
      PROVE  \A r \in ManifestRoots(k.obs) : r.id = k.cp.id => r = k.cp
  <2>1. j.pc = "cpplan" /\ k.obs = j.obs /\ k.cp = j.cp
    BY <1>3 DEF Resting, Planning
  <2>2. Planning(j)
    BY <2>1 DEF Planning, Shaped
  <2> QED BY <2>1, <2>2 DEF EncodeJob
<1> QED BY <1>1, <1>2, <1>3 DEF EncodeJob

\* Waiting, recording, cleaning: nothing new is built or sent.
LEMMA EncodeQuiet ==
  ASSUME Inv, EncodeInv, TypeInv', NEW w \in Writers,
         \/ StartPull(w) \/ StartCommit(w) \/ StartRecovery(w) \/ EngineFails(w)
         \/ ApplyRemote(w) \/ MergeToRemote(w) \/ LocalFails(w) \/ RecoverFails(w)
         \/ Abandon(w) \/ RereadCurrent(w) \/ CheckpointPlan(w) \/ CheckpointUpload(w)
         \/ CheckpointLost(w) \/ CheckpointLookup(w) \/ Cleanup(w)
         \/ PublishLost(w) \/ PublishRefused(w) \/ Accept(w)
  PROVE  EncodeInv'
<1>1. EncodeJob(job[w], DrawnIDs) /\ TypeInv /\ Shaped(job[w])
  BY EncodeParts
<1>2. Resting(job'[w], job[w]) /\ \A v \in Writers \ {w} : job'[v] = job[v]
  BY <1>1, RestingAfter, Zenon
<1>3. current' = current /\ writes' = writes
  BY DEF StartPull, StartCommit, StartRecovery, EngineFails, ApplyRemote, MergeToRemote,
         LocalFails, RecoverFails, Abandon, RereadCurrent, CheckpointPlan, CheckpointUpload,
         CheckpointLost, CheckpointLookup, Cleanup, CleanupList, CleanupRoots,
         CleanupDelete, PublishLost, PublishRefused, Accept, storeVars
<1>4. \A v \in Writers : seq'[v] >= seq[v]
  <2>1. CASE seq' = seq
    BY <1>1, <2>1 DEF TypeInv, TypeOK
  <2>2. CASE CheckpointUpload(w)
    BY <1>1, <2>2 DEF CheckpointUpload, TypeInv, TypeOK
  <2> QED
    BY <2>1, <2>2 DEF StartPull, StartCommit, StartRecovery, EngineFails, ApplyRemote,
       MergeToRemote, LocalFails, RecoverFails, Abandon, RereadCurrent, CheckpointPlan,
       CheckpointLost, CheckpointLookup, Cleanup, CleanupList, CleanupRoots, CleanupDelete,
       PublishLost, PublishRefused, Accept
<1>5. DrawnIDs \subseteq DrawnIDs'
  BY <1>1, <1>4, DrawnGrows
<1>6. EncodeJob(job'[w], DrawnIDs')
  BY <1>1, <1>2, <1>5, RestingEncode
<1> QED
  BY <1>1, <1>2, <1>3, <1>4, <1>6, EncodeKept DEF EncodeInv

\* What is observed was accepted, so it is valid and its ids are drawn; the
\* effort's checkpoint is in it only as planned.
LEMMA EncodeReading ==
  ASSUME Inv, EncodeInv, TypeInv', NEW w \in Writers, ReadCurrent(w) \/ LoadPacks(w)
  PROVE  EncodeInv'
<1> DEFINE j == job[w]
<1>1. /\ TypeInv /\ j \in Jobs /\ Shaped(j) /\ EncodeJob(j, DrawnIDs)
      /\ Encodable(current) /\ Publications(current) \subseteq DrawnIDs
  BY EncodeParts
<1>2. current' = current /\ writes' = writes /\ seq' = seq
  BY DEF ReadCurrent, LoadPacks, storeVars
<1>3. DrawnIDs' = DrawnIDs /\ \A v \in Writers : seq'[v] >= seq[v]
  BY <1>1, <1>2 DEF DrawnIDs, TypeInv, TypeOK
<1>4. AfterRead(j.op) \in {"merge", "cpplan", "apply"}
  BY <1>1, JobStates
<1>5. j.op = "checkpoint" => \A r \in ManifestRoots(current) : r.id = j.cp.id => r = j.cp
  BY WriterOK DEF CurrentOK
<1> HIDE DEF j
<1>6. \E k : Become(w, k) /\ EncodeJob(k, DrawnIDs)
  <2>1. CASE ReadCurrent(w)
    <3>1. ASSUME NEW p \in {"merge", "cpplan", "apply", "load"}
          PROVE  EncodeJob([j EXCEPT !.obs = current, !.pc = p], DrawnIDs)
      <4> DEFINE k == [j EXCEPT !.obs = current, !.pc = p]
      <4>1. k.obs = current /\ k.pc = p /\ k.cp = j.cp /\ k.op = j.op
        BY <1>1 DEF Jobs
      <4> HIDE DEF k
      <4>2. EncodeJob(k, DrawnIDs)
        BY <1>1, <1>5, <4>1 DEF EncodeJob, Proposing, Planning
      <4> QED
        BY <4>2 DEF k
    <3>2. EncodeJob(FailedRead(j), DrawnIDs)
      BY <1>1, RestingStates, RestingEncode
    <3>3. \/ Become(w, [j EXCEPT !.obs = current, !.pc = AfterRead(j.op)])
          \/ Become(w, FailedRead(j))
          \/ Become(w, [j EXCEPT !.obs = current, !.pc = "load"])
      BY <2>1 DEF ReadCurrent, j
    <3> QED
      BY <1>4, <3>1, <3>2, <3>3
  <2>2. CASE LoadPacks(w)
    <3> DEFINE specs == ImportSpecs(j.obs)
    <3>1. PICK all :
            LET got == {i \in DOMAIN specs : \A k \in 1 .. i : Available(w, specs[k], all)} IN
            Become(w, [j EXCEPT !.pc = IF got = DOMAIN specs THEN AfterRead(j.op)
                                       ELSE "reread"])
      BY <2>2, Zenon DEF LoadPacks, j
    <3> DEFINE got == {i \in DOMAIN specs : \A k \in 1 .. i : Available(w, specs[k], all)}
               p   == IF got = DOMAIN specs THEN AfterRead(j.op) ELSE "reread"
               k   == [j EXCEPT !.pc = p]
    <3>2. Become(w, k)
      BY <3>1
    <3>3. p \in {"merge", "cpplan", "apply", "reread"} /\ j.pc = "load"
      BY <1>4, <2>2 DEF LoadPacks, j
    <3> HIDE DEF got, p, specs
    <3>4. k.pc = p /\ k.obs = j.obs /\ k.op = j.op /\ k.cp = j.cp
      BY <1>1 DEF Jobs
    <3> HIDE DEF k
    <3>5. EncodeJob(k, DrawnIDs)
      BY <1>1, <3>3, <3>4 DEF EncodeJob, Proposing, Planning
    <3> QED
      BY <3>2, <3>5
  <2> QED
    BY <2>1, <2>2
<1>7. PICK k : Become(w, k) /\ EncodeJob(k, DrawnIDs)
  BY <1>6
<1>8. EncodeJob(job'[w], DrawnIDs') /\ \A v \in Writers \ {w} : job'[v] = job[v]
  BY <1>1, <1>3, <1>7, Replaced
<1> QED
  BY <1>1, <1>2, <1>3, <1>8, EncodeKept DEF EncodeInv

\* Building a proposal, rebuilding it as a checkpoint, uploading its pack.
LEMMA EncodePropose ==
  ASSUME Inv, EncodeInv, TypeInv', NEW w \in Writers,
         BuildProposal(w) \/ CompactOnQuota(w) \/ UploadPack(w) \/ LookupPublication(w)
  PROVE  EncodeInv'
<1> DEFINE j == job[w]
<1>1. /\ TypeInv /\ j \in Jobs /\ Shaped(j) /\ EncodeJob(j, DrawnIDs) /\ seq[w] \in Nat
      /\ j.obs \in Manifest_ /\ j.prop.manifest \in Manifest_ /\ ProposalOK(j, Own(w))
  BY EncodeParts, WriterOK
<1>2. current' = current /\ writes' = writes
  BY DEF BuildProposal, CompactOnQuota, UploadPack, LookupPublication, storeVars
<1>3. \A v \in Writers : seq'[v] >= seq[v]
  <2>1. CASE seq' = seq
    BY <1>1, <2>1 DEF TypeInv, TypeOK
  <2>2. CASE CompactOnQuota(w)
    BY <1>1, <2>2 DEF CompactOnQuota, TypeInv, TypeOK
  <2>3. CASE BuildProposal(w)
    <3>1. seq' = [seq EXCEPT ![w] = @ + IF Present(j.obs) THEN 1 ELSE 2]
      BY <2>3, Zenon DEF BuildProposal
    <3> QED
      BY <1>1, <3>1 DEF TypeInv, TypeOK
  <2> QED
    BY <2>1, <2>2, <2>3 DEF UploadPack, LookupPublication
<1>4. DrawnIDs \subseteq DrawnIDs'
  BY <1>1, <1>3, DrawnGrows
<1>5. j.pc \in {"merge", "upload", "lookup"} /\ j.op = "commit"
  BY <1>1 DEF Shaped, BuildProposal, CompactOnQuota, UploadPack, LookupPublication
<1> HIDE DEF j
<1>6. ASSUME NEW k, k.obs = j.obs, k.op = "commit",
             Proposing(k) => Encodable(k.prop.manifest)
      PROVE  EncodeJob(k, DrawnIDs')
  BY <1>1, <1>4, <1>6 DEF EncodeJob, Planning
<1>7. \E k : Become(w, k) /\ EncodeJob(k, DrawnIDs')
  <2>1. CASE BuildProposal(w)
    <3> DEFINE pub  == <<w, seq[w] + 1>>
               cpID == <<w, seq[w] + 2>>
               m    == IF Present(j.obs) THEN IncrementManifest(j.obs, pub)
                                         ELSE FirstManifest(pub, cpID)
               key  == IF Present(j.obs) THEN Key("increment", NextIncrementGen(j.obs), pub)
                                         ELSE Key("checkpoint", 1, cpID)
               prop == [pub |-> pub, key |-> key, manifest |-> m, compacting |-> FALSE]
               k    == [j EXCEPT !.prop = prop, !.pc = "upload"]
    <3>1. Become(w, k)
      BY <2>1, Zenon DEF BuildProposal, j
    <3>2. pub \in ID /\ cpID \in ID /\ pub \notin DrawnIDs
      BY <1>1, DrawnType, DrawnFacts
    <3>3. Encodable(m)
      <4> HIDE DEF pub, cpID
      <4>1. CASE Present(j.obs)
        <5>1. Encodable(j.obs) /\ pub \notin Publications(j.obs)
          BY <1>1, <3>2 DEF EncodeJob
        <5>2. Encodable(IncrementManifest(j.obs, pub))
          BY <1>1, <3>2, <4>1, <5>1, IncrementEncodable
        <5> QED
          BY <4>1, <5>2
      <4>2. CASE ~Present(j.obs)
        BY <3>2, <4>2, FirstEncodable
      <4> QED
        BY <4>1, <4>2
    <3> HIDE DEF m, key, pub
    <3>4. k.obs = j.obs /\ k.op = "commit" /\ k.prop.manifest = m
      BY <1>1, <1>5 DEF Jobs
    <3> HIDE DEF k
    <3> QED
      BY <1>6, <3>1, <3>3, <3>4
  <2>2. CASE CompactOnQuota(w)
    <3> DEFINE cpID == <<w, seq[w] + 1>>
               inc  == j.prop.manifest
               m    == CompactingManifest(inc, cpID)
               key  == Key("checkpoint", j.prop.key.gen, cpID)
               prop == [pub |-> j.prop.pub, key |-> key, manifest |-> m, compacting |-> TRUE]
               k    == [j EXCEPT !.prop = prop]
    <3>1. Become(w, k) /\ j.pc = "upload" /\ j.prop.key.kind = "increment"
      BY <2>2, Zenon DEF CompactOnQuota, j
    <3>2. cpID \in ID /\ inc \in Manifest_ /\ Len(inc.increments) > 0
      BY <1>1, <3>1, DrawnType DEF Shaped
    <3>3. Encodable(inc) /\ Present(inc)
      <4>1. Encodable(inc) /\ Follows(j.prop.key, j.obs, inc)
        BY <1>1, <3>1 DEF EncodeJob, ProposalOK, Proposing
      <4> QED
        BY <1>1, <4>1, ManifestParts DEF Follows, Present
    <3> HIDE DEF cpID, inc
    <3>4. Encodable(m)
      BY <3>2, <3>3, CompactingEncodable
    <3> HIDE DEF m, key
    <3>5. k.obs = j.obs /\ k.op = "commit" /\ k.prop.manifest = m
      BY <1>1, <1>5 DEF Jobs
    <3> HIDE DEF k
    <3> QED
      BY <1>6, <3>1, <3>4, <3>5
  <2>3. CASE UploadPack(w) \/ LookupPublication(w)
    <3> DEFINE k(p) == [j EXCEPT !.pc = p]
    <3>1. Become(w, Idle) \/ (j.pc = "upload" /\ Become(w, k("cas"))) \/ Become(w, k("accept"))
      BY <2>3 DEF UploadPack, LookupPublication, j
    <3>2. \A p \in {"cas", "accept"} :
            /\ k(p).pc = p /\ k(p).obs = j.obs /\ k(p).op = j.op /\ k(p).prop = j.prop
      BY <1>1 DEF Jobs
    <3> HIDE DEF k
    <3>3. EncodeJob(Idle, DrawnIDs')
      BY <1>1, <1>4, RestingStates, RestingEncode
    <3>4. j.pc = "upload" => EncodeJob(k("cas"), DrawnIDs')
      BY <1>1, <1>5, <1>6, <3>2 DEF EncodeJob, Proposing
    <3>5. EncodeJob(k("accept"), DrawnIDs')
      BY <1>5, <1>6, <3>2 DEF Proposing
    <3> QED
      BY <3>1, <3>3, <3>4, <3>5
  <2> QED
    BY <2>1, <2>2, <2>3
<1>8. PICK k : Become(w, k) /\ EncodeJob(k, DrawnIDs')
  BY <1>7
<1>9. EncodeJob(job'[w], DrawnIDs') /\ \A v \in Writers \ {w} : job'[v] = job[v]
  BY <1>1, <1>8, Replaced
<1> QED
  BY <1>1, <1>2, <1>3, <1>9, EncodeKept DEF EncodeInv

\* What a writer sends (marshalled by publish and runCheckpoint) is valid.
LEMMA SentEncodable ==
  ASSUME Inv, EncodeInv, NEW w \in Writers
  PROVE  /\ job[w].pc = "cas" =>
              ValidManifest(job[w].prop.manifest) /\ Encodable(job[w].prop.manifest)
         /\ job[w].pc = "cpcas" => ValidManifest(CheckpointNext(w)) /\ Encodable(CheckpointNext(w))
<1> DEFINE j      == job[w]
           prefix == PlanPrefix(j.prop.manifest, CheckpointPacks)
<1>1. /\ j \in Jobs /\ Shaped(j) /\ EncodeJob(j, DrawnIDs) /\ ProposalOK(j, Own(w))
      /\ j.obs \in Manifest_ /\ j.prop.manifest \in Manifest_ /\ j.cp.id \in ID
  BY EncodeParts, WriterOK, JobParts
<1>2. ASSUME j.pc = "cas"
      PROVE  ValidManifest(j.prop.manifest) /\ Encodable(j.prop.manifest)
  <2>1. Encodable(j.prop.manifest) /\ Follows(j.prop.key, j.obs, j.prop.manifest)
    BY <1>1, <1>2 DEF EncodeJob, ProposalOK, Proposing
  <2>2. Present(j.prop.manifest)
    BY <1>1, <2>1, ManifestParts DEF Follows, Present
  <2> QED BY <2>1, <2>2 DEF Encodable
<1>3. ASSUME j.pc = "cpcas"
      PROVE  ValidManifest(CheckpointNext(w)) /\ Encodable(CheckpointNext(w))
  <2>1. j.op = "checkpoint" /\ Planning(j)
    BY <1>1, <1>3 DEF Shaped, Planning
  <2>2. /\ Chained(j.obs) /\ PrefixPresent(j.obs, prefix) /\ Encodable(j.obs)
        /\ j.cp = Key("checkpoint", PlanLast(prefix).gen, j.cp.id)
        /\ \A r \in ManifestRoots(j.obs) : r.id = j.cp.id => r = j.cp
    BY <1>1, <1>3, <2>1 DEF ProposalOK, EncodeJob
  <2>3. prefix \in Seq(Increments(ID, Nat)) /\ Len(prefix) > 0
    <3>1. /\ j.prop.manifest.increments \in Seq(Increments(ID, Nat))
          /\ Len(j.prop.manifest.increments) >= CheckpointPacks
      BY <1>1, <2>1, ManifestParts DEF Shaped
    <3> QED
      BY <3>1, PrefixType, ConstantsAssumption DEF PlanPrefix
  <2>4. CheckpointNext(w) = CompactManifest(j.obs, prefix, j.cp.id, RetainedCheckpoints)
    BY DEF CheckpointNext, Plan
  <2>5. RetainedCheckpoints \in Nat
    BY ConstantsAssumption
  <2> HIDE DEF j, prefix
  <2>6. Present(j.obs)
    <3>1. Len(EmptyManifest.increments) = 0
      BY DEF EmptyManifest
    <3>2. Len(j.obs.increments) >= Len(prefix) /\ Len(prefix) \in Nat
      BY <2>2, <2>3, ElementType DEF PrefixPresent
    <3> QED BY <2>2, <2>3, <3>1, <3>2 DEF Chained
  <2> QED BY <1>1, <2>2, <2>3, <2>4, <2>5, <2>6, CompactEncodable
<1> QED BY <1>2, <1>3

\* The conditional writes: what is adopted or left in flight is valid.
LEMMA EncodePublish ==
  ASSUME Inv, EncodeInv, TypeInv', NEW w \in Writers,
         \/ PublishAccepted(w) \/ PublishResent(w) \/ PublishUnanswered(w)
         \/ CheckpointAccepted(w) \/ CheckpointResent(w) \/ CheckpointUnanswered(w)
  PROVE  EncodeInv'
<1> DEFINE j == job[w]
<1>1. TypeInv /\ j \in Jobs /\ Shaped(j) /\ EncodeJob(j, DrawnIDs) /\ Encodable(current)
  BY EncodeParts
<1>2. seq' = seq
  BY DEF PublishAccepted, PublishResent, PublishUnanswered, CheckpointAccepted,
         CheckpointResent, CheckpointUnanswered
<1>3. DrawnIDs' = DrawnIDs /\ \A v \in Writers : seq'[v] >= seq[v]
  BY <1>1, <1>2 DEF DrawnIDs, TypeInv, TypeOK
<1>4. PICK m : /\ Encodable(m) /\ current' \in {current, m}
               /\ \A r \in writes' : r \in writes \/ r.next = m
  <2>1. CASE PublishAccepted(w) \/ PublishResent(w) \/ PublishUnanswered(w)
    <3>1. Encodable(j.prop.manifest)
      BY <2>1, SentEncodable
         DEF PublishAccepted, PublishResent, PublishUnanswered, Publishing
    <3>2. /\ current' \in {current, j.prop.manifest}
          /\ \A r \in writes' : r \in writes \/ r.next = j.prop.manifest
      BY <2>1 DEF PublishAccepted, PublishResent, PublishUnanswered, LoseResponse, Land, Adopt
    <3> QED BY <3>1, <3>2
  <2>2. CASE CheckpointAccepted(w) \/ CheckpointResent(w) \/ CheckpointUnanswered(w)
    <3>1. Encodable(CheckpointNext(w))
      BY <2>2, SentEncodable
         DEF CheckpointAccepted, CheckpointResent, CheckpointUnanswered, Compacting
    <3>2. /\ current' \in {current, CheckpointNext(w)}
          /\ \A r \in writes' : r \in writes \/ r.next = CheckpointNext(w)
      BY <2>2
         DEF CheckpointAccepted, CheckpointResent, CheckpointUnanswered, LoseResponse, Land, Adopt
    <3> QED BY <3>1, <3>2
  <2> QED BY <2>1, <2>2
<1>5. EncodeJob(job'[w], DrawnIDs) /\ \A v \in Writers \ {w} : job'[v] = job[v]
  <2>1. CASE PublishAccepted(w) \/ PublishUnanswered(w)
    <3>1. PICK p \in {"accept", "lookup"} : Become(w, Spent(j, p))
      BY <2>1 DEF PublishAccepted, PublishUnanswered, j
    <3> DEFINE k == Spent(j, p)
    <3>2. k.pc = p /\ k.obs = EmptyManifest
      BY <1>1 DEF Spent, Jobs
    <3> HIDE DEF k
    <3>3. EncodeJob(k, DrawnIDs)
      BY <3>2, EmptyFacts DEF EncodeJob, Encodable, Present, Proposing, Planning
    <3> QED BY <1>1, <3>1, <3>3, Replaced DEF k
  <2>2. CASE \/ PublishResent(w) \/ CheckpointAccepted(w) \/ CheckpointResent(w)
             \/ CheckpointUnanswered(w)
    <3>1. Resting(job'[w], j) /\ \A v \in Writers \ {w} : job'[v] = job[v]
      BY <1>1, <2>2, RestingAfter
    <3> QED BY <1>1, <3>1, RestingEncode
  <2> QED BY <2>1, <2>2
<1>6. Encodable(current') /\ \A r \in writes' : Encodable(r.next)
  BY <1>1, <1>4 DEF EncodeInv
<1> QED
  BY <1>1, <1>3, <1>5, <1>6, EncodeKept

\* Requests that reach the store after their sender gave up.
LEMMA EncodeLate ==
  ASSUME EncodeInv, LateWrite \/ LateDelete
  PROVE  EncodeInv'
<1>1. job' = job /\ seq' = seq
  BY DEF LateWrite, LateDelete
<1>2. DrawnIDs' = DrawnIDs
  BY <1>1 DEF DrawnIDs
<1>3. writes' \subseteq writes /\ (current' = current \/ \E r \in writes : current' = r.next)
  BY DEF LateWrite, LateDelete, Land, Adopt
<1> QED
  BY <1>1, <1>2, <1>3 DEF EncodeInv

\* It holds in the empty store.
LEMMA EncodeInit == Init => EncodeInv
<1> SUFFICES ASSUME Init PROVE EncodeInv
  OBVIOUS
<1>1. ~Present(EmptyManifest) /\ Publications(EmptyManifest) = {}
  BY EmptyFacts DEF Present
<1>2. Idle.pc = "idle" /\ Idle.obs = EmptyManifest
  BY DEF Idle
<1>3. \A drawn : EncodeJob(Idle, drawn)
  BY <1>1, <1>2 DEF EncodeJob, Encodable, Proposing, Planning
<1>4. current = EmptyManifest /\ writes = {} /\ \A w \in Writers : job[w] = Idle
  BY DEF Init
<1> QED
  BY <1>1, <1>3, <1>4 DEF EncodeInv, Encodable

\* Every step preserves it.
LEMMA EncodeStep == Inv /\ EncodeInv /\ [Next]_vars => EncodeInv'
<1> SUFFICES ASSUME Inv, EncodeInv, [Next]_vars PROVE EncodeInv'
  OBVIOUS
<1>1. TypeInv'
  BY TypeStep DEF Inv
<1>2. CASE UNCHANGED vars
  <2>1. DrawnIDs' = DrawnIDs
    BY <1>2 DEF vars, DrawnIDs
  <2> QED
    BY <1>2, <2>1 DEF vars, EncodeInv
<1>3. CASE LateWrite \/ LateDelete
  BY <1>3, EncodeLate
<1>4. ASSUME NEW w \in Writers,
             StartPull(w) \/ StartCommit(w) \/ StartRecovery(w) \/ Work(w)
      PROVE  EncodeInv'
  <2>1. CASE StartPull(w) \/ StartCommit(w) \/ StartRecovery(w) \/ Abandon(w) \/ Cleanup(w)
    BY <1>1, <2>1, EncodeQuiet
  <2>2. CASE Read(w)
    BY <1>1, <2>2, EncodeQuiet, EncodeReading DEF Read
  <2>3. CASE Commit(w)
    BY <1>1, <2>3, EncodeQuiet, EncodePropose, EncodePublish DEF Commit
  <2>4. CASE CheckpointEffort(w)
    BY <1>1, <2>4, EncodeQuiet, EncodePublish DEF CheckpointEffort
  <2> QED
    BY <1>4, <2>1, <2>2, <2>3, <2>4 DEF Work
<1> QED
  BY <1>2, <1>3, <1>4 DEF Next

\* EncodeManifest never refuses what a writer built, however the writers'
\* increments, compactions, checkpoints and late writes interleave.
THEOREM ProposalsAlwaysEncode == Spec => []ProposalsEncode
<1>1. Inv /\ EncodeInv => ProposalsEncode
  BY SentEncodable DEF ProposalsEncode
<1> QED
  BY PackInit, PackStep, EncodeInit, EncodeStep, <1>1, PTL DEF Spec
=============================================================================
