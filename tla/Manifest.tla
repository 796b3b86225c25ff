------------------------------ MODULE Manifest ------------------------------
(***************************************************************************)
(* The remote manifest `current`: its descriptors, the rules               *)
(* validateManifest imposes, the rewrites a commit and a checkpoint make   *)
(* of it, and the questions other code asks of it.                         *)
(*                                                                         *)
(* Abstraction.  UUIDs and Git object ids are opaque values; a commit is   *)
(* named by the publication that created it, so a head is a publication    *)
(* id.  Pack digests and sizes are left out: a descriptor's key stands for *)
(* the pack bytes.  The implicit empty notebook (no `current` object) is   *)
(* the manifest of generation 0, as in notebook.emptyRemote.               *)
(***************************************************************************)
EXTENDS Integers, Sequences

(***************************************************************************)
(* Descriptors.                                                            *)
(***************************************************************************)
Key(kind, gen, id) == [kind |-> kind, gen |-> gen, id |-> id]

NoID == <<>>
NoKey == Key("checkpoint", 0, NoID)

Checkpoint(id, pub, through, head) ==
  [id |-> id, pub |-> pub, through |-> through, head |-> head,
   key |-> Key("checkpoint", through, id)]

Increment(gen, pub, parent, head) ==
  [gen |-> gen, pub |-> pub, parent |-> parent, head |-> head,
   key |-> Key("increment", gen, pub)]

Retained(retiredAt, head, checkpoint, increments) ==
  [retiredAt |-> retiredAt, head |-> head,
   checkpoint |-> checkpoint, increments |-> increments]

EmptyManifest ==
  [gen |-> 0, head |-> NoID, checkpoint |-> Checkpoint(NoID, NoID, 0, NoID),
   increments |-> <<>>, retained |-> <<>>]

Present(m) == m.gen > 0

(***************************************************************************)
(* The types, for ids drawn from ID and generations from Gen.              *)
(***************************************************************************)
Keys(ID, Gen) == [kind : {"checkpoint", "increment"}, gen : Gen, id : ID]

Checkpoints(ID, Gen) ==
  [id : ID, pub : ID, through : Gen, head : ID, key : Keys(ID, Gen)]

Increments(ID, Gen) ==
  [gen : Gen, pub : ID, parent : ID, head : ID, key : Keys(ID, Gen)]

Retireds(ID, Gen) ==
  [retiredAt : Gen, head : ID, checkpoint : Checkpoints(ID, Gen),
   increments : Seq(Increments(ID, Gen))]

Manifests(ID, Gen) ==
  [gen : Gen, head : ID, checkpoint : Checkpoints(ID, Gen),
   increments : Seq(Increments(ID, Gen)), retained : Seq(Retireds(ID, Gen))]

(***************************************************************************)
(* A chain is one checkpoint and the increments after it; a manifest holds *)
(* the active chain and one chain per retained generation.                 *)
(***************************************************************************)
ChainHead(c) ==
  IF c.increments = <<>> THEN c.checkpoint.head
  ELSE c.increments[Len(c.increments)].head

FinalGen(c) ==
  IF c.increments = <<>> THEN c.checkpoint.through
  ELSE c.increments[Len(c.increments)].gen

ChainKeys(c) ==
  {c.checkpoint.key} \cup {c.increments[i].key : i \in DOMAIN c.increments}

\* What checkChain requires of one chain on its own: the keys bind kind,
\* generation and id, generations are consecutive from the cutoff, and each
\* increment's parent is the head before it.
CheckChain(c) ==
  /\ c.checkpoint.key = Key("checkpoint", c.checkpoint.through, c.checkpoint.id)
  /\ \A i \in DOMAIN c.increments :
       LET inc == c.increments[i] IN
       /\ inc.gen = c.checkpoint.through + i
       /\ inc.parent = IF i = 1 THEN c.checkpoint.head
                                ELSE c.increments[i - 1].head
       /\ inc.key = Key("increment", inc.gen, inc.pub)

\* The active chain is number 0, the retained ones follow in order.
ChainAt(m, c) == IF c = 0 THEN m ELSE m.retained[c]

DescriptorAt(m, c, i) ==
  IF i = 0 THEN ChainAt(m, c).checkpoint ELSE ChainAt(m, c).increments[i]

Positions(m) ==
  {<<0, i>> : i \in 0 .. Len(m.increments)}
    \cup UNION {{<<c, i>> : i \in 0 .. Len(m.retained[c].increments)} :
                  c \in DOMAIN m.retained}

\* seenKeys, seenCheckpointIDs and pubHeads of validateManifest: no key and no
\* checkpoint id occurs twice, and a publication names one head wherever it is.
DescriptorsAgree(m) ==
  \A p, q \in Positions(m) :
    LET d == DescriptorAt(m, p[1], p[2])
        e == DescriptorAt(m, q[1], q[2]) IN
    /\ d.key = e.key => p = q
    /\ (p[2] = 0 /\ q[2] = 0 /\ d.id = e.id) => p = q
    /\ d.pub = e.pub => d.head = e.head

\* validateManifest, which both DecodeManifest and EncodeManifest apply.
ValidManifest(m) ==
  /\ m.gen >= 1
  /\ \A c \in 0 .. Len(m.retained) : CheckChain(ChainAt(m, c))
  /\ DescriptorsAgree(m)
  /\ m.head = ChainHead(m)
  /\ m.checkpoint.through <= m.gen
  /\ \A c \in DOMAIN m.retained :
       LET r == m.retained[c] IN
       /\ r.retiredAt < IF c = 1 THEN m.gen + 1 ELSE m.retained[c - 1].retiredAt
       /\ r.retiredAt > FinalGen(r)
       /\ r.head = ChainHead(r)

\* CheckManifestRollback: current is older than the recorded baseline.
RolledBack(m, baselineGen) == m.gen < baselineGen

(***************************************************************************)
(* What other code asks of a manifest.                                     *)
(***************************************************************************)
\* manifestRoots: every pack key an active or retained descriptor references.
ManifestRoots(m) ==
  IF ~Present(m) THEN {}
  ELSE ChainKeys(m) \cup UNION {ChainKeys(m.retained[c]) : c \in DOMAIN m.retained}

\* publicationIn: some active or retained descriptor records the publication.
ChainPublications(c) ==
  {c.checkpoint.pub} \cup {c.increments[i].pub : i \in DOMAIN c.increments}

Publications(m) ==
  IF ~Present(m) THEN {}
  ELSE ChainPublications(m)
         \cup UNION {ChainPublications(m.retained[c]) : c \in DOMAIN m.retained}

PublicationIn(m, pub) == pub \in Publications(m)

\* checkpointAccepted: some active or retained checkpoint has the id.
CheckpointIn(m, id) ==
  /\ Present(m)
  /\ \/ m.checkpoint.id = id
     \/ \E c \in DOMAIN m.retained : m.retained[c].checkpoint.id = id

\* The packs importRemote needs, in import order: the checkpoint's, then the
\* increments'.
ImportSpecs(m) == <<[key |-> m.checkpoint.key, head |-> m.checkpoint.head]>>
  \o [i \in 1 .. Len(m.increments) |->
       [key |-> m.increments[i].key, head |-> m.increments[i].head]]

(***************************************************************************)
(* The manifests a writer proposes.                                        *)
(***************************************************************************)
\* buildFirstProposal: generation 1, a checkpoint and no tail.
FirstManifest(pub, cpID) ==
  [gen |-> 1, head |-> pub, checkpoint |-> Checkpoint(cpID, pub, 1, pub),
   increments |-> <<>>, retained |-> <<>>]

\* The next position of the increment chain; the manifest generation also
\* counts checkpoint replacements, so it is not this number.
NextIncrementGen(m) == m.checkpoint.through + Len(m.increments) + 1

\* buildIncrementProposal: one more increment on the observed head.
MutantIncrementGen(m, pub) ==
  [gen        |-> m.gen + 1,
   head       |-> pub,
   checkpoint |-> m.checkpoint,
   increments |-> Append(m.increments, Increment(m.gen + 1, pub, m.head, pub)),
   retained   |-> m.retained]

IncrementManifest(m, pub) ==
  [gen        |-> m.gen + 1,
   head       |-> pub,
   checkpoint |-> m.checkpoint,
   increments |-> Append(m.increments,
                         Increment(NextIncrementGen(m), pub, m.head, pub)),
   retained   |-> m.retained]

\* buildCompactingProposal: the refused increment published as a checkpoint
\* through its own generation; nothing is retained.
CompactingManifest(inc, cpID) ==
  LET last == inc.increments[Len(inc.increments)] IN
  [gen        |-> inc.gen,
   head       |-> inc.head,
   checkpoint |-> Checkpoint(cpID, last.pub, last.gen, last.head),
   increments |-> <<>>,
   retained   |-> <<>>]

\* planCheckpoint: the oldest `threshold` increments of the triggering
\* manifest; its cutoff, head and publication are the last one's.
PlanPrefix(observed, threshold) == SubSeq(observed.increments, 1, threshold)
MutantPlanLast(prefix) == [prefix[Len(prefix)] EXCEPT !.gen = @ - 1]

PlanLast(prefix) == prefix[Len(prefix)]

\* prefixPresent: m's tail still starts with exactly the planned prefix.
PrefixPresent(m, prefix) ==
  /\ Len(m.increments) >= Len(prefix)
  /\ \A i \in DOMAIN prefix : m.increments[i] = prefix[i]

\* compactManifest: the checkpoint replaces the prefix, later increments
\* stay, the replaced chain becomes the newest retained generation and the
\* retained list is cut to `keep`.
Trim(s, n) == IF n < Len(s) THEN SubSeq(s, 1, n) ELSE s

MutantCompactDropsTail(m, prefix, cpID, keep) ==
  LET last == PlanLast(prefix)
      old  == Retained(m.gen + 1, last.head, m.checkpoint, prefix) IN
  [gen        |-> m.gen + 1,
   head       |-> last.head,
   checkpoint |-> Checkpoint(cpID, last.pub, last.gen, last.head),
   increments |-> <<>>,
   retained   |-> Trim(<<old>> \o m.retained, keep)]

CompactManifest(m, prefix, cpID, keep) ==
  LET last == PlanLast(prefix)
      rest == SubSeq(m.increments, Len(prefix) + 1, Len(m.increments))
      old  == Retained(m.gen + 1, last.head, m.checkpoint,
                       SubSeq(m.increments, 1, Len(prefix))) IN
  [gen        |-> m.gen + 1,
   head       |-> IF rest = <<>> THEN last.head ELSE rest[Len(rest)].head,
   checkpoint |-> Checkpoint(cpID, last.pub, last.gen, last.head),
   increments |-> rest,
   retained   |-> Trim(<<old>> \o m.retained, keep)]
=============================================================================
