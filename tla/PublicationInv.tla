--------------------------- MODULE PublicationInv ---------------------------
(***************************************************************************)
(* Why cleanup is safe: the inductive invariant behind                     *)
(* ReferencedPacksExist, StaleReadMoved and NewRootsAboveCutoff.           *)
(*                                                                         *)
(* The argument.  A proposal adds one pack to the roots of the manifest it *)
(* was built on, above that manifest's checkpoint cutoff.  A conditional   *)
(* write only lands on the manifest it was built on, so a pack at or below *)
(* the accepted cutoff that is not referenced never becomes referenced;    *)
(* cleanup deletes only such packs.  The one delete outside that rule, the *)
(* discarded pack of a refused compaction, has a key nobody else holds.    *)
(***************************************************************************)
EXTENDS Publication

\* The parts are stated over the values they relate (cur is a manifest for
\* current, pk a set of packs, own the ids a writer drew), so that they can be
\* read before and after a step alike.

OwnIDs(w, n) == {<<w, i>> : i \in 1 .. n}

\* Generations on the active chain continue the cutoff; retained checkpoints
\* lie at or below it.
Chained(m) ==
  /\ Present(m) \/ m = EmptyManifest
  /\ m.checkpoint.key = Key("checkpoint", m.checkpoint.through, m.checkpoint.id)
  /\ \A i \in DOMAIN m.increments : m.increments[i].gen = m.checkpoint.through + i
  /\ \A c \in DOMAIN m.retained :
       LET cp == m.retained[c].checkpoint IN
       /\ cp.key = Key("checkpoint", cp.through, cp.id)
       /\ cp.through <= m.checkpoint.through

\* next can replace base: one new root, above the cutoff of base.
Follows(key, base, next) ==
  /\ Chained(next)
  /\ next.gen > base.gen
  /\ ManifestRoots(next) \subseteq ManifestRoots(base) \cup {key}
  /\ base.checkpoint.through < key.gen
  /\ base.checkpoint.through <= next.checkpoint.through

\* A pack that may still become referenced is in the store.
Backed(key, cur, pk) == cur.checkpoint.through < key.gen => key \in pk

Proposing(j) == j.pc \in {"upload", "cas"}

\* The pack a job may bring into a manifest.
Claims(j, k) ==
  \/ Proposing(j) /\ j.prop.key = k
  \/ j.op = "checkpoint" /\ j.cp = k

\* What a job's proposal or planned checkpoint is, whatever the store does.
ProposalOK(j, own) ==
  /\ Chained(j.obs)
  /\ j.pc = "load" => Present(j.obs)
  /\ (j.op \in {"pull", "commit"} /\ j.pc \in {"read", "load", "reread", "merge", "apply"})
       => ~j.prop.compacting
  /\ Proposing(j) =>
       /\ Follows(j.prop.key, j.obs, j.prop.manifest)
       /\ Publications(j.prop.manifest) \subseteq Publications(j.obs) \cup {j.prop.pub}
       /\ j.prop.compacting => j.prop.manifest.checkpoint.through = j.prop.key.gen
       /\ j.prop.key.id \in own
  /\ j.pc \in {"upload", "cas", "lookup"} => j.prop.pub \in own
  /\ (j.pc = "upload" /\ j.prop.key.kind = "increment") =>
       LET last == j.prop.manifest.increments[Len(j.prop.manifest.increments)] IN
       /\ last.gen = j.prop.key.gen
       /\ last.pub = j.prop.pub
       /\ ~j.prop.compacting
  /\ j.op = "checkpoint" =>
       LET plan == PlanPrefix(j.prop.manifest, CheckpointPacks) IN
       /\ j.cp = Key("checkpoint", PlanLast(plan).gen, j.cp.id)
       /\ j.cp.id \in own
       /\ j.pc = "cpcas" => PrefixPresent(j.obs, plan)

\* A job against the accepted manifest.
CurrentOK(j, cur) ==
  /\ j.obs.gen <= cur.gen
  /\ j.obs.gen = cur.gen => j.obs = cur
  /\ j.pc = "reread" => j.obs # cur
  /\ Proposing(j) => j.prop.key \notin ManifestRoots(cur)
  /\ (j.pc = "upload" /\ ~j.prop.compacting) => j.prop.pub \notin Publications(cur)
  /\ (j.pc \in {"upload", "cas", "lookup"} /\ j.prop.compacting) =>
       (j.prop.pub \in Publications(cur) => j.prop.key.gen <= cur.checkpoint.through)
  /\ ((j.pc = "accept" \/ j.op = "recover") /\ j.prop.compacting) =>
       j.prop.key.gen <= cur.checkpoint.through
  /\ j.op = "checkpoint" => \A k \in ManifestRoots(cur) : k.id = j.cp.id => k = j.cp

\* The packs a job may still have referenced.
BackedOK(j, cur, pk) ==
  /\ j.pc = "cas" => Backed(j.prop.key, cur, pk)
  /\ (j.op = "checkpoint" /\ j.pc # "cplookup") => Backed(j.cp, cur, pk)

\* A job against a write still in flight.
RequestApart(j, r) ==
  /\ Proposing(j) => r.key # j.prop.key
  /\ (j.pc = "upload" /\ ~j.prop.compacting) =>
       (j.prop.pub \in Publications(r.next) => j.prop.pub \in Publications(r.base))
  /\ (j.pc \in {"upload", "cas", "lookup"} /\ j.prop.compacting) =>
       (j.prop.pub \in Publications(r.next) =>
          \/ j.prop.pub \in Publications(r.base)
          \/ j.prop.key.gen <= r.next.checkpoint.through)
  /\ (j.op = "checkpoint" /\ r.key.id = j.cp.id) => r.key = j.cp

\* What a cleanup is about to delete can never be referenced again.
Retired(k, cur) == k.gen <= cur.checkpoint.through /\ k \notin ManifestRoots(cur)

CleanupOK(j, cur) ==
  /\ j.pc \in {"list", "roots", "delete"} => j.cutoff <= cur.checkpoint.through
  /\ \A k \in j.candidates : k.gen <= j.cutoff
  /\ j.pc = "delete" => \A k \in j.doomed : Retired(k, cur)

JobOK(j, own, cur, pk, wr) ==
  /\ ProposalOK(j, own)
  /\ CurrentOK(j, cur)
  /\ BackedOK(j, cur, pk)
  /\ \A r \in wr : RequestApart(j, r)
  /\ CleanupOK(j, cur)

StoreOK(cur, pk, drawn) ==
  /\ Chained(cur)
  /\ ManifestRoots(cur) \subseteq pk
  /\ \A k \in ManifestRoots(cur) : k.id \in drawn
  /\ Publications(cur) \subseteq drawn

RequestOK(r, cur, pk, drawn) ==
  /\ Follows(r.key, r.base, r.next)
  /\ Publications(r.next) \subseteq Publications(r.base) \cup drawn
  /\ r.key.id \in drawn
  /\ Backed(r.key, cur, pk)

\* No job and no write in flight can bring k into a manifest.
Unclaimed(k) ==
  /\ k.id \in DrawnIDs
  /\ \A w \in Writers : ~Claims(job[w], k)
  /\ \A r \in writes : r.key # k

Dead(k) ==
  /\ k \notin ManifestRoots(current)
  /\ k.gen <= current.checkpoint.through \/ Unclaimed(k)

\* The inductive invariant.
PackInv ==
  /\ StoreOK(current, packs, DrawnIDs)
  /\ \A r \in writes : RequestOK(r, current, packs, DrawnIDs)
  /\ \A d \in deletes : \A k \in d : Dead(k)
  /\ \A w \in Writers : JobOK(job[w], OwnIDs(w, seq[w]), current, packs, writes)
=============================================================================
