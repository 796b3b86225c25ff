-------------------------- MODULE PublicationEncode --------------------------
(***************************************************************************)
(* Why EncodeManifest never refuses what a writer built: the inductive     *)
(* invariant behind ProposalsEncode.                                       *)
(*                                                                         *)
(* The argument.  A rewrite of a valid manifest is valid when the ids it   *)
(* adds are new to it and its generation leaves room for the chain.  A     *)
(* publication ID is drawn for its proposal.  The id of a checkpoint may   *)
(* be in the observed manifest already, when a resent write was accepted   *)
(* and taken for lost; but then as the checkpoint of the whole planned     *)
(* prefix, which is gone from the tail, and the effort is discarded.       *)
(***************************************************************************)
EXTENDS PublicationInv

\* EncodeManifest accepts the manifest, and the next increment's generation
\* stays within the manifest's (NextIncrementGen).
Encodable(m) == Present(m) => ValidManifest(m) /\ FinalGen(m) <= m.gen

\* A checkpoint effort that has read the manifest it is to replace.
Planning(j) == j.op = "checkpoint" /\ j.pc \in {"load", "cpplan", "cpcas"}

EncodeJob(j, drawn) ==
  /\ Encodable(j.obs)
  /\ Publications(j.obs) \subseteq drawn
  /\ Proposing(j) => Encodable(j.prop.manifest)
  /\ Planning(j) => \A k \in ManifestRoots(j.obs) : k.id = j.cp.id => k = j.cp

\* The inductive invariant.
EncodeInv ==
  /\ Encodable(current)
  /\ \A r \in writes : Encodable(r.next)
  /\ \A w \in Writers : EncodeJob(job[w], DrawnIDs)
=============================================================================
