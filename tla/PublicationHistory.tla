------------------------- MODULE PublicationHistory -------------------------
(***************************************************************************)
(* Why no publication is lost, doubled or reordered: the inductive         *)
(* invariant behind ChainIsHistory, OKMeansAccepted, BaselineAccepted,     *)
(* LostMeansAnotherWon and ImplementsLog.                                  *)
(*                                                                         *)
(* The argument.  A manifest on its way to `current` either adds one head  *)
(* that nothing else carries to the chain it was built on, or keeps every  *)
(* head of that chain, folding its oldest ones into a checkpoint.  A       *)
(* conditional write only lands on the manifest it was built on, so the    *)
(* accepted chain stays the end of the history.  A writer that does not    *)
(* know the fate of its proposal knows that nobody else carries its UUID,  *)
(* and that proposal was sent at most once.                                *)
(***************************************************************************)
EXTENDS PublicationInv, PublicationLog

\* As in PublicationInv the parts are stated over the values they relate: acc
\* is a history of accepted heads, bl the baseline a workspace has recorded.

AcceptedIn(acc) == {acc[i] : i \in DOMAIN acc}

\* Head h was accepted no later than head g, or is no head at all.
Upto(acc, h, g) ==
  \/ h = NoID
  \/ \E i, k \in DOMAIN acc : i <= k /\ acc[i] = h /\ acc[k] = g

\* Each publication is accepted once.
Once(acc) ==
  /\ NoID \notin AcceptedIn(acc)
  /\ \A i, k \in DOMAIN acc : acc[i] = acc[k] => i = k

\* The chain of a manifest is the end of the history.
EndsIn(m, acc) ==
  LET n == Len(acc)
      k == Len(m.increments) IN
  /\ n > k
  /\ acc[n - k] = m.checkpoint.head
  /\ \A i \in 1 .. k : acc[n - k + i] = m.increments[i].head

Headed(m) == m.head = ChainHead(m)

\* next folds the oldest heads of base into its checkpoint.
Keeps(base, next) ==
  /\ next.head = base.head
  /\ Headed(next)
  /\ Publications(next) \subseteq Publications(base)
  /\ \E d \in 1 .. Len(base.increments) :
       /\ Len(next.increments) = Len(base.increments) - d
       /\ next.checkpoint.head = base.increments[d].head
       /\ \A i \in 1 .. Len(next.increments) :
            next.increments[i].head = base.increments[d + i].head

\* next adds its head to the chain of base, or starts over from its head.
Extends(base, next) ==
  /\ Present(base)
  /\ Len(next.increments) = Len(base.increments) + 1
  /\ next.checkpoint.head = base.checkpoint.head
  /\ \A i \in 1 .. Len(base.increments) :
       next.increments[i].head = base.increments[i].head

Adds(base, next) ==
  /\ next.head # NoID
  /\ Headed(next)
  /\ Publications(next) \subseteq Publications(base) \cup {next.head}
  /\ Len(next.increments) = 0 \/ Extends(base, next)

\* A conditional write on its way: what it adds is not accepted yet.
RequestHist(r, acc, drawn) ==
  \/ Keeps(r.base, r.next) /\ r.next.head \in AcceptedIn(acc)
  \/ Adds(r.base, r.next) /\ r.next.head \in drawn \ AcceptedIn(acc)

StoreHist(cur, acc, drawn) ==
  /\ Once(acc)
  /\ AcceptedIn(acc) \subseteq drawn
  /\ Publications(cur) \subseteq AcceptedIn(acc)
  /\ Present(cur) => EndsIn(cur, acc) /\ Headed(cur)
  /\ ~Present(cur) => acc = <<>>

BaselineHist(bl, cur, acc) ==
  /\ bl.gen <= cur.gen
  /\ bl.head \in AcceptedIn(acc) \cup {NoID}

\* A job that may still record its proposal as accepted.
Doubtful(j) == j.pc \in {"lookup", "accept"}

JobHist(j, bl, cur, acc, wr) ==
  /\ Present(j.obs) => Headed(j.obs) /\ j.obs.head \in AcceptedIn(acc)
  /\ j.pc \in {"load", "merge", "apply"} => Upto(acc, bl.head, j.obs.head)
  /\ Proposing(j) \/ Doubtful(j) => j.prop.manifest.head = j.prop.pub
  /\ Proposing(j) =>
       /\ Adds(j.obs, j.prop.manifest)
       /\ j.prop.pub \notin AcceptedIn(acc)
       /\ \A r \in wr : r.next.head # j.prop.pub
  /\ Doubtful(j) /\ j.prop.pub \in AcceptedIn(acc) =>
       /\ j.prop.manifest.gen <= cur.gen
       /\ Upto(acc, bl.head, j.prop.pub)
       /\ bl.head # j.prop.pub
  /\ Doubtful(j) /\ j.prop.pub \notin AcceptedIn(acc) =>
       /\ j.pc = "lookup"
       /\ \A r \in wr : r.next.head = j.prop.pub => r.next.gen = j.prop.manifest.gen

\* The inductive invariant.
HistInv ==
  /\ StoreHist(current, accepted, DrawnIDs)
  /\ \A r \in writes : RequestHist(r, accepted, DrawnIDs)
  /\ \A q, r \in writes : q.next.head = r.next.head /\ q # r =>
       q.next.head \in AcceptedIn(accepted)
  /\ \A w \in Writers : BaselineHist(baseline[w], current, accepted)
  /\ \A w \in Writers : JobHist(job[w], baseline[w], current, accepted, writes)
=============================================================================
