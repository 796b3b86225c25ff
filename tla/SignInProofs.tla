---------------------------- MODULE SignInProofs ----------------------------
(***************************************************************************)
(* The login keys of one machine, for any number of people, sites, device  *)
(* codes and processes: no key is left valid unseen, nobody's login is     *)
(* replaced without consent, and a page somebody is shown is polled for.   *)
(*                                                                         *)
(* The argument.  A key has one place: the login that was issued it, until *)
(* that login stores it; the file; the login that replaced it there.  The  *)
(* file changes only under credentials.lock, so the set a process loaded   *)
(* is the file, and a key that has left the file never comes back to it.   *)
(***************************************************************************)
EXTENDS SignIn, FiniteSetTheorems, SequenceTheorems, TLAPS

\* The parts are stated over the values they relate (ks issued keys, lg the logins
\* of the file, fw the logins that run, ot the logouts, seen the keys a person was
\* told of or a dead process held), so that they read alike before and after a step.

LiveIn(ks, k) == k # 0 /\ ks[k].state = "live"
InFile(lg, k) == \E x \in Sites : lg[x] = k

\* A login that holds a key nobody else knows of.
Private == {"polling", "issued", "discard", "storing"}

\* A login answers for the key it was issued, and for the one it replaced.
Holds(r, k) ==
    \/ r.pc \in Private /\ r.key = k
    \/ r.pc = "stored" /\ r.old = k

\* What a login holds at each stage.
FlowShape(r) ==
    /\ r.pc \in {"idle", "starting", "ended"} => r.key = 0
    /\ r.pc \in {"issued", "discard", "storing", "stored", "picked"} => r.key # 0
    /\ r.pc # "stored" => r.old = 0
    /\ r.pc = "polling" /\ r.key # 0 => r.lost

\* A key that is not stored yet is live and its login's alone.
Alone(ks, lg, fw, ot, f) ==
    LET k == fw[f].key IN
    fw[f].pc \in Private /\ k # 0 =>
        /\ LiveIn(ks, k) /\ ~InFile(lg, k)
        /\ \A o \in Outs : k \notin ot[o].todo \cup ot[o].gone
        /\ \A g \in Flows \ {f} : fw[g].key # k /\ fw[g].old # k

FlowOK(ks, lg, fw, ot, f) ==
    /\ FlowShape(fw[f])
    /\ fw[f].key <= Len(ks) /\ fw[f].old <= Len(ks)
    /\ Alone(ks, lg, fw, ot, f)
    /\ fw[f].old # 0 => ~InFile(lg, fw[f].old)

\* Somebody answers for every live key.
Custody(ks, lg, fw, seen) ==
    \A k \in 1 .. Len(ks) : LiveIn(ks, k) =>
        InFile(lg, k) \/ (\E f \in Flows : Holds(fw[f], k)) \/ k \in seen

\* A logout revokes what it removes, and answers for a revoked key in the file.
Revoking(ks, lg, ot, hf) ==
    /\ \A o \in Outs : ot[o].pc = "idle" => ot[o].gone = {}
    /\ \A o \in Outs : \A k \in ot[o].todo : k \in 1 .. Len(ks)
    /\ \A o \in Outs : \A k \in ot[o].gone : k \in 1 .. Len(ks) /\ ~LiveIn(ks, k)
    /\ \A x \in Sites : lg[x] # 0 /\ ks[lg[x]].state = "revoked" =>
          lg[x] \in hf \/ \E o \in Outs : lg[x] \in ot[o].gone

KeyOK(ks, lg, fw, ot, seen, hf) ==
    /\ \A x \in Sites : lg[x] <= Len(ks)
    /\ \A f \in Flows : FlowOK(ks, lg, fw, ot, f)
    /\ Custody(ks, lg, fw, seen)
    /\ Revoking(ks, lg, ot, hf)

\* Whoever holds credentials.lock has loaded the file as it is, and only an editor
\* that asked for its turn has one.
Turns(ed, fw, cl, ot) ==
    /\ \A f \in Flows : ed[f].pc # "none" => fw[f].pc \in {"storing", "picked"}
    /\ \A s \in Servers : ed[s].pc # "none" => cl[s].pc = "adopt"
    /\ \A o \in Outs : ed[o].pc # "none" => ot[o].pc = "removing"

Loaded(lk, ed, fl) ==
    /\ \A p \in Editors : ed[p].pc = "read" <=> lk = p
    /\ \A p \in Editors : ed[p].pc = "read" => ed[p].snap = fl

\* One login, and every default on its way into the file is in reach of the login
\* it is meant for.
Reach(ks, rc, k) == rc[ks[k].account]

DefaultOK(ks, rc, fl) ==
    /\ \A x, y \in Sites : fl.logins[x] # 0 /\ fl.logins[y] # 0 => x = y
    /\ fl.deflt # NoSpace =>
          \E x \in Sites : fl.logins[x] # 0 /\ fl.deflt \in Reach(ks, rc, fl.logins[x])

Listing(ks, rc, f, r) ==
    /\ r.pc \in {"storing", "stored", "picked"} => r.spaces \subseteq Reach(ks, rc, r.key)
    /\ r.pc = "storing" /\ Asked[f] # NoSpace => Asked[f] \in Reach(ks, rc, r.key)

Adoption(ks, rc, c) ==
    c.pc = "adopt" => c.key \in 1 .. Len(ks) /\ c.space \in Reach(ks, rc, c.key)

\* The recorded page is the one of the login that holds signin.lock, or its process
\* died.
PageOK(sg, rd, fw, dead) ==
    /\ sg # Nobody => fw[sg].pc \notin {"idle", "ended"}
    /\ rd # 0 => rd \in dead \/ (sg # Nobody /\ fw[sg].code = rd)

Access(lk, ed, fl, fw, cl, ot) == Turns(ed, fw, cl, ot) /\ Loaded(lk, ed, fl)
InReach(ks, rc, fl, fw, cl) ==
    /\ DefaultOK(ks, rc, fl)
    /\ \A f \in Flows : Listing(ks, rc, f, fw[f])
    /\ \A s \in Servers : Adoption(ks, rc, cl[s])

SignInInv ==
    /\ TypeOK
    /\ KeyOK(keys, file.logins, flow, out, told \cup dropped, half)
    /\ Access(lock, edit, file, flow, call, out)
    /\ InReach(keys, reach, file, flow, call)
    /\ PageOK(signer, record, flow, deadCodes)

-----------------------------------------------------------------------------
(* Steps of the parts: the keys and who answers for them.                  *)

\* The fields of the records.
LEMMA FlowFields ==
    ASSUME NEW r \in FlowRecords
    PROVE  /\ r.key \in Nat /\ r.old \in Nat /\ r.code \in Nat
           /\ r.spaces \subseteq Spaces /\ r.deflt \in Spaces \cup {NoSpace}
           /\ r.lost \in BOOLEAN /\ r.agreed \in BOOLEAN
           /\ r.pc \in {"idle", "starting", "polling", "issued", "discard", "storing",
                        "stored", "picked", "ended"}
BY DEF FlowRecords

\* A login moves on without a new key: it keeps answering for its keys, or a person
\* was told of them.
LEMMA FlowMoves ==
    ASSUME NEW ks \in Seq(KeyRecords), NEW lg \in [Sites -> Nat],
           NEW fw \in [Flows -> FlowRecords], NEW ot \in [Outs -> OutRecords],
           NEW seen, NEW seen2, NEW hf, KeyOK(ks, lg, fw, ot, seen, hf), seen \subseteq seen2,
           NEW f \in Flows, NEW r \in FlowRecords, FlowShape(r),
           r.key \in {0, fw[f].key}, r.old \in {0, fw[f].old},
           r.pc \in Private => r.key = 0 \/ fw[f].pc \in Private,
           \A k \in 1 .. Len(ks) : Holds(fw[f], k) => Holds(r, k) \/ k \in seen2
    PROVE  KeyOK(ks, lg, [fw EXCEPT ![f] = r], ot, seen2, hf)
<1> DEFINE fw2 == [fw EXCEPT ![f] = r]
<1>1. fw2[f] = r /\ \A g \in Flows \ {f} : fw2[g] = fw[g]
  OBVIOUS
<1>2. /\ \A g \in Flows : fw[g].key \in Nat /\ fw[g].old \in Nat
      /\ r.key \in Nat /\ r.old \in Nat /\ Len(ks) \in Nat
  BY FlowFields
<1> HIDE DEF fw2
<1>3. ASSUME NEW g \in Flows PROVE FlowOK(ks, lg, fw2, ot, g)
  <2>1. FlowOK(ks, lg, fw, ot, g) /\ FlowOK(ks, lg, fw, ot, f)
    BY DEF KeyOK
  <2>2. CASE g = f
    <3>1. Alone(ks, lg, fw2, ot, f)
      BY <1>1, <2>1 DEF FlowOK, Alone
    <3> QED BY <1>1, <1>2, <2>1, <2>2, <3>1 DEF FlowOK
  <2>3. CASE g # f
    <3>1. Alone(ks, lg, fw2, ot, g)
      BY <1>1, <2>1, <2>3 DEF FlowOK, Alone
    <3> QED BY <1>1, <2>1, <2>3, <3>1 DEF FlowOK
  <2> QED BY <2>2, <2>3
<1>4. Custody(ks, lg, fw2, seen2)
  BY <1>1 DEF KeyOK, Custody
<1> QED BY <1>3, <1>4 DEF KeyOK, fw2

\* ks2 is ks with the key k no longer live.
Withdrawn(ks, ks2, k) ==
    /\ Len(ks2) = Len(ks)
    /\ \A i \in 1 .. Len(ks) : i # k => ks2[i] = ks[i]
    /\ k \in 1 .. Len(ks) => ~LiveIn(ks2, k) /\ ks2[k].account = ks[k].account

\* A login that is over with a key has it revoked: nobody else has that key.
LEMMA FlowRevokes ==
    ASSUME NEW ks \in Seq(KeyRecords), NEW ks2 \in Seq(KeyRecords), NEW lg \in [Sites -> Nat],
           NEW fw \in [Flows -> FlowRecords], NEW ot \in [Outs -> OutRecords],
           NEW seen, NEW hf, KeyOK(ks, lg, fw, ot, seen, hf),
           NEW f \in Flows, NEW r \in FlowRecords, FlowShape(r),
           r.key \in {0, fw[f].key}, r.old \in {0, fw[f].old}, r.pc \notin Private,
           NEW k \in Nat, k # 0, Holds(fw[f], k), fw[f].pc \in {"discard", "stored"},
           Withdrawn(ks, ks2, k)
    PROVE  KeyOK(ks2, lg, [fw EXCEPT ![f] = r], ot, seen, hf)
<1> DEFINE fw2 == [fw EXCEPT ![f] = r]
<1>1. fw2[f] = r /\ \A g \in Flows \ {f} : fw2[g] = fw[g]
  OBVIOUS
<1>2. /\ \A g \in Flows : fw[g].key \in Nat /\ fw[g].old \in Nat
      /\ r.key \in Nat /\ r.old \in Nat /\ Len(ks) \in Nat /\ Len(ks2) = Len(ks)
  BY FlowFields DEF Withdrawn
<1> HIDE DEF fw2
<1>3. \A g \in Flows : FlowOK(ks, lg, fw, ot, g)
  BY DEF KeyOK
<1>4. /\ ~InFile(lg, k) /\ k \in 1 .. Len(ks)
      /\ \A i \in 1 .. Len(ks) : Holds(fw[f], i) => i = k
      /\ \A g \in Flows \ {f} : fw[g].pc \in Private => fw[g].key # k
  <2>1. FlowOK(ks, lg, fw, ot, f)
    BY <1>3
  <2>2. CASE fw[f].pc = "discard"
    <3>1. fw[f].key = k /\ \A i : Holds(fw[f], i) => i = k
      BY <2>2 DEF Holds, Private
    <3>2. \A g \in Flows \ {f} : fw[g].pc \in Private => fw[g].key # k
      BY <2>1, <2>2, <3>1 DEF FlowOK, Alone, Private
    <3> QED BY <1>2, <2>1, <2>2, <3>1, <3>2 DEF FlowOK, Alone, Private
  <2>3. CASE fw[f].pc = "stored"
    <3>1. fw[f].old = k /\ \A i : Holds(fw[f], i) => i = k
      BY <2>3 DEF Holds, Private
    <3>2. \A g \in Flows \ {f} : fw[g].pc \in Private => fw[g].key # k
      BY <1>3, <3>1 DEF FlowOK, Alone
    <3> QED BY <1>2, <2>1, <2>3, <3>1, <3>2 DEF FlowOK
  <2> QED BY <2>2, <2>3
<1>5. ASSUME NEW g \in Flows PROVE FlowOK(ks2, lg, fw2, ot, g)
  <2>1. FlowOK(ks, lg, fw, ot, g) /\ FlowOK(ks, lg, fw, ot, f)
    BY <1>3
  <2>2. CASE g = f
    <3>1. Alone(ks2, lg, fw2, ot, f)
      BY <1>1 DEF Alone
    <3> QED BY <1>1, <1>2, <2>1, <2>2, <3>1 DEF FlowOK
  <2>3. CASE g # f
    <3>1. Alone(ks2, lg, fw2, ot, g)
      <4> SUFFICES ASSUME fw[g].pc \in Private, fw[g].key # 0
                   PROVE  /\ LiveIn(ks2, fw[g].key) /\ ~InFile(lg, fw[g].key)
                          /\ \A o \in Outs : fw[g].key \notin ot[o].todo \cup ot[o].gone
                          /\ \A h \in Flows \ {g} :
                               fw2[h].key # fw[g].key /\ fw2[h].old # fw[g].key
        BY <1>1, <2>3 DEF Alone
      <4>1. fw[g].key \in 1 .. Len(ks) /\ fw[g].key # k
        BY <1>2, <1>4, <2>1, <2>3 DEF FlowOK
      <4>2. LiveIn(ks2, fw[g].key)
        BY <2>1, <4>1 DEF FlowOK, Alone, LiveIn, Withdrawn
      <4> QED BY <1>1, <2>1, <2>3, <4>2 DEF FlowOK, Alone
    <3> QED BY <1>1, <1>2, <2>1, <2>3, <3>1 DEF FlowOK
  <2> QED BY <2>2, <2>3
<1>6. Custody(ks2, lg, fw2, seen)
  BY <1>1, <1>2, <1>4 DEF KeyOK, Custody, LiveIn, Withdrawn
<1>7. Revoking(ks2, lg, ot, hf)
  <2>1. \A i \in 1 .. Len(ks) : ~LiveIn(ks, i) => ~LiveIn(ks2, i)
    BY <1>4 DEF LiveIn, Withdrawn
  <2>2. \A x \in Sites : lg[x] # 0 => lg[x] \in 1 .. Len(ks) /\ lg[x] # k
    BY <1>2, <1>4 DEF KeyOK, InFile
  <2>3. \A x \in Sites : lg[x] # 0 => ks2[lg[x]] = ks[lg[x]]
    BY <2>2 DEF Withdrawn
  <2> QED BY <1>2, <2>1, <2>3 DEF KeyOK, Revoking
<1> QED BY <1>2, <1>5, <1>6, <1>7 DEF KeyOK, fw2

\* Telling a person of more keys accounts for more.
LEMMA SeenGrows ==
    ASSUME NEW ks, NEW lg, NEW fw, NEW ot, NEW seen, NEW seen2, NEW hf,
           KeyOK(ks, lg, fw, ot, seen, hf), seen \subseteq seen2
    PROVE  KeyOK(ks, lg, fw, ot, seen2, hf)
BY DEF KeyOK, Custody

\* A new key is at the end of the list.
LEMMA IssueFacts ==
    ASSUME NEW ks \in Seq(KeyRecords), NEW rec \in KeyRecords
    PROVE  /\ Append(ks, rec) \in Seq(KeyRecords) /\ Len(ks) \in Nat
           /\ Len(Append(ks, rec)) = Len(ks) + 1
           /\ \A i \in 1 .. Len(ks) : Append(ks, rec)[i] = ks[i]
           /\ Append(ks, rec)[Len(ks) + 1] = rec
OBVIOUS

\* The site issues a key to a login that has none: the login holds it, or a person
\* is told of it.
LEMMA FlowIssues ==
    ASSUME NEW ks \in Seq(KeyRecords), NEW rec \in KeyRecords, NEW lg \in [Sites -> Nat],
           NEW fw \in [Flows -> FlowRecords], NEW ot \in [Outs -> OutRecords],
           NEW seen, NEW seen2, NEW hf, KeyOK(ks, lg, fw, ot, seen, hf), seen \subseteq seen2,
           NEW f \in Flows, fw[f].pc = "polling", fw[f].key = 0, rec.state = "live",
           NEW r \in FlowRecords, FlowShape(r), r.old = 0,
           \/ r.key = Len(ks) + 1 /\ r.pc \in Private
           \/ r.key = 0 /\ Len(ks) + 1 \in seen2
    PROVE  KeyOK(Append(ks, rec), lg, [fw EXCEPT ![f] = r], ot, seen2, hf)
<1> DEFINE fw2 == [fw EXCEPT ![f] = r]
           ks2 == Append(ks, rec)
           n == Len(ks)
<1>1. fw2[f] = r /\ \A g \in Flows \ {f} : fw2[g] = fw[g]
  OBVIOUS
<1>2. /\ \A g \in Flows : fw[g].key \in Nat /\ fw[g].old \in Nat
      /\ r.key \in Nat /\ r.old \in Nat /\ n \in Nat
  BY FlowFields
<1>3. Len(ks2) = n + 1 /\ (\A i \in 1 .. n : ks2[i] = ks[i]) /\ ks2[n + 1] = rec
  BY IssueFacts
<1> HIDE DEF fw2, ks2, n
<1>4. /\ \A g \in Flows : FlowOK(ks, lg, fw, ot, g) /\ fw[g].key <= n /\ fw[g].old <= n
      /\ \A x \in Sites : lg[x] \in 0 .. n
      /\ \A o \in Outs : ot[o].todo \cup ot[o].gone \subseteq 1 .. n
  BY <1>2 DEF KeyOK, FlowOK, Revoking, n
<1>5. ASSUME NEW g \in Flows PROVE FlowOK(ks2, lg, fw2, ot, g)
  <2>1. FlowOK(ks, lg, fw, ot, g) /\ FlowOK(ks, lg, fw, ot, f)
    BY <1>4
  <2>2. CASE g = f
    <3>1. Alone(ks2, lg, fw2, ot, f)
      <4> SUFFICES ASSUME r.key # 0
                   PROVE  /\ LiveIn(ks2, n + 1) /\ ~InFile(lg, n + 1)
                          /\ \A o \in Outs : n + 1 \notin ot[o].todo \cup ot[o].gone
                          /\ \A h \in Flows \ {f} : fw[h].key # n + 1 /\ fw[h].old # n + 1
        BY <1>1 DEF Alone, n
      <4>1. LiveIn(ks2, n + 1)
        BY <1>2, <1>3 DEF LiveIn
      <4>2. ~InFile(lg, n + 1)
        BY <1>2, <1>4 DEF InFile
      <4> QED BY <1>2, <1>4, <4>1, <4>2
    <3> QED BY <1>1, <1>2, <1>3, <2>2, <3>1 DEF FlowOK, n
  <2>3. CASE g # f
    <3>1. Alone(ks2, lg, fw2, ot, g)
      <4> SUFFICES ASSUME fw[g].pc \in Private, fw[g].key # 0
                   PROVE  /\ LiveIn(ks2, fw[g].key) /\ ~InFile(lg, fw[g].key)
                          /\ \A o \in Outs : fw[g].key \notin ot[o].todo \cup ot[o].gone
                          /\ \A h \in Flows \ {g} :
                               fw2[h].key # fw[g].key /\ fw2[h].old # fw[g].key
        BY <1>1, <2>3 DEF Alone
      <4>1. fw[g].key \in 1 .. n
        BY <1>2, <1>4
      <4>2. LiveIn(ks2, fw[g].key)
        BY <1>3, <2>1, <4>1 DEF FlowOK, Alone, LiveIn
      <4>3. r.key # fw[g].key /\ r.old # fw[g].key
        BY <1>2, <4>1 DEF n
      <4> QED BY <1>1, <2>1, <2>3, <4>2, <4>3 DEF FlowOK, Alone
    <3> QED BY <1>1, <1>2, <1>3, <1>4, <2>1, <2>3, <3>1 DEF FlowOK
  <2> QED BY <2>2, <2>3
<1>6. Custody(ks2, lg, fw2, seen2)
  <2> SUFFICES ASSUME NEW k \in 1 .. n + 1, LiveIn(ks2, k)
               PROVE  InFile(lg, k) \/ (\E g \in Flows : Holds(fw2[g], k)) \/ k \in seen2
    BY <1>3 DEF Custody
  <2>1. CASE k = n + 1
    BY <1>1, <2>1 DEF Holds, n
  <2>2. CASE k \in 1 .. n
    <3>1. LiveIn(ks, k)
      BY <1>3, <2>2 DEF LiveIn
    <3>2. InFile(lg, k) \/ (\E g \in Flows : Holds(fw[g], k)) \/ k \in seen
      BY <2>2, <3>1 DEF KeyOK, Custody, n
    <3>3. ~Holds(fw[f], k)
      BY <2>2 DEF Holds
    <3> QED BY <1>1, <3>2, <3>3
  <2> QED BY <1>2, <2>1, <2>2
<1>7. Revoking(ks2, lg, ot, hf)
  <2>1. \A k \in 1 .. n : LiveIn(ks2, k) <=> LiveIn(ks, k)
    BY <1>3 DEF LiveIn
  <2>2. \A x \in Sites : lg[x] # 0 => ks2[lg[x]] = ks[lg[x]]
    BY <1>2, <1>3, <1>4
  <2>3. \A k \in 1 .. n : k \in 1 .. Len(ks2)
    BY <1>2, <1>3
  <2> QED BY <1>3, <2>1, <2>2, <2>3 DEF KeyOK, Revoking, n
<1>8. \A x \in Sites : lg[x] <= Len(ks2)
  BY <1>2, <1>3, <1>4
<1> QED BY <1>5, <1>6, <1>7, <1>8 DEF KeyOK, fw2, ks2

\* A login stores its key: the key it takes the place of is the login's to revoke.
LEMMA FlowStores ==
    ASSUME NEW ks \in Seq(KeyRecords), NEW lg \in [Sites -> Nat],
           NEW fw \in [Flows -> FlowRecords], NEW ot \in [Outs -> OutRecords],
           NEW seen, NEW hf, KeyOK(ks, lg, fw, ot, seen, hf),
           NEW f \in Flows, NEW r \in FlowRecords, NEW x \in Sites,
           fw[f].pc = "storing", r.pc = "stored", r.key = fw[f].key, r.old = lg[x],
           \A y \in Sites : y # x => lg[y] = 0
    PROVE  KeyOK(ks, [lg EXCEPT ![x] = r.key], [fw EXCEPT ![f] = r], ot, seen, hf)
<1> DEFINE fw2 == [fw EXCEPT ![f] = r]
           lg2 == [lg EXCEPT ![x] = r.key]
<1>1. /\ fw2[f] = r /\ \A g \in Flows \ {f} : fw2[g] = fw[g]
      /\ lg2[x] = r.key /\ \A y \in Sites : y # x => lg2[y] = 0
  BY FlowFields
<1>2. /\ \A g \in Flows : fw[g].key \in Nat /\ fw[g].old \in Nat
      /\ r.key \in Nat /\ r.old \in Nat /\ Len(ks) \in Nat
  BY FlowFields
<1> HIDE DEF fw2, lg2
<1>3. /\ \A g \in Flows : FlowOK(ks, lg, fw, ot, g)
      /\ r.key # 0 /\ r.key <= Len(ks) /\ LiveIn(ks, r.key) /\ ~InFile(lg, r.key)
      /\ \A g \in Flows \ {f} : fw[g].key # r.key /\ fw[g].old # r.key
  BY DEF KeyOK, FlowOK, FlowShape, Alone, Private
<1>4. ASSUME NEW k, k # 0 PROVE InFile(lg2, k) <=> k = r.key
  BY <1>1, <1>4 DEF InFile
<1>5. ASSUME NEW k, k # 0, InFile(lg, k) PROVE k = r.old
  BY <1>5 DEF InFile
<1>6. ASSUME NEW g \in Flows PROVE FlowOK(ks, lg2, fw2, ot, g)
  <2>1. FlowOK(ks, lg, fw, ot, g)
    BY <1>3
  <2>2. CASE g = f
    <3>1. Alone(ks, lg2, fw2, ot, f)
      BY <1>1 DEF Alone, Private
    <3>2. r.old # 0 => r.old # r.key /\ r.old <= Len(ks)
      BY <1>3 DEF InFile, KeyOK
    <3>3. r.old # 0 => ~InFile(lg2, r.old)
      BY <1>4, <3>2
    <3>4. FlowShape(r)
      BY <1>3 DEF FlowShape
    <3>5. r.old <= Len(ks)
      BY <1>2, <3>2
    <3> QED BY <1>1, <1>3, <2>2, <3>1, <3>3, <3>4, <3>5 DEF FlowOK
  <2>3. CASE g # f
    <3>1. Alone(ks, lg2, fw2, ot, g)
      <4> SUFFICES ASSUME fw[g].pc \in Private, fw[g].key # 0
                   PROVE  /\ LiveIn(ks, fw[g].key) /\ ~InFile(lg2, fw[g].key)
                          /\ \A o \in Outs : fw[g].key \notin ot[o].todo \cup ot[o].gone
                          /\ \A h \in Flows \ {g} :
                               fw2[h].key # fw[g].key /\ fw2[h].old # fw[g].key
        BY <1>1, <2>3 DEF Alone
      <4>1. ~InFile(lg, fw[g].key)
        BY <2>1 DEF FlowOK, Alone
      <4>2. r.key # fw[g].key /\ r.old # fw[g].key
        BY <1>3, <2>3, <4>1 DEF InFile
      <4> QED BY <1>1, <1>4, <2>1, <2>3, <4>2 DEF FlowOK, Alone
    <3>2. fw[g].old # 0 => ~InFile(lg2, fw[g].old)
      BY <1>3, <1>4, <2>3
    <3> QED BY <1>1, <2>1, <2>3, <3>1, <3>2 DEF FlowOK
  <2> QED BY <2>2, <2>3
<1>7. Custody(ks, lg2, fw2, seen)
  <2> SUFFICES ASSUME NEW k \in 1 .. Len(ks), LiveIn(ks, k), k # r.key
               PROVE  InFile(lg2, k) \/ (\E g \in Flows : Holds(fw2[g], k)) \/ k \in seen
    BY <1>1 DEF Custody, InFile
  <2>1. k # 0
    OBVIOUS
  <2>2. CASE InFile(lg, k)
    BY <1>1, <1>5, <2>1, <2>2 DEF Holds
  <2>3. CASE \E g \in Flows : Holds(fw[g], k)
    <3>1. ~Holds(fw[f], k)
      BY DEF Holds, Private
    <3> QED BY <1>1, <2>3, <3>1
  <2> QED BY <2>2, <2>3 DEF KeyOK, Custody
<1>8. Revoking(ks, lg2, ot, hf)
  <2>1. \A y \in Sites : lg2[y] # 0 => ks[lg2[y]].state # "revoked"
    BY <1>1, <1>3 DEF LiveIn
  <2> QED BY <2>1 DEF KeyOK, Revoking
<1>9. \A y \in Sites : lg2[y] <= Len(ks)
  BY <1>1, <1>2, <1>3
<1> QED BY <1>6, <1>7, <1>8, <1>9 DEF KeyOK, fw2, lg2

\* What was not live is not live afterwards, and what the file holds is as it was
\* unless it is the key itself.
LEMMA WithdrawnFacts ==
    ASSUME NEW ks \in Seq(KeyRecords), NEW ks2 \in Seq(KeyRecords), NEW k \in Nat,
           Withdrawn(ks, ks2, k)
    PROVE  /\ Len(ks2) = Len(ks) /\ Len(ks) \in Nat
           /\ \A i \in 1 .. Len(ks) : LiveIn(ks2, i) <=> LiveIn(ks, i) /\ i # k
           /\ \A i \in 1 .. Len(ks) : ks2[i].account = ks[i].account
           /\ \A i \in 1 .. Len(ks) : i # k => ks2[i] = ks[i]
BY DEF Withdrawn, LiveIn

\* A key that no login holds alone ends: the others keep theirs.
LEMMA OthersKeep ==
    ASSUME NEW ks \in Seq(KeyRecords), NEW ks2 \in Seq(KeyRecords), NEW lg \in [Sites -> Nat],
           NEW fw \in [Flows -> FlowRecords],
           NEW ot \in [Outs -> OutRecords], NEW ot2 \in [Outs -> OutRecords],
           NEW seen, NEW hf, KeyOK(ks, lg, fw, ot, seen, hf),
           NEW k \in Nat, Withdrawn(ks, ks2, k),
           k = 0 \/ InFile(lg, k) \/ \E o \in Outs : k \in ot[o].todo,
           \A o \in Outs : \A i \in ot2[o].todo \cup ot2[o].gone :
               i \in ot[o].todo \cup ot[o].gone \/ InFile(lg, i)
    PROVE  /\ \A f \in Flows : FlowOK(ks2, lg, fw, ot2, f)
           /\ Custody(ks2, lg, fw, seen)
           /\ \A x \in Sites : lg[x] <= Len(ks2)
<1>1. /\ Len(ks2) = Len(ks) /\ Len(ks) \in Nat
      /\ \A i \in 1 .. Len(ks) : LiveIn(ks2, i) <=> LiveIn(ks, i) /\ i # k
  BY WithdrawnFacts
<1>2. \A f \in Flows : FlowOK(ks, lg, fw, ot, f) /\ fw[f].key \in Nat /\ fw[f].old \in Nat
  BY FlowFields DEF KeyOK
<1>3. ASSUME NEW f \in Flows PROVE FlowOK(ks2, lg, fw, ot2, f)
  <2>1. Alone(ks2, lg, fw, ot2, f)
    <3> SUFFICES ASSUME fw[f].pc \in Private, fw[f].key # 0
                 PROVE  /\ LiveIn(ks2, fw[f].key)
                        /\ \A o \in Outs : fw[f].key \notin ot2[o].todo \cup ot2[o].gone
      BY <1>2 DEF FlowOK, Alone
    <3>1. /\ fw[f].key \in 1 .. Len(ks) /\ LiveIn(ks, fw[f].key) /\ ~InFile(lg, fw[f].key)
          /\ \A o \in Outs : fw[f].key \notin ot[o].todo \cup ot[o].gone
      BY <1>1, <1>2 DEF FlowOK, Alone
    <3> QED BY <1>1, <3>1
  <2> QED BY <1>1, <1>2, <2>1 DEF FlowOK
<1>4. Custody(ks2, lg, fw, seen)
  BY <1>1 DEF KeyOK, Custody
<1> QED BY <1>1, <1>3, <1>4 DEF KeyOK

\* A stored key expires.
LEMMA KeyExpires ==
    ASSUME NEW ks \in Seq(KeyRecords), NEW ks2 \in Seq(KeyRecords), NEW lg \in [Sites -> Nat],
           NEW fw \in [Flows -> FlowRecords], NEW ot \in [Outs -> OutRecords],
           NEW seen, NEW hf, KeyOK(ks, lg, fw, ot, seen, hf),
           NEW k \in Nat, Withdrawn(ks, ks2, k), InFile(lg, k), ks2[k].state # "revoked"
    PROVE  KeyOK(ks2, lg, fw, ot, seen, hf)
<1>1. /\ Len(ks2) = Len(ks) /\ Len(ks) \in Nat
      /\ \A i \in 1 .. Len(ks) : LiveIn(ks2, i) <=> LiveIn(ks, i) /\ i # k
      /\ \A i \in 1 .. Len(ks) : i # k => ks2[i] = ks[i]
  BY WithdrawnFacts
<1>2. \A x \in Sites : lg[x] # 0 => lg[x] \in 1 .. Len(ks)
  BY <1>1 DEF KeyOK
<1>3. Revoking(ks2, lg, ot, hf)
  BY <1>1, <1>2 DEF KeyOK, Revoking
<1> QED BY <1>3, OthersKeep DEF KeyOK

\* A logout goes on: it takes keys from the file, has one of them revoked, knowingly
\* or not, or ends with the revoked ones still stored.
LEMMA LogoutMoves ==
    ASSUME NEW ks \in Seq(KeyRecords), NEW ks2 \in Seq(KeyRecords), NEW lg \in [Sites -> Nat],
           NEW fw \in [Flows -> FlowRecords], NEW ot \in [Outs -> OutRecords],
           NEW seen, NEW hf, NEW hf2, KeyOK(ks, lg, fw, ot, seen, hf), hf \subseteq hf2,
           NEW k \in Nat, Withdrawn(ks, ks2, k),
           NEW o \in Outs, NEW q \in OutRecords, q.pc # "idle",
           k = 0 \/ (k \in ot[o].todo /\ k \in q.gone \cup hf2),
           \A i \in q.todo : i \in ot[o].todo \/ (i # 0 /\ InFile(lg, i)),
           \A i \in q.gone : i \in ot[o].gone \/ (k # 0 /\ i = k),
           \A i \in ot[o].gone : i \in q.gone \/ i \in hf2
    PROVE  KeyOK(ks2, lg, fw, [ot EXCEPT ![o] = q], seen, hf2)
<1> DEFINE ot2 == [ot EXCEPT ![o] = q]
<1>1. ot2 \in [Outs -> OutRecords] /\ ot2[o] = q /\ \A p \in Outs \ {o} : ot2[p] = ot[p]
  OBVIOUS
<1>2. /\ Len(ks2) = Len(ks) /\ Len(ks) \in Nat
      /\ \A i \in 1 .. Len(ks) : LiveIn(ks2, i) <=> LiveIn(ks, i) /\ i # k
      /\ \A i \in 1 .. Len(ks) : i # k => ks2[i] = ks[i]
  BY WithdrawnFacts
<1> HIDE DEF ot2
<1>3. /\ \A i \in ot[o].todo : i \in 1 .. Len(ks)
      /\ \A p \in Outs : \A i \in ot[p].gone : i \in 1 .. Len(ks) /\ ~LiveIn(ks, i)
      /\ \A p \in Outs : \A i \in ot[p].todo : i \in 1 .. Len(ks)
      /\ \A x \in Sites : lg[x] # 0 => lg[x] \in 1 .. Len(ks)
  BY <1>2 DEF KeyOK, Revoking
<1>4. \A p \in Outs : \A i \in ot2[p].todo : i \in 1 .. Len(ks)
  BY <1>1, <1>3 DEF InFile
<1>5. \A p \in Outs : \A i \in ot2[p].gone : i \in 1 .. Len(ks) /\ ~LiveIn(ks2, i)
  <2>1. k # 0 => k \in 1 .. Len(ks)
    BY <1>3
  <2> QED BY <1>1, <1>2, <1>3, <2>1
<1>6. ASSUME NEW x \in Sites, lg[x] # 0, ks2[lg[x]].state = "revoked"
      PROVE  lg[x] \in hf2 \/ \E p \in Outs : lg[x] \in ot2[p].gone
  <2>1. CASE lg[x] = k
    BY <1>1, <1>6, <2>1
  <2>2. CASE lg[x] # k
    <3>1. lg[x] \in hf \/ \E p \in Outs : lg[x] \in ot[p].gone
      BY <1>2, <1>3, <1>6, <2>2 DEF KeyOK, Revoking
    <3> QED BY <1>1, <3>1
  <2> QED BY <2>1, <2>2
<1>7. Revoking(ks2, lg, ot2, hf2)
  <2>1. \A p \in Outs : ot2[p].pc = "idle" => ot2[p].gone = {}
    BY <1>1 DEF KeyOK, Revoking
  <2> QED BY <1>2, <1>4, <1>5, <1>6, <2>1 DEF Revoking
<1>8. \A p \in Outs : \A i \in ot2[p].todo \cup ot2[p].gone :
         i \in ot[p].todo \cup ot[p].gone \/ InFile(lg, i)
  BY <1>1
<1>9. /\ \A f \in Flows : FlowOK(ks2, lg, fw, ot2, f)
      /\ Custody(ks2, lg, fw, seen)
      /\ \A x \in Sites : lg[x] <= Len(ks2)
  BY <1>1, <1>8, OthersKeep
<1> QED BY <1>7, <1>9 DEF KeyOK, ot2

\* A logout removes from the file what it revoked: nothing live is lost.
LEMMA LogoutRemoves ==
    ASSUME NEW ks \in Seq(KeyRecords), NEW lg \in [Sites -> Nat], NEW lg2 \in [Sites -> Nat],
           NEW fw \in [Flows -> FlowRecords], NEW ot \in [Outs -> OutRecords],
           NEW seen, NEW hf, KeyOK(ks, lg, fw, ot, seen, hf),
           NEW o \in Outs, NEW q \in OutRecords, q.todo = {}, q.gone = {},
           \A x \in Sites : lg2[x] = IF lg[x] \in ot[o].gone THEN 0 ELSE lg[x]
    PROVE  KeyOK(ks, lg2, fw, [ot EXCEPT ![o] = q], seen, hf)
<1> DEFINE ot2 == [ot EXCEPT ![o] = q]
<1>1. ot2[o] = q /\ \A p \in Outs \ {o} : ot2[p] = ot[p]
  OBVIOUS
<1> HIDE DEF ot2
<1>2. \A k : k # 0 /\ InFile(lg2, k) => InFile(lg, k) /\ k \notin ot[o].gone
  BY DEF InFile
<1>3. \A f \in Flows : FlowOK(ks, lg2, fw, ot2, f)
  <2> SUFFICES ASSUME NEW f \in Flows PROVE FlowOK(ks, lg2, fw, ot2, f)
    OBVIOUS
  <2>1. FlowOK(ks, lg, fw, ot, f)
    BY DEF KeyOK
  <2>2. Alone(ks, lg2, fw, ot2, f)
    BY <1>1, <1>2, <2>1 DEF FlowOK, Alone
  <2> QED BY <1>2, <2>1, <2>2 DEF FlowOK
<1>4. Custody(ks, lg2, fw, seen)
  <2>1. \A k \in 1 .. Len(ks) : LiveIn(ks, k) => k \notin ot[o].gone
    BY DEF KeyOK, Revoking
  <2>2. \A k \in 1 .. Len(ks) : LiveIn(ks, k) /\ InFile(lg, k) => InFile(lg2, k)
    BY <2>1 DEF InFile
  <2> QED BY <2>2 DEF KeyOK, Custody
<1>5. Revoking(ks, lg2, ot2, hf)
  BY <1>1 DEF KeyOK, Revoking
<1>6. \A x \in Sites : lg2[x] <= Len(ks)
  <2>1. Len(ks) \in Nat /\ 0 <= Len(ks) /\ \A x \in Sites : lg[x] <= Len(ks)
    BY DEF KeyOK
  <2>2. \A x \in Sites : lg2[x] \in {0, lg[x]}
    OBVIOUS
  <2> QED BY <2>1, <2>2
<1> QED BY <1>3, <1>4, <1>5, <1>6 DEF KeyOK, ot2

-----------------------------------------------------------------------------
(* Steps of the parts: the turns at the file.                              *)

Stages == {"idle", "starting", "polling", "issued", "discard", "storing", "stored",
           "picked", "ended"}
EditRecords == [pc : {"none", "waits", "read"}, snap : Files]

\* Nobody is two processes at once.
LEMMA Apart ==
    /\ \A f \in Flows : f \in Editors /\ f \notin Servers /\ f \notin Outs /\ f # Nobody
    /\ \A s \in Servers : s \in Editors /\ s \notin Flows /\ s \notin Outs /\ s # Nobody
    /\ \A o \in Outs : o \in Editors /\ o \notin Flows /\ o \notin Servers /\ o # Nobody
    /\ \A s \in Servers : Back(s) \in Flows /\ Back(s) \notin Terminals
    /\ Nobody \notin Editors /\ Nobody \notin Flows
BY SignInAssumption DEF Editors, Flows

\* Nobody has a login to keep, a turn to take or a file to begin with.
LEMMA FirstRecords ==
    /\ EmptyFile \in Files /\ NoEdit \in EditRecords /\ Waiting \in EditRecords
    /\ NoEdit.pc = "none" /\ Waiting.pc = "waits"
    /\ EmptyFile.deflt = NoSpace /\ \A x \in Sites : EmptyFile.logins[x] = 0
BY DEF EmptyFile, Files, NoEdit, Waiting, EditRecords

\* A process goes to another stage: it has no turn, or the stage keeps it.
LEMMA AccessFlow ==
    ASSUME NEW lk, NEW ed, NEW fl, NEW fw \in [Flows -> FlowRecords], NEW cl, NEW ot,
           Access(lk, ed, fl, fw, cl, ot), NEW f \in Flows, NEW r,
           ed[f].pc # "none" => r.pc \in {"storing", "picked"}
    PROVE  Access(lk, ed, fl, [fw EXCEPT ![f] = r], cl, ot)
BY DEF Access, Turns

LEMMA AccessCall ==
    ASSUME NEW lk, NEW ed, NEW fl, NEW fw, NEW cl \in [Servers -> CallRecords], NEW ot,
           Access(lk, ed, fl, fw, cl, ot), NEW s \in Servers, NEW c,
           ed[s].pc # "none" => c.pc = "adopt"
    PROVE  Access(lk, ed, fl, fw, [cl EXCEPT ![s] = c], ot)
BY DEF Access, Turns

LEMMA AccessOut ==
    ASSUME NEW lk, NEW ed, NEW fl, NEW fw, NEW cl, NEW ot \in [Outs -> OutRecords],
           Access(lk, ed, fl, fw, cl, ot), NEW o \in Outs, NEW q,
           ed[o].pc # "none" => q.pc = "removing"
    PROVE  Access(lk, ed, fl, fw, cl, [ot EXCEPT ![o] = q])
BY DEF Access, Turns

\* A process that may edit asks for a turn.
LEMMA AccessAsk ==
    ASSUME NEW lk, NEW ed \in [Editors -> EditRecords], NEW fl, NEW fw, NEW cl, NEW ot,
           Access(lk, ed, fl, fw, cl, ot), NEW p \in Editors, ed[p].pc # "read",
           p \in Flows => fw[p].pc \in {"storing", "picked"},
           p \in Servers => cl[p].pc = "adopt",
           p \in Outs => ot[p].pc = "removing"
    PROVE  Access(lk, [ed EXCEPT ![p] = Waiting], fl, fw, cl, ot)
<1>1. /\ [ed EXCEPT ![p] = Waiting][p].pc = "waits"
      /\ \A q \in Editors : q # p => [ed EXCEPT ![p] = Waiting][q] = ed[q]
  BY FirstRecords
<1>2. Turns([ed EXCEPT ![p] = Waiting], fw, cl, ot)
  BY <1>1, Apart DEF Access, Turns
<1>3. Loaded(lk, [ed EXCEPT ![p] = Waiting], fl)
  BY <1>1 DEF Access, Loaded
<1> QED BY <1>2, <1>3 DEF Access

\* A wait for a turn is given up.
LEMMA AccessCancel ==
    ASSUME NEW lk, NEW ed \in [Editors -> EditRecords], NEW fl, NEW fw, NEW cl, NEW ot,
           Access(lk, ed, fl, fw, cl, ot), NEW p \in Editors, ed[p].pc # "read"
    PROVE  Access(lk, [ed EXCEPT ![p] = NoEdit], fl, fw, cl, ot)
<1>1. /\ [ed EXCEPT ![p] = NoEdit][p].pc = "none"
      /\ \A q \in Editors : q # p => [ed EXCEPT ![p] = NoEdit][q] = ed[q]
  BY FirstRecords
<1>2. Turns([ed EXCEPT ![p] = NoEdit], fw, cl, ot)
  BY <1>1, Apart DEF Access, Turns
<1>3. Loaded(lk, [ed EXCEPT ![p] = NoEdit], fl)
  BY <1>1 DEF Access, Loaded
<1> QED BY <1>2, <1>3 DEF Access

\* Whoever holds the lock leaves any file behind: nobody else has loaded one.
LEMMA AccessLeave ==
    ASSUME NEW lk, NEW ed \in [Editors -> EditRecords], NEW fl, NEW fl2, NEW fw, NEW cl, NEW ot,
           Access(lk, ed, fl, fw, cl, ot), NEW p \in Editors, ed[p].pc = "read"
    PROVE  Access(Nobody, [ed EXCEPT ![p] = NoEdit], fl2, fw, cl, ot)
<1>1. /\ [ed EXCEPT ![p] = NoEdit][p].pc = "none"
      /\ \A q \in Editors : q # p => [ed EXCEPT ![p] = NoEdit][q] = ed[q]
  BY FirstRecords
<1>2. Turns([ed EXCEPT ![p] = NoEdit], fw, cl, ot)
  BY <1>1, Apart DEF Access, Turns
<1>3. \A q \in Editors : [ed EXCEPT ![p] = NoEdit][q].pc # "read"
  BY <1>1 DEF Access, Loaded
<1>4. Loaded(Nobody, [ed EXCEPT ![p] = NoEdit], fl2)
  BY <1>3, Apart DEF Loaded
<1> QED BY <1>2, <1>4 DEF Access

\* The lock is taken and the file loaded.
LEMMA AccessEnter ==
    ASSUME NEW ed \in [Editors -> EditRecords], NEW fl \in Files, NEW fw, NEW cl, NEW ot,
           Access(Nobody, ed, fl, fw, cl, ot), NEW p \in Editors, ed[p].pc = "waits"
    PROVE  Access(p, [ed EXCEPT ![p] = [pc |-> "read", snap |-> fl]], fl, fw, cl, ot)
<1> DEFINE e == [pc |-> "read", snap |-> fl]
           ed2 == [ed EXCEPT ![p] = e]
<1>1. /\ ed2[p] = e /\ e.pc = "read" /\ e.snap = fl
      /\ \A q \in Editors : q # p => ed2[q] = ed[q]
  OBVIOUS
<1> HIDE DEF ed2, e
<1>2. Turns(ed2, fw, cl, ot)
  BY <1>1, Apart DEF Access, Turns
<1>3. \A q \in Editors : ed[q].pc # "read"
  BY Apart DEF Access, Loaded
<1>4. Loaded(p, ed2, fl)
  BY <1>1, <1>3 DEF Loaded
<1> QED BY <1>2, <1>4 DEF Access, ed2, e

-----------------------------------------------------------------------------
(* Steps of the parts: the default space and the logins it is meant for.   *)

\* Keys keep their accounts, and what an account reaches only grows.
Grows(ks, rc, ks2, rc2) ==
    /\ Len(ks) <= Len(ks2)
    /\ \A k \in 1 .. Len(ks) : Reach(ks, rc, k) \subseteq Reach(ks2, rc2, k)

LEMMA KeyFields ==
    ASSUME NEW ks \in Seq(KeyRecords)
    PROVE  /\ Len(ks) \in Nat
           /\ \A k \in 1 .. Len(ks) :
                ks[k].account \in Accounts /\ ks[k].state \in {"live", "revoked", "expired"}
<1>1. Len(ks) \in Nat /\ \A k \in 1 .. Len(ks) : ks[k] \in KeyRecords
  OBVIOUS
<1> QED BY <1>1 DEF KeyRecords

LEMMA GrowsIssued ==
    ASSUME NEW ks \in Seq(KeyRecords), NEW rec \in KeyRecords, NEW rc
    PROVE  Grows(ks, rc, Append(ks, rec), rc)
BY IssueFacts DEF Grows, Reach

LEMMA GrowsWithdrawn ==
    ASSUME NEW ks \in Seq(KeyRecords), NEW ks2 \in Seq(KeyRecords), NEW k \in Nat,
           Withdrawn(ks, ks2, k), NEW rc
    PROVE  Grows(ks, rc, ks2, rc)
<1>1. /\ Len(ks2) = Len(ks) /\ Len(ks) \in Nat
      /\ \A i \in 1 .. Len(ks) : ks2[i].account = ks[i].account
  BY WithdrawnFacts
<1> QED BY <1>1 DEF Grows, Reach

\* An account without a space gets its first.
LEMMA GrowsCreated ==
    ASSUME NEW ks \in Seq(KeyRecords), NEW rc \in [Accounts -> SUBSET Spaces],
           NEW a \in Accounts, rc[a] = {}, NEW S
    PROVE  Grows(ks, rc, ks, [rc EXCEPT ![a] = S])
<1>1. Len(ks) \in Nat /\ \A k \in 1 .. Len(ks) : ks[k].account \in Accounts
  BY KeyFields
<1> QED BY <1>1 DEF Grows, Reach

\* The keys that the file, a login past its poll and an adopting server name exist.
Known(ks, fl, fw) ==
    /\ \A x \in Sites : fl.logins[x] # 0 => fl.logins[x] \in 1 .. Len(ks)
    /\ \A f \in Flows :
         fw[f].pc \in {"issued", "discard", "storing", "stored", "picked"} =>
             fw[f].key \in 1 .. Len(ks)

LEMMA KnownKeys ==
    ASSUME NEW ks \in Seq(KeyRecords), NEW fl \in Files, NEW fw \in [Flows -> FlowRecords],
           NEW ot, NEW seen, NEW hf, KeyOK(ks, fl.logins, fw, ot, seen, hf)
    PROVE  Known(ks, fl, fw)
<1>1. /\ Len(ks) \in Nat /\ \A x \in Sites : fl.logins[x] \in Nat
      /\ \A f \in Flows : fw[f].key \in Nat
  BY FlowFields DEF Files
<1>2. \A x \in Sites : fl.logins[x] # 0 => fl.logins[x] \in 1 .. Len(ks)
  BY <1>1 DEF KeyOK
<1>3. \A f \in Flows : FlowShape(fw[f]) /\ fw[f].key <= Len(ks)
  BY DEF KeyOK, FlowOK
<1> QED BY <1>1, <1>2, <1>3 DEF Known, FlowShape

LEMMA InReachGrows ==
    ASSUME NEW ks, NEW ks2, NEW rc, NEW rc2, NEW fl, NEW fw, NEW cl,
           Len(ks) \in Nat, Len(ks2) \in Nat,
           InReach(ks, rc, fl, fw, cl), Grows(ks, rc, ks2, rc2), Known(ks, fl, fw)
    PROVE  InReach(ks2, rc2, fl, fw, cl)
<1>1. DefaultOK(ks2, rc2, fl)
  <2>1. fl.deflt # NoSpace =>
          \E x \in Sites : fl.logins[x] # 0 /\ fl.deflt \in Reach(ks2, rc2, fl.logins[x])
    BY DEF InReach, DefaultOK, Grows, Known
  <2> QED BY <2>1 DEF InReach, DefaultOK
<1>2. ASSUME NEW f \in Flows PROVE Listing(ks2, rc2, f, fw[f])
  <2>1. CASE fw[f].pc \in {"storing", "stored", "picked"}
    <3>1. fw[f].key \in 1 .. Len(ks)
      BY <2>1 DEF Known
    <3>2. Reach(ks, rc, fw[f].key) \subseteq Reach(ks2, rc2, fw[f].key)
      BY <3>1 DEF Grows
    <3> QED BY <2>1, <3>2 DEF InReach, Listing
  <2>2. CASE fw[f].pc \notin {"storing", "stored", "picked"}
    BY <2>2 DEF Listing
  <2> QED BY <2>1, <2>2
<1>3. ASSUME NEW s \in Servers PROVE Adoption(ks2, rc2, cl[s])
  BY DEF InReach, Adoption, Grows
<1> QED BY <1>1, <1>2, <1>3 DEF InReach

LEMMA InReachFlow ==
    ASSUME NEW ks, NEW rc, NEW fl, NEW fw \in [Flows -> FlowRecords], NEW cl,
           InReach(ks, rc, fl, fw, cl), NEW f \in Flows, NEW r, Listing(ks, rc, f, r)
    PROVE  InReach(ks, rc, fl, [fw EXCEPT ![f] = r], cl)
BY DEF InReach

LEMMA InReachCall ==
    ASSUME NEW ks, NEW rc, NEW fl, NEW fw, NEW cl \in [Servers -> CallRecords],
           InReach(ks, rc, fl, fw, cl), NEW s \in Servers, NEW c, Adoption(ks, rc, c)
    PROVE  InReach(ks, rc, fl, fw, [cl EXCEPT ![s] = c])
BY DEF InReach

\* The default set by storeDefault is meant for a login that is still stored.
LEMMA DefaultSet ==
    ASSUME NEW ks, NEW rc, NEW fl \in Files, DefaultOK(ks, rc, fl),
           NEW k, k # 0, InFile(fl.logins, k), NEW n \in Reach(ks, rc, k)
    PROVE  DefaultOK(ks, rc, [fl EXCEPT !.deflt = n])
<1> DEFINE fl2 == [fl EXCEPT !.deflt = n]
<1>1. fl2.logins = fl.logins /\ fl2.deflt = n
  BY DEF Files
<1> HIDE DEF fl2
<1>2. \E x \in Sites : fl2.logins[x] # 0 /\ n \in Reach(ks, rc, fl2.logins[x])
  BY <1>1 DEF InFile
<1>3. \A x, y \in Sites : fl2.logins[x] # 0 /\ fl2.logins[y] # 0 => x = y
  BY <1>1 DEF DefaultOK
<1> QED BY <1>1, <1>2, <1>3 DEF DefaultOK, fl2

\* chooseDefault names the space asked for, or one that was listed, or none.
LEMMA ChosenDefault ==
    ASSUME NEW asked, NEW spaces, NEW prior
    PROVE  LET n == chooseDefault(asked, spaces, prior)
           IN n = NoSpace \/ n \in spaces \/ (asked # NoSpace /\ n = asked)
<1>1. spaces = {} => Cardinality(spaces) = 0
  BY FS_EmptySet
<1>2. CASE asked # NoSpace
  BY <1>2 DEF chooseDefault
<1>3. CASE asked = NoSpace /\ Cardinality(spaces) = 1
  <2>1. (CHOOSE n \in spaces : TRUE) \in spaces
    BY <1>1, <1>3
  <2> QED BY <1>3, <2>1 DEF chooseDefault
<1>4. CASE asked = NoSpace /\ Cardinality(spaces) # 1
  BY <1>4 DEF chooseDefault
<1> QED BY <1>2, <1>3, <1>4

-----------------------------------------------------------------------------
(* Steps of the parts: the page of the sign-in that runs.                  *)

LEMMA PageMoves ==
    ASSUME NEW sg \in Flows \cup {Nobody}, NEW rd, NEW fw \in [Flows -> FlowRecords], NEW dead,
           PageOK(sg, rd, fw, dead), NEW f \in Flows, NEW r,
           sg = f => r.pc \notin {"idle", "ended"} /\ r.code = fw[f].code
    PROVE  PageOK(sg, rd, [fw EXCEPT ![f] = r], dead)
BY Apart DEF PageOK

\* A login that is over takes its page and its lock with it.
LEMMA PageEnds ==
    ASSUME NEW sg \in Flows \cup {Nobody}, NEW rd, NEW fw \in [Flows -> FlowRecords], NEW dead,
           PageOK(sg, rd, fw, dead), NEW f \in Flows, NEW r,
           NEW sg2, NEW rd2, sg2 = IF sg = f THEN Nobody ELSE sg, rd2 = IF sg = f THEN 0 ELSE rd
    PROVE  PageOK(sg2, rd2, [fw EXCEPT ![f] = r], dead)
BY Apart DEF PageOK

-----------------------------------------------------------------------------
(* Steps of the parts: what withdrawing and ending do.                     *)

LEMMA WithdrawFacts ==
    ASSUME keys \in Seq(KeyRecords), NEW k \in Nat, k <= Len(keys), NEW st \in {"revoked", "expired"},
           NEW ks2, ks2 = IF Live(k) THEN [keys EXCEPT ![k].state = st] ELSE keys
    PROVE  ks2 \in Seq(KeyRecords) /\ Withdrawn(keys, ks2, k)
<1>1. Len(keys) \in Nat /\ \A i \in 1 .. Len(keys) : keys[i] \in KeyRecords
  OBVIOUS
<1>2. CASE ~Live(k)
  BY <1>2 DEF Withdrawn, LiveIn, Live
<1>3. CASE Live(k)
  <2>1. k \in 1 .. Len(keys) /\ ks2 = [keys EXCEPT ![k].state = st]
    BY <1>1, <1>3 DEF Live
  <2> DEFINE rec == [keys[k] EXCEPT !.state = st]
  <2>2. rec \in KeyRecords /\ rec.state = st /\ rec.account = keys[k].account
    BY <1>1, <2>1 DEF KeyRecords
  <2>3. ks2 = [keys EXCEPT ![k] = rec]
    BY <2>1
  <2> HIDE DEF rec
  <2>4. /\ ks2 \in Seq(KeyRecords) /\ Len(ks2) = Len(keys) /\ ks2[k] = rec
        /\ \A i \in 1 .. Len(keys) : i # k => ks2[i] = keys[i]
    BY <2>1, <2>2, <2>3
  <2> QED BY <2>2, <2>4 DEF Withdrawn, LiveIn
<1> QED BY <1>2, <1>3

Over == [NoFlow EXCEPT !.pc = "ended"]
First == [NoFlow EXCEPT !.pc = "starting"]

LEMMA FreshFlows ==
    /\ NoFlow \in FlowRecords /\ Over \in FlowRecords /\ First \in FlowRecords
    /\ NoFlow.pc = "idle" /\ Over.pc = "ended" /\ First.pc = "starting"
    /\ NoFlow.key = 0 /\ NoFlow.old = 0 /\ Over.key = 0 /\ Over.old = 0
    /\ First.key = 0 /\ First.old = 0
    /\ FlowShape(NoFlow) /\ FlowShape(Over) /\ FlowShape(First)
<1>1. /\ NoFlow \in FlowRecords /\ Over \in FlowRecords /\ First \in FlowRecords
      /\ NoFlow.pc = "idle" /\ Over.pc = "ended" /\ First.pc = "starting"
      /\ NoFlow.key = 0 /\ NoFlow.old = 0 /\ Over.key = 0 /\ Over.old = 0
      /\ First.key = 0 /\ First.old = 0
  BY DEF NoFlow, Over, First, FlowRecords
<1> QED BY <1>1 DEF FlowShape

\* A login has a turn at the file only where it stores a login or a default.
LEMMA NoTurn ==
    ASSUME SignInInv, NEW f \in Flows, flow[f].pc \notin {"storing", "picked"}
    PROVE  edit[f].pc = "none"
BY DEF SignInInv, Access, Turns

LEMMA NoListing ==
    ASSUME NEW ks, NEW rc, NEW f, NEW r, r.pc \notin {"storing", "stored", "picked"}
    PROVE  Listing(ks, rc, f, r)
BY DEF Listing

\* A step of one login that leaves the file alone.
LEMMA FlowGoes ==
    ASSUME SignInInv, NEW f \in Flows, NEW r \in FlowRecords,
           flow' = [flow EXCEPT ![f] = r],
           UNCHANGED <<reach, file, lock, edit, call, out, half, deadCodes, dropped, faults>>,
           keys' \in Seq(KeyRecords), Grows(keys, reach, keys', reach),
           codes' \in Nat, commands' \in Nat, record' \in Nat, told' \subseteq Nat,
           signer' \in Flows \cup {Nobody},
           flow[f].pc \notin {"storing", "picked"}, Listing(keys', reach, f, r),
           KeyOK(keys', file.logins, flow', out, told' \cup dropped, half),
           PageOK(signer', record', flow', deadCodes)
    PROVE  SignInInv'
<1>1. TypeOK'
  <2>1. flow' \in [Flows -> FlowRecords]
    BY DEF SignInInv, TypeOK
  <2> QED BY <2>1 DEF SignInInv, TypeOK
<1>2. Access(lock, edit, file, flow', call, out)
  BY NoTurn, AccessFlow DEF SignInInv, TypeOK
<1>3. InReach(keys', reach, file, flow', call)
  <2>1. Known(keys, file, flow)
    BY KnownKeys DEF SignInInv, TypeOK
  <2>2. Len(keys) \in Nat /\ Len(keys') \in Nat
    BY DEF SignInInv, TypeOK
  <2>3. InReach(keys', reach, file, flow, call)
    BY <2>1, <2>2, InReachGrows DEF SignInInv
  <2> QED BY <2>3, InReachFlow DEF SignInInv, TypeOK
<1> QED BY <1>1, <1>2, <1>3 DEF SignInInv

\* A login is over: what it did not answer for, or answers for no more, is told.
LEMMA FlowFinishes ==
    ASSUME SignInInv, NEW f \in Flows, Finish(f)
    PROVE  /\ flow' = [flow EXCEPT ![f] = Over] /\ Over \in FlowRecords
           /\ signer' \in Flows \cup {Nobody} /\ record' \in Nat
           /\ PageOK(signer', record', flow', deadCodes)
           /\ \A ks, rc : Listing(ks, rc, f, Over)
           /\ \A k : ~Holds(Over, k)
<1>1. signer \in Flows \cup {Nobody} /\ record \in Nat /\ flow \in [Flows -> FlowRecords]
  BY DEF SignInInv, TypeOK
<1>2. flow' = [flow EXCEPT ![f] = Over]
  BY DEF Finish, Over
<1>3. signer' \in Flows \cup {Nobody} /\ record' \in Nat
  BY <1>1 DEF Finish
<1>4. PageOK(signer', record', flow', deadCodes)
  <2>1. /\ signer' = IF signer = f THEN Nobody ELSE signer
        /\ record' = IF signer = f THEN 0 ELSE record
    BY DEF Finish
  <2>2. PageOK(signer, record, flow, deadCodes)
    BY DEF SignInInv
  <2> QED BY <1>1, <1>2, <2>1, <2>2, PageEnds
<1>5. (\A ks, rc : Listing(ks, rc, f, Over)) /\ \A k : ~Holds(Over, k)
  BY FreshFlows DEF Listing, Holds, Private
<1> QED BY <1>2, <1>3, <1>4, <1>5, FreshFlows

-----------------------------------------------------------------------------
(* Each step of a login keeps the invariant.                               *)

LEMMA LoginCommandInv ==
    ASSUME SignInInv, NEW f \in Flows, LoginCommand(f)
    PROVE  SignInInv'
<1>1. /\ flow' = [flow EXCEPT ![f] = First] /\ flow[f].pc = "idle"
      /\ commands' \in Nat /\ codes' \in Nat /\ record' \in Nat /\ told' \subseteq Nat
      /\ signer' \in Flows \cup {Nobody} /\ keys' \in Seq(KeyRecords)
      /\ UNCHANGED <<keys, reach, codes, file, lock, edit, signer, record, call, out, told, half,
                     deadCodes, dropped, faults>>
  BY DEF LoginCommand, Begin, First, Counted, site, ghosts, SignInInv, TypeOK
<1>2. KeyOK(keys, file.logins, [flow EXCEPT ![f] = First], out, told \cup dropped, half)
  <2>1. \A k : ~Holds(flow[f], k)
    BY <1>1 DEF Holds, Private
  <2> QED BY <2>1, FreshFlows, FlowMoves DEF SignInInv, TypeOK, Files
<1>3. PageOK(signer, record, [flow EXCEPT ![f] = First], deadCodes)
  <2>1. signer # f
    BY <1>1, Apart DEF SignInInv, PageOK
  <2> QED BY <2>1, PageMoves DEF SignInInv, TypeOK
<1>4. Listing(keys, reach, f, First)
  BY FreshFlows, NoListing
<1>5. Grows(keys, reach, keys, reach)
  BY KeyFields DEF Grows, SignInInv, TypeOK
<1> QED BY <1>1, <1>2, <1>3, <1>4, <1>5, FreshFlows, FlowGoes

LEMMA StartedInv ==
    ASSUME SignInInv, NEW f \in Flows, Started(f)
    PROVE  SignInInv'
<1> DEFINE r == [flow[f] EXCEPT !.pc = "polling", !.code = codes + 1]
<1>1. flow[f] \in FlowRecords /\ codes \in Nat
  BY DEF SignInInv, TypeOK
<1>2. /\ r \in FlowRecords /\ r.pc = "polling" /\ r.code = codes + 1
      /\ r.key = flow[f].key /\ r.old = flow[f].old
  <2>1. codes + 1 \in Nat
    BY <1>1
  <2> QED BY <1>1, <2>1 DEF FlowRecords
<1>3. flow' = [flow EXCEPT ![f] = r]
  BY DEF Started
<1> HIDE DEF r
<1>4. /\ flow[f].pc = "starting" /\ record' = IF signer = f THEN codes + 1 ELSE record
      /\ commands' \in Nat /\ codes' \in Nat /\ record' \in Nat /\ told' \subseteq Nat
      /\ signer' \in Flows \cup {Nobody} /\ keys' \in Seq(KeyRecords)
      /\ UNCHANGED <<keys, reach, file, lock, edit, signer, call, out, told, half,
                     deadCodes, dropped, faults>>
  BY DEF Started, site, ghosts, SignInInv, TypeOK
<1>5. flow[f].key = 0 /\ flow[f].old = 0
  BY <1>4 DEF SignInInv, KeyOK, FlowOK, FlowShape
<1>6. KeyOK(keys, file.logins, [flow EXCEPT ![f] = r], out, told \cup dropped, half)
  <2>1. \A k : ~Holds(flow[f], k)
    BY <1>4 DEF Holds, Private
  <2>2. FlowShape(r)
    BY <1>2, <1>5 DEF FlowShape
  <2> QED BY <1>2, <1>5, <2>1, <2>2, FlowMoves DEF SignInInv, TypeOK, Files
<1>7. PageOK(signer, record', flow', deadCodes)
  <2>1. flow'[f] = r /\ \A g \in Flows : g # f => flow'[g] = flow[g]
    BY <1>3 DEF SignInInv, TypeOK
  <2>2. PageOK(signer, record, flow, deadCodes) /\ signer \in Flows \cup {Nobody}
    BY DEF SignInInv, TypeOK
  <2> QED BY <1>2, <1>4, <2>1, <2>2, Apart DEF PageOK
<1>8. Listing(keys, reach, f, r)
  BY <1>2, NoListing
<1>9. Grows(keys, reach, keys, reach)
  BY KeyFields DEF Grows, SignInInv, TypeOK
<1> QED BY <1>2, <1>3, <1>4, <1>6, <1>7, <1>8, <1>9, FlowGoes

\* A login ends without a key of its own, or a person is told of the key.
LEMMA EndsTold ==
    ASSUME SignInInv, NEW f \in Flows, Finish(f), flow[f].pc \in {"starting", "polling", "discard"},
           UNCHANGED <<keys, reach, codes, file, lock, edit, call, commands, out, dropped, deadCodes, half, faults>>,
           told \subseteq told', told' \subseteq Nat, flow[f].key # 0 => flow[f].key \in told'
    PROVE  SignInInv'
<1>1. /\ flow' = [flow EXCEPT ![f] = Over] /\ Over \in FlowRecords
      /\ signer' \in Flows \cup {Nobody} /\ record' \in Nat
      /\ PageOK(signer', record', flow', deadCodes)
      /\ Listing(keys, reach, f, Over) /\ \A k : ~Holds(Over, k)
  BY FlowFinishes
<1>2. KeyOK(keys, file.logins, [flow EXCEPT ![f] = Over], out, told' \cup dropped, half)
  <2>1. \A k \in 1 .. Len(keys) : Holds(flow[f], k) => k \in told' \cup dropped
    BY DEF Holds
  <2>2. told \cup dropped \subseteq told' \cup dropped
    OBVIOUS
  <2> QED BY <2>1, <2>2, FreshFlows, FlowMoves DEF SignInInv, TypeOK, Files, Private
<1>3. /\ commands' \in Nat /\ codes' \in Nat /\ keys' \in Seq(KeyRecords)
  BY DEF SignInInv, TypeOK
<1>4. Grows(keys, reach, keys, reach)
  BY KeyFields DEF Grows, SignInInv, TypeOK
<1> QED BY <1>1, <1>2, <1>3, <1>4, FlowGoes

LEMMA StartRefusedInv ==
    ASSUME SignInInv, NEW f \in Flows, StartRefused(f)
    PROVE  SignInInv'
<1>1. flow[f].key = 0
  BY DEF StartRefused, SignInInv, KeyOK, FlowOK, FlowShape
<1>2. told \subseteq Nat
  BY DEF SignInInv, TypeOK
<1> QED BY <1>1, <1>2, EndsTold DEF StartRefused, site, ghosts

LEMMA PollDeniedInv ==
    ASSUME SignInInv, NEW f \in Flows, PollDenied(f)
    PROVE  SignInInv'
<1>1. flow[f].key = 0
  BY DEF PollDenied, Claimed, SignInInv, KeyOK, FlowOK, FlowShape
<1>2. told \subseteq Nat
  BY DEF SignInInv, TypeOK
<1> QED BY <1>1, <1>2, EndsTold DEF PollDenied, site, ghosts

LEMMA PollsEndInv ==
    ASSUME SignInInv, NEW f \in Flows, PollsEnd(f)
    PROVE  SignInInv'
<1>1. flow[f].key # 0 => flow[f].lost
  BY DEF PollsEnd, SignInInv, KeyOK, FlowOK, FlowShape
<1>2. told \subseteq Nat /\ flow[f].key \in Nat
  BY FlowFields DEF SignInInv, TypeOK
<1>3. told' = told \cup Hint(f) /\ Hint(f) \subseteq Nat /\ (flow[f].key # 0 => flow[f].key \in Hint(f))
  BY <1>1, <1>2 DEF PollsEnd, Hint
<1> QED BY <1>2, <1>3, EndsTold DEF PollsEnd, site, ghosts

LEMMA NotAcceptedInv ==
    ASSUME SignInInv, NEW f \in Flows, NotAccepted(f)
    PROVE  SignInInv'
<1> DEFINE r == [flow[f] EXCEPT !.pc = "discard"]
<1>1. flow[f] \in FlowRecords
  BY DEF SignInInv, TypeOK
<1>2. /\ r \in FlowRecords /\ r.pc = "discard" /\ r.code = flow[f].code
      /\ r.key = flow[f].key /\ r.old = flow[f].old
  BY <1>1 DEF FlowRecords
<1>3. flow' = [flow EXCEPT ![f] = r]
  BY DEF NotAccepted, To
<1> HIDE DEF r
<1>4. /\ flow[f].pc = "issued"
      /\ commands' \in Nat /\ codes' \in Nat /\ record' \in Nat /\ told' \subseteq Nat
      /\ signer' \in Flows \cup {Nobody} /\ keys' \in Seq(KeyRecords)
      /\ UNCHANGED <<keys, reach, file, lock, edit, signer, record, call, out, told, half,
                     deadCodes, dropped, faults>>
  BY DEF NotAccepted, site, ghosts, SignInInv, TypeOK
<1>5. flow[f].key # 0 /\ flow[f].old = 0
  BY <1>4 DEF SignInInv, KeyOK, FlowOK, FlowShape
<1>6. KeyOK(keys, file.logins, [flow EXCEPT ![f] = r], out, told \cup dropped, half)
  <2>1. \A k : Holds(flow[f], k) => Holds(r, k)
    BY <1>2, <1>4 DEF Holds, Private
  <2>2. FlowShape(r)
    BY <1>2, <1>5 DEF FlowShape
  <2>3. flow[f].pc \in Private
    BY <1>4 DEF Private
  <2> QED BY <1>2, <2>1, <2>2, <2>3, FlowMoves DEF SignInInv, TypeOK, Files
<1>7. PageOK(signer, record, [flow EXCEPT ![f] = r], deadCodes)
  BY <1>2, PageMoves DEF SignInInv, TypeOK
<1>8. Listing(keys, reach, f, r)
  BY <1>2, NoListing
<1>9. Grows(keys, reach, keys, reach)
  BY KeyFields DEF Grows, SignInInv, TypeOK
<1> QED BY <1>2, <1>3, <1>4, <1>6, <1>7, <1>8, <1>9, FlowGoes

\* A poll claims the code: the key is the login's, or a person is told of it.
LEMMA IssueGoes ==
    ASSUME SignInInv, NEW f \in Flows, NEW a \in Accounts, flow[f].pc = "polling", flow[f].key = 0,
           keys' = Issue(f, a), NEW r \in FlowRecords, flow' = [flow EXCEPT ![f] = r],
           UNCHANGED <<reach, codes, file, lock, edit, call, commands, out, dropped, deadCodes, half, faults>>,
           FlowShape(r), r.old = 0, r.pc \in {"polling", "issued", "discard", "ended"},
           \/ r.key = Len(keys) + 1 /\ r.pc \in Private
           \/ r.key = 0 /\ Len(keys) + 1 \in told',
           told \subseteq told', told' \subseteq Nat,
           signer' \in Flows \cup {Nobody}, record' \in Nat,
           PageOK(signer', record', flow', deadCodes)
    PROVE  SignInInv'
<1> DEFINE rec == [site |-> SiteOf[f], account |-> a, state |-> "live"]
<1>1. rec \in KeyRecords /\ rec.state = "live" /\ keys' = Append(keys, rec)
  BY SignInAssumption DEF KeyRecords, Issue
<1> HIDE DEF rec
<1>2. keys \in Seq(KeyRecords) /\ flow \in [Flows -> FlowRecords] /\ codes \in Nat /\ commands \in Nat
  BY DEF SignInInv, TypeOK
<1>3. keys' \in Seq(KeyRecords) /\ Grows(keys, reach, keys', reach)
  BY <1>1, <1>2, IssueFacts, GrowsIssued
<1>4. KeyOK(Append(keys, rec), file.logins, [flow EXCEPT ![f] = r], out, told' \cup dropped, half)
  <2>1. told \cup dropped \subseteq told' \cup dropped
    OBVIOUS
  <2>2. KeyOK(keys, file.logins, flow, out, told \cup dropped, half)
    BY DEF SignInInv
  <2>3. file.logins \in [Sites -> Nat] /\ out \in [Outs -> OutRecords]
    BY DEF SignInInv, TypeOK, Files
  <2> QED BY <1>1, <1>2, <2>1, <2>2, <2>3, FlowIssues
<1>5. Listing(keys', reach, f, r)
  BY NoListing
<1>6. KeyOK(keys', file.logins, flow', out, told' \cup dropped, half)
  BY <1>1, <1>4
<1> QED BY <1>2, <1>3, <1>5, <1>6, FlowGoes

LEMMA NoKeyYet ==
    ASSUME SignInInv, NEW f \in Flows, flow[f].pc = "polling", ~Claimed(f) \/ ~flow[f].lost
    PROVE  flow[f].key = 0 /\ flow[f].old = 0 /\ flow[f] \in FlowRecords /\ Len(keys) \in Nat
BY DEF Claimed, SignInInv, KeyOK, FlowOK, FlowShape, TypeOK

\* A login that goes on keeps its page.
LEMMA KeepsPage ==
    ASSUME SignInInv, NEW f \in Flows, NEW r, flow' = [flow EXCEPT ![f] = r],
           r.pc \notin {"idle", "ended"}, r.code = flow[f].code,
           UNCHANGED <<signer, record>>
    PROVE  /\ PageOK(signer', record', flow', deadCodes)
           /\ signer' \in Flows \cup {Nobody} /\ record' \in Nat
BY PageMoves DEF SignInInv, TypeOK

LEMMA PollIssuedInv ==
    ASSUME SignInInv, NEW f \in Flows, NEW a \in Approvers[f],
           PollIssued(f, a) \/ PollRejected(f, a)
    PROVE  SignInInv'
<1>1. /\ a \in Accounts /\ flow[f].key = 0 /\ flow[f].old = 0 /\ flow[f] \in FlowRecords
      /\ Len(keys) \in Nat
  BY NoKeyYet, SignInAssumption DEF PollIssued, PollRejected
<1>2. ASSUME NEW pc \in {"issued", "discard"}, flow[f].pc = "polling", keys' = Issue(f, a),
             flow' = [flow EXCEPT ![f].pc = pc, ![f].key = Fresh],
             UNCHANGED <<reach, codes, file, lock, edit, signer, record, call, commands, out, ghosts>>
      PROVE  SignInInv'
  <2> DEFINE r == [flow[f] EXCEPT !.pc = pc, !.key = Len(keys) + 1]
  <2>1. Len(keys) + 1 \in Nat /\ Len(keys) + 1 # 0
    BY <1>1
  <2>2. /\ r \in FlowRecords /\ r.pc = pc /\ r.key = Len(keys) + 1 /\ r.old = 0
        /\ r.code = flow[f].code
    BY <1>1, <2>1 DEF FlowRecords
  <2>3. flow' = [flow EXCEPT ![f] = r]
    BY <1>2 DEF Fresh
  <2> HIDE DEF r
  <2>4. FlowShape(r) /\ r.pc \in Private
    BY <2>1, <2>2 DEF FlowShape, Private
  <2>5. /\ PageOK(signer', record', flow', deadCodes)
        /\ signer' \in Flows \cup {Nobody} /\ record' \in Nat
    BY <1>2, <2>2, <2>3, KeepsPage
  <2>6. told' = told /\ told \subseteq Nat
        /\ UNCHANGED <<reach, codes, file, lock, edit, call, commands, out, dropped, deadCodes, half, faults>>
    BY <1>2 DEF ghosts, SignInInv, TypeOK
  <2> QED BY <1>1, <1>2, <2>2, <2>3, <2>4, <2>5, <2>6, IssueGoes
<1> QED BY <1>2 DEF PollIssued, PollRejected

LEMMA PollBrokenInv ==
    ASSUME SignInInv, NEW f \in Flows, NEW a \in Approvers[f], PollBroken(f, a)
    PROVE  SignInInv'
<1>1. /\ a \in Accounts /\ flow[f].key = 0 /\ flow[f].pc = "polling" /\ Len(keys) \in Nat
  BY NoKeyYet, SignInAssumption DEF PollBroken
<1>2. /\ flow' = [flow EXCEPT ![f] = Over] /\ Over \in FlowRecords
      /\ signer' \in Flows \cup {Nobody} /\ record' \in Nat
      /\ PageOK(signer', record', flow', deadCodes)
  BY FlowFinishes DEF PollBroken
<1>3. told \subseteq told' /\ told' \subseteq Nat /\ Len(keys) + 1 \in told'
  BY <1>1 DEF PollBroken, Fresh, SignInInv, TypeOK
<1>4. /\ keys' = Issue(f, a)
      /\ UNCHANGED <<reach, codes, file, lock, edit, call, commands, out, dropped, deadCodes, half, faults>>
  BY DEF PollBroken
<1> QED BY <1>1, <1>2, <1>3, <1>4, FreshFlows, IssueGoes

LEMMA PollLostInv ==
    ASSUME SignInInv, NEW f \in Flows, PollLost(f)
    PROVE  SignInInv'
<1>1. /\ flow[f].pc = "polling" /\ flow[f].key = 0 /\ flow[f].old = 0 /\ flow[f] \in FlowRecords
      /\ Len(keys) \in Nat
  BY NoKeyYet DEF PollLost
<1>2. /\ UNCHANGED <<reach, codes, file, lock, edit, signer, record, call, commands, out, told,
                     dropped, deadCodes, half, faults>>
      /\ told \subseteq Nat /\ codes \in Nat /\ commands \in Nat /\ keys \in Seq(KeyRecords)
  BY DEF PollLost, ghosts, SignInInv, TypeOK
<1>3. CASE flow' = [flow EXCEPT ![f].lost = TRUE] /\ keys' = keys
  <2> DEFINE r == [flow[f] EXCEPT !.lost = TRUE]
  <2>1. /\ r \in FlowRecords /\ r.pc = "polling" /\ r.key = 0 /\ r.old = 0
        /\ r.code = flow[f].code
    BY <1>1 DEF FlowRecords
  <2>2. flow' = [flow EXCEPT ![f] = r]
    BY <1>3
  <2> HIDE DEF r
  <2>3. FlowShape(r)
    BY <2>1 DEF FlowShape
  <2>4. /\ PageOK(signer', record', flow', deadCodes)
        /\ signer' \in Flows \cup {Nobody} /\ record' \in Nat
    BY <1>2, <2>1, <2>2, KeepsPage
  <2>5. KeyOK(keys, file.logins, [flow EXCEPT ![f] = r], out, told \cup dropped, half)
    <3>1. \A k \in 1 .. Len(keys) : ~Holds(flow[f], k)
      BY <1>1 DEF Holds
    <3> QED BY <2>1, <2>3, <3>1, FlowMoves DEF SignInInv, TypeOK, Files
  <2>6. Listing(keys, reach, f, r)
    BY <2>1, NoListing
  <2>7. Grows(keys, reach, keys, reach)
    BY <1>1 DEF Grows
  <2> QED BY <1>1, <1>2, <1>3, <2>1, <2>2, <2>4, <2>5, <2>6, <2>7, FlowGoes
<1>4. ASSUME NEW a \in Approvers[f], keys' = Issue(f, a),
             flow' = [flow EXCEPT ![f].lost = TRUE, ![f].key = Fresh]
      PROVE  SignInInv'
  <2> DEFINE r == [flow[f] EXCEPT !.lost = TRUE, !.key = Len(keys) + 1]
  <2>1. Len(keys) + 1 \in Nat /\ Len(keys) + 1 # 0
    BY <1>1
  <2>2. /\ r \in FlowRecords /\ r.pc = "polling" /\ r.key = Len(keys) + 1 /\ r.old = 0
        /\ r.code = flow[f].code
    BY <1>1, <2>1 DEF FlowRecords
  <2>3. r.lost
    BY <1>1 DEF FlowRecords
  <2>4. flow' = [flow EXCEPT ![f] = r]
    BY <1>4 DEF Fresh
  <2> HIDE DEF r
  <2>5. FlowShape(r) /\ r.pc \in Private
    BY <2>2, <2>3 DEF FlowShape, Private
  <2>6. /\ PageOK(signer', record', flow', deadCodes)
        /\ signer' \in Flows \cup {Nobody} /\ record' \in Nat
    BY <1>2, <2>2, <2>4, KeepsPage
  <2>7. a \in Accounts
    BY SignInAssumption
  <2> QED BY <1>1, <1>2, <1>4, <2>2, <2>4, <2>5, <2>6, <2>7, IssueGoes
<1> QED BY <1>3, <1>4 DEF PollLost

LEMMA DiscardedInv ==
    ASSUME SignInInv, NEW f \in Flows, Discarded(f)
    PROVE  SignInInv'
<1>1. /\ flow[f].pc = "discard" /\ Finish(f)
      /\ UNCHANGED <<reach, codes, file, lock, edit, call, commands, out, dropped, deadCodes, half, faults>>
  BY DEF Discarded
<1>2. /\ keys \in Seq(KeyRecords) /\ told \subseteq Nat /\ codes \in Nat /\ commands \in Nat
      /\ flow \in [Flows -> FlowRecords] /\ out \in [Outs -> OutRecords]
      /\ file.logins \in [Sites -> Nat]
  BY DEF SignInInv, TypeOK, Files
<1>3. /\ flow[f].key \in Nat /\ flow[f].key # 0 /\ flow[f].key <= Len(keys)
      /\ Holds(flow[f], flow[f].key)
  BY <1>1, <1>2, FlowFields DEF SignInInv, KeyOK, FlowOK, FlowShape, Holds, Private
<1>4. CASE keys' = Withdraw(flow[f].key) /\ told' \in {told, told \cup {flow[f].key}}
  <2>1. /\ keys' \in Seq(KeyRecords) /\ Withdrawn(keys, keys', flow[f].key)
        /\ told' \subseteq Nat /\ told \cup dropped \subseteq told' \cup dropped
    BY <1>2, <1>3, <1>4, WithdrawFacts DEF Withdraw
  <2>2. /\ flow' = [flow EXCEPT ![f] = Over] /\ Over \in FlowRecords
        /\ signer' \in Flows \cup {Nobody} /\ record' \in Nat
        /\ PageOK(signer', record', flow', deadCodes)
        /\ Listing(keys', reach, f, Over)
    BY <1>1, FlowFinishes
  <2>3. KeyOK(keys', file.logins, [flow EXCEPT ![f] = Over], out, told' \cup dropped, half)
    <3>1. KeyOK(keys, file.logins, flow, out, told \cup dropped, half)
      BY DEF SignInInv
    <3>2. Over.pc \notin Private
      BY FreshFlows DEF Private
    <3>3. KeyOK(keys', file.logins, [flow EXCEPT ![f] = Over], out, told \cup dropped, half)
      BY <1>1, <1>2, <1>3, <2>1, <3>1, <3>2, FreshFlows, FlowRevokes
    <3> QED BY <2>1, <3>3, SeenGrows
  <2>4. Grows(keys, reach, keys', reach)
    BY <1>2, <1>3, <2>1, GrowsWithdrawn
  <2> QED BY <1>1, <1>2, <1>4, <2>1, <2>2, <2>3, <2>4, FlowGoes
<1>5. CASE told' = told \cup {flow[f].key} /\ keys' = keys
  BY <1>1, <1>2, <1>3, <1>5, EndsTold
<1> QED BY <1>4, <1>5 DEF Discarded, MayRevoke

LEMMA ListedInv ==
    ASSUME SignInInv, NEW f \in Flows, Listed(f)
    PROVE  SignInInv'
<1> DEFINE k == flow[f].key
           agreed == Consent[f] # "none"
<1>1. /\ flow[f].pc = "issued"
      /\ Asked[f] # NoSpace => Asked[f] \in reach[keys[k].account]
      /\ edit' = [edit EXCEPT ![f] = Waiting]
      /\ UNCHANGED <<keys, codes, file, lock, signer, record, call, commands, out, told, dropped,
                     deadCodes, half, faults>>
  BY Zenon DEF Listed, Reaches, ghosts
<1>2. PICK S : /\ flow' = [flow EXCEPT ![f].pc = "storing", ![f].spaces = S, ![f].agreed = agreed]
               /\ \/ /\ reach[keys[k].account] = {} /\ S = {Notes}
                     /\ reach' = [reach EXCEPT ![keys[k].account] = {Notes}]
                  \/ S = reach[keys[k].account] /\ reach' = reach
  BY Zenon DEF Listed, Reaches, Created
<1>3. agreed \in BOOLEAN
  OBVIOUS
<1> HIDE DEF agreed
<1>4. /\ keys \in Seq(KeyRecords) /\ reach \in [Accounts -> SUBSET Spaces]
      /\ flow \in [Flows -> FlowRecords] /\ out \in [Outs -> OutRecords]
      /\ file.logins \in [Sites -> Nat] /\ edit \in [Editors -> EditRecords]
      /\ file \in Files
  BY DEF SignInInv, TypeOK, Files, EditRecords
<1>5. Known(keys, file, flow) /\ k \in 1 .. Len(keys) /\ keys[k].account \in Accounts
  <2>1. Known(keys, file, flow)
    BY <1>4, KnownKeys DEF SignInInv
  <2> QED BY <1>1, <1>4, <2>1, KeyFields DEF Known
<1>6. S \subseteq Spaces /\ reach' \in [Accounts -> SUBSET Spaces]
  <2>1. {Notes} \subseteq Spaces
    BY SignInAssumption
  <2> QED BY <1>2, <1>4, <1>5, <2>1
<1> DEFINE r == [flow[f] EXCEPT !.pc = "storing", !.spaces = S, !.agreed = agreed]
<1>7. /\ r \in FlowRecords /\ r.pc = "storing" /\ r.key = k /\ r.old = flow[f].old
      /\ r.spaces = S /\ r.code = flow[f].code
  BY <1>3, <1>4, <1>6, Zenon DEF FlowRecords
<1>8. flow' = [flow EXCEPT ![f] = r]
  BY <1>2
<1> HIDE DEF r, k
<1>9. TypeOK'
  <2>1. flow' \in [Flows -> FlowRecords]
    BY <1>4, <1>7, <1>8
  <2>2. edit' \in [Editors -> [pc : {"none", "waits", "read"}, snap : Files]]
    BY <1>1, <1>4, FirstRecords DEF EditRecords
  <2> QED BY <1>1, <1>6, <2>1, <2>2 DEF SignInInv, TypeOK
<1>10. KeyOK(keys, file.logins, [flow EXCEPT ![f] = r], out, told \cup dropped, half)
  <2>1. KeyOK(keys, file.logins, flow, out, told \cup dropped, half)
    BY DEF SignInInv
  <2>2. k # 0 /\ flow[f].old = 0 /\ k = flow[f].key
    BY <1>1, <2>1 DEF KeyOK, FlowOK, FlowShape, k
  <2>3. \A i : Holds(flow[f], i) => Holds(r, i)
    BY <1>1, <1>7, <2>2 DEF Holds, Private
  <2>4. FlowShape(r)
    BY <1>7, <2>2 DEF FlowShape
  <2>5. flow[f].pc \in Private
    BY <1>1 DEF Private
  <2> QED BY <1>4, <1>7, <2>1, <2>2, <2>3, <2>4, <2>5, FlowMoves
<1>11. Access(lock, edit', file, flow', call, out)
  <2>1. edit[f].pc = "none"
    BY <1>1, NoTurn
  <2>2. Access(lock, edit, file, flow', call, out)
    BY <1>4, <1>8, <2>1, AccessFlow DEF SignInInv
  <2>3. flow'[f].pc = "storing"
    BY <1>4, <1>7, <1>8
  <2> QED BY <1>1, <1>4, <2>1, <2>2, <2>3, Apart, AccessAsk
<1>12. InReach(keys, reach', file, flow', call)
  <2>1. Grows(keys, reach, keys, reach')
    <3>1. CASE reach' = reach
      BY <1>4, <3>1, KeyFields DEF Grows
    <3>2. CASE reach[keys[k].account] = {} /\ reach' = [reach EXCEPT ![keys[k].account] = {Notes}]
      BY <1>4, <1>5, <3>2, GrowsCreated
    <3> QED BY <1>2, <3>1, <3>2
  <2>2. InReach(keys, reach', file, flow, call)
    BY <1>4, <1>5, <2>1, KeyFields, InReachGrows DEF SignInInv
  <2>3. S = Reach(keys, reach', k)
    BY <1>2, <1>4, <1>5 DEF Reach
  <2>4. Asked[f] # NoSpace => Asked[f] \in Reach(keys, reach', k)
    BY <1>1, <1>2 DEF Reach
  <2>5. Listing(keys, reach', f, r)
    BY <1>7, <2>3, <2>4 DEF Listing
  <2> QED BY <1>4, <1>8, <2>2, <2>5, InReachFlow
<1>13. PageOK(signer, record, flow', deadCodes)
  BY <1>1, <1>7, <1>8, KeepsPage
<1> QED BY <1>1, <1>8, <1>9, <1>10, <1>11, <1>12, <1>13 DEF SignInInv

\* Under the lock, the set that was loaded is the file.
LEMMA LoadedIsFile ==
    ASSUME SignInInv, NEW p \in Editors, Held(p)
    PROVE  edit[p].snap = file
BY DEF SignInInv, Access, Loaded, Held

\* A turn ends: the wait is given up, or the lock is left with any file.
TurnEnds(p) ==
    /\ edit' = [edit EXCEPT ![p] = NoEdit]
    /\ \/ edit[p].pc = "waits" /\ lock' = lock /\ file' = file
       \/ edit[p].pc = "read" /\ lock' = Nobody

LEMMA EndOfTurn ==
    ASSUME SignInInv, NEW p \in Editors, TurnEnds(p)
    PROVE  /\ Access(lock', edit', file', flow, call, out)
           /\ edit'[p].pc = "none" /\ lock' \in Editors \cup {Nobody}
           /\ edit' \in [Editors -> [pc : {"none", "waits", "read"}, snap : Files]]
<1>1. edit \in [Editors -> EditRecords] /\ lock \in Editors \cup {Nobody}
  BY DEF SignInInv, TypeOK, EditRecords
<1>2. edit' = [edit EXCEPT ![p] = NoEdit]
  BY DEF TurnEnds
<1>3. /\ edit'[p].pc = "none" /\ lock' \in Editors \cup {Nobody}
      /\ edit' \in [Editors -> [pc : {"none", "waits", "read"}, snap : Files]]
  BY <1>1, <1>2, FirstRecords DEF TurnEnds, EditRecords
<1>4. Access(lock, edit, file, flow, call, out)
  BY DEF SignInInv
<1>5. CASE edit[p].pc = "waits" /\ lock' = lock /\ file' = file
  BY <1>1, <1>2, <1>3, <1>4, <1>5, AccessCancel
<1>6. CASE edit[p].pc = "read" /\ lock' = Nobody
  BY <1>1, <1>2, <1>3, <1>4, <1>6, AccessLeave
<1> QED BY <1>5, <1>6 DEF TurnEnds

LEMMA StoredInv ==
    ASSUME SignInInv, NEW f \in Flows, Stored(f)
    PROVE  SignInInv'
<1> DEFINE k == flow[f].key
           x == SiteOf[f]
           d == chooseDefault(Asked[f], flow[f].spaces, file.deflt)
           lg == [file.logins EXCEPT ![x] = k]
           fl == [logins |-> lg, deflt |-> d]
           r == [flow[f] EXCEPT !.pc = "stored", !.old = file.logins[x], !.deflt = d]
<1>1. f \in Editors /\ edit[f].snap = file /\ edit[f].pc = "read" /\ flow[f].pc = "storing"
  BY Apart, LoadedIsFile DEF Stored, Held
<1>2. /\ file' = fl /\ flow' = [flow EXCEPT ![f] = r]
      /\ lock' = Nobody /\ edit' = [edit EXCEPT ![f] = NoEdit]
      /\ \A y \in Sites : y # x => file.logins[y] = 0
      /\ UNCHANGED <<keys, reach, codes, signer, record, call, commands, out, told, dropped,
                     deadCodes, half, faults>>
  BY <1>1 DEF Stored, Leave, MayStore, OtherSite, Old, site, ghosts
<1>3. /\ keys \in Seq(KeyRecords) /\ flow \in [Flows -> FlowRecords] /\ out \in [Outs -> OutRecords]
      /\ file.logins \in [Sites -> Nat] /\ edit \in [Editors -> EditRecords]
      /\ file \in Files /\ x \in Sites /\ Asked[f] \in Spaces \cup {NoSpace}
  BY SignInAssumption DEF SignInInv, TypeOK, Files, EditRecords
<1>4. /\ flow[f].key \in Nat /\ flow[f].spaces \subseteq Spaces
      /\ flow[f].spaces \subseteq Reach(keys, reach, k)
      /\ Asked[f] # NoSpace => Asked[f] \in Reach(keys, reach, k)
  BY <1>1, <1>3, FlowFields DEF SignInInv, InReach, Listing
<1>5. d \in Spaces \cup {NoSpace} /\ (d # NoSpace => d \in Reach(keys, reach, k))
  BY <1>3, <1>4, ChosenDefault
<1> HIDE DEF d
<1>6. lg \in [Sites -> Nat] /\ lg[x] = k /\ (\A y \in Sites : y # x => lg[y] = 0)
  BY <1>2, <1>3, <1>4
<1>7. fl \in Files /\ fl.logins = lg /\ fl.deflt = d
  BY <1>5, <1>6 DEF Files
<1>8. file.logins[x] \in Nat
  BY <1>3
<1>9. /\ r \in FlowRecords /\ r.pc = "stored" /\ r.key = k /\ r.old = file.logins[x]
      /\ r.spaces = flow[f].spaces /\ r.code = flow[f].code
  <2>1. flow[f] \in FlowRecords
    BY <1>3
  <2>2. ASSUME NEW w \in FlowRecords, NEW i \in Nat, NEW n \in Spaces \cup {NoSpace}
        PROVE  [w EXCEPT !.pc = "stored", !.old = i, !.deflt = n] \in FlowRecords
    BY Zenon DEF FlowRecords
  <2>3. r \in FlowRecords
    BY <1>5, <1>8, <2>1, <2>2, Zenon
  <2> QED BY <2>1, <2>3 DEF FlowRecords
<1> HIDE DEF fl, r
<1>10. TypeOK'
  <2>1. flow' \in [Flows -> FlowRecords]
    BY <1>2, <1>3, <1>9
  <2>2. edit' \in [Editors -> [pc : {"none", "waits", "read"}, snap : Files]]
    BY <1>2, <1>3, FirstRecords DEF EditRecords
  <2> QED BY <1>2, <1>7, <2>1, <2>2 DEF SignInInv, TypeOK
<1>11. KeyOK(keys, file'.logins, flow', out, told \cup dropped, half)
  <2>1. KeyOK(keys, file.logins, flow, out, told \cup dropped, half)
    BY DEF SignInInv
  <2>2. file'.logins = [file.logins EXCEPT ![x] = r.key]
    BY <1>2, <1>7, <1>9
  <2>3. r.key = flow[f].key
    BY <1>9
  <2> HIDE DEF x, k
  <2>4. KeyOK(keys, [file.logins EXCEPT ![x] = r.key], [flow EXCEPT ![f] = r], out,
              told \cup dropped, half)
    BY <1>1, <1>2, <1>3, <1>9, <2>1, <2>3, FlowStores
  <2> QED BY <1>2, <2>2, <2>4
<1>12. Access(lock', edit', file', flow', call, out)
  <2>1. Access(lock', edit', file', flow, call, out)
    BY <1>1, <1>2, <1>3, AccessLeave DEF SignInInv
  <2>2. edit'[f].pc = "none"
    BY <1>1, <1>2, <1>3, FirstRecords
  <2> QED BY <1>2, <1>3, <2>1, <2>2, AccessFlow
<1>13. InReach(keys, reach, file', flow', call)
  <2>1. k # 0
    BY <1>1 DEF SignInInv, KeyOK, FlowOK, FlowShape
  <2>2. DefaultOK(keys, reach, fl)
    BY <1>3, <1>5, <1>6, <1>7, <2>1 DEF DefaultOK
  <2>3. InReach(keys, reach, file', flow, call)
    BY <1>2, <2>2 DEF SignInInv, InReach
  <2>4. Listing(keys, reach, f, r)
    BY <1>4, <1>9 DEF Listing
  <2> QED BY <1>2, <1>3, <2>3, <2>4, InReachFlow
<1>14. PageOK(signer, record, flow', deadCodes)
  BY <1>2, <1>9, KeepsPage
<1> QED BY <1>2, <1>10, <1>11, <1>12, <1>13, <1>14 DEF SignInInv

LEMMA NotStoredInv ==
    ASSUME SignInInv, NEW f \in Flows, NotStored(f)
    PROVE  SignInInv'
<1> DEFINE r == [flow[f] EXCEPT !.pc = "discard"]
<1>1. /\ keys \in Seq(KeyRecords) /\ flow \in [Flows -> FlowRecords] /\ out \in [Outs -> OutRecords]
      /\ file.logins \in [Sites -> Nat] /\ file \in Files
  BY DEF SignInInv, TypeOK, Files
<1>2. /\ r \in FlowRecords /\ r.pc = "discard" /\ r.code = flow[f].code
      /\ r.key = flow[f].key /\ r.old = flow[f].old
  BY <1>1, Zenon DEF FlowRecords
<1>3. /\ flow' = [flow EXCEPT ![f] = r] /\ flow[f].pc = "storing"
      /\ TurnEnds(f)
      /\ UNCHANGED <<keys, reach, codes, file, signer, record, call, commands, out, told, dropped,
                     deadCodes, half, faults>>
  BY DEF NotStored, To, Held, Leave, TurnEnds, site, ghosts
<1> HIDE DEF r
<1>4. /\ Access(lock', edit', file, flow, call, out)
      /\ edit'[f].pc = "none" /\ lock' \in Editors \cup {Nobody}
      /\ edit' \in [Editors -> [pc : {"none", "waits", "read"}, snap : Files]]
  BY <1>3, Apart, EndOfTurn
<1>5. TypeOK'
  <2>1. flow' \in [Flows -> FlowRecords]
    BY <1>1, <1>2, <1>3
  <2> QED BY <1>3, <1>4, <2>1 DEF SignInInv, TypeOK
<1>6. KeyOK(keys, file.logins, [flow EXCEPT ![f] = r], out, told \cup dropped, half)
  <2>1. KeyOK(keys, file.logins, flow, out, told \cup dropped, half)
    BY DEF SignInInv
  <2>2. flow[f].key # 0 /\ flow[f].old = 0
    BY <1>3, <2>1 DEF KeyOK, FlowOK, FlowShape
  <2>3. \A k : Holds(flow[f], k) => Holds(r, k)
    BY <1>2, <1>3 DEF Holds, Private
  <2>4. FlowShape(r)
    BY <1>2, <2>2 DEF FlowShape
  <2>5. flow[f].pc \in Private
    BY <1>3 DEF Private
  <2> QED BY <1>1, <1>2, <2>1, <2>3, <2>4, <2>5, FlowMoves
<1>7. Access(lock', edit', file, flow', call, out)
  BY <1>1, <1>3, <1>4, AccessFlow
<1>8. InReach(keys, reach, file, flow', call)
  <2>1. Listing(keys, reach, f, r)
    BY <1>2, NoListing
  <2> QED BY <1>1, <1>3, <2>1, InReachFlow DEF SignInInv
<1>9. PageOK(signer, record, flow', deadCodes)
  BY <1>2, <1>3, KeepsPage
<1> QED BY <1>3, <1>5, <1>6, <1>7, <1>8, <1>9 DEF SignInInv

\* revokeReplaced: the key that was replaced is revoked, or a person is told of it.
LEMMA ReplacedSettled ==
    ASSUME SignInInv, NEW f \in Flows, flow[f].pc = "stored",
           \/ flow[f].old = 0 /\ keys' = keys /\ told' = told
           \/ /\ flow[f].old # 0 /\ keys' = Withdraw(flow[f].old)
              /\ told' \in {told, told \cup {flow[f].old}}
           \/ flow[f].old # 0 /\ told' = told \cup {flow[f].old} /\ keys' = keys,
           NEW r \in FlowRecords, FlowShape(r), r.pc \notin Private, r.pc # "stored",
           r.key \in {0, flow[f].key}
    PROVE  /\ keys' \in Seq(KeyRecords) /\ told' \subseteq Nat
           /\ Grows(keys, reach, keys', reach)
           /\ KeyOK(keys', file.logins, [flow EXCEPT ![f] = r], out, told' \cup dropped, half)
<1> DEFINE old == flow[f].old
<1>1. /\ keys \in Seq(KeyRecords) /\ flow \in [Flows -> FlowRecords] /\ out \in [Outs -> OutRecords]
      /\ file.logins \in [Sites -> Nat] /\ told \subseteq Nat
      /\ KeyOK(keys, file.logins, flow, out, told \cup dropped, half)
  BY DEF SignInInv, TypeOK, Files
<1>2. old \in Nat /\ old <= Len(keys) /\ r.old = 0
  BY <1>1, FlowFields DEF KeyOK, FlowOK, FlowShape
<1>3. \A k : Holds(flow[f], k) <=> k = old
  BY DEF Holds, Private
<1>4. Grows(keys, reach, keys, reach)
  BY <1>1, KeyFields DEF Grows
<1> HIDE DEF old
<1>5. CASE /\ keys' = keys
           /\ \/ old = 0 /\ told' = told
              \/ old # 0 /\ told' = told \cup {old}
  <2>1. told' \subseteq Nat /\ told \cup dropped \subseteq told' \cup dropped
    BY <1>1, <1>2, <1>5
  <2>2. \A k \in 1 .. Len(keys) : Holds(flow[f], k) => k \in told' \cup dropped
    BY <1>3, <1>5
  <2>3. KeyOK(keys, file.logins, [flow EXCEPT ![f] = r], out, told' \cup dropped, half)
    BY <1>1, <1>2, <2>1, <2>2, FlowMoves
  <2> QED BY <1>1, <1>4, <1>5, <2>1, <2>3
<1>6. CASE old # 0 /\ keys' = Withdraw(old) /\ told' \in {told, told \cup {old}}
  <2>1. /\ keys' \in Seq(KeyRecords) /\ Withdrawn(keys, keys', old)
        /\ told' \subseteq Nat /\ told \cup dropped \subseteq told' \cup dropped
    BY <1>1, <1>2, <1>6, WithdrawFacts DEF Withdraw
  <2>2. KeyOK(keys', file.logins, [flow EXCEPT ![f] = r], out, told \cup dropped, half)
    BY <1>1, <1>2, <1>3, <1>6, <2>1, FlowRevokes
  <2>3. Grows(keys, reach, keys', reach)
    BY <1>1, <1>2, <2>1, GrowsWithdrawn
  <2>4. KeyOK(keys', file.logins, [flow EXCEPT ![f] = r], out, told' \cup dropped, half)
    BY <2>1, <2>2, SeenGrows
  <2> QED BY <2>1, <2>3, <2>4
<1> QED BY <1>5, <1>6 DEF old

LEMMA RevokeReplacedInv ==
    ASSUME SignInInv, NEW f \in Flows, RevokeReplaced(f)
    PROVE  SignInInv'
<1>1. /\ flow[f].pc = "stored"
      /\ \/ flow[f].old = 0 /\ keys' = keys /\ told' = told
         \/ /\ flow[f].old # 0 /\ keys' = Withdraw(flow[f].old)
            /\ told' \in {told, told \cup {flow[f].old}}
         \/ flow[f].old # 0 /\ told' = told \cup {flow[f].old} /\ keys' = keys
      /\ UNCHANGED <<reach, codes, file, lock, call, commands, out, dropped, deadCodes, half, faults>>
  BY DEF RevokeReplaced, MayRevoke
<1>2. /\ keys \in Seq(KeyRecords) /\ flow \in [Flows -> FlowRecords] /\ out \in [Outs -> OutRecords]
      /\ file.logins \in [Sites -> Nat] /\ edit \in [Editors -> EditRecords] /\ file \in Files
      /\ codes \in Nat /\ commands \in Nat
  BY DEF SignInInv, TypeOK, Files, EditRecords
<1>3. CASE Finish(f) /\ edit' = edit
  <2>1. /\ flow' = [flow EXCEPT ![f] = Over] /\ Over \in FlowRecords
        /\ signer' \in Flows \cup {Nobody} /\ record' \in Nat
        /\ PageOK(signer', record', flow', deadCodes)
        /\ Listing(keys', reach, f, Over)
    BY <1>3, FlowFinishes
  <2>2. Over.pc \notin Private /\ Over.pc # "stored" /\ Over.key = 0 /\ FlowShape(Over)
    BY FreshFlows DEF Private
  <2>3. /\ keys' \in Seq(KeyRecords) /\ told' \subseteq Nat
        /\ Grows(keys, reach, keys', reach)
        /\ KeyOK(keys', file.logins, flow', out, told' \cup dropped, half)
    BY <1>1, <2>1, <2>2, ReplacedSettled
  <2> QED BY <1>1, <1>2, <1>3, <2>1, <2>3, FlowGoes
<1>4. CASE /\ flow' = [flow EXCEPT ![f].pc = "picked", ![f].old = 0]
           /\ edit' = [edit EXCEPT ![f] = Waiting] /\ UNCHANGED <<signer, record>>
  <2> DEFINE r == [flow[f] EXCEPT !.pc = "picked", !.old = 0]
  <2>1. /\ r \in FlowRecords /\ r.pc = "picked" /\ r.code = flow[f].code
        /\ r.key = flow[f].key /\ r.old = 0 /\ r.spaces = flow[f].spaces
    BY <1>2, Zenon DEF FlowRecords
  <2>2. flow' = [flow EXCEPT ![f] = r]
    BY <1>4
  <2> HIDE DEF r
  <2>3. FlowShape(r)
    BY <1>1, <2>1 DEF FlowShape, SignInInv, KeyOK, FlowOK
  <2>4. r.pc \notin Private
    BY <2>1 DEF Private
  <2>5. /\ keys' \in Seq(KeyRecords) /\ told' \subseteq Nat
        /\ Grows(keys, reach, keys', reach)
        /\ KeyOK(keys', file.logins, flow', out, told' \cup dropped, half)
    BY <1>1, <2>1, <2>2, <2>3, <2>4, ReplacedSettled
  <2>6. TypeOK'
    <3>1. flow' \in [Flows -> FlowRecords]
      BY <1>2, <2>1, <2>2
    <3>2. edit' \in [Editors -> [pc : {"none", "waits", "read"}, snap : Files]]
      BY <1>2, <1>4, FirstRecords DEF EditRecords
    <3> QED BY <1>1, <1>4, <2>5, <3>1, <3>2 DEF SignInInv, TypeOK
  <2>7. Access(lock, edit', file, flow', call, out)
    <3>1. edit[f].pc = "none"
      BY <1>1, NoTurn
    <3>2. Access(lock, edit, file, flow', call, out)
      BY <1>2, <2>2, <3>1, AccessFlow DEF SignInInv
    <3>3. flow'[f].pc = "picked"
      BY <1>2, <2>1, <2>2
    <3> QED BY <1>2, <1>4, <3>1, <3>2, <3>3, Apart, AccessAsk
  <2>8. InReach(keys', reach, file, flow', call)
    <3>1. Known(keys, file, flow)
      BY <1>2, KnownKeys DEF SignInInv
    <3>2. Len(keys) \in Nat /\ Len(keys') \in Nat
      BY <1>2, <2>5
    <3>3. InReach(keys', reach, file, flow, call)
      BY <2>5, <3>1, <3>2, InReachGrows DEF SignInInv
    <3>4. Listing(keys', reach, f, r)
      BY <1>1, <2>1, <3>3 DEF InReach, Listing
    <3> QED BY <1>2, <2>2, <3>3, <3>4, InReachFlow
  <2>9. PageOK(signer', record', flow', deadCodes)
    BY <1>4, <2>1, <2>2, KeepsPage
  <2> QED BY <1>1, <2>5, <2>6, <2>7, <2>8, <2>9 DEF SignInInv
<1> QED BY <1>3, <1>4 DEF RevokeReplaced

\* storeDefault changes the default alone, to a space in the login's reach.
LEMMA DefaultStored ==
    ASSUME SignInInv, NEW p \in Editors, Held(p), NEW k, k # 0, StillStored(p, k),
           NEW n \in Spaces, n \in Reach(keys, reach, k), SetDefault(p, n)
    PROVE  file' \in Files /\ file'.logins = file.logins /\ DefaultOK(keys, reach, file')
<1>1. file' = [file EXCEPT !.deflt = n] /\ InFile(file.logins, k) /\ file \in Files
  BY LoadedIsFile DEF StillStored, SetDefault, InFile, SignInInv, TypeOK
<1>2. DefaultOK(keys, reach, file')
  BY <1>1, DefaultSet DEF SignInInv, InReach
<1> QED BY <1>1, <1>2 DEF Files

LEMMA PickedInv ==
    ASSUME SignInInv, NEW f \in Flows, Picked(f)
    PROVE  SignInInv'
<1>1. /\ flow[f].pc = "picked" /\ Finish(f) /\ TurnEnds(f)
      /\ UNCHANGED <<keys, reach, codes, call, commands, out, told, dropped, deadCodes, half, faults>>
  BY DEF Picked, TurnEnds, Held, Leave, site, ghosts
<1>2. /\ keys \in Seq(KeyRecords) /\ flow \in [Flows -> FlowRecords] /\ out \in [Outs -> OutRecords]
      /\ file.logins \in [Sites -> Nat] /\ file \in Files
  BY DEF SignInInv, TypeOK, Files
<1>3. /\ flow' = [flow EXCEPT ![f] = Over] /\ Over \in FlowRecords
      /\ signer' \in Flows \cup {Nobody} /\ record' \in Nat
      /\ PageOK(signer', record', flow', deadCodes)
      /\ Listing(keys, reach, f, Over)
  BY <1>1, FlowFinishes
<1>4. /\ Access(lock', edit', file', flow, call, out)
      /\ edit'[f].pc = "none" /\ lock' \in Editors \cup {Nobody}
      /\ edit' \in [Editors -> [pc : {"none", "waits", "read"}, snap : Files]]
  BY <1>1, Apart, EndOfTurn
<1>5. file' \in Files /\ file'.logins = file.logins /\ DefaultOK(keys, reach, file')
  <2>1. CASE file' = file
    BY <1>2, <2>1 DEF SignInInv, InReach
  <2>2. CASE Held(f) /\ StillStored(f, flow[f].key) /\ \E n \in flow[f].spaces : SetDefault(f, n)
    <3>1. PICK n \in flow[f].spaces : SetDefault(f, n)
      BY <2>2
    <3>2. /\ flow[f].key # 0 /\ n \in Spaces /\ n \in Reach(keys, reach, flow[f].key)
      BY <1>1, <1>2, FlowFields DEF SignInInv, KeyOK, FlowOK, FlowShape, InReach, Listing
    <3> QED BY <2>2, <3>1, <3>2, Apart, DefaultStored
  <2> QED BY <2>1, <2>2 DEF Picked
<1>6. TypeOK'
  <2>1. flow' \in [Flows -> FlowRecords]
    BY <1>2, <1>3
  <2> QED BY <1>1, <1>3, <1>4, <1>5, <2>1 DEF SignInInv, TypeOK
<1>7. KeyOK(keys, file.logins, [flow EXCEPT ![f] = Over], out, told \cup dropped, half)
  <2>1. \A k : ~Holds(flow[f], k)
    BY <1>1 DEF Holds, Private
  <2>2. KeyOK(keys, file.logins, flow, out, told \cup dropped, half)
    BY DEF SignInInv
  <2> QED BY <1>2, <2>1, <2>2, FreshFlows, FlowMoves
<1>8. Access(lock', edit', file', flow', call, out)
  BY <1>2, <1>3, <1>4, AccessFlow
<1>9. InReach(keys, reach, file', flow', call)
  <2>1. InReach(keys, reach, file', flow, call)
    BY <1>5 DEF SignInInv, InReach
  <2> QED BY <1>2, <1>3, <2>1, InReachFlow
<1> QED BY <1>1, <1>3, <1>5, <1>6, <1>7, <1>8, <1>9 DEF SignInInv

-----------------------------------------------------------------------------
(* Each step of a server keeps the invariant.                              *)

\* A tool call goes on, and with it perhaps the server's own login.
LEMMA CallGoes ==
    ASSUME SignInInv, NEW s \in Servers, NEW c \in CallRecords, call' = [call EXCEPT ![s] = c],
           edit[s].pc = "none", c.pc # "adopt",
           UNCHANGED <<keys, reach, codes, file, lock, edit, record, out, told, dropped, deadCodes,
                       half, faults>>,
           commands' \in Nat, signer' \in Flows \cup {Nobody}, flow' \in [Flows -> FlowRecords],
           KeyOK(keys, file.logins, flow', out, told \cup dropped, half),
           Access(lock, edit, file, flow', call, out),
           InReach(keys, reach, file, flow', call),
           PageOK(signer', record, flow', deadCodes)
    PROVE  SignInInv'
<1>1. call \in [Servers -> CallRecords]
  BY DEF SignInInv, TypeOK
<1>2. TypeOK'
  <2>1. call' \in [Servers -> CallRecords]
    BY <1>1
  <2> QED BY <2>1 DEF SignInInv, TypeOK
<1>3. Access(lock, edit, file, flow', call', out)
  BY <1>1, AccessCall
<1>4. InReach(keys, reach, file, flow', call')
  <2>1. Adoption(keys, reach, c)
    BY DEF Adoption
  <2> QED BY <1>1, <2>1, InReachCall
<1> QED BY <1>2, <1>3, <1>4 DEF SignInInv

\* The same when no login changes.
LEMMA CallMoves ==
    ASSUME SignInInv, NEW s \in Servers, NEW c \in CallRecords, call' = [call EXCEPT ![s] = c],
           call[s].pc # "adopt", c.pc # "adopt", commands' \in Nat,
           UNCHANGED <<keys, reach, codes, file, lock, edit, signer, record, flow, out, told, dropped,
                       deadCodes, half, faults>>
    PROVE  SignInInv'
<1>1. edit[s].pc = "none"
  BY DEF SignInInv, Access, Turns
<1>2. signer \in Flows \cup {Nobody} /\ flow \in [Flows -> FlowRecords]
  BY DEF SignInInv, TypeOK
<1>3. /\ KeyOK(keys, file.logins, flow, out, told \cup dropped, half)
      /\ Access(lock, edit, file, flow, call, out)
      /\ InReach(keys, reach, file, flow, call)
      /\ PageOK(signer, record, flow, deadCodes)
  BY DEF SignInInv
<1> QED BY <1>1, <1>2, <1>3, CallGoes

LEMMA CallFields ==
    ASSUME NEW c \in CallRecords
    PROVE  /\ c.polls \in Nat /\ c.page \in Nat /\ c.key \in Nat /\ c.ready \in Nat
           /\ c.space \in Spaces \cup {NoSpace}
BY DEF CallRecords

LEMMA Answered ==
    ASSUME NEW n \in Nat, NEW page \in Nat
    PROVE  /\ [NoCall EXCEPT !.ready = n] \in CallRecords
           /\ [NoCall EXCEPT !.ready = n].pc = "idle"
           /\ [NoCall EXCEPT !.ready = n, !.page = page] \in CallRecords
           /\ [NoCall EXCEPT !.ready = n, !.page = page].pc = "idle"
BY DEF NoCall, CallRecords

\* The login of the file is the only one.
LEMMA LoginFacts ==
    ASSUME SignInInv
    PROVE  /\ Login \in Nat
           /\ Login # 0 => /\ Login \in 1 .. Len(keys) /\ InFile(file.logins, Login)
                           /\ keys[Login].account \in Accounts
           /\ \A x \in Sites : file.logins[x] # 0 => Login = file.logins[x]
<1> DEFINE at == {x \in Sites : file.logins[x] # 0}
           y == CHOOSE x \in at : TRUE
<1>1. Login = IF at = {} THEN 0 ELSE file.logins[y]
  BY DEF Login
<1>2. at # {} => y \in at
  OBVIOUS
<1>3. \A x, z \in at : x = z
  BY DEF SignInInv, InReach, DefaultOK
<1>4. /\ at \subseteq Sites /\ \A x \in at : file.logins[x] # 0
      /\ \A x \in Sites : file.logins[x] # 0 => x \in at
  OBVIOUS
<1> HIDE DEF at, y
<1>5. file.logins \in [Sites -> Nat] /\ keys \in Seq(KeyRecords) /\ file \in Files
      /\ flow \in [Flows -> FlowRecords]
  BY DEF SignInInv, TypeOK, Files
<1>6. Known(keys, file, flow)
  BY <1>5, KnownKeys DEF SignInInv
<1>7. Login # 0 => Login \in 1 .. Len(keys) /\ InFile(file.logins, Login)
  BY <1>1, <1>2, <1>4, <1>6 DEF Known, InFile
<1>8. \A x \in Sites : file.logins[x] # 0 => Login = file.logins[x]
  BY <1>1, <1>2, <1>3, <1>4
<1>9. Login \in Nat
  BY <1>1, <1>2, <1>4, <1>5
<1> QED BY <1>5, <1>7, <1>8, <1>9, KeyFields

LEMMA CallOnlyInv ==
    ASSUME SignInInv, NEW s \in Servers,
           ToolCall(s) \/ Built(s) \/ SetupRequired(s) \/ Looks(s)
    PROVE  SignInInv'
<1>1. /\ call \in [Servers -> CallRecords] /\ commands \in Nat /\ call[s].ready \in Nat
      /\ call[s] \in CallRecords
  BY CallFields DEF SignInInv, TypeOK
<1>2. CASE ToolCall(s)
  <2> DEFINE c == [NoCall EXCEPT !.pc = "build", !.polls = Polls]
  <2>1. c \in CallRecords /\ c.pc = "build"
    BY SignInAssumption DEF NoCall, CallRecords
  <2>2. /\ call' = [call EXCEPT ![s] = c] /\ call[s].pc = "idle" /\ commands' \in Nat
        /\ UNCHANGED <<keys, reach, codes, file, lock, edit, signer, record, flow, out, told, dropped,
                       deadCodes, half, faults>>
    BY <1>1, <1>2 DEF ToolCall, Counted, site, ghosts
  <2> QED BY <2>1, <2>2, CallMoves
<1>3. CASE Built(s)
  <2> DEFINE c == [NoCall EXCEPT !.ready = Login]
  <2>1. c \in CallRecords /\ c.pc = "idle"
    BY LoginFacts, Answered, Zenon
  <2>2. /\ call' = [call EXCEPT ![s] = c] /\ call[s].pc \in {"build", "rebuild"} /\ commands' = commands
        /\ UNCHANGED <<keys, reach, codes, file, lock, edit, signer, record, flow, out, told, dropped,
                       deadCodes, half, faults>>
    BY <1>3 DEF Built, site, ghosts
  <2> QED BY <1>1, <2>1, <2>2, CallMoves
<1>4. CASE SetupRequired(s)
  <2> DEFINE c == [NoCall EXCEPT !.ready = call[s].ready]
  <2>1. c \in CallRecords /\ c.pc = "idle"
    BY <1>1, Answered, Zenon
  <2>2. /\ call' = [call EXCEPT ![s] = c] /\ call[s].pc \in {"build", "rebuild"} /\ commands' = commands
        /\ UNCHANGED <<keys, reach, codes, file, lock, edit, signer, record, flow, out, told, dropped,
                       deadCodes, half, faults>>
    BY <1>4 DEF SetupRequired, Answer, site, ghosts
  <2> QED BY <1>1, <2>1, <2>2, CallMoves
<1>5. CASE Looks(s)
  <2> DEFINE c == [call[s] EXCEPT !.pc = "pending"]
  <2>1. c \in CallRecords /\ c.pc = "pending"
    BY <1>1 DEF CallRecords
  <2>2. /\ call' = [call EXCEPT ![s] = c] /\ call[s].pc = "build" /\ commands' = commands
        /\ UNCHANGED <<keys, reach, codes, file, lock, edit, signer, record, flow, out, told, dropped,
                       deadCodes, half, faults>>
    BY <1>5 DEF Looks, Stage, site, ghosts
  <2> QED BY <1>1, <2>1, <2>2, CallMoves
<1> QED BY <1>2, <1>3, <1>4, <1>5

\* A login that holds nothing begins, or is forgotten.
LEMMA FlowResets ==
    ASSUME SignInInv, NEW f \in Flows, flow[f].pc \in {"idle", "ended"}, NEW r \in {NoFlow, First}
    PROVE  /\ [flow EXCEPT ![f] = r] \in [Flows -> FlowRecords]
           /\ KeyOK(keys, file.logins, [flow EXCEPT ![f] = r], out, told \cup dropped, half)
           /\ Access(lock, edit, file, [flow EXCEPT ![f] = r], call, out)
           /\ InReach(keys, reach, file, [flow EXCEPT ![f] = r], call)
<1>1. /\ keys \in Seq(KeyRecords) /\ flow \in [Flows -> FlowRecords] /\ out \in [Outs -> OutRecords]
      /\ file.logins \in [Sites -> Nat]
      /\ KeyOK(keys, file.logins, flow, out, told \cup dropped, half)
      /\ Access(lock, edit, file, flow, call, out)
      /\ InReach(keys, reach, file, flow, call)
  BY DEF SignInInv, TypeOK, Files
<1>2. r \in FlowRecords /\ FlowShape(r) /\ r.key = 0 /\ r.old = 0 /\ r.pc \in {"idle", "starting"}
  BY FreshFlows
<1>3. \A k : ~Holds(flow[f], k)
  BY DEF Holds, Private
<1>4. KeyOK(keys, file.logins, [flow EXCEPT ![f] = r], out, told \cup dropped, half)
  BY <1>1, <1>2, <1>3, FlowMoves
<1>5. edit[f].pc = "none"
  BY NoTurn
<1>6. Access(lock, edit, file, [flow EXCEPT ![f] = r], call, out)
  BY <1>1, <1>5, AccessFlow
<1>7. Listing(keys, reach, f, r)
  BY <1>2, NoListing
<1>8. InReach(keys, reach, file, [flow EXCEPT ![f] = r], call)
  BY <1>1, <1>7, InReachFlow
<1> QED BY <1>1, <1>2, <1>4, <1>6, <1>8

LEMMA EndedInv ==
    ASSUME SignInInv, NEW s \in Servers, Ended(s)
    PROVE  SignInInv'
<1> DEFINE f == Back(s)
           c == [NoCall EXCEPT !.ready = call[s].ready]
<1>1. f \in Flows
  BY Apart
<1>2. c \in CallRecords /\ c.pc = "idle"
  BY CallFields, Answered, Zenon DEF SignInInv, TypeOK
<1>3. /\ flow[f].pc = "ended" /\ flow' = [flow EXCEPT ![f] = NoFlow] /\ call' = [call EXCEPT ![s] = c]
      /\ call[s].pc = "build"
      /\ UNCHANGED <<keys, reach, codes, file, lock, edit, signer, record, commands, out, told, dropped,
                     deadCodes, half, faults>>
  BY DEF Ended, Answer, site, ghosts
<1> HIDE DEF f, c
<1>4. edit[s].pc = "none" /\ commands \in Nat /\ signer \in Flows \cup {Nobody}
  BY <1>3 DEF SignInInv, Access, Turns, TypeOK
<1>5. /\ flow' \in [Flows -> FlowRecords]
      /\ KeyOK(keys, file.logins, flow', out, told \cup dropped, half)
      /\ Access(lock, edit, file, flow', call, out)
      /\ InReach(keys, reach, file, flow', call)
  BY <1>1, <1>3, FlowResets
<1>6. PageOK(signer, record, flow', deadCodes)
  <2>1. signer # f
    BY <1>1, <1>3, Apart DEF SignInInv, PageOK
  <2> QED BY <1>1, <1>3, <2>1, PageMoves DEF SignInInv, TypeOK
<1> QED BY <1>2, <1>3, <1>4, <1>5, <1>6, CallGoes

\* Whatever page is shown, the call is answered or built again.
LEMMA ShownCall ==
    ASSUME SignInInv, NEW s \in Servers, NEW page \in Nat, Shown(s, page)
    PROVE  \E c \in CallRecords : /\ call' = [call EXCEPT ![s] = c]
                                  /\ c.pc # "adopt" /\ c.page = page
<1>1. /\ call \in [Servers -> CallRecords] /\ call[s] \in CallRecords
      /\ call[s].ready \in Nat /\ call[s].polls \in Nat
  BY CallFields DEF SignInInv, TypeOK
<1>2. CASE call[s].polls = 0
  <2> DEFINE c == [NoCall EXCEPT !.ready = call[s].ready, !.page = page]
  <2>1. c \in CallRecords /\ c.pc = "idle"
    BY <1>1, Answered, Zenon
  <2>2. c.page = page
    BY DEF NoCall
  <2>3. call' = [call EXCEPT ![s] = c]
    BY <1>2 DEF Shown
  <2> QED BY <2>1, <2>2, <2>3
<1>3. CASE call[s].polls # 0
  <2> DEFINE c == [call[s] EXCEPT !.pc = "build", !.polls = @ - 1, !.page = page]
  <2>1. call[s].polls - 1 \in Nat
    BY <1>1, <1>3
  <2>2. c \in CallRecords /\ c.pc = "build" /\ c.page = page
    BY <1>1, <2>1 DEF CallRecords
  <2>3. call' = [call EXCEPT ![s] = c]
    BY <1>3 DEF Shown
  <2> QED BY <2>2, <2>3
<1> QED BY <1>2, <1>3

LEMMA PendingInv ==
    ASSUME SignInInv, NEW s \in Servers, Pending(s)
    PROVE  SignInInv'
<1> DEFINE f == Back(s)
<1>1. f \in Flows /\ f # Nobody
  BY Apart
<1>2. /\ call[s].pc = "pending"
      /\ UNCHANGED <<keys, reach, codes, file, lock, edit, record, commands, out, told, dropped,
                     deadCodes, half, faults>>
  BY DEF Pending, site, ghosts
<1>3. \E page \in Nat : Shown(s, page)
  BY <1>1, FlowFields DEF Pending, SignInInv, TypeOK
<1>4. PICK c \in CallRecords : call' = [call EXCEPT ![s] = c] /\ c.pc # "adopt"
  BY <1>3, ShownCall
<1>5. CASE UNCHANGED <<signer, flow>>
  <2>1. commands \in Nat
    BY DEF SignInInv, TypeOK
  <2> QED BY <1>2, <1>4, <1>5, <2>1, CallMoves
<1>6. CASE /\ flow[f].pc = "idle" /\ signer = Nobody /\ signer' = f
           /\ flow' = [flow EXCEPT ![f] = Begin(f)]
  <2> HIDE DEF f
  <2>1. flow' = [flow EXCEPT ![f] = First]
    BY <1>6 DEF Begin, First
  <2>2. edit[s].pc = "none" /\ commands \in Nat
    BY <1>2 DEF SignInInv, Access, Turns, TypeOK
  <2>3. /\ flow' \in [Flows -> FlowRecords]
        /\ KeyOK(keys, file.logins, flow', out, told \cup dropped, half)
        /\ Access(lock, edit, file, flow', call, out)
        /\ InReach(keys, reach, file, flow', call)
    BY <1>1, <1>6, <2>1, FlowResets
  <2>4. PageOK(signer', record, flow', deadCodes)
    <3>1. flow'[f].pc = "starting"
      BY <1>1, <2>1, FreshFlows DEF SignInInv, TypeOK
    <3>2. record # 0 => record \in deadCodes
      BY <1>6 DEF SignInInv, PageOK
    <3> QED BY <1>6, <3>1, <3>2 DEF PageOK
  <2> QED BY <1>1, <1>2, <1>4, <1>6, <2>2, <2>3, <2>4, CallGoes
<1> QED BY <1>5, <1>6 DEF Pending

LEMMA AdoptInv ==
    ASSUME SignInInv, NEW s \in Servers, Adopt(s)
    PROVE  SignInInv'
<1>1. /\ call[s].pc = "build" /\ NoDefault(s)
      /\ UNCHANGED <<keys, codes, file, lock, signer, record, flow, commands, out, told, dropped,
                     deadCodes, half, faults>>
  BY DEF Adopt, ghosts
<1>2. /\ Login \in 1 .. Len(keys) /\ keys[Login].account \in Accounts /\ Login \in Nat
  BY <1>1, LoginFacts DEF NoDefault, NeedsSignIn
<1>3. /\ keys \in Seq(KeyRecords) /\ reach \in [Accounts -> SUBSET Spaces]
      /\ flow \in [Flows -> FlowRecords] /\ file \in Files /\ call \in [Servers -> CallRecords]
      /\ edit \in [Editors -> EditRecords] /\ commands \in Nat /\ call[s] \in CallRecords
  BY DEF SignInInv, TypeOK, EditRecords
<1>4. CASE Answer(s) /\ UNCHANGED <<edit, reach>>
  <2> DEFINE c == [NoCall EXCEPT !.ready = call[s].ready]
  <2>1. c \in CallRecords /\ c.pc = "idle" /\ call' = [call EXCEPT ![s] = c]
    BY <1>3, <1>4, CallFields, Answered, Zenon DEF Answer
  <2> QED BY <1>1, <1>3, <1>4, <2>1, CallMoves
<1>5. ASSUME NEW n, Adopting(s, n), n \in Reach(keys, reach', Login),
             reach' \in [Accounts -> SUBSET Spaces], Grows(keys, reach, keys, reach')
      PROVE  SignInInv'
  <2> DEFINE c == [call[s] EXCEPT !.pc = "adopt", !.key = Login, !.space = n]
  <2>1. n \in Spaces
    BY <1>2, <1>5 DEF Reach
  <2>2. c \in CallRecords /\ c.pc = "adopt" /\ c.key = Login /\ c.space = n
    BY <1>2, <1>3, <2>1 DEF CallRecords
  <2>3. call' = [call EXCEPT ![s] = c] /\ edit' = [edit EXCEPT ![s] = Waiting]
    BY <1>5 DEF Adopting
  <2> HIDE DEF c
  <2>4. TypeOK'
    <3>1. call' \in [Servers -> CallRecords]
      BY <1>3, <2>2, <2>3
    <3>2. edit' \in [Editors -> [pc : {"none", "waits", "read"}, snap : Files]]
      BY <1>3, <2>3, FirstRecords DEF EditRecords
    <3> QED BY <1>1, <1>5, <3>1, <3>2 DEF SignInInv, TypeOK
  <2>5. Access(lock, edit', file, flow, call', out)
    <3>1. edit[s].pc = "none"
      BY <1>1 DEF SignInInv, Access, Turns
    <3>2. Access(lock, edit, file, flow, call', out)
      BY <1>3, <2>3, <3>1, AccessCall DEF SignInInv
    <3>3. call'[s].pc = "adopt"
      BY <1>3, <2>2, <2>3
    <3> QED BY <1>3, <2>3, <3>1, <3>2, <3>3, Apart, AccessAsk
  <2>6. InReach(keys, reach', file, flow, call')
    <3>1. InReach(keys, reach', file, flow, call)
      <4>1. Known(keys, file, flow) /\ Len(keys) \in Nat
        BY <1>3, KnownKeys DEF SignInInv
      <4> QED BY <1>5, <4>1, InReachGrows DEF SignInInv
    <3>2. Adoption(keys, reach', c)
      BY <1>2, <1>5, <2>2 DEF Adoption
    <3> QED BY <1>3, <2>3, <3>1, <3>2, InReachCall
  <2> QED BY <1>1, <2>4, <2>5, <2>6 DEF SignInInv
<1>6. CASE /\ Reaches(Login) = {} /\ Adopting(s, Notes)
           /\ reach' = [reach EXCEPT ![keys[Login].account] = {Notes}]
  <2>1. Notes \in Reach(keys, reach', Login)
    BY <1>2, <1>3, <1>6 DEF Reach
  <2>2. reach' \in [Accounts -> SUBSET Spaces]
    BY <1>2, <1>3, <1>6, SignInAssumption
  <2>3. Grows(keys, reach, keys, reach')
    BY <1>2, <1>3, <1>6, GrowsCreated DEF Reaches
  <2> QED BY <1>5, <1>6, <2>1, <2>2, <2>3
<1>7. ASSUME NEW n \in Reaches(Login), Adopting(s, n), reach' = reach
      PROVE  SignInInv'
  <2>1. Grows(keys, reach, keys, reach') /\ n \in Reach(keys, reach', Login)
    BY <1>3, <1>7, KeyFields DEF Grows, Reach, Reaches
  <2> QED BY <1>3, <1>5, <1>7, <2>1
<1>8. LET only == chooseDefault(NoSpace, Reaches(Login), NoSpace)
          name == IF only = NoSpace /\ Notes \in Reaches(Login) THEN Notes ELSE only
      IN name # NoSpace => name \in Reaches(Login)
  BY ChosenDefault
<1> QED BY <1>4, <1>6, <1>7, <1>8 DEF Adopt

LEMMA AdoptedInv ==
    ASSUME SignInInv, NEW s \in Servers, Adopted(s)
    PROVE  SignInInv'
<1>1. /\ call[s].pc = "adopt" /\ TurnEnds(s)
      /\ UNCHANGED <<keys, reach, codes, signer, record, flow, commands, out, told, dropped,
                     deadCodes, half, faults>>
  BY DEF Adopted, TurnEnds, Held, Leave, site, ghosts
<1>2. /\ keys \in Seq(KeyRecords) /\ call \in [Servers -> CallRecords] /\ call[s] \in CallRecords
      /\ file \in Files /\ reach \in [Accounts -> SUBSET Spaces]
  BY DEF SignInInv, TypeOK
<1>3. PICK c \in CallRecords : call' = [call EXCEPT ![s] = c] /\ c.pc # "adopt"
  <2>1. CASE Answer(s)
    <3> DEFINE d == [NoCall EXCEPT !.ready = call[s].ready]
    <3>1. d \in CallRecords /\ d.pc = "idle" /\ call' = [call EXCEPT ![s] = d]
      BY <1>2, <2>1, CallFields, Answered, Zenon DEF Answer
    <3> QED BY <3>1
  <2>2. CASE Stage(s, "rebuild")
    <3> DEFINE d == [call[s] EXCEPT !.pc = "rebuild"]
    <3>1. d \in CallRecords /\ d.pc = "rebuild" /\ call' = [call EXCEPT ![s] = d]
      BY <1>2, <2>2 DEF Stage, CallRecords
    <3> QED BY <3>1
  <2> QED BY <2>1, <2>2 DEF Adopted
<1>4. /\ Access(lock', edit', file', flow, call, out)
      /\ edit'[s].pc = "none" /\ lock' \in Editors \cup {Nobody}
      /\ edit' \in [Editors -> [pc : {"none", "waits", "read"}, snap : Files]]
  BY <1>1, Apart, EndOfTurn
<1>5. file' \in Files /\ file'.logins = file.logins /\ DefaultOK(keys, reach, file')
  <2>1. CASE file' = file
    BY <1>2, <2>1 DEF SignInInv, InReach
  <2>2. CASE Held(s) /\ StillStored(s, call[s].key) /\ SetDefault(s, call[s].space)
    <3>1. call[s].key \in 1 .. Len(keys) /\ call[s].space \in Reach(keys, reach, call[s].key)
      BY <1>1 DEF SignInInv, InReach, Adoption
    <3>2. call[s].key # 0 /\ call[s].space \in Spaces
      BY <1>2, <3>1, KeyFields DEF Reach
    <3> QED BY <2>2, <3>1, <3>2, Apart, DefaultStored
  <2> QED BY <2>1, <2>2 DEF Adopted
<1>6. TypeOK'
  <2>1. call' \in [Servers -> CallRecords]
    BY <1>2, <1>3
  <2> QED BY <1>1, <1>4, <1>5, <2>1 DEF SignInInv, TypeOK
<1>7. Access(lock', edit', file', flow, call', out)
  BY <1>2, <1>3, <1>4, AccessCall
<1>8. InReach(keys, reach, file', flow, call')
  <2>1. InReach(keys, reach, file', flow, call) /\ Adoption(keys, reach, c)
    BY <1>3, <1>5 DEF SignInInv, InReach, Adoption
  <2> QED BY <1>2, <1>3, <2>1, InReachCall
<1> QED BY <1>1, <1>5, <1>6, <1>7, <1>8 DEF SignInInv

-----------------------------------------------------------------------------
(* Each step of a logout keeps the invariant.                              *)

LEMMA LogoutCommandInv ==
    ASSUME SignInInv, NEW o \in Outs, LogoutCommand(o)
    PROVE  SignInInv'
<1>1. /\ keys \in Seq(KeyRecords) /\ flow \in [Flows -> FlowRecords] /\ out \in [Outs -> OutRecords]
      /\ file.logins \in [Sites -> Nat] /\ commands \in Nat
      /\ KeyOK(keys, file.logins, flow, out, told \cup dropped, half)
      /\ Access(lock, edit, file, flow, call, out)
  BY DEF SignInInv, TypeOK, Files
<1>2. PICK chosen \in SUBSET {x \in Sites : file.logins[x] # 0} :
        out' = [out EXCEPT ![o] = [pc |-> "revoking", todo |-> {file.logins[x] : x \in chosen},
                                   gone |-> {}]]
  BY DEF LogoutCommand
<1>3. /\ out[o].pc = "idle" /\ commands' \in Nat
      /\ UNCHANGED <<keys, reach, codes, file, lock, edit, signer, record, flow, call, told, dropped,
                     deadCodes, half, faults>>
  BY <1>1 DEF LogoutCommand, Counted, site, ghosts
<1> DEFINE q == [pc |-> "revoking", todo |-> {file.logins[x] : x \in chosen}, gone |-> {}]
<1>4. q \in OutRecords /\ q.pc = "revoking" /\ q.gone = {} /\ out' = [out EXCEPT ![o] = q]
  <2>1. {file.logins[x] : x \in chosen} \subseteq Nat
    BY <1>1
  <2> QED BY <1>2, <2>1 DEF OutRecords
<1>5. \A i \in q.todo : i # 0 /\ InFile(file.logins, i)
  BY DEF InFile
<1> HIDE DEF q
<1>6. KeyOK(keys, file.logins, flow, out', told \cup dropped, half)
  <2>1. out[o].gone = {}
    BY <1>1, <1>3 DEF KeyOK, Revoking
  <2>2. Withdrawn(keys, keys, 0) /\ 0 \in Nat
    BY <1>1 DEF Withdrawn
  <2> QED BY <1>1, <1>4, <1>5, <2>1, <2>2, LogoutMoves
<1>7. Access(lock, edit, file, flow, call, out')
  <2>1. edit[o].pc = "none"
    BY <1>1, <1>3 DEF Access, Turns
  <2> QED BY <1>1, <1>4, <2>1, AccessOut
<1>8. TypeOK'
  <2>1. out' \in [Outs -> OutRecords]
    BY <1>1, <1>4
  <2> QED BY <1>3, <2>1 DEF SignInInv, TypeOK
<1> QED BY <1>3, <1>6, <1>7, <1>8 DEF SignInInv

LEMMA RevokesInv ==
    ASSUME SignInInv, NEW o \in Outs, Revokes(o)
    PROVE  SignInInv'
<1>1. /\ keys \in Seq(KeyRecords) /\ flow \in [Flows -> FlowRecords] /\ out \in [Outs -> OutRecords]
      /\ file.logins \in [Sites -> Nat] /\ file \in Files /\ out[o] \in OutRecords
      /\ KeyOK(keys, file.logins, flow, out, told \cup dropped, half)
      /\ Access(lock, edit, file, flow, call, out)
      /\ InReach(keys, reach, file, flow, call) /\ half \subseteq Nat
  BY DEF SignInInv, TypeOK, Files
<1>2. /\ out[o].pc = "revoking"
      /\ UNCHANGED <<reach, codes, file, lock, edit, signer, record, flow, call, commands, told, dropped,
                     deadCodes, faults>>
  BY DEF Revokes
<1>3. PICK k \in out[o].todo :
         \/ /\ keys' = Withdraw(k)
            /\ out' = [out EXCEPT ![o].todo = @ \ {k}, ![o].gone = @ \cup {k}]
            /\ half' = half
         \/ out' = [out EXCEPT ![o].todo = @ \ {k}] /\ keys' = keys /\ half' = half
         \/ /\ keys' = Withdraw(k)
            /\ out' = [out EXCEPT ![o].todo = @ \ {k}]
            /\ half' = half \cup {k}
  BY DEF Revokes
<1>4. k \in 1 .. Len(keys) /\ k \in Nat /\ k <= Len(keys) /\ k # 0
  BY <1>1, KeyFields DEF KeyOK, Revoking
<1>5. ASSUME NEW q \in OutRecords, q.pc = "revoking", q.todo = out[o].todo \ {k},
             out' = [out EXCEPT ![o] = q], keys' \in Seq(KeyRecords),
             NEW j \in {0, k}, Withdrawn(keys, keys', j),
             half' \subseteq Nat, half \subseteq half',
             \/ q.gone = out[o].gone /\ (j = 0 \/ j \in half')
             \/ q.gone = out[o].gone \cup {k} /\ j = k
      PROVE  SignInInv'
  <2>1. KeyOK(keys', file.logins, flow, [out EXCEPT ![o] = q], told \cup dropped, half')
    <3>1. /\ j \in Nat /\ (j = 0 \/ (j \in out[o].todo /\ j \in q.gone \cup half'))
          /\ \A i \in q.todo : i \in out[o].todo
          /\ \A i \in q.gone : i \in out[o].gone \/ (j # 0 /\ i = j)
          /\ \A i \in out[o].gone : i \in q.gone
      BY <1>4, <1>5
    <3> QED BY <1>1, <1>5, <3>1, LogoutMoves
  <2>2. Access(lock, edit, file, flow, call, out')
    <3>1. edit[o].pc = "none"
      BY <1>1, <1>2 DEF Access, Turns
    <3> QED BY <1>1, <1>5, <3>1, AccessOut
  <2>3. InReach(keys', reach, file, flow, call)
    <3>1. Grows(keys, reach, keys', reach) /\ Len(keys) \in Nat /\ Len(keys') \in Nat
      BY <1>1, <1>4, <1>5, GrowsWithdrawn
    <3>2. Known(keys, file, flow)
      BY <1>1, KnownKeys
    <3> QED BY <1>1, <3>1, <3>2, InReachGrows
  <2>4. TypeOK'
    <3>1. out' \in [Outs -> OutRecords]
      BY <1>1, <1>5
    <3> QED BY <1>2, <1>5, <3>1 DEF SignInInv, TypeOK
  <2> QED BY <1>2, <1>5, <2>1, <2>2, <2>3, <2>4 DEF SignInInv
<1>6. CASE /\ keys' = Withdraw(k) /\ half' = half
           /\ out' = [out EXCEPT ![o].todo = @ \ {k}, ![o].gone = @ \cup {k}]
  <2> DEFINE q == [out[o] EXCEPT !.todo = @ \ {k}, !.gone = @ \cup {k}]
  <2>1. /\ q \in OutRecords /\ q.pc = "revoking" /\ q.todo = out[o].todo \ {k}
        /\ q.gone = out[o].gone \cup {k} /\ out' = [out EXCEPT ![o] = q]
    BY <1>1, <1>2, <1>4, <1>6 DEF OutRecords
  <2>2. keys' \in Seq(KeyRecords) /\ Withdrawn(keys, keys', k)
    BY <1>1, <1>4, <1>6, WithdrawFacts DEF Withdraw
  <2> HIDE DEF q
  <2> QED BY <1>1, <1>4, <1>5, <1>6, <2>1, <2>2
<1>7. ASSUME out' = [out EXCEPT ![o].todo = @ \ {k}], keys' \in Seq(KeyRecords),
             NEW j \in {0, k}, Withdrawn(keys, keys', j),
             half' = half \cup ({j} \ {0})
      PROVE  SignInInv'
  <2> DEFINE q == [out[o] EXCEPT !.todo = @ \ {k}]
  <2>1. /\ q \in OutRecords /\ q.pc = "revoking" /\ q.todo = out[o].todo \ {k}
        /\ q.gone = out[o].gone /\ out' = [out EXCEPT ![o] = q]
    BY <1>1, <1>2, <1>4, <1>7 DEF OutRecords
  <2>2. half' \subseteq Nat /\ half \subseteq half' /\ (j = 0 \/ j \in half')
    BY <1>1, <1>4, <1>7
  <2> HIDE DEF q
  <2> QED BY <1>5, <1>7, <2>1, <2>2
<1>8. CASE out' = [out EXCEPT ![o].todo = @ \ {k}] /\ keys' = keys /\ half' = half
  <2>1. keys' \in Seq(KeyRecords) /\ Withdrawn(keys, keys', 0) /\ half' = half \cup ({0} \ {0})
    BY <1>1, <1>8 DEF Withdrawn
  <2> QED BY <1>7, <1>8, <2>1
<1>9. CASE /\ keys' = Withdraw(k) /\ half' = half \cup {k}
           /\ out' = [out EXCEPT ![o].todo = @ \ {k}]
  <2>1. /\ keys' \in Seq(KeyRecords) /\ Withdrawn(keys, keys', k)
        /\ half' = half \cup ({k} \ {0})
    BY <1>1, <1>4, <1>9, WithdrawFacts DEF Withdraw
  <2> QED BY <1>7, <1>9, <2>1
<1> QED BY <1>3, <1>6, <1>8, <1>9

LEMMA OutFacts == Out \in OutRecords /\ Out.pc = "ended" /\ Out.todo = {} /\ Out.gone = {}
BY DEF Out, NoOut, OutRecords

LEMMA RevokedInv ==
    ASSUME SignInInv, NEW o \in Outs, Revoked(o)
    PROVE  SignInInv'
<1>1. /\ keys \in Seq(KeyRecords) /\ flow \in [Flows -> FlowRecords] /\ out \in [Outs -> OutRecords]
      /\ file.logins \in [Sites -> Nat] /\ out[o] \in OutRecords /\ edit \in [Editors -> EditRecords]
      /\ KeyOK(keys, file.logins, flow, out, told \cup dropped, half)
      /\ Access(lock, edit, file, flow, call, out)
  BY DEF SignInInv, TypeOK, Files, EditRecords
<1>2. /\ out[o].pc = "revoking"
      /\ UNCHANGED <<keys, reach, codes, file, lock, signer, record, flow, call, commands, told, dropped,
                     deadCodes, half, faults>>
  BY DEF Revoked, site, ghosts
<1>3. edit[o].pc = "none" /\ o \in Editors
  BY <1>1, <1>2, Apart DEF Access, Turns
<1>4. ASSUME NEW q \in OutRecords, q.pc # "idle", q.todo \subseteq out[o].todo, q.gone = out[o].gone,
             out' = [out EXCEPT ![o] = q],
             \/ edit' = edit
             \/ q.pc = "removing" /\ edit' = [edit EXCEPT ![o] = Waiting]
      PROVE  SignInInv'
  <2>1. KeyOK(keys, file.logins, flow, out', told \cup dropped, half)
    <3>1. Withdrawn(keys, keys, 0) /\ 0 \in Nat
      BY <1>1 DEF Withdrawn
    <3> QED BY <1>1, <1>4, <3>1, LogoutMoves
  <2>2. Access(lock, edit, file, flow, call, out')
    BY <1>1, <1>3, <1>4, AccessOut
  <2>3. Access(lock, edit', file, flow, call, out')
    <3>1. CASE q.pc = "removing" /\ edit' = [edit EXCEPT ![o] = Waiting]
      <4>1. out'[o].pc = "removing"
        BY <1>1, <1>4, <3>1
      <4> QED BY <1>1, <1>3, <2>2, <3>1, <4>1, Apart, AccessAsk
    <3> QED BY <1>4, <2>2, <3>1
  <2>4. TypeOK'
    <3>1. out' \in [Outs -> OutRecords]
      BY <1>1, <1>4
    <3>2. edit' \in [Editors -> [pc : {"none", "waits", "read"}, snap : Files]]
      BY <1>1, <1>4, FirstRecords DEF EditRecords
    <3> QED BY <1>2, <3>1, <3>2 DEF SignInInv, TypeOK
  <2> QED BY <1>2, <2>1, <2>3, <2>4 DEF SignInInv
<1>5. CASE out[o].gone = {} /\ out' = [out EXCEPT ![o] = Out] /\ edit' = edit
  BY <1>4, <1>5, OutFacts
<1>6. CASE /\ out' = [out EXCEPT ![o].pc = "removing"]
           /\ edit' = [edit EXCEPT ![o] = Waiting]
  <2> DEFINE q == [out[o] EXCEPT !.pc = "removing"]
  <2>1. /\ q \in OutRecords /\ q.pc = "removing" /\ q.todo = out[o].todo /\ q.gone = out[o].gone
        /\ out' = [out EXCEPT ![o] = q]
    BY <1>1, <1>6 DEF OutRecords
  <2> HIDE DEF q
  <2> QED BY <1>4, <1>6, <2>1
<1> QED BY <1>5, <1>6 DEF Revoked

LEMMA RemovesInv ==
    ASSUME SignInInv, NEW o \in Outs, Removes(o)
    PROVE  SignInInv'
<1>1. /\ keys \in Seq(KeyRecords) /\ flow \in [Flows -> FlowRecords] /\ out \in [Outs -> OutRecords]
      /\ file.logins \in [Sites -> Nat] /\ file \in Files /\ out[o] \in OutRecords
      /\ KeyOK(keys, file.logins, flow, out, told \cup dropped, half)
      /\ InReach(keys, reach, file, flow, call) /\ half \subseteq Nat
  BY DEF SignInInv, TypeOK, Files
<1>2. /\ out[o].pc = "removing" /\ TurnEnds(o) /\ out' = [out EXCEPT ![o] = Out]
      /\ UNCHANGED <<keys, reach, codes, signer, record, flow, call, commands, told, dropped,
                     deadCodes, faults>>
  BY DEF Removes, TurnEnds, Held, Leave, site
<1>3. /\ Access(lock', edit', file', flow, call, out)
      /\ edit'[o].pc = "none" /\ lock' \in Editors \cup {Nobody}
      /\ edit' \in [Editors -> [pc : {"none", "waits", "read"}, snap : Files]]
  BY <1>2, Apart, EndOfTurn
<1>4. Access(lock', edit', file', flow, call, out')
  BY <1>1, <1>2, <1>3, AccessOut
<1>5. /\ file' \in Files /\ DefaultOK(keys, reach, file') /\ half' \subseteq Nat
      /\ KeyOK(keys, file'.logins, flow, out', told \cup dropped, half')
  <2>1. CASE file' = file /\ half' = half \cup out[o].gone
    <3>1. KeyOK(keys, file.logins, flow, [out EXCEPT ![o] = Out], told \cup dropped, half')
      <4>1. Withdrawn(keys, keys, 0) /\ 0 \in Nat
        BY <1>1 DEF Withdrawn
      <4>2. half \subseteq half' /\ \A i \in out[o].gone : i \in half'
        BY <2>1
      <4> QED BY <1>1, <4>1, <4>2, OutFacts, LogoutMoves
    <3>2. out[o].gone \subseteq Nat
      BY <1>1 DEF OutRecords
    <3> QED BY <1>1, <1>2, <2>1, <3>1, <3>2 DEF InReach
  <2>2. CASE Held(o) /\ file' = Removed(o, edit[o].snap) /\ half' = half
    <3> DEFINE lg == [x \in Sites |-> IF file.logins[x] \in out[o].gone THEN 0 ELSE file.logins[x]]
               d == IF \A x \in Sites : lg[x] = 0 THEN NoSpace ELSE file.deflt
    <3>1. file' = [logins |-> lg, deflt |-> d]
      BY <2>2, Apart, LoadedIsFile DEF Removed
    <3>2. /\ lg \in [Sites -> Nat]
          /\ \A x \in Sites : lg[x] = IF file.logins[x] \in out[o].gone THEN 0 ELSE file.logins[x]
          /\ d \in {NoSpace, file.deflt} /\ ((\A x \in Sites : lg[x] = 0) => d = NoSpace)
      BY <1>1
    <3> HIDE DEF lg, d
    <3>3. file' \in Files /\ file'.logins = lg /\ file'.deflt = d
      BY <1>1, <3>1, <3>2 DEF Files
    <3>4. KeyOK(keys, lg, flow, [out EXCEPT ![o] = Out], told \cup dropped, half)
      BY <1>1, <3>2, OutFacts, LogoutRemoves
    <3>5. DefaultOK(keys, reach, file')
      <4>1. \A x \in Sites : lg[x] # 0 => lg[x] = file.logins[x]
        BY <3>2
      <4>2. DefaultOK(keys, reach, file)
        BY <1>1 DEF InReach
      <4>3. \A x, y \in Sites : lg[x] # 0 /\ lg[y] # 0 => x = y
        BY <4>1, <4>2 DEF DefaultOK
      <4>4. ASSUME d # NoSpace
            PROVE  \E x \in Sites : lg[x] # 0 /\ d \in Reach(keys, reach, lg[x])
        <5>1. PICK y \in Sites : lg[y] # 0
          BY <3>2, <4>4
        <5>2. d = file.deflt /\ lg[y] = file.logins[y]
          BY <3>2, <4>1, <4>4, <5>1
        <5> QED BY <4>2, <4>4, <5>1, <5>2 DEF DefaultOK
      <4> QED BY <3>3, <4>3, <4>4 DEF DefaultOK
    <3> QED BY <1>1, <1>2, <2>2, <3>3, <3>4, <3>5
  <2> QED BY <2>1, <2>2 DEF Removes
<1>6. TypeOK'
  <2>1. out' \in [Outs -> OutRecords]
    BY <1>1, <1>2, OutFacts
  <2> QED BY <1>2, <1>3, <1>5, <2>1 DEF SignInInv, TypeOK
<1>7. InReach(keys, reach, file', flow, call)
  BY <1>1, <1>5 DEF InReach
<1> QED BY <1>2, <1>4, <1>5, <1>6, <1>7 DEF SignInInv

-----------------------------------------------------------------------------
(* A process dies, takes the lock, or a stored key expires.                *)

\* The turns of dead processes are over, and the file is as it was.
LEMMA AccessDies ==
    ASSUME NEW lk, NEW ed \in [Editors -> EditRecords], NEW fl, NEW fw, NEW cl, NEW ot,
           Access(lk, ed, fl, fw, cl, ot), NEW ps, NEW lk2, NEW ed2,
           lk2 = IF lk \in ps THEN Nobody ELSE lk,
           ed2 = [p \in Editors |-> IF p \in ps THEN NoEdit ELSE ed[p]]
    PROVE  /\ Access(lk2, ed2, fl, fw, cl, ot)
           /\ \A p \in ps \cap Editors : ed2[p].pc = "none"
           /\ ed2 \in [Editors -> EditRecords]
<1>1. /\ \A p \in Editors : p \in ps => ed2[p] = NoEdit
      /\ \A p \in Editors : p \notin ps => ed2[p] = ed[p]
  OBVIOUS
<1>2. \A p \in Editors : p \in ps => ed2[p].pc = "none"
  BY <1>1, FirstRecords
<1>3. Turns(ed2, fw, cl, ot)
  BY <1>1, <1>2, Apart DEF Access, Turns
<1>4. Loaded(lk2, ed2, fl)
  <2>1. \A p \in Editors : ed2[p].pc = "read" <=> (p \notin ps /\ lk = p)
    BY <1>1, <1>2 DEF Access, Loaded
  <2>2. \A p \in Editors : ed2[p].pc = "read" <=> lk2 = p
    BY <2>1, Apart
  <2>3. \A p \in Editors : ed2[p].pc = "read" => ed2[p].snap = fl
    BY <1>1, <2>1 DEF Access, Loaded
  <2> QED BY <2>2, <2>3 DEF Loaded
<1>5. ed2 \in [Editors -> EditRecords]
  BY FirstRecords
<1> QED BY <1>2, <1>3, <1>4, <1>5 DEF Access

\* A login dies with its process: its keys and its page are accounted for.
LEMMA FlowDies ==
    ASSUME SignInInv, NEW f \in Flows, NEW r \in {NoFlow, Over}, NEW ps, ps \cap Flows = {f},
           Nobody \notin ps,
           Dies(ps), flow' = [flow EXCEPT ![f] = r]
    PROVE  /\ flow' \in [Flows -> FlowRecords] /\ faults' \in Nat
           /\ lock' \in Editors \cup {Nobody} /\ signer' \in Flows \cup {Nobody}
           /\ edit' \in [Editors -> EditRecords] /\ dropped' \cup deadCodes' \subseteq Nat
           /\ \A p \in ps \cap Editors : edit'[p].pc = "none"
           /\ KeyOK(keys, file.logins, flow', out, told \cup dropped', half)
           /\ Access(lock', edit', file, flow', call, out)
           /\ InReach(keys, reach, file, flow', call)
           /\ PageOK(signer', record, flow', deadCodes')
<1>1. /\ keys \in Seq(KeyRecords) /\ flow \in [Flows -> FlowRecords] /\ out \in [Outs -> OutRecords]
      /\ file.logins \in [Sites -> Nat] /\ edit \in [Editors -> EditRecords]
      /\ lock \in Editors \cup {Nobody} /\ signer \in Flows \cup {Nobody} /\ faults \in Nat
      /\ dropped \subseteq Nat /\ deadCodes \subseteq Nat
      /\ KeyOK(keys, file.logins, flow, out, told \cup dropped, half)
      /\ Access(lock, edit, file, flow, call, out)
      /\ InReach(keys, reach, file, flow, call)
      /\ PageOK(signer, record, flow, deadCodes)
  BY DEF SignInInv, TypeOK, Files, EditRecords
<1>2. flow[f].key \in Nat /\ flow[f].old \in Nat /\ flow[f].code \in Nat
  BY <1>1, FlowFields
<1>3. /\ dropped' = dropped \cup FlowKeys(f) /\ deadCodes' = deadCodes \cup {flow[f].code}
      /\ lock' = IF lock \in ps THEN Nobody ELSE lock
      /\ edit' = [p \in Editors |-> IF p \in ps THEN NoEdit ELSE edit[p]]
      /\ signer' = IF signer \in ps THEN Nobody ELSE signer
      /\ faults' = faults + 1
  BY DEF Dies
<1>4. FlowKeys(f) \subseteq Nat
  BY <1>2 DEF FlowKeys
<1>5. /\ r \in FlowRecords /\ FlowShape(r) /\ r.key = 0 /\ r.old = 0 /\ r.pc \in {"idle", "ended"}
  BY FreshFlows
<1>6. KeyOK(keys, file.logins, [flow EXCEPT ![f] = r], out, told \cup dropped', half)
  <2>1. \A k \in 1 .. Len(keys) : Holds(flow[f], k) => k \in FlowKeys(f)
    BY DEF Holds, Private, FlowKeys, Running
  <2>2. told \cup dropped \subseteq told \cup dropped' /\ FlowKeys(f) \subseteq told \cup dropped'
    BY <1>3
  <2>3. r.pc \notin Private
    BY <1>5 DEF Private
  <2> QED BY <1>1, <1>5, <2>1, <2>2, <2>3, FlowMoves
<1>7. /\ Access(lock', edit', file, flow, call, out)
      /\ \A p \in ps \cap Editors : edit'[p].pc = "none"
      /\ edit' \in [Editors -> EditRecords]
  BY <1>1, <1>3, AccessDies
<1>8. Access(lock', edit', file, flow', call, out)
  <2>1. edit'[f].pc = "none"
    BY <1>7, Apart
  <2> QED BY <1>1, <1>7, <2>1, AccessFlow
<1>9. InReach(keys, reach, file, flow', call)
  <2>1. Listing(keys, reach, f, r)
    BY <1>5, NoListing
  <2> QED BY <1>1, <2>1, InReachFlow
<1>10. PageOK(signer', record, flow', deadCodes')
  <2>1. \A g \in Flows : g # f => flow'[g] = flow[g]
    BY <1>1
  <2>2. signer \in ps <=> signer = f
    BY <1>1
  <2>3. CASE signer = f
    BY <1>1, <1>3, <2>2, <2>3 DEF PageOK
  <2>4. CASE signer # f
    BY <1>1, <1>3, <2>1, <2>2, <2>4 DEF PageOK
  <2> QED BY <2>3, <2>4
<1>11. /\ flow' \in [Flows -> FlowRecords] /\ faults' \in Nat
       /\ lock' \in Editors \cup {Nobody} /\ signer' \in Flows \cup {Nobody}
       /\ dropped' \cup deadCodes' \subseteq Nat
  <2>1. flow' \in [Flows -> FlowRecords]
    BY <1>1, <1>5
  <2>2. lock' \in Editors \cup {Nobody} /\ signer' \in Flows \cup {Nobody}
    BY <1>1, <1>3
  <2>3. dropped' \cup deadCodes' \subseteq Nat
    BY <1>1, <1>2, <1>3, <1>4
  <2> QED BY <1>1, <1>3, <2>1, <2>2, <2>3
<1> QED BY <1>6, <1>7, <1>8, <1>9, <1>10, <1>11

LEMMA CrashLoginInv ==
    ASSUME SignInInv, NEW f \in Flows, CrashLogin(f)
    PROVE  SignInInv'
<1>1. /\ f \in Terminals /\ Dies({f})
      /\ UNCHANGED <<keys, reach, codes, file, record, call, commands, out, told, half>>
  BY DEF CrashLogin, site
<1>2. flow' = [flow EXCEPT ![f] = Over]
  BY <1>1 DEF Dies, Over, SignInInv, TypeOK
<1>3. /\ flow' \in [Flows -> FlowRecords] /\ faults' \in Nat
      /\ lock' \in Editors \cup {Nobody} /\ signer' \in Flows \cup {Nobody}
      /\ edit' \in [Editors -> EditRecords] /\ dropped' \cup deadCodes' \subseteq Nat
      /\ KeyOK(keys, file.logins, flow', out, told \cup dropped', half)
      /\ Access(lock', edit', file, flow', call, out)
      /\ InReach(keys, reach, file, flow', call)
      /\ PageOK(signer', record, flow', deadCodes')
  <2>1. {f} \cap Flows = {f} /\ Over \in {NoFlow, Over} /\ Nobody \notin {f}
    BY Apart
  <2> QED BY <1>1, <1>2, <2>1, FlowDies
<1>4. TypeOK'
  BY <1>1, <1>3 DEF SignInInv, TypeOK, EditRecords
<1> QED BY <1>1, <1>3, <1>4 DEF SignInInv

LEMMA CrashServerInv ==
    ASSUME SignInInv, NEW s \in Servers, CrashServer(s)
    PROVE  SignInInv'
<1> DEFINE f == Back(s)
           ps == {s, f}
<1>1. /\ f \in Flows /\ f \notin Terminals /\ s \notin Flows /\ s \in Editors
      /\ f # Nobody /\ s # Nobody
  BY Apart
<1>2. /\ Dies(ps) /\ call' = [call EXCEPT ![s] = NoCall] /\ call \in [Servers -> CallRecords]
      /\ UNCHANGED <<keys, reach, codes, file, record, commands, out, told, half>>
  BY DEF CrashServer, site, SignInInv, TypeOK
<1> HIDE DEF f
<1>3. flow' = [flow EXCEPT ![f] = NoFlow]
  BY <1>1, <1>2 DEF Dies, SignInInv, TypeOK
<1>4. ps \cap Flows = {f} /\ NoFlow \in {NoFlow, Over} /\ s \in ps \cap Editors /\ Nobody \notin ps
  BY <1>1
<1> HIDE DEF ps
<1>5. /\ flow' \in [Flows -> FlowRecords] /\ faults' \in Nat
      /\ lock' \in Editors \cup {Nobody} /\ signer' \in Flows \cup {Nobody}
      /\ edit' \in [Editors -> EditRecords] /\ dropped' \cup deadCodes' \subseteq Nat
      /\ edit'[s].pc = "none"
      /\ KeyOK(keys, file.logins, flow', out, told \cup dropped', half)
      /\ Access(lock', edit', file, flow', call, out)
      /\ InReach(keys, reach, file, flow', call)
      /\ PageOK(signer', record, flow', deadCodes')
  BY <1>1, <1>2, <1>3, <1>4, FlowDies
<1>6. NoCall \in CallRecords /\ NoCall.pc = "idle"
  BY DEF NoCall, CallRecords
<1>7. TypeOK'
  <2>1. call' \in [Servers -> CallRecords]
    BY <1>2, <1>6
  <2> QED BY <1>2, <1>5, <2>1 DEF SignInInv, TypeOK, EditRecords
<1>8. Access(lock', edit', file, flow', call', out)
  BY <1>2, <1>5, AccessCall
<1>9. InReach(keys, reach, file, flow', call')
  <2>1. Adoption(keys, reach, NoCall)
    BY <1>6 DEF Adoption
  <2> QED BY <1>2, <1>5, <2>1, InReachCall
<1> QED BY <1>2, <1>5, <1>7, <1>8, <1>9 DEF SignInInv

LEMMA CrashLogoutInv ==
    ASSUME SignInInv, NEW o \in Outs, CrashLogout(o)
    PROVE  SignInInv'
<1>1. /\ keys \in Seq(KeyRecords) /\ flow \in [Flows -> FlowRecords] /\ out \in [Outs -> OutRecords]
      /\ file.logins \in [Sites -> Nat] /\ edit \in [Editors -> EditRecords] /\ out[o] \in OutRecords
      /\ lock \in Editors \cup {Nobody} /\ signer \in Flows \cup {Nobody} /\ faults \in Nat
      /\ KeyOK(keys, file.logins, flow, out, told \cup dropped, half)
      /\ Access(lock, edit, file, flow, call, out) /\ half \subseteq Nat
  BY DEF SignInInv, TypeOK, Files, EditRecords
<1>2. /\ Dies({o}) /\ half' = half \cup out[o].gone /\ out' = [out EXCEPT ![o] = Out]
      /\ UNCHANGED <<keys, reach, codes, file, record, call, commands, told>>
  BY DEF CrashLogout, site
<1>3. o \in Editors /\ o \notin Flows /\ o # Nobody
  BY Apart
<1>4. /\ flow' = flow /\ dropped' = dropped /\ deadCodes' = deadCodes /\ signer' = signer
      /\ lock' = IF lock \in {o} THEN Nobody ELSE lock
      /\ edit' = [p \in Editors |-> IF p \in {o} THEN NoEdit ELSE edit[p]]
      /\ faults' \in Nat
  <2>1. flow' = flow
    BY <1>1, <1>2, <1>3 DEF Dies
  <2>2. dropped' = dropped /\ deadCodes' = deadCodes
    BY <1>2, <1>3 DEF Dies
  <2>3. signer' = signer /\ faults' \in Nat
    BY <1>1, <1>2, <1>3 DEF Dies
  <2> QED BY <1>2, <2>1, <2>2, <2>3 DEF Dies
<1>5. /\ Access(lock', edit', file, flow, call, out) /\ edit'[o].pc = "none"
      /\ edit' \in [Editors -> EditRecords]
  <2> DEFINE ps == {o}
  <2>1. /\ lock' = IF lock \in ps THEN Nobody ELSE lock
        /\ edit' = [p \in Editors |-> IF p \in ps THEN NoEdit ELSE edit[p]]
        /\ o \in ps \cap Editors
    BY <1>3, <1>4
  <2> HIDE DEF ps
  <2> QED BY <1>1, <2>1, AccessDies
<1>6. Access(lock', edit', file, flow, call, out')
  BY <1>1, <1>2, <1>5, AccessOut
<1>7. KeyOK(keys, file.logins, flow, out', told \cup dropped, half')
  <2>1. Withdrawn(keys, keys, 0) /\ 0 \in Nat
    BY <1>1 DEF Withdrawn
  <2>2. half \subseteq half' /\ \A i \in out[o].gone : i \in half'
    BY <1>2
  <2> QED BY <1>1, <1>2, <2>1, <2>2, OutFacts, LogoutMoves
<1>8. TypeOK'
  <2>1. out' \in [Outs -> OutRecords]
    BY <1>1, <1>2, OutFacts
  <2>2. half' \subseteq Nat /\ lock' \in Editors \cup {Nobody}
    BY <1>1, <1>2, <1>4 DEF OutRecords
  <2> QED BY <1>2, <1>4, <1>5, <2>1, <2>2 DEF SignInInv, TypeOK, EditRecords
<1> QED BY <1>2, <1>4, <1>6, <1>7, <1>8 DEF SignInInv

LEMMA EnterInv ==
    ASSUME SignInInv, NEW p \in Editors, Enter(p)
    PROVE  SignInInv'
<1>1. /\ edit[p].pc = "waits" /\ lock = Nobody /\ lock' = p
      /\ edit' = [edit EXCEPT ![p] = [pc |-> "read", snap |-> file]]
      /\ UNCHANGED <<keys, reach, codes, file, signer, record, flow, call, commands, out, told, dropped,
                     deadCodes, half, faults>>
  BY DEF Enter, ghosts
<1>2. edit \in [Editors -> EditRecords] /\ file \in Files
  BY DEF SignInInv, TypeOK, EditRecords
<1>3. Access(lock', edit', file, flow, call, out)
  BY <1>1, <1>2, AccessEnter DEF SignInInv
<1>4. edit' \in [Editors -> [pc : {"none", "waits", "read"}, snap : Files]]
  BY <1>1, <1>2 DEF EditRecords
<1>5. TypeOK'
  BY <1>1, <1>4 DEF SignInInv, TypeOK
<1> QED BY <1>1, <1>3, <1>5 DEF SignInInv

LEMMA ExpireInv ==
    ASSUME SignInInv, NEW k \in 1 .. Len(keys), Expire(k)
    PROVE  SignInInv'
<1>1. /\ keys \in Seq(KeyRecords) /\ flow \in [Flows -> FlowRecords] /\ out \in [Outs -> OutRecords]
      /\ file.logins \in [Sites -> Nat] /\ file \in Files /\ faults \in Nat
      /\ KeyOK(keys, file.logins, flow, out, told \cup dropped, half)
      /\ InReach(keys, reach, file, flow, call)
  BY DEF SignInInv, TypeOK, Files
<1>2. /\ Live(k) /\ InFile(file.logins, k) /\ faults' = faults + 1
      /\ keys' = [keys EXCEPT ![k].state = "expired"]
      /\ UNCHANGED <<reach, codes, file, lock, edit, signer, record, flow, call, commands, out, told,
                     dropped, deadCodes, half>>
  BY DEF Expire, InFile
<1>3. Len(keys) \in Nat /\ k \in Nat /\ k <= Len(keys) /\ k # 0
  BY <1>1, KeyFields
<1>4. keys' \in Seq(KeyRecords) /\ Withdrawn(keys, keys', k)
  BY <1>1, <1>2, <1>3, WithdrawFacts
<1>5. keys'[k].state = "expired"
  <2>1. keys[k] \in KeyRecords
    BY <1>1
  <2> QED BY <1>1, <1>2, <2>1 DEF KeyRecords
<1>6. KeyOK(keys', file.logins, flow, out, told \cup dropped, half)
  BY <1>1, <1>2, <1>3, <1>4, <1>5, KeyExpires
<1>7. InReach(keys', reach, file, flow, call)
  <2>1. Grows(keys, reach, keys', reach) /\ Len(keys') \in Nat
    BY <1>1, <1>3, <1>4, GrowsWithdrawn
  <2>2. Known(keys, file, flow)
    BY <1>1, KnownKeys
  <2> QED BY <1>1, <1>3, <2>1, <2>2, InReachGrows
<1>8. TypeOK'
  BY <1>1, <1>2, <1>4 DEF SignInInv, TypeOK
<1> QED BY <1>2, <1>6, <1>7, <1>8 DEF SignInInv

-----------------------------------------------------------------------------
(* The invariant, and what follows from it.                                *)

LEMMA InitInv == Init => SignInInv
<1> SUFFICES ASSUME Init PROVE SignInInv
  OBVIOUS
<1> USE DEF Init
<1>1. TypeOK
  <2>1. keys \in Seq(KeyRecords) /\ reach \in [Accounts -> SUBSET Spaces]
    BY SignInAssumption
  <2>2. /\ flow \in [Flows -> FlowRecords] /\ call \in [Servers -> CallRecords]
        /\ out \in [Outs -> OutRecords]
    BY FreshFlows DEF NoCall, CallRecords, NoOut, OutRecords
  <2>3. edit \in [Editors -> [pc : {"none", "waits", "read"}, snap : Files]]
    BY FirstRecords DEF EditRecords
  <2>4. told \cup dropped \cup half \cup deadCodes \subseteq Nat
    OBVIOUS
  <2> QED BY <2>1, <2>2, <2>3, <2>4, FirstRecords DEF TypeOK
<1>2. KeyOK(keys, file.logins, flow, out, told \cup dropped, half)
  <2>1. Len(keys) = 0
    OBVIOUS
  <2>2. \A x \in Sites : file.logins[x] = 0
    BY FirstRecords
  <2>3. \A f \in Flows : flow[f].key = 0 /\ flow[f].old = 0 /\ FlowShape(flow[f])
    BY FreshFlows
  <2>4. \A f \in Flows : FlowOK(keys, file.logins, flow, out, f)
    BY <2>1, <2>3 DEF FlowOK, Alone
  <2>5. Custody(keys, file.logins, flow, told \cup dropped)
    BY <2>1 DEF Custody
  <2>6. Revoking(keys, file.logins, out, half)
    BY <2>2 DEF Revoking, NoOut
  <2> QED BY <2>1, <2>2, <2>4, <2>5, <2>6 DEF KeyOK
<1>3. Access(lock, edit, file, flow, call, out)
  <2>1. \A p \in Editors : edit[p].pc = "none"
    BY FirstRecords
  <2> QED BY <2>1, Apart DEF Access, Turns, Loaded
<1>4. InReach(keys, reach, file, flow, call)
  <2>1. DefaultOK(keys, reach, file)
    BY FirstRecords DEF DefaultOK
  <2>2. \A f \in Flows : flow[f].pc = "idle"
    BY FreshFlows
  <2>3. \A s \in Servers : call[s].pc = "idle"
    BY DEF NoCall
  <2> QED BY <2>1, <2>2, <2>3 DEF InReach, Listing, Adoption
<1>5. PageOK(signer, record, flow, deadCodes)
  BY DEF PageOK
<1> QED BY <1>1, <1>2, <1>3, <1>4, <1>5 DEF SignInInv

LEMMA StepInv == SignInInv /\ [Next]_vars => SignInInv'
<1> SUFFICES ASSUME SignInInv, [Next]_vars PROVE SignInInv'
  OBVIOUS
<1>1. CASE UNCHANGED vars
  BY <1>1 DEF vars, SignInInv, TypeOK
<1>2. ASSUME NEW f \in Flows, LoginCommand(f) \/ FlowStep(f) \/ CrashLogin(f) PROVE SignInInv'
  <2>1. CASE FlowStep(f)
    <3>1. CASE Started(f) \/ StartRefused(f) \/ PollLost(f) \/ PollDenied(f) \/ PollsEnd(f)
      BY <3>1, StartedInv, StartRefusedInv, PollLostInv, PollDeniedInv, PollsEndInv
    <3>2. CASE \E a \in Approvers[f] : PollIssued(f, a) \/ PollRejected(f, a) \/ PollBroken(f, a)
      BY <3>2, PollIssuedInv, PollBrokenInv
    <3>3. CASE Discarded(f) \/ Listed(f) \/ NotAccepted(f)
      BY <3>3, DiscardedInv, ListedInv, NotAcceptedInv
    <3>4. CASE Stored(f) \/ NotStored(f) \/ RevokeReplaced(f) \/ Picked(f)
      BY <3>4, StoredInv, NotStoredInv, RevokeReplacedInv, PickedInv
    <3> QED BY <2>1, <3>1, <3>2, <3>3, <3>4 DEF FlowStep
  <2> QED BY <1>2, <2>1, LoginCommandInv, CrashLoginInv
<1>3. ASSUME NEW s \in Servers, ToolCall(s) \/ CallStep(s) \/ CrashServer(s) PROVE SignInInv'
  <2>1. CASE CallStep(s)
    BY <2>1, CallOnlyInv, AdoptInv, AdoptedInv, EndedInv, PendingInv DEF CallStep
  <2> QED BY <1>3, <2>1, CallOnlyInv, CrashServerInv
<1>4. ASSUME NEW o \in Outs, LogoutCommand(o) \/ OutStep(o) \/ CrashLogout(o) PROVE SignInInv'
  BY <1>4, LogoutCommandInv, RevokesInv, RevokedInv, RemovesInv, CrashLogoutInv DEF OutStep
<1> QED BY <1>1, <1>2, <1>3, <1>4, EnterInv, ExpireInv DEF Next

(* The invariant that carries the results: one place for every key, the    *)
(* loaded set is the file, and what is about to be stored is in reach.     *)
THEOREM SignInInvariant == Spec => []SignInInv
BY InitInv, StepInv, PTL DEF Spec

LEMMA InvAccounts == SignInInv => KeysAccounted
<1> SUFFICES ASSUME SignInInv PROVE KeysAccounted
  OBVIOUS
<1>1. NoKeyOrphaned
  <2> SUFFICES ASSUME NEW k \in 1 .. Len(keys), Live(k)
               PROVE  \/ \E x \in Sites : file.logins[x] = k
                      \/ \E f \in Flows : k \in FlowKeys(f)
                      \/ k \in told \cup dropped
    BY DEF NoKeyOrphaned
  <2>1. InFile(file.logins, k) \/ (\E f \in Flows : Holds(flow[f], k)) \/ k \in told \cup dropped
    BY DEF SignInInv, KeyOK, Custody, Live, LiveIn
  <2>2. k # 0
    BY DEF Live
  <2>3. \A f \in Flows : Holds(flow[f], k) => k \in FlowKeys(f)
    BY <2>2 DEF Holds, Private, FlowKeys, Running
  <2> QED BY <2>1, <2>3 DEF InFile
<1>2. StoredKeyNotRevoked
  BY DEF StoredKeyNotRevoked, SignInInv, KeyOK, Revoking
<1> QED BY <1>1, <1>2 DEF KeysAccounted

(* The credentials file and the sites agree about login keys at every      *)
(* moment, whatever logins, sign-ins, logouts, crashes and lost answers    *)
(* interleave: no key is left valid unseen, and the file holds no revoked  *)
(* key but one its logout still answers for (Login.Run, Logout.Run).       *)
THEOREM KeysAlwaysAccounted == Spec => []KeysAccounted
BY SignInInvariant, InvAccounts, PTL

LEMMA InvOneLogin == SignInInv => OneLoginPerEndpoint
<1> SUFFICES ASSUME SignInInv PROVE OneLoginPerEndpoint
  OBVIOUS
<1> DEFINE at == {x \in Sites : file.logins[x] # 0}
<1>1. \A x, y \in at : x = y
  BY DEF SignInInv, InReach, DefaultOK
<1>2. Cardinality(at) <= 1
  <2>1. CASE at = {}
    <3>1. Cardinality(at) = 0
      BY <2>1, FS_EmptySet
    <3> QED BY <3>1
  <2>2. CASE at # {}
    <3>1. PICK x \in at : TRUE
      BY <2>2
    <3>2. at = {x}
      BY <1>1, <3>1
    <3>3. Cardinality(at) = 1
      BY <3>2, FS_Singleton
    <3> QED BY <3>3
  <2> QED BY <2>1, <2>2
<1>3. file.deflt # NoSpace => Login # 0 /\ file.deflt \in Reaches(Login)
  <2> SUFFICES ASSUME file.deflt # NoSpace PROVE Login # 0 /\ file.deflt \in Reaches(Login)
    OBVIOUS
  <2>1. PICK x \in Sites : file.logins[x] # 0 /\ file.deflt \in Reach(keys, reach, file.logins[x])
    BY DEF SignInInv, InReach, DefaultOK
  <2>2. Login = file.logins[x]
    BY <2>1, LoginFacts
  <2> QED BY <2>1, <2>2 DEF Reach, Reaches
<1> QED BY <1>2, <1>3 DEF OneLoginPerEndpoint

(* The endpoint never has two logins, and its default space is always one  *)
(* the login's account reaches (Login.store, storeDefault, Logout.remove). *)
THEOREM OneLoginAlways == Spec => []OneLoginPerEndpoint
BY SignInInvariant, InvOneLogin, PTL

Replaces ==
    \A x \in Sites :
       LET was == file.logins[x]
           is == file'.logins[x]
       IN (was # is /\ was # 0 /\ is # 0 /\ keys[was].account # keys[is].account) =>
             \E f \in Flows : flow[f].key = is /\ flow[f].agreed

LEMMA StepReplaces == SignInInv /\ [Next]_vars => Replaces
<1> SUFFICES ASSUME SignInInv, [Next]_vars PROVE Replaces
  OBVIOUS
<1>1. ASSUME file'.logins = file.logins PROVE Replaces
  BY <1>1 DEF Replaces
<1>2. ASSUME NEW f \in Flows, LoginCommand(f) \/ FlowStep(f) \/ CrashLogin(f) PROVE Replaces
  <2>1. CASE Stored(f)
    <3>1. edit[f].snap = file
      BY <2>1, Apart, LoadedIsFile DEF Stored
    <3>2. /\ file.logins \in [Sites -> Nat] /\ SiteOf[f] \in Sites
      BY SignInAssumption DEF SignInInv, TypeOK, Files
    <3>3. file'.logins = [file.logins EXCEPT ![SiteOf[f]] = flow[f].key]
      BY <2>1, <3>1 DEF Stored
    <3>4. LET was == file.logins[SiteOf[f]]
          IN was # 0 /\ keys[was].account # keys[flow[f].key].account => flow[f].agreed
      BY <2>1, <3>1 DEF Stored, MayStore, OtherAccount, Old
    <3> QED BY <3>2, <3>3, <3>4 DEF Replaces
  <2>2. CASE Picked(f)
    <3>1. Held(f) => edit[f].snap = file
      BY Apart, LoadedIsFile
    <3>2. file'.logins = file.logins
      BY <2>2, <3>1 DEF Picked, SetDefault, SignInInv, TypeOK, Files
    <3> QED BY <1>1, <3>2
  <2>3. CASE LoginCommand(f) \/ CrashLogin(f)
    BY <1>1, <2>3 DEF LoginCommand, CrashLogin
  <2>4. CASE FlowStep(f) /\ ~Stored(f) /\ ~Picked(f)
    <3>1. file' = file
      BY <2>4 DEF FlowStep, Started, StartRefused, PollLost, PollDenied, PollsEnd, PollIssued, PollRejected,
                  PollBroken, Discarded, Listed, NotAccepted, NotStored, RevokeReplaced
    <3> QED BY <3>1 DEF Replaces
  <2> QED BY <1>2, <2>1, <2>2, <2>3, <2>4
<1>3. ASSUME NEW s \in Servers, ToolCall(s) \/ CallStep(s) \/ CrashServer(s) PROVE Replaces
  <2>1. CASE Adopted(s)
    <3>1. Held(s) => edit[s].snap = file
      BY Apart, LoadedIsFile
    <3>2. file'.logins = file.logins
      BY <2>1, <3>1 DEF Adopted, SetDefault, SignInInv, TypeOK, Files
    <3> QED BY <1>1, <3>2
  <2>2. CASE ~Adopted(s)
    <3>1. file' = file
      BY <1>3, <2>2 DEF ToolCall, CrashServer, CallStep, Built, SetupRequired, Adopt, Ended, Looks, Pending
    <3> QED BY <1>1, <3>1
  <2> QED BY <2>1, <2>2
<1>4. ASSUME NEW o \in Outs, LogoutCommand(o) \/ OutStep(o) \/ CrashLogout(o) PROVE Replaces
  <2>1. CASE Removes(o) /\ Held(o) /\ file' = Removed(o, edit[o].snap)
    <3>1. edit[o].snap = file
      BY <2>1, Apart, LoadedIsFile
    <3>2. \A x \in Sites : file'.logins[x] \in {0, file.logins[x]}
      BY <2>1, <3>1 DEF Removed
    <3> QED BY <3>2 DEF Replaces
  <2>2. CASE ~(Removes(o) /\ Held(o) /\ file' = Removed(o, edit[o].snap))
    <3>1. file' = file
      BY <1>4, <2>2 DEF LogoutCommand, CrashLogout, OutStep, Revokes, Revoked, Removes
    <3> QED BY <1>1, <3>1
  <2> QED BY <2>1, <2>2
<1>5. ASSUME NEW p \in Editors, Enter(p) PROVE Replaces
  BY <1>1, <1>5 DEF Enter
<1>6. ASSUME NEW k \in 1 .. Len(keys), Expire(k) PROVE Replaces
  BY <1>1, <1>6 DEF Expire
<1>7. CASE UNCHANGED vars
  BY <1>1, <1>7 DEF vars
<1> QED BY <1>2, <1>3, <1>4, <1>5, <1>6, <1>7 DEF Next

(* Nobody's login takes another person's place without consent, also when  *)
(* the other login was stored while this one waited (Login.store).         *)
THEOREM AlwaysReplacedWithConsent == Spec => ReplacedWithConsent
<1>1. Replaces => \A x \in Sites :
          LET was == file.logins[x]
              is == file'.logins[x]
          IN (was # is /\ was # 0 /\ is # 0 /\ keys[was].account # keys[is].account) =>
                \E f \in Flows : flow[f].key = is /\ flow[f].agreed
  BY DEF Replaces
<1> QED BY <1>1, SignInInvariant, StepReplaces, PTL DEF Spec, ReplacedWithConsent

Polled ==
    \A s \in Servers :
       (call'[s].page # 0 /\ call'[s].page # call[s].page) =>
           \/ \E f \in Flows : flow[f].code = call'[s].page
           \/ call'[s].page \in deadCodes

LEMMA StepPolled == SignInInv /\ [Next]_vars => Polled
<1> SUFFICES ASSUME SignInInv, [Next]_vars PROVE Polled
  OBVIOUS
<1>1. ASSUME call' = call PROVE Polled
  BY <1>1 DEF Polled
<1>2. ASSUME NEW f \in Flows, LoginCommand(f) \/ FlowStep(f) \/ CrashLogin(f) PROVE Polled
  <2>1. call' = call
    BY <1>2 DEF LoginCommand, CrashLogin, FlowStep, Started, StartRefused, PollLost, PollDenied, PollsEnd,
                PollIssued, PollRejected, PollBroken, Discarded, Listed, NotAccepted, Stored, NotStored,
                RevokeReplaced, Picked
  <2> QED BY <2>1 DEF Polled
<1>3. ASSUME NEW s \in Servers, ToolCall(s) \/ CallStep(s) \/ CrashServer(s) PROVE Polled
  <2>1. call \in [Servers -> CallRecords] /\ call[s] \in CallRecords
    BY DEF SignInInv, TypeOK
  <2>2. ASSUME NEW c, call' = [call EXCEPT ![s] = c],
               \/ c.page \in {0, call[s].page} \cup deadCodes
               \/ \E f \in Flows : flow[f].code = c.page
        PROVE  Polled
    BY <2>1, <2>2 DEF Polled
  <2>3. ASSUME NEW n PROVE [NoCall EXCEPT !.ready = n].page = 0
    BY DEF NoCall
  <2>4. CASE ToolCall(s) \/ Built(s) \/ SetupRequired(s) \/ Ended(s) \/ CrashServer(s) \/ Answer(s)
    <3>1. PICK c : call' = [call EXCEPT ![s] = c] /\ c.page = 0
      <4>1. CASE ToolCall(s)
        <5>1. [NoCall EXCEPT !.pc = "build", !.polls = Polls].page = 0
          BY DEF NoCall
        <5> QED BY <4>1, <5>1 DEF ToolCall
      <4>2. CASE CrashServer(s)
        <5>1. NoCall.page = 0
          BY DEF NoCall
        <5> QED BY <4>2, <5>1 DEF CrashServer
      <4>3. CASE Built(s)
        BY <2>3, <4>3 DEF Built
      <4>4. CASE SetupRequired(s) \/ Ended(s) \/ Answer(s)
        BY <2>3, <4>4 DEF SetupRequired, Ended, Answer
      <4> QED BY <2>4, <4>1, <4>2, <4>3, <4>4
    <3> QED BY <2>2, <3>1
  <2>5. CASE \E pc : Stage(s, pc)
    <3>1. PICK pc : call' = [call EXCEPT ![s] = [call[s] EXCEPT !.pc = pc]]
      BY <2>5 DEF Stage
    <3>2. [call[s] EXCEPT !.pc = pc].page = call[s].page
      BY <2>1 DEF CallRecords
    <3> QED BY <2>2, <3>1, <3>2
  <2>6. CASE \E n : Adopting(s, n)
    <3>1. PICK n : call' = [call EXCEPT ![s] = [call[s] EXCEPT !.pc = "adopt", !.key = Login, !.space = n]]
      BY <2>6, Zenon DEF Adopting
    <3>2. [call[s] EXCEPT !.pc = "adopt", !.key = Login, !.space = n].page = call[s].page
      BY <2>1 DEF CallRecords
    <3> QED BY <2>2, <3>1, <3>2
  <2>7. CASE Pending(s)
    <3>1. ASSUME NEW page \in Nat, Shown(s, page),
                 page = 0 \/ page \in deadCodes \/ \E f \in Flows : flow[f].code = page
          PROVE  Polled
      <4>1. PICK c \in CallRecords : call' = [call EXCEPT ![s] = c] /\ c.page = page
        BY <3>1, ShownCall
      <4> QED BY <2>2, <3>1, <4>1
    <3>2. Back(s) \in Flows /\ record \in Nat /\ flow[Back(s)].code \in Nat
      BY Apart, FlowFields DEF SignInInv, TypeOK
    <3>3. record = 0 \/ record \in deadCodes \/ \E f \in Flows : flow[f].code = record
      BY DEF SignInInv, PageOK, TypeOK
    <3> QED BY <2>7, <3>1, <3>2, <3>3 DEF Pending
  <2>8. CASE Looks(s) \/ Adopt(s) \/ Adopted(s)
    BY <2>4, <2>5, <2>6, <2>8 DEF Looks, Adopt, Adopted
  <2> QED BY <1>3, <2>4, <2>7, <2>8 DEF CallStep
<1>4. ASSUME NEW o \in Outs, LogoutCommand(o) \/ OutStep(o) \/ CrashLogout(o) PROVE Polled
  <2>1. call' = call
    BY <1>4 DEF LogoutCommand, CrashLogout, OutStep, Revokes, Revoked, Removes
  <2> QED BY <1>1, <2>1
<1>5. ASSUME NEW p \in Editors, Enter(p) PROVE Polled
  BY <1>1, <1>5 DEF Enter
<1>6. ASSUME NEW k \in 1 .. Len(keys), Expire(k) PROVE Polled
  BY <1>1, <1>6 DEF Expire
<1>7. CASE UNCHANGED vars
  BY <1>1, <1>7 DEF vars
<1> QED BY <1>2, <1>3, <1>4, <1>5, <1>6, <1>7 DEF Next

(* A page a person is asked to open belongs to a login that polls for it,  *)
(* or to a process that died (signIn.pending, the sign-in record).         *)
THEOREM PageAlwaysPolled == Spec => PageIsPolled
<1>1. Polled => \A s \in Servers :
          (call'[s].page # 0 /\ call'[s].page # call[s].page) =>
              \/ \E f \in Flows : flow[f].code = call'[s].page
              \/ call'[s].page \in deadCodes
  BY DEF Polled
<1> QED BY <1>1, SignInInvariant, StepPolled, PTL DEF Spec, PageIsPolled
=============================================================================
