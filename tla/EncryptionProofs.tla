--------------------------- MODULE EncryptionProofs ---------------------------
(***************************************************************************)
(* The safety of conversions, rekeys and door changes for any number of    *)
(* machines, passphrases, draws and accepted writes: every pack current    *)
(* references opens the way current does, every door gives its key, and no *)
(* publication is lost.                                                    *)
(***************************************************************************)
EXTENDS Encryption, TLAPS

\* The bytes on their way: what a client or a root job seals with and uploads.
Seal(md, key) == IF md = "encrypted" THEN key ELSE Plain
Uploaded(obs, id, key) == [gen |-> obs.gen + 1, id |-> id, key |-> key]

\* A job's view of current is current while its ETag is.
Observed(obs, cur) == obs.ver <= cur.ver /\ (obs.ver = cur.ver => obs = cur)

\* The cached mode, key and doors of a client are those of the current it read.
ClientOK(j, md, key, doors) ==
  j.pc \in {"load", "upload", "cas"} /\ j.obs.ver # 0 =>
    IF j.obs.key = Plain THEN md = "plaintext"
    ELSE md = "encrypted" /\ key = j.obs.key /\ doors = j.obs.doors

\* The pack of a proposal that may still be accepted is stored.
PackOK(j, md, key, cur, pk) ==
  j.obs.ver = cur.ver =>
    /\ j.pc = "cas" => Uploaded(j.obs, j.id, Seal(md, key)) \in pk
    /\ j.pc = "rootcas" => RootPack(j) \in pk

\* Every door a command writes gives the key it writes it for, and one of them
\* opens to the secret the command will record.
DoorSet(j) ==
  /\ j.doors # {}
  /\ \A d \in j.doors : d.key = j.key
  /\ j.secret = NoSecret \/ \E d \in j.doors : d.secret = j.secret

RootOK(j, bpubs) ==
  /\ j.pc \in {"rootread", "rootupload", "rootcas", "rootlookup"} =>
       DoorSet(j) /\ j.key # Plain /\ j.secret # NoSecret /\ j.attempt # 0
  /\ j.pc \in {"rootupload", "rootcas"} /\ j.op # "init" => bpubs = j.obs.pubs
  /\ j.pc \in {"doorread", "doorcas"} => DoorSet(j)
  /\ j.pc = "doorcas" => j.obs.key = j.key /\ j.key # Plain

\* A root that was accepted raised the generation and opened to its secret.
AcceptOK(j, cur, opn) ==
  /\ j.pc = "rootlookup" /\ Published(cur, j.id) => j.secret \in opn /\ j.obs.gen < cur.gen
  /\ j.pc = "accept" => j.secret \in opn /\ j.obs.gen < cur.gen
  /\ j.pc \in {"list", "roots", "delete"} => j.secret \in opn /\ j.cutoff <= cur.gen
  /\ j.pc = "report" /\ j.op # "failed" => j.secret \in opn \cup {NoSecret}

\* Cleanup deletes nothing above its cutoff and nothing referenced.
CleanupOK(j, cur) ==
  /\ j.pc \in {"roots", "delete"} => \A k \in j.doomed : k.gen <= j.cutoff
  /\ j.pc = "delete" => j.doomed \cap cur.roots = {}

\* The publication IDs a job may still put into current.
Unsent(j) ==
  IF j.pc \in {"cas", "rootcas"} THEN {j.id}
  ELSE IF j.pc \in {"rootread", "rootupload"} /\ j.attempt = 1 THEN {j.key} ELSE {}
Claims(j) == Unsent(j) \cup (IF j.pc = "rootlookup" THEN {j.id} ELSE {})

RootIDs(cur) == {r.id : r \in cur.roots}

CurrentOK ==
  /\ current.ver = 0 => current = Absent
  /\ RootsReadable
  /\ DoorsGiveTheKey
  /\ current.key = Plain => current.doors = {}
  /\ RootIDs(current) \subseteq 1 .. fresh

ClientsOK ==
  \A p \in Procs :
    /\ mode[p] = "encrypted" => current.ver # 0
    /\ mode[p] # "encrypted" => cached[p] = {}
    /\ record[p] \in opened \cup {NoSecret}

JobOK(p) ==
  /\ Observed(job[p].obs, current)
  /\ ClientOK(job[p], mode[p], ring[p], cached[p])
  /\ PackOK(job[p], mode[p], ring[p], current, packs)
  /\ RootOK(job[p], baseline[p].pubs)
  /\ AcceptOK(job[p], current, opened)
  /\ CleanupOK(job[p], current)
  /\ Claims(job[p]) \subseteq 1 .. fresh
  /\ Unsent(job[p]) \cap RootIDs(current) = {}

Disjoint == \A p, q \in Procs : p # q => Claims(job[p]) \cap Claims(job[q]) = {}

\* The inductive invariant.
EncryptionInv == TypeOK /\ CurrentOK /\ ClientsOK /\ (\A p \in Procs : JobOK(p)) /\ Disjoint

-----------------------------------------------------------------------------
(* Types.                                                                   *)

\* Everything but the jobs is well typed.
TypeRest ==
  /\ current \in Currents
  /\ packs \subseteq PackObjects
  /\ baseline \in [Procs -> [gen : Nat, pubs : SUBSET Nat]]
  /\ pulled \in [Procs -> BOOLEAN]
  /\ record \in [Procs -> Secrets]
  /\ cand \in [Procs -> SUBSET Secrets]
  /\ ring \in [Procs -> Nat]
  /\ mode \in [Procs -> {"unresolved", "plaintext", "encrypted"}]
  /\ cached \in [Procs -> SUBSET Doors]
  /\ fresh \in 0 .. MaxFresh
  /\ opened \subseteq Secrets

\* The fields of a job have their types.
LEMMA JobFields ==
  ASSUME NEW j \in Jobs
  PROVE  /\ j.pc \in Pcs /\ j.obs \in Currents /\ j.key \in Nat /\ j.doors \in SUBSET Doors
         /\ j.secret \in Secrets /\ j.open \in Nat /\ j.id \in Nat /\ j.attempt \in Nat
         /\ j.cutoff \in Nat /\ j.doomed \in SUBSET PackObjects
         /\ j.op \in {"none", "pull", "commit", "init", "rekey", "doors", "failed"}
BY DEF Jobs

\* The fields of a stored object have their types.
LEMMA CurrentFields ==
  ASSUME NEW c \in Currents
  PROVE  /\ c.ver \in Nat /\ c.gen \in Nat /\ c.key \in Nat /\ c.doors \in SUBSET Doors
         /\ c.roots \in SUBSET PackObjects /\ c.pubs \in SUBSET Nat
BY DEF Currents

\* The empty store and the idle job.
LEMMA IdleFields ==
  /\ Absent \in Currents /\ Absent.ver = 0 /\ Absent.gen = 0 /\ Absent.key = Plain
  /\ Absent.doors = {} /\ Absent.roots = {} /\ Absent.pubs = {}
  /\ Idle \in Jobs /\ Idle.pc = "idle" /\ Idle.obs = Absent /\ Idle.op = "none"
  /\ Claims(Idle) = {} /\ Unsent(Idle) = {}
<1>1. /\ Absent \in Currents /\ Absent.ver = 0 /\ Absent.gen = 0 /\ Absent.key = Plain
      /\ Absent.doors = {} /\ Absent.roots = {} /\ Absent.pubs = {}
  BY DEF Absent, Currents, Plain
<1>2. Idle \in Jobs /\ Idle.pc = "idle" /\ Idle.obs = Absent /\ Idle.op = "none"
  BY <1>1 DEF Idle, Jobs, Pcs, Secrets, Plain
<1>3. Claims(Idle) = {} /\ Unsent(Idle) = {}
  BY <1>2 DEF Claims, Unsent
<1> QED BY <1>1, <1>2, <1>3

-----------------------------------------------------------------------------
(* One machine takes a step.                                                *)

\* What a step of p may do to current: nothing, or raise its ETag and add one
\* root of the next generation under an ID of its own.
MovesCurrent(p) ==
  \/ current' = current
  \/ /\ current'.ver > current.ver /\ current'.gen >= current.gen
     /\ \A r \in current'.roots :
          r \in current.roots \/ (r.gen > current.gen /\ r.id \in Unsent(job[p]))

\* What it may do to the packs: only old and unreferenced ones disappear.
KeepsPacks == \A k \in packs : k \in packs' \/ k.gen <= current.gen

\* It leaves the other machines alone.
LeavesOthers(p) ==
  \A q \in Procs \ {p} :
    /\ mode'[q] = mode[q] /\ ring'[q] = ring[q] /\ cached'[q] = cached[q]
    /\ baseline'[q] = baseline[q] /\ record'[q] = record[q]

\* What the other jobs rely on survives the step.
LEMMA OthersKept ==
  ASSUME EncryptionInv, NEW p \in Procs, NEW q \in Procs, q # p,
         job'[q] = job[q], LeavesOthers(p), MovesCurrent(p), KeepsPacks,
         current' \in Currents, opened \subseteq opened',
         fresh' \in Nat, fresh <= fresh'
  PROVE  JobOK(q)'
<1>1. /\ JobOK(q) /\ job[q] \in Jobs /\ current \in Currents
      /\ mode'[q] = mode[q] /\ ring'[q] = ring[q] /\ cached'[q] = cached[q]
      /\ baseline'[q] = baseline[q]
  BY DEF EncryptionInv, TypeOK, LeavesOthers
<1>2. PICK j \in Jobs : j = job[q] /\ j = job'[q]
  BY <1>1
<1>3. PICK c \in Currents, c2 \in Currents : c = current /\ c2 = current'
  BY <1>1
<1>4. /\ Observed(j.obs, c) /\ ClientOK(j, mode[q], ring[q], cached[q])
      /\ PackOK(j, mode[q], ring[q], c, packs) /\ RootOK(j, baseline[q].pubs)
      /\ AcceptOK(j, c, opened) /\ CleanupOK(j, c)
      /\ Claims(j) \subseteq 1 .. fresh /\ Unsent(j) \cap RootIDs(c) = {}
  BY <1>1, <1>2, <1>3 DEF JobOK
<1>5. \/ c2 = c
      \/ /\ c2.ver > c.ver /\ c2.gen >= c.gen
         /\ \A r \in c2.roots : r \in c.roots \/ (r.gen > c.gen /\ r.id \in Unsent(job[p]))
  BY <1>3 DEF MovesCurrent
<1>6. Claims(j) \cap Unsent(job[p]) = {}
  BY <1>2 DEF EncryptionInv, Disjoint, Claims
<1>7. /\ c.ver \in Nat /\ c2.ver \in Nat /\ c.gen \in Nat /\ c2.gen \in Nat
      /\ j.obs.ver \in Nat /\ j.obs.gen \in Nat /\ j.cutoff \in Nat
      /\ j.doomed \subseteq PackObjects /\ c2.roots \subseteq PackObjects
  BY CurrentFields, JobFields
<1>8. Observed(j.obs, c2)
  BY <1>4, <1>5, <1>7 DEF Observed
<1>9. PackOK(j, mode[q], ring[q], c2, packs')
  <2> SUFFICES ASSUME j.obs.ver = c2.ver
               PROVE  /\ j.pc = "cas" => Uploaded(j.obs, j.id, Seal(mode[q], ring[q])) \in packs'
                      /\ j.pc = "rootcas" => RootPack(j) \in packs'
    BY DEF PackOK
  <2>1. c2 = c /\ j.obs = c
    BY <1>4, <1>5, <1>7 DEF Observed
  <2>2. /\ Uploaded(j.obs, j.id, Seal(mode[q], ring[q])).gen = c.gen + 1
        /\ RootPack(j).gen = c.gen + 1
    BY <2>1 DEF Uploaded, RootPack
  <2>3. \A k : k \in packs /\ k.gen = c.gen + 1 => k \in packs'
    BY <1>3, <1>7 DEF KeepsPacks
  <2> QED BY <1>4, <2>1, <2>2, <2>3 DEF PackOK
<1>10. AcceptOK(j, c2, opened')
  <2>1. j.pc = "rootlookup" /\ Published(c2, j.id) => Published(c, j.id)
    BY <1>5, <1>6 DEF Published, Claims
  <2>2. c.gen <= c2.gen
    BY <1>5, <1>7
  <2> QED BY <1>4, <1>7, <2>1, <2>2 DEF AcceptOK
<1>11. CleanupOK(j, c2)
  <2>1. ASSUME j.pc = "delete", NEW k \in j.doomed, k \in c2.roots PROVE FALSE
    <3>1. k.gen <= j.cutoff /\ j.cutoff <= c.gen /\ k \notin c.roots /\ k.gen \in Nat
      BY <1>4, <1>7, <2>1 DEF CleanupOK, AcceptOK, PackObjects
    <3>2. k.gen > c.gen
      BY <1>5, <2>1, <3>1
    <3> QED BY <1>7, <3>1, <3>2
  <2> QED BY <1>4, <2>1 DEF CleanupOK
<1>12. Unsent(j) \cap RootIDs(c2) = {}
  <2>1. \A r \in c2.roots : r.id \in RootIDs(c) \/ r.id \in Unsent(job[p])
    BY <1>5 DEF RootIDs
  <2>2. Unsent(j) \cap Unsent(job[p]) = {}
    BY <1>6 DEF Claims
  <2> QED BY <1>4, <2>1, <2>2 DEF RootIDs
<1>13. Claims(j) \subseteq 1 .. fresh'
  BY <1>4 DEF EncryptionInv, TypeOK
<1> QED BY <1>1, <1>2, <1>3, <1>4, <1>8, <1>9, <1>10, <1>11, <1>12, <1>13 DEF JobOK

\* The step of p keeps the invariant when it keeps what p itself relies on.
LEMMA MachineStep ==
  ASSUME EncryptionInv, NEW p \in Procs, NEW j \in Jobs, job' = [job EXCEPT ![p] = j],
         TypeRest', CurrentOK', ClientsOK', LeavesOthers(p), MovesCurrent(p), KeepsPacks,
         opened \subseteq opened', fresh <= fresh',
         Claims(j) \subseteq Claims(job[p]) \cup (fresh + 1 .. fresh'),
         Observed(j.obs, current'), ClientOK(j, mode'[p], ring'[p], cached'[p]),
         PackOK(j, mode'[p], ring'[p], current', packs'), RootOK(j, baseline'[p].pubs),
         AcceptOK(j, current', opened'), CleanupOK(j, current'),
         Unsent(j) \cap RootIDs(current') = {}
  PROVE  EncryptionInv'
<1>1. job \in [Procs -> Jobs] /\ fresh \in Nat /\ fresh' \in Nat /\ current' \in Currents
  BY EncryptionAssumption DEF EncryptionInv, TypeOK, TypeRest
<1>2. job'[p] = j /\ \A q \in Procs \ {p} : job'[q] = job[q]
  BY <1>1
<1>3. TypeOK'
  BY <1>1 DEF TypeOK, TypeRest
<1>4. \A q \in Procs : Claims(job[q]) \subseteq 1 .. fresh
  BY DEF EncryptionInv, JobOK
<1>5. Claims(j) \subseteq 1 .. fresh'
  BY <1>1, <1>4
<1>6. JobOK(p)'
  BY <1>2, <1>5 DEF JobOK
<1>7. \A q \in Procs : JobOK(q)'
  <2> SUFFICES ASSUME NEW q \in Procs, q # p PROVE JobOK(q)'
    BY <1>6
  <2> QED BY <1>1, <1>2, OthersKept
<1>8. Disjoint'
  <2>1. \A q \in Procs \ {p} : Claims(j) \cap Claims(job[q]) = {}
    BY <1>1, <1>4 DEF EncryptionInv, Disjoint
  <2> QED BY <1>1, <1>2, <2>1 DEF EncryptionInv, Disjoint
<1> QED BY <1>3, <1>7, <1>8 DEF EncryptionInv

\* An idle machine relies on nothing.
LEMMA IdleRelies ==
  ASSUME CurrentOK, current \in Currents, NEW md, NEW key, NEW doors, NEW pk, NEW bp, NEW opn
  PROVE  /\ Observed(Idle.obs, current) /\ ClientOK(Idle, md, key, doors)
         /\ PackOK(Idle, md, key, current, pk) /\ RootOK(Idle, bp)
         /\ AcceptOK(Idle, current, opn) /\ CleanupOK(Idle, current)
         /\ Claims(Idle) = {} /\ Unsent(Idle) = {} /\ Idle \in Jobs
BY IdleFields, CurrentFields
   DEF Observed, ClientOK, PackOK, RootOK, AcceptOK, CleanupOK, CurrentOK

\* A lost CAS ends the job or starts it again with what it had prepared.
LEMMA RetryFields ==
  ASSUME NEW j \in Jobs, NEW pc \in {"read", "rootread", "doorread"}
  PROVE  \/ Retry(j, pc) = Idle
         \/ /\ Retry(j, pc) \in Jobs
            /\ Retry(j, pc).pc = pc /\ Retry(j, pc).op = j.op /\ Retry(j, pc).obs = Absent
            /\ Retry(j, pc).key = j.key /\ Retry(j, pc).doors = j.doors
            /\ Retry(j, pc).secret = j.secret /\ Retry(j, pc).attempt = j.attempt + 1
            /\ Retry(j, pc).id = 0
<1> DEFINE k == [j EXCEPT !.pc = pc, !.attempt = j.attempt + 1, !.obs = Absent, !.id = 0]
<1>0. Absent \in Currents /\ j.attempt + 1 \in Nat /\ pc \in Pcs
  BY IdleFields, JobFields DEF Pcs
<1>1. k \in Jobs
  BY <1>0 DEF Jobs
<1>3. /\ k.pc = pc /\ k.op = j.op /\ k.obs = Absent /\ k.key = j.key
      /\ k.doors = j.doors /\ k.secret = j.secret /\ k.attempt = j.attempt + 1 /\ k.id = 0
  BY DEF Jobs
<1>2. Retry(j, pc) = Idle \/ Retry(j, pc) = k
  BY DEF Retry
<1> QED BY <1>1, <1>2, <1>3

\* The fields of a job that only has to report.
LEMMA ReportedFields ==
  ASSUME NEW j \in Jobs
  PROVE  /\ Reported(j) \in Jobs /\ Reported(j).pc = "report" /\ Reported(j).op = j.op
         /\ Reported(j).secret = j.secret /\ Reported(j).obs = Absent
<1> DEFINE k == [Idle EXCEPT !.pc = "report", !.op = j.op, !.secret = j.secret]
<1>1. j.op \in {"none", "pull", "commit", "init", "rekey", "doors", "failed"} /\ j.secret \in Secrets
  BY JobFields
<1>2. k \in Jobs /\ k.pc = "report" /\ k.op = j.op /\ k.secret = j.secret /\ k.obs = Absent
  BY IdleFields, <1>1 DEF Jobs, Pcs
<1> QED BY <1>2 DEF Reported

\* A step that leaves current where it is.
LEMMA StillStep ==
  ASSUME EncryptionInv, NEW p \in Procs, NEW j \in Jobs, job' = [job EXCEPT ![p] = j],
         current' = current, opened' = opened, TypeRest', ClientsOK', LeavesOthers(p),
         KeepsPacks, current.roots \subseteq packs', fresh <= fresh',
         Claims(j) \subseteq Claims(job[p]) \cup (fresh + 1 .. fresh'),
         Observed(j.obs, current), ClientOK(j, mode'[p], ring'[p], cached'[p]),
         PackOK(j, mode'[p], ring'[p], current, packs'), RootOK(j, baseline'[p].pubs),
         AcceptOK(j, current, opened), CleanupOK(j, current),
         Unsent(j) \cap RootIDs(current) = {}
  PROVE  EncryptionInv'
<1>1. fresh \in Nat /\ fresh' \in Nat /\ CurrentOK
  BY EncryptionAssumption DEF EncryptionInv, TypeOK, TypeRest
<1>2. RootIDs(current)' = RootIDs(current)
  BY DEF RootIDs
<1>3. CurrentOK'
  <2>1. RootsReadable'
    BY <1>1 DEF CurrentOK, RootsReadable
  <2>2. DoorsGiveTheKey' /\ (current.ver = 0 => current = Absent)'
        /\ (current.key = Plain => current.doors = {})'
    BY <1>1 DEF CurrentOK, DoorsGiveTheKey
  <2>3. RootIDs(current)' \subseteq 1 .. fresh'
    BY <1>1, <1>2 DEF CurrentOK
  <2> QED BY <2>1, <2>2, <2>3 DEF CurrentOK
<1>4. MovesCurrent(p)
  BY DEF MovesCurrent
<1> QED BY <1>3, <1>4, MachineStep

\* A step that changes nothing but the job.
LEMMA QuietStep ==
  ASSUME EncryptionInv, NEW p \in Procs, NEW j \in Jobs, job' = [job EXCEPT ![p] = j],
         UNCHANGED <<current, packs, durable, clientVars, fresh, opened>>,
         Claims(j) \subseteq Claims(job[p]),
         Observed(j.obs, current), ClientOK(j, mode[p], ring[p], cached[p]),
         PackOK(j, mode[p], ring[p], current, packs), RootOK(j, baseline[p].pubs),
         AcceptOK(j, current, opened), CleanupOK(j, current),
         Unsent(j) \cap RootIDs(current) = {}
  PROVE  EncryptionInv'
<1>1. /\ UNCHANGED <<current, packs, baseline, pulled, record, cand, ring, mode, cached>>
      /\ UNCHANGED <<fresh, opened>>
  BY DEF durable, clientVars
<1>2. TypeRest'
  BY <1>1 DEF EncryptionInv, TypeOK, TypeRest
<1>3. ClientsOK'
  BY <1>1 DEF EncryptionInv, ClientsOK
<1>4. LeavesOthers(p) /\ KeepsPacks
  BY <1>1 DEF LeavesOthers, KeepsPacks
<1>5. current.roots \subseteq packs' /\ fresh <= fresh'
  BY <1>1, EncryptionAssumption DEF EncryptionInv, CurrentOK, RootsReadable, TypeOK
<1> QED BY <1>1, <1>2, <1>3, <1>4, <1>5, StillStep

\* A job that ends.
LEMMA EndStep ==
  ASSUME EncryptionInv, NEW p \in Procs, Become(p, Idle),
         UNCHANGED <<current, packs, durable, clientVars, fresh, opened>>
  PROVE  EncryptionInv'
<1>1. CurrentOK /\ current \in Currents
  BY DEF EncryptionInv, TypeOK
<1>2. job' = [job EXCEPT ![p] = Idle]
  BY DEF Become
<1> QED BY <1>1, <1>2, IdleRelies, QuietStep

\* A step that stores c over the current that the job of p saw.
LEMMA StoreStep ==
  ASSUME EncryptionInv, NEW p \in Procs, NEW j \in Jobs, job' = [job EXCEPT ![p] = j],
         NEW c \in Currents, Store(c), UNCHANGED <<packs, pulled, record, clientVars, fresh>>,
         baseline' \in [Procs -> [gen : Nat, pubs : SUBSET Nat]],
         \A q \in Procs \ {p} : baseline'[q] = baseline[q],
         \A r \in c.roots : r \in packs /\ r.key = c.key,
         c.key # Plain => c.doors # {} /\ \A d \in c.doors : d.key = c.key,
         c.key = Plain => c.doors = {},
         c.gen >= current.gen,
         \A r \in c.roots : r \in current.roots \/ (r.gen > current.gen /\ r.id \in Unsent(job[p])),
         j.pc \in {"idle", "lookup", "rootlookup", "accept", "report"},
         j.obs.ver <= current.ver,
         Claims(j) \subseteq Claims(job[p]),
         RootOK(j, {}),
         j.pc \in {"rootlookup", "accept"} =>
           j.secret \in opened \cup {d.secret : d \in c.doors} /\ j.obs.gen < c.gen,
         j.pc = "report" => j.secret \in opened \cup {d.secret : d \in c.doors} \cup {NoSecret}
  PROVE  EncryptionInv'
<1>1. /\ UNCHANGED <<packs, pulled, record, cand, ring, mode, cached, fresh>>
      /\ current' = [c EXCEPT !.ver = current.ver + 1]
      /\ opened' = opened \cup {d.secret : d \in c.doors}
  BY DEF Store, clientVars
<1>2. /\ current \in Currents /\ current.ver \in Nat /\ current.gen \in Nat /\ c.gen \in Nat
      /\ fresh \in Nat /\ CurrentOK /\ ClientsOK
  BY CurrentFields, EncryptionAssumption DEF EncryptionInv, TypeOK
<1>3. /\ current' \in Currents /\ current'.ver = current.ver + 1 /\ current'.gen = c.gen
      /\ current'.key = c.key /\ current'.doors = c.doors /\ current'.roots = c.roots
  <2> DEFINE d == [c EXCEPT !.ver = current.ver + 1]
  <2>1. /\ d \in Currents /\ d.ver = current.ver + 1 /\ d.gen = c.gen /\ d.key = c.key
        /\ d.doors = c.doors /\ d.roots = c.roots
    BY <1>2 DEF Currents
  <2> QED BY <1>1, <2>1
<1>4. opened' \subseteq Secrets
  <2>1. \A d \in Doors : d.secret \in Secrets
    BY DEF Doors
  <2> QED BY <1>1, <2>1, CurrentFields DEF EncryptionInv, TypeOK
<1>5. TypeRest'
  BY <1>1, <1>3, <1>4 DEF EncryptionInv, TypeOK, TypeRest
<1>6. MovesCurrent(p) /\ KeepsPacks /\ LeavesOthers(p)
  BY <1>1, <1>2, <1>3 DEF MovesCurrent, KeepsPacks, LeavesOthers
<1>7. Unsent(job[p]) \subseteq 1 .. fresh
  BY DEF EncryptionInv, JobOK, Claims
<1>8. RootIDs(current)' \subseteq 1 .. fresh'
  <2> SUFFICES ASSUME NEW r \in c.roots PROVE r.id \in 1 .. fresh
    BY <1>1, <1>3 DEF RootIDs
  <2>1. r.id \in Unsent(job[p]) \/ r.id \in RootIDs(current)
    BY DEF RootIDs
  <2> QED BY <1>2, <1>7, <2>1 DEF CurrentOK
<1>9. CurrentOK'
  <2>1. RootsReadable'
    BY <1>1, <1>3 DEF RootsReadable
  <2>2. DoorsGiveTheKey' /\ (current.key = Plain => current.doors = {})'
    BY <1>3 DEF DoorsGiveTheKey
  <2>3. current'.ver # 0
    BY <1>2, <1>3
  <2> QED BY <1>8, <2>1, <2>2, <2>3 DEF CurrentOK
<1>10. ClientsOK'
  BY <1>1, <1>2, <1>3 DEF ClientsOK
<1>11. opened \subseteq opened' /\ fresh <= fresh'
  BY <1>1, <1>2
<1>12. j.obs.ver \in Nat /\ j.obs.gen \in Nat
  BY JobFields, CurrentFields
<1>13. Observed(j.obs, current') /\ PackOK(j, mode'[p], ring'[p], current', packs')
  BY <1>2, <1>3, <1>12 DEF Observed, PackOK
<1>14. ClientOK(j, mode'[p], ring'[p], cached'[p]) /\ CleanupOK(j, current')
  BY DEF ClientOK, CleanupOK
<1>15. RootOK(j, baseline'[p].pubs)
  BY DEF RootOK
<1>16. AcceptOK(j, current', opened')
  BY <1>1, <1>3 DEF AcceptOK
<1>17. Unsent(j) = {}
  BY DEF Unsent
<1> QED BY <1>5, <1>6, <1>9, <1>10, <1>11, <1>13, <1>14, <1>15, <1>16, <1>17, MachineStep

-----------------------------------------------------------------------------
(* Steps that change nothing but the job.                                   *)

\* A job that has let go of what it observed relies on no client and no pack.
LEMMA RestRelies ==
  ASSUME CurrentOK, current \in Currents, NEW j \in Jobs, j.obs = Absent,
         j.pc \in {"idle", "read", "list", "roots", "delete", "report"},
         NEW md, NEW key, NEW doors, NEW pk, NEW bp
  PROVE  /\ Observed(j.obs, current) /\ ClientOK(j, md, key, doors)
         /\ PackOK(j, md, key, current, pk) /\ RootOK(j, bp)
         /\ Claims(j) = {} /\ Unsent(j) = {}
BY IdleFields, CurrentFields
   DEF Observed, ClientOK, PackOK, RootOK, CurrentOK, Claims, Unsent

\* StartClient
LEMMA StartClientStep ==
  ASSUME EncryptionInv, NEW p \in Procs, NEW op \in {"pull", "commit"}, StartClient(p, op)
  PROVE  EncryptionInv'
<1> DEFINE k == [Idle EXCEPT !.pc = "read", !.op = op, !.attempt = 1]
<1>1. k \in Jobs /\ k.pc = "read" /\ k.obs = Absent
  BY IdleFields DEF Jobs, Pcs
<1>2. job' = [job EXCEPT ![p] = k] /\ UNCHANGED <<current, packs, durable, clientVars, fresh, opened>>
  BY DEF StartClient, Become
<1> HIDE DEF k
<1>3. CurrentOK /\ current \in Currents
  BY DEF EncryptionInv, TypeOK
<1>4. AcceptOK(k, current, opened) /\ CleanupOK(k, current)
  BY <1>1 DEF AcceptOK, CleanupOK
<1> QED BY <1>1, <1>2, <1>3, <1>4, RestRelies, QuietStep

\* ClientLost
LEMMA ClientLostStep ==
  ASSUME EncryptionInv, NEW p \in Procs, ClientLost(p)
  PROVE  EncryptionInv'
<1> DEFINE k == Retry(job[p], "read")
<1>1. job[p] \in Jobs /\ CurrentOK /\ current \in Currents
  BY DEF EncryptionInv, TypeOK
<1>2. Become(p, k) /\ UNCHANGED <<current, packs, durable, clientVars, fresh, opened>>
  BY DEF ClientLost
<1>3. k \in Jobs /\ k.pc \in {"idle", "read"} /\ k.obs = Absent
  BY <1>1, RetryFields, IdleFields
<1> HIDE DEF k
<1>4. AcceptOK(k, current, opened) /\ CleanupOK(k, current)
  BY <1>3 DEF AcceptOK, CleanupOK
<1>5. job' = [job EXCEPT ![p] = k]
  BY <1>2 DEF Become
<1> QED BY <1>1, <1>2, <1>3, <1>4, <1>5, RestRelies, QuietStep

\* RootLost
LEMMA RootLostStep ==
  ASSUME EncryptionInv, NEW p \in Procs, RootLost(p)
  PROVE  EncryptionInv'
<1> DEFINE j == job[p]
           k == Retry(j, "rootread")
<1>1. j \in Jobs /\ CurrentOK /\ current \in Currents /\ RootOK(j, baseline[p].pubs)
  BY DEF EncryptionInv, TypeOK, JobOK
<1>2. /\ Become(p, k) /\ UNCHANGED <<current, packs, durable, clientVars, fresh, opened>>
      /\ j.pc = "rootcas"
  BY DEF RootLost
<1>3. CASE k = Idle
  BY <1>2, <1>3, EndStep
<1>4. CASE k # Idle
  <2>1. /\ k \in Jobs /\ k.pc = "rootread" /\ k.obs = Absent /\ k.doors = j.doors
        /\ k.key = j.key /\ k.secret = j.secret /\ k.attempt = j.attempt + 1
    BY <1>1, <1>4, RetryFields
  <2>2. j.attempt \in Nat /\ j.attempt # 0
    BY <1>1, <1>2, JobFields DEF RootOK
  <2>3. job' = [job EXCEPT ![p] = k]
    BY <1>2 DEF Become
  <2> HIDE DEF k
  <2>4. RootOK(k, baseline[p].pubs)
    BY <1>1, <1>2, <2>1, <2>2 DEF RootOK, DoorSet
  <2>5. Claims(k) = {} /\ Unsent(k) = {}
    BY <2>1, <2>2 DEF Claims, Unsent
  <2>6. /\ AcceptOK(k, current, opened) /\ CleanupOK(k, current)
        /\ ClientOK(k, mode[p], ring[p], cached[p])
        /\ PackOK(k, mode[p], ring[p], current, packs)
    BY <2>1 DEF AcceptOK, CleanupOK, ClientOK, PackOK
  <2>7. Observed(k.obs, current)
    BY <1>1, <2>1, IdleFields, CurrentFields DEF Observed, CurrentOK
  <2> QED BY <1>2, <2>1, <2>3, <2>4, <2>5, <2>6, <2>7, QuietStep
<1> QED BY <1>3, <1>4

\* DoorsLost
LEMMA DoorsLostStep ==
  ASSUME EncryptionInv, NEW p \in Procs, DoorsLost(p)
  PROVE  EncryptionInv'
<1> DEFINE j == job[p]
           k == Retry(j, "doorread")
<1>1. j \in Jobs /\ CurrentOK /\ current \in Currents /\ RootOK(j, baseline[p].pubs)
  BY DEF EncryptionInv, TypeOK, JobOK
<1>2. /\ Become(p, k) /\ UNCHANGED <<current, packs, durable, clientVars, fresh, opened>>
      /\ j.pc = "doorcas"
  BY DEF DoorsLost
<1>3. CASE k = Idle
  BY <1>2, <1>3, EndStep
<1>4. CASE k # Idle
  <2>1. /\ k \in Jobs /\ k.pc = "doorread" /\ k.obs = Absent /\ k.doors = j.doors
        /\ k.key = j.key /\ k.secret = j.secret
    BY <1>1, <1>4, RetryFields
  <2>3. job' = [job EXCEPT ![p] = k]
    BY <1>2 DEF Become
  <2> HIDE DEF k
  <2>4. RootOK(k, baseline[p].pubs)
    BY <1>1, <1>2, <2>1 DEF RootOK, DoorSet
  <2>5. Claims(k) = {} /\ Unsent(k) = {}
    BY <2>1 DEF Claims, Unsent
  <2>6. /\ AcceptOK(k, current, opened) /\ CleanupOK(k, current)
        /\ ClientOK(k, mode[p], ring[p], cached[p])
        /\ PackOK(k, mode[p], ring[p], current, packs)
    BY <2>1 DEF AcceptOK, CleanupOK, ClientOK, PackOK
  <2>7. Observed(k.obs, current)
    BY <1>1, <2>1, IdleFields, CurrentFields DEF Observed, CurrentOK
  <2> QED BY <1>2, <2>1, <2>3, <2>4, <2>5, <2>6, <2>7, QuietStep
<1> QED BY <1>3, <1>4

\* RootLookup: only a proven publication is cleaned up after.
LEMMA RootLookupStep ==
  ASSUME EncryptionInv, NEW p \in Procs, RootLookup(p)
  PROVE  EncryptionInv'
<1> DEFINE j == job[p]
           k == [j EXCEPT !.pc = "accept"]
<1>1. j \in Jobs /\ JobOK(p) /\ j.pc = "rootlookup"
  BY DEF EncryptionInv, TypeOK, RootLookup
<1>2. /\ Become(p, IF Opens(j.key, current) /\ Published(current, j.id) THEN k ELSE Idle)
      /\ UNCHANGED <<current, packs, durable, clientVars, fresh, opened>>
  BY DEF RootLookup
<1>3. CASE ~(Opens(j.key, current) /\ Published(current, j.id))
  BY <1>2, <1>3, EndStep
<1>4. CASE Opens(j.key, current) /\ Published(current, j.id)
  <2>1. k \in Jobs /\ k.pc = "accept" /\ k.obs = j.obs /\ k.secret = j.secret
    BY <1>1 DEF Jobs, Pcs
  <2>2. job' = [job EXCEPT ![p] = k]
    BY <1>2, <1>4 DEF Become
  <2> HIDE DEF k
  <2>3. AcceptOK(k, current, opened)
    BY <1>1, <1>4, <2>1 DEF AcceptOK, JobOK
  <2>4. /\ Observed(k.obs, current) /\ ClientOK(k, mode[p], ring[p], cached[p])
        /\ PackOK(k, mode[p], ring[p], current, packs) /\ RootOK(k, baseline[p].pubs)
        /\ CleanupOK(k, current) /\ Claims(k) = {} /\ Unsent(k) = {}
    BY <1>1, <2>1 DEF JobOK, ClientOK, PackOK, RootOK, CleanupOK, Claims, Unsent
  <2> QED BY <1>2, <2>1, <2>2, <2>3, <2>4, QuietStep
<1> QED BY <1>3, <1>4

\* CleanupList
LEMMA CleanupListStep ==
  ASSUME EncryptionInv, NEW p \in Procs, CleanupList(p)
  PROVE  EncryptionInv'
<1> DEFINE j == job[p]
           old == {k \in packs : k.gen <= j.cutoff}
           k2 == [j EXCEPT !.pc = "roots", !.doomed = old]
<1>1. j \in Jobs /\ JobOK(p) /\ j.pc = "list" /\ packs \subseteq PackObjects
  BY DEF EncryptionInv, TypeOK, CleanupList
<1>2. job' = [job EXCEPT ![p] = k2] /\ UNCHANGED <<current, packs, durable, clientVars, fresh, opened>>
  BY DEF CleanupList, Become
<1>3. old \subseteq PackObjects /\ \A o \in old : o.gen <= j.cutoff
  BY <1>1
<1> HIDE DEF old
<1>4. /\ k2 \in Jobs /\ k2.pc = "roots" /\ k2.obs = j.obs /\ k2.secret = j.secret
      /\ k2.cutoff = j.cutoff /\ k2.doomed = old
  BY <1>1, <1>3 DEF Jobs, Pcs
<1> HIDE DEF k2
<1>5. AcceptOK(k2, current, opened) /\ CleanupOK(k2, current)
  BY <1>1, <1>3, <1>4 DEF AcceptOK, CleanupOK, JobOK
<1>6. /\ Observed(k2.obs, current) /\ ClientOK(k2, mode[p], ring[p], cached[p])
      /\ PackOK(k2, mode[p], ring[p], current, packs) /\ RootOK(k2, baseline[p].pubs)
      /\ Claims(k2) = {} /\ Unsent(k2) = {}
  BY <1>1, <1>4 DEF JobOK, ClientOK, PackOK, RootOK, Claims, Unsent
<1> QED BY <1>2, <1>4, <1>5, <1>6, QuietStep

\* CleanupRoots: the packs current references are spared.
LEMMA CleanupRootsStep ==
  ASSUME EncryptionInv, NEW p \in Procs, CleanupRoots(p)
  PROVE  EncryptionInv'
<1> DEFINE j == job[p]
           k2 == [j EXCEPT !.pc = "delete", !.doomed = j.doomed \ current.roots]
<1>1. /\ j \in Jobs /\ JobOK(p) /\ j.pc = "roots" /\ CurrentOK /\ current \in Currents
      /\ UNCHANGED <<current, packs, durable, clientVars, fresh, opened>>
  BY DEF EncryptionInv, TypeOK, CleanupRoots
<1>2. job' = [job EXCEPT ![p] = k2] \/ job' = [job EXCEPT ![p] = Reported(j)]
  BY DEF CleanupRoots, Become, Spared
<1>3. CASE job' = [job EXCEPT ![p] = k2]
  <2>1. j.doomed \ current.roots \in SUBSET PackObjects
    BY <1>1, JobFields
  <2>2. /\ k2 \in Jobs /\ k2.pc = "delete" /\ k2.obs = j.obs /\ k2.secret = j.secret
        /\ k2.cutoff = j.cutoff /\ k2.doomed = j.doomed \ current.roots
    BY <1>1, <2>1 DEF Jobs, Pcs
  <2> HIDE DEF k2
  <2>3. AcceptOK(k2, current, opened) /\ CleanupOK(k2, current)
    BY <1>1, <2>2 DEF AcceptOK, CleanupOK, JobOK
  <2>4. /\ Observed(k2.obs, current) /\ ClientOK(k2, mode[p], ring[p], cached[p])
        /\ PackOK(k2, mode[p], ring[p], current, packs) /\ RootOK(k2, baseline[p].pubs)
        /\ Claims(k2) = {} /\ Unsent(k2) = {}
    BY <1>1, <2>2 DEF JobOK, ClientOK, PackOK, RootOK, Claims, Unsent
  <2> QED BY <1>1, <1>3, <2>2, <2>3, <2>4, QuietStep
<1>4. CASE job' = [job EXCEPT ![p] = Reported(j)]
  <2>1. /\ Reported(j) \in Jobs /\ Reported(j).pc = "report"
        /\ Reported(j).secret = j.secret /\ Reported(j).obs = Absent
    BY <1>1, ReportedFields
  <2>2. AcceptOK(Reported(j), current, opened) /\ CleanupOK(Reported(j), current)
    BY <1>1, <2>1 DEF AcceptOK, CleanupOK, JobOK
  <2> QED BY <1>1, <1>4, <2>1, <2>2, RestRelies, QuietStep
<1> QED BY <1>2, <1>3, <1>4

\* DoorsRead
LEMMA DoorsReadStep ==
  ASSUME EncryptionInv, NEW p \in Procs, DoorsRead(p)
  PROVE  EncryptionInv'
<1> DEFINE j == job[p]
           k == [j EXCEPT !.pc = "doorcas", !.obs = current]
<1>1. j \in Jobs /\ JobOK(p) /\ j.pc = "doorread" /\ current \in Currents
  BY DEF EncryptionInv, TypeOK, DoorsRead
<1>2. /\ Become(p, IF DoorsOpenable(p) THEN k ELSE Idle)
      /\ UNCHANGED <<current, packs, durable, clientVars, fresh, opened>>
  BY DEF DoorsRead
<1>3. CASE ~DoorsOpenable(p)
  BY <1>2, <1>3, EndStep
<1>4. CASE DoorsOpenable(p)
  <2>1. /\ k \in Jobs /\ k.pc = "doorcas" /\ k.obs = current /\ k.doors = j.doors
        /\ k.key = j.key /\ k.secret = j.secret
    BY <1>1 DEF Jobs, Pcs
  <2>2. job' = [job EXCEPT ![p] = k]
    BY <1>2, <1>4 DEF Become
  <2> HIDE DEF k
  <2>3. RootOK(k, baseline[p].pubs)
    BY <1>1, <1>4, <2>1 DEF RootOK, DoorSet, JobOK, DoorsOpenable, Opens
  <2>4. /\ Observed(k.obs, current) /\ ClientOK(k, mode[p], ring[p], cached[p])
        /\ PackOK(k, mode[p], ring[p], current, packs)
    BY <1>1, <2>1, CurrentFields DEF Observed, ClientOK, PackOK
  <2>5. /\ AcceptOK(k, current, opened)
        /\ CleanupOK(k, current) /\ Claims(k) = {} /\ Unsent(k) = {}
    BY <2>1 DEF AcceptOK, CleanupOK, Claims, Unsent
  <2> QED BY <1>2, <2>1, <2>2, <2>3, <2>4, <2>5, QuietStep
<1> QED BY <1>3, <1>4

-----------------------------------------------------------------------------
(* Steps of a client that keep current and the packs.                       *)

\* A step that moves only the machine's own client, baseline and job.
LEMMA ClientStep ==
  ASSUME EncryptionInv, NEW p \in Procs, NEW j \in Jobs, job' = [job EXCEPT ![p] = j],
         UNCHANGED <<current, packs, record, fresh, opened>>, TypeRest',
         \A q \in Procs \ {p} : /\ mode'[q] = mode[q] /\ ring'[q] = ring[q]
                                /\ cached'[q] = cached[q] /\ baseline'[q] = baseline[q],
         mode'[p] = "encrypted" => current.ver # 0,
         mode'[p] # "encrypted" => cached'[p] = {},
         Claims(j) \subseteq Claims(job[p]),
         Observed(j.obs, current), ClientOK(j, mode'[p], ring'[p], cached'[p]),
         PackOK(j, mode'[p], ring'[p], current, packs), RootOK(j, baseline'[p].pubs),
         AcceptOK(j, current, opened), CleanupOK(j, current),
         Unsent(j) \cap RootIDs(current) = {}
  PROVE  EncryptionInv'
<1>1. ClientsOK'
  <2>1. ASSUME NEW q \in Procs
        PROVE  /\ (mode[q] = "encrypted" => current.ver # 0)'
               /\ (mode[q] # "encrypted" => cached[q] = {})'
    <3>1. CASE q = p
      BY <3>1
    <3>2. CASE q # p
      BY <3>2 DEF EncryptionInv, ClientsOK
    <3> QED BY <3>1, <3>2
  <2>2. \A q \in Procs : (record[q] \in opened \cup {NoSecret})'
    BY DEF EncryptionInv, ClientsOK
  <2> QED BY <2>1, <2>2 DEF ClientsOK
<1>2. LeavesOthers(p) /\ KeepsPacks
  BY DEF LeavesOthers, KeepsPacks
<1>3. current.roots \subseteq packs' /\ fresh <= fresh'
  BY EncryptionAssumption DEF EncryptionInv, CurrentOK, RootsReadable, TypeOK
<1> QED BY <1>1, <1>2, <1>3, StillStep

\* The same step when the job ends.
LEMMA ClientEnds ==
  ASSUME EncryptionInv, NEW p \in Procs, Become(p, Idle),
         UNCHANGED <<current, packs, record, fresh, opened>>, TypeRest',
         \A q \in Procs \ {p} : /\ mode'[q] = mode[q] /\ ring'[q] = ring[q]
                                /\ cached'[q] = cached[q] /\ baseline'[q] = baseline[q],
         mode'[p] = "encrypted" => current.ver # 0,
         mode'[p] # "encrypted" => cached'[p] = {}
  PROVE  EncryptionInv'
<1>1. CurrentOK /\ current \in Currents
  BY DEF EncryptionInv, TypeOK
<1>2. job' = [job EXCEPT ![p] = Idle]
  BY DEF Become
<1> QED BY <1>1, <1>2, IdleRelies, ClientStep

\* A current with a key exists.
LEMMA SealedExists ==
  ASSUME EncryptionInv, current.key # Plain
  PROVE  current.ver # 0
BY IdleFields DEF EncryptionInv, CurrentOK

\* What a client takes for a key is a number.
LEMMA ResolvedKeys ==
  ASSUME EncryptionInv, NEW p \in Procs, NEW secrets
  PROVE  /\ Unwrapped(secrets, current.doors) \subseteq Nat
         /\ ResolveKey(ring[p], secrets, current.doors) \subseteq Nat
<1>1. current.doors \subseteq Doors /\ ring[p] \in Nat
  BY CurrentFields DEF EncryptionInv, TypeOK
<1>2. \A d \in Doors : d.key \in Nat
  BY DEF Doors
<1> QED BY <1>1, <1>2 DEF Unwrapped, ResolveKey

\* AskForSecret
LEMMA AskForSecretStep ==
  ASSUME EncryptionInv, NEW p \in Procs, NEW s \in Pass, AskForSecret(p, s)
  PROVE  EncryptionInv'
<1> DEFINE j == job[p]
<1>1. j \in Jobs /\ JobOK(p) /\ job' = [job EXCEPT ![p] = j]
  BY DEF EncryptionInv, TypeOK, AskForSecret
<1>2. /\ UNCHANGED <<current, packs, baseline, pulled, record, ring, mode, cached, fresh, opened>>
      /\ cand' = [cand EXCEPT ![p] = {s}]
  BY DEF AskForSecret, durable
<1>3. {s} \in SUBSET Secrets
  BY DEF Secrets
<1>4. TypeRest'
  BY <1>2, <1>3 DEF EncryptionInv, TypeOK, TypeRest
<1>5. (mode[p] = "encrypted" => current.ver # 0) /\ (mode[p] # "encrypted" => cached[p] = {})
  BY DEF EncryptionInv, ClientsOK
<1> QED BY <1>1, <1>2, <1>4, <1>5, ClientStep DEF JobOK

\* CacheMode and a ring update keep the types and the other clients.
LEMMA CacheFields ==
  ASSUME TypeRest, NEW p \in Procs, NEW m \in {"unresolved", "plaintext", "encrypted"},
         NEW doors \in SUBSET Doors, NEW k \in Nat, CacheMode(p, m, doors),
         ring' = [ring EXCEPT ![p] = k]
  PROVE  /\ mode' \in [Procs -> {"unresolved", "plaintext", "encrypted"}]
         /\ cached' \in [Procs -> SUBSET Doors] /\ ring' \in [Procs -> Nat]
         /\ mode'[p] = m /\ cached'[p] = doors /\ ring'[p] = k
         /\ \A q \in Procs \ {p} : mode'[q] = mode[q] /\ ring'[q] = ring[q] /\ cached'[q] = cached[q]
<1>1. /\ mode \in [Procs -> {"unresolved", "plaintext", "encrypted"}]
      /\ cached \in [Procs -> SUBSET Doors] /\ ring \in [Procs -> Nat]
  BY DEF TypeRest
<1>2. mode' = [mode EXCEPT ![p] = m] /\ cached' = [cached EXCEPT ![p] = doors]
  BY DEF CacheMode
<1>3. /\ mode' \in [Procs -> {"unresolved", "plaintext", "encrypted"}] /\ mode'[p] = m
      /\ \A q \in Procs \ {p} : mode'[q] = mode[q]
  BY <1>1, <1>2
<1>4. /\ cached' \in [Procs -> SUBSET Doors] /\ cached'[p] = doors
      /\ \A q \in Procs \ {p} : cached'[q] = cached[q]
  BY <1>1, <1>2
<1>5. /\ ring' \in [Procs -> Nat] /\ ring'[p] = k
      /\ \A q \in Procs \ {p} : ring'[q] = ring[q]
  BY <1>1
<1> QED BY <1>3, <1>4, <1>5

\* The types again, for the steps above.
LEMMA RestOfTypes ==
  ASSUME EncryptionInv
  PROVE  TypeRest
BY DEF EncryptionInv, TypeOK, TypeRest

\* ReadCurrent: the client that goes on loading has cached what it read.
LEMMA ReadCurrentStep ==
  ASSUME EncryptionInv, NEW p \in Procs, ReadCurrent(p)
  PROVE  EncryptionInv'
<1> DEFINE j == job[p]
           k == [j EXCEPT !.pc = "load", !.obs = current]
<1>1. /\ j \in Jobs /\ current \in Currents /\ CurrentOK /\ TypeRest
      /\ ring \in [Procs -> Nat]
      /\ (mode[p] = "encrypted" => current.ver # 0) /\ (mode[p] # "encrypted" => cached[p] = {})
  BY RestOfTypes DEF EncryptionInv, TypeOK, ClientsOK
<1>2. UNCHANGED <<current, packs, baseline, pulled, record, cand, fresh, opened>>
  BY DEF ReadCurrent, durable
<1>3. k \in Jobs /\ k.pc = "load" /\ k.obs = current
  BY <1>1 DEF Jobs, Pcs
<1>4. /\ Claims(k) = {} /\ Unsent(k) = {} /\ Observed(k.obs, current)
      /\ RootOK(k, baseline'[p].pubs) /\ AcceptOK(k, current, opened) /\ CleanupOK(k, current)
      /\ PackOK(k, mode'[p], ring'[p], current, packs)
  BY <1>1, <1>3, CurrentFields
     DEF Claims, Unsent, Observed, RootOK, AcceptOK, CleanupOK, PackOK
<1> HIDE DEF k
<1>5. CASE /\ current.ver = 0
           /\ Become(p, k)
           /\ UNCHANGED <<ring, mode, cached>>
  <2>1. job' = [job EXCEPT ![p] = k]
    BY <1>5 DEF Become
  <2>2. TypeRest'
    BY <1>1, <1>2, <1>5 DEF TypeRest
  <2>3. ClientOK(k, mode'[p], ring'[p], cached'[p])
    BY <1>3, <1>5 DEF ClientOK
  <2> QED BY <1>1, <1>2, <1>3, <1>4, <1>5, <2>1, <2>2, <2>3, ClientStep
<1>6. CASE /\ current.ver # 0 /\ current.key = Plain
           /\ CacheMode(p, "plaintext", {})
           /\ Become(p, k)
           /\ UNCHANGED ring
  <2>1. job' = [job EXCEPT ![p] = k]
    BY <1>6 DEF Become
  <2>2. ring' = [ring EXCEPT ![p] = ring[p]] /\ ring[p] \in Nat
    BY <1>1, <1>6
  <2>3. /\ mode' \in [Procs -> {"unresolved", "plaintext", "encrypted"}]
        /\ cached' \in [Procs -> SUBSET Doors] /\ ring' \in [Procs -> Nat]
        /\ mode'[p] = "plaintext" /\ cached'[p] = {}
        /\ \A q \in Procs \ {p} : mode'[q] = mode[q] /\ ring'[q] = ring[q] /\ cached'[q] = cached[q]
    <3>1. TypeRest /\ CacheMode(p, "plaintext", {})
      BY <1>1, <1>6
    <3> QED BY <2>2, <3>1, CacheFields
  <2>4. TypeRest'
    BY <1>1, <1>2, <2>3 DEF TypeRest
  <2>5. ClientOK(k, mode'[p], ring'[p], cached'[p])
    BY <1>3, <1>6, <2>3 DEF ClientOK
  <2> QED BY <1>2, <1>3, <1>4, <2>1, <2>3, <2>4, <2>5, ClientStep
<1>7. CASE Refused(p) /\ UNCHANGED ring
  <2>1. Become(p, Idle) /\ UNCHANGED <<mode, cached, ring>>
    BY <1>7 DEF Refused
  <2>2. TypeRest'
    BY <1>1, <1>2, <2>1 DEF TypeRest
  <2> QED BY <1>1, <1>2, <2>1, <2>2, ClientEnds
<1>8. CASE /\ current.key # Plain
           /\ \E key \in ResolveKey(ring[p], cand[p], current.doors) :
                /\ ring' = [ring EXCEPT ![p] = key]
                /\ IF Opens(key, current)
                   THEN CacheMode(p, "encrypted", current.doors) /\ Become(p, k)
                   ELSE Refused(p)
  <2>1. PICK key \in ResolveKey(ring[p], cand[p], current.doors) :
          /\ ring' = [ring EXCEPT ![p] = key]
          /\ IF Opens(key, current)
             THEN CacheMode(p, "encrypted", current.doors) /\ Become(p, k)
             ELSE Refused(p)
    BY <1>8
  <2>2. key \in Nat /\ current.ver # 0 /\ current.doors \in SUBSET Doors
    BY <1>1, <1>8, ResolvedKeys, SealedExists, CurrentFields
  <2>3. CASE Opens(key, current)
    <3>1. job' = [job EXCEPT ![p] = k] /\ CacheMode(p, "encrypted", current.doors) /\ current.key = key
      BY <2>1, <2>3 DEF Become, Opens
    <3>2. /\ mode' \in [Procs -> {"unresolved", "plaintext", "encrypted"}]
          /\ cached' \in [Procs -> SUBSET Doors] /\ ring' \in [Procs -> Nat]
          /\ mode'[p] = "encrypted" /\ cached'[p] = current.doors /\ ring'[p] = key
          /\ \A q \in Procs \ {p} : mode'[q] = mode[q] /\ ring'[q] = ring[q] /\ cached'[q] = cached[q]
      BY <1>1, <2>1, <2>2, <3>1, CacheFields
    <3>3. TypeRest'
      BY <1>1, <1>2, <3>2 DEF TypeRest
    <3>4. ClientOK(k, mode'[p], ring'[p], cached'[p])
      BY <1>3, <1>8, <3>1, <3>2 DEF ClientOK
    <3> QED BY <1>2, <1>3, <1>4, <2>2, <3>1, <3>2, <3>3, <3>4, ClientStep
  <2>4. CASE ~Opens(key, current)
    <3>1. Become(p, Idle) /\ UNCHANGED <<mode, cached>>
      BY <2>1, <2>4 DEF Refused
    <3>2. ring' \in [Procs -> Nat] /\ \A q \in Procs \ {p} : ring'[q] = ring[q]
      BY <1>1, <2>1, <2>2
    <3>3. TypeRest'
      BY <1>1, <1>2, <3>1, <3>2 DEF TypeRest
    <3> QED BY <1>1, <1>2, <3>1, <3>2, <3>3, ClientEnds
  <2> QED BY <2>3, <2>4
<1> QED BY <1>5, <1>6, <1>7, <1>8 DEF ReadCurrent, k

\* EnsureMode: only a client that read no current has no mode yet.
LEMMA EnsureModeStep ==
  ASSUME EncryptionInv, NEW p \in Procs, EnsureMode(p)
  PROVE  EncryptionInv'
<1> DEFINE j == job[p]
<1>1. /\ j \in Jobs /\ current \in Currents /\ CurrentOK /\ TypeRest /\ JobOK(p)
      /\ ring \in [Procs -> Nat] /\ j.pc = "upload"
      /\ (mode[p] = "encrypted" => current.ver # 0) /\ (mode[p] # "encrypted" => cached[p] = {})
  BY RestOfTypes DEF EncryptionInv, TypeOK, ClientsOK, EnsureMode
<1>2. UNCHANGED <<current, packs, baseline, pulled, record, cand, fresh, opened>>
  BY DEF EnsureMode, durable
<1>3. j.obs.ver = 0
  BY <1>1 DEF JobOK, ClientOK, EnsureMode
<1>4. /\ ClientOK(j, mode'[p], ring'[p], cached'[p])
      /\ PackOK(j, mode'[p], ring'[p], current, packs)
  BY <1>1, <1>3 DEF ClientOK, PackOK
<1>5. job' = job => job' = [job EXCEPT ![p] = j]
  BY DEF EncryptionInv, TypeOK
<1>6. /\ Observed(j.obs, current) /\ RootOK(j, baseline'[p].pubs)
      /\ AcceptOK(j, current, opened) /\ CleanupOK(j, current)
      /\ Unsent(j) \cap RootIDs(current) = {}
  BY <1>1, <1>2 DEF JobOK
<1> HIDE DEF j
<1>7. CASE current.key = Plain /\ CacheMode(p, "plaintext", {}) /\ UNCHANGED <<ring, job>>
  <2>1. ring' = [ring EXCEPT ![p] = ring[p]] /\ ring[p] \in Nat
    BY <1>1, <1>7
  <2>4. /\ CacheMode(p, "plaintext", {}) /\ TypeRest /\ {} \in SUBSET Doors
        /\ "plaintext" \in {"unresolved", "plaintext", "encrypted"}
    BY <1>1, <1>7
  <2>2. /\ mode' \in [Procs -> {"unresolved", "plaintext", "encrypted"}]
        /\ cached' \in [Procs -> SUBSET Doors] /\ ring' \in [Procs -> Nat]
        /\ mode'[p] = "plaintext" /\ cached'[p] = {}
        /\ \A q \in Procs \ {p} : mode'[q] = mode[q] /\ ring'[q] = ring[q] /\ cached'[q] = cached[q]
    BY <2>1, <2>4, CacheFields
  <2>3. TypeRest'
    BY <1>1, <1>2, <2>2 DEF TypeRest
  <2> QED BY <1>1, <1>2, <1>4, <1>5, <1>6, <1>7, <2>2, <2>3, ClientStep DEF j
<1>8. CASE Refused(p) /\ UNCHANGED ring
  <2>1. Become(p, Idle) /\ UNCHANGED <<mode, cached, ring>>
    BY <1>8 DEF Refused
  <2>2. TypeRest'
    BY <1>1, <1>2, <2>1 DEF TypeRest
  <2> QED BY <1>1, <1>2, <2>1, <2>2, ClientEnds
<1>9. CASE /\ \E k \in Unwrapped(cand[p], current.doors) : ring' = [ring EXCEPT ![p] = k]
           /\ CacheMode(p, "encrypted", current.doors)
           /\ UNCHANGED job
  <2>1. PICK k \in Unwrapped(cand[p], current.doors) : ring' = [ring EXCEPT ![p] = k]
    BY <1>9
  <2>2. k \in Nat /\ current.doors \in SUBSET Doors /\ current.doors # {}
    BY <1>1, ResolvedKeys, CurrentFields DEF Unwrapped
  <2>3. current.ver # 0
    BY <1>1, <2>2, IdleFields DEF CurrentOK
  <2>4. /\ mode' \in [Procs -> {"unresolved", "plaintext", "encrypted"}]
        /\ cached' \in [Procs -> SUBSET Doors] /\ ring' \in [Procs -> Nat]
        /\ mode'[p] = "encrypted"
        /\ \A q \in Procs \ {p} : mode'[q] = mode[q] /\ ring'[q] = ring[q] /\ cached'[q] = cached[q]
    BY <1>1, <1>9, <2>1, <2>2, CacheFields
  <2>5. TypeRest'
    BY <1>1, <1>2, <2>4 DEF TypeRest
  <2> QED BY <1>1, <1>2, <1>4, <1>5, <1>6, <1>9, <2>3, <2>4, <2>5, ClientStep DEF j
<1> QED BY <1>7, <1>8, <1>9 DEF EnsureMode

\* ClientLookup
LEMMA ClientLookupStep ==
  ASSUME EncryptionInv, NEW p \in Procs, ClientLookup(p)
  PROVE  EncryptionInv'
<1> DEFINE j == job[p]
           b == [gen |-> j.obs.gen + 1, pubs |-> j.obs.pubs \cup {j.id}]
<1>1. /\ j \in Jobs /\ current \in Currents /\ CurrentOK /\ TypeRest
      /\ ring \in [Procs -> Nat] /\ baseline \in [Procs -> [gen : Nat, pubs : SUBSET Nat]]
      /\ (mode[p] = "encrypted" => current.ver # 0) /\ (mode[p] # "encrypted" => cached[p] = {})
  BY RestOfTypes DEF EncryptionInv, TypeOK, ClientsOK
<1>2. UNCHANGED <<current, packs, pulled, record, cand, fresh, opened>> /\ Become(p, Idle)
  BY DEF ClientLookup
<1>3. b \in [gen : Nat, pubs : SUBSET Nat]
  <2>1. j.obs \in Currents /\ j.id \in Nat
    BY <1>1, JobFields
  <2>2. j.obs.gen + 1 \in Nat /\ j.obs.pubs \cup {j.id} \in SUBSET Nat
    BY <2>1, CurrentFields
  <2> QED BY <2>2
<1>4. baseline' = [baseline EXCEPT ![p] = b] \/ baseline' = baseline
  <2>1. b.gen = j.obs.gen + 1 /\ b.pubs = j.obs.pubs \cup {j.id}
    OBVIOUS
  <2>2. b = [gen |-> b.gen, pubs |-> b.pubs]
    BY <2>1
  <2> HIDE DEF b
  <2> QED BY <2>1, <2>2 DEF ClientLookup, SetBaseline, b
<1> HIDE DEF b
<1>5. /\ baseline' \in [Procs -> [gen : Nat, pubs : SUBSET Nat]]
      /\ \A q \in Procs \ {p} : baseline'[q] = baseline[q]
  BY <1>1, <1>3, <1>4
<1>6. \/ /\ current.key # Plain /\ CacheMode(p, "encrypted", current.doors)
         /\ ring' = [ring EXCEPT ![p] = current.key]
      \/ current.ver # 0 /\ CacheMode(p, "plaintext", {}) /\ UNCHANGED ring
      \/ UNCHANGED <<mode, cached, ring>>
  BY DEF ClientLookup
<1>7. CASE /\ current.key # Plain /\ CacheMode(p, "encrypted", current.doors)
           /\ ring' = [ring EXCEPT ![p] = current.key]
  <2>1. current.ver # 0 /\ current.doors \in SUBSET Doors /\ current.key \in Nat
    BY <1>1, <1>7, SealedExists, CurrentFields
  <2>2. /\ CacheMode(p, "encrypted", current.doors)
        /\ "encrypted" \in {"unresolved", "plaintext", "encrypted"}
    BY <1>7
  <2>3. /\ mode' \in [Procs -> {"unresolved", "plaintext", "encrypted"}]
        /\ cached' \in [Procs -> SUBSET Doors] /\ ring' \in [Procs -> Nat]
        /\ mode'[p] = "encrypted"
        /\ \A q \in Procs \ {p} : mode'[q] = mode[q] /\ ring'[q] = ring[q] /\ cached'[q] = cached[q]
    BY <1>1, <1>7, <2>1, <2>2, CacheFields
  <2>4. TypeRest'
    BY <1>1, <1>2, <1>5, <2>3 DEF TypeRest
  <2> QED BY <1>2, <1>5, <2>1, <2>3, <2>4, ClientEnds
<1>8. CASE current.ver # 0 /\ CacheMode(p, "plaintext", {}) /\ UNCHANGED ring
  <2>1. ring' = [ring EXCEPT ![p] = ring[p]] /\ ring[p] \in Nat
    BY <1>1, <1>8
  <2>2. /\ CacheMode(p, "plaintext", {}) /\ {} \in SUBSET Doors
        /\ "plaintext" \in {"unresolved", "plaintext", "encrypted"}
    BY <1>8
  <2>3. /\ mode' \in [Procs -> {"unresolved", "plaintext", "encrypted"}]
        /\ cached' \in [Procs -> SUBSET Doors] /\ ring' \in [Procs -> Nat]
        /\ mode'[p] = "plaintext" /\ cached'[p] = {}
        /\ \A q \in Procs \ {p} : mode'[q] = mode[q] /\ ring'[q] = ring[q] /\ cached'[q] = cached[q]
    BY <1>1, <2>1, <2>2, CacheFields
  <2>4. TypeRest'
    BY <1>1, <1>2, <1>5, <2>3 DEF TypeRest
  <2> QED BY <1>2, <1>5, <2>3, <2>4, ClientEnds
<1>9. CASE UNCHANGED <<mode, cached, ring>>
  <2>1. TypeRest'
    BY <1>1, <1>2, <1>5, <1>9 DEF TypeRest
  <2> QED BY <1>1, <1>2, <1>5, <1>9, <2>1, ClientEnds
<1> QED BY <1>6, <1>7, <1>8, <1>9

\* Restart
LEMMA RestartStep ==
  ASSUME EncryptionInv, NEW p \in Procs, Restart(p)
  PROVE  EncryptionInv'
<1> DEFINE j == job[p]
<1>1. /\ j \in Jobs /\ JobOK(p) /\ TypeRest /\ j.pc = "idle" /\ job' = [job EXCEPT ![p] = j]
      /\ cand \in [Procs -> SUBSET Secrets]
  BY RestOfTypes DEF EncryptionInv, TypeOK, Restart
<1>2. /\ UNCHANGED <<current, packs, baseline, pulled, record, fresh, opened>>
      /\ CacheMode(p, "unresolved", {}) /\ ring' = [ring EXCEPT ![p] = Plain]
      /\ cand' = [cand EXCEPT ![p] = Resolve(p)]
  BY DEF Restart, durable
<1>3. Plain \in Nat /\ {} \in SUBSET Doors /\ "unresolved" \in {"unresolved", "plaintext", "encrypted"}
  BY DEF Plain
<1>4. /\ mode' \in [Procs -> {"unresolved", "plaintext", "encrypted"}]
      /\ cached' \in [Procs -> SUBSET Doors] /\ ring' \in [Procs -> Nat]
      /\ mode'[p] = "unresolved" /\ cached'[p] = {}
      /\ \A q \in Procs \ {p} : mode'[q] = mode[q] /\ ring'[q] = ring[q] /\ cached'[q] = cached[q]
  BY <1>1, <1>2, <1>3, CacheFields
<1>5. Resolve(p) \in SUBSET Secrets
  <2>1. Env[p] \in Secrets /\ record[p] \in Secrets
    BY <1>1, EncryptionAssumption DEF TypeRest, Secrets
  <2> QED BY <2>1 DEF Resolve
<1>6. cand' \in [Procs -> SUBSET Secrets]
  BY <1>1, <1>2, <1>5
<1>7. TypeRest'
  BY <1>1, <1>2, <1>4, <1>6 DEF TypeRest
<1>8. ClientOK(j, mode'[p], ring'[p], cached'[p]) /\ PackOK(j, mode'[p], ring'[p], current, packs)
  BY <1>1 DEF ClientOK, PackOK
<1>9. /\ Observed(j.obs, current) /\ RootOK(j, baseline'[p].pubs)
      /\ AcceptOK(j, current, opened) /\ CleanupOK(j, current)
      /\ Unsent(j) \cap RootIDs(current) = {}
  BY <1>1, <1>2 DEF JobOK
<1> QED BY <1>1, <1>2, <1>4, <1>7, <1>8, <1>9, ClientStep

-----------------------------------------------------------------------------
(* Steps that move a baseline.                                              *)

\* The new baseline is well typed and the others stay.
LEMMA BaselineFields ==
  ASSUME baseline \in [Procs -> [gen : Nat, pubs : SUBSET Nat]], NEW p \in Procs,
         NEW c, c.gen \in Nat, c.pubs \in SUBSET Nat, SetBaseline(p, c)
  PROVE  /\ baseline' \in [Procs -> [gen : Nat, pubs : SUBSET Nat]]
         /\ \A q \in Procs \ {p} : baseline'[q] = baseline[q]
<1> DEFINE b == [gen |-> c.gen, pubs |-> c.pubs]
<1>1. b \in [gen : Nat, pubs : SUBSET Nat]
  OBVIOUS
<1>2. baseline' = [baseline EXCEPT ![p] = b]
  BY DEF SetBaseline
<1> HIDE DEF b
<1> QED BY <1>1, <1>2

\* ClientLoad
LEMMA ClientLoadStep ==
  ASSUME EncryptionInv, NEW p \in Procs, ClientLoad(p)
  PROVE  EncryptionInv'
<1> DEFINE j == job[p]
           k == [j EXCEPT !.pc = "upload"]
<1>1. /\ j \in Jobs /\ JobOK(p) /\ TypeRest /\ j.pc = "load"
      /\ baseline \in [Procs -> [gen : Nat, pubs : SUBSET Nat]] /\ pulled \in [Procs -> BOOLEAN]
      /\ (mode[p] = "encrypted" => current.ver # 0) /\ (mode[p] # "encrypted" => cached[p] = {})
  BY RestOfTypes DEF EncryptionInv, TypeOK, ClientsOK, ClientLoad
<1>2. UNCHANGED <<current, packs, record, cand, ring, mode, cached, fresh, opened>>
  BY DEF ClientLoad, clientVars
<1>3. CASE Become(p, Idle) /\ UNCHANGED <<baseline, pulled>>
  BY <1>2, <1>3, EndStep DEF durable, clientVars
<1>4. CASE /\ SetBaseline(p, j.obs) /\ pulled' = [pulled EXCEPT ![p] = TRUE]
           /\ Become(p, Idle)
  <2>1. j.obs.gen \in Nat /\ j.obs.pubs \in SUBSET Nat
    BY <1>1, JobFields, CurrentFields
  <2>2. /\ baseline' \in [Procs -> [gen : Nat, pubs : SUBSET Nat]]
        /\ \A q \in Procs \ {p} : baseline'[q] = baseline[q]
    BY <1>1, <1>4, <2>1, BaselineFields
  <2>3. pulled' \in [Procs -> BOOLEAN]
    BY <1>1, <1>4
  <2>4. TypeRest'
    BY <1>1, <1>2, <2>2, <2>3 DEF TypeRest
  <2> QED BY <1>1, <1>2, <1>4, <2>2, <2>4, ClientEnds
<1>5. CASE Become(p, k) /\ UNCHANGED <<baseline, pulled>>
  <2>1. k \in Jobs /\ k.pc = "upload" /\ k.obs = j.obs
    BY <1>1 DEF Jobs, Pcs
  <2>2. job' = [job EXCEPT ![p] = k]
    BY <1>5 DEF Become
  <2> HIDE DEF k
  <2>3. ClientOK(k, mode[p], ring[p], cached[p])
    BY <1>1, <2>1 DEF ClientOK, JobOK
  <2>4. /\ Observed(k.obs, current) /\ RootOK(k, baseline[p].pubs)
        /\ PackOK(k, mode[p], ring[p], current, packs) /\ AcceptOK(k, current, opened)
        /\ CleanupOK(k, current) /\ Claims(k) = {} /\ Unsent(k) = {}
    BY <1>1, <2>1 DEF JobOK, RootOK, PackOK, AcceptOK, CleanupOK, Claims, Unsent
  <2>5. UNCHANGED <<current, packs, durable, clientVars, fresh, opened>>
    BY <1>2, <1>5 DEF durable, clientVars
  <2> QED BY <2>1, <2>2, <2>3, <2>4, <2>5, QuietStep
<1> QED BY <1>3, <1>4, <1>5 DEF ClientLoad, k

\* RootRead: a rekey goes on only from the current it is based on.
LEMMA RootReadStep ==
  ASSUME EncryptionInv, NEW p \in Procs, RootRead(p)
  PROVE  EncryptionInv'
<1> DEFINE j == job[p]
           k == [j EXCEPT !.pc = "rootupload", !.obs = current]
<1>1. /\ j \in Jobs /\ JobOK(p) /\ TypeRest /\ j.pc = "rootread" /\ current \in Currents
      /\ baseline \in [Procs -> [gen : Nat, pubs : SUBSET Nat]]
      /\ (mode[p] = "encrypted" => current.ver # 0) /\ (mode[p] # "encrypted" => cached[p] = {})
  BY RestOfTypes DEF EncryptionInv, TypeOK, ClientsOK, RootRead
<1>2. UNCHANGED <<current, packs, pulled, record, cand, ring, mode, cached, fresh, opened>>
  BY DEF RootRead, clientVars
<1>3. CASE Become(p, Idle) /\ UNCHANGED baseline
  BY <1>2, <1>3, EndStep DEF durable, clientVars
<1>4. CASE SetBaseline(p, current) /\ Become(p, Idle)
  <2>1. /\ baseline' \in [Procs -> [gen : Nat, pubs : SUBSET Nat]]
        /\ \A q \in Procs \ {p} : baseline'[q] = baseline[q]
    BY <1>1, <1>4, CurrentFields, BaselineFields
  <2>2. TypeRest'
    BY <1>1, <1>2, <2>1 DEF TypeRest
  <2> QED BY <1>1, <1>2, <1>4, <2>1, <2>2, ClientEnds
<1>5. CASE RootRemote(p) /\ Become(p, k) /\ UNCHANGED baseline
  <2>1. /\ k \in Jobs /\ k.pc = "rootupload" /\ k.obs = current /\ k.op = j.op
        /\ k.doors = j.doors /\ k.key = j.key /\ k.secret = j.secret /\ k.attempt = j.attempt
    BY <1>1 DEF Jobs, Pcs
  <2>2. job' = [job EXCEPT ![p] = k]
    BY <1>5 DEF Become
  <2>3. j.op # "init" => current.pubs = baseline[p].pubs
    BY <1>5 DEF RootRemote, RekeyRemote
  <2> HIDE DEF k
  <2>4. RootOK(k, baseline[p].pubs)
    BY <1>1, <2>1, <2>3 DEF RootOK, JobOK, DoorSet
  <2>5. Claims(k) = Claims(j) /\ Unsent(k) = Unsent(j)
    BY <1>1, <2>1 DEF Claims, Unsent
  <2>6. Observed(k.obs, current) /\ ClientOK(k, mode[p], ring[p], cached[p])
    BY <1>1, <2>1, CurrentFields DEF Observed, ClientOK
  <2>7. /\ PackOK(k, mode[p], ring[p], current, packs) /\ AcceptOK(k, current, opened)
        /\ CleanupOK(k, current)
    BY <2>1 DEF PackOK, AcceptOK, CleanupOK
  <2>8. UNCHANGED <<current, packs, durable, clientVars, fresh, opened>>
    BY <1>2, <1>5 DEF durable, clientVars
  <2>9. Unsent(k) \cap RootIDs(current) = {}
    BY <1>1, <2>5 DEF JobOK
  <2> QED BY <2>1, <2>2, <2>4, <2>5, <2>6, <2>7, <2>8, <2>9, QuietStep
<1> QED BY <1>3, <1>4, <1>5 DEF RootRead, k

\* RootAccept: the cutoff is a generation that current has reached.
LEMMA RootAcceptStep ==
  ASSUME EncryptionInv, NEW p \in Procs, RootAccept(p)
  PROVE  EncryptionInv'
<1> DEFINE j == job[p]
<1>1. /\ j \in Jobs /\ JobOK(p) /\ TypeRest /\ j.pc = "accept" /\ current \in Currents
      /\ baseline \in [Procs -> [gen : Nat, pubs : SUBSET Nat]] /\ pulled \in [Procs -> BOOLEAN]
      /\ (mode[p] = "encrypted" => current.ver # 0) /\ (mode[p] # "encrypted" => cached[p] = {})
      /\ CurrentOK
  BY RestOfTypes DEF EncryptionInv, TypeOK, ClientsOK, RootAccept
<1>2. UNCHANGED <<current, packs, record, cand, ring, mode, cached, fresh, opened>>
  BY DEF RootAccept, clientVars
<1>3. PICK ok \in BOOLEAN :
        /\ IF ok THEN /\ SetBaseline(p, RootNext(p))
                      /\ pulled' = [pulled EXCEPT ![p] = TRUE]
                 ELSE UNCHANGED <<baseline, pulled>>
        /\ Become(p, [job[p] EXCEPT !.pc = "list", !.op = IF ok THEN @ ELSE "failed",
                                    !.cutoff = job[p].obs.gen + 1, !.obs = Absent,
                                    !.doors = {}, !.id = 0])
  BY DEF RootAccept
<1> DEFINE k == [j EXCEPT !.pc = "list", !.op = IF ok THEN j.op ELSE "failed",
                          !.cutoff = j.obs.gen + 1, !.obs = Absent, !.doors = {}, !.id = 0]
<1>4. j.obs.gen \in Nat /\ j.obs.pubs \in SUBSET Nat /\ j.id \in Nat /\ current.gen \in Nat
  BY <1>1, JobFields, CurrentFields
<1>5. k \in Jobs /\ k.pc = "list" /\ k.cutoff = j.obs.gen + 1 /\ k.obs = Absent /\ k.secret = j.secret
  <2>1. j.obs.gen + 1 \in Nat /\ Absent \in Currents
    BY <1>4, IdleFields
  <2>2. k.pc = "list" /\ k.cutoff = j.obs.gen + 1 /\ k.obs = Absent /\ k.secret = j.secret
    BY <1>1 DEF Jobs
  <2>3. k \in Jobs
    BY <1>1, <2>1 DEF Jobs, Pcs
  <2> QED BY <2>2, <2>3
<1>6. job' = [job EXCEPT ![p] = k]
  BY <1>3 DEF Become
<1> HIDE DEF k
<1>7. /\ baseline' \in [Procs -> [gen : Nat, pubs : SUBSET Nat]]
      /\ \A q \in Procs \ {p} : baseline'[q] = baseline[q]
  <2>1. CASE ok
    <3>1. baseline[p].pubs \in SUBSET Nat
      BY <1>1
    <3>2. RootNext(p).gen = j.obs.gen + 1 /\ RootNext(p).pubs = RootPubs(p)
      BY DEF RootNext
    <3>3. RootPubs(p) \in SUBSET Nat
      BY <1>4, <3>1 DEF RootPubs
    <3> QED BY <1>1, <1>3, <1>4, <2>1, <3>2, <3>3, BaselineFields
  <2>2. CASE ~ok
    BY <1>1, <1>3, <2>2
  <2> QED BY <2>1, <2>2
<1>8. pulled' \in [Procs -> BOOLEAN]
  BY <1>1, <1>3
<1>9. TypeRest'
  BY <1>1, <1>2, <1>7, <1>8 DEF TypeRest
<1>10. AcceptOK(k, current, opened) /\ CleanupOK(k, current)
  BY <1>1, <1>4, <1>5 DEF AcceptOK, CleanupOK, JobOK
<1> QED BY <1>1, <1>2, <1>5, <1>6, <1>7, <1>9, <1>10, RestRelies, ClientStep

\* RecordChange: the secret of a reported job opened an accepted current.
LEMMA RecordChangeStep ==
  ASSUME EncryptionInv, NEW p \in Procs, RecordChange(p)
  PROVE  EncryptionInv'
<1> DEFINE j == job[p]
<1>1. /\ j \in Jobs /\ JobOK(p) /\ TypeRest /\ j.pc = "report" /\ j.op # "failed"
      /\ record \in [Procs -> Secrets] /\ CurrentOK /\ current \in Currents /\ ClientsOK
      /\ packs = packs'
  BY RestOfTypes DEF EncryptionInv, TypeOK, RecordChange, MayRecord
<1>2. /\ UNCHANGED <<current, packs, baseline, pulled, cand, ring, mode, cached, fresh, opened>>
      /\ job' = [job EXCEPT ![p] = Idle]
  BY DEF RecordChange, Become, clientVars
<1>3. PICK s \in {j.secret, NoSecret} : record' = [record EXCEPT ![p] = s]
  BY DEF RecordChange
<1>4. s \in Secrets /\ s \in opened \cup {NoSecret}
  BY <1>1, JobFields DEF JobOK, AcceptOK, Secrets
<1>5. /\ record' \in [Procs -> Secrets] /\ record'[p] = s
      /\ \A q \in Procs \ {p} : record'[q] = record[q]
  BY <1>1, <1>3, <1>4
<1>6. TypeRest'
  BY <1>1, <1>2, <1>5 DEF TypeRest
<1>7. ClientsOK'
  <2>1. \A q \in Procs : record'[q] \in opened \cup {NoSecret}
    BY <1>1, <1>4, <1>5 DEF ClientsOK
  <2> QED BY <1>1, <1>2, <2>1 DEF ClientsOK
<1>8. LeavesOthers(p) /\ KeepsPacks /\ current.roots \subseteq packs' /\ fresh <= fresh'
  BY <1>1, <1>2, <1>5, EncryptionAssumption
     DEF LeavesOthers, KeepsPacks, CurrentOK, RootsReadable, EncryptionInv, TypeOK
<1> QED BY <1>1, <1>2, <1>6, <1>7, <1>8, IdleRelies, StillStep

-----------------------------------------------------------------------------
(* Steps that draw a number or move packs.                                  *)

\* A step that moves only the packs, the draws and the job.
LEMMA PackStep ==
  ASSUME EncryptionInv, NEW p \in Procs, NEW j \in Jobs, job' = [job EXCEPT ![p] = j],
         UNCHANGED <<current, durable, clientVars, opened>>,
         fresh' \in 0 .. MaxFresh, fresh <= fresh', packs' \subseteq PackObjects,
         KeepsPacks, current.roots \subseteq packs',
         Claims(j) \subseteq Claims(job[p]) \cup (fresh + 1 .. fresh'),
         Observed(j.obs, current), ClientOK(j, mode[p], ring[p], cached[p]),
         PackOK(j, mode[p], ring[p], current, packs'), RootOK(j, baseline[p].pubs),
         AcceptOK(j, current, opened), CleanupOK(j, current),
         Unsent(j) \cap RootIDs(current) = {}
  PROVE  EncryptionInv'
<1>1. UNCHANGED <<current, baseline, pulled, record, cand, ring, mode, cached, opened>>
  BY DEF durable, clientVars
<1>2. TypeRest'
  BY <1>1, RestOfTypes DEF TypeRest
<1>3. ClientsOK'
  BY <1>1 DEF EncryptionInv, ClientsOK
<1>4. LeavesOthers(p)
  BY <1>1 DEF LeavesOthers
<1> QED BY <1>1, <1>2, <1>3, <1>4, StillStep

\* ClientUpload: the pack is stored before the CAS that references it.
LEMMA ClientUploadStep ==
  ASSUME EncryptionInv, NEW p \in Procs, ClientUpload(p)
  PROVE  EncryptionInv'
<1> DEFINE j == job[p]
           k == [j EXCEPT !.pc = "cas", !.id = fresh + 1]
           new == [gen |-> j.obs.gen + 1, id |-> fresh + 1, key |-> SealKey(p)]
<1>1. /\ j \in Jobs /\ JobOK(p) /\ j.pc = "upload" /\ current \in Currents /\ CurrentOK
      /\ fresh \in Nat /\ packs \subseteq PackObjects /\ MaxFresh \in Nat
      /\ ring[p] \in Nat
  BY EncryptionAssumption DEF EncryptionInv, TypeOK, ClientUpload
<1>2. /\ packs' = packs \cup {new} /\ job' = [job EXCEPT ![p] = k]
      /\ UNCHANGED <<current, durable, clientVars, opened>>
      /\ fresh + 1 <= MaxFresh /\ fresh' = fresh + 1
  BY DEF ClientUpload, Become, Draw
<1>3. j.obs.gen \in Nat /\ SealKey(p) \in Nat
  BY <1>1, JobFields, CurrentFields DEF SealKey, Plain
<1>4. new \in PackObjects
  BY <1>1, <1>3 DEF PackObjects
<1>5. k \in Jobs /\ k.pc = "cas" /\ k.id = fresh + 1 /\ k.obs = j.obs
  <2>1. fresh + 1 \in Nat
    BY <1>1
  <2> QED BY <1>1, <2>1 DEF Jobs, Pcs
<1>6. Uploaded(k.obs, k.id, Seal(mode[p], ring[p])) = new
  BY <1>5 DEF Uploaded, Seal, SealKey
<1> HIDE DEF k, new
<1>7. PackOK(k, mode[p], ring[p], current, packs')
  BY <1>2, <1>5, <1>6 DEF PackOK
<1>8. ClientOK(k, mode[p], ring[p], cached[p]) /\ Observed(k.obs, current)
  BY <1>1, <1>5 DEF ClientOK, JobOK
<1>9. RootOK(k, baseline[p].pubs) /\ AcceptOK(k, current, opened) /\ CleanupOK(k, current)
  BY <1>5 DEF RootOK, AcceptOK, CleanupOK
<1>10. Claims(k) = {fresh + 1} /\ Unsent(k) = {fresh + 1}
  BY <1>5 DEF Claims, Unsent
<1>11. /\ Claims(k) \subseteq fresh + 1 .. fresh' /\ Unsent(k) \cap RootIDs(current) = {}
       /\ fresh' \in 0 .. MaxFresh /\ fresh <= fresh'
  BY <1>1, <1>2, <1>10 DEF CurrentOK
<1>12. KeepsPacks /\ current.roots \subseteq packs' /\ packs' \subseteq PackObjects
  BY <1>1, <1>2, <1>4 DEF KeepsPacks, CurrentOK, RootsReadable
<1> QED BY <1>2, <1>5, <1>7, <1>8, <1>9, <1>11, <1>12, PackStep

\* RootUpload
LEMMA RootUploadStep ==
  ASSUME EncryptionInv, NEW p \in Procs, RootUpload(p)
  PROVE  EncryptionInv'
<1> DEFINE j == job[p]
           id == IF j.attempt = 1 THEN j.key ELSE fresh + 1
           k == [j EXCEPT !.pc = "rootcas", !.id = id]
           k1 == [j EXCEPT !.id = id]
<1>1. /\ j \in Jobs /\ JobOK(p) /\ j.pc = "rootupload" /\ current \in Currents /\ CurrentOK
      /\ fresh \in 0 .. MaxFresh /\ fresh \in Nat /\ packs \subseteq PackObjects /\ MaxFresh \in Nat
  BY EncryptionAssumption DEF EncryptionInv, TypeOK, RootUpload
<1>2. /\ packs' = packs \cup {RootPack(k1)} /\ job' = [job EXCEPT ![p] = k]
      /\ UNCHANGED <<current, durable, clientVars, opened>>
      /\ Draw(IF j.attempt = 1 THEN 0 ELSE 1)
  BY DEF RootUpload, Become
<1>3. id \in Nat /\ j.obs.gen \in Nat /\ j.key \in Nat
  BY <1>1, JobFields, CurrentFields
<1>4. /\ \/ j.attempt = 1 /\ fresh' = fresh /\ id = j.key
         \/ j.attempt # 1 /\ fresh' = fresh + 1 /\ id = fresh + 1
      /\ fresh' \in 0 .. MaxFresh /\ fresh <= fresh'
  <2>1. CASE j.attempt = 1
    BY <1>1, <1>2, <2>1 DEF Draw
  <2>2. CASE j.attempt # 1
    BY <1>1, <1>2, <2>2 DEF Draw
  <2> QED BY <2>1, <2>2
<1> HIDE DEF id
<1>5. /\ k \in Jobs /\ k.pc = "rootcas" /\ k.id = id /\ k.obs = j.obs /\ k.key = j.key
      /\ k.op = j.op /\ k.doors = j.doors /\ k.secret = j.secret /\ k.attempt = j.attempt
  BY <1>1, <1>3 DEF Jobs, Pcs
<1>6. RootPack(k1) = RootPack(k) /\ RootPack(k) \in PackObjects
  <2>1. k1.id = id /\ k1.obs = j.obs /\ k1.key = j.key
    BY <1>1 DEF Jobs
  <2> HIDE DEF k, k1
  <2> QED BY <1>3, <1>5, <2>1 DEF RootPack, PackObjects
<1> HIDE DEF k, k1
<1>7. PackOK(k, mode[p], ring[p], current, packs')
  BY <1>2, <1>5, <1>6 DEF PackOK
<1>8. ClientOK(k, mode[p], ring[p], cached[p]) /\ Observed(k.obs, current)
  BY <1>1, <1>5 DEF ClientOK, JobOK
<1>9. AcceptOK(k, current, opened) /\ CleanupOK(k, current)
  BY <1>5 DEF AcceptOK, CleanupOK
<1>10. RootOK(k, baseline[p].pubs)
  BY <1>1, <1>5 DEF RootOK, JobOK, DoorSet
<1>11. Claims(k) = {id} /\ Unsent(k) = {id}
  BY <1>5 DEF Claims, Unsent
<1>12. /\ Claims(k) \subseteq Claims(j) \cup (fresh + 1 .. fresh')
       /\ Unsent(k) \cap RootIDs(current) = {}
  <2>1. CASE j.attempt = 1
    <3>1. Unsent(j) = {j.key} /\ id = j.key
      BY <1>1, <1>4, <2>1 DEF Unsent
    <3> QED BY <1>1, <1>11, <3>1 DEF JobOK, Claims
  <2>2. CASE j.attempt # 1
    BY <1>1, <1>4, <1>11, <2>2 DEF CurrentOK
  <2> QED BY <2>1, <2>2
<1>13. KeepsPacks /\ current.roots \subseteq packs' /\ packs' \subseteq PackObjects
  BY <1>1, <1>2, <1>6 DEF KeepsPacks, CurrentOK, RootsReadable
<1> QED BY <1>2, <1>4, <1>5, <1>7, <1>8, <1>9, <1>10, <1>12, <1>13, PackStep

\* CleanupDelete: what it deletes is old and unreferenced.
LEMMA CleanupDeleteStep ==
  ASSUME EncryptionInv, NEW p \in Procs, CleanupDelete(p)
  PROVE  EncryptionInv'
<1> DEFINE j == job[p]
           k == Reported(j)
<1>1. /\ j \in Jobs /\ JobOK(p) /\ j.pc = "delete" /\ current \in Currents /\ CurrentOK
      /\ fresh \in 0 .. MaxFresh /\ packs \subseteq PackObjects /\ MaxFresh \in Nat
      /\ fresh' = fresh
  BY EncryptionAssumption DEF EncryptionInv, TypeOK, CleanupDelete
<1>2. PICK gone \in {j.doomed, {}} : packs' = packs \ gone
  BY DEF CleanupDelete
<1>3. job' = [job EXCEPT ![p] = k] /\ UNCHANGED <<current, durable, clientVars, opened>>
  BY DEF CleanupDelete, Become
<1>4. k \in Jobs /\ k.pc = "report" /\ k.secret = j.secret /\ k.obs = Absent
  BY <1>1, ReportedFields
<1> HIDE DEF k
<1>5. AcceptOK(k, current, opened) /\ CleanupOK(k, current)
  BY <1>1, <1>4 DEF AcceptOK, CleanupOK, JobOK
<1>6. /\ j.cutoff <= current.gen /\ (\A d \in j.doomed : d.gen <= j.cutoff)
      /\ j.doomed \cap current.roots = {}
  BY <1>1 DEF JobOK, AcceptOK, CleanupOK
<1>7. KeepsPacks
  <2>1. \A d \in PackObjects : d.gen \in Nat
    BY DEF PackObjects
  <2>2. j.cutoff \in Nat /\ current.gen \in Nat
    BY <1>1, JobFields, CurrentFields
  <2> QED BY <1>1, <1>2, <1>6, <2>1, <2>2 DEF KeepsPacks
<1>8. current.roots \subseteq packs' /\ packs' \subseteq PackObjects
  BY <1>1, <1>2, <1>6 DEF CurrentOK, RootsReadable
<1>9. fresh' \in 0 .. MaxFresh /\ fresh <= fresh'
  BY <1>1
<1> QED BY <1>1, <1>3, <1>4, <1>5, <1>7, <1>8, <1>9, RestRelies, PackStep

\* A command that draws one number and waits to read current.
LEMMA StartStep ==
  ASSUME EncryptionInv, NEW p \in Procs, NEW j \in Jobs, job' = [job EXCEPT ![p] = j],
         UNCHANGED <<current, packs, durable, clientVars, opened>>, Draw(1),
         j.pc \in {"rootread", "doorread"}, j.obs = Absent, RootOK(j, baseline[p].pubs),
         j.pc = "rootread" => j.key = fresh + 1
  PROVE  EncryptionInv'
<1>1. /\ current \in Currents /\ CurrentOK /\ fresh \in Nat /\ MaxFresh \in Nat
      /\ packs \subseteq PackObjects
  BY EncryptionAssumption DEF EncryptionInv, TypeOK
<1>2. fresh' = fresh + 1 /\ fresh' \in 0 .. MaxFresh /\ fresh <= fresh'
  BY <1>1 DEF Draw
<1>3. Claims(j) \subseteq {fresh + 1} /\ Unsent(j) \subseteq {fresh + 1}
  BY DEF Claims, Unsent
<1>4. Claims(j) \subseteq fresh + 1 .. fresh' /\ Unsent(j) \cap RootIDs(current) = {}
  BY <1>1, <1>2, <1>3 DEF CurrentOK
<1>5. /\ ClientOK(j, mode[p], ring[p], cached[p]) /\ PackOK(j, mode[p], ring[p], current, packs')
      /\ AcceptOK(j, current, opened) /\ CleanupOK(j, current)
  BY DEF ClientOK, PackOK, AcceptOK, CleanupOK
<1>6. Observed(j.obs, current)
  BY <1>1, IdleFields, CurrentFields DEF Observed, CurrentOK
<1>7. KeepsPacks /\ current.roots \subseteq packs' /\ packs' \subseteq PackObjects
  BY <1>1 DEF KeepsPacks, CurrentOK, RootsReadable
<1> QED BY <1>2, <1>4, <1>5, <1>6, <1>7, PackStep

\* The doors of a new root.
LEMMA NewDoors ==
  ASSUME NEW s \in Secrets, NEW n \in Nat, n + 1 <= MaxFresh, MaxFresh \in Nat
  PROVE  /\ NewRootDoors(s, n + 1, n + 1) \in SUBSET Doors
         /\ NewRootDoors(s, n + 1, n + 1) # {}
         /\ \A d \in NewRootDoors(s, n + 1, n + 1) : d.key = n + 1
         /\ \E d \in NewRootDoors(s, n + 1, n + 1) : d.secret = s
<1>1. n + 1 \in Nat /\ n + 1 \in 1 .. MaxFresh
  OBVIOUS
<1>2. n + 1 \in Secrets
  BY <1>1 DEF Secrets
<1>3. /\ Door("passphrase", s, n + 1) \in Doors /\ Door("recovery", n + 1, n + 1) \in Doors
      /\ Door("passphrase", s, n + 1).key = n + 1 /\ Door("recovery", n + 1, n + 1).key = n + 1
      /\ Door("passphrase", s, n + 1).secret = s
  BY <1>1, <1>2 DEF Door, Doors
<1> QED BY <1>3 DEF NewRootDoors

\* StartInit
LEMMA StartInitStep ==
  ASSUME EncryptionInv, NEW p \in Procs, StartInit(p)
  PROVE  EncryptionInv'
<1>1. PICK s \in IF Resolve(p) # {} THEN Resolve(p) ELSE Pass :
        /\ Draw(1)
        /\ Become(p, [Idle EXCEPT !.pc = "rootread", !.op = "init", !.attempt = 1,
                                  !.secret = s, !.key = fresh + 1,
                                  !.doors = NewRootDoors(s, fresh + 1, fresh + 1)])
  BY DEF StartInit
<1>2. fresh \in Nat /\ MaxFresh \in Nat /\ fresh + 1 <= MaxFresh /\ fresh + 1 # 0 /\ fresh + 1 \in Nat
  BY <1>1, EncryptionAssumption DEF EncryptionInv, TypeOK, Draw
<1>3. s \in Secrets /\ s # NoSecret
  <2>1. Env[p] \in Secrets /\ record[p] \in Secrets
    BY EncryptionAssumption DEF EncryptionInv, TypeOK, Secrets
  <2> QED BY <2>1, EncryptionAssumption DEF Resolve, Secrets
<1> DEFINE ds == NewRootDoors(s, fresh + 1, fresh + 1)
           k == [Idle EXCEPT !.pc = "rootread", !.op = "init", !.attempt = 1,
                             !.secret = s, !.key = fresh + 1, !.doors = ds]
<1>4. /\ ds \in SUBSET Doors /\ ds # {} /\ (\A d \in ds : d.key = fresh + 1)
      /\ \E d \in ds : d.secret = s
  BY <1>2, <1>3, NewDoors
<1>5. job' = [job EXCEPT ![p] = k] /\ UNCHANGED <<current, packs, durable, clientVars, opened>>
  BY <1>1 DEF Become, StartInit
<1> HIDE DEF ds
<1>6. /\ k \in Jobs /\ k.pc = "rootread" /\ k.op = "init" /\ k.attempt = 1 /\ k.secret = s
      /\ k.key = fresh + 1 /\ k.doors = ds /\ k.obs = Absent
  BY <1>2, <1>3, <1>4, IdleFields DEF Jobs, Pcs
<1> HIDE DEF k
<1>7. RootOK(k, baseline[p].pubs)
  BY <1>2, <1>3, <1>4, <1>6 DEF RootOK, DoorSet, Plain
<1> QED BY <1>1, <1>5, <1>6, <1>7, StartStep

\* StartRekey
LEMMA StartRekeyStep ==
  ASSUME EncryptionInv, NEW p \in Procs, StartRekey(p)
  PROVE  EncryptionInv'
<1>1. PICK k0 \in Keys, s0 \in Secrets, t \in Secrets \ {NoSecret} :
        /\ Draw(1)
        /\ Become(p, [Idle EXCEPT !.pc = "rootread", !.op = "rekey", !.attempt = 1,
                                  !.secret = t, !.key = fresh + 1, !.open = k0,
                                  !.doors = NewRootDoors(t, fresh + 1, fresh + 1)])
  BY DEF StartRekey
<1>2. fresh \in Nat /\ MaxFresh \in Nat /\ fresh + 1 <= MaxFresh /\ fresh + 1 # 0 /\ fresh + 1 \in Nat
  BY <1>1, EncryptionAssumption DEF EncryptionInv, TypeOK, Draw
<1> DEFINE ds == NewRootDoors(t, fresh + 1, fresh + 1)
           k == [Idle EXCEPT !.pc = "rootread", !.op = "rekey", !.attempt = 1,
                             !.secret = t, !.key = fresh + 1, !.open = k0, !.doors = ds]
<1>4. /\ ds \in SUBSET Doors /\ ds # {} /\ (\A d \in ds : d.key = fresh + 1)
      /\ \E d \in ds : d.secret = t
  BY <1>2, NewDoors
<1>5. job' = [job EXCEPT ![p] = k] /\ UNCHANGED <<current, packs, durable, clientVars, opened>>
  BY <1>1 DEF Become, StartRekey
<1>3. k0 \in Nat
  BY <1>2 DEF Keys
<1> HIDE DEF ds
<1>6. /\ k \in Jobs /\ k.pc = "rootread" /\ k.op = "rekey" /\ k.attempt = 1 /\ k.secret = t
      /\ k.key = fresh + 1 /\ k.doors = ds /\ k.obs = Absent
  BY <1>2, <1>3, <1>4, IdleFields DEF Jobs, Pcs
<1> HIDE DEF k
<1>7. RootOK(k, baseline[p].pubs)
  BY <1>2, <1>4, <1>6 DEF RootOK, DoorSet, Plain
<1> QED BY <1>1, <1>5, <1>6, <1>7, StartStep

\* StartDoors: the doors kept and the door added give the key of the status read.
LEMMA StartDoorsStep ==
  ASSUME EncryptionInv, NEW p \in Procs, NEW key \in Keys, NEW secret \in Secrets,
         NEW kind, NEW add \in SUBSET Doors, \A d \in add : d.key = key,
         secret = NoSecret \/ \E d \in add : d.secret = secret,
         StartDoors(p, key, secret, ReplaceDoor(current.doors, kind, add))
  PROVE  EncryptionInv'
<1> DEFINE ds == ReplaceDoor(current.doors, kind, add)
           k == [Idle EXCEPT !.pc = "doorread", !.op = "doors", !.attempt = 1,
                             !.key = key, !.secret = secret, !.doors = ds]
<1>1. /\ current \in Currents /\ CurrentOK /\ MaxFresh \in Nat
  BY EncryptionAssumption DEF EncryptionInv, TypeOK
<1>2. /\ job' = [job EXCEPT ![p] = k] /\ Draw(1) /\ ds # {}
      /\ UNCHANGED <<current, packs, durable, clientVars, opened>>
  BY DEF StartDoors, Become
<1>3. current.key = key /\ current.doors # {}
  BY DEF StartDoors, StatusOpens, Opens
<1>4. \A d \in current.doors : d.key = key
  BY <1>1, <1>3 DEF CurrentOK, DoorsGiveTheKey
<1>5. /\ ds \in SUBSET Doors /\ (\A d \in ds : d.key = key)
      /\ secret = NoSecret \/ \E d \in ds : d.secret = secret
  BY <1>1, <1>4, CurrentFields DEF ReplaceDoor
<1>6. key \in Nat
  BY <1>1 DEF Keys
<1> HIDE DEF ds
<1>7. /\ k \in Jobs /\ k.pc = "doorread" /\ k.secret = secret
      /\ k.key = key /\ k.doors = ds /\ k.obs = Absent
  BY <1>5, <1>6, IdleFields DEF Jobs, Pcs
<1> HIDE DEF k
<1>8. RootOK(k, baseline[p].pubs)
  BY <1>2, <1>5, <1>7 DEF RootOK, DoorSet
<1> QED BY <1>2, <1>7, <1>8, StartStep

\* StartPasswd and StartRecovery
LEMMA StartPasswdStep ==
  ASSUME EncryptionInv, NEW p \in Procs, StartPasswd(p) \/ StartRecovery(p)
  PROVE  EncryptionInv'
<1>1. MaxFresh \in Nat /\ fresh \in Nat
  BY EncryptionAssumption DEF EncryptionInv, TypeOK
<1>2. CASE StartPasswd(p)
  <2>1. PICK key \in Keys, s \in Pass \cup {NoSecret} :
          StartDoors(p, key, s, ReplaceDoor(current.doors, "passphrase",
                                  {Door("passphrase", t, key) : t \in {s} \ {NoSecret}}))
    BY <1>2 DEF StartPasswd
  <2> DEFINE add == {Door("passphrase", t, key) : t \in {s} \ {NoSecret}}
  <2>2. s \in Secrets /\ key \in Nat
    BY <1>1 DEF Secrets, Keys
  <2>3. /\ Door("passphrase", s, key) \in Doors /\ Door("passphrase", s, key).key = key
        /\ Door("passphrase", s, key).secret = s
    BY <2>2 DEF Door, Doors
  <2>4. /\ add \in SUBSET Doors /\ (\A d \in add : d.key = key)
        /\ s = NoSecret \/ \E d \in add : d.secret = s
    BY <2>3
  <2>5. StartDoors(p, key, s, ReplaceDoor(current.doors, "passphrase", add))
    BY <2>1
  <2> HIDE DEF add
  <2> QED BY <2>2, <2>4, <2>5, StartDoorsStep
<1>3. CASE StartRecovery(p)
  <2>1. PICK key \in Keys :
          StartDoors(p, key, NoSecret, ReplaceDoor(current.doors, "recovery",
                                         {Door("recovery", fresh + 1, key)}))
    BY <1>3 DEF StartRecovery
  <2> DEFINE add == {Door("recovery", fresh + 1, key)}
  <2>2. key \in Nat /\ fresh + 1 \in 1 .. MaxFresh
    BY <1>1, <2>1 DEF Keys, StartDoors, Draw
  <2>3. NoSecret \in Secrets /\ fresh + 1 \in Secrets
    BY <2>2 DEF Secrets
  <2>4. Door("recovery", fresh + 1, key) \in Doors /\ Door("recovery", fresh + 1, key).key = key
    BY <2>2, <2>3 DEF Door, Doors
  <2>5. add \in SUBSET Doors /\ \A d \in add : d.key = key
    BY <2>4
  <2>6. StartDoors(p, key, NoSecret, ReplaceDoor(current.doors, "recovery", add))
    BY <2>1
  <2> HIDE DEF add
  <2> QED BY <2>3, <2>5, <2>6, StartDoorsStep
<1> QED BY <1>2, <1>3

-----------------------------------------------------------------------------
(* Steps that write current.                                                *)

\* A CAS that matches is made on the current the job saw.
LEMMA MatchedIsCurrent ==
  ASSUME EncryptionInv, NEW p \in Procs, Matches(job[p].obs)
  PROVE  job[p].obs = current
BY DEF EncryptionInv, JobOK, Observed, Matches

\* What a client seals is what it read plus its own pack and publication.
LEMMA ClientNextOK ==
  ASSUME EncryptionInv, NEW p \in Procs, job[p].pc = "cas", ~NoDoorSet(p), Matches(job[p].obs)
  PROVE  LET c == ClientNext(p) IN
         /\ c \in Currents
         /\ \A r \in c.roots : r \in packs /\ r.key = c.key
         /\ c.key # Plain => c.doors # {} /\ \A d \in c.doors : d.key = c.key
         /\ c.key = Plain => c.doors = {}
         /\ c.gen >= current.gen
         /\ \A r \in c.roots : r \in current.roots \/ (r.gen > current.gen /\ r.id \in Unsent(job[p]))
         /\ current.pubs \subseteq c.pubs
<1> DEFINE j == job[p]
           c == ClientNext(p)
           new == [gen |-> current.gen + 1, id |-> j.id, key |-> SealKey(p)]
<1>1. /\ j \in Jobs /\ JobOK(p) /\ current \in Currents /\ CurrentOK /\ j.obs = current
      /\ (mode[p] = "encrypted" => current.ver # 0) /\ (mode[p] # "encrypted" => cached[p] = {})
      /\ ring[p] \in Nat /\ cached[p] \in SUBSET Doors
  BY MatchedIsCurrent DEF EncryptionInv, TypeOK, ClientsOK
<1>2. /\ current.ver \in Nat /\ current.gen \in Nat /\ current.key \in Nat
      /\ current.roots \in SUBSET PackObjects /\ current.pubs \in SUBSET Nat /\ j.id \in Nat
  BY <1>1, JobFields, CurrentFields
<1>3. /\ c.ver = current.ver /\ c.gen = current.gen + 1 /\ c.key = SealKey(p)
      /\ c.doors = cached[p] /\ c.roots = current.roots \cup {new}
      /\ c.pubs = current.pubs \cup {j.id}
      /\ c = [ver |-> c.ver, gen |-> c.gen, key |-> c.key, doors |-> c.doors,
              roots |-> c.roots, pubs |-> c.pubs]
  BY <1>1 DEF ClientNext
<1>4. /\ SealKey(p) = current.key
      /\ SealKey(p) # Plain => cached[p] = current.doors
      /\ SealKey(p) = Plain => cached[p] = {}
  <2>1. CASE current.ver = 0
    <3>1. mode[p] # "encrypted" /\ cached[p] = {} /\ current.key = Plain
      BY <1>1, <2>1, IdleFields DEF CurrentOK
    <3> QED BY <3>1 DEF SealKey
  <2>2. CASE current.ver # 0
    <3>1. IF current.key = Plain THEN mode[p] = "plaintext"
          ELSE mode[p] = "encrypted" /\ ring[p] = current.key /\ cached[p] = current.doors
      BY <1>1, <2>2 DEF JobOK, ClientOK
    <3> QED BY <1>1, <3>1 DEF SealKey
  <2> QED BY <2>1, <2>2
<1>5. new \in packs /\ new \in PackObjects /\ new.gen = current.gen + 1 /\ new.id = j.id /\ new.key = SealKey(p)
  <2>1. Uploaded(j.obs, j.id, Seal(mode[p], ring[p])) \in packs
    BY <1>1 DEF JobOK, PackOK
  <2>2. Uploaded(j.obs, j.id, Seal(mode[p], ring[p])) = new
    BY <1>1 DEF Uploaded, Seal, SealKey
  <2> QED BY <2>1, <2>2 DEF EncryptionInv, TypeOK
<1>6. j.id \in Unsent(j)
  BY DEF Unsent
<1> HIDE DEF c, new
<1>7. c \in Currents
  <2>1. /\ c.ver \in Nat /\ c.gen \in Nat /\ c.key \in Nat /\ c.doors \in SUBSET Doors
        /\ c.roots \in SUBSET PackObjects /\ c.pubs \in SUBSET Nat
    BY <1>1, <1>2, <1>3, <1>4, <1>5
  <2> QED BY <1>3, <2>1 DEF Currents
<1>8. \A r \in c.roots : r \in packs /\ r.key = c.key
  BY <1>1, <1>3, <1>4, <1>5 DEF CurrentOK, RootsReadable
<1>9. c.key # Plain => c.doors # {} /\ \A d \in c.doors : d.key = c.key
  BY <1>1, <1>3, <1>4 DEF CurrentOK, DoorsGiveTheKey
<1>10. c.key = Plain => c.doors = {}
  BY <1>3, <1>4
<1>11. /\ c.gen >= current.gen
       /\ \A r \in c.roots : r \in current.roots \/ (r.gen > current.gen /\ r.id \in Unsent(j))
  BY <1>2, <1>3, <1>5, <1>6
<1> QED BY <1>3, <1>7, <1>8, <1>9, <1>10, <1>11 DEF c

\* ClientAccepted
LEMMA ClientAcceptedStep ==
  ASSUME EncryptionInv, NEW p \in Procs, ClientAccepted(p)
  PROVE  EncryptionInv'
<1> DEFINE c == ClientNext(p)
<1>1. /\ job[p].pc = "cas" /\ ~NoDoorSet(p) /\ Matches(job[p].obs) /\ Store(c)
      /\ SetBaseline(p, c) /\ job' = [job EXCEPT ![p] = Idle]
      /\ UNCHANGED <<packs, pulled, record, clientVars, fresh>>
      /\ baseline \in [Procs -> [gen : Nat, pubs : SUBSET Nat]]
      /\ CurrentOK /\ current \in Currents
  BY DEF ClientAccepted, Become, EncryptionInv, TypeOK
<1>2. /\ c \in Currents
      /\ \A r \in c.roots : r \in packs /\ r.key = c.key
      /\ c.key # Plain => c.doors # {} /\ \A d \in c.doors : d.key = c.key
      /\ c.key = Plain => c.doors = {}
      /\ c.gen >= current.gen
      /\ \A r \in c.roots : r \in current.roots \/ (r.gen > current.gen /\ r.id \in Unsent(job[p]))
  BY <1>1, ClientNextOK
<1> HIDE DEF c
<1>3. /\ baseline' \in [Procs -> [gen : Nat, pubs : SUBSET Nat]]
      /\ \A q \in Procs \ {p} : baseline'[q] = baseline[q]
  BY <1>1, <1>2, CurrentFields, BaselineFields
<1>4. RootOK(Idle, {}) /\ Idle.obs.ver <= current.ver /\ Claims(Idle) = {} /\ Idle \in Jobs
  BY <1>1, IdleRelies, IdleFields, CurrentFields
<1> QED BY <1>1, <1>2, <1>3, <1>4, IdleFields, StoreStep

\* ClientUnanswered
LEMMA ClientUnansweredStep ==
  ASSUME EncryptionInv, NEW p \in Procs, ClientUnanswered(p)
  PROVE  EncryptionInv'
<1> DEFINE j == job[p]
           c == ClientNext(p)
           k == [j EXCEPT !.pc = "lookup"]
<1>1. /\ j.pc = "cas" /\ ~NoDoorSet(p) /\ MaybeStore(j.obs, c)
      /\ job' = [job EXCEPT ![p] = k]
      /\ UNCHANGED <<packs, durable, clientVars, fresh>>
      /\ baseline \in [Procs -> [gen : Nat, pubs : SUBSET Nat]]
      /\ CurrentOK /\ current \in Currents /\ j \in Jobs /\ JobOK(p)
  BY DEF ClientUnanswered, Become, EncryptionInv, TypeOK
<1>2. k \in Jobs /\ k.pc = "lookup" /\ k.obs = j.obs
  BY <1>1 DEF Jobs, Pcs
<1> HIDE DEF k
<1>3. Claims(k) = {} /\ Unsent(k) = {} /\ \A bp : RootOK(k, bp)
  BY <1>2 DEF Claims, Unsent, RootOK
<1>4. CASE UNCHANGED <<current, opened>>
  <2>1. /\ Observed(k.obs, current) /\ ClientOK(k, mode[p], ring[p], cached[p])
        /\ PackOK(k, mode[p], ring[p], current, packs) /\ AcceptOK(k, current, opened)
        /\ CleanupOK(k, current)
    BY <1>1, <1>2 DEF JobOK, ClientOK, PackOK, AcceptOK, CleanupOK
  <2> QED BY <1>1, <1>2, <1>3, <1>4, <2>1, QuietStep
<1>5. CASE Matches(j.obs) /\ Store(c)
  <2>1. /\ c \in Currents
        /\ \A r \in c.roots : r \in packs /\ r.key = c.key
        /\ c.key # Plain => c.doors # {} /\ \A d \in c.doors : d.key = c.key
        /\ c.key = Plain => c.doors = {}
        /\ c.gen >= current.gen
        /\ \A r \in c.roots : r \in current.roots \/ (r.gen > current.gen /\ r.id \in Unsent(job[p]))
    BY <1>1, <1>5, ClientNextOK
  <2> HIDE DEF c
  <2>2. /\ baseline' \in [Procs -> [gen : Nat, pubs : SUBSET Nat]]
        /\ \A q \in Procs \ {p} : baseline'[q] = baseline[q]
        /\ UNCHANGED <<packs, pulled, record, clientVars, fresh>>
    BY <1>1 DEF durable
  <2>3. k.obs.ver <= current.ver
    BY <1>1, <1>2 DEF JobOK, Observed
  <2> QED BY <1>1, <1>2, <1>3, <1>5, <2>1, <2>2, <2>3, StoreStep
<1> QED BY <1>1, <1>4, <1>5 DEF MaybeStore

\* What a conversion or a rekey seals: one pack under the new key, the doors
\* of the new key, and every publication of the current it replaces.
LEMMA RootNextOK ==
  ASSUME EncryptionInv, NEW p \in Procs, job[p].pc = "rootcas", Matches(job[p].obs)
  PROVE  LET c == RootNext(p) IN
         /\ c \in Currents
         /\ \A r \in c.roots : r \in packs /\ r.key = c.key
         /\ c.key # Plain => c.doors # {} /\ \A d \in c.doors : d.key = c.key
         /\ c.key = Plain => c.doors = {}
         /\ c.gen = current.gen + 1 /\ c.gen >= current.gen
         /\ \A r \in c.roots : r \in current.roots \/ (r.gen > current.gen /\ r.id \in Unsent(job[p]))
         /\ current.pubs \subseteq c.pubs
         /\ job[p].secret \in {d.secret : d \in c.doors}
<1> DEFINE j == job[p]
           c == RootNext(p)
<1>1. /\ j \in Jobs /\ JobOK(p) /\ current \in Currents /\ CurrentOK /\ j.obs = current
      /\ baseline[p].pubs \in SUBSET Nat /\ packs \subseteq PackObjects
  BY MatchedIsCurrent DEF EncryptionInv, TypeOK
<1>2. /\ current.ver \in Nat /\ current.gen \in Nat /\ current.pubs \in SUBSET Nat
      /\ j.id \in Nat /\ j.key \in Nat /\ j.doors \in SUBSET Doors
  BY <1>1, JobFields, CurrentFields
<1>3. /\ c.ver = current.ver /\ c.gen = current.gen + 1 /\ c.key = j.key
      /\ c.doors = j.doors /\ c.roots = {RootPack(j)} /\ c.pubs = RootPubs(p)
      /\ c = [ver |-> c.ver, gen |-> c.gen, key |-> c.key, doors |-> c.doors,
              roots |-> c.roots, pubs |-> c.pubs]
  BY <1>1 DEF RootNext
<1>4. RootPack(j) \in packs
  BY <1>1 DEF JobOK, PackOK
<1>5. RootPack(j).gen = current.gen + 1 /\ RootPack(j).id = j.id /\ RootPack(j).key = j.key
  BY <1>1 DEF RootPack
<1>6. j.id \in Unsent(j)
  BY DEF Unsent
<1>7. DoorSet(j) /\ j.key # Plain /\ j.secret # NoSecret
  BY <1>1 DEF JobOK, RootOK
<1>8. RootPubs(p) = current.pubs \cup {j.id}
  BY <1>1 DEF RootPubs, JobOK, RootOK
<1> HIDE DEF c
<1>9. c \in Currents
  <2>1. c.roots \in SUBSET PackObjects /\ c.pubs \in SUBSET Nat /\ c.gen \in Nat
    BY <1>1, <1>2, <1>3, <1>4, <1>8
  <2> QED BY <1>2, <1>3, <2>1 DEF Currents
<1>10. \A r \in c.roots : r \in packs /\ r.key = c.key
  BY <1>3, <1>4, <1>5
<1>11. /\ c.key # Plain => c.doors # {} /\ \A d \in c.doors : d.key = c.key
       /\ c.key = Plain => c.doors = {}
       /\ j.secret \in {d.secret : d \in c.doors}
  BY <1>3, <1>7 DEF DoorSet
<1>12. /\ c.gen = current.gen + 1 /\ c.gen >= current.gen
       /\ \A r \in c.roots : r \in current.roots \/ (r.gen > current.gen /\ r.id \in Unsent(j))
       /\ current.pubs \subseteq c.pubs
  BY <1>2, <1>3, <1>5, <1>6, <1>8
<1> QED BY <1>9, <1>10, <1>11, <1>12 DEF c

\* RootAccepted
LEMMA RootAcceptedStep ==
  ASSUME EncryptionInv, NEW p \in Procs, RootAccepted(p)
  PROVE  EncryptionInv'
<1> DEFINE j == job[p]
           c == RootNext(p)
           k == [j EXCEPT !.pc = "accept"]
<1>1. /\ j.pc = "rootcas" /\ Matches(j.obs) /\ Store(c)
      /\ job' = [job EXCEPT ![p] = k]
      /\ UNCHANGED <<packs, baseline, pulled, record, clientVars, fresh>>
      /\ baseline \in [Procs -> [gen : Nat, pubs : SUBSET Nat]]
      /\ CurrentOK /\ current \in Currents /\ j \in Jobs
  BY DEF RootAccepted, Become, EncryptionInv, TypeOK, durable
<1>2. k \in Jobs /\ k.pc = "accept" /\ k.obs = j.obs /\ k.secret = j.secret
  BY <1>1 DEF Jobs, Pcs
<1> HIDE DEF k
<1>3. Claims(k) = {} /\ RootOK(k, {})
  BY <1>2 DEF Claims, Unsent, RootOK
<1>4. /\ c \in Currents
      /\ \A r \in c.roots : r \in packs /\ r.key = c.key
      /\ c.key # Plain => c.doors # {} /\ \A d \in c.doors : d.key = c.key
      /\ c.key = Plain => c.doors = {}
      /\ c.gen = current.gen + 1 /\ c.gen >= current.gen
      /\ \A r \in c.roots : r \in current.roots \/ (r.gen > current.gen /\ r.id \in Unsent(job[p]))
      /\ j.secret \in {d.secret : d \in c.doors}
  BY <1>1, RootNextOK
<1> HIDE DEF c
<1>5. j.obs = current /\ current.ver \in Nat /\ current.gen \in Nat
  BY <1>1, MatchedIsCurrent, CurrentFields
<1>6. k.obs.ver <= current.ver /\ k.obs.gen < c.gen /\ k.secret \in opened \cup {d.secret : d \in c.doors}
  BY <1>2, <1>4, <1>5
<1> QED BY <1>1, <1>2, <1>3, <1>4, <1>6, StoreStep

\* RootUnanswered: without the write the publication is not in current.
LEMMA RootUnansweredStep ==
  ASSUME EncryptionInv, NEW p \in Procs, RootUnanswered(p)
  PROVE  EncryptionInv'
<1> DEFINE j == job[p]
           c == RootNext(p)
           k == [j EXCEPT !.pc = "rootlookup"]
<1>1. /\ j.pc = "rootcas" /\ MaybeStore(j.obs, c)
      /\ job' = [job EXCEPT ![p] = k]
      /\ UNCHANGED <<packs, baseline, pulled, record, clientVars, fresh>>
      /\ UNCHANGED <<packs, durable, clientVars, fresh>>
      /\ baseline \in [Procs -> [gen : Nat, pubs : SUBSET Nat]]
      /\ CurrentOK /\ current \in Currents /\ j \in Jobs /\ JobOK(p)
  BY DEF RootUnanswered, Become, EncryptionInv, TypeOK, durable
<1>2. /\ k \in Jobs /\ k.pc = "rootlookup" /\ k.obs = j.obs /\ k.secret = j.secret /\ k.id = j.id
      /\ k.doors = j.doors /\ k.key = j.key /\ k.attempt = j.attempt
  BY <1>1 DEF Jobs, Pcs
<1> HIDE DEF k
<1>3. Claims(k) = Claims(j) /\ Unsent(k) = {} /\ j.id \in Unsent(j)
  BY <1>1, <1>2 DEF Claims, Unsent
<1>4. \A bp : RootOK(k, bp)
  BY <1>1, <1>2 DEF JobOK, RootOK, DoorSet
<1>5. CASE UNCHANGED <<current, opened>>
  <2>1. ~Published(current, k.id)
    BY <1>1, <1>2, <1>3 DEF JobOK, Published, RootIDs
  <2>2. AcceptOK(k, current, opened)
    BY <1>2, <2>1 DEF AcceptOK
  <2>3. /\ Observed(k.obs, current) /\ ClientOK(k, mode[p], ring[p], cached[p])
        /\ PackOK(k, mode[p], ring[p], current, packs) /\ CleanupOK(k, current)
    BY <1>1, <1>2 DEF JobOK, ClientOK, PackOK, CleanupOK
  <2> QED BY <1>1, <1>2, <1>3, <1>4, <1>5, <2>2, <2>3, QuietStep
<1>6. CASE Matches(j.obs) /\ Store(c)
  <2>1. /\ c \in Currents
        /\ \A r \in c.roots : r \in packs /\ r.key = c.key
        /\ c.key # Plain => c.doors # {} /\ \A d \in c.doors : d.key = c.key
        /\ c.key = Plain => c.doors = {}
        /\ c.gen = current.gen + 1 /\ c.gen >= current.gen
        /\ \A r \in c.roots : r \in current.roots \/ (r.gen > current.gen /\ r.id \in Unsent(job[p]))
        /\ j.secret \in {d.secret : d \in c.doors}
    BY <1>1, <1>6, RootNextOK
  <2> HIDE DEF c
  <2>2. j.obs = current /\ current.ver \in Nat /\ current.gen \in Nat
    BY <1>1, <1>6, MatchedIsCurrent, CurrentFields
  <2>3. k.obs.ver <= current.ver /\ k.obs.gen < c.gen /\ k.secret \in opened \cup {d.secret : d \in c.doors}
    BY <1>2, <2>1, <2>2
  <2> QED BY <1>1, <1>2, <1>3, <1>4, <1>6, <2>1, <2>3, StoreStep
<1> QED BY <1>1, <1>5, <1>6 DEF MaybeStore

\* What a door change seals: the same envelope with doors of the same key.
LEMMA DoorsNextOK ==
  ASSUME EncryptionInv, NEW p \in Procs, job[p].pc = "doorcas", Matches(job[p].obs)
  PROVE  LET c == Rewrap(job[p].obs, job[p].doors) IN
         /\ c \in Currents
         /\ \A r \in c.roots : r \in packs /\ r.key = c.key
         /\ c.key # Plain => c.doors # {} /\ \A d \in c.doors : d.key = c.key
         /\ c.key = Plain => c.doors = {}
         /\ c.gen >= current.gen
         /\ \A r \in c.roots : r \in current.roots \/ (r.gen > current.gen /\ r.id \in Unsent(job[p]))
         /\ current.pubs \subseteq c.pubs
         /\ job[p].secret \in {d.secret : d \in c.doors} \cup {NoSecret}
<1> DEFINE j == job[p]
           c == Rewrap(j.obs, j.doors)
<1>1. /\ j \in Jobs /\ JobOK(p) /\ current \in Currents /\ CurrentOK /\ j.obs = current
  BY MatchedIsCurrent DEF EncryptionInv, TypeOK
<1>2. j.doors \in SUBSET Doors /\ current.gen \in Nat
  BY <1>1, JobFields, CurrentFields
<1>3. /\ c \in Currents /\ c.gen = current.gen /\ c.key = current.key
      /\ c.doors = j.doors /\ c.roots = current.roots /\ c.pubs = current.pubs
  BY <1>1, <1>2 DEF Rewrap, Currents
<1>4. DoorSet(j) /\ current.key = j.key /\ j.key # Plain
  BY <1>1 DEF JobOK, RootOK
<1> HIDE DEF c
<1>5. \A r \in c.roots : r \in packs /\ r.key = c.key
  BY <1>1, <1>3 DEF CurrentOK, RootsReadable
<1>6. /\ c.key # Plain => c.doors # {} /\ \A d \in c.doors : d.key = c.key
      /\ c.key = Plain => c.doors = {}
      /\ j.secret \in {d.secret : d \in c.doors} \cup {NoSecret}
  BY <1>3, <1>4 DEF DoorSet
<1> QED BY <1>2, <1>3, <1>5, <1>6 DEF c

\* DoorsAccepted and DoorsUnanswered
LEMMA DoorsWriteStep ==
  ASSUME EncryptionInv, NEW p \in Procs, DoorsAccepted(p) \/ DoorsUnanswered(p)
  PROVE  EncryptionInv'
<1> DEFINE j == job[p]
           c == Rewrap(j.obs, j.doors)
<1>1. /\ j.pc = "doorcas" /\ CurrentOK /\ current \in Currents /\ j \in Jobs
      /\ UNCHANGED <<packs, baseline, pulled, record, clientVars, fresh>>
      /\ UNCHANGED <<packs, durable, clientVars, fresh>>
      /\ baseline \in [Procs -> [gen : Nat, pubs : SUBSET Nat]]
  BY DEF DoorsAccepted, DoorsUnanswered, EncryptionInv, TypeOK, durable
<1>2. \/ Matches(j.obs) /\ Store(c) /\ Become(p, Reported(j))
      \/ Matches(j.obs) /\ Store(c) /\ Become(p, Idle)
      \/ UNCHANGED <<current, opened>> /\ Become(p, Idle)
  BY DEF DoorsAccepted, DoorsUnanswered, MaybeStore
<1>3. CASE UNCHANGED <<current, opened>> /\ Become(p, Idle)
  BY <1>1, <1>3, EndStep
<1>4. CASE Matches(j.obs) /\ Store(c) /\ (Become(p, Reported(j)) \/ Become(p, Idle))
  <2>1. /\ c \in Currents
        /\ \A r \in c.roots : r \in packs /\ r.key = c.key
        /\ c.key # Plain => c.doors # {} /\ \A d \in c.doors : d.key = c.key
        /\ c.key = Plain => c.doors = {}
        /\ c.gen >= current.gen
        /\ \A r \in c.roots : r \in current.roots \/ (r.gen > current.gen /\ r.id \in Unsent(job[p]))
        /\ j.secret \in {d.secret : d \in c.doors} \cup {NoSecret}
    BY <1>1, <1>4, DoorsNextOK
  <2> HIDE DEF c
  <2>2. current.ver \in Nat /\ Absent.ver = 0
    BY <1>1, CurrentFields, IdleFields
  <2>3. PICK k \in {Reported(j), Idle} : job' = [job EXCEPT ![p] = k]
    BY <1>4 DEF Become
  <2>4. /\ k \in Jobs /\ k.pc \in {"report", "idle"} /\ k.obs = Absent
        /\ k.pc = "report" => k.secret = j.secret
    BY <1>1, <2>3, ReportedFields, IdleFields
  <2>5. Claims(k) = {} /\ RootOK(k, {}) /\ k.obs.ver <= current.ver
    BY <2>2, <2>4 DEF Claims, Unsent, RootOK
  <2>6. k.pc = "report" => k.secret \in opened \cup {d.secret : d \in c.doors} \cup {NoSecret}
    BY <2>1, <2>4
  <2> QED BY <1>1, <1>4, <2>1, <2>3, <2>4, <2>5, <2>6, StoreStep
<1> QED BY <1>2, <1>3, <1>4

-----------------------------------------------------------------------------
(* The theorems.                                                            *)

\* Init establishes the invariant.
LEMMA EncryptionInit ==
  Init => EncryptionInv
<1> SUFFICES ASSUME Init PROVE EncryptionInv
  OBVIOUS
<1>1. TypeOK
  <2>1. \A p \in Procs : {Env[p]} \ {NoSecret} \in SUBSET Secrets
    BY EncryptionAssumption DEF Secrets
  <2>2. NoSecret \in Secrets /\ Plain \in Nat /\ fresh \in 0 .. MaxFresh
    BY EncryptionAssumption DEF Init, Secrets, Plain
  <2>3. cand \in [Procs -> SUBSET Secrets] /\ job \in [Procs -> Jobs] /\ current \in Currents
    BY <2>1, IdleFields DEF Init
  <2> QED BY <2>2, <2>3 DEF Init, TypeOK
<1>2. CurrentOK
  BY IdleFields DEF Init, CurrentOK, RootsReadable, DoorsGiveTheKey, RootIDs
<1>3. ClientsOK
  BY DEF Init, ClientsOK
<1>4. \A p \in Procs : job[p] = Idle
  BY DEF Init
<1>5. \A p \in Procs : JobOK(p)
  <2> SUFFICES ASSUME NEW p \in Procs PROVE JobOK(p)
    OBVIOUS
  <2>1. current \in Currents /\ job[p] = Idle
    BY <1>1, <1>4 DEF TypeOK
  <2>2. /\ Observed(Idle.obs, current) /\ ClientOK(Idle, mode[p], ring[p], cached[p])
        /\ PackOK(Idle, mode[p], ring[p], current, packs) /\ RootOK(Idle, baseline[p].pubs)
        /\ AcceptOK(Idle, current, opened) /\ CleanupOK(Idle, current)
        /\ Claims(Idle) = {} /\ Unsent(Idle) = {}
    BY <1>2, <2>1, IdleRelies
  <2> QED BY <2>1, <2>2 DEF JobOK
<1>6. Disjoint
  BY <1>4, IdleFields DEF Disjoint
<1> QED BY <1>1, <1>2, <1>3, <1>5, <1>6 DEF EncryptionInv

\* Every step keeps the invariant.
LEMMA EncryptionNext ==
  EncryptionInv /\ [Next]_vars => EncryptionInv'
<1> SUFFICES ASSUME EncryptionInv, [Next]_vars PROVE EncryptionInv'
  OBVIOUS
<1>1. CASE UNCHANGED vars
  <2>1. /\ UNCHANGED <<current, packs, baseline, pulled, record, cand, ring, mode, cached>>
        /\ UNCHANGED <<job, fresh, opened>>
    BY <1>1 DEF vars
  <2>2. TypeOK' /\ CurrentOK' /\ ClientsOK' /\ Disjoint'
    BY <2>1 DEF EncryptionInv, TypeOK, CurrentOK, RootsReadable, DoorsGiveTheKey, RootIDs,
                ClientsOK, Disjoint
  <2>3. \A p \in Procs : JobOK(p)'
    BY <2>1 DEF EncryptionInv, JobOK
  <2> QED BY <2>2, <2>3 DEF EncryptionInv
<1>2. ASSUME NEW p \in Procs, Client(p) PROVE EncryptionInv'
  BY <1>2, StartClientStep, AskForSecretStep, ReadCurrentStep, ClientLoadStep, EnsureModeStep,
     ClientUploadStep, ClientAcceptedStep, ClientLostStep, ClientUnansweredStep, ClientLookupStep
     DEF Client
<1>3. ASSUME NEW p \in Procs, Root(p) PROVE EncryptionInv'
  BY <1>3, StartInitStep, StartRekeyStep, RootReadStep, RootUploadStep, RootAcceptedStep,
     RootLostStep, RootUnansweredStep, RootLookupStep, RootAcceptStep, CleanupListStep,
     CleanupRootsStep, CleanupDeleteStep DEF Root
<1>4. ASSUME NEW p \in Procs, DoorChange(p) PROVE EncryptionInv'
  BY <1>4, StartPasswdStep, DoorsReadStep, DoorsWriteStep, DoorsLostStep DEF DoorChange
<1>5. ASSUME NEW p \in Procs, RecordChange(p) \/ End(p) \/ Restart(p) PROVE EncryptionInv'
  BY <1>5, RecordChangeStep, RestartStep, EndStep DEF End
<1> QED BY <1>1, <1>2, <1>3, <1>4, <1>5 DEF Next

\* The invariant of encryption holds throughout: what each job observed, sealed,
\* uploaded and drew stays consistent with the stored object whatever the other
\* machines do in between.
THEOREM EncryptionInvariant == Spec => []EncryptionInv
BY EncryptionInit, EncryptionNext, PTL DEF Spec

\* For any number of machines: every pack current references is stored and opens
\* the way current does (publishRoot, cleanupCurrent, writeCurrent).
THEOREM PacksReadable == Spec => []RootsReadable
<1>1. EncryptionInv => RootsReadable
  BY DEF EncryptionInv, CurrentOK
<1> QED BY <1>1, EncryptionInvariant, PTL

\* For any number of machines: an encrypted current always has a door, each of
\* its doors gives its key, and a recorded passphrase opened an accepted current
\* (EncryptDoors, publishRoot, applyRecordChange).
THEOREM NobodyLockedOut == Spec => []SecretsOpen
<1>1. EncryptionInv => SecretsOpen
  BY DEF EncryptionInv, CurrentOK, ClientsOK, SecretsOpen, RecordWasAccepted
<1> QED BY <1>1, EncryptionInvariant, PTL

\* No write of current drops a publication.
LEMMA PubsKept ==
  ASSUME EncryptionInv, Next
  PROVE  [current.pubs \subseteq current'.pubs]_current
<1>1. ASSUME NEW c \in Currents, Store(c), current.pubs \subseteq c.pubs
      PROVE  current.pubs \subseteq current'.pubs
  <2> DEFINE d == [c EXCEPT !.ver = current.ver + 1]
  <2>1. d.pubs = c.pubs /\ current' = d
    BY <1>1 DEF Store, Currents
  <2> QED BY <1>1, <2>1
<1>2. ASSUME NEW p \in Procs, ClientAccepted(p) \/ ClientUnanswered(p), current' # current
      PROVE  current.pubs \subseteq current'.pubs
  <2>1. job[p].pc = "cas" /\ ~NoDoorSet(p) /\ Matches(job[p].obs) /\ Store(ClientNext(p))
    BY <1>2 DEF ClientAccepted, ClientUnanswered, MaybeStore
  <2> QED BY <1>1, <2>1, ClientNextOK
<1>3. ASSUME NEW p \in Procs, RootAccepted(p) \/ RootUnanswered(p), current' # current
      PROVE  current.pubs \subseteq current'.pubs
  <2>1. job[p].pc = "rootcas" /\ Matches(job[p].obs) /\ Store(RootNext(p))
    BY <1>3 DEF RootAccepted, RootUnanswered, MaybeStore
  <2> QED BY <1>1, <2>1, RootNextOK
<1>4. ASSUME NEW p \in Procs, DoorsAccepted(p) \/ DoorsUnanswered(p), current' # current
      PROVE  current.pubs \subseteq current'.pubs
  <2>1. /\ job[p].pc = "doorcas" /\ Matches(job[p].obs)
        /\ Store(Rewrap(job[p].obs, job[p].doors))
    BY <1>4 DEF DoorsAccepted, DoorsUnanswered, MaybeStore
  <2> QED BY <1>1, <2>1, DoorsNextOK
<1>5. ASSUME NEW p \in Procs, Client(p), current' # current
      PROVE  ClientAccepted(p) \/ ClientUnanswered(p)
  <2>1. ASSUME ReadCurrent(p) \/ ClientLoad(p) \/ EnsureMode(p) PROVE current' = current
    BY <2>1 DEF ReadCurrent, ClientLoad, EnsureMode
  <2>2. ASSUME ClientUpload(p) \/ ClientLost(p) \/ ClientLookup(p) PROVE current' = current
    BY <2>2, Zenon DEF ClientUpload, ClientLost, ClientLookup
  <2> QED BY <1>5, <2>1, <2>2 DEF Client, StartClient, AskForSecret
<1>6. ASSUME NEW p \in Procs, Root(p), current' # current
      PROVE  RootAccepted(p) \/ RootUnanswered(p)
  BY <1>6 DEF Root, StartInit, StartRekey, RootRead, RootUpload, RootLost, RootLookup,
              RootAccept, CleanupList, CleanupRoots, CleanupDelete
<1>7. ASSUME NEW p \in Procs, DoorChange(p), current' # current
      PROVE  DoorsAccepted(p) \/ DoorsUnanswered(p)
  BY <1>7 DEF DoorChange, StartPasswd, StartRecovery, StartDoors, DoorsRead, DoorsLost
<1>8. ASSUME NEW p \in Procs, RecordChange(p) \/ End(p) \/ Restart(p)
      PROVE  current' = current
  BY <1>8 DEF RecordChange, End, Restart
<1> QED BY <1>2, <1>3, <1>4, <1>5, <1>6, <1>7, <1>8 DEF Next

\* For any number of machines: no accepted write of current drops a publication;
\* a conversion contains what it replaced, a rekey starts from its own baseline
\* (rootRemote, encryptedRemote, Rewrap).
THEOREM PublicationsKept == Spec => NothingLost
<1>1. EncryptionInv /\ [Next]_vars => [current.pubs \subseteq current'.pubs]_current
  BY PubsKept DEF vars
<1> QED BY <1>1, EncryptionInvariant, PTL DEF Spec, NothingLost
=============================================================================
