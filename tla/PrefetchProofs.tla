--------------------------- MODULE PrefetchProofs ---------------------------
(***************************************************************************)
(* The safety of the download pipeline for any number of packs and         *)
(* workers.  That it ends (EveryoneLeaves) is left to TLC.                 *)
(***************************************************************************)
EXTENDS Prefetch, SequenceTheorems, TLAPS

\* What is in flight: handed out, nobody's twice, and until the context ends
\* nothing that is handed out and not taken is missing.
InFlight ==
  /\ want <= handed + 1
  /\ \A w \in Workers : Holding(w) => worker[w].index \in 1 .. handed
  /\ \A v, w \in Workers :
       (Holding(v) /\ Holding(w) /\ worker[v].index = worker[w].index) => v = w
  /\ ~cancelled => \A w \in Workers : Holding(w) => want <= worker[w].index
  /\ ~cancelled => \A i \in want .. handed :
       \E w \in Workers : Holding(w) /\ worker[w].index = i

\* What the importer has: everything before the index it wants.
Taken ==
  /\ importer # "gone" => Len(imported) = want - 1
  /\ importer = "receiving" => want <= N
  /\ \A i \in 1 .. Len(imported) : imported[i] = i

Inv == TypeOK /\ InFlight /\ Taken

\* The initial state of the pipeline satisfies the invariant.
LEMMA InitInv == Init => Inv
<1> SUFFICES ASSUME Init PROVE Inv
  OBVIOUS
<1>1. TypeOK
  <2>1. handed \in 0 .. N /\ want \in 1 .. N + 1
    BY PrefetchAssumption DEF Init
  <2>2. worker \in [Workers -> WorkerStates]
    BY PrefetchAssumption DEF Init, Waiting, WorkerStates
  <2>3. open \in BOOLEAN /\ cancelled \in BOOLEAN
    BY Zenon DEF Init
  <2>4. imported \in Seq(1 .. N) /\ importer \in {"receiving", "importing", "gone"}
    BY DEF Init
  <2> QED BY <2>1, <2>2, <2>3, <2>4 DEF TypeOK
<1>2. InFlight
  BY DEF Init, InFlight, Holding, Waiting
<1>3. Taken
  BY PrefetchAssumption DEF Init, Taken
<1> QED BY <1>1, <1>2, <1>3 DEF Inv

\* Handing out the next index keeps the invariant: it is above all others.
LEMMA DispatchInv ==
  ASSUME Inv, NEW u \in Workers, Dispatch(u)
  PROVE  Inv'
<1>1. TypeOK'
  BY PrefetchAssumption DEF Inv, TypeOK, Dispatch, More, NextIndex, WorkerStates
<1>2. \A w \in Workers : w # u => worker'[w] = worker[w]
  BY DEF Dispatch, Inv, TypeOK
<1>3. worker'[u] = [doing |-> "fetching", index |-> handed + 1,
                    result |-> "none"]
  BY DEF Dispatch, Inv, TypeOK, NextIndex
<1>4. InFlight'
  <2>1. /\ handed \in Nat /\ want \in Nat /\ handed' = handed + 1
        /\ want' = want /\ cancelled' = cancelled
        /\ \A w \in Workers : Holding(w) => worker[w].index \in Nat
    BY PrefetchAssumption DEF Inv, TypeOK, Dispatch, NextIndex, WorkerStates
  <2>2. /\ \A w \in Workers \ {u} : Holding(w)' <=> Holding(w)
        /\ Holding(u)' /\ ~Holding(u)
    BY <1>2, <1>3 DEF Dispatch, Holding
  <2>3. want' <= handed' + 1 /\ \A w \in Workers : Holding(w)' => worker'[w].index \in 1 .. handed'
    BY <1>2, <1>3, <2>1, <2>2 DEF Inv, InFlight
  <2>4. \A v, w \in Workers :
          (Holding(v) /\ Holding(w) /\ worker[v].index = worker[w].index)' => v = w
    BY <1>2, <1>3, <2>1, <2>2 DEF Inv, InFlight
  <2>5. ~cancelled' => \A w \in Workers : Holding(w)' => want' <= worker'[w].index
    BY <1>2, <1>3, <2>1, <2>2 DEF Inv, InFlight
  <2>6. ~cancelled' => \A i \in want' .. handed' :
          \E w \in Workers : Holding(w)' /\ worker'[w].index = i
    <3> SUFFICES ASSUME ~cancelled, NEW i \in want .. handed + 1
                 PROVE  \E w \in Workers : Holding(w)' /\ worker'[w].index = i
      BY <2>1
    <3>1. CASE i = handed + 1
      BY <1>3, <2>2, <3>1
    <3>2. CASE i \in want .. handed
      BY <1>2, <2>2, <3>2 DEF Inv, InFlight
    <3> QED BY <2>1, <3>1, <3>2
  <2> QED BY <2>3, <2>4, <2>5, <2>6 DEF InFlight
<1>5. Taken'
  BY DEF Inv, Taken, Dispatch
<1> QED BY <1>1, <1>4, <1>5 DEF Inv

\* A finished download stays in flight until it is taken.
LEMMA FetchInv ==
  ASSUME Inv, NEW u \in Workers, Fetch(u)
  PROVE  Inv'
<1>1. PICK result \in {"pack", "error"} :
        worker' = [worker EXCEPT ![u] = [doing |-> "delivering", result |-> result,
                                         index |-> worker[u].index]]
  BY DEF Fetch
<1>2. TypeOK'
  BY <1>1, PrefetchAssumption DEF Inv, TypeOK, Fetch, WorkerStates
<1>3. \A w \in Workers : Holding(w)' <=> Holding(w)
  BY <1>1 DEF Fetch, Inv, TypeOK, WorkerStates, Holding
<1>4. \A w \in Workers : worker'[w].index = worker[w].index
  BY <1>1 DEF Fetch, Inv, TypeOK, WorkerStates
<1>5. InFlight'
  BY <1>3, <1>4 DEF Inv, InFlight, Fetch
<1>6. Taken'
  BY DEF Inv, Taken, Fetch
<1> QED BY <1>2, <1>5, <1>6 DEF Inv

\* The importer takes the index it wants, the lowest in flight.
LEMMA DeliverInv ==
  ASSUME Inv, NEW u \in Workers, Deliver(u)
  PROVE  Inv'
<1>1. worker[u].doing = "delivering" /\ worker[u].index = want /\ want \in 1 .. N
  BY DEF Deliver, Meets, Inv, TypeOK
<1>2. want <= handed
  BY <1>1 DEF Inv, TypeOK, InFlight, Holding
<1>3. \A w \in Workers : w # u => worker'[w] = worker[w]
  BY DEF Deliver, Inv, TypeOK
<1>4. worker'[u] = Waiting
  BY DEF Deliver, Inv, TypeOK
<1>5. TypeOK'
  <2>1. handed' \in 0 .. N /\ want' \in 1 .. N + 1
    BY <1>1, PrefetchAssumption DEF Inv, TypeOK, Deliver
  <2>2. worker' \in [Workers -> WorkerStates]
    BY PrefetchAssumption DEF Inv, TypeOK, Deliver, WorkerStates, Waiting
  <2>3. imported' = Append(imported, want) \/ imported' = imported
    BY <1>1 DEF Deliver
  <2>4. imported' \in Seq(1 .. N)
    <3>1. imported \in Seq(1 .. N) /\ want \in 1 .. N
      BY <1>1 DEF Inv, TypeOK
    <3>2. Append(imported, want) \in Seq(1 .. N)
      BY <3>1, AppendProperties
    <3> QED BY <2>3, <3>1, <3>2, Zenon
  <2>5. importer' \in {"receiving", "importing", "gone"}
    BY DEF Deliver
  <2>6. open' \in BOOLEAN /\ cancelled' \in BOOLEAN
    BY Zenon DEF Inv, TypeOK, Deliver
  <2> QED BY <2>1, <2>2, <2>4, <2>5, <2>6 DEF TypeOK
<1>6. InFlight'
  <2>1. want' = want + 1 /\ handed' = handed /\ (~cancelled' => ~cancelled)
    BY DEF Deliver
  <2>2. \A w \in Workers : Holding(w)' => w # u /\ Holding(w)
    BY <1>3, <1>4 DEF Holding, Waiting
  <2>3. \A w \in Workers : Holding(w) /\ w # u => Holding(w)' /\ worker'[w].index # want
    BY <1>1, <1>3 DEF Holding, Inv, InFlight
  <2>4. \A i \in want' .. handed' : i \in want .. handed /\ i # want
    BY <2>1, <1>2 DEF Inv, TypeOK
  <2>5. (want <= handed + 1)'
    BY <2>1, <1>2 DEF Inv, TypeOK
  <2>6. \A w \in Workers : Holding(w)' => worker'[w].index \in 1 .. handed'
    BY <2>1, <2>2, <1>3 DEF Inv, InFlight
  <2>7. \A v, w \in Workers : (Holding(v)' /\ Holding(w)'
           /\ worker'[v].index = worker'[w].index) => v = w
    BY <2>2, <1>3 DEF Inv, InFlight
  <2>8. ASSUME ~cancelled', NEW w \in Workers, Holding(w)'
        PROVE  want' <= worker'[w].index
    <3>1. Holding(w) /\ w # u /\ worker'[w] = worker[w]
      BY <2>2, <2>8, <1>3
    <3>2. want <= worker[w].index /\ worker[w].index # want
      BY <3>1, <2>1, <2>3, <2>8 DEF Inv, InFlight
    <3>3. worker[w].index \in Int
      BY DEF Inv, TypeOK, WorkerStates
    <3> QED BY <3>1, <3>2, <3>3, <2>1 DEF Inv, TypeOK
  <2>9. ASSUME ~cancelled', NEW i \in want' .. handed'
        PROVE  \E w \in Workers : Holding(w)' /\ worker'[w].index = i
    <3>1. PICK w \in Workers : Holding(w) /\ worker[w].index = i
      BY <2>1, <2>4, <2>9 DEF Inv, InFlight
    <3> QED BY <3>1, <2>3, <2>4, <2>9, <1>1, <1>3
  <2> QED BY <2>5, <2>6, <2>7, <2>8, <2>9 DEF InFlight, Holding
<1>7. Taken'
  <2>1. importer # "gone" /\ Len(imported) = want - 1
    BY DEF Deliver, Inv, Taken
  <2>2. CASE worker[u].result = "pack"
    <3>1. imported' = Append(imported, want) /\ importer' = "importing" /\ want' = want + 1
      BY <2>2, <1>1 DEF Deliver
    <3> QED BY <3>1, <2>1, <1>1 DEF Inv, TypeOK, Taken
  <2>3. CASE worker[u].result = "error"
    <3>1. imported' = imported /\ importer' = "gone"
      BY <2>3 DEF Deliver
    <3> QED BY <3>1 DEF Inv, Taken
  <2> QED BY <2>2, <2>3 DEF Deliver
<1> QED BY <1>5, <1>6, <1>7 DEF Inv

\* A worker that leaves before the end of the context held nothing.
LEMMA LeaveInv ==
  ASSUME Inv, NEW u \in Workers, Leave(u)
  PROVE  Inv'
<1>1. \A w \in Workers : w # u => worker'[w] = worker[w]
  BY DEF Leave, Inv, TypeOK
<1>2. worker'[u] = Gone
  BY DEF Leave, Inv, TypeOK
<1>3. ~cancelled => ~Holding(u)
  BY DEF Leave, Leaves, Holding
<1>4. TypeOK'
  BY PrefetchAssumption DEF Inv, TypeOK, Leave, WorkerStates, Gone
<1>5. \A w \in Workers : Holding(w)' => w # u /\ Holding(w)
  BY <1>1, <1>2 DEF Holding, Gone
<1>6. \A w \in Workers : Holding(w) /\ w # u => Holding(w)'
  BY <1>1 DEF Holding
<1>7. UNCHANGED <<want, handed, cancelled, importer, imported>>
  BY DEF Leave
<1>8. InFlight'
  BY <1>1, <1>3, <1>5, <1>6, <1>7, Zenon DEF Inv, InFlight
<1>9. Taken'
  BY <1>7 DEF Inv, Taken
<1> QED BY <1>4, <1>8, <1>9 DEF Inv

\* Steps of the dispatcher's end, the importer and the caller.
LEMMA OtherInv ==
  ASSUME Inv, CloseWork \/ ImportPack \/ GiveUp \/ Cancel
  PROVE  Inv'
<1>1. UNCHANGED <<handed, worker, want, imported>>
  BY DEF CloseWork, ImportPack, GiveUp, Cancel
<1>2. open' \in BOOLEAN /\ cancelled' \in BOOLEAN /\ (~cancelled' => ~cancelled)
  BY DEF Inv, TypeOK, CloseWork, ImportPack, GiveUp, Cancel
<1>3. /\ importer' \in {"receiving", "importing", "gone"}
      /\ importer' # "gone" => importer # "gone"
      /\ importer' = "receiving" => importer = "receiving" \/ want <= N
  BY DEF Inv, TypeOK, CloseWork, ImportPack, GiveUp, Cancel
<1>4. TypeOK'
  BY <1>1, <1>2, <1>3 DEF Inv, TypeOK
<1>5. InFlight'
  BY <1>1, <1>2, Zenon DEF Inv, InFlight, Holding
<1>6. Taken'
  BY <1>1, <1>3 DEF Inv, Taken
<1> QED BY <1>4, <1>5, <1>6 DEF Inv

\* Every step of the pipeline keeps the invariant.
LEMMA StepInv == Inv /\ [Next]_vars => Inv'
<1> SUFFICES ASSUME Inv, [Next]_vars PROVE Inv'
  OBVIOUS
<1>1. CASE UNCHANGED vars
  BY <1>1 DEF vars, Inv, TypeOK, InFlight, Taken, Holding
<1>2. CASE Next
  BY <1>2, DispatchInv, FetchInv, DeliverInv, LeaveInv, OtherInv DEF Next, Run
<1> QED BY <1>1, <1>2

\* Packs are imported in manifest order whatever the number of packs and
\* workers and however downloads, failures and cancellation interleave.
THEOREM ImportOrder == Spec => []InOrder
<1>1. Inv => InOrder
  BY DEF Inv, TypeOK, Taken, InOrder
<1> QED BY InitInv, StepInv, <1>1, PTL DEF Spec

\* Until the context ends, exactly the indexes handed out and not taken are
\* in flight, each with one worker (prefetchPacks).
THEOREM InFlightIsLowest == Spec => []LowestInFlight
<1>1. ASSUME Inv, ~cancelled
      PROVE  {worker[w].index : w \in {v \in Workers : Holding(v)}} = want .. handed
  <2>1. \A w \in Workers : Holding(w) => worker[w].index \in want .. handed
    BY <1>1 DEF Inv, TypeOK, InFlight
  <2>2. \A i \in want .. handed : \E w \in Workers : Holding(w) /\ worker[w].index = i
    BY <1>1 DEF Inv, InFlight
  <2> QED BY <2>1, <2>2
<1>2. Inv => LowestInFlight
  BY <1>1 DEF Inv, InFlight, LowestInFlight
<1> QED BY InitInv, StepInv, <1>2, PTL DEF Spec

\* Type correctness of the pipeline.
THEOREM PrefetchType == Spec => []TypeOK
BY InitInv, StepInv, PTL DEF Spec, Inv
=============================================================================
