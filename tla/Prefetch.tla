------------------------------ MODULE Prefetch ------------------------------
(***************************************************************************)
(* The pack download pipeline of one import: a dispatcher goroutine hands  *)
(* out pack indexes in order, a bounded set of workers download them, and  *)
(* the importer takes them in order through one unbuffered channel each.   *)
(* All of them select on one context, which the importer cancels when it   *)
(* leaves and the caller may cancel at any time.                           *)
(***************************************************************************)
EXTENDS Integers, Sequences, FiniteSets

CONSTANTS
  N,         \* packs to fetch
  Workers    \* worker goroutines: min(packFetchConcurrency, N) in the code

ASSUME PrefetchAssumption == N \in Nat \ {0} /\ Workers # {}

VARIABLES
  handed,     \* indexes the dispatcher has handed out
  open,       \* the dispatcher runs and the work channel is open
  worker,     \* per worker: what it does, on which index, with which result
  want,       \* index the importer needs next
  importer,   \* "receiving", "importing" or "gone"
  imported,   \* indexes imported, in order
  cancelled   \* the pipeline's context has ended

vars == <<handed, open, worker, want, importer, imported, cancelled>>

WorkerStates ==
  [doing : {"waiting", "fetching", "delivering", "gone"}, index : 0 .. N,
   result : {"none", "pack", "error"}]

Waiting == [doing |-> "waiting", index |-> 0, result |-> "none"]
Gone == [doing |-> "gone", index |-> 0, result |-> "none"]

TypeOK ==
  /\ handed \in 0 .. N
  /\ open \in BOOLEAN
  /\ worker \in [Workers -> WorkerStates]
  /\ want \in 1 .. N + 1
  /\ importer \in {"receiving", "importing", "gone"}
  /\ imported \in Seq(1 .. N)
  /\ cancelled \in BOOLEAN

Init ==
  /\ handed = 0
  /\ open = TRUE
  /\ worker = [w \in Workers |-> Waiting]
  /\ want = 1
  /\ importer = "receiving"
  /\ imported = <<>>
  /\ cancelled = FALSE

-----------------------------------------------------------------------------
(* Dispatcher.                                                              *)

\* Some index is still to be handed out.
More == handed < N

\* The index handed out next.
MutantNextIndex == N - handed

NextIndex == handed + 1

Dispatch(w) ==
  /\ open
  /\ More
  /\ worker[w].doing = "waiting"
  /\ handed' = handed + 1
  /\ worker' = [worker EXCEPT ![w] = [doing |-> "fetching", index |-> NextIndex,
                                      result |-> "none"]]
  /\ UNCHANGED <<open, want, importer, imported, cancelled>>

\* Every index is handed out, or the context ended: the work channel closes.
CloseWork ==
  /\ open
  /\ handed = N \/ cancelled
  /\ open' = FALSE
  /\ UNCHANGED <<handed, worker, want, importer, imported, cancelled>>

-----------------------------------------------------------------------------
(* Workers.                                                                 *)

\* ensurePack returns; a cancelled one mostly fails, but may have finished.
Fetch(w) ==
  /\ worker[w].doing = "fetching"
  /\ \E result \in {"pack", "error"} :
       worker' = [worker EXCEPT ![w] = [doing |-> "delivering", result |-> result,
                                        index |-> worker[w].index]]
  /\ UNCHANGED <<handed, open, want, importer, imported, cancelled>>

\* The rendezvous on results[want].
MutantMeets(w) == worker[w].doing = "delivering"

Meets(w) == worker[w].doing = "delivering" /\ worker[w].index = want

Deliver(w) ==
  /\ importer = "receiving"
  /\ want <= N
  /\ Meets(w)
  /\ worker' = [worker EXCEPT ![w] = Waiting]
  /\ want' = want + 1
  /\ \/ /\ worker[w].result = "pack"
        /\ importer' = "importing"
        /\ imported' = Append(imported, worker[w].index)
        /\ UNCHANGED cancelled
     \/ /\ worker[w].result = "error"
        /\ importer' = "gone"
        /\ cancelled' = TRUE
        /\ UNCHANGED imported
  /\ UNCHANGED <<handed, open>>

\* A worker leaves when its delivery is cancelled or no work is left.
MutantLeaves(w) == worker[w].doing = "waiting" /\ ~open

Leaves(w) ==
  \/ worker[w].doing = "delivering" /\ cancelled
  \/ worker[w].doing = "waiting" /\ ~open

Leave(w) ==
  /\ Leaves(w)
  /\ worker' = [worker EXCEPT ![w] = Gone]
  /\ UNCHANGED <<handed, open, want, importer, imported, cancelled>>

-----------------------------------------------------------------------------
(* Importer.                                                                *)

\* ImportPack and MarkShallow: on success the next index is wanted, or the
\* import is complete; a failure ends it.  stop() is deferred.
ImportPack ==
  /\ importer = "importing"
  /\ \/ /\ want <= N
        /\ importer' = "receiving"
        /\ UNCHANGED cancelled
     \/ /\ importer' = "gone"
        /\ cancelled' = TRUE
  /\ UNCHANGED <<handed, open, worker, want, imported>>

\* next() sees the end of the context.
GiveUp ==
  /\ importer = "receiving"
  /\ cancelled
  /\ importer' = "gone"
  /\ UNCHANGED <<handed, open, worker, want, imported, cancelled>>

\* The caller's context ends.
Cancel ==
  /\ ~cancelled
  /\ cancelled' = TRUE
  /\ UNCHANGED <<handed, open, worker, want, importer, imported>>

AllGone == importer = "gone" /\ ~open /\ \A w \in Workers : worker[w].doing = "gone"

-----------------------------------------------------------------------------
Run ==
  \/ \E w \in Workers : Dispatch(w) \/ Fetch(w) \/ Deliver(w) \/ Leave(w)
  \/ CloseWork
  \/ ImportPack
  \/ GiveUp

Next == Run \/ Cancel

Spec == Init /\ [][Next]_vars

\* Goroutines are scheduled and a download ends by its context; the caller
\* need not cancel.
FairSpec == Spec /\ WF_vars(Run)

-----------------------------------------------------------------------------
(* Properties.                                                              *)

\* The importer gets the packs in manifest order, without gap or repetition,
\* however the downloads finish: increments land on their boundary.
InOrder == \A i \in DOMAIN imported : imported[i] = i

\* The indexes in flight are exactly those handed out and not yet taken, so
\* the one the importer needs is in flight or the next to be handed out: no
\* worker holds a later pack while an earlier one waits for a worker.
Holding(w) == worker[w].doing \in {"fetching", "delivering"}

LowestInFlight ==
  ~cancelled =>
    /\ {worker[w].index : w \in {v \in Workers : Holding(v)}} = want .. handed
    /\ \A v, w \in Workers :
         (Holding(v) /\ Holding(w) /\ worker[v].index = worker[w].index) => v = w

\* The import ends and no goroutine outlives it: everyone waiting on everyone
\* never happens.
EveryoneLeaves == <>AllGone
=============================================================================
