---------------------------- MODULE ServerProofs ----------------------------
(***************************************************************************)
(* The safety of a serve process for any number of tool calls: one writer  *)
(* of the visible directory, no entry into a freed engine, no unmarked     *)
(* half-written directory.  That everything ends is left to TLC.           *)
(***************************************************************************)
EXTENDS Server, FiniteSetTheorems, TLAPS

\* Where a call holds the service mutex, the semaphore and the lock file.
WithMu == {"open", "init"}
WithSem == {"flock", "work", "native", "stage", "recover", "release"} \cup Rewriting
WithFlock == {"init", "work", "native", "stage", "recover", "release"} \cup Rewriting

\* Each lock is held by the one call, goroutine or process whose place says so.
Holders ==
  /\ \A c \in Calls : pc[c] \in WithMu <=> mu = c
  /\ \A c \in Calls : pc[c] \in WithSem <=> sem = c
  /\ \A c \in Calls : pc[c] \in WithFlock <=> flock = c
  /\ other # "away" <=> flock = Other
  /\ mu = Main <=> phase = "closing"

\* What the shutdown has taken down in each of its phases.
Phases ==
  /\ phase # "serving" => ~conn
  /\ closed <=> phase \in {"closing", "engine", "exit", "exited"}
  /\ engine <=> phase \notin {"exit", "exited"}
  /\ phase \in {"engine", "exit", "exited"} => space # "open"
  /\ closed => \A c \in Calls : pc[c] \notin WithMu
  /\ \A c \in Calls : pc[c] = "native" => space = "open"
  /\ phase \in {"close", "closing", "engine", "exit"} /\ ~forced => Active = {}
  /\ phase = "exited" => Active = {}
  /\ \A c \in Calls : pc[c] = "killed" => forced

\* Whoever may still rewrite L left the durable flag before, and the record
\* is written over a whole tree.
Flags ==
  /\ torn => flagged
  /\ \A c \in Calls : pc[c] \in {"recover", "rewrite", "tearing", "record"} => flagged
  /\ \A c \in Calls : pc[c] = "record" => ~torn
  /\ other = "writes" => flagged

\* A call repairs from the recovery's rewrite until it gives the locks back.
Repairs == \A c \in Calls : c \in repairing => pc[c] \in Rewriting \cup {"release"}

ServerInv == TypeOK /\ Holders /\ Phases /\ Flags /\ Repairs

\* The initial state satisfies the invariant.
LEMMA InitServer == Init => ServerInv
<1> SUFFICES ASSUME Init PROVE ServerInv
  OBVIOUS
<1>1. TypeOK
  <2>1. /\ flagged \in BOOLEAN /\ torn \in BOOLEAN
        /\ {forced, conn, closed, engine} \subseteq BOOLEAN
    BY Zenon DEF Init
  <2> QED BY <2>1, ServerAssumption DEF Init, TypeOK, Active, Gone, InNative, Rewriting
<1>2. Holders
  BY ServerAssumption DEF Init, Holders, WithMu, WithSem, WithFlock, Rewriting,
     Nobody, Main, Other
<1>3. Phases
  BY DEF Init, Phases, WithMu, Active, Gone
<1>4. Flags
  <2>1. torn => flagged
    BY Zenon DEF Init
  <2> QED BY <2>1 DEF Init, Flags
<1>5. Repairs
  BY DEF Init, Repairs
<1> QED BY <1>1, <1>2, <1>3, <1>4, <1>5 DEF ServerInv

\* A call that arrives and opens the workspace: it passes the service mutex and,
\* on first use, the lock file (Service.open, workspace.Open).
LEMMA OpeningServer ==
  ASSUME ServerInv, NEW c \in Calls,
         Arrive(c) \/ TakeMu(c) \/ OpenLock(c) \/ OpenCancelled(c) \/ OpenEnds(c)
  PROVE  ServerInv'
<1> USE ServerAssumption DEF ServerInv, TypeOK, host, locks, disk, rest
<1> USE DEF Arrive, TakeMu, OpenLock, OpenCancelled, OpenEnds, Go, End
<1>1. TypeOK'
  BY DEF Repairs, Active, Gone, InNative, Rewriting
<1>2. Holders'
  BY DEF Holders, WithMu, WithSem, WithFlock, Rewriting, InNative, Gone,
     Nobody, Main, Other
<1>3. Phases'
  BY DEF Holders, Phases, WithMu, Active, Gone, InNative, Rewriting, Nobody,
     Main, Other
<1>4. Flags'
  BY DEF Holders, Flags, WithFlock, Rewriting, InNative, Gone, Nobody, Main,
     Other
<1>5. Repairs'
  BY DEF Repairs, Rewriting
<1> QED BY <1>1, <1>2, <1>3, <1>4, <1>5

\* A call that acquires the operation lock (Workspace.acquire).
LEMMA LockingServer ==
  ASSUME ServerInv, NEW c \in Calls,
         TakeSem(c) \/ SemCancelled(c) \/ TakeFlock(c) \/ FlockCancelled(c)
  PROVE  ServerInv'
<1> USE ServerAssumption DEF ServerInv, TypeOK, host, locks, disk, rest
<1> USE DEF TakeSem, SemCancelled, TakeFlock, FlockCancelled, Go, End
<1>1. TypeOK'
  BY DEF Repairs, Active, Gone, InNative, Rewriting
<1>2. Holders'
  BY DEF Holders, WithMu, WithSem, WithFlock, Rewriting, InNative, Gone,
     Nobody, Main, Other
<1>3. Phases'
  BY DEF Holders, Phases, WithMu, Active, Gone, InNative, Rewriting, Nobody,
     Main, Other
<1>4. Flags'
  BY DEF Holders, Flags, WithFlock, Rewriting, InNative, Gone, Nobody, Main,
     Other
<1>5. Repairs'
  BY DEF Repairs, Rewriting
<1> QED BY <1>1, <1>2, <1>3, <1>4, <1>5

\* A call under the operation lock, up to the durable flag.
LEMMA WorkingServer ==
  ASSUME ServerInv, NEW c \in Calls,
         Work(c) \/ NativeEnds(c) \/ Mark(c) \/ Recover(c)
  PROVE  ServerInv'
<1> USE ServerAssumption DEF ServerInv, TypeOK, host, locks, disk, rest
<1> USE DEF Work, NativeEnds, Mark, Recover, Go, End
<1>1. TypeOK'
  <2>1. {forced, conn, closed, flagged, torn, engine}' \subseteq BOOLEAN
    <3>1. flagged' \in BOOLEAN /\ torn' \in BOOLEAN
      BY Zenon
    <3> QED BY <3>1
  <2>2. pc' \in [Calls -> Gone \cup InNative \cup Rewriting \cup
                {"mu", "open", "sem", "flock", "work", "stage", "recover", "release"}]
    BY DEF InNative, Rewriting
  <2>3. cancelled' \subseteq Active' /\ repairing' \subseteq Active'
    BY DEF Repairs, Active, Gone, InNative, Rewriting
  <2> QED BY <2>1, <2>2, <2>3
<1>2. Holders'
  BY DEF Holders, WithMu, WithSem, WithFlock, Rewriting, InNative, Gone,
     Nobody, Main, Other
<1>3. Phases'
  BY DEF Holders, Phases, WithMu, Active, Gone, InNative, Rewriting, Nobody,
     Main, Other
<1>4. Flags'
  BY DEF Holders, Flags, WithFlock, Rewriting, InNative, Gone, Nobody, Main,
     Other
<1>5. Repairs'
  BY DEF Repairs, Rewriting
<1> QED BY <1>1, <1>2, <1>3, <1>4, <1>5

\* The rewrite of L and the record that ends it (applyLocked).
LEMMA RewritingServer ==
  ASSUME ServerInv, NEW c \in Calls,
         Tear(c) \/ RewriteEnds(c) \/ RewriteFails(c) \/ Record(c)
  PROVE  ServerInv'
<1> USE ServerAssumption DEF ServerInv, TypeOK, host, locks, disk, rest
<1> USE DEF Tear, RewriteEnds, RewriteFails, Record, Go, End
<1>1. TypeOK'
  <2>1. {forced, conn, closed, flagged, torn, engine}' \subseteq BOOLEAN
    <3>1. flagged' \in BOOLEAN /\ torn' \in BOOLEAN
      BY Zenon
    <3> QED BY <3>1
  <2>2. pc' \in [Calls -> Gone \cup InNative \cup Rewriting \cup
                {"mu", "open", "sem", "flock", "work", "stage", "recover", "release"}]
    BY DEF InNative, Rewriting
  <2>3. cancelled' \subseteq Active' /\ repairing' \subseteq Active'
    BY DEF Repairs, Active, Gone, InNative, Rewriting
  <2> QED BY <2>1, <2>2, <2>3
<1>2. Holders'
  BY DEF Holders, WithMu, WithSem, WithFlock, Rewriting, InNative, Gone,
     Nobody, Main, Other
<1>3. Phases'
  BY DEF Holders, Phases, WithMu, Active, Gone, InNative, Rewriting, Nobody,
     Main, Other
<1>4. Flags'
  BY DEF Holders, Flags, WithFlock, Rewriting, InNative, Gone, Nobody, Main,
     Other
<1>5. Repairs'
  BY DEF Repairs, Rewriting
<1> QED BY <1>1, <1>2, <1>3, <1>4, <1>5

\* The end of an operation.
LEMMA ReleaseServer ==
  ASSUME ServerInv, NEW c \in Calls,
         Release(c)
  PROVE  ServerInv'
<1> USE ServerAssumption DEF ServerInv, TypeOK, host, locks, disk, rest
<1> USE DEF Release, Go, End
<1>1. TypeOK'
  BY DEF Repairs, Active, Gone, InNative, Rewriting
<1>2. Holders'
  BY DEF Holders, WithMu, WithSem, WithFlock, Rewriting, InNative, Gone,
     Nobody, Main, Other
<1>3. Phases'
  BY DEF Holders, Phases, WithMu, Active, Gone, InNative, Rewriting, Nobody,
     Main, Other
<1>4. Flags'
  BY DEF Holders, Flags, WithFlock, Rewriting, InNative, Gone, Nobody, Main,
     Other
<1>5. Repairs'
  BY DEF Repairs, Rewriting
<1> QED BY <1>1, <1>2, <1>3, <1>4, <1>5

\* The client and the signal cancel requests; no lock changes hands.
LEMMA ClientServer ==
  ASSUME ServerInv, NEW c \in Calls,
         Cancel(c)
  PROVE  ServerInv'
<1> USE ServerAssumption DEF ServerInv, TypeOK, host, locks, disk, rest
<1> USE DEF Cancel, Go, End
<1>1. TypeOK'
  BY DEF Repairs, Active, Gone, InNative, Rewriting
<1>2. Holders'
  BY DEF Holders, WithMu, WithSem, WithFlock, Rewriting, InNative, Gone,
     Nobody, Main, Other
<1>3. Phases'
  BY DEF Holders, Phases, WithMu, Active, Gone, InNative, Rewriting, Nobody,
     Main, Other
<1>4. Flags'
  BY DEF Holders, Flags, WithFlock, Rewriting, InNative, Gone, Nobody, Main,
     Other
<1>5. Repairs'
  BY DEF Repairs, Rewriting
<1> QED BY <1>1, <1>2, <1>3, <1>4, <1>5

\* The signal and the shutdown, up to the closed service.
LEMMA ClosingServer ==
  ASSUME ServerInv,
         Disconnect \/ Signal \/ Drained \/ Deadline \/ CloseService
  PROVE  ServerInv'
<1> USE ServerAssumption DEF ServerInv, TypeOK, host, locks, disk, rest
<1> USE DEF Disconnect, Signal, Drained, Deadline, CloseService, Step
<1>1. TypeOK'
  BY DEF Repairs, Active, Gone, InNative, Rewriting
<1>2. Holders'
  BY DEF Holders, WithMu, WithSem, WithFlock, Rewriting, InNative, Gone,
     Nobody, Main, Other
<1>3. Phases'
  BY DEF Holders, Phases, WithMu, Active, Gone, InNative, Rewriting, Nobody,
     Main, Other
<1>4. Flags'
  BY DEF Holders, Flags, WithFlock, Rewriting, InNative, Gone, Nobody, Main,
     Other
<1>5. Repairs'
  BY DEF Repairs, Rewriting
<1> QED BY <1>1, <1>2, <1>3, <1>4, <1>5

\* The workspace and the engine are closed under calls that may still run.
LEMMA FreeingServer ==
  ASSUME ServerInv,
         CloseWorkspace \/ CloseEngine
  PROVE  ServerInv'
<1> USE ServerAssumption DEF ServerInv, TypeOK, host, locks, disk, rest
<1> USE DEF CloseWorkspace, CloseEngine, Step
<1>1. TypeOK'
  BY DEF Repairs, Active, Gone, InNative, Rewriting
<1>2. Holders'
  BY DEF Holders, WithMu, WithSem, WithFlock, Rewriting, InNative, Gone,
     Nobody, Main, Other
<1>3. Phases'
  BY DEF Holders, Phases, WithMu, Active, Gone, InNative, Rewriting, Nobody,
     Main, Other
<1>4. Flags'
  BY DEF Holders, Flags, WithFlock, Rewriting, InNative, Gone, Nobody, Main,
     Other
<1>5. Repairs'
  BY DEF Repairs, Rewriting
<1> QED BY <1>1, <1>2, <1>3, <1>4, <1>5

\* The other process of this directory, under the same lock file.
LEMMA OtherServer ==
  ASSUME ServerInv,
         OtherTakes \/ OtherWrites \/ OtherEnds
  PROVE  ServerInv'
<1> USE ServerAssumption DEF ServerInv, TypeOK, host, locks, disk, rest
<1> USE DEF OtherTakes, OtherWrites, OtherEnds, Step
<1>1. TypeOK'
  <2>1. turns' \in 0 .. MaxOther
    OBVIOUS
  <2>2. flagged' \in BOOLEAN /\ torn' \in BOOLEAN
    OBVIOUS
  <2> QED BY <2>1, <2>2 DEF Active, Gone, InNative, Rewriting
<1>2. Holders'
  BY DEF Holders, WithMu, WithSem, WithFlock, Rewriting, InNative, Gone,
     Nobody, Main, Other
<1>3. Phases'
  BY DEF Holders, Phases, WithMu, Active, Gone, InNative, Rewriting, Nobody,
     Main, Other
<1>4. Flags'
  BY DEF Holders, Flags, WithFlock, Rewriting, InNative, Gone, Nobody, Main,
     Other
<1>5. Repairs'
  BY DEF Repairs, Rewriting
<1> QED BY <1>1, <1>2, <1>3, <1>4, <1>5

\* The end of the process leaves no call, and only the other process's lock.
LEMMA ExitServer ==
  ASSUME ServerInv, Exit
  PROVE  ServerInv'
<1> USE ServerAssumption DEF ServerInv, TypeOK, Exit, Step, disk, rest
<1>1. \A c \in Calls : pc'[c] \in Gone
  BY DEF Active, Gone
<1>2. TypeOK'
  BY DEF Active, Gone, InNative, Rewriting
<1>3. Holders'
  BY <1>1 DEF Holders, WithMu, WithSem, WithFlock, Rewriting, Gone, Nobody,
     Main, Other
<1>4. Phases'
  BY DEF Phases, WithMu, Active, Gone, InNative, Rewriting
<1>5. Flags'
  BY <1>1 DEF Flags, Gone
<1>6. Repairs'
  BY DEF Repairs
<1> QED BY <1>2, <1>3, <1>4, <1>5, <1>6

\* Every step of the process and of its environment keeps the invariant.
LEMMA StepServer == ServerInv /\ [Next]_vars => ServerInv'
<1> SUFFICES ASSUME ServerInv, [Next]_vars PROVE ServerInv'
  OBVIOUS
<1>1. CASE UNCHANGED vars
  BY <1>1 DEF vars, host, locks, disk, rest, ServerInv, TypeOK, Holders, Phases,
     Flags, Repairs, Active
<1>2. CASE Next
  BY <1>2, OpeningServer, LockingServer, WorkingServer, RewritingServer,
     ReleaseServer, ClientServer, ClosingServer, FreeingServer, ExitServer,
     OtherServer DEF Next, CallStep, Shutdown
<1> QED BY <1>1, <1>2

\* The invariant holds in every reachable state.
THEOREM ServerInvariant == Spec => []ServerInv
BY InitServer, StepServer, PTL DEF Spec

\* For any number of calls and turns of the other process the visible directory
\* has one writer, also while the workspace is closed under a running rewrite.
THEOREM OneWriterAtATime == Spec => []OneWriter
<1>1. ASSUME ServerInv PROVE OneWriter
  <2> DEFINE W == {c \in Calls : pc[c] \in Rewriting} \cup
                  {Other : x \in {other} \cap {"writes"}}
  <2>1. \A w \in W : w = flock
    BY <1>1 DEF ServerInv, Holders, WithFlock
  <2>2. W \in SUBSET {flock}
    BY <2>1
  <2>3. IsFiniteSet({flock}) /\ Cardinality({flock}) = 1
    BY FS_Singleton
  <2>4. IsFiniteSet(W) /\ Cardinality(W) <= Cardinality({flock})
    BY <2>2, <2>3, FS_Subset
  <2> QED BY <2>3, <2>4, FS_CardinalityType DEF OneWriter
<1> QED BY <1>1, ServerInvariant, PTL

\* For any number of calls no call is inside libgit2 after Runtime.Close shut it
\* down, and only an expired deadline ends the process under a running call.
THEOREM ShutdownOrder == Spec => []ShutdownInOrder
<1>1. ServerInv => ShutdownInOrder
  BY DEF ServerInv, TypeOK, Holders, Phases, ShutdownInOrder, NativeNeedsEngine,
     CutOnlyByDeadline, InNative, WithMu
<1> QED BY <1>1, ServerInvariant, PTL

\* For any number of calls a half-written directory is marked for recovery,
\* whatever cut its rewrite short.
THEOREM TornDirectoryFlagged == Spec => []TornIsFlagged
<1>1. ServerInv => TornIsFlagged
  BY DEF ServerInv, Flags, TornIsFlagged
<1> QED BY <1>1, ServerInvariant, PTL
=============================================================================
