------------------------------- MODULE Server -------------------------------
(* One `slivingdoc serve` process: the tool calls of its MCP session, the   *)
(* notebook service that opens the workspace on first use, the operation    *)
(* lock those calls and another process on the same directory wait for,     *)
(* and the bounded shutdown that closes the service, the workspace and the  *)
(* native engine while calls may still be running.                          *)
(*   internal/app/app.go, internal/app/service.go, internal/mcp/server.go,  *)
(*   internal/workspace/workspace.go, internal/git2/engine.go               *)
EXTENDS Integers, FiniteSets

CONSTANTS
  Calls,      \* the tool calls the client may send
  MaxOther    \* how often another process takes the operation lock

Nobody == "nobody"      \* a lock nobody holds
Main   == "main"        \* the goroutine that serves and shuts down
Other  == "other"       \* the other process of this directory

ASSUME ServerAssumption ==
  IsFiniteSet(Calls) /\ Calls \cap {Nobody, Main, Other} = {} /\ MaxOther \in Nat

VARIABLES
  phase,      \* where the main goroutine is
  forced,     \* the shutdown deadline expired before the calls ended
  conn,       \* the transport is live
  pc,         \* where each call is
  cancelled,  \* the calls whose request context is cancelled
  repairing,  \* the calls whose rewrite of L is the recovery's
  mu,         \* holder of Service.mu
  closed,     \* Service.closed
  space,      \* the service's workspace: "none", "open" or "closed"
  sem,        \* holder of the workspace's in-process semaphore
  flock,      \* holder of the advisory lock file in P
  flagged,    \* state.json says recoveryRequired
  torn,       \* L is between two trees
  engine,     \* libgit2 is initialised
  other,      \* where the other process is
  turns       \* how often it took the lock

locks == <<mu, sem, flock>>
disk  == <<flagged, torn>>
rest  == <<other, turns>>
host  == <<phase, forced, conn, closed, engine>>
vars  == <<host, pc, cancelled, repairing, space, locks, disk, rest>>

(* Inside libgit2: opening the repository, or one call of an operation.     *)
InNative == {"init", "native"}
(* Rewriting L under the operation lock.                                    *)
Rewriting == {"rewrite", "tearing", "record"}
Gone == {"idle", "ended", "killed"}

Active == {c \in Calls : pc[c] \notin Gone}

Go(c, at) == pc' = [pc EXCEPT ![c] = at]

(* The handler returns: a tool result, or a protocol error for a cancelled  *)
(* request.                                                                 *)
End(c) == Go(c, "ended") /\ cancelled' = cancelled \ {c}

-----------------------------------------------------------------------------
(* A tool call (handler.pull, handler.commit).                              *)

(* The arguments are decoded first; a refusal never reaches the service.    *)
Arrive(c) ==
  /\ conn /\ pc[c] = "idle"
  /\ \/ Go(c, "mu")
     \/ Go(c, "ended")
  /\ UNCHANGED <<host, cancelled, repairing, space, locks, disk, rest>>

(* Service.open under the map lock: refused once the service is closed, the *)
(* workspace of an earlier call, or the first use, which opens it and keeps *)
(* the lock meanwhile.                                                      *)
TakeMu(c) ==
  /\ pc[c] = "mu" /\ mu = Nobody
  /\ \/ closed /\ End(c) /\ UNCHANGED mu
     \/ ~closed /\ space # "none" /\ Go(c, "sem") /\ UNCHANGED <<mu, cancelled>>
     \/ ~closed /\ space = "none" /\ mu' = c /\ Go(c, "open") /\ UNCHANGED cancelled
  /\ UNCHANGED <<host, repairing, space, sem, flock, disk, rest>>

(* workspace.Open initialises P under the lock file, which it waits for     *)
(* until the request context ends.                                          *)
OpenLock(c) ==
  /\ pc[c] = "open" /\ flock = Nobody
  /\ flock' = c /\ Go(c, "init")
  /\ UNCHANGED <<host, cancelled, repairing, space, mu, sem, disk, rest>>

MutantOpenCancelled(c) ==
  /\ pc[c] = "open" /\ c \in cancelled /\ flock = Nobody
  /\ mu' = Nobody /\ End(c)
  /\ UNCHANGED <<host, repairing, space, sem, flock, disk, rest>>

OpenCancelled(c) ==
  /\ pc[c] = "open" /\ c \in cancelled
  /\ mu' = Nobody /\ End(c)
  /\ UNCHANGED <<host, repairing, space, sem, flock, disk, rest>>

(* openPrivateState creates or opens the repository, or fails; either way   *)
(* both locks go.                                                           *)
OpenEnds(c) ==
  /\ pc[c] = "init"
  /\ mu' = Nobody /\ flock' = Nobody
  /\ \/ space' = "open" /\ Go(c, "sem") /\ UNCHANGED cancelled
     \/ End(c) /\ UNCHANGED space
  /\ UNCHANGED <<host, repairing, sem, disk, rest>>

(* Workspace.acquire: the semaphore, then a closed workspace is refused.    *)
TakeSem(c) ==
  /\ pc[c] = "sem" /\ sem = Nobody
  /\ \/ space = "closed" /\ End(c) /\ UNCHANGED sem
     \/ space = "open" /\ sem' = c /\ Go(c, "flock") /\ UNCHANGED cancelled
  /\ UNCHANGED <<host, repairing, space, mu, flock, disk, rest>>

SemCancelled(c) ==
  /\ pc[c] = "sem" /\ c \in cancelled
  /\ End(c)
  /\ UNCHANGED <<host, repairing, space, locks, disk, rest>>

(* The lock file, then refreshState rereads the durable record: a call on a *)
(* workspace that requires recovery only recovers it.                       *)
TakeFlock(c) ==
  /\ pc[c] = "flock" /\ flock = Nobody
  /\ flock' = c
  /\ Go(c, IF flagged THEN "recover" ELSE "work")
  /\ UNCHANGED <<host, cancelled, repairing, space, mu, sem, disk, rest>>

MutantFlockCancelled(c) ==
  /\ pc[c] = "flock" /\ c \in cancelled
  /\ End(c)
  /\ UNCHANGED <<host, repairing, space, locks, disk, rest>>

FlockCancelled(c) ==
  /\ pc[c] = "flock" /\ c \in cancelled
  /\ sem' = Nobody /\ End(c)
  /\ UNCHANGED <<host, repairing, space, mu, flock, disk, rest>>

(* The operation reads R and merges. Every native call checks that the      *)
(* repository and the engine are open; a failed or cancelled read, or a     *)
(* refusal, ends the operation with L as it was.                            *)
Work(c) ==
  /\ pc[c] = "work"
  /\ \/ space = "open" /\ engine /\ Go(c, "native")
     \/ Go(c, "release")
  /\ UNCHANGED <<host, cancelled, repairing, space, locks, disk, rest>>

NativeEnds(c) ==
  /\ pc[c] = "native"
  /\ Go(c, "stage")
  /\ UNCHANGED <<host, cancelled, repairing, space, locks, disk, rest>>

(* withOpLock refuses a closed workspace, writeStage stops at a cancelled   *)
(* context or a failed write, all before L changes; then the recovery flag  *)
(* is made durable.                                                         *)
Mark(c) ==
  /\ pc[c] = "stage"
  /\ \/ space = "open" /\ c \notin cancelled /\ flagged' = TRUE /\ Go(c, "rewrite")
     \/ Go(c, "release") /\ UNCHANGED flagged
  /\ UNCHANGED <<host, cancelled, repairing, space, locks, torn, rest>>

(* applyInPlace works through the workspace root, which Close closes.       *)
Tear(c) ==
  /\ pc[c] = "rewrite" /\ space = "open"
  /\ torn' = TRUE /\ Go(c, "tearing")
  /\ UNCHANGED <<host, cancelled, repairing, space, locks, flagged, rest>>

RewriteEnds(c) ==
  /\ pc[c] = "tearing" /\ space = "open"
  /\ torn' = FALSE /\ Go(c, "record")
  /\ UNCHANGED <<host, cancelled, repairing, space, locks, flagged, rest>>

MutantRewriteFails(c) ==
  /\ pc[c] \in {"rewrite", "tearing"}
  /\ Go(c, "record")
  /\ UNCHANGED <<host, cancelled, repairing, space, locks, disk, rest>>

(* A closed root, a cancelled context or a failed write stops the copy.     *)
(* applyLocal then recovers, unless the rewrite was the recovery itself.    *)
RewriteFails(c) ==
  /\ pc[c] \in {"rewrite", "tearing"}
  /\ Go(c, IF c \in repairing THEN "release" ELSE "recover")
  /\ UNCHANGED <<host, cancelled, repairing, space, locks, disk, rest>>

(* The record is written by path in P, whatever became of the root.         *)
Record(c) ==
  /\ pc[c] = "record"
  /\ flagged' = FALSE /\ Go(c, "release")
  /\ UNCHANGED <<host, cancelled, repairing, space, locks, torn, rest>>

(* recoverState reads the accepted state with the call's own context and    *)
(* hands it to Recover, which refuses a closed workspace.                   *)
Recover(c) ==
  /\ pc[c] = "recover"
  /\ \/ space = "open" /\ c \notin cancelled
        /\ repairing' = repairing \cup {c} /\ Go(c, "rewrite")
     \/ Go(c, "release") /\ UNCHANGED repairing
  /\ UNCHANGED <<host, cancelled, space, locks, disk, rest>>

Release(c) ==
  /\ pc[c] = "release"
  /\ flock' = Nobody /\ sem' = Nobody
  /\ repairing' = repairing \ {c}
  /\ End(c)
  /\ UNCHANGED <<host, space, mu, disk, rest>>

CallStep(c) ==
  \/ TakeMu(c) \/ OpenLock(c) \/ OpenCancelled(c) \/ OpenEnds(c)
  \/ TakeSem(c) \/ SemCancelled(c) \/ TakeFlock(c) \/ FlockCancelled(c)
  \/ Work(c) \/ NativeEnds(c) \/ Mark(c) \/ Tear(c) \/ RewriteEnds(c)
  \/ RewriteFails(c) \/ Record(c) \/ Recover(c) \/ Release(c)

-----------------------------------------------------------------------------
(* The client, and the signal that stops the process.                       *)

Cancel(c) ==
  /\ conn /\ c \in Active
  /\ cancelled' = cancelled \cup {c}
  /\ UNCHANGED <<host, pc, repairing, space, locks, disk, rest>>

(* The client closes the transport: the SDK cancels every request.          *)
Disconnect ==
  /\ conn
  /\ conn' = FALSE /\ cancelled' = Active
  /\ UNCHANGED <<phase, forced, closed, engine, pc, repairing, space, locks, disk, rest>>

(* serve on a termination signal: cancel, close the connection, start the   *)
(* deadline.                                                                *)
Signal ==
  /\ phase = "serving"
  /\ phase' = "stopping" /\ conn' = FALSE /\ cancelled' = Active
  /\ UNCHANGED <<forced, closed, engine, pc, repairing, space, locks, disk, rest>>

-----------------------------------------------------------------------------
(* The main goroutine: serve returns, then Runtime.Close.                   *)

Step(from, to) == phase = from /\ phase' = to

MutantDrained ==
  /\ ~conn
  /\ Step("serving", "close") \/ Step("stopping", "close")
  /\ UNCHANGED <<forced, conn, closed, engine, pc, cancelled, repairing, space, locks, disk, rest>>

(* srv.Serve returns once the transport is gone and the handlers are back.  *)
Drained ==
  /\ ~conn /\ Active = {}
  /\ Step("serving", "close") \/ Step("stopping", "close")
  /\ UNCHANGED <<forced, conn, closed, engine, pc, cancelled, repairing, space, locks, disk, rest>>

Deadline ==
  /\ Active # {}
  /\ Step("stopping", "close") /\ forced' = TRUE
  /\ UNCHANGED <<conn, closed, engine, pc, cancelled, repairing, space, locks, disk, rest>>

MutantCloseService ==
  /\ Step("close", "closing")
  /\ mu' = Main /\ closed' = TRUE
  /\ UNCHANGED <<forced, conn, engine, pc, cancelled, repairing, space, sem, flock, disk, rest>>

(* Service.Close takes the map lock, so an open in progress ends first.     *)
CloseService ==
  /\ mu = Nobody
  /\ Step("close", "closing")
  /\ mu' = Main /\ closed' = TRUE
  /\ UNCHANGED <<forced, conn, engine, pc, cancelled, repairing, space, sem, flock, disk, rest>>

MutantCloseWorkspace ==
  /\ \A c \in Calls : pc[c] # "native"
  /\ Step("closing", "engine")
  /\ mu' = Nobody /\ flock' = Nobody
  /\ space' = IF space = "open" THEN "closed" ELSE space
  /\ UNCHANGED <<forced, conn, closed, engine, pc, cancelled, repairing, sem, disk, rest>>

(* Workspace.Close closes the repository, whose mutex a native call holds,  *)
(* and the root. The locks of a running operation stay with it.             *)
CloseWorkspace ==
  /\ \A c \in Calls : pc[c] # "native"
  /\ Step("closing", "engine")
  /\ mu' = Nobody
  /\ space' = IF space = "open" THEN "closed" ELSE space
  /\ UNCHANGED <<forced, conn, closed, engine, pc, cancelled, repairing, sem, flock, disk, rest>>

CloseEngine ==
  /\ Step("engine", "exit")
  /\ engine' = FALSE
  /\ UNCHANGED <<forced, conn, closed, pc, cancelled, repairing, space, locks, disk, rest>>

(* The process ends: whatever still ran is gone, and the operating system   *)
(* releases its lock file.                                                  *)
Exit ==
  /\ Step("exit", "exited")
  /\ pc' = [c \in Calls |-> IF c \in Active THEN "killed" ELSE pc[c]]
  /\ cancelled' = {} /\ repairing' = {}
  /\ mu' = Nobody /\ sem' = Nobody
  /\ flock' = IF flock = Other THEN Other ELSE Nobody
  /\ UNCHANGED <<forced, conn, closed, engine, space, disk, rest>>

Shutdown == Drained \/ Deadline \/ CloseService \/ CloseWorkspace \/ CloseEngine \/ Exit

-----------------------------------------------------------------------------
(* Another process on the same directory, under the same lock file.         *)

OtherTakes ==
  /\ flock = Nobody /\ turns < MaxOther
  /\ flock' = Other /\ other' = "reads" /\ turns' = turns + 1
  /\ UNCHANGED <<host, pc, cancelled, repairing, space, mu, sem, disk>>

OtherWrites ==
  /\ other = "reads"
  /\ other' = "writes" /\ flagged' = TRUE /\ torn' = TRUE
  /\ UNCHANGED <<host, pc, cancelled, repairing, space, locks, turns>>

OtherEnds ==
  /\ other # "away"
  /\ other' = "away" /\ flock' = Nobody
  /\ \/ other = "writes" /\ flagged' = FALSE /\ torn' = FALSE
     \/ UNCHANGED disk
  /\ UNCHANGED <<host, pc, cancelled, repairing, space, mu, sem, turns>>

-----------------------------------------------------------------------------
Init ==
  /\ phase = "serving" /\ forced = FALSE /\ conn = TRUE
  /\ pc = [c \in Calls |-> "idle"]
  /\ cancelled = {} /\ repairing = {}
  /\ mu = Nobody /\ sem = Nobody /\ flock = Nobody
  /\ closed = FALSE /\ space = "none" /\ engine = TRUE
  /\ flagged \in BOOLEAN /\ torn \in {FALSE, flagged}
  /\ other = "away" /\ turns = 0

Next ==
  \/ \E c \in Calls : Arrive(c) \/ CallStep(c) \/ Cancel(c)
  \/ Disconnect \/ Signal \/ Shutdown
  \/ OtherTakes \/ OtherWrites \/ OtherEnds

Spec == Init /\ [][Next]_vars

(* Goroutines run; nothing makes the other process finish.                  *)
FairSpec ==
  /\ Spec
  /\ WF_vars(Shutdown)
  /\ \A c \in Calls : WF_vars(CallStep(c))

-----------------------------------------------------------------------------
TypeOK ==
  /\ phase \in {"serving", "stopping", "close", "closing", "engine", "exit", "exited"}
  /\ {forced, conn, closed, flagged, torn, engine} \subseteq BOOLEAN
  /\ pc \in [Calls -> Gone \cup InNative \cup Rewriting \cup
                      {"mu", "open", "sem", "flock", "work", "stage", "recover", "release"}]
  /\ cancelled \subseteq Active /\ repairing \subseteq Active
  /\ mu \in Calls \cup {Nobody, Main}
  /\ sem \in Calls \cup {Nobody}
  /\ flock \in Calls \cup {Nobody, Other}
  /\ space \in {"none", "open", "closed"}
  /\ other \in {"away", "reads", "writes"} /\ turns \in 0..MaxOther

(* The visible directory has one writer at a time, of this process's calls  *)
(* and the other process, also while a forced shutdown closes the workspace *)
(* under a call that is still rewriting it (Workspace.Close).               *)
OneWriter ==
  Cardinality({c \in Calls : pc[c] \in Rewriting} \cup
              {Other : x \in {other} \cap {"writes"}}) <= 1

(* No call is inside libgit2 once Runtime.Close has shut it down: a call    *)
(* that outlives the deadline cannot reach freed native state               *)
(* (Service.Close before engine.Close, repository.usable).                  *)
NativeNeedsEngine == (\E c \in Calls : pc[c] \in InNative) => engine

(* A visible directory between two trees is always one the durable record   *)
(* marks for recovery, whatever cut the rewrite short: a cancelled request, *)
(* the workspace closed under it, or the end of a process.                  *)
TornIsFlagged == torn => flagged

(* Only an expired deadline ends the process under a running call: a client *)
(* that disconnects, or a shutdown in time, waits for the handlers (serve). *)
CutOnlyByDeadline == (\E c \in Calls : pc[c] = "killed") => forced

(* A shutdown takes things down in order: calls before the process, libgit2 *)
(* after the last call that may enter it (serve, Runtime.Close).            *)
ShutdownInOrder == NativeNeedsEngine /\ CutOnlyByDeadline

(* A termination signal ends the process, even while another process keeps  *)
(* the operation lock a call waits for (serve, Runtime.Close).              *)
SignalEnds == phase = "stopping" ~> phase = "exited"

(* Every call ends, answered or with its process, as long as the other      *)
(* process gives the operation lock back: no path through the locks leaves  *)
(* one held (Workspace.acquire).                                            *)
CallsEnd ==
  WF_vars(OtherEnds) => \A c \in Calls : (c \in Active) ~> (c \notin Active)

(* Nothing waits for ever: the signal ends the process, and calls end.      *)
EverythingEnds == SignalEnds /\ CallsEnd
=============================================================================
