----------------------------- MODULE NotebookLog -----------------------------
(***************************************************************************)
(* What a notebook promises its writers: one log of publications, each     *)
(* made once and never taken back; per workspace a place in the log that   *)
(* only moves forward; and a writer that learns its publication was        *)
(* accepted either records the log up to it or dies.                       *)
(***************************************************************************)
EXTENDS Naturals, Sequences

CONSTANTS Workspaces,   \* the directories notebooks are pulled into
          None          \* no publication

VARIABLES log,          \* the publications in the order they were accepted
          seen,         \* per workspace: the length of the log it has recorded
          owed          \* per workspace: its accepted publication, unrecorded

Init == /\ log = <<>>
        /\ seen = [w \in Workspaces |-> 0]
        /\ owed = [w \in Workspaces |-> None]

Owe(w, p) == owed[w] = None /\ owed' = [owed EXCEPT ![w] = p]

\* A publication enters the log; its writer hears of it now, later or never.
Publish(p) ==
    /\ \A i \in DOMAIN log : log[i] # p
    /\ log' = Append(log, p)
    /\ UNCHANGED owed \/ \E w \in Workspaces : Owe(w, p)
    /\ UNCHANGED seen

\* A writer whose answer was lost finds its publication in the log.
Learn(w) ==
    /\ \E i \in DOMAIN log : Owe(w, log[i])
    /\ UNCHANGED <<log, seen>>

Record(w) ==
    /\ \E i \in seen[w] + 1 .. Len(log) :
         log[i] = owed[w] /\ seen' = [seen EXCEPT ![w] = i]
    /\ owed' = [owed EXCEPT ![w] = None]
    /\ UNCHANGED log

\* The writer fails or dies before it records.
Forget(w) ==
    /\ owed' = [owed EXCEPT ![w] = None]
    /\ UNCHANGED <<log, seen>>

\* A pull or a recovery.
CatchUp(w) ==
    /\ owed[w] = None
    /\ \E n \in seen[w] + 1 .. Len(log) : seen' = [seen EXCEPT ![w] = n]
    /\ UNCHANGED <<log, owed>>

Next == \/ \E i \in DOMAIN log' : Publish(log'[i])
        \/ \E w \in Workspaces : Learn(w) \/ Record(w) \/ Forget(w) \/ CatchUp(w)

Spec == Init /\ [][Next]_<<log, seen, owed>>
=============================================================================
