--------------------------- MODULE PublicationLog ---------------------------
(***************************************************************************)
(* The writers of Publication together implement the log of NotebookLog.   *)
(***************************************************************************)
EXTENDS Publication

\* Where a head stands in a history of accepted heads; 0 for no head.
Place(acc, head) ==
  IF head = NoID THEN 0 ELSE CHOOSE i \in DOMAIN acc : acc[i] = head

Seen == [w \in Writers |-> Place(accepted, baseline[w].head)]

Owed == [w \in Writers |-> IF job[w].pc = "accept" THEN job[w].prop.pub ELSE NoID]

Abstract == INSTANCE NotebookLog WITH
  Workspaces <- Writers, None <- NoID, log <- accepted, seen <- Seen, owed <- Owed

\* Each accepted head is one publication, made once; a commit that learns of
\* its acceptance, at once or by lookupPublication, records the baseline at
\* its own publication and not elsewhere; and a recorded baseline moves only
\* forward along the accepted heads, through pulls, recoveries, lost responses
\* and checkpoints (publish, Accept, recoverState).
ImplementsLog == Abstract!Spec
=============================================================================
