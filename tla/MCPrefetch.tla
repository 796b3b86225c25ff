----------------------------- MODULE MCPrefetch -----------------------------
(* TLC instances of Prefetch.                                               *)
EXTENDS Prefetch, TLC
=============================================================================
