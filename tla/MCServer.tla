------------------------------ MODULE MCServer ------------------------------
(* TLC instance of Server.                                                  *)
EXTENDS Server
=============================================================================
