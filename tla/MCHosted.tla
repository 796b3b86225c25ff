------------------------------ MODULE MCHosted -----------------------------
(* A small instance of Hosted: two calls at once, two spaces, a login that *)
(* may write and a fixed token that may not.                               *)
EXTENDS Hosted
MCGrants == {<<"login", FALSE>>, <<"fixed", TRUE>>}
=============================================================================
