------------------------------ MODULE MCSignIn ------------------------------
(* A small instance of SignIn: two servers, a login at a terminal, a       *)
(* logout, two accounts and two sites for one endpoint.                    *)
EXTENDS SignIn

CONSTANTS s2, t1, siteA, siteB, ada, bob, other, team

MCSiteOf == [f \in Flows |-> IF f = Back(s2) THEN siteB ELSE siteA]
MCApprovers == [f \in Flows |-> IF f = t1 THEN {ada, bob} ELSE {ada}]
MCFirstReach == {[a \in Accounts |-> {}],
                 [a \in Accounts |-> IF a = ada THEN {Notes, other} ELSE {other, team}]}
MCAsked == [f \in Flows |-> NoSpace]
MCConsent == [f \in Flows |-> IF f = t1 THEN "ask" ELSE "none"]
=============================================================================
