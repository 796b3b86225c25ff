---------------------------- MODULE MCEncryption ----------------------------
(* TLC instances of Encryption.                                             *)
EXTENDS Encryption, TLC

CONSTANTS p1, p2

\* No machine has a passphrase in its environment: a secret is prompted for or
\* comes from the key record.
MCEnv == [p \in Procs |-> NoSecret]

\* One machine owns the key, the other one writes and changes its passphrase.
MCCommands == p1 :> {"pull", "init", "rekey"} @@ p2 :> {"pull", "commit", "passwd", "recovery"}
=============================================================================
