---------------------------- MODULE MCPublication ----------------------------
(* TLC instances of Publication.                                            *)
EXTENDS PublicationHistory, TLC

WriterSymmetry == Permutations(Writers)
=============================================================================
