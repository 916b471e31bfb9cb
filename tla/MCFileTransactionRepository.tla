--------------------- MODULE MCFileTransactionRepository ----------------------
(***************************************************************************)
(* Instances of FileTransactionRepository for TLC.                         *)
(***************************************************************************)
EXTENDS FileTransactionRepository, TLC

Symmetric == Permutations(Ids)
=============================================================================
