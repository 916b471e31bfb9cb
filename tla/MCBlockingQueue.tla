--------------------------- MODULE MCBlockingQueue ----------------------------
(***************************************************************************)
(* Instances of BlockingQueue for TLC.                                     *)
(***************************************************************************)
EXTENDS BlockingQueue, TLC

Symmetric == Permutations(Producers) \cup Permutations(Consumers)
             \cup Permutations(Items)
=============================================================================
