---------------------------- MODULE MC_MpscQueue ----------------------------
(* An instance of MpscQueue for TLC. *)
EXTENDS MpscQueue, TLC

\* The producers run the same code, and every property checked is a safety one.
ProducerSymmetry == Permutations(Producers)
=============================================================================
