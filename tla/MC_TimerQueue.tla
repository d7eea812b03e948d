---------------------------- MODULE MC_TimerQueue ----------------------------
(* Instances of TimerQueue for TLC. *)
EXTENDS TimerQueue
=============================================================================
