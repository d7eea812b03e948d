---------------------------- MODULE MC_EventLoop ----------------------------
(* An instance of EventLoop for TLC. *)
EXTENDS EventLoop
=============================================================================
