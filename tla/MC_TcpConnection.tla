-------------------------- MODULE MC_TcpConnection --------------------------
(* Instances of TcpConnection for TLC. *)
EXTENDS TcpConnection
=============================================================================
