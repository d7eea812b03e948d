---------------------------- MODULE MC_TcpServer ----------------------------
(* TcpServer for TLC. *)
EXTENDS TcpServer
=============================================================================
