---------------------------- MODULE MC_UdpSocket ----------------------------
(* Instances of UdpSocket for TLC. *)
EXTENDS UdpSocket

\* One thread uses the socket: the loop's or another.
OneUser == {{t} : t \in Threads}

\* Other threads share it.
Shared == {Callers}
=============================================================================
