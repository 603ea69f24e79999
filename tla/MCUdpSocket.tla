----------------------------- MODULE MCUdpSocket -----------------------------
(* Instances of UdpSocket for TLC: ports of two bits, so that all ranges   *)
(* and all sets of free ports are tried, and three datagrams.              *)
EXTENDS UdpSocket
=============================================================================
