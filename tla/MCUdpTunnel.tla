---------------------------- MODULE MCUdpTunnel -----------------------------
(* UdpTunnel with two-digit lengths and datagrams of at most two bytes, so  *)
(* that a header, a payload and a frame can each be cut anywhere and a      *)
(* length that is too long can be written.  The buffer before on_open holds *)
(* the longest frame or two short ones.                                     *)
EXTENDS UdpTunnel

MCMaxSent == [client |-> 2, server |-> 1]
=============================================================================
