------------------------------ MODULE MCTunnel -------------------------------
(* Tunnel with single-byte chunks: each application says enough to reach    *)
(* the mark toward the stream, and each delivery reaches the mark toward    *)
(* the local socket.                                                        *)
EXTENDS Tunnel

=============================================================================
