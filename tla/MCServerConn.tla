---------------------------- MODULE MCServerConn ----------------------------
(* ServerConn on small sizes: the buffer holds two and a half chunks, as    *)
(* 256 KiB is no multiple of a short read, and the service says enough to   *)
(* fill it before on_open and to reach the mark again after it.             *)
EXTENDS ServerConn

=============================================================================
