----------------------------- MODULE MCTcpPipe -----------------------------
(* TcpPipe on small sizes: both marks are a few units, chunks are smaller  *)
(* than a mark, and each direction carries enough bytes to pass its mark,  *)
(* drain and pass it again.                                                *)
EXTENDS TcpPipe

=============================================================================
