-------------------------- MODULE MCHolesailServer --------------------------
(* HolesailServer with three connections over two stream addresses, so that *)
(* an address is reused while an earlier connection is still being flushed. *)
EXTENDS HolesailServer

=============================================================================
