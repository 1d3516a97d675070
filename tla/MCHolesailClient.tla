-------------------------- MODULE MCHolesailClient --------------------------
(* HolesailClient with three connections, enough for an address to see its  *)
(* first stream fail, a second take its place, and a third join it.         *)
EXTENDS HolesailClient

=============================================================================
