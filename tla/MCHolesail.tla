----------------------------- MODULE MCHolesail -----------------------------
(* Holesail with the turns and the levels of close callbacks of the source, *)
(* one endpoint and one lookup side by side.                                *)
EXTENDS Holesail

=============================================================================
