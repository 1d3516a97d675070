---------------------------- MODULE MCDhtRecord -----------------------------
(* DhtRecord with two nodes, two records and one that does not decode; one  *)
(* message may be lost and the server is restarted twice.                    *)
EXTENDS DhtRecord

=============================================================================
