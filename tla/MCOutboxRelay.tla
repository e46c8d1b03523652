--------------------------- MODULE MCOutboxRelay ---------------------------
(* Two rows, in either order or of one instant, and up to two replicas.    *)
EXTENDS OutboxRelay

MCTimes == 1..2

=============================================================================
