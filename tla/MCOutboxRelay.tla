--------------------------- MODULE MCOutboxRelay ---------------------------
(* Two order processes, one of which may lose its channel alone, and a user process. *)
EXTENDS OutboxRelay
=============================================================================
