-------------------------- MODULE MCEventConsumer --------------------------
(* Two events, one of which was published with its retries used up.         *)
EXTENDS EventConsumer

CONSTANT Exhausted

MCRetryCount == [e \in Events |-> IF e \in Exhausted THEN MaxRetries ELSE 0]

=============================================================================
