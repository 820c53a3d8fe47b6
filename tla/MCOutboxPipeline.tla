-------------------------- MODULE MCOutboxPipeline --------------------------
(* Constants for the runs of OutboxPipeline.                               *)
EXTENDS OutboxPipeline

CONSTANTS m1, m2

(* created_at of the messages: m1 is the older one.                        *)
CreatedInOrder == [m \in Messages |-> IF m = m1 THEN 1 ELSE 2]
=============================================================================
