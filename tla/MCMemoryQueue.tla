--------------------------- MODULE MCMemoryQueue ---------------------------
(* TLC instances of MemoryQueue.                                           *)
EXTENDS MemoryQueue, TLC

Symmetry ==
    Permutations(Consumers) \cup Permutations(Messages)
        \cup Permutations(Promoters) \cup Permutations(Queues)
=============================================================================
