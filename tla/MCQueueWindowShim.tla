------------------------- MODULE MCQueueWindowShim -------------------------
(* QueueWindowShim on small instances.                                     *)
EXTENDS QueueWindowShim, TLC

(* Threads are interchangeable, and so are queue handles. *)
WindowSymmetry == Permutations(Threads) \cup Permutations(Queues)
=============================================================================
