--------------------------- MODULE MCMessageQueue ---------------------------
(* Instance of MessageQueueMachine for TLC: ids and payloads are interchangeable. *)
EXTENDS MessageQueueMachine

Symmetry == Permutations(Commands) \cup Permutations(Payloads)
=============================================================================
