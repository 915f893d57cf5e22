------------------------ MODULE MCReceiveCoordinator ------------------------
(* ReceiveCoordinator on two units per slot: a stream of four units fills  *)
(* two slots, or one when it starts in the middle of a slot.               *)
EXTENDS ReceiveCoordinator
=============================================================================
