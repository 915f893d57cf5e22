------------------------- MODULE MCReceiveTimeline -------------------------
(* ReceiveTimeline with three source frames to two output ticks, two and a *)
(* half batches a slot, clock readings on time or late, and UTC steps.     *)
EXTENDS ReceiveTimeline

OnTimeOrLate == {0, 1}
EarlyOrLate == {-1, 0, 1}
BackOrForth == {-2, 2}
=============================================================================
