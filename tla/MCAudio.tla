------------------------------- MODULE MCAudio -------------------------------
(***************************************************************************)
(* The three components of crates/audio side by side: a behaviour is one   *)
(* of a part, and the others rest in an initial state of theirs.  They     *)
(* meet in the coordinator (ReceiveCoordinator) and share no variable, so  *)
(* their states add up and do not multiply.                                *)
(*                                                                         *)
(* CaptureQueue: two buffers of one frame and callbacks of up to two       *)
(* frames, enough to drop frames and to queue a batch after the gap.       *)
(* Spectrum: five samples a slot, rows of three samples two apart and two  *)
(* retained rows, so that overlap, eviction and a sample left over at the  *)
(* end of a slot all occur.                                                *)
(***************************************************************************)
EXTENDS CaptureQueue, MCReceiveTimeline, Spectrum

VARIABLE part

(* Two streams of one process and the first of the next. *)
MCProcessOf == <<1, 1, 2>>

AudioVars == <<part, captureVars, timelineVars, vars>>

AudioInit ==
  /\ part \in {"capture", "timeline", "spectrum"}
  /\ CaptureInit /\ TimelineInit /\ Init

AudioNext ==
  /\ UNCHANGED part
  /\ \/ part = "capture" /\ CaptureNext /\ UNCHANGED <<timelineVars, vars>>
     \/ part = "timeline" /\ TimelineNext /\ UNCHANGED <<captureVars, vars>>
     \/ part = "spectrum" /\ Next /\ UNCHANGED <<captureVars, timelineVars>>

AudioSpec ==
  /\ AudioInit /\ [][AudioNext]_AudioVars
  /\ (part = "capture" => CaptureFairness)
=============================================================================
