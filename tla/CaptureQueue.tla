---------------------------- MODULE CaptureQueue ----------------------------
(***************************************************************************)
(* One native input stream of crates/audio/src/capture.rs: the realtime    *)
(* audio callback (CallbackState::process), the backend's error callback   *)
(* (stop_for_backend_error) and the daemon's worker (next_batch,           *)
(* next_fault, stop, drop) share the bounded queues and atomics of         *)
(* SharedCapture.  One action is one operation on shared state; sample     *)
(* values, clock readings and health maxima are left out.  The u64 frame   *)
(* position cannot overflow within MaxFrames frames.                       *)
(***************************************************************************)
EXTENDS Integers, Sequences

CONSTANTS
  QueueBatches,    \* capacity of the free, ready and fault queues
  MaxBatchFrames,  \* MAX_CAPTURE_BATCH_FRAMES
  MaxCallback,     \* bound: frames of one native callback
  MaxFrames,       \* bound: frames over the life of the stream
  MaxErrors,       \* bound: calls of the backend's error callback
  ErrorKinds       \* bound: the terminal kinds that its errors have

TerminalKind == {"PermissionDenied", "DeviceLost", "BackendFailure"}

ASSUME CaptureAssumption ==
  /\ QueueBatches \in Nat /\ QueueBatches >= 2
  /\ MaxBatchFrames \in Nat \ {0}
  /\ MaxCallback \in Nat
  /\ MaxFrames \in Nat
  /\ MaxErrors \in Nat
  /\ ErrorKinds \subseteq TerminalKind

VARIABLES
  free,       \* number of buffers in the free queue
  ready,      \* queue of filled batches
  faults,     \* queue of diagnostics
  stopped,    \* AtomicBool stopped
  overflows,  \* AtomicU64 overflow_count
  terminal,   \* AtomicU32 terminal_fault ("None" for 0)
  reported,   \* AtomicBool terminal_fault_reported
  cb,         \* the audio callback: program counter and CallbackState
  err,        \* the error callback: program counter, kind and calls made
  wk,         \* the worker: program counter and the batch in its hands
  expected,   \* history: end of the last batch handed to the daemon
  told        \* history: the terminal fault was returned by next_fault

shared == <<free, ready, faults, stopped, overflows, terminal, reported>>
history == <<expected, told>>
captureVars == <<shared, cb, err, wk, history>>

FaultKind == {"CallbackDelay", "Overflow", "Clipping"}

CaptureBatch ==
  [first : Nat, frames : Nat, mark : {"None", "StreamRestart", "Overflow"},
   dropped : Nat]

NoBatch == [first |-> 0, frames |-> 0, mark |-> "None", dropped |-> 0]

(* Program counters at which a thread owns one of the sample buffers. *)
CallbackHolds == {"fill", "push", "giveBack"}
WorkerHolds == {"copy", "discardPush"}

SharedType ==
  /\ free \in 0..QueueBatches
  /\ ready \in Seq(CaptureBatch) /\ Len(ready) <= QueueBatches
  /\ faults \in Seq(FaultKind) /\ Len(faults) <= QueueBatches
  /\ stopped \in BOOLEAN
  /\ overflows \in Nat
  /\ terminal \in TerminalKind \union {"None"}
  /\ reported \in BOOLEAN

CallbackType ==
  cb \in [pc : {"idle", "delay", "chunk", "fill", "push", "giveBack", "clip",
                "drop", "dropFault", "code", "flag"},
          left : Nat, position : Nat, pending : Nat, first : BOOLEAN,
          clipped : BOOLEAN]

ErrorType ==
  err \in [pc : {"idle", "code", "flag"}, kind : TerminalKind, calls : Nat]

WorkerType ==
  wk \in [pc : {"idle", "pop", "copy", "swap", "discard", "discardPush", "closed"},
          batch : CaptureBatch, closing : BOOLEAN]

HistoryType == expected \in Nat /\ told \in BOOLEAN

(* Every variable has its type; the queues keep to their capacity. *)
CaptureTypeOK == SharedType /\ CallbackType /\ ErrorType /\ WorkerType /\ HistoryType

(* SharedCapture::new fills the free queue; CallbackState::new. *)
CaptureInit ==
  /\ free = QueueBatches
  /\ ready = <<>> /\ faults = <<>>
  /\ stopped = FALSE /\ overflows = 0
  /\ terminal = "None" /\ reported = FALSE
  /\ cb = [pc |-> "idle", left |-> 0, position |-> 0, pending |-> 0,
           first |-> TRUE, clipped |-> FALSE]
  /\ err = [pc |-> "idle", kind |-> "BackendFailure", calls |-> 0]
  /\ wk = [pc |-> "idle", batch |-> NoBatch, closing |-> FALSE]
  /\ expected = 0 /\ told = FALSE

(* ArrayQueue::push on the free queue: a buffer that does not fit is lost. *)
PushFree == free' = IF free < QueueBatches THEN free + 1 ELSE free

(* emit_fault: a diagnostic that does not fit is lost. *)
EmitFault(kind) ==
  faults' = IF Len(faults) < QueueBatches THEN Append(faults, kind) ELSE faults

-----------------------------------------------------------------------------
(* The audio callback.                                                     *)

ChunkFrames == IF cb.left < MaxBatchFrames THEN cb.left ELSE MaxBatchFrames

(* Where the callback goes after a chunk of n frames. *)
NextChunk(n) == IF cb.left = n THEN "idle" ELSE "chunk"

(* process: the entry check.  An empty or misaligned buffer is terminal. *)
CallbackEnter(frames, delayed) ==
  /\ cb.pc = "idle" /\ ~stopped
  /\ cb.position + frames <= MaxFrames
  /\ cb' = [cb EXCEPT !.pc = IF frames = 0 THEN "code"
                             ELSE IF delayed THEN "delay" ELSE "chunk",
                      !.left = frames]
  /\ UNCHANGED <<shared, err, wk, history>>

CallbackDelayFault ==
  /\ cb.pc = "delay"
  /\ EmitFault("CallbackDelay")
  /\ cb' = [cb EXCEPT !.pc = "chunk"]
  /\ UNCHANGED <<free, ready, stopped, overflows, terminal, reported, err, wk, history>>

(* free.pop for the next chunk, or the frames are dropped. *)
CallbackTakeBuffer ==
  /\ cb.pc = "chunk"
  /\ IF free > 0
     THEN free' = free - 1 /\ cb' = [cb EXCEPT !.pc = "fill"]
     ELSE free' = free /\ cb' = [cb EXCEPT !.pc = "drop"]
  /\ UNCHANGED <<ready, faults, stopped, overflows, terminal, reported, err, wk, history>>

(* Normalisation of the chunk: a bad sample gives the buffer back. *)
CallbackFill(outcome) ==
  /\ cb.pc = "fill"
  /\ cb' = [cb EXCEPT !.pc = IF outcome = "bad" THEN "giveBack" ELSE "push",
                      !.clipped = (outcome = "clipped")]
  /\ UNCHANGED <<shared, err, wk, history>>

CallbackGiveBack ==
  /\ cb.pc = "giveBack"
  /\ PushFree
  /\ cb' = [cb EXCEPT !.pc = "code"]
  /\ UNCHANGED <<ready, faults, stopped, overflows, terminal, reported, err, wk, history>>

(* Mutant of RawBatch: frames dropped just before are not subtracted. *)
RawBatchForgetsGap ==
  [first |-> cb.position, frames |-> ChunkFrames,
   mark |-> IF cb.first THEN "StreamRestart" ELSE "None", dropped |-> 0]

(* The batch for the chunk, with the discontinuity that precedes it. *)
RawBatch ==
  [first |-> cb.position, frames |-> ChunkFrames,
   mark |-> IF cb.pending > 0 THEN "Overflow"
            ELSE IF cb.first THEN "StreamRestart" ELSE "None",
   dropped |-> cb.pending]

(* ready.push; if it were full the buffer goes back and the chunk is lost. *)
CallbackPush ==
  /\ cb.pc = "push"
  /\ IF Len(ready) < QueueBatches
     THEN /\ ready' = Append(ready, RawBatch)
          /\ cb' = [cb EXCEPT !.pc = IF cb.clipped THEN "clip"
                                     ELSE NextChunk(ChunkFrames),
                              !.left = @ - ChunkFrames,
                              !.position = @ + ChunkFrames,
                              !.pending = 0, !.first = FALSE]
          /\ UNCHANGED free
     ELSE /\ PushFree
          /\ cb' = [cb EXCEPT !.pc = "drop", !.pending = 0, !.first = FALSE]
          /\ UNCHANGED ready
  /\ UNCHANGED <<faults, stopped, overflows, terminal, reported, err, wk, history>>

CallbackClip ==
  /\ cb.pc = "clip"
  /\ EmitFault("Clipping")
  /\ cb' = [cb EXCEPT !.pc = NextChunk(0)]
  /\ UNCHANGED <<free, ready, stopped, overflows, terminal, reported, err, wk, history>>

(* drop_frames: pending frames and overflow_count first, ... *)
CallbackDrop ==
  /\ cb.pc = "drop"
  /\ overflows' = overflows + 1
  /\ cb' = [cb EXCEPT !.pc = "dropFault", !.pending = @ + ChunkFrames]
  /\ UNCHANGED <<free, ready, faults, stopped, terminal, reported, err, wk, history>>

(* ... then the diagnostic and the position. *)
CallbackDropFault ==
  /\ cb.pc = "dropFault"
  /\ EmitFault("Overflow")
  /\ cb' = [cb EXCEPT !.pc = NextChunk(ChunkFrames),
                      !.left = @ - ChunkFrames,
                      !.position = @ + ChunkFrames]
  /\ UNCHANGED <<free, ready, stopped, overflows, terminal, reported, err, wk, history>>

(* stop_with_terminal_fault(BackendFailure): the code, then the flag. *)
CallbackStopCode ==
  /\ cb.pc = "code"
  /\ terminal' = "BackendFailure"
  /\ cb' = [cb EXCEPT !.pc = "flag"]
  /\ UNCHANGED <<free, ready, faults, stopped, overflows, reported, err, wk, history>>

CallbackStopFlag ==
  /\ cb.pc = "flag"
  /\ stopped' = TRUE
  /\ cb' = [cb EXCEPT !.pc = "idle", !.left = 0]
  /\ UNCHANGED <<free, ready, faults, overflows, terminal, reported, err, wk, history>>

Callback ==
  \/ \E frames \in 0..MaxCallback, delayed \in BOOLEAN :
       CallbackEnter(frames, delayed)
  \/ CallbackDelayFault
  \/ CallbackTakeBuffer
  \/ \E outcome \in {"clean", "clipped", "bad"} : CallbackFill(outcome)
  \/ CallbackGiveBack
  \/ CallbackPush
  \/ CallbackClip
  \/ CallbackDrop
  \/ CallbackDropFault
  \/ CallbackStopCode
  \/ CallbackStopFlag

-----------------------------------------------------------------------------
(* The backend's error callback: stop_for_backend_error.                   *)

ErrorEnter(kind) ==
  /\ err.pc = "idle" /\ err.calls < MaxErrors
  /\ err' = [pc |-> "code", kind |-> kind, calls |-> err.calls + 1]
  /\ UNCHANGED <<shared, cb, wk, history>>

(* Mutant of ErrorStopCode: the flag is stored before the code. *)
ErrorStopFlagFirst ==
  /\ err.pc = "code"
  /\ stopped' = TRUE
  /\ err' = [err EXCEPT !.pc = "flag"]
  /\ UNCHANGED <<free, ready, faults, overflows, terminal, reported, cb, wk, history>>

ErrorStopCode ==
  /\ err.pc = "code"
  /\ terminal' = err.kind
  /\ err' = [err EXCEPT !.pc = "flag"]
  /\ UNCHANGED <<free, ready, faults, stopped, overflows, reported, cb, wk, history>>

ErrorStopFlag ==
  /\ err.pc = "flag"
  /\ stopped' = TRUE
  /\ err' = [err EXCEPT !.pc = "idle"]
  /\ UNCHANGED <<free, ready, faults, overflows, terminal, reported, cb, wk, history>>

ErrorCallback ==
  \/ \E kind \in ErrorKinds : ErrorEnter(kind)
  \/ ErrorStopCode
  \/ ErrorStopFlag

-----------------------------------------------------------------------------
(* The worker.                                                             *)

(* next_batch: the stopped check decides between discarding and popping. *)
NextBatch ==
  /\ wk.pc = "idle"
  /\ wk' = [wk EXCEPT !.pc = IF stopped THEN "discard" ELSE "pop"]
  /\ UNCHANGED <<shared, cb, err, history>>

PopReady ==
  /\ wk.pc = "pop"
  /\ IF ready = <<>>
     THEN ready' = ready /\ wk' = [wk EXCEPT !.pc = "idle"]
     ELSE /\ ready' = Tail(ready)
          /\ wk' = [wk EXCEPT !.pc = "copy", !.batch = Head(ready)]
  /\ UNCHANGED <<free, faults, stopped, overflows, terminal, reported, cb, err, history>>

(* Mutant of ReturnBatch: the buffer is not pushed back. *)
ReturnBatchLeaks ==
  /\ wk.pc = "copy"
  /\ expected' = wk.batch.first + wk.batch.frames
  /\ wk' = [wk EXCEPT !.pc = "idle", !.batch = NoBatch]
  /\ UNCHANGED <<free, ready, faults, stopped, overflows, terminal, reported, cb, err, told>>

(* The copied batch is handed to the daemon and its buffer freed. *)
ReturnBatch ==
  /\ wk.pc = "copy"
  /\ PushFree
  /\ expected' = wk.batch.first + wk.batch.frames
  /\ wk' = [wk EXCEPT !.pc = "idle", !.batch = NoBatch]
  /\ UNCHANGED <<ready, faults, stopped, overflows, terminal, reported, cb, err, told>>

(* discard_ready, one pop and one push at a time. *)
DiscardPop ==
  /\ wk.pc = "discard"
  /\ IF ready = <<>>
     THEN /\ ready' = ready
          /\ wk' = [wk EXCEPT !.pc = IF wk.closing THEN "closed" ELSE "idle"]
     ELSE ready' = Tail(ready) /\ wk' = [wk EXCEPT !.pc = "discardPush"]
  /\ UNCHANGED <<free, faults, stopped, overflows, terminal, reported, cb, err, history>>

DiscardPush ==
  /\ wk.pc = "discardPush"
  /\ PushFree
  /\ wk' = [wk EXCEPT !.pc = "discard"]
  /\ UNCHANGED <<ready, faults, stopped, overflows, terminal, reported, cb, err, history>>

(* Mutant of NextFault: the reported flag is swapped before the code is    *)
(* looked at, so an early poll uses it up.                                 *)
NextFaultSwapsFirst ==
  /\ wk.pc = "idle"
  /\ reported' = TRUE
  /\ told' = (told \/ (~reported /\ terminal # "None"))
  /\ UNCHANGED <<free, ready, faults, stopped, overflows, terminal, cb, err, wk, expected>>

(* next_fault: a terminal fault goes before the queued diagnostics ... *)
NextFault ==
  /\ wk.pc = "idle"
  /\ IF terminal # "None"
     THEN faults' = faults /\ wk' = [wk EXCEPT !.pc = "swap"]
     ELSE faults' = (IF faults = <<>> THEN faults ELSE Tail(faults)) /\ wk' = wk
  /\ UNCHANGED <<free, ready, stopped, overflows, terminal, reported, cb, err, history>>

(* ... and is returned once. *)
ReportTerminal ==
  /\ wk.pc = "swap"
  /\ reported' = TRUE
  /\ IF reported
     THEN faults' = (IF faults = <<>> THEN faults ELSE Tail(faults)) /\ told' = told
     ELSE faults' = faults /\ told' = TRUE
  /\ wk' = [wk EXCEPT !.pc = "idle"]
  /\ UNCHANGED <<free, ready, stopped, overflows, terminal, cb, err, expected>>

(* stop followed by drop (SystemReceiveInput::stop takes the capture): the *)
(* flag, then the ready queue is drained whatever stop returned.           *)
StopCapture ==
  /\ wk.pc = "idle"
  /\ stopped' = TRUE
  /\ wk' = [wk EXCEPT !.pc = "discard", !.closing = TRUE]
  /\ UNCHANGED <<free, ready, faults, overflows, terminal, reported, cb, err, history>>

Worker ==
  \/ NextBatch \/ PopReady \/ ReturnBatch
  \/ DiscardPop \/ DiscardPush
  \/ NextFault \/ ReportTerminal
  \/ StopCapture

CaptureNext == Callback \/ ErrorCallback \/ Worker

(***************************************************************************)
(* Each poll of the coordinator asks for a fault and then for batches, so  *)
(* neither call is starved by the other; a call, and a callback, once      *)
(* started runs to its end.  Native callbacks and closing may never come.  *)
(***************************************************************************)
CaptureFairness ==
  /\ SF_captureVars(NextFault) /\ WF_captureVars(ReportTerminal)
  /\ SF_captureVars(NextBatch) /\ WF_captureVars(PopReady) /\ WF_captureVars(ReturnBatch)
  /\ WF_captureVars(DiscardPop) /\ WF_captureVars(DiscardPush)
  /\ WF_captureVars(Callback /\ cb.pc # "idle") /\ WF_captureVars(ErrorCallback /\ err.pc # "idle")

CaptureSpec == CaptureInit /\ [][CaptureNext]_captureVars
CaptureFairSpec == CaptureSpec /\ CaptureFairness

-----------------------------------------------------------------------------
Held(holds) == IF holds THEN 1 ELSE 0

(***************************************************************************)
(* Every preallocated buffer is in exactly one place: the free queue, the  *)
(* ready queue, the callback's hands or the worker's.  Hence no push on    *)
(* either queue can fail, and next_batch never reports BackendFailure.     *)
(***************************************************************************)
BuffersConserved ==
  free + Len(ready) + Held(cb.pc \in CallbackHolds) + Held(wk.pc \in WorkerHolds)
    = QueueBatches

(***************************************************************************)
(* Every frame the device produced before a batch is accounted for: a      *)
(* batch starts where the last one ended, plus exactly the frames its      *)
(* overflow mark says were dropped, and only a gap carries that mark.      *)
(***************************************************************************)
StreamAccounted ==
  wk.pc = "copy" =>
    /\ wk.batch.first = expected + wk.batch.dropped
    /\ wk.batch.mark = "Overflow" <=> wk.batch.dropped > 0
    /\ wk.batch.mark = "StreamRestart" <=> wk.batch.first = 0

(***************************************************************************)
(* A worker that finds the stream stopped without having closed it finds   *)
(* the reason too: stop_with_terminal_fault stores the code before the     *)
(* flag, whichever of the two callbacks runs it.                           *)
(***************************************************************************)
StopHasReason == stopped /\ ~wk.closing => terminal # "None"

(* The two callbacks set the flag only after the code. *)
CodeBeforeFlag == (cb.pc = "flag" \/ err.pc = "flag") => terminal # "None"

QueueInv == CaptureTypeOK /\ BuffersConserved /\ StopHasReason /\ CodeBeforeFlag

(***************************************************************************)
(* A terminal fault is returned by next_fault, even with a full queue of   *)
(* diagnostics, unless the worker closes the stream first.                 *)
(***************************************************************************)
TerminalIsReported == terminal # "None" ~> (told \/ wk.closing)
=============================================================================
