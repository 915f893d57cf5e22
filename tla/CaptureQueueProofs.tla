------------------------- MODULE CaptureQueueProofs -------------------------
(***************************************************************************)
(* Buffer conservation, the terminal-fault ordering and the accounting of  *)
(* the stream of CaptureQueue, for every queue capacity, batch size and    *)
(* number of native callbacks.                                             *)
(***************************************************************************)
EXTENDS CaptureQueue, TLAPS

(* A chunk is a whole number of the frames left, and no more than them. *)
LEMMA ChunkFramesType ==
  ASSUME CallbackType
  PROVE  ChunkFrames \in Nat /\ cb.left - ChunkFrames \in Nat
BY CaptureAssumption DEF CallbackType, ChunkFrames

(* emit_fault keeps the diagnostics queue within its capacity. *)
LEMMA EmitFaultType ==
  ASSUME SharedType, NEW kind \in FaultKind, EmitFault(kind)
  PROVE  faults' \in Seq(FaultKind) /\ Len(faults') <= QueueBatches
<1>1. faults \in Seq(FaultKind) /\ Len(faults) <= QueueBatches /\ QueueBatches \in Nat
  BY CaptureAssumption DEF SharedType
<1>2. Append(faults, kind) \in Seq(FaultKind) /\ Len(Append(faults, kind)) = Len(faults) + 1
  BY <1>1
<1>3. Len(faults) \in Nat
  BY <1>1
<1> QED BY <1>1, <1>2, <1>3 DEF EmitFault

(* Popping a queue keeps it a queue. *)
LEMMA TailType ==
  ASSUME NEW S, NEW q \in Seq(S), q # <<>>
  PROVE  /\ Tail(q) \in Seq(S) /\ Head(q) \in S
         /\ Len(Tail(q)) = Len(q) - 1 /\ Len(q) \in Nat /\ Len(q) > 0
OBVIOUS

(* Taking a diagnostic keeps the diagnostics queue within its capacity. *)
LEMMA TakeFaultType ==
  ASSUME SharedType, faults' = IF faults = <<>> THEN faults ELSE Tail(faults)
  PROVE  faults' \in Seq(FaultKind) /\ Len(faults') <= QueueBatches
<1>1. faults \in Seq(FaultKind) /\ Len(faults) <= QueueBatches /\ QueueBatches \in Nat
  BY CaptureAssumption DEF SharedType
<1>2. CASE faults = <<>>
  BY <1>1, <1>2
<1>3. CASE faults # <<>>
  BY <1>1, <1>3, TailType
<1> QED BY <1>2, <1>3

(* A step that moves no buffer conserves them. *)
LEMMA NoBufferMoves ==
  ASSUME BuffersConserved, UNCHANGED <<free, ready>>,
         cb'.pc \in CallbackHolds <=> cb.pc \in CallbackHolds,
         wk'.pc \in WorkerHolds <=> wk.pc \in WorkerHolds
  PROVE  BuffersConserved'
BY DEF BuffersConserved, Held


(* The callback's steps keep the invariant. *)
LEMMA CallbackStep ==
  ASSUME QueueInv, Callback
  PROVE  QueueInv'
<1> USE CaptureAssumption DEF QueueInv
<1>a. SharedType /\ CallbackType /\ ErrorType /\ WorkerType /\ HistoryType
  BY DEF CaptureTypeOK
<1>0. /\ free \in 0..QueueBatches /\ Len(ready) \in Nat
      /\ cb.left \in Nat /\ ChunkFrames \in Nat /\ cb.left - ChunkFrames \in Nat
      /\ NoBatch \in CaptureBatch
  BY <1>a, ChunkFramesType DEF SharedType, CallbackType, NoBatch, CaptureBatch
<1>1. ASSUME NEW frames \in 0..MaxCallback, NEW delayed \in BOOLEAN, CallbackEnter(frames, delayed)
      PROVE  QueueInv'
  <2>1. SharedType'
    BY <1>1, <1>a DEF CallbackEnter, shared, SharedType
  <2>2. CallbackType' /\ ErrorType' /\ WorkerType' /\ HistoryType'
    <3>1. CallbackType'
      <4>1. PICK pc \in {"code", "delay", "chunk"} :
              cb' = [cb EXCEPT !.pc = pc, !.left = frames]
        BY <1>1 DEF CallbackEnter
      <4>2. frames \in Nat
        BY <1>1
      <4> QED BY <1>a, <4>1, <4>2 DEF CallbackType
    <3>2. ErrorType' /\ WorkerType'
      BY <1>1, <1>a DEF CallbackEnter, ErrorType, WorkerType
    <3>3. HistoryType'
      BY <1>1, <1>a DEF CallbackEnter, history, HistoryType
    <3> QED BY <3>1, <3>2, <3>3
  <2>3. cb.pc = "idle" /\ cb'.pc \in {"code", "delay", "chunk"} /\ UNCHANGED <<err, wk>>
    BY <1>1, <1>a DEF CallbackEnter, CallbackType, ErrorType, WorkerType
  <2>4. BuffersConserved'
    <3>1. UNCHANGED <<free, ready>>
      BY <1>1 DEF CallbackEnter, shared
    <3> QED BY <2>3, <3>1, NoBufferMoves DEF CallbackHolds, WorkerHolds
  <2>5. StopHasReason' /\ CodeBeforeFlag'
    BY <1>1, <2>3 DEF CallbackEnter, shared, StopHasReason, CodeBeforeFlag
  <2> QED BY <2>1, <2>2, <2>4, <2>5 DEF CaptureTypeOK
<1>2. CASE CallbackDelayFault
  <2>0. faults' \in Seq(FaultKind) /\ Len(faults') <= QueueBatches
    BY <1>a, <1>2, EmitFaultType DEF CallbackDelayFault, FaultKind
  <2>1. SharedType'
    BY <1>2, <1>a, <2>0 DEF CallbackDelayFault, shared, SharedType
  <2>2. CallbackType' /\ ErrorType' /\ WorkerType' /\ HistoryType'
    <3>1. CallbackType'
      BY <1>2, <1>a DEF CallbackDelayFault, CallbackType
    <3>2. ErrorType' /\ WorkerType'
      BY <1>2, <1>a DEF CallbackDelayFault, ErrorType, WorkerType
    <3>3. HistoryType'
      BY <1>2, <1>a DEF CallbackDelayFault, history, HistoryType
    <3> QED BY <3>1, <3>2, <3>3
  <2>3. cb.pc = "delay" /\ cb'.pc = "chunk" /\ UNCHANGED <<err, wk>>
    BY <1>2, <1>a DEF CallbackDelayFault, CallbackType, ErrorType, WorkerType
  <2>4. BuffersConserved'
    <3>1. UNCHANGED <<free, ready>>
      BY <1>2 DEF CallbackDelayFault, shared
    <3> QED BY <2>3, <3>1, NoBufferMoves DEF CallbackHolds, WorkerHolds
  <2>5. StopHasReason' /\ CodeBeforeFlag'
    BY <1>2, <2>3 DEF CallbackDelayFault, shared, StopHasReason, CodeBeforeFlag
  <2> QED BY <2>1, <2>2, <2>4, <2>5 DEF CaptureTypeOK
<1>3. CASE CallbackTakeBuffer
  <2>1. SharedType'
    BY <1>3, <1>a DEF CallbackTakeBuffer, shared, SharedType
  <2>2. CallbackType' /\ ErrorType' /\ WorkerType' /\ HistoryType'
    <3>1. CallbackType'
      BY <1>3, <1>a DEF CallbackTakeBuffer, CallbackType
    <3>2. ErrorType' /\ WorkerType'
      BY <1>3, <1>a DEF CallbackTakeBuffer, ErrorType, WorkerType
    <3>3. HistoryType'
      BY <1>3, <1>a DEF CallbackTakeBuffer, history, HistoryType
    <3> QED BY <3>1, <3>2, <3>3
  <2>3. /\ cb.pc = "chunk" /\ UNCHANGED <<err, wk>>
        /\ cb'.pc = IF free > 0 THEN "fill" ELSE "drop"
    BY <1>3, <1>a DEF CallbackTakeBuffer, CallbackType, ErrorType, WorkerType
  <2>4. BuffersConserved'
    <3>1. free' = (IF free > 0 THEN free - 1 ELSE free) /\ UNCHANGED ready
      BY <1>3, <1>a DEF CallbackTakeBuffer, SharedType
    <3>3. CASE free > 0
      BY <1>0, <2>3, <3>1, <3>3 DEF BuffersConserved, Held, CallbackHolds, WorkerHolds
    <3>4. CASE ~(free > 0)
      BY <1>0, <2>3, <3>1, <3>4 DEF BuffersConserved, Held, CallbackHolds, WorkerHolds
    <3> QED BY <3>3, <3>4
  <2>5. StopHasReason' /\ CodeBeforeFlag'
    BY <1>3, <2>3 DEF CallbackTakeBuffer, shared, StopHasReason, CodeBeforeFlag
  <2> QED BY <2>1, <2>2, <2>4, <2>5 DEF CaptureTypeOK
<1>4. ASSUME NEW outcome \in {"clean", "clipped", "bad"}, CallbackFill(outcome)
      PROVE  QueueInv'
  <2>1. SharedType'
    BY <1>4, <1>a DEF CallbackFill, shared, SharedType
  <2>2. CallbackType' /\ ErrorType' /\ WorkerType' /\ HistoryType'
    <3>1. CallbackType'
      BY <1>4, <1>a DEF CallbackFill, CallbackType
    <3>2. ErrorType' /\ WorkerType'
      BY <1>4, <1>a DEF CallbackFill, ErrorType, WorkerType
    <3>3. HistoryType'
      BY <1>4, <1>a DEF CallbackFill, history, HistoryType
    <3> QED BY <3>1, <3>2, <3>3
  <2>3. cb.pc = "fill" /\ cb'.pc \in {"giveBack", "push"} /\ UNCHANGED <<err, wk>>
    BY <1>4, <1>a DEF CallbackFill, CallbackType, ErrorType, WorkerType
  <2>4. BuffersConserved'
    <3>1. UNCHANGED <<free, ready>>
      BY <1>4 DEF CallbackFill, shared
    <3> QED BY <2>3, <3>1, NoBufferMoves DEF CallbackHolds, WorkerHolds
  <2>5. StopHasReason' /\ CodeBeforeFlag'
    BY <1>4, <2>3 DEF CallbackFill, shared, StopHasReason, CodeBeforeFlag
  <2> QED BY <2>1, <2>2, <2>4, <2>5 DEF CaptureTypeOK
<1>5. CASE CallbackGiveBack
  <2>0. free < QueueBatches
    <3>1. cb.pc = "giveBack"
      BY <1>5 DEF CallbackGiveBack
    <3> QED BY <1>0, <3>1 DEF BuffersConserved, Held, CallbackHolds, WorkerHolds
  <2>1. SharedType'
    BY <1>5, <1>a, <2>0 DEF CallbackGiveBack, shared, PushFree, SharedType
  <2>2. CallbackType' /\ ErrorType' /\ WorkerType' /\ HistoryType'
    <3>1. CallbackType'
      BY <1>5, <1>a DEF CallbackGiveBack, CallbackType
    <3>2. ErrorType' /\ WorkerType'
      BY <1>5, <1>a DEF CallbackGiveBack, ErrorType, WorkerType
    <3>3. HistoryType'
      BY <1>5, <1>a DEF CallbackGiveBack, history, HistoryType
    <3> QED BY <3>1, <3>2, <3>3
  <2>3. cb.pc = "giveBack" /\ cb'.pc = "code" /\ UNCHANGED <<err, wk>>
    BY <1>5, <1>a DEF CallbackGiveBack, CallbackType, ErrorType, WorkerType
  <2>4. BuffersConserved'
    <3>1. free' = free + 1 /\ UNCHANGED ready
      BY <1>5, <1>a, <2>0 DEF CallbackGiveBack, PushFree, SharedType
    <3> QED BY <1>0, <2>3, <3>1 DEF BuffersConserved, Held, CallbackHolds, WorkerHolds
  <2>5. StopHasReason' /\ CodeBeforeFlag'
    BY <1>5, <2>3 DEF CallbackGiveBack, shared, StopHasReason, CodeBeforeFlag
  <2> QED BY <2>1, <2>2, <2>4, <2>5 DEF CaptureTypeOK
<1>6. CASE CallbackPush
  <2>1. Len(ready) < QueueBatches
    <3>1. cb.pc = "push"
      BY <1>6 DEF CallbackPush
    <3> QED BY <1>0, <3>1 DEF BuffersConserved, Held, CallbackHolds, WorkerHolds
  <2>2. RawBatch \in CaptureBatch
    BY <1>a, <1>0 DEF RawBatch, CaptureBatch, CallbackType
  <2>3. ready' = Append(ready, RawBatch) /\ UNCHANGED free
    BY <1>6, <2>1 DEF CallbackPush
  <2>4. ready' \in Seq(CaptureBatch) /\ Len(ready') = Len(ready) + 1
    BY <1>a, <2>2, <2>3 DEF SharedType
  <2>5. cb' = [cb EXCEPT !.pc = IF cb.clipped THEN "clip" ELSE NextChunk(ChunkFrames),
                         !.left = @ - ChunkFrames, !.position = @ + ChunkFrames,
                         !.pending = 0, !.first = FALSE]
    BY <1>6, <2>1 DEF CallbackPush
  <2>6. NextChunk(ChunkFrames) \in {"idle", "chunk"}
    BY DEF NextChunk
  <2>7. SharedType'
    BY <1>6, <1>a, <1>0, <2>1, <2>3, <2>4 DEF CallbackPush, SharedType
  <2>8. CallbackType' /\ ErrorType' /\ WorkerType' /\ HistoryType'
    <3>1. CallbackType'
      <4>1. PICK pc \in {"clip", "idle", "chunk"} :
              cb' = [cb EXCEPT !.pc = pc, !.left = cb.left - ChunkFrames,
                               !.position = cb.position + ChunkFrames,
                               !.pending = 0, !.first = FALSE]
        BY <2>5, <2>6
      <4>2. cb.position + ChunkFrames \in Nat
        BY <1>a, <1>0 DEF CallbackType
      <4>3. PICK left \in Nat, position \in Nat :
              cb' = [cb EXCEPT !.pc = pc, !.left = left, !.position = position,
                               !.pending = 0, !.first = FALSE]
        BY <1>0, <4>1, <4>2
      <4> QED BY <1>a, <4>3 DEF CallbackType
    <3>2. ErrorType' /\ WorkerType'
      BY <1>6, <1>a DEF CallbackPush, ErrorType, WorkerType
    <3>3. HistoryType'
      BY <1>6, <1>a DEF CallbackPush, history, HistoryType
    <3> QED BY <3>1, <3>2, <3>3
  <2>9. cb.pc = "push" /\ cb'.pc \in {"clip", "idle", "chunk"} /\ UNCHANGED <<err, wk>>
    BY <1>6, <1>a, <2>5, <2>6 DEF CallbackPush, CallbackType
  <2>10. BuffersConserved'
    BY <1>0, <2>3, <2>4, <2>9 DEF BuffersConserved, Held, CallbackHolds, WorkerHolds
  <2>11. StopHasReason' /\ CodeBeforeFlag'
    BY <1>6, <2>9 DEF CallbackPush, StopHasReason, CodeBeforeFlag
  <2> QED BY <2>7, <2>8, <2>10, <2>11 DEF CaptureTypeOK
<1>7. CASE CallbackClip
  <2>0. faults' \in Seq(FaultKind) /\ Len(faults') <= QueueBatches
    BY <1>a, <1>7, EmitFaultType DEF CallbackClip, FaultKind
  <2>a. NextChunk(0) \in {"idle", "chunk"}
    BY DEF NextChunk
  <2>1. SharedType'
    BY <1>7, <1>a, <2>0 DEF CallbackClip, shared, SharedType
  <2>2. CallbackType' /\ ErrorType' /\ WorkerType' /\ HistoryType'
    <3>1. CallbackType'
      BY <1>7, <1>a, <2>a DEF CallbackClip, CallbackType
    <3>2. ErrorType' /\ WorkerType'
      BY <1>7, <1>a, <2>a DEF CallbackClip, ErrorType, WorkerType
    <3>3. HistoryType'
      BY <1>7, <1>a, <2>a DEF CallbackClip, history, HistoryType
    <3> QED BY <3>1, <3>2, <3>3
  <2>3. cb.pc = "clip" /\ cb'.pc \in {"idle", "chunk"} /\ UNCHANGED <<err, wk>>
    BY <1>7, <1>a, <2>a DEF CallbackClip, CallbackType, ErrorType, WorkerType
  <2>4. BuffersConserved'
    <3>1. UNCHANGED <<free, ready>>
      BY <1>7 DEF CallbackClip, shared
    <3> QED BY <2>3, <3>1, NoBufferMoves DEF CallbackHolds, WorkerHolds
  <2>5. StopHasReason' /\ CodeBeforeFlag'
    BY <1>7, <2>3 DEF CallbackClip, shared, StopHasReason, CodeBeforeFlag
  <2> QED BY <2>1, <2>2, <2>4, <2>5 DEF CaptureTypeOK
<1>8. CASE CallbackDrop
  <2>1. SharedType'
    BY <1>8, <1>a DEF CallbackDrop, shared, SharedType
  <2>2. CallbackType' /\ ErrorType' /\ WorkerType' /\ HistoryType'
    <3>1. CallbackType'
      <4>1. cb' = [cb EXCEPT !.pc = "dropFault", !.pending = cb.pending + ChunkFrames]
        BY <1>8 DEF CallbackDrop
      <4>2. cb.pending + ChunkFrames \in Nat
        BY <1>a, <1>0 DEF CallbackType
      <4> QED BY <1>a, <4>1, <4>2 DEF CallbackType
    <3>2. ErrorType' /\ WorkerType'
      BY <1>8, <1>a, <1>0 DEF CallbackDrop, ErrorType, WorkerType
    <3>3. HistoryType'
      BY <1>8, <1>a, <1>0 DEF CallbackDrop, history, HistoryType
    <3> QED BY <3>1, <3>2, <3>3
  <2>3. cb.pc = "drop" /\ cb'.pc = "dropFault" /\ UNCHANGED <<err, wk>>
    BY <1>8, <1>a, <1>0 DEF CallbackDrop, CallbackType, ErrorType, WorkerType
  <2>4. BuffersConserved'
    <3>1. UNCHANGED <<free, ready>>
      BY <1>8 DEF CallbackDrop, shared
    <3> QED BY <2>3, <3>1, NoBufferMoves DEF CallbackHolds, WorkerHolds
  <2>5. StopHasReason' /\ CodeBeforeFlag'
    BY <1>8, <2>3 DEF CallbackDrop, shared, StopHasReason, CodeBeforeFlag
  <2> QED BY <2>1, <2>2, <2>4, <2>5 DEF CaptureTypeOK
<1>9. CASE CallbackDropFault
  <2>0. faults' \in Seq(FaultKind) /\ Len(faults') <= QueueBatches
    BY <1>a, <1>9, EmitFaultType DEF CallbackDropFault, FaultKind
  <2>a. NextChunk(ChunkFrames) \in {"idle", "chunk"}
    BY DEF NextChunk
  <2>1. SharedType'
    BY <1>9, <1>a, <2>0 DEF CallbackDropFault, shared, SharedType
  <2>2. CallbackType' /\ ErrorType' /\ WorkerType' /\ HistoryType'
    <3>1. CallbackType'
      <4>1. PICK pc \in {"idle", "chunk"} :
              cb' = [cb EXCEPT !.pc = pc, !.left = cb.left - ChunkFrames,
                               !.position = cb.position + ChunkFrames]
        BY <1>9, <2>a DEF CallbackDropFault
      <4>2. cb.position + ChunkFrames \in Nat
        BY <1>a, <1>0 DEF CallbackType
      <4> QED BY <1>a, <1>0, <4>1, <4>2 DEF CallbackType
    <3>2. ErrorType' /\ WorkerType'
      BY <1>9, <1>a, <1>0, <2>a DEF CallbackDropFault, ErrorType, WorkerType
    <3>3. HistoryType'
      BY <1>9, <1>a, <1>0, <2>a DEF CallbackDropFault, history, HistoryType
    <3> QED BY <3>1, <3>2, <3>3
  <2>3. cb.pc = "dropFault" /\ cb'.pc \in {"idle", "chunk"} /\ UNCHANGED <<err, wk>>
    BY <1>9, <1>a, <1>0, <2>a DEF CallbackDropFault, CallbackType, ErrorType, WorkerType
  <2>4. BuffersConserved'
    <3>1. UNCHANGED <<free, ready>>
      BY <1>9 DEF CallbackDropFault, shared
    <3> QED BY <2>3, <3>1, NoBufferMoves DEF CallbackHolds, WorkerHolds
  <2>5. StopHasReason' /\ CodeBeforeFlag'
    BY <1>9, <2>3 DEF CallbackDropFault, shared, StopHasReason, CodeBeforeFlag
  <2> QED BY <2>1, <2>2, <2>4, <2>5 DEF CaptureTypeOK
<1>10. CASE CallbackStopCode
  <2>1. SharedType'
    BY <1>10, <1>a DEF CallbackStopCode, shared, TerminalKind, SharedType
  <2>2. CallbackType' /\ ErrorType' /\ WorkerType' /\ HistoryType'
    <3>1. CallbackType'
      BY <1>10, <1>a DEF CallbackStopCode, CallbackType
    <3>2. ErrorType' /\ WorkerType'
      BY <1>10, <1>a DEF CallbackStopCode, ErrorType, WorkerType
    <3>3. HistoryType'
      BY <1>10, <1>a DEF CallbackStopCode, history, HistoryType
    <3> QED BY <3>1, <3>2, <3>3
  <2>3. cb.pc = "code" /\ cb'.pc = "flag" /\ UNCHANGED <<err, wk>>
    BY <1>10, <1>a DEF CallbackStopCode, CallbackType, ErrorType, WorkerType
  <2>4. BuffersConserved'
    <3>1. UNCHANGED <<free, ready>>
      BY <1>10 DEF CallbackStopCode, shared
    <3> QED BY <2>3, <3>1, NoBufferMoves DEF CallbackHolds, WorkerHolds
  <2>5. StopHasReason' /\ CodeBeforeFlag'
    BY <1>10, <2>3 DEF CallbackStopCode, shared, StopHasReason, CodeBeforeFlag
  <2> QED BY <2>1, <2>2, <2>4, <2>5 DEF CaptureTypeOK
<1>11. CASE CallbackStopFlag
  <2>1. SharedType'
    BY <1>11, <1>a DEF CallbackStopFlag, shared, SharedType
  <2>2. CallbackType' /\ ErrorType' /\ WorkerType' /\ HistoryType'
    <3>1. CallbackType'
      BY <1>11, <1>a DEF CallbackStopFlag, CallbackType
    <3>2. ErrorType' /\ WorkerType'
      BY <1>11, <1>a DEF CallbackStopFlag, ErrorType, WorkerType
    <3>3. HistoryType'
      BY <1>11, <1>a DEF CallbackStopFlag, history, HistoryType
    <3> QED BY <3>1, <3>2, <3>3
  <2>3. cb.pc = "flag" /\ cb'.pc = "idle" /\ UNCHANGED <<err, wk>>
    BY <1>11, <1>a DEF CallbackStopFlag, CallbackType, ErrorType, WorkerType
  <2>4. BuffersConserved'
    <3>1. UNCHANGED <<free, ready>>
      BY <1>11 DEF CallbackStopFlag, shared
    <3> QED BY <2>3, <3>1, NoBufferMoves DEF CallbackHolds, WorkerHolds
  <2>5. StopHasReason' /\ CodeBeforeFlag'
    BY <1>11, <2>3 DEF CallbackStopFlag, shared, StopHasReason, CodeBeforeFlag
  <2> QED BY <2>1, <2>2, <2>4, <2>5 DEF CaptureTypeOK
<1> QED BY <1>1, <1>2, <1>3, <1>4, <1>5, <1>6, <1>7, <1>8, <1>9, <1>10, <1>11 DEF Callback

(* The error callback's steps keep the invariant. *)
LEMMA ErrorStep ==
  ASSUME QueueInv, ErrorCallback
  PROVE  QueueInv'
<1> USE CaptureAssumption DEF QueueInv
<1>a. SharedType /\ CallbackType /\ ErrorType /\ WorkerType /\ HistoryType
  BY DEF CaptureTypeOK
<1>0. /\ free \in 0..QueueBatches /\ Len(ready) \in Nat
      /\ cb.left \in Nat /\ ChunkFrames \in Nat /\ cb.left - ChunkFrames \in Nat
      /\ NoBatch \in CaptureBatch
  BY <1>a, ChunkFramesType DEF SharedType, CallbackType, NoBatch, CaptureBatch
<1>1. ASSUME NEW kind \in TerminalKind, ErrorEnter(kind)
      PROVE  QueueInv'
  <2>1. SharedType'
    BY <1>1, <1>a DEF ErrorEnter, shared, SharedType
  <2>2. CallbackType' /\ ErrorType' /\ WorkerType' /\ HistoryType'
    <3>1. CallbackType'
      BY <1>1, <1>a DEF ErrorEnter, CallbackType
    <3>2. ErrorType' /\ WorkerType'
      BY <1>1, <1>a DEF ErrorEnter, ErrorType, WorkerType
    <3>3. HistoryType'
      BY <1>1, <1>a DEF ErrorEnter, history, HistoryType
    <3> QED BY <3>1, <3>2, <3>3
  <2>3. err'.pc = "code" /\ UNCHANGED <<cb, wk>>
    BY <1>1, <1>a DEF ErrorEnter, CallbackType, ErrorType, WorkerType
  <2>4. BuffersConserved'
    <3>1. UNCHANGED <<free, ready>>
      BY <1>1 DEF ErrorEnter, shared
    <3> QED BY <2>3, <3>1, NoBufferMoves DEF CallbackHolds, WorkerHolds
  <2>5. StopHasReason' /\ CodeBeforeFlag'
    BY <1>1, <2>3 DEF ErrorEnter, shared, StopHasReason, CodeBeforeFlag
  <2> QED BY <2>1, <2>2, <2>4, <2>5 DEF CaptureTypeOK
<1>2. CASE ErrorStopCode
  <2>0. err.kind \in TerminalKind
    BY <1>a DEF ErrorType
  <2>1. SharedType'
    BY <1>2, <1>a, <2>0 DEF ErrorStopCode, shared, SharedType
  <2>2. CallbackType' /\ ErrorType' /\ WorkerType' /\ HistoryType'
    <3>1. CallbackType'
      BY <1>2, <1>a DEF ErrorStopCode, CallbackType
    <3>2. ErrorType' /\ WorkerType'
      BY <1>2, <1>a DEF ErrorStopCode, ErrorType, WorkerType
    <3>3. HistoryType'
      BY <1>2, <1>a DEF ErrorStopCode, history, HistoryType
    <3> QED BY <3>1, <3>2, <3>3
  <2>3. err'.pc = "flag" /\ err.kind \in TerminalKind /\ UNCHANGED <<cb, wk>>
    BY <1>2, <1>a DEF ErrorStopCode, CallbackType, ErrorType, WorkerType
  <2>4. BuffersConserved'
    <3>1. UNCHANGED <<free, ready>>
      BY <1>2 DEF ErrorStopCode, shared
    <3> QED BY <2>3, <3>1, NoBufferMoves DEF CallbackHolds, WorkerHolds
  <2>5. StopHasReason' /\ CodeBeforeFlag'
    BY <1>2, <2>3 DEF ErrorStopCode, TerminalKind, StopHasReason, CodeBeforeFlag
  <2> QED BY <2>1, <2>2, <2>4, <2>5 DEF CaptureTypeOK
<1>3. CASE ErrorStopFlag
  <2>1. SharedType'
    BY <1>3, <1>a DEF ErrorStopFlag, shared, SharedType
  <2>2. CallbackType' /\ ErrorType' /\ WorkerType' /\ HistoryType'
    <3>1. CallbackType'
      BY <1>3, <1>a DEF ErrorStopFlag, CallbackType
    <3>2. ErrorType' /\ WorkerType'
      BY <1>3, <1>a DEF ErrorStopFlag, ErrorType, WorkerType
    <3>3. HistoryType'
      BY <1>3, <1>a DEF ErrorStopFlag, history, HistoryType
    <3> QED BY <3>1, <3>2, <3>3
  <2>3. err.pc = "flag" /\ err'.pc = "idle" /\ UNCHANGED <<cb, wk>>
    BY <1>3, <1>a DEF ErrorStopFlag, CallbackType, ErrorType, WorkerType
  <2>4. BuffersConserved'
    <3>1. UNCHANGED <<free, ready>>
      BY <1>3 DEF ErrorStopFlag, shared
    <3> QED BY <2>3, <3>1, NoBufferMoves DEF CallbackHolds, WorkerHolds
  <2>5. StopHasReason' /\ CodeBeforeFlag'
    BY <1>3, <2>3 DEF ErrorStopFlag, shared, StopHasReason, CodeBeforeFlag
  <2> QED BY <2>1, <2>2, <2>4, <2>5 DEF CaptureTypeOK
<1>4. ErrorKinds \subseteq TerminalKind
  BY CaptureAssumption
<1> QED BY <1>1, <1>2, <1>3, <1>4 DEF ErrorCallback

(* The worker's steps keep the invariant. *)
LEMMA WorkerStep ==
  ASSUME QueueInv, Worker
  PROVE  QueueInv'
<1> USE CaptureAssumption DEF QueueInv
<1>a. SharedType /\ CallbackType /\ ErrorType /\ WorkerType /\ HistoryType
  BY DEF CaptureTypeOK
<1>0. /\ free \in 0..QueueBatches /\ Len(ready) \in Nat
      /\ cb.left \in Nat /\ ChunkFrames \in Nat /\ cb.left - ChunkFrames \in Nat
      /\ NoBatch \in CaptureBatch
  BY <1>a, ChunkFramesType DEF SharedType, CallbackType, NoBatch, CaptureBatch
<1>1. CASE NextBatch
  <2>1. SharedType'
    BY <1>1, <1>a DEF NextBatch, shared, SharedType
  <2>2. CallbackType' /\ ErrorType' /\ WorkerType' /\ HistoryType'
    <3>1. CallbackType'
      BY <1>1, <1>a DEF NextBatch, CallbackType
    <3>2. ErrorType' /\ WorkerType'
      BY <1>1, <1>a DEF NextBatch, ErrorType, WorkerType
    <3>3. HistoryType'
      BY <1>1, <1>a DEF NextBatch, history, HistoryType
    <3> QED BY <3>1, <3>2, <3>3
  <2>3. /\ wk.pc = "idle" /\ wk'.pc \in {"discard", "pop"}
        /\ wk'.closing = wk.closing /\ UNCHANGED <<cb, err>>
    BY <1>1, <1>a DEF NextBatch, CallbackType, ErrorType, WorkerType
  <2>4. BuffersConserved'
    <3>1. UNCHANGED <<free, ready>>
      BY <1>1 DEF NextBatch, shared
    <3> QED BY <2>3, <3>1, NoBufferMoves DEF CallbackHolds, WorkerHolds
  <2>5. StopHasReason' /\ CodeBeforeFlag'
    BY <1>1, <2>3 DEF NextBatch, shared, StopHasReason, CodeBeforeFlag
  <2> QED BY <2>1, <2>2, <2>4, <2>5 DEF CaptureTypeOK
<1>2. CASE PopReady
  <2>0. \/ ready = <<>> /\ ready' = ready
        \/ /\ ready # <<>> /\ ready' = Tail(ready) /\ ready' \in Seq(CaptureBatch)
           /\ Head(ready) \in CaptureBatch /\ Len(ready') = Len(ready) - 1 /\ Len(ready) > 0
    <3>1. ready \in Seq(CaptureBatch)
      BY <1>a DEF SharedType
    <3>2. CASE ready = <<>>
      BY <1>2, <3>2 DEF PopReady
    <3>3. CASE ready # <<>>
      <4>1. ready' = Tail(ready)
        BY <1>2, <3>3 DEF PopReady
      <4> QED BY <3>1, <3>3, <4>1, TailType
    <3> QED BY <3>2, <3>3
  <2>1. SharedType'
    BY <1>2, <1>a, <1>0, <2>0 DEF PopReady, shared, SharedType
  <2>2. CallbackType' /\ ErrorType' /\ WorkerType' /\ HistoryType'
    <3>1. CallbackType'
      BY <1>2, <1>a, <2>0 DEF PopReady, CallbackType
    <3>2. ErrorType' /\ WorkerType'
      BY <1>2, <1>a, <2>0 DEF PopReady, ErrorType, WorkerType
    <3>3. HistoryType'
      BY <1>2, <1>a, <2>0 DEF PopReady, history, HistoryType
    <3> QED BY <3>1, <3>2, <3>3
  <2>3. /\ wk.pc = "pop" /\ wk'.pc = IF ready = <<>> THEN "idle" ELSE "copy"
        /\ wk'.closing = wk.closing /\ UNCHANGED <<cb, err>>
    BY <1>2, <1>a, <2>0 DEF PopReady, CallbackType, ErrorType, WorkerType
  <2>4. BuffersConserved'
    <3>1. UNCHANGED free /\ Len(ready') = IF ready = <<>> THEN Len(ready) ELSE Len(ready) - 1
      BY <1>2, <1>a, <1>0, <2>0 DEF PopReady, SharedType
    <3>3. CASE ready = <<>>
      BY <1>0, <2>3, <3>1, <3>3 DEF BuffersConserved, Held, CallbackHolds, WorkerHolds
    <3>4. CASE ~(ready = <<>>)
      BY <1>0, <2>3, <3>1, <3>4 DEF BuffersConserved, Held, CallbackHolds, WorkerHolds
    <3> QED BY <3>3, <3>4
  <2>5. StopHasReason' /\ CodeBeforeFlag'
    BY <1>2, <2>3 DEF PopReady, shared, StopHasReason, CodeBeforeFlag
  <2> QED BY <2>1, <2>2, <2>4, <2>5 DEF CaptureTypeOK
<1>3. CASE ReturnBatch
  <2>0. free < QueueBatches
    <3>1. wk.pc = "copy"
      BY <1>3 DEF ReturnBatch
    <3> QED BY <1>0, <3>1 DEF BuffersConserved, Held, CallbackHolds, WorkerHolds
  <2>a. wk.batch.first + wk.batch.frames \in Nat
    BY <1>a DEF WorkerType, CaptureBatch
  <2>1. SharedType'
    BY <1>3, <1>a, <2>0 DEF ReturnBatch, shared, PushFree, SharedType
  <2>2. CallbackType' /\ ErrorType' /\ WorkerType' /\ HistoryType'
    <3>1. CallbackType'
      BY <1>3, <1>a, <1>0, <2>a DEF ReturnBatch, CallbackType
    <3>2. ErrorType' /\ WorkerType'
      BY <1>3, <1>a, <1>0, <2>a DEF ReturnBatch, ErrorType, WorkerType
    <3>3. HistoryType'
      BY <1>3, <1>a, <1>0, <2>a DEF ReturnBatch, history, HistoryType
    <3> QED BY <3>1, <3>2, <3>3
  <2>3. /\ wk.pc = "copy" /\ wk'.pc = "idle"
        /\ wk'.closing = wk.closing /\ UNCHANGED <<cb, err>>
    BY <1>3, <1>a, <1>0, <2>a DEF ReturnBatch, CallbackType, ErrorType, WorkerType
  <2>4. BuffersConserved'
    <3>1. free' = free + 1 /\ UNCHANGED ready
      BY <1>3, <1>a, <2>0 DEF ReturnBatch, PushFree, SharedType
    <3> QED BY <1>0, <2>3, <3>1 DEF BuffersConserved, Held, CallbackHolds, WorkerHolds
  <2>5. StopHasReason' /\ CodeBeforeFlag'
    BY <1>3, <2>3 DEF ReturnBatch, shared, StopHasReason, CodeBeforeFlag
  <2> QED BY <2>1, <2>2, <2>4, <2>5 DEF CaptureTypeOK
<1>4. CASE DiscardPop
  <2>0. \/ ready = <<>> /\ ready' = ready
        \/ /\ ready # <<>> /\ ready' = Tail(ready) /\ ready' \in Seq(CaptureBatch)
           /\ Head(ready) \in CaptureBatch /\ Len(ready') = Len(ready) - 1 /\ Len(ready) > 0
    <3>1. ready \in Seq(CaptureBatch)
      BY <1>a DEF SharedType
    <3>2. CASE ready = <<>>
      BY <1>4, <3>2 DEF DiscardPop
    <3>3. CASE ready # <<>>
      <4>1. ready' = Tail(ready)
        BY <1>4, <3>3 DEF DiscardPop
      <4> QED BY <3>1, <3>3, <4>1, TailType
    <3> QED BY <3>2, <3>3
  <2>1. SharedType'
    BY <1>4, <1>a, <1>0, <2>0 DEF DiscardPop, shared, SharedType
  <2>2. CallbackType' /\ ErrorType' /\ WorkerType' /\ HistoryType'
    <3>1. CallbackType'
      BY <1>4, <1>a, <2>0 DEF DiscardPop, CallbackType
    <3>2. ErrorType' /\ WorkerType'
      BY <1>4, <1>a, <2>0 DEF DiscardPop, ErrorType, WorkerType
    <3>3. HistoryType'
      BY <1>4, <1>a, <2>0 DEF DiscardPop, history, HistoryType
    <3> QED BY <3>1, <3>2, <3>3
  <2>3. /\ wk.pc = "discard" /\ wk'.closing = wk.closing /\ UNCHANGED <<cb, err>>
        /\ IF ready = <<>> THEN wk'.pc \in {"closed", "idle"} ELSE wk'.pc = "discardPush"
    BY <1>4, <1>a, <2>0 DEF DiscardPop, CallbackType, ErrorType, WorkerType
  <2>4. BuffersConserved'
    <3>1. UNCHANGED free /\ Len(ready') = IF ready = <<>> THEN Len(ready) ELSE Len(ready) - 1
      BY <1>4, <1>a, <1>0, <2>0 DEF DiscardPop, SharedType
    <3>3. CASE ready = <<>>
      BY <1>0, <2>3, <3>1, <3>3 DEF BuffersConserved, Held, CallbackHolds, WorkerHolds
    <3>4. CASE ~(ready = <<>>)
      BY <1>0, <2>3, <3>1, <3>4 DEF BuffersConserved, Held, CallbackHolds, WorkerHolds
    <3> QED BY <3>3, <3>4
  <2>5. StopHasReason' /\ CodeBeforeFlag'
    BY <1>4, <2>3 DEF DiscardPop, shared, StopHasReason, CodeBeforeFlag
  <2> QED BY <2>1, <2>2, <2>4, <2>5 DEF CaptureTypeOK
<1>5. CASE DiscardPush
  <2>0. free < QueueBatches
    <3>1. wk.pc = "discardPush"
      BY <1>5 DEF DiscardPush
    <3> QED BY <1>0, <3>1 DEF BuffersConserved, Held, CallbackHolds, WorkerHolds
  <2>1. SharedType'
    BY <1>5, <1>a, <2>0 DEF DiscardPush, shared, PushFree, SharedType
  <2>2. CallbackType' /\ ErrorType' /\ WorkerType' /\ HistoryType'
    <3>1. CallbackType'
      BY <1>5, <1>a DEF DiscardPush, CallbackType
    <3>2. ErrorType' /\ WorkerType'
      BY <1>5, <1>a DEF DiscardPush, ErrorType, WorkerType
    <3>3. HistoryType'
      BY <1>5, <1>a DEF DiscardPush, history, HistoryType
    <3> QED BY <3>1, <3>2, <3>3
  <2>3. /\ wk.pc = "discardPush" /\ wk'.pc = "discard"
        /\ wk'.closing = wk.closing /\ UNCHANGED <<cb, err>>
    BY <1>5, <1>a DEF DiscardPush, CallbackType, ErrorType, WorkerType
  <2>4. BuffersConserved'
    <3>1. free' = free + 1 /\ UNCHANGED ready
      BY <1>5, <1>a, <2>0 DEF DiscardPush, PushFree, SharedType
    <3> QED BY <1>0, <2>3, <3>1 DEF BuffersConserved, Held, CallbackHolds, WorkerHolds
  <2>5. StopHasReason' /\ CodeBeforeFlag'
    BY <1>5, <2>3 DEF DiscardPush, shared, StopHasReason, CodeBeforeFlag
  <2> QED BY <2>1, <2>2, <2>4, <2>5 DEF CaptureTypeOK
<1>6. CASE NextFault
  <2>0. faults' \in Seq(FaultKind) /\ Len(faults') <= QueueBatches
    <3>1. faults \in Seq(FaultKind) /\ Len(faults) <= QueueBatches
      BY <1>a DEF SharedType
    <3> QED BY <1>a, <1>6, <3>1, TakeFaultType DEF NextFault
  <2>1. SharedType'
    BY <1>6, <1>a, <2>0 DEF NextFault, shared, SharedType
  <2>2. CallbackType' /\ ErrorType' /\ WorkerType' /\ HistoryType'
    <3>1. CallbackType'
      BY <1>6, <1>a DEF NextFault, CallbackType
    <3>2. ErrorType' /\ WorkerType'
      BY <1>6, <1>a DEF NextFault, ErrorType, WorkerType
    <3>3. HistoryType'
      BY <1>6, <1>a DEF NextFault, history, HistoryType
    <3> QED BY <3>1, <3>2, <3>3
  <2>3. /\ wk.pc = "idle" /\ wk'.pc \in {"swap", "idle"}
        /\ wk'.closing = wk.closing /\ UNCHANGED <<cb, err>>
    BY <1>6, <1>a DEF NextFault, CallbackType, ErrorType, WorkerType
  <2>4. BuffersConserved'
    <3>1. UNCHANGED <<free, ready>>
      BY <1>6 DEF NextFault, shared
    <3> QED BY <2>3, <3>1, NoBufferMoves DEF CallbackHolds, WorkerHolds
  <2>5. StopHasReason' /\ CodeBeforeFlag'
    BY <1>6, <2>3 DEF NextFault, shared, StopHasReason, CodeBeforeFlag
  <2> QED BY <2>1, <2>2, <2>4, <2>5 DEF CaptureTypeOK
<1>7. CASE ReportTerminal
  <2>0. faults' \in Seq(FaultKind) /\ Len(faults') <= QueueBatches
    <3>1. faults \in Seq(FaultKind) /\ Len(faults) <= QueueBatches
      BY <1>a DEF SharedType
    <3> QED BY <1>a, <1>7, <3>1, TakeFaultType DEF ReportTerminal
  <2>1. SharedType'
    BY <1>7, <1>a, <2>0 DEF ReportTerminal, shared, SharedType
  <2>2. CallbackType' /\ ErrorType' /\ WorkerType' /\ HistoryType'
    <3>1. CallbackType'
      BY <1>7, <1>a DEF ReportTerminal, CallbackType
    <3>2. ErrorType' /\ WorkerType'
      BY <1>7, <1>a DEF ReportTerminal, ErrorType, WorkerType
    <3>3. HistoryType'
      BY <1>7, <1>a DEF ReportTerminal, history, HistoryType
    <3> QED BY <3>1, <3>2, <3>3
  <2>3. /\ wk.pc = "swap" /\ wk'.pc = "idle"
        /\ wk'.closing = wk.closing /\ UNCHANGED <<cb, err>>
    BY <1>7, <1>a DEF ReportTerminal, CallbackType, ErrorType, WorkerType
  <2>4. BuffersConserved'
    <3>1. UNCHANGED <<free, ready>>
      BY <1>7 DEF ReportTerminal, shared
    <3> QED BY <2>3, <3>1, NoBufferMoves DEF CallbackHolds, WorkerHolds
  <2>5. StopHasReason' /\ CodeBeforeFlag'
    BY <1>7, <2>3 DEF ReportTerminal, shared, StopHasReason, CodeBeforeFlag
  <2> QED BY <2>1, <2>2, <2>4, <2>5 DEF CaptureTypeOK
<1>8. CASE StopCapture
  <2>1. SharedType'
    BY <1>8, <1>a DEF StopCapture, shared, SharedType
  <2>2. CallbackType' /\ ErrorType' /\ WorkerType' /\ HistoryType'
    <3>1. CallbackType'
      BY <1>8, <1>a DEF StopCapture, CallbackType
    <3>2. ErrorType' /\ WorkerType'
      BY <1>8, <1>a DEF StopCapture, ErrorType, WorkerType
    <3>3. HistoryType'
      BY <1>8, <1>a DEF StopCapture, history, HistoryType
    <3> QED BY <3>1, <3>2, <3>3
  <2>3. /\ wk.pc = "idle" /\ wk'.pc = "discard"
        /\ wk'.closing /\ UNCHANGED <<cb, err>>
    BY <1>8, <1>a DEF StopCapture, CallbackType, ErrorType, WorkerType
  <2>4. BuffersConserved'
    <3>1. UNCHANGED <<free, ready>>
      BY <1>8 DEF StopCapture, shared
    <3> QED BY <2>3, <3>1, NoBufferMoves DEF CallbackHolds, WorkerHolds
  <2>5. StopHasReason' /\ CodeBeforeFlag'
    BY <1>8, <2>3 DEF StopCapture, shared, StopHasReason, CodeBeforeFlag
  <2> QED BY <2>1, <2>2, <2>4, <2>5 DEF CaptureTypeOK
<1> QED BY <1>1, <1>2, <1>3, <1>4, <1>5, <1>6, <1>7, <1>8 DEF Worker

(* The invariant holds throughout. *)
THEOREM QueueInvariant == CaptureSpec => []QueueInv
<1>1. CaptureInit => QueueInv
  <2> SUFFICES ASSUME CaptureInit PROVE QueueInv
    OBVIOUS
  <2>1. NoBatch \in CaptureBatch
    BY DEF NoBatch, CaptureBatch
  <2>2. SharedType
    <3>1. free \in 0..QueueBatches /\ overflows \in Nat /\ 0 <= QueueBatches
      BY CaptureAssumption DEF CaptureInit
    <3>2. /\ ready \in Seq(CaptureBatch) /\ Len(ready) = 0
          /\ faults \in Seq(FaultKind) /\ Len(faults) = 0
      BY DEF CaptureInit
    <3>3. stopped \in BOOLEAN /\ reported \in BOOLEAN /\ terminal = "None"
      BY DEF CaptureInit
    <3> QED BY <3>1, <3>2, <3>3 DEF SharedType
  <2>3. CallbackType /\ ErrorType /\ WorkerType /\ HistoryType
    BY <2>1 DEF CaptureInit, CallbackType, ErrorType, WorkerType, HistoryType, TerminalKind
  <2>4. BuffersConserved
    BY CaptureAssumption DEF CaptureInit, BuffersConserved, Held, CallbackHolds, WorkerHolds
  <2>5. StopHasReason /\ CodeBeforeFlag
    BY DEF CaptureInit, StopHasReason, CodeBeforeFlag
  <2> QED BY <2>2, <2>3, <2>4, <2>5 DEF QueueInv, CaptureTypeOK
<1>2. QueueInv /\ [CaptureNext]_captureVars => QueueInv'
  <2>1. QueueInv /\ UNCHANGED captureVars => QueueInv'
    BY DEF captureVars, shared, history, QueueInv, CaptureTypeOK, SharedType, CallbackType, ErrorType,
       WorkerType, HistoryType, BuffersConserved, StopHasReason, CodeBeforeFlag
  <2> QED BY <2>1, CallbackStep, ErrorStep, WorkerStep DEF CaptureNext
<1> QED BY <1>1, <1>2, PTL DEF CaptureSpec

(***************************************************************************)
(* Every preallocated buffer is in exactly one place, for every capacity   *)
(* and every interleaving of the callbacks and the worker.                 *)
(***************************************************************************)
THEOREM Conservation == CaptureSpec => []BuffersConserved
<1>1. QueueInv => BuffersConserved
  BY DEF QueueInv
<1> QED BY <1>1, QueueInvariant, PTL

(***************************************************************************)
(* A stream that is stopped without being closed has its reason stored.    *)
(***************************************************************************)
THEOREM ReasonStored == CaptureSpec => []StopHasReason
<1>1. QueueInv => StopHasReason
  BY DEF QueueInv
<1> QED BY <1>1, QueueInvariant, PTL

-----------------------------------------------------------------------------
(***************************************************************************)
(* Accounting for the stream.  Until next_batch discards, the batches in   *)
(* the worker's hands and in the ready queue are a chain: each begins at   *)
(* the end of the one before it plus the frames it says were dropped, and  *)
(* the callback's position is the end of the chain plus its pending drops. *)
(***************************************************************************)
EndOf(batch) == batch.first + batch.frames

(* The end of what the worker has, and the end of the whole chain. *)
TakenEnd == IF wk.pc = "copy" THEN EndOf(wk.batch) ELSE expected
StreamEnd == IF ready = <<>> THEN TakenEnd ELSE EndOf(ready[Len(ready)])

(* A batch's mark says what its place and its dropped frames say. *)
MarkFits(batch) ==
  /\ batch.mark = "Overflow" <=> batch.dropped > 0
  /\ batch.mark = "StreamRestart" <=> batch.first = 0

Follows(batch, end) == batch.first = end + batch.dropped /\ MarkFits(batch)

ReadyChained ==
  \A i \in 1..Len(ready) :
    Follows(ready[i], IF i = 1 THEN TakenEnd ELSE EndOf(ready[i - 1]))

(* drop_frames counts the frames before it moves the position. *)
Positioned ==
  /\ cb.position + (IF cb.pc = "dropFault" THEN ChunkFrames ELSE 0) = StreamEnd + cb.pending
  /\ cb.first <=> StreamEnd = 0

(* Whether a batch may still be handed on, rather than discarded. *)
Delivering == ~stopped \/ wk.pc \in {"pop", "copy"}

(* A callback that is working on a chunk has frames left. *)
FramesLeft == cb.pc \in {"delay", "chunk", "fill", "push", "drop", "dropFault"} => cb.left > 0

(* Only a stopped stream is discarded. *)
DiscardsStopped == wk.pc \in {"discard", "discardPush"} => stopped

StreamInv ==
  /\ FramesLeft /\ DiscardsStopped
  /\ Delivering => ReadyChained /\ Positioned
  /\ StreamAccounted

(* A chunk of a callback with frames left is not empty. *)
LEMMA ChunkIsNotEmpty ==
  ASSUME CallbackType, cb.left > 0
  PROVE  ChunkFrames \in Nat /\ ChunkFrames > 0 /\ ChunkFrames <= cb.left
BY CaptureAssumption DEF CallbackType, ChunkFrames

(* The chain's ends are places in the stream. *)
LEMMA EndsAreNat ==
  ASSUME CaptureTypeOK
  PROVE  /\ TakenEnd \in Nat /\ StreamEnd \in Nat /\ Len(ready) \in Nat
         /\ \A i \in 1..Len(ready) : ready[i] \in CaptureBatch /\ EndOf(ready[i]) \in Nat
<1>1. wk.batch \in CaptureBatch /\ expected \in Nat /\ ready \in Seq(CaptureBatch)
  BY DEF CaptureTypeOK, WorkerType, HistoryType, SharedType
<1>2. \A b \in CaptureBatch : EndOf(b) \in Nat
  BY DEF CaptureBatch, EndOf
<1>3. TakenEnd \in Nat
  BY <1>1, <1>2 DEF TakenEnd
<1>4. Len(ready) \in Nat /\ \A i \in 1..Len(ready) : ready[i] \in CaptureBatch
  BY <1>1
<1>5. ready # <<>> => Len(ready) \in 1..Len(ready)
  BY <1>1
<1>6. StreamEnd \in Nat
  BY <1>2, <1>3, <1>4, <1>5 DEF StreamEnd
<1> QED BY <1>2, <1>3, <1>4, <1>6

(* A step that moves neither a batch nor the callback's position. *)
LEMMA ChainStays ==
  ASSUME StreamInv, UNCHANGED <<ready, expected>>,
         wk'.batch = wk.batch, wk'.pc = "copy" <=> wk.pc = "copy", Delivering' => Delivering,
         \/ cb' = cb
         \/ /\ cb.pc # "dropFault" /\ cb'.pc # "dropFault"
            /\ cb'.position = cb.position /\ cb'.pending = cb.pending /\ cb'.first = cb.first
  PROVE  (Delivering' => ReadyChained' /\ Positioned') /\ StreamAccounted'
<1>1. TakenEnd' = TakenEnd
  BY DEF TakenEnd, EndOf
<1>2. StreamEnd' = StreamEnd
  BY <1>1 DEF StreamEnd, EndOf
<1>3. ReadyChained => ReadyChained'
  BY <1>1 DEF ReadyChained, Follows, MarkFits, EndOf
<1>4. Positioned => Positioned'
  <2>1. CASE cb' = cb
    BY <1>2, <2>1 DEF Positioned, ChunkFrames
  <2>2. CASE /\ cb.pc # "dropFault" /\ cb'.pc # "dropFault"
             /\ cb'.position = cb.position /\ cb'.pending = cb.pending /\ cb'.first = cb.first
    BY <1>2, <2>2 DEF Positioned
  <2> QED BY <2>1, <2>2
<1>5. StreamAccounted'
  BY DEF StreamInv, StreamAccounted
<1> QED BY <1>3, <1>4, <1>5 DEF StreamInv

(* ready.push: the new batch follows the end of the chain. *)
LEMMA PushChains ==
  ASSUME QueueInv, StreamInv, CallbackPush
  PROVE  StreamInv'
<1> USE CaptureAssumption
<1>a. SharedType /\ CallbackType /\ ErrorType /\ WorkerType /\ HistoryType /\ CaptureTypeOK
  BY DEF QueueInv, CaptureTypeOK
<1>b. cb.pc = "push" /\ cb.left > 0 /\ UNCHANGED <<wk, expected, stopped>>
  BY DEF CallbackPush, StreamInv, FramesLeft, history
<1>c. ChunkFrames \in Nat /\ ChunkFrames > 0 /\ ChunkFrames <= cb.left
  BY <1>a, <1>b, ChunkIsNotEmpty
<1>d. free \in 0..QueueBatches /\ Len(ready) \in Nat /\ ready \in Seq(CaptureBatch)
  BY <1>a DEF SharedType
<1>e. Len(ready) < QueueBatches
  BY <1>b, <1>d DEF QueueInv, BuffersConserved, Held, CallbackHolds, WorkerHolds
<1>1. /\ ready' = Append(ready, RawBatch)
      /\ cb' = [cb EXCEPT !.pc = IF cb.clipped THEN "clip" ELSE NextChunk(ChunkFrames),
                          !.left = @ - ChunkFrames, !.position = @ + ChunkFrames,
                          !.pending = 0, !.first = FALSE]
  BY <1>e DEF CallbackPush
<1>2. /\ cb'.pc = (IF cb.clipped THEN "clip" ELSE NextChunk(ChunkFrames))
      /\ cb'.left = cb.left - ChunkFrames /\ cb'.position = cb.position + ChunkFrames
      /\ cb'.pending = 0 /\ cb'.first = FALSE
  BY <1>1, <1>a DEF CallbackType
<1>3. /\ cb.left \in Nat /\ cb.position \in Nat /\ cb.pending \in Nat /\ cb.first \in BOOLEAN
  BY <1>a DEF CallbackType
<1>4. FramesLeft'
  <2>1. cb'.pc \in {"clip", "idle", "chunk"} /\ (cb'.pc = "chunk" => cb.left # ChunkFrames)
    BY <1>2 DEF NextChunk
  <2> QED BY <1>2, <1>3, <1>c, <2>1 DEF FramesLeft
<1>5. DiscardsStopped' /\ StreamAccounted'
  BY <1>b DEF StreamInv, DiscardsStopped, StreamAccounted
<1>6. ASSUME Delivering' PROVE ReadyChained' /\ Positioned'
  <2>1. ReadyChained /\ Positioned
    BY <1>6, <1>b DEF StreamInv, Delivering
  <2>2. TakenEnd' = TakenEnd /\ TakenEnd \in Nat /\ StreamEnd \in Nat
    BY <1>a, <1>b, EndsAreNat DEF TakenEnd, EndOf
  <2>3. RawBatch \in CaptureBatch
    BY <1>3, <1>c DEF RawBatch, CaptureBatch
  <2>4. /\ Len(ready') = Len(ready) + 1 /\ ready'[Len(ready) + 1] = RawBatch
        /\ \A i \in 1..Len(ready) : ready'[i] = ready[i]
    BY <1>1, <1>d, <2>3
  <2>5. cb.position = StreamEnd + cb.pending /\ (cb.first <=> StreamEnd = 0)
    BY <1>b, <1>3, <2>1 DEF Positioned
  <2>6. /\ RawBatch.first = cb.position /\ RawBatch.frames = ChunkFrames
        /\ RawBatch.dropped = cb.pending
        /\ RawBatch.mark = IF cb.pending > 0 THEN "Overflow"
                           ELSE IF cb.first THEN "StreamRestart" ELSE "None"
    BY DEF RawBatch
  <2>7. MarkFits(RawBatch)
    BY <1>3, <2>2, <2>5, <2>6 DEF MarkFits
  <2>8. Follows(RawBatch, StreamEnd)
    BY <2>5, <2>6, <2>7 DEF Follows
  <2>9. ReadyChained'
    <3> SUFFICES ASSUME NEW i \in 1..Len(ready')
                 PROVE  Follows(ready'[i], IF i = 1 THEN TakenEnd' ELSE EndOf(ready'[i - 1]))
      BY DEF ReadyChained, Follows, MarkFits, EndOf
    <3>1. CASE i \in 1..Len(ready)
      <4>1. i = 1 \/ i - 1 \in 1..Len(ready)
        BY <1>d, <3>1
      <4>2. Follows(ready[i], IF i = 1 THEN TakenEnd ELSE EndOf(ready[i - 1]))
        BY <2>1, <3>1 DEF ReadyChained
      <4> QED BY <2>2, <2>4, <3>1, <4>1, <4>2
    <3>2. CASE i = Len(ready) + 1
      <4>1. CASE ready = <<>>
        <5>1. i = 1 /\ StreamEnd = TakenEnd
          BY <3>2, <4>1 DEF StreamEnd
        <5> QED BY <2>2, <2>4, <2>8, <3>2, <5>1
      <4>2. CASE ready # <<>>
        <5>1. i # 1 /\ i - 1 = Len(ready) /\ Len(ready) \in 1..Len(ready)
          BY <1>d, <3>2, <4>2
        <5>2. StreamEnd = EndOf(ready'[i - 1])
          BY <2>4, <4>2, <5>1 DEF StreamEnd
        <5> QED BY <2>4, <2>8, <3>2, <5>1, <5>2
      <4> QED BY <4>1, <4>2
    <3> QED BY <1>d, <2>4, <3>1, <3>2
  <2>10. StreamEnd' = cb.position + ChunkFrames
    <3>1. ready' # <<>> /\ ready'[Len(ready')] = RawBatch
      BY <1>d, <1>1, <2>4
    <3> QED BY <2>6, <3>1 DEF StreamEnd, EndOf
  <2>11. Positioned'
    <3>1. cb'.pc # "dropFault"
      BY <1>2 DEF NextChunk
    <3> QED BY <1>2, <1>3, <1>c, <2>10, <3>1 DEF Positioned
  <2> QED BY <2>9, <2>11
<1> QED BY <1>4, <1>5, <1>6 DEF StreamInv

(* drop_frames: what the position has not reached yet is pending. *)
LEMMA DropChains ==
  ASSUME QueueInv, StreamInv, CallbackDrop \/ CallbackDropFault
  PROVE  StreamInv'
<1> USE CaptureAssumption
<1>a. CallbackType /\ CaptureTypeOK
  BY DEF QueueInv, CaptureTypeOK
<1>b. cb.left > 0 /\ UNCHANGED <<wk, expected, stopped, ready>>
  BY DEF CallbackDrop, CallbackDropFault, StreamInv, FramesLeft, history
<1>c. ChunkFrames \in Nat /\ ChunkFrames > 0 /\ ChunkFrames <= cb.left
  BY <1>a, <1>b, ChunkIsNotEmpty
<1>d. /\ cb.left \in Nat /\ cb.position \in Nat /\ cb.pending \in Nat /\ cb.first \in BOOLEAN
      /\ StreamEnd \in Nat
  BY <1>a, EndsAreNat DEF CallbackType
<1>e. TakenEnd' = TakenEnd /\ StreamEnd' = StreamEnd /\ (Delivering' <=> Delivering)
  BY <1>b DEF TakenEnd, StreamEnd, EndOf, Delivering
<1>f. ReadyChained => ReadyChained'
  BY <1>b, <1>e DEF ReadyChained, Follows, MarkFits, EndOf
<1>g. DiscardsStopped' /\ StreamAccounted'
  BY <1>b DEF StreamInv, DiscardsStopped, StreamAccounted
<1>1. CASE CallbackDrop
  <2>1. /\ cb.pc = "drop" /\ cb'.pc = "dropFault" /\ cb'.pending = cb.pending + ChunkFrames
        /\ cb'.left = cb.left /\ cb'.position = cb.position /\ cb'.first = cb.first
    BY <1>1, <1>a DEF CallbackDrop, CallbackType
  <2>2. ChunkFrames' = ChunkFrames
    BY <2>1 DEF ChunkFrames
  <2>3. Positioned => Positioned'
    <3> SUFFICES ASSUME Positioned PROVE Positioned'
      OBVIOUS
    <3>1. cb.position = StreamEnd + cb.pending
      BY <2>1, <1>d DEF Positioned
    <3>2. cb'.position + ChunkFrames' = StreamEnd' + cb'.pending
      BY <1>c, <1>d, <1>e, <2>1, <2>2, <3>1
    <3> QED BY <1>e, <2>1, <3>2 DEF Positioned
  <2>4. FramesLeft'
    BY <1>b, <2>1 DEF FramesLeft
  <2> QED BY <1>e, <1>f, <1>g, <2>3, <2>4 DEF StreamInv
<1>2. CASE CallbackDropFault
  <2>1. /\ cb.pc = "dropFault" /\ cb'.pc = NextChunk(ChunkFrames) /\ cb'.pending = cb.pending
        /\ cb'.left = cb.left - ChunkFrames /\ cb'.position = cb.position + ChunkFrames
        /\ cb'.first = cb.first
    BY <1>2, <1>a DEF CallbackDropFault, CallbackType
  <2>2. cb'.pc \in {"idle", "chunk"} /\ (cb'.pc = "chunk" => cb.left # ChunkFrames)
    BY <2>1 DEF NextChunk
  <2>3. Positioned => Positioned'
    <3> SUFFICES ASSUME Positioned PROVE Positioned'
      OBVIOUS
    <3>1. cb.position + ChunkFrames = StreamEnd + cb.pending
      BY <2>1 DEF Positioned
    <3>2. cb'.position + 0 = StreamEnd' + cb'.pending
      BY <1>c, <1>d, <1>e, <2>1, <3>1
    <3> QED BY <1>e, <2>1, <2>2, <3>2 DEF Positioned
  <2>4. FramesLeft'
    BY <1>c, <1>d, <2>1, <2>2 DEF FramesLeft
  <2> QED BY <1>e, <1>f, <1>g, <2>3, <2>4 DEF StreamInv
<1> QED BY <1>1, <1>2

(* The other steps of the callback leave the chain alone. *)
LEMMA CallbackChains ==
  ASSUME QueueInv, StreamInv, Callback
  PROVE  StreamInv'
<1> USE CaptureAssumption
<1>a. CallbackType
  BY DEF QueueInv, CaptureTypeOK
<1>b. cb.left \in Nat
  BY <1>a DEF CallbackType
<1>1. CASE CallbackPush \/ CallbackDrop \/ CallbackDropFault
  BY <1>1, PushChains, DropChains
<1>2. CASE ~(CallbackPush \/ CallbackDrop \/ CallbackDropFault)
  <2>1. /\ UNCHANGED <<ready, expected, wk>> /\ (stopped => stopped')
        /\ cb.pc # "dropFault" /\ cb'.pc # "dropFault"
        /\ cb'.position = cb.position /\ cb'.pending = cb.pending /\ cb'.first = cb.first
        /\ FramesLeft'
    <3>1. ASSUME NEW frames \in 0..MaxCallback, NEW delayed \in BOOLEAN,
                 CallbackEnter(frames, delayed)
          PROVE  <2>1!:
      <4>1. /\ cb.pc = "idle" /\ cb'.left = frames /\ frames \in Nat
            /\ cb'.pc \in {"code", "delay", "chunk"} /\ (cb'.pc # "code" => frames # 0)
            /\ cb'.position = cb.position /\ cb'.pending = cb.pending /\ cb'.first = cb.first
        BY <3>1, <1>a DEF CallbackEnter, CallbackType
      <4> QED BY <3>1, <4>1 DEF CallbackEnter, shared, history, FramesLeft
    <3>2. CASE CallbackDelayFault
      <4>1. /\ cb.pc = "delay" /\ cb'.pc = "chunk" /\ cb'.left = cb.left
            /\ cb'.position = cb.position /\ cb'.pending = cb.pending /\ cb'.first = cb.first
        BY <3>2, <1>a DEF CallbackDelayFault, CallbackType
      <4> QED BY <3>2, <4>1 DEF CallbackDelayFault, shared, history, StreamInv, FramesLeft
    <3>3. CASE CallbackTakeBuffer
      <4>1. /\ cb.pc = "chunk" /\ cb'.pc \in {"fill", "drop"} /\ cb'.left = cb.left
            /\ cb'.position = cb.position /\ cb'.pending = cb.pending /\ cb'.first = cb.first
        BY <3>3, <1>a DEF CallbackTakeBuffer, CallbackType
      <4> QED BY <3>3, <4>1 DEF CallbackTakeBuffer, history, StreamInv, FramesLeft
    <3>4. ASSUME NEW outcome \in {"clean", "clipped", "bad"}, CallbackFill(outcome)
          PROVE  <2>1!:
      <4>1. /\ cb.pc = "fill" /\ cb'.pc \in {"giveBack", "push"} /\ cb'.left = cb.left
            /\ cb'.position = cb.position /\ cb'.pending = cb.pending /\ cb'.first = cb.first
        BY <3>4, <1>a DEF CallbackFill, CallbackType
      <4> QED BY <3>4, <4>1 DEF CallbackFill, shared, history, StreamInv, FramesLeft
    <3>5. CASE CallbackGiveBack
      <4>1. /\ cb.pc = "giveBack" /\ cb'.pc = "code"
            /\ cb'.position = cb.position /\ cb'.pending = cb.pending /\ cb'.first = cb.first
        BY <3>5, <1>a DEF CallbackGiveBack, CallbackType
      <4> QED BY <3>5, <4>1 DEF CallbackGiveBack, history, FramesLeft
    <3>6. CASE CallbackClip
      <4>1. /\ cb.pc = "clip" /\ cb'.left = cb.left
            /\ cb'.pc \in {"idle", "chunk"} /\ (cb'.pc = "chunk" => cb.left # 0)
            /\ cb'.position = cb.position /\ cb'.pending = cb.pending /\ cb'.first = cb.first
        BY <3>6, <1>a DEF CallbackClip, CallbackType, NextChunk
      <4> QED BY <3>6, <4>1, <1>b DEF CallbackClip, history, FramesLeft
    <3>7. CASE CallbackStopCode
      <4>1. /\ cb.pc = "code" /\ cb'.pc = "flag"
            /\ cb'.position = cb.position /\ cb'.pending = cb.pending /\ cb'.first = cb.first
        BY <3>7, <1>a DEF CallbackStopCode, CallbackType
      <4> QED BY <3>7, <4>1 DEF CallbackStopCode, history, FramesLeft
    <3>8. CASE CallbackStopFlag
      <4>1. /\ cb.pc = "flag" /\ cb'.pc = "idle"
            /\ cb'.position = cb.position /\ cb'.pending = cb.pending /\ cb'.first = cb.first
        BY <3>8, <1>a DEF CallbackStopFlag, CallbackType
      <4> QED BY <3>8, <4>1 DEF CallbackStopFlag, history, FramesLeft
    <3> QED BY <1>2, <3>1, <3>2, <3>3, <3>4, <3>5, <3>6, <3>7, <3>8 DEF Callback
  <2>2. Delivering' => Delivering
    BY <2>1 DEF Delivering
  <2>3. DiscardsStopped'
    BY <2>1 DEF StreamInv, DiscardsStopped
  <2>4. (Delivering' => ReadyChained' /\ Positioned') /\ StreamAccounted'
    BY <2>1, <2>2, ChainStays
  <2> QED BY <2>1, <2>3, <2>4 DEF StreamInv
<1> QED BY <1>1, <1>2

(* The error callback only stops the stream. *)
LEMMA ErrorChains ==
  ASSUME StreamInv, ErrorCallback
  PROVE  StreamInv'
<1>1. UNCHANGED <<ready, expected, wk, cb>> /\ (stopped => stopped')
  BY DEF ErrorCallback, ErrorEnter, ErrorStopCode, ErrorStopFlag, shared, history
<1>2. Delivering' => Delivering
  BY <1>1 DEF Delivering
<1>3. FramesLeft' /\ DiscardsStopped'
  BY <1>1 DEF StreamInv, FramesLeft, DiscardsStopped
<1>4. (Delivering' => ReadyChained' /\ Positioned') /\ StreamAccounted'
  BY <1>1, <1>2, ChainStays
<1> QED BY <1>3, <1>4 DEF StreamInv

(* ready.pop: the worker takes the head of the chain. *)
LEMMA PopChains ==
  ASSUME QueueInv, StreamInv, PopReady, ready # <<>>
  PROVE  StreamInv'
<1>a. CaptureTypeOK /\ ready \in Seq(CaptureBatch) /\ WorkerType
  BY DEF QueueInv, CaptureTypeOK, SharedType
<1>b. /\ ready' = Tail(ready) /\ UNCHANGED <<cb, expected, stopped>>
      /\ wk' = [wk EXCEPT !.pc = "copy", !.batch = Head(ready)] /\ wk.pc = "pop"
  BY DEF PopReady, history
<1>c. wk'.pc = "copy" /\ wk'.batch = ready[1]
  BY <1>a, <1>b DEF WorkerType
<1>d. /\ Len(ready) \in Nat /\ Len(ready) > 0 /\ Len(ready') = Len(ready) - 1
      /\ \A i \in 1..Len(ready') : ready'[i] = ready[i + 1]
  BY <1>a, <1>b
<1>e. ReadyChained /\ Positioned
  BY <1>b DEF StreamInv, Delivering
<1>1. Follows(ready[1], expected) /\ TakenEnd' = EndOf(ready[1])
  BY <1>b, <1>c, <1>d, <1>e DEF ReadyChained, TakenEnd, EndOf
<1>2. StreamAccounted'
  BY <1>b, <1>c, <1>1 DEF StreamAccounted, Follows, MarkFits
<1>3. ReadyChained'
  <2> SUFFICES ASSUME NEW i \in 1..Len(ready')
               PROVE  Follows(ready'[i], IF i = 1 THEN TakenEnd' ELSE EndOf(ready'[i - 1]))
    BY DEF ReadyChained, Follows, MarkFits, EndOf
  <2>1. i + 1 \in 1..Len(ready) /\ i + 1 # 1 /\ (i + 1) - 1 = i
    BY <1>d
  <2>2. Follows(ready[i + 1], EndOf(ready[i]))
    BY <1>e, <2>1 DEF ReadyChained
  <2>3. CASE i = 1
    BY <1>1, <1>d, <2>2, <2>3
  <2>4. CASE i # 1
    <3>1. i - 1 \in 1..Len(ready') /\ ready'[i - 1] = ready[(i - 1) + 1] /\ (i - 1) + 1 = i
      BY <1>d, <2>4
    <3> QED BY <1>d, <2>2, <2>4, <3>1
  <2> QED BY <2>3, <2>4
<1>4. StreamEnd' = StreamEnd
  <2>1. CASE Len(ready) = 1
    <3>1. ready' = <<>>
      BY <1>a, <1>b, <2>1
    <3> QED BY <1>1, <2>1, <3>1 DEF StreamEnd, EndOf
  <2>2. CASE Len(ready) # 1
    <3>1. Len(ready') \in 1..Len(ready') /\ Len(ready') + 1 = Len(ready)
      BY <1>d, <2>2
    <3>2. ready'[Len(ready')] = ready[Len(ready)]
      BY <1>d, <3>1
    <3>3. Len(ready') > 0
      BY <1>d, <2>2
    <3>4. ready' # <<>>
      BY <3>3
    <3> QED BY <3>2, <3>4 DEF StreamEnd, EndOf
  <2> QED BY <2>1, <2>2
<1>5. Positioned'
  BY <1>b, <1>e, <1>4 DEF Positioned, ChunkFrames
<1>6. FramesLeft' /\ DiscardsStopped'
  BY <1>b, <1>c DEF StreamInv, FramesLeft, DiscardsStopped
<1> QED BY <1>2, <1>3, <1>5, <1>6 DEF StreamInv

(* The other steps of the worker.  A discarded batch is never delivered,    *)
(* and a returned one ends where the next is expected.                      *)
LEMMA WorkerChains ==
  ASSUME QueueInv, StreamInv, Worker
  PROVE  StreamInv'
<1>a. CaptureTypeOK /\ WorkerType /\ ready \in Seq(CaptureBatch)
  BY DEF QueueInv, CaptureTypeOK, SharedType
<1>1. CASE PopReady /\ ready # <<>>
  BY <1>1, PopChains
<1>2. CASE NextBatch \/ NextFault \/ ReportTerminal \/ StopCapture \/ (PopReady /\ ready = <<>>)
  <2>1. /\ UNCHANGED <<ready, expected, cb>> /\ (stopped => stopped')
        /\ wk'.batch = wk.batch /\ wk.pc # "copy" /\ wk'.pc # "copy"
        /\ wk'.pc \in {"discard", "discardPush"} => stopped'
        /\ wk'.pc = "pop" => ~stopped
    <3>1. CASE NextBatch
      <4>1. /\ wk.pc = "idle" /\ wk'.pc = (IF stopped THEN "discard" ELSE "pop")
            /\ wk'.batch = wk.batch
        BY <1>a, <3>1 DEF NextBatch, WorkerType
      <4> QED BY <3>1, <4>1 DEF NextBatch, shared, history
    <3>2. CASE NextFault
      <4>1. wk.pc = "idle" /\ wk'.pc \in {"idle", "swap"} /\ wk'.batch = wk.batch
        BY <1>a, <3>2 DEF NextFault, WorkerType
      <4> QED BY <3>2, <4>1 DEF NextFault, history
    <3>3. CASE ReportTerminal
      <4>1. wk.pc = "swap" /\ wk'.pc = "idle" /\ wk'.batch = wk.batch
        BY <1>a, <3>3 DEF ReportTerminal, WorkerType
      <4> QED BY <3>3, <4>1 DEF ReportTerminal
    <3>4. CASE StopCapture
      <4>1. wk.pc = "idle" /\ wk'.pc = "discard" /\ wk'.batch = wk.batch
        BY <1>a, <3>4 DEF StopCapture, WorkerType
      <4> QED BY <3>4, <4>1 DEF StopCapture, history
    <3>5. CASE PopReady /\ ready = <<>>
      <4>1. wk.pc = "pop" /\ wk'.pc = "idle" /\ wk'.batch = wk.batch
        BY <1>a, <3>5 DEF PopReady, WorkerType
      <4> QED BY <3>5, <4>1 DEF PopReady, history
    <3> QED BY <1>2, <3>1, <3>2, <3>3, <3>4, <3>5
  <2>2. Delivering' => Delivering
    BY <2>1 DEF Delivering
  <2>3. FramesLeft' /\ DiscardsStopped'
    BY <2>1 DEF StreamInv, FramesLeft, DiscardsStopped
  <2>4. (Delivering' => ReadyChained' /\ Positioned') /\ StreamAccounted'
    BY <2>1, <2>2, ChainStays
  <2> QED BY <2>3, <2>4 DEF StreamInv
<1>3. CASE ReturnBatch
  <2>1. /\ UNCHANGED <<ready, cb, stopped>> /\ wk.pc = "copy" /\ wk'.pc = "idle"
        /\ expected' = EndOf(wk.batch)
    BY <1>a, <1>3 DEF ReturnBatch, WorkerType, EndOf
  <2>2. TakenEnd' = TakenEnd
    BY <2>1 DEF TakenEnd
  <2>3. StreamEnd' = StreamEnd
    BY <2>1, <2>2 DEF StreamEnd, EndOf
  <2>4. Delivering
    BY <2>1 DEF Delivering
  <2>5. ReadyChained'
    BY <2>1, <2>2, <2>4 DEF StreamInv, ReadyChained, Follows, MarkFits, EndOf
  <2>6. Positioned'
    BY <2>1, <2>3, <2>4 DEF StreamInv, Positioned, ChunkFrames
  <2>7. FramesLeft' /\ DiscardsStopped' /\ StreamAccounted'
    BY <2>1 DEF StreamInv, FramesLeft, DiscardsStopped, StreamAccounted
  <2> QED BY <2>5, <2>6, <2>7 DEF StreamInv
<1>4. CASE DiscardPop \/ DiscardPush
  <2>1. /\ stopped /\ stopped' /\ cb' = cb
        /\ wk'.pc \notin {"copy", "pop"}
    <3>1. stopped /\ stopped' = stopped /\ cb' = cb
      BY <1>4 DEF DiscardPop, DiscardPush, StreamInv, DiscardsStopped
    <3>2. wk'.pc \notin {"copy", "pop"}
      BY <1>a, <1>4 DEF DiscardPop, DiscardPush, WorkerType
    <3> QED BY <3>1, <3>2
  <2>2. ~Delivering'
    BY <2>1 DEF Delivering
  <2>3. FramesLeft' /\ DiscardsStopped' /\ StreamAccounted'
    BY <2>1 DEF StreamInv, FramesLeft, DiscardsStopped, StreamAccounted
  <2> QED BY <2>2, <2>3 DEF StreamInv
<1> QED BY <1>1, <1>2, <1>3, <1>4 DEF Worker

(* The stream starts with an empty chain at frame zero. *)
LEMMA StreamInit ==
  ASSUME CaptureInit
  PROVE  StreamInv
<1>1. /\ ready = <<>> /\ expected = 0 /\ wk.pc = "idle" /\ cb.pc = "idle"
      /\ cb.position = 0 /\ cb.pending = 0 /\ cb.first = TRUE /\ wk.batch = NoBatch
  BY DEF CaptureInit
<1>2. TakenEnd = 0 /\ StreamEnd = 0
  BY <1>1 DEF TakenEnd, StreamEnd
<1>3. ReadyChained
  BY <1>1 DEF ReadyChained
<1>4. Positioned
  BY <1>1, <1>2 DEF Positioned
<1>5. FramesLeft /\ DiscardsStopped /\ StreamAccounted
  BY <1>1 DEF FramesLeft, DiscardsStopped, StreamAccounted
<1> QED BY <1>3, <1>4, <1>5 DEF StreamInv

(* Every step keeps the chain whole. *)
LEMMA StreamStep ==
  ASSUME QueueInv, StreamInv, [CaptureNext]_captureVars
  PROVE  StreamInv'
<1>1. CASE UNCHANGED captureVars
  BY <1>1 DEF captureVars, shared, history, StreamInv, FramesLeft, DiscardsStopped, Delivering,
     ReadyChained, Positioned, StreamAccounted, Follows, MarkFits, TakenEnd, StreamEnd, EndOf,
     ChunkFrames
<1> QED BY <1>1, CallbackChains, ErrorChains, WorkerChains DEF CaptureNext

(***************************************************************************)
(* The stream invariant holds: whatever the interleaving of the callbacks  *)
(* with next_batch, the batches in the worker's hands and in the ready     *)
(* queue, then the frames dropped since, make up the stream without a hole.*)
(***************************************************************************)
THEOREM StreamInvariant == CaptureSpec => []StreamInv
<1>1. CaptureInit => StreamInv
  BY StreamInit
<1>2. QueueInv /\ StreamInv /\ [CaptureNext]_captureVars => StreamInv'
  BY StreamStep
<1> QED BY <1>1, <1>2, QueueInvariant, PTL DEF CaptureSpec

(***************************************************************************)
(* Every batch next_batch delivers starts where the one before ended, plus *)
(* exactly the frames its overflow mark says were dropped, for every queue *)
(* capacity, chunk size and callback size.                                 *)
(***************************************************************************)
THEOREM StreamIsAccounted == CaptureSpec => []StreamAccounted
<1>1. StreamInv => StreamAccounted
  BY DEF StreamInv
<1> QED BY <1>1, StreamInvariant, PTL
=============================================================================
