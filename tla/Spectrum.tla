------------------------------ MODULE Spectrum ------------------------------
(***************************************************************************)
(* SpectrumModel of crates/audio/src/spectrum.rs: chunks of canonical      *)
(* samples go in, waterfall rows of FftSize samples, Hop apart, come out   *)
(* into a fixed number of retained rows, and one publication token tells a *)
(* consumer that a snapshot is due.  A sample is its place (generation,    *)
(* slot, offset): what the FFT makes of it is left out.  push is taken row *)
(* by row; nothing runs between its steps.                                 *)
(***************************************************************************)
EXTENDS Integers, Sequences

CONSTANTS
  FftSize, Hop,     \* fft_size and hop_samples of the configuration
  SlotSamples,      \* FT8_RECEIVE_WINDOW_SAMPLES
  MaxChunk,         \* MAX_SPECTRUM_CHUNK_SAMPLES
  MaxRowsPerPush,   \* MAX_SPECTRUM_ROWS_PER_PUSH
  WaterfallRows,    \* waterfall_rows of the configuration
  Cadence,          \* publication_millis, in samples
  MaxGen,           \* bound: generations, each a stream of a process
  ProcessOf,        \* the process of each generation
  MaxSlots,         \* bound: slots
  MaxRows           \* bound: rows ever produced

(* SpectrumConfig::new *)
ASSUME SpectrumAssumption ==
  /\ {FftSize, Hop, SlotSamples, MaxChunk, MaxRowsPerPush, WaterfallRows} \subseteq Nat \ {0}
  /\ Hop <= FftSize
  /\ (MaxChunk + Hop - 1) \div Hop <= MaxRowsPerPush
  /\ {Cadence, MaxGen, MaxSlots, MaxRows} \subseteq Nat
  /\ ProcessOf \in [1..MaxGen -> Nat]

VARIABLES
  cursor,        \* where the next contiguous chunk begins, or NoCursor
  pending,       \* pending_samples
  pendingStart,  \* pending_start_offset
  rows,          \* the retained rows
  reason,        \* pending_discontinuity, or "None"
  nextSeq,       \* next_sequence
  lastPub,       \* last_publication_utc_micros, or -1
  token,         \* publication_pending
  chunk,         \* the chunk push is working on, or NoChunk
  produced,      \* rows this push has produced
  mark           \* history: the last reset's reason, and the row to carry it

vars == <<cursor, pending, pendingStart, rows, reason, nextSeq, lastPub, token,
          chunk, produced, mark>>

NoCursor == [gen |-> 0]
NoChunk == [gen |-> 0]
Reason == {"ProcessGenerationChanged", "StreamGenerationChanged",
           "TimelineDiscontinuity", "ClockHealthLost"}

Sample(gen, slot, offset) == [gen |-> gen, slot |-> slot, offset |-> offset]

(* row_start_utc_micros, in samples. *)
RowUtc(slot, offset) == slot * SlotSamples + offset

Init ==
  /\ cursor = NoCursor /\ pending = <<>> /\ pendingStart = 0
  /\ rows = <<>> /\ reason = "None" /\ nextSeq = 0
  /\ lastPub = -1 /\ token = FALSE
  /\ chunk = NoChunk /\ produced = 0
  /\ mark = [seq |-> -1, reason |-> "None"]

(* Mutant of ResetState: an earlier reason wins over the one that counts. *)
ResetStateKeepsReason(why) ==
  [cursor |-> NoCursor, pending |-> <<>>, rows |-> <<>>,
   reason |-> IF reason = "None" THEN why ELSE reason, lastPub |-> -1, token |-> FALSE]

(* reset *)
ResetState(why) ==
  [cursor |-> NoCursor, pending |-> <<>>, rows |-> <<>>, reason |-> why,
   lastPub |-> -1, token |-> FALSE]

Become(s) ==
  /\ cursor' = s.cursor /\ pending' = s.pending /\ rows' = s.rows
  /\ reason' = s.reason /\ lastPub' = s.lastPub /\ token' = s.token

(* The next row is the first after a reset for this reason. *)
Marked(why) == [seq |-> nextSeq, reason |-> why]

(* reset, called by the coordinator at start, stop and inhibit. *)
Reset(why) ==
  /\ chunk = NoChunk
  /\ Become(ResetState(why))
  /\ mark' = Marked(why)
  /\ UNCHANGED <<pendingStart, nextSeq, chunk, produced>>

Contiguous(c) ==
  cursor.gen = c.gen /\ cursor.slot = c.slot /\ cursor.next = c.start

NextSlot(c) ==
  /\ cursor.gen = c.gen
  /\ cursor.next = SlotSamples /\ c.start = 0 /\ c.slot = cursor.slot + 1

(* Why prepare_chunk resets, "None" if it does not. *)
Break(c) ==
  IF c.disc # "None" THEN c.disc
  ELSE IF cursor = NoCursor THEN "None"
  ELSE IF ProcessOf[cursor.gen] # ProcessOf[c.gen] THEN "ProcessGenerationChanged"
  ELSE IF cursor.gen # c.gen THEN "StreamGenerationChanged"
  ELSE IF Contiguous(c) \/ NextSlot(c) THEN "None"
  ELSE "TimelineDiscontinuity"

(* Mutant of Overlap: samples carry over into the next slot. *)
OverlapCarried(c) == IF Break(c) # "None" THEN <<>> ELSE pending

(* prepare_chunk: the samples kept from before, none across a slot. *)
Overlap(c) ==
  IF Break(c) # "None" \/ (cursor # NoCursor /\ ~Contiguous(c)) THEN <<>> ELSE pending

(* Mutant of RowsAtStart: the count of the push before goes on. *)
RowsAtStartKept == produced

(* The row count push begins with. *)
RowsAtStart == 0

(* push, up to its loop: prepare_chunk, then the samples are queued. *)
Push(c) ==
  /\ chunk = NoChunk
  /\ chunk' = c /\ produced' = RowsAtStart
  /\ pending' = Overlap(c) \o [i \in 1..c.count |-> Sample(c.gen, c.slot, c.start + i - 1)]
  /\ pendingStart' = IF Overlap(c) = <<>> THEN c.start ELSE pendingStart
  /\ IF Break(c) # "None"
     THEN LET s == ResetState(Break(c))
          IN  /\ cursor' = s.cursor /\ rows' = s.rows /\ reason' = s.reason
              /\ lastPub' = s.lastPub /\ token' = s.token
              /\ mark' = Marked(Break(c))
     ELSE UNCHANGED <<cursor, rows, reason, lastPub, token, mark>>
  /\ UNCHANGED nextSeq

(* The oldest row makes room at fixed capacity. *)
Evict == IF Len(rows) = WaterfallRows THEN Tail(rows) ELSE rows

(* mark_publication: due at first and then at the cadence. *)
Due == lastPub = -1 \/ RowUtc(chunk.slot, pendingStart) - lastPub >= Cadence

(* produce_row *)
ProduceRow ==
  /\ chunk # NoChunk /\ Len(pending) >= FftSize
  /\ produced < MaxRowsPerPush /\ nextSeq < MaxRows
  /\ LET utc == RowUtc(chunk.slot, pendingStart)
     IN  /\ rows' = Append(Evict,
              [seq |-> nextSeq, gen |-> chunk.gen, slot |-> chunk.slot,
               start |-> pendingStart, reason |-> reason,
               samples |-> SubSeq(pending, 1, FftSize)])
         /\ token' = (token \/ Due)
         /\ lastPub' = IF Due THEN utc ELSE lastPub
  /\ nextSeq' = nextSeq + 1 /\ reason' = "None"
  /\ pending' = SubSeq(pending, Hop + 1, Len(pending))
  /\ pendingStart' = pendingStart + Hop
  /\ produced' = produced + 1
  /\ UNCHANGED <<cursor, chunk, mark>>

(* push returns once less than a row is pending. *)
Pushed ==
  /\ chunk # NoChunk /\ Len(pending) < FftSize
  /\ cursor' = [gen |-> chunk.gen, slot |-> chunk.slot, next |-> chunk.start + chunk.count]
  /\ chunk' = NoChunk
  /\ UNCHANGED <<pending, pendingStart, rows, reason, nextSeq, lastPub, token,
                 produced, mark>>

(* take_snapshot *)
TakeSnapshot ==
  /\ chunk = NoChunk /\ token
  /\ token' = FALSE
  /\ UNCHANGED <<cursor, pending, pendingStart, rows, reason, nextSeq, lastPub,
                 chunk, produced, mark>>

Chunk ==
  {c \in [gen : 1..MaxGen, slot : 0..MaxSlots - 1, start : 0..SlotSamples - 1,
          count : 1..MaxChunk, disc : {"None", "ClockHealthLost"}] :
     c.start + c.count <= SlotSamples}

Next ==
  \/ \E c \in Chunk : Push(c)
  \/ ProduceRow \/ Pushed \/ TakeSnapshot
  \/ \E why \in {"StreamGenerationChanged", "TimelineDiscontinuity"} : Reset(why)

Spec == Init /\ [][Next]_vars

-----------------------------------------------------------------------------
(* Every variable has its type; the retained rows keep to their capacity. *)
TypeOK ==
  /\ Len(rows) <= WaterfallRows
  /\ reason \in Reason \union {"None"}
  /\ nextSeq \in 0..MaxRows
  /\ pendingStart \in 0..SlotSamples + Hop
  /\ token \in BOOLEAN
  /\ produced \in 0..MaxRowsPerPush

(***************************************************************************)
(* An FFT row is made of FftSize consecutive samples of one stream and one *)
(* slot, those its header names, and never spans two slots, whatever order *)
(* chunks, boundaries and resets came in.  The retained rows, at most      *)
(* WaterfallRows, are one unbroken run: each continues the one before it   *)
(* by one hop, or begins the next slot where the one before it was the     *)
(* last row its slot had room for.                                         *)
(***************************************************************************)
RowsAreWhole ==
  /\ \A i \in DOMAIN rows :
       /\ rows[i].samples =
            [k \in 1..FftSize |-> Sample(rows[i].gen, rows[i].slot, rows[i].start + k - 1)]
       /\ rows[i].start + FftSize <= SlotSamples
  /\ Len(rows) <= WaterfallRows
  /\ \A i \in 2..Len(rows) :
       LET prev == rows[i - 1]
           row  == rows[i]
       IN  /\ row.seq = prev.seq + 1 /\ row.gen = prev.gen
           /\ \/ row.slot = prev.slot /\ row.start = prev.start + Hop
              \/ /\ row.slot = prev.slot + 1 /\ row.start = 0
                 /\ prev.start + Hop + FftSize > SlotSamples

(***************************************************************************)
(* The first row after a reset, and no other, carries the exact reason of  *)
(* the last reset before it.                                               *)
(***************************************************************************)
ResetIsMarked ==
  \A i \in DOMAIN rows :
    rows[i].reason = IF rows[i].seq = mark.seq THEN mark.reason ELSE "None"

(***************************************************************************)
(* One push never meets the row bound that would make it fail half way:    *)
(* the configuration's check of the chunk size against the hop is enough,  *)
(* overlap left from earlier pushes included.                              *)
(***************************************************************************)
PushIsBounded == chunk # NoChunk /\ Len(pending) >= FftSize => produced < MaxRowsPerPush
=============================================================================
