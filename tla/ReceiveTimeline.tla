--------------------------- MODULE ReceiveTimeline ---------------------------
(***************************************************************************)
(* Ft8ReceiveTimeline of crates/audio/src/timeline.rs: capture batches are *)
(* checked for identity, lateness, position and clock mapping, resampled   *)
(* to output ticks and cut into UTC-aligned slots.  A sample is modelled   *)
(* by the pair of source frames it is interpolated between; sample values  *)
(* and the reported maxima (jitter, drift) are left out.  push is taken    *)
(* output tick by output tick; nothing runs between its steps.             *)
(***************************************************************************)
EXTENDS Integers, Sequences

CONSTANTS
  SrcRate,       \* source frames per time tick (InputConfiguration)
  OutRate,       \* OUTPUT_TICKS_PER_MILLISECOND: output ticks per time tick
  SlotMillis,    \* FT8_RECEIVE_SLOT_MILLIS, in time ticks
  MaxLateness,   \* MAX_RECEIVE_BATCH_LATENESS_MILLIS
  MaxJitter,     \* MAX_RECEIVE_JITTER_MILLIS
  MaxRemap,      \* MAX_RECEIVE_CLOCK_REMAP_MILLIS
  MinEvidence,   \* 1_000: time before the drift is judged
  DriftScale,    \* 1_000_000: parts of the drift estimate
  MaxDrift,      \* MAX_RECEIVE_DRIFT_PARTS_PER_MILLION
  StartUtc,      \* UTC minus process time when the stream starts
  MaxPosition,   \* bound: frames the device produces
  Sizes,         \* batch sizes, in frames
  Delays,        \* delays between capture and push
  Jitters,       \* deviations of a batch's clock readings
  UtcSteps,      \* steps the system's UTC may take
  MaxOrigin,     \* bound: process time at which the stream was opened
  MaxFaults      \* bound: deliveries that are not the device's next frames

ASSUME TimelineAssumption ==
  /\ {SrcRate, OutRate, SlotMillis, MinEvidence, DriftScale} \subseteq Nat \ {0}
  /\ {MaxLateness, MaxJitter, MaxRemap, MaxDrift} \subseteq Nat
  /\ \A a, b \in Jitters \union {0} : MaxLateness + a - b + 1 < SlotMillis
  /\ {StartUtc, MaxPosition, MaxOrigin, MaxFaults} \subseteq Nat
  /\ Sizes \subseteq Nat \ {0} /\ Delays \subseteq Nat
  /\ Jitters \subseteq Int /\ UtcSteps \subseteq Int

TicksPerSlot == OutRate * SlotMillis

NoPosition == -1
NoAnchor == [pos |-> -1, utc |-> -1, mono |-> -1]
NoSlot == [slot |-> -1, samples |-> <<>>]
NoResampler == [nextTick |-> -1, prev |-> NoPosition, active |-> NoSlot]
NoPush == [position |-> NoPosition]

VARIABLES
  tl,      \* the timeline
  push,    \* the push the resampler is working on, or NoPush
  last,    \* the last push: its batch, delay, error and windows
  dev,     \* the next frame the device produces
  now,     \* process-local monotonic time of the last push
  origin,  \* process time at which the stream was opened
  shift,   \* what the system's UTC was stepped by since then
  stepped, \* history: it was stepped back
  strays,  \* deliveries that were not the device's next frames
  opened,  \* history: slots the timeline has begun
  windows, \* history: slots it has published
  newest   \* history: the latest slot it has published

timelineVars == <<tl, push, last, dev, now, origin, shift, stepped, strays, opened, windows, newest>>

-----------------------------------------------------------------------------
(* A batch: the first frame's position and clock readings, its length, the *)
(* discontinuity before it, and whether it is of this stream generation.   *)
Batch(first, frames, utc, mono, mark, own) ==
  [first |-> first, frames |-> frames, utc |-> utc, mono |-> mono,
   mark |-> mark, own |-> own]

Magnitude(x) == IF x < 0 THEN -x ELSE x

(* An empty timeline: Ft8ReceiveTimeline::new. *)
NewTimeline ==
  [expected |-> NoPosition, lastPos |-> NoPosition, lastMono |-> -1,
   anchor |-> NoAnchor, rs |-> NoResampler, incomplete |-> 0, late |-> 0]

(* Mutant of Lateness: it is measured from the batch's last frame. *)
LatenessFromEnd(batch, at) ==
  LET end == batch.mono + batch.frames \div SrcRate
  IN  IF at > end THEN at - end ELSE 0

(* push: the saturating lateness of a batch observed at time at. *)
Lateness(batch, at) == IF at > batch.mono THEN at - batch.mono ELSE 0

(* Mutant of PositionError: a gap without a mark is not noticed. *)
PositionErrorMissesGap(t, batch) ==
  IF t.expected = NoPosition \/ batch.first >= t.expected THEN "None"
  ELSE IF batch.first < t.lastPos THEN "OutOfOrder"
  ELSE "Overlap"

(* validate_position *)
PositionError(t, batch) ==
  IF t.expected \in {NoPosition, batch.first} THEN "None"
  ELSE IF batch.first > t.expected THEN "Gap"
  ELSE IF batch.first < t.lastPos THEN "OutOfOrder"
  ELSE "Overlap"

(* validate_mapping, against the anchor of the current run of batches. *)
MappingError(t, batch) ==
  LET nominal == (batch.first - t.anchor.pos) \div SrcRate
      jitter  == (batch.mono - t.anchor.mono) - nominal
      remap   == (batch.utc - batch.mono) - (t.anchor.utc - t.anchor.mono)
  IN  IF batch.mono < t.lastMono \/ batch.mono < t.anchor.mono
      THEN "MonotonicRegression"
      ELSE IF batch.first < t.anchor.pos THEN "OutOfOrder"
      ELSE IF Magnitude(jitter) > MaxJitter THEN "ExcessiveJitter"
      ELSE IF Magnitude(remap) > MaxRemap THEN "ClockRemapped"
      ELSE IF /\ nominal >= MinEvidence
              /\ (Magnitude(jitter) * DriftScale) \div nominal > MaxDrift
      THEN "ExcessiveDrift"
      ELSE "None"

(* advance_expected *)
Advance(t, batch) ==
  [t EXCEPT !.expected = batch.first + batch.frames,
            !.lastPos = batch.first, !.lastMono = batch.mono]

(* Mutant of Invalidate: a discarded partial slot is not counted. *)
InvalidateUncounted(t) == [t EXCEPT !.anchor = NoAnchor, !.rs = NoResampler]

(* invalidate_active, discard_active: a partial slot is counted. *)
Invalidate(t) ==
  [t EXCEPT !.anchor = NoAnchor, !.rs = NoResampler,
            !.incomplete = IF t.rs.active = NoSlot THEN @ ELSE @ + 1]

-----------------------------------------------------------------------------
Answer(t, error) == [tl |-> t, error |-> error]

Reject(t, error) == Answer(Invalidate(t), error)

RejectPast(t, batch, error) == Answer(Advance(Invalidate(t), batch), error)

(* The anchor of a new run of batches is its first frame. *)
Anchored(t, batch) ==
  IF t.anchor # NoAnchor THEN t
  ELSE [t EXCEPT !.anchor = [pos |-> batch.first, utc |-> batch.utc, mono |-> batch.mono]]

(* push, up to the resampler: the checks in order. *)
Checked(t, batch, at) ==
  IF ~batch.own THEN Answer(t, "StreamGenerationChanged")
  ELSE IF Lateness(batch, at) > MaxLateness
  THEN RejectPast([t EXCEPT !.late = @ + 1], batch, "LateData")
  ELSE IF PositionError(t, batch) = "Gap" THEN RejectPast(t, batch, "Gap")
  ELSE IF PositionError(t, batch) # "None" THEN Reject(t, PositionError(t, batch))
  ELSE IF batch.mark # "None" /\ ~(t.expected = NoPosition /\ batch.mark = "StreamRestart")
  THEN RejectPast(t, batch, "Discontinuity")
  ELSE IF t.anchor # NoAnchor /\ MappingError(t, batch) # "None"
  THEN RejectPast(t, batch, MappingError(t, batch))
  ELSE Answer(Anchored(t, batch), "None")

-----------------------------------------------------------------------------
(* The resampler.  `work` is its state during one push, with the windows   *)
(* published and the slots given up so far, the slots begun, and whether a *)
(* checked operation failed.                                               *)

AnchorTick(anchor) == anchor.utc * OutRate
SlotOf(tick) == (tick \div TicksPerSlot) * TicksPerSlot

(***************************************************************************)
(* mapping_for_tick: a slot that begins before the first retained frame is *)
(* mapped to the anchor itself; otherwise its monotonic start must not be  *)
(* before the stream's monotonic origin.  The division truncates.          *)
(***************************************************************************)
SlotMapping(anchor, slot) ==
  LET ticks  == slot - AnchorTick(anchor)
      frames == (Magnitude(ticks) * SrcRate) \div OutRate
      pos    == IF ticks < 0 THEN anchor.pos - frames ELSE anchor.pos + frames
  IN  IF pos < 0 THEN anchor
      ELSE [pos |-> pos, utc |-> slot \div OutRate,
            mono |-> anchor.mono + slot \div OutRate - anchor.utc]

(* push_output: the sample for work.nextTick joins its slot. *)
PushOutput(anchor, work, sample) ==
  LET slot    == SlotOf(work.nextTick)
      fresh   == work.active.slot # slot
      samples == IF fresh THEN <<sample>> ELSE Append(work.active.samples, sample)
      given   == IF fresh /\ work.active # NoSlot THEN work.incomplete + 1 ELSE work.incomplete
      begun   == IF fresh THEN work.begun + 1 ELSE work.begun
  IN  IF fresh /\ SlotMapping(anchor, slot).mono < 0
      THEN [work EXCEPT !.active = NoSlot, !.failed = TRUE]
      ELSE IF Len(samples) = TicksPerSlot
      THEN [work EXCEPT !.active = NoSlot, !.begun = begun, !.nextTick = @ + 1,
                        !.incomplete = given,
                        !.windows = Append(@, [slot |-> slot, samples |-> samples])]
      ELSE [work EXCEPT !.active = [slot |-> slot, samples |-> samples],
                        !.begun = begun, !.nextTick = @ + 1, !.incomplete = given]

(* The resampler takes up a batch: RationalResampler::new if there is none. *)
Begin(t, batch, at) ==
  LET rs == IF t.rs = NoResampler
            THEN [NoResampler EXCEPT !.nextTick = AnchorTick(t.anchor)] ELSE t.rs
  IN  [tl |-> t, batch |-> batch, at |-> at, position |-> batch.first,
       work |-> [nextTick |-> rs.nextTick, prev |-> rs.prev, active |-> rs.active,
                 windows |-> <<>>, incomplete |-> 0, begun |-> 0, failed |-> FALSE]]

(* The last output tick due up to a frame. *)
DueTick(anchor, position) ==
  AnchorTick(anchor) + ((position - anchor.pos) * OutRate) \div SrcRate

Previous == IF push.work.prev = NoPosition THEN push.position ELSE push.work.prev

Resampling ==
  /\ push # NoPush
  /\ ~push.work.failed /\ push.position < push.batch.first + push.batch.frames

Outside == <<dev, now, origin, shift, stepped, strays, opened, windows, newest>>

(* push_sample: an output tick is due up to this frame. *)
OutputTick ==
  /\ Resampling
  /\ push.work.nextTick <= DueTick(push.tl.anchor, push.position)
  /\ push' = [push EXCEPT !.work =
       PushOutput(push.tl.anchor, [push.work EXCEPT !.prev = Previous],
                  <<Previous, push.position>>)]
  /\ UNCHANGED <<tl, last, Outside>>

(* push_sample is done with this frame. *)
FrameDone ==
  /\ Resampling
  /\ push.work.nextTick > DueTick(push.tl.anchor, push.position)
  /\ push' = [push EXCEPT !.position = @ + 1, !.work.prev = push.position]
  /\ UNCHANGED <<tl, last, Outside>>

-----------------------------------------------------------------------------
(* The capture side and the caller.  Frame p is captured at process time   *)
(* origin + p/SrcRate, a batch is pushed once its last frame is captured,  *)
(* and SystemCallbackClock counts from `origin`.                           *)

CapturedAt(first) == origin + first \div SrcRate

(* push has answered a batch at time at. *)
Answered(batch, at, error, published) ==
  /\ last' = [batch |-> batch, age |-> at - CapturedAt(batch.first), error |-> error,
              windows |-> published]
  /\ now' = at
  /\ windows' = windows + Len(published)
  /\ newest' = IF published = <<>> THEN newest ELSE published[Len(published)].slot
  /\ UNCHANGED <<origin, shift, stepped>>

(***************************************************************************)
(* The end of an accepted push: a failed checked operation returns before  *)
(* the incomplete slots are counted and the expected position moves.       *)
(***************************************************************************)
PushReturns ==
  /\ push # NoPush /\ ~Resampling
  /\ LET work == push.work
         t    == [push.tl EXCEPT !.rs = [nextTick |-> work.nextTick, prev |-> work.prev,
                                         active |-> work.active]]
     IN  IF work.failed
         THEN tl' = t /\ Answered(push.batch, push.at, "ArithmeticOverflow", <<>>)
         ELSE /\ tl' = Advance([t EXCEPT !.incomplete = @ + work.incomplete], push.batch)
              /\ Answered(push.batch, push.at, "None", work.windows)
  /\ opened' = opened + push.work.begun
  /\ push' = NoPush
  /\ UNCHANGED <<dev, strays>>

(* One push, delay after the batch was complete and the caller free. *)
Deliver(batch, delay) ==
  LET complete == CapturedAt(batch.first + batch.frames)
      at       == (IF now > complete THEN now ELSE complete) + delay
  IN  /\ push = NoPush
      /\ \E answer \in {Checked(tl, batch, at)} :
           IF answer.error = "None"
           THEN /\ push' = Begin(answer.tl, batch, at)
                /\ UNCHANGED <<tl, last, now, origin, shift, stepped, opened, windows, newest>>
           ELSE /\ tl' = answer.tl
                /\ Answered(batch, at, answer.error, <<>>)
                /\ UNCHANGED <<push, opened>>

(* The callback's reading for a batch: jitter moves both clocks, and the   *)
(* monotonic reading saturates at the stream's origin.                     *)
Reading(first, frames, jitter, mark) ==
  LET mono == CapturedAt(first) - origin + jitter
      utc  == StartUtc + CapturedAt(first) + shift + jitter
  IN  Batch(first, frames, IF utc < 0 THEN 0 ELSE utc, IF mono < 0 THEN 0 ELSE mono,
            mark, TRUE)

NextFrames(frames, jitter, delay) ==
  /\ dev + frames <= MaxPosition
  /\ dev' = dev + frames
  /\ Deliver(Reading(dev, frames, jitter, IF dev = 0 THEN "StreamRestart" ELSE "None"),
             delay)
  /\ UNCHANGED strays

(* Frames are lost before the batch, marked as an overflow or not. *)
LoseFrames(lost, frames, mark) ==
  /\ strays < MaxFaults
  /\ dev + lost + frames <= MaxPosition
  /\ dev' = dev + lost + frames
  /\ strays' = strays + 1
  /\ Deliver(Reading(dev + lost, frames, 0, mark), 0)

(* Frames the device already produced arrive again. *)
RepeatFrames(first, frames, delay) ==
  /\ strays < MaxFaults
  /\ first + frames <= dev
  /\ strays' = strays + 1
  /\ Deliver(Reading(first, frames, 0, "None"), delay)
  /\ UNCHANGED dev

(* A batch of another stream generation. *)
StaleStream ==
  /\ strays < MaxFaults
  /\ strays' = strays + 1
  /\ Deliver([Reading(0, 1, 0, "None") EXCEPT !.own = FALSE], 0)
  /\ UNCHANGED dev

StepUtc(step) ==
  /\ push = NoPush
  /\ strays < MaxFaults
  /\ shift' = shift + step
  /\ stepped' = (stepped \/ step < 0)
  /\ strays' = strays + 1
  /\ UNCHANGED <<tl, push, last, dev, now, origin, opened, windows, newest>>

TimelineInit ==
  /\ tl = NewTimeline
  /\ push = NoPush
  /\ last = [batch |-> Batch(0, 0, 0, 0, "None", TRUE), age |-> 0, error |-> "None",
             windows |-> <<>>]
  /\ dev = 0 /\ now = 0 /\ shift = 0 /\ stepped = FALSE /\ strays = 0
  /\ opened = 0 /\ windows = 0 /\ newest = -1
  /\ origin \in 0..MaxOrigin

TimelineNext ==
  \/ OutputTick \/ FrameDone \/ PushReturns
  \/ \E frames \in Sizes, jitter \in Jitters, delay \in Delays :
       NextFrames(frames, jitter, delay)
  \/ \E lost \in 1..2, frames \in Sizes, mark \in {"None", "Overflow"} :
       LoseFrames(lost, frames, mark)
  \/ \E first \in 0..dev, frames \in Sizes, delay \in Delays :
       RepeatFrames(first, frames, delay)
  \/ StaleStream
  \/ \E step \in UtcSteps : StepUtc(step)

TimelineSpec == TimelineInit /\ [][TimelineNext]_timelineVars

-----------------------------------------------------------------------------
Error ==
  {"None", "StreamGenerationChanged", "LateData", "Gap", "OutOfOrder", "Overlap",
   "Discontinuity", "MonotonicRegression", "ExcessiveJitter", "ClockRemapped",
   "ExcessiveDrift", "ArithmeticOverflow"}

(* Every variable has its type; the anchor and the resampler come and go   *)
(* together, and a slot in progress is shorter than a slot.                *)
TimelineTypeOK ==
  /\ tl.expected \in Nat \union {NoPosition}
  /\ tl.lastPos <= tl.expected
  /\ tl.anchor = NoAnchor <=> tl.rs = NoResampler
  /\ Len(tl.rs.active.samples) < TicksPerSlot
  /\ last.error \in Error
  /\ dev \in 0..MaxPosition

(* A sample is interpolated between neighbouring frames around its tick.   *)
Bracketed(anchor, tick, sample) ==
  LET due  == (tick - AnchorTick(anchor)) * SrcRate
      from == sample[1]
      to   == sample[2]
  IN  /\ to - from \in {0, 1}
      /\ (from - anchor.pos) * OutRate <= due
      /\ due <= (to - anchor.pos) * OutRate

WholeWindow(anchor, window) ==
  /\ Len(window.samples) = TicksPerSlot
  /\ \A k \in 1..TicksPerSlot :
       Bracketed(anchor, window.slot + k - 1, window.samples[k])

(***************************************************************************)
(* A published window is whole: one sample for each tick of its slot, each *)
(* interpolated between neighbouring source frames that bracket the tick   *)
(* on the anchored timeline, so no lost frame is ever bridged              *)
(* (push_sample, push_output, invalidate_active).                          *)
(***************************************************************************)
WindowsAreWhole ==
  \A i \in 1..Len(last.windows) : WholeWindow(tl.anchor, last.windows[i])

(***************************************************************************)
(* Every slot the timeline begins is published, counted as incomplete, or  *)
(* the one in progress (push, invalidate_active).                          *)
(***************************************************************************)
SlotsAreAccounted ==
  opened = windows + tl.incomplete + (IF tl.rs.active = NoSlot THEN 0 ELSE 1)

(***************************************************************************)
(* As long as the system's UTC is not stepped back, published slots only   *)
(* increase: batches repeated late may move the expected position back and *)
(* let old frames in under a fresh anchor, but never a whole slot of them. *)
(***************************************************************************)
SlotsIncrease ==
  [][\A i \in 1..Len(last'.windows) : ~stepped => last'.windows[i].slot > newest]_last

(***************************************************************************)
(* crates/audio/src/lib.rs, CaptureTimeEvidence: "Monotonic milliseconds   *)
(* from the current process origin", against which lateness is measured: a *)
(* batch pushed within MaxLateness of its capture is not rejected as late. *)
(***************************************************************************)
PromptBatchIsNotLate == last.error = "LateData" => last.age > MaxLateness
=============================================================================
