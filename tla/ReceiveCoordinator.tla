------------------------- MODULE ReceiveCoordinator -------------------------
(***************************************************************************)
(* LiveReceiveCoordinator of apps/daemon/src/receive.rs with its input     *)
(* stream.  The coordinator's methods run one at a time on the daemon's    *)
(* worker; poll is split where it looks at the input, because the native   *)
(* callbacks run beside it, and a crash may come between any two steps.    *)
(* A batch stands for one unit of audio, a slot for SlotUnits of them.     *)
(* Clock, mapping, decoder and record verdicts are inputs (ClockMonitor    *)
(* and ReceiveTimeline model the first two in full); the spectrum, which   *)
(* no decision depends on, is left out.                                    *)
(***************************************************************************)
EXTENDS Integers, Sequences, FiniteSets

CONSTANTS
  WorkerBatches,   \* WORKER_BATCH_CAPACITY
  QueueBatches,    \* callback_queue_batches of SystemReceiveInput
  SlotUnits,       \* units of audio in one FT8 slot
  MaxUnits,        \* bound: units one stream produces
  MaxStarts,       \* bound: start attempts of one process
  MaxProcs         \* bound: daemon processes

ASSUME CoordinatorAssumption ==
  /\ {WorkerBatches, SlotUnits} \subseteq Nat \ {0}
  /\ QueueBatches \in Nat /\ QueueBatches >= 2
  /\ {MaxUnits, MaxStarts, MaxProcs} \subseteq Nat

VARIABLES
  proc,       \* process generation (and service instance)
  clockConfig, \* what ReceiveClockMonitor::new says of the process's clock_config
  state,      \* ReceiveLifecycleState: phase and stream generation
  lastGen,    \* last_stream_generation
  input,      \* the open native stream, or NoInput
  timeline,   \* the timeline and the clock monitor beside it, or NoTimeline
  backlog,    \* worker_batches
  step,       \* where poll stands, "idle" between calls
  window,     \* the gated and decoded window about to be recorded
  store,      \* windows made durable
  lost        \* history: units of the current stream the callbacks had to drop

coordinatorVars == <<proc, clockConfig, state, lastGen, input, timeline, backlog, step, window, store, lost>>
daemon == <<proc, clockConfig, state, lastGen, timeline, backlog, step, window, store>>

NoInput == [gen |-> 0]
NoTimeline == [gen |-> 0]
NoWindow == [slot |-> -1, units |-> {}]

Phase == {"Stopped", "Starting", "Receiving", "Inhibited"}

(* The outcome of a call that the environment decides. *)
Verdict == {"ok", "fails"}

Batch == [gen : Nat, unit : Nat, mark : {"None", "StreamRestart", "Overflow"}]

(***************************************************************************)
(* SystemInputCapture::start: a stream of generation g whose first unit    *)
(* falls at place `offset` of an FT8 slot.                                 *)
(***************************************************************************)
OpenStream(g, offset) ==
  [gen |-> g, offset |-> offset, next |-> 0, dropped |-> FALSE, ready |-> <<>>,
   fault |-> FALSE, overflow |-> FALSE, dead |-> FALSE]

(* Ft8ReceiveTimeline::new and ReceiveClockMonitor::new. *)
NewTimeline(g, offset) ==
  [gen |-> g, offset |-> offset, expected |-> -1, active |-> NoWindow]

CoordinatorInit ==
  /\ proc = 1 /\ clockConfig \in Verdict
  /\ state = [phase |-> "Stopped", gen |-> 0]
  /\ lastGen = 0
  /\ input = NoInput /\ timeline = NoTimeline /\ backlog = <<>>
  /\ step = "idle" /\ window = NoWindow
  /\ store = {} /\ lost = {}

-----------------------------------------------------------------------------
(* The native callbacks, as CaptureQueue models them in full.              *)

Open == input # NoInput /\ ~input.dead

(* A unit of audio is queued, with the discontinuity that precedes it. *)
CaptureUnit ==
  /\ Open /\ input.next < MaxUnits
  /\ Len(input.ready) < QueueBatches
  /\ input' = [input EXCEPT
       !.next = @ + 1, !.dropped = FALSE,
       !.ready = Append(@, [gen |-> input.gen, unit |-> input.next,
                            mark |-> IF input.dropped THEN "Overflow"
                                     ELSE IF input.next = 0 THEN "StreamRestart"
                                     ELSE "None"])]
  /\ UNCHANGED <<daemon, lost>>

(* The queue is full: the counter goes up, the diagnostic comes later or,  *)
(* if its queue is full too, never.                                        *)
DropUnit ==
  /\ Open /\ input.next < MaxUnits
  /\ Len(input.ready) = QueueBatches
  /\ input' = [input EXCEPT !.next = @ + 1, !.dropped = TRUE, !.overflow = TRUE]
  /\ lost' = lost \union {input.next}
  /\ UNCHANGED daemon

(* A callback delay, clipping or overflow diagnostic is queued. *)
Diagnose ==
  /\ Open /\ ~input.fault
  /\ input' = [input EXCEPT !.fault = TRUE]
  /\ UNCHANGED <<daemon, lost>>

(* A terminal fault stops the callbacks; next_batch then discards. *)
LoseDevice ==
  /\ Open
  /\ input' = [input EXCEPT !.dead = TRUE]
  /\ UNCHANGED <<daemon, lost>>

-----------------------------------------------------------------------------
(* The coordinator.                                                        *)

(* Mutant of Inhibit: admitted batches survive. *)
InhibitKeepsBacklog ==
  /\ state' = [state EXCEPT !.phase = "Inhibited"]
  /\ input' = NoInput /\ timeline' = NoTimeline
  /\ step' = "idle" /\ window' = NoWindow
  /\ UNCHANGED <<proc, clockConfig, lastGen, backlog, store, lost>>

(* inhibit: input.stop, then everything of this generation is dropped. *)
Inhibit ==
  /\ state' = [state EXCEPT !.phase = "Inhibited"]
  /\ input' = NoInput /\ timeline' = NoTimeline /\ backlog' = <<>>
  /\ step' = "idle" /\ window' = NoWindow
  /\ UNCHANGED <<proc, clockConfig, lastGen, store, lost>>

(* Mutant of Start: a failed attempt does not use up its generation. *)
StartReusesGeneration(clock, opened, offset) ==
  /\ step = "idle" /\ state.phase = "Stopped" /\ lastGen < MaxStarts
  /\ state' = [phase |-> IF clock = "ok" /\ opened = "ok"
                         THEN "Receiving" ELSE "Inhibited",
               gen |-> lastGen + 1]
  /\ IF clock = "ok" /\ opened = "ok"
     THEN /\ input' = OpenStream(lastGen + 1, offset)
          /\ timeline' = NewTimeline(lastGen + 1, offset) /\ lastGen' = lastGen + 1
     ELSE UNCHANGED <<input, timeline, lastGen>>
  /\ backlog' = <<>> /\ lost' = {}
  /\ UNCHANGED <<proc, clockConfig, step, window, store>>

(***************************************************************************)
(* start: the generation is reserved first.  A clock sample of another     *)
(* process generation, or an input that does not open (SystemReceiveInput  *)
(* refuses a second stream), inhibits.  If the monitor then refuses its    *)
(* configuration, start returns the error as it stands: Starting, with the *)
(* input open.                                                             *)
(***************************************************************************)
Start(clock, opened, offset) ==
  /\ step = "idle" /\ state.phase = "Stopped" /\ lastGen < MaxStarts
  /\ lastGen' = lastGen + 1
  /\ IF clock = "fails" \/ opened = "fails" \/ input # NoInput
     THEN /\ state' = [phase |-> "Inhibited", gen |-> lastGen + 1]
          /\ UNCHANGED <<input, timeline, backlog>>
     ELSE /\ input' = OpenStream(lastGen + 1, offset)
          /\ IF clockConfig = "ok"
             THEN /\ state' = [phase |-> "Receiving", gen |-> lastGen + 1]
                  /\ timeline' = NewTimeline(lastGen + 1, offset) /\ backlog' = <<>>
             ELSE /\ state' = [phase |-> "Starting", gen |-> lastGen + 1]
                  /\ UNCHANGED <<timeline, backlog>>
  /\ lost' = {}
  /\ UNCHANGED <<proc, clockConfig, step, window, store>>

(* stop, through Stopping, from Receiving or Inhibited only. *)
Stop ==
  /\ step = "idle" /\ state.phase \in {"Receiving", "Inhibited"}
  /\ state' = [phase |-> "Stopped", gen |-> lastGen]
  /\ input' = NoInput /\ timeline' = NoTimeline /\ backlog' = <<>>
  /\ UNCHANGED <<proc, clockConfig, lastGen, step, window, store, lost>>

(* observe_clock: a healthy verdict changes nothing here. *)
ObserveClock ==
  /\ step = "idle" /\ state.phase = "Receiving"
  /\ Inhibit

(* Mutant of PollFault: a stream that died without a diagnostic is polled. *)
PollFaultMissesDeath ==
  /\ step = "idle" /\ state.phase = "Receiving"
  /\ \/ /\ input.fault
        /\ Inhibit
     \/ /\ ~input.fault
        /\ step' = "health"
        /\ UNCHANGED <<proc, clockConfig, state, lastGen, input, timeline, backlog, window, store, lost>>

(* poll: next_fault, which returns a terminal fault before a diagnostic. *)
PollFault ==
  /\ step = "idle" /\ state.phase = "Receiving"
  /\ \/ /\ input.fault \/ input.dead
        /\ Inhibit
     \/ /\ ~input.fault /\ ~input.dead
        /\ step' = "health"
        /\ UNCHANGED <<proc, clockConfig, state, lastGen, input, timeline, backlog, window, store, lost>>

(* poll: health, and the overflow count in it. *)
PollHealth(health) ==
  /\ step = "health"
  /\ \/ /\ health = "fails" \/ input.overflow
        /\ Inhibit
     \/ /\ health = "ok" /\ ~input.overflow
        /\ step' = "clock"
        /\ UNCHANGED <<proc, clockConfig, state, lastGen, input, timeline, backlog, window, store, lost>>

(* poll: the clock snapshot. *)
PollClock(clock) ==
  /\ step = "clock"
  /\ \/ /\ clock = "fails"
        /\ Inhibit
     \/ /\ clock = "ok"
        /\ step' = "fill"
        /\ UNCHANGED <<proc, clockConfig, state, lastGen, input, timeline, backlog, window, store, lost>>

(* poll: next_batch, until the backlog is full or the queue is empty.  A   *)
(* dead stream's queue is discarded and reads as empty.                    *)
PollFill(batch) ==
  /\ step = "fill"
  /\ IF Len(backlog) < WorkerBatches /\ batch = "fails"
     THEN Inhibit
     ELSE /\ IF Len(backlog) < WorkerBatches /\ ~input.dead /\ input.ready # <<>>
             THEN /\ backlog' = Append(backlog, Head(input.ready))
                  /\ input' = [input EXCEPT !.ready = Tail(@)]
                  /\ UNCHANGED step
             ELSE /\ step' = "process"
                  /\ input' = IF Len(backlog) < WorkerBatches
                              THEN [input EXCEPT !.ready = <<>>] ELSE input
                  /\ UNCHANGED backlog
          /\ UNCHANGED <<proc, clockConfig, state, lastGen, timeline, window, store, lost>>

(* Ft8ReceiveTimeline::push refuses another generation's batch, a gap and  *)
(* a marked discontinuity.                                                 *)
Continuous(batch) ==
  /\ batch.gen = timeline.gen
  /\ timeline.expected \in {-1, batch.unit}
  /\ \/ batch.mark = "None"
     \/ timeline.expected = -1 /\ batch.mark = "StreamRestart"

SlotOf(unit) == (unit + timeline.offset) \div SlotUnits

(* Mutant of Active: a window is continued across the slot boundary. *)
ActiveAcrossSlots(batch) ==
  [slot |-> SlotOf(batch.unit), units |-> timeline.active.units \union {batch.unit}]

(* push_output: the accumulator of the batch's slot with the batch in it. *)
Active(batch) ==
  LET slot == SlotOf(batch.unit)
  IN  [slot |-> slot,
       units |-> {batch.unit} \union
                   IF timeline.active.slot = slot THEN timeline.active.units ELSE {}]

Completes(batch) == Cardinality(Active(batch).units) = SlotUnits

(* push, when it accepts: a completed window leaves the accumulator. *)
Pushed(batch) ==
  [timeline EXCEPT !.expected = batch.unit + 1,
                   !.active = IF Completes(batch) THEN NoWindow ELSE Active(batch)]

(* What process_batch does with a whole window before it is recorded: the  *)
(* spectrum, the PCM buffer or the window's identity may refuse it with an *)
(* error of poll itself, the decoder or ReceiveRecord::new inhibits.       *)
Treatment == Verdict \union {"error"}

(***************************************************************************)
(* poll: one batch is popped and processed.  mapping is the timeline's     *)
(* verdict on its readings, gate the clock monitor's on a whole window.  A *)
(* window whose treatment is an error is dropped, and receive goes on.     *)
(***************************************************************************)
PollProcess(mapping, gate, treatment) ==
  /\ step = "process"
  /\ IF backlog = <<>>
     THEN /\ step' = "idle"
          /\ UNCHANGED <<proc, clockConfig, state, lastGen, input, timeline, backlog, window, store, lost>>
     ELSE LET batch == Head(backlog)
          IN  IF \/ ~Continuous(batch) \/ mapping = "fails"
                 \/ Completes(batch) /\ (gate = "fails" \/ treatment = "fails")
              THEN Inhibit
              ELSE /\ timeline' = Pushed(batch)
                   /\ backlog' = Tail(backlog)
                   /\ IF Completes(batch) /\ treatment = "ok"
                      THEN window' = Active(batch) /\ step' = "record"
                      ELSE step' = "idle" /\ UNCHANGED window
                   /\ UNCHANGED <<proc, clockConfig, state, lastGen, input, store, lost>>

(* process_batch: store.record_receive, under the window's own identity. *)
RecordWindow(stored) ==
  /\ step = "record"
  /\ \/ /\ stored = "fails"
        /\ Inhibit
     \/ /\ stored = "ok"
        /\ store' = store \union {[proc |-> proc, gen |-> timeline.gen,
                                   slot |-> window.slot, units |-> window.units,
                                   offset |-> timeline.offset]}
        /\ step' = "idle" /\ window' = NoWindow
        /\ UNCHANGED <<proc, clockConfig, state, lastGen, input, timeline, backlog, lost>>

(* The daemon dies at any point; the next process composes a coordinator   *)
(* with `new`, which opens nothing and does not look at the clock          *)
(* configuration.  The store is what survives.                             *)
Restart ==
  /\ proc < MaxProcs
  /\ proc' = proc + 1 /\ clockConfig' \in Verdict
  /\ state' = [phase |-> "Stopped", gen |-> 0]
  /\ lastGen' = 0
  /\ input' = NoInput /\ timeline' = NoTimeline /\ backlog' = <<>>
  /\ step' = "idle" /\ window' = NoWindow /\ lost' = {}
  /\ UNCHANGED store

Poll ==
  \/ PollFault
  \/ \E v \in Verdict : PollHealth(v) \/ PollClock(v) \/ PollFill(v) \/ RecordWindow(v)
  \/ \E mapping, gate \in Verdict, treatment \in Treatment : PollProcess(mapping, gate, treatment)

Callbacks == CaptureUnit \/ DropUnit \/ Diagnose \/ LoseDevice

CoordinatorNext ==
  \/ Callbacks
  \/ \E clock, opened \in Verdict, offset \in 0..SlotUnits - 1 :
       Start(clock, opened, offset)
  \/ Stop \/ ObserveClock \/ Poll \/ Restart

CoordinatorSpec == CoordinatorInit /\ [][CoordinatorNext]_coordinatorVars

(* The daemon's worker keeps polling a receiving coordinator. *)
CoordinatorFairSpec == CoordinatorSpec /\ WF_coordinatorVars(Poll)

-----------------------------------------------------------------------------
(* Every variable has its type. *)
CoordinatorTypeOK ==
  /\ proc \in 1..MaxProcs /\ clockConfig \in Verdict
  /\ state \in [phase : Phase, gen : 0..MaxStarts]
  /\ lastGen \in 0..MaxStarts
  /\ input = NoInput \/ input.ready \in Seq(Batch)
  /\ timeline = NoTimeline \/ timeline.active.units \subseteq 0..MaxUnits - 1
  /\ backlog \in Seq(Batch) /\ Len(backlog) <= WorkerBatches
  /\ step \in {"idle", "health", "clock", "fill", "process", "record"}

(***************************************************************************)
(* A window the store holds is the whole of its FT8 slot: every unit of    *)
(* the slot and no other, none of which the callbacks had to drop, however *)
(* drops, device loss, stops and crashes fell around poll.                 *)
(***************************************************************************)
DurableWindowsAreWhole ==
  \A w \in store :
    /\ w.units = {u \in 0..MaxUnits - 1 : (u + w.offset) \div SlotUnits = w.slot}
    /\ Cardinality(w.units) = SlotUnits
    /\ w.proc = proc /\ w.gen = lastGen => w.units \cap lost = {}

(***************************************************************************)
(* Nothing outlives its stream.  A native stream is open exactly while     *)
(* receive is running, or once a start has failed in the clock monitor,    *)
(* whatever the configuration; it is the stream of the current generation, *)
(* and the timeline and the worker's backlog, within its bound, are those  *)
(* of that stream and of a running receive only.  No path through start,   *)
(* poll, observe_clock, inhibit, stop or a restart leaves a stream or a    *)
(* batch behind for a later one.                                           *)
(***************************************************************************)
InputOwnership ==
  /\ input # NoInput <=> state.phase \in {"Receiving", "Starting"}
  /\ state.phase = "Starting" => clockConfig # "ok"
  /\ input # NoInput => input.gen = lastGen /\ state.gen = lastGen
  /\ backlog # <<>> \/ timeline # NoTimeline => state.phase = "Receiving"
  /\ timeline # NoTimeline => timeline.gen = lastGen
  /\ Len(backlog) <= WorkerBatches
  /\ \A i \in DOMAIN backlog : backlog[i].gen = lastGen

(***************************************************************************)
(* What docs/live-receive.md:34-35 promises of start, as of every failure: *)
(* clock setup that fails reaches Inhibited with the input stopped, so a   *)
(* stream is never open unless receive is running.                         *)
(***************************************************************************)
InputOnlyWhileReceiving == input # NoInput => state.phase = "Receiving"

(***************************************************************************)
(* A queued fault, a lost device or a drop does not go unnoticed: receive  *)
(* leaves Receiving, whatever poll was doing when it happened.             *)
(***************************************************************************)
FaultInhibits ==
  \A g \in 1..MaxStarts :
    (input # NoInput /\ input.gen = g /\ (input.fault \/ input.dead \/ input.overflow))
      ~> (state.phase # "Receiving" \/ state.gen # g)

(* The refinement mapping onto the abstract lifecycle. *)
Lifecycle == INSTANCE ReceiveLifecycle WITH
  Slots <- 0..MaxUnits,
  phase <- state.phase,
  gen <- lastGen,
  published <- {[proc |-> w.proc, gen |-> w.gen, slot |-> w.slot] : w \in store}

(***************************************************************************)
(* The coordinator with its poll loop, its bounded queues and the          *)
(* callbacks beside it is a receive lifecycle: windows appear only while   *)
(* receiving, in slot order within a stream, every attempt has a fresh     *)
(* generation, Inhibited is left by stop or a restart only, and a start    *)
(* that clock setup failed by a restart only.                              *)
(***************************************************************************)
ImplementsLifecycle == Lifecycle!Spec
=============================================================================
