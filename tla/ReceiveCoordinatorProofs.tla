---------------------- MODULE ReceiveCoordinatorProofs ----------------------
(***************************************************************************)
(* What a live receive coordinator keeps, for every slot length, queue     *)
(* capacity, number of units, starts and processes: nothing outlives its   *)
(* stream, a durable window is the whole of its slot, and the coordinator  *)
(* is a receive lifecycle.                                                 *)
(***************************************************************************)
EXTENDS ReceiveCoordinator, FiniteSetTheorems, TLAPS

Units == 0..MaxUnits - 1
Window == [slot : Int, units : SUBSET Units]

Stream ==
  [gen : Nat \ {0}, offset : 0..SlotUnits - 1, next : 0..MaxUnits, dropped : BOOLEAN,
   ready : Seq(Batch), fault : BOOLEAN, overflow : BOOLEAN, dead : BOOLEAN]

Timeline ==
  [gen : Nat \ {0}, offset : 0..SlotUnits - 1, expected : Int, active : Window]

Types ==
  /\ proc \in Nat /\ lastGen \in Nat
  /\ state \in [phase : Phase, gen : Nat]
  /\ input = NoInput \/ input \in Stream
  /\ timeline = NoTimeline \/ timeline \in Timeline
  /\ backlog \in Seq(Batch) /\ Len(backlog) <= WorkerBatches
  /\ step \in {"idle", "health", "clock", "fill", "process", "record"}
  /\ window \in Window /\ lost \subseteq Nat

(* What exists in which phase, and of which generation. *)
Owned ==
  /\ input # NoInput <=> state.phase \in {"Receiving", "Starting"}
  /\ timeline # NoTimeline <=> state.phase = "Receiving"
  /\ input # NoInput => input.gen = lastGen /\ state.gen = lastGen
  /\ timeline # NoTimeline => timeline.gen = lastGen
  /\ backlog # <<>> \/ step # "idle" => state.phase = "Receiving"
  /\ state.phase = "Starting" => clockConfig # "ok"

(* A unit the current stream has produced and not dropped. *)
Fresh(unit) == unit \in Units /\ unit < input.next /\ unit \notin lost

OfStream(batch) == batch.gen = lastGen /\ Fresh(batch.unit)

Queued(batches) == \A i \in 1..Len(batches) : OfStream(batches[i])

(* Units of the stream that the timeline is past. *)
Taken(units) == \A u \in units : Fresh(u) /\ u < timeline.expected

(* Every batch on its way through poll is one the callbacks produced. *)
Pipeline ==
  /\ input # NoInput =>
       Queued(input.ready) /\ Queued(backlog) /\ \A u \in lost : u < input.next
  /\ timeline # NoTimeline =>
       /\ Taken(timeline.active.units)
       /\ \A u \in timeline.active.units : SlotOf(u) = timeline.active.slot

UnitsOf(offset, slot) == {u \in Units : (u + offset) \div SlotUnits = slot}

(* A window of the current stream. *)
Current(w) == w.proc = proc /\ w.gen = lastGen

WindowReady ==
  step = "record" =>
    /\ window.slot \in 0..MaxUnits
    /\ window.units = UnitsOf(timeline.offset, window.slot)
    /\ Cardinality(window.units) = SlotUnits
    /\ Taken(window.units)
    /\ \A w \in store : Current(w) => w.slot < window.slot

Stored ==
  \A w \in store :
    /\ w.proc \in Nat /\ w.gen \in Nat /\ w.slot \in 0..MaxUnits /\ w.offset \in Nat
    /\ w.proc <= proc /\ (w.proc = proc => w.gen <= lastGen)
    /\ w.units = UnitsOf(w.offset, w.slot) /\ Cardinality(w.units) = SlotUnits
    /\ Current(w) =>
         /\ w.units \cap lost = {}
         /\ input # NoInput => \A u \in w.units : u < input.next
         /\ timeline # NoTimeline =>
              w.offset = timeline.offset /\ \A u \in w.units : u < timeline.expected

CoordinatorInv == Types /\ Owned /\ Pipeline /\ WindowReady /\ Stored

-----------------------------------------------------------------------------
(* Slots.                                                                  *)

(* What \div says of the place of a unit. *)
LEMMA DivBounds ==
  ASSUME NEW a \in Nat, NEW n \in Nat \ {0}
  PROVE  a \div n \in Nat /\ n * (a \div n) <= a /\ a < n * (a \div n) + n
OBVIOUS

LEMMA DivMonotone ==
  ASSUME NEW a \in Nat, NEW b \in Nat, a <= b, NEW n \in Nat \ {0}
  PROVE  a \div n <= b \div n
<1> DEFINE p == a \div n
           q == b \div n
<1>1. p \in Nat /\ q \in Nat /\ n * p <= a /\ b < n * q + n
  BY DivBounds
<1> HIDE DEF p, q
<1>2. ASSUME p >= q + 1 PROVE FALSE
  <2>1. n * p >= n * (q + 1)
    BY <1>1, <1>2
  <2>2. n * (q + 1) = n * q + n
    BY <1>1
  <2> QED BY <1>1, <2>1, <2>2
<1>3. p <= q
  BY <1>1, <1>2
<1> QED BY <1>3 DEF p, q

LEMMA DivSmall ==
  ASSUME NEW a \in Nat, NEW n \in Nat \ {0}, NEW m \in Nat, a < m + n
  PROVE  a \div n <= m
<1> DEFINE p == a \div n
<1>1. p \in Nat /\ n * p <= a
  BY DivBounds
<1> HIDE DEF p
<1>2. ASSUME p >= m + 1 PROVE FALSE
  <2>1. n * p >= n * (m + 1)
    BY <1>1, <1>2
  <2>2. n * (m + 1) = n * m + n /\ n * m >= m
    OBVIOUS
  <2> QED BY <1>1, <2>1, <2>2
<1>3. p <= m
  BY <1>1, <1>2
<1> QED BY <1>3 DEF p

(* A slot has room for SlotUnits units. *)
LEMMA SlotIsSmall ==
  ASSUME NEW offset \in Nat, NEW slot \in Nat
  PROVE  /\ IsFiniteSet(UnitsOf(offset, slot))
         /\ Cardinality(UnitsOf(offset, slot)) <= SlotUnits
<1>0. SlotUnits \in Nat \ {0} /\ MaxUnits \in Nat
  BY CoordinatorAssumption
<1> DEFINE a == SlotUnits * slot - offset
           b == SlotUnits * slot - offset + SlotUnits - 1
<1>1. a \in Int /\ b \in Int /\ b - a + 1 = SlotUnits /\ a <= b
  BY <1>0
<1>2. IsFiniteSet(a..b) /\ Cardinality(a..b) = SlotUnits
  <2> HIDE DEF a, b
  <2>1. IsFiniteSet(a..b) /\ Cardinality(a..b) = IF a > b THEN 0 ELSE b - a + 1
    BY <1>1, FS_Interval
  <2>2. ~(a > b)
    BY <1>1
  <2> QED BY <1>1, <2>1, <2>2
<1>3. UnitsOf(offset, slot) \subseteq a..b
  <2> SUFFICES ASSUME NEW u \in Units, (u + offset) \div SlotUnits = slot PROVE u \in a..b
    BY DEF UnitsOf
  <2>1. u \in Nat /\ u + offset \in Nat
    BY <1>0 DEF Units
  <2>2. SlotUnits * slot <= u + offset /\ u + offset < SlotUnits * slot + SlotUnits
    BY <1>0, <2>1, DivBounds
  <2>3. SlotUnits * slot \in Nat
    BY <1>0
  <2> QED BY <1>0, <2>1, <2>2, <2>3
<1> HIDE DEF a, b
<1> QED BY <1>2, <1>3, FS_Subset

(* Units of a slot, as many as it has room for, are the whole slot. *)
LEMMA FullIsWhole ==
  ASSUME NEW offset \in Nat, NEW slot \in Nat, NEW units,
         units \subseteq UnitsOf(offset, slot), Cardinality(units) = SlotUnits
  PROVE  units = UnitsOf(offset, slot)
<1>0. SlotUnits \in Nat
  BY CoordinatorAssumption
<1> DEFINE whole == UnitsOf(offset, slot)
<1>1. IsFiniteSet(whole) /\ Cardinality(whole) <= SlotUnits
  BY SlotIsSmall
<1> HIDE DEF whole
<1>2. units \subseteq whole
  BY DEF whole
<1>3. IsFiniteSet(units) /\ Cardinality(units) <= Cardinality(whole)
      /\ (Cardinality(units) = Cardinality(whole) => units = whole)
  BY <1>1, <1>2, FS_Subset
<1>4. Cardinality(whole) \in Nat
  BY <1>1, FS_CardinalityType
<1>5. Cardinality(units) = Cardinality(whole)
  BY <1>0, <1>1, <1>3, <1>4
<1> QED BY <1>3, <1>5 DEF whole

-----------------------------------------------------------------------------
(* The steps.                                                              *)

LEMMA CoordinatorStarts == CoordinatorInit => CoordinatorInv
<1> SUFFICES ASSUME CoordinatorInit PROVE CoordinatorInv
  OBVIOUS
<1>0. NoWindow \in Window /\ <<>> \in Seq(Batch) /\ Len(<<>>) = 0
  BY DEF NoWindow, Window
<1>1. Types
  BY <1>0, CoordinatorAssumption DEF CoordinatorInit, Types, Phase
<1>2. Owned
  BY DEF CoordinatorInit, Owned
<1>3. Pipeline /\ WindowReady /\ Stored
  BY DEF CoordinatorInit, Pipeline, WindowReady, Stored
<1> QED BY <1>1, <1>2, <1>3 DEF CoordinatorInv

(* The stream is closed and all that belonged to it is dropped, in this    *)
(* process or by its end, or an attempt at a new one fails.                *)
LEMMA ClosingStep ==
  ASSUME CoordinatorInv, NEW phase \in {"Stopped", "Inhibited"}, NEW gen \in Nat,
         state' = [phase |-> phase, gen |-> gen],
         input' = NoInput, timeline' = NoTimeline, backlog' = <<>>, step' = "idle",
         window' \in {window, NoWindow}, store' = store,
         \/ UNCHANGED <<proc, lastGen, lost>>
         \/ proc' = proc + 1 /\ lastGen' = 0 /\ lost' = {}
         \/ proc' = proc /\ lastGen' = lastGen + 1 /\ lost' = {}
  PROVE  CoordinatorInv'
<1>a. /\ proc \in Nat /\ lastGen \in Nat /\ window \in Window
      /\ NoWindow \in Window /\ <<>> \in Seq(Batch) /\ Len(<<>>) = 0
  BY DEF CoordinatorInv, Types, NoWindow, Window
<1>b. state'.phase = phase
  OBVIOUS
<1>1. Types'
  <2>1. lost \subseteq Nat
    BY DEF CoordinatorInv, Types
  <2>2. lost' \subseteq Nat
    BY <2>1
  <2>3. proc' \in Nat /\ lastGen' \in Nat
    BY <1>a
  <2> QED BY <1>a, <2>2, <2>3, CoordinatorAssumption DEF Types, Phase
<1>2. Owned'
  BY <1>b DEF Owned
<1>3. Pipeline' /\ WindowReady'
  BY DEF Pipeline, WindowReady
<1>4. Stored'
  <2> SUFFICES ASSUME NEW w \in store PROVE Stored!(w)'
    BY DEF Stored
  <2>1. /\ w.proc \in Nat /\ w.gen \in Nat /\ w.slot \in 0..MaxUnits /\ w.offset \in Nat
        /\ w.proc <= proc /\ (w.proc = proc => w.gen <= lastGen)
        /\ w.units = UnitsOf(w.offset, w.slot) /\ Cardinality(w.units) = SlotUnits
        /\ Current(w) => w.units \cap lost = {}
    BY DEF CoordinatorInv, Stored
  <2>2. CASE UNCHANGED <<proc, lastGen, lost>>
    BY <2>1, <2>2 DEF Current, UnitsOf
  <2>3. CASE proc' = proc + 1 /\ lastGen' = 0
    <3>1. w.proc < proc'
      BY <1>a, <2>1, <2>3
    <3> QED BY <1>a, <2>1, <3>1 DEF Current, UnitsOf
  <2>4. CASE proc' = proc /\ lastGen' = lastGen + 1 /\ lost' = {}
    <3>1. w.proc = proc => w.gen < lastGen' /\ w.gen <= lastGen'
      BY <1>a, <2>1, <2>4
    <3>2. ~Current(w)'
      BY <1>a, <2>1, <2>4, <3>1 DEF Current
    <3> QED BY <2>1, <2>4, <3>1, <3>2 DEF UnitsOf
  <2> QED BY <2>2, <2>3, <2>4
<1> QED BY <1>1, <1>2, <1>3, <1>4 DEF CoordinatorInv

LEMMA InhibitStep ==
  ASSUME CoordinatorInv, Inhibit
  PROVE  CoordinatorInv'
<1>1. state.gen \in Nat /\ state' = [phase |-> "Inhibited", gen |-> state.gen]
  BY DEF CoordinatorInv, Types, Inhibit
<1>2. /\ input' = NoInput /\ timeline' = NoTimeline /\ backlog' = <<>> /\ step' = "idle"
      /\ window' = NoWindow /\ store' = store /\ UNCHANGED <<proc, lastGen, lost>>
  BY DEF Inhibit
<1> QED BY <1>1, <1>2, ClosingStep

(* The callbacks produce a unit, or drop one, beyond all that is on its    *)
(* way through poll.                                                       *)
LEMMA CallbackStep ==
  ASSUME CoordinatorInv, Callbacks
  PROVE  CoordinatorInv'
<1> USE CoordinatorAssumption
<1>a. input # NoInput /\ input \in Stream /\ Len(input.ready) \in Nat
  BY DEF CoordinatorInv, Types, Callbacks, CaptureUnit, DropUnit, Diagnose, LoseDevice, Open, Stream
<1>b. UNCHANGED <<proc, clockConfig, state, lastGen, timeline, backlog, step, window, store>>
  BY DEF Callbacks, CaptureUnit, DropUnit, Diagnose, LoseDevice, daemon
<1>c. lastGen \in Nat /\ input.gen = lastGen /\ lastGen # 0 /\ input.next \in 0..MaxUnits
  BY <1>a DEF CoordinatorInv, Types, Owned, Stream
<1> DEFINE unit == [gen |-> input.gen, unit |-> input.next,
                    mark |-> IF input.dropped THEN "Overflow"
                             ELSE IF input.next = 0 THEN "StreamRestart" ELSE "None"]
<1>d. unit \in Batch /\ unit.gen = lastGen /\ unit.unit = input.next
  BY <1>c DEF Batch
<1> HIDE DEF unit
<1>1. /\ input' \in Stream /\ input'.gen = lastGen /\ input'.next >= input.next
      /\ \/ input'.ready = input.ready
         \/ /\ input'.ready = Append(input.ready, unit) /\ input'.next = input.next + 1
            /\ input.next \in Units /\ lost' = lost
      /\ \/ lost' = lost
         \/ lost' = lost \union {input.next} /\ input'.next = input.next + 1
  <2>1. CASE CaptureUnit
    <3>1. /\ input' = [input EXCEPT !.next = input.next + 1, !.dropped = FALSE,
                                    !.ready = Append(input.ready, unit)]
          /\ input.next < MaxUnits /\ lost' = lost
      BY <2>1 DEF CaptureUnit, unit
    <3>2. Append(input.ready, unit) \in Seq(Batch) /\ input.next + 1 \in 0..MaxUnits
      BY <1>a, <1>c, <1>d, <3>1 DEF Stream
    <3>3. /\ input' \in Stream /\ input'.gen = lastGen /\ input'.next = input.next + 1
          /\ input'.ready = Append(input.ready, unit)
      BY <1>a, <1>c, <3>1, <3>2 DEF Stream
    <3>4. input.next \in Units /\ input.next + 1 >= input.next
      BY <1>c, <3>1 DEF Units
    <3> QED BY <3>1, <3>3, <3>4
  <2>2. CASE DropUnit
    <3>1. /\ input' = [input EXCEPT !.next = input.next + 1, !.dropped = TRUE, !.overflow = TRUE]
          /\ input.next < MaxUnits /\ lost' = lost \union {input.next}
      BY <2>2 DEF DropUnit
    <3>2. input.next + 1 \in 0..MaxUnits /\ input.next + 1 >= input.next
      BY <1>c, <3>1
    <3>3. /\ input' \in Stream /\ input'.gen = lastGen /\ input'.next = input.next + 1
          /\ input'.ready = input.ready
      BY <1>a, <1>c, <3>1, <3>2 DEF Stream
    <3> QED BY <3>1, <3>2, <3>3
  <2>3. CASE Diagnose \/ LoseDevice
    <3>1. /\ input' = [input EXCEPT !.fault = TRUE] \/ input' = [input EXCEPT !.dead = TRUE]
          /\ lost' = lost
      BY <2>3 DEF Diagnose, LoseDevice
    <3>2. /\ input' \in Stream /\ input'.gen = lastGen /\ input'.next = input.next
          /\ input'.ready = input.ready
      BY <1>a, <1>c, <3>1 DEF Stream
    <3> QED BY <1>c, <3>1, <3>2
  <2> QED BY <2>1, <2>2, <2>3 DEF Callbacks
<1>e. input'.next \in Int /\ input.next \in Int
  BY <1>c, <1>1 DEF Stream
<1>2. input' # NoInput
  BY <1>c, <1>1 DEF NoInput
<1>3. \A u : Fresh(u) => Fresh(u)'
  BY <1>1, <1>e DEF Fresh, Units
<1>3a. \A batch : OfStream(batch) => OfStream(batch)'
  BY <1>b, <1>3 DEF OfStream
<1>4. Types'
  <2>1. lost \subseteq Nat /\ input.next \in Nat
    BY <1>c DEF CoordinatorInv, Types
  <2>2. lost' \subseteq Nat
    BY <1>1, <2>1
  <2> QED BY <1>b, <1>1, <2>2 DEF CoordinatorInv, Types
<1>5. Owned'
  BY <1>a, <1>b, <1>1, <1>2 DEF CoordinatorInv, Owned
<1>6. Queued(backlog)' /\ Queued(input.ready)'
  <2>1. Queued(backlog) /\ Queued(input.ready)
    BY <1>a DEF CoordinatorInv, Pipeline
  <2>2. Queued(backlog)'
    BY <1>b, <1>3a, <2>1 DEF Queued
  <2>3. CASE input'.ready = input.ready
    BY <1>3a, <2>1, <2>2, <2>3 DEF Queued
  <2>4. CASE /\ input'.ready = Append(input.ready, unit) /\ input'.next = input.next + 1
             /\ input.next \in Units /\ lost' = lost
    <3>1. \A u \in lost : u < input.next
      BY <1>a DEF CoordinatorInv, Pipeline
    <3>2. input.next \notin lost
      BY <1>e, <3>1
    <3>3. \A batch : batch = unit => OfStream(batch)'
      <4>1. \A u : u = input.next => Fresh(u)'
        BY <1>e, <2>4, <3>2 DEF Fresh, Units
      <4> QED BY <1>b, <1>d, <4>1 DEF OfStream
    <3>4. /\ Len(input'.ready) = Len(input.ready) + 1 /\ input'.ready[Len(input.ready) + 1] = unit
          /\ \A i \in 1..Len(input.ready) : input'.ready[i] = input.ready[i]
      BY <1>a, <1>d, <2>4 DEF Stream
    <3>5. \A batch, i : i \in 1..Len(input'.ready) /\ batch = input'.ready[i] => OfStream(batch)'
      <4> SUFFICES ASSUME NEW i \in 1..Len(input'.ready), NEW batch, batch = input'.ready[i]
                   PROVE  OfStream(batch)'
        OBVIOUS
      <4>1. CASE i \in 1..Len(input.ready)
        BY <1>3a, <2>1, <3>4, <4>1 DEF Queued
      <4>2. CASE i = Len(input.ready) + 1
        BY <3>3, <3>4, <4>2
      <4> QED BY <1>a, <3>4, <4>1, <4>2
    <3> QED BY <2>2, <3>5 DEF Queued
  <2> QED BY <1>1, <2>2, <2>3, <2>4
<1>7. \A u \in lost' : u < input'.next
  <2>1. \A u \in lost : u \in Nat /\ u < input.next
    BY <1>a DEF CoordinatorInv, Pipeline, Types
  <2> QED BY <1>e, <1>1, <2>1
<1>8. \A units : Taken(units) => Taken(units)'
  BY <1>b, <1>3 DEF Taken
<1>9. Pipeline'
  <2>1. timeline # NoTimeline => Taken(timeline.active.units)'
    BY <1>b, <1>8 DEF CoordinatorInv, Pipeline
  <2> QED BY <1>b, <1>6, <1>7, <2>1 DEF CoordinatorInv, Pipeline, SlotOf
<1>10. WindowReady'
  BY <1>b, <1>8 DEF CoordinatorInv, WindowReady, UnitsOf, Current
<1>11. Stored'
  <2> SUFFICES ASSUME NEW w \in store PROVE Stored!(w)'
    BY <1>b DEF Stored
  <2>1. Stored!(w)
    BY DEF CoordinatorInv, Stored
  <2>2. ASSUME Current(w) PROVE w.units \cap lost' = {} /\ \A u \in w.units : u < input'.next
    <3>1. w.units \cap lost = {} /\ \A u \in w.units : u < input.next /\ u \in Int
      BY <1>a, <2>1, <2>2 DEF UnitsOf, Units
    <3> QED BY <1>e, <1>1, <3>1
  <2> QED BY <1>b, <2>1, <2>2 DEF Current, UnitsOf
<1> QED BY <1>4, <1>5, <1>9, <1>10, <1>11 DEF CoordinatorInv

(* A step of poll that only looks. *)
LEMMA LookStep ==
  ASSUME CoordinatorInv, state.phase = "Receiving",
         step' \in {"idle", "health", "clock", "fill", "process"},
         UNCHANGED <<proc, state, lastGen, input, timeline, backlog, window, store, lost>>
  PROVE  CoordinatorInv'
<1>1. Types' /\ Owned'
  BY DEF CoordinatorInv, Types, Owned
<1>2. Pipeline' /\ WindowReady' /\ Stored'
  BY DEF CoordinatorInv, Pipeline, WindowReady, Stored, Queued, OfStream, Taken, Fresh, SlotOf,
     Current, UnitsOf
<1> QED BY <1>1, <1>2 DEF CoordinatorInv

(* start with an input that opens. *)
LEMMA OpenStep ==
  ASSUME CoordinatorInv, NEW offset \in 0..SlotUnits - 1, state.phase = "Stopped",
         step = "idle", lastGen' = lastGen + 1, input' = OpenStream(lastGen + 1, offset),
         \/ /\ state' = [phase |-> "Receiving", gen |-> lastGen + 1]
            /\ timeline' = NewTimeline(lastGen + 1, offset) /\ backlog' = <<>>
         \/ /\ state' = [phase |-> "Starting", gen |-> lastGen + 1] /\ clockConfig' # "ok"
            /\ UNCHANGED <<timeline, backlog>>,
         lost' = {}, UNCHANGED <<proc, step, window, store>>
  PROVE  CoordinatorInv'
<1> USE CoordinatorAssumption
<1>a. lastGen \in Nat /\ proc \in Nat /\ window \in Window /\ lastGen + 1 \in Nat \ {0}
  BY DEF CoordinatorInv, Types
<1>b. timeline = NoTimeline /\ backlog = <<>>
  BY DEF CoordinatorInv, Owned
<1>c. NoWindow \in Window /\ NoWindow.units = {} /\ <<>> \in Seq(Batch) /\ Len(<<>>) = 0
  BY DEF NoWindow, Window
<1>1. /\ input' \in Stream /\ input' # NoInput /\ input'.gen = lastGen' /\ input'.ready = <<>>
  <2>1. input'.gen = lastGen + 1 /\ input'.ready = <<>>
    BY DEF OpenStream
  <2>2. input' \in Stream
    BY <1>a, <1>c DEF OpenStream, Stream
  <2> QED BY <1>a, <2>1, <2>2 DEF NoInput
<1>2. backlog' = <<>> /\ state'.gen = lastGen' /\ state'.phase \in {"Receiving", "Starting"}
  BY <1>b
<1>3. /\ state'.phase = "Receiving" <=> timeline' # NoTimeline
      /\ timeline' # NoTimeline =>
           /\ timeline' \in Timeline /\ timeline'.gen = lastGen' /\ timeline'.active = NoWindow
  <2>1. CASE state'.phase = "Receiving"
    <3>1. timeline'.gen = lastGen + 1 /\ timeline'.active = NoWindow
      BY <2>1 DEF NewTimeline
    <3>2. timeline' \in Timeline
      BY <1>a, <1>c, <2>1 DEF NewTimeline, Timeline
    <3> QED BY <1>a, <2>1, <3>1, <3>2 DEF NoTimeline
  <2>2. CASE state'.phase # "Receiving"
    BY <1>b, <2>2
  <2> QED BY <2>1, <2>2
<1>4. Types'
  <2>1. state' \in [phase : Phase, gen : Nat]
    BY <1>a DEF Phase
  <2> QED BY <1>a, <1>c, <1>1, <1>2, <1>3, <2>1 DEF CoordinatorInv, Types
<1>5. Owned'
  BY <1>1, <1>2, <1>3 DEF CoordinatorInv, Owned
<1>6. Pipeline'
  BY <1>c, <1>1, <1>2, <1>3 DEF Pipeline, Queued, Taken
<1>7. WindowReady'
  BY DEF WindowReady
<1>8. Stored'
  <2> SUFFICES ASSUME NEW w \in store PROVE Stored!(w)'
    BY DEF Stored
  <2>1. /\ w.proc \in Nat /\ w.gen \in Nat /\ w.slot \in 0..MaxUnits /\ w.offset \in Nat
        /\ w.proc <= proc /\ (w.proc = proc => w.gen <= lastGen)
        /\ w.units = UnitsOf(w.offset, w.slot) /\ Cardinality(w.units) = SlotUnits
    BY DEF CoordinatorInv, Stored
  <2>2. w.proc = proc => w.gen < lastGen' /\ w.gen <= lastGen'
    BY <1>a, <2>1
  <2>3. ~Current(w)'
    BY <1>a, <2>1, <2>2 DEF Current
  <2> QED BY <2>1, <2>2, <2>3 DEF UnitsOf
<1> QED BY <1>4, <1>5, <1>6, <1>7, <1>8 DEF CoordinatorInv

LEMMA StartStep ==
  ASSUME CoordinatorInv, NEW clock \in Verdict, NEW opened \in Verdict,
         NEW offset \in 0..SlotUnits - 1, Start(clock, opened, offset)
  PROVE  CoordinatorInv'
<1>a. /\ state.phase = "Stopped" /\ step = "idle" /\ lastGen' = lastGen + 1 /\ lost' = {}
      /\ UNCHANGED <<proc, step, window, store>>
  BY DEF Start
<1>b. /\ input = NoInput /\ timeline = NoTimeline /\ backlog = <<>> /\ lastGen + 1 \in Nat
  BY <1>a DEF CoordinatorInv, Types, Owned
<1>1. CASE clock = "fails" \/ opened = "fails"
  <2>1. state' = [phase |-> "Inhibited", gen |-> lastGen + 1] /\ UNCHANGED <<input, timeline, backlog>>
    BY <1>1 DEF Start
  <2> QED BY <1>a, <1>b, <2>1, ClosingStep
<1>2. CASE ~(clock = "fails" \/ opened = "fails")
  <2>1. /\ input' = OpenStream(lastGen + 1, offset)
        /\ \/ /\ state' = [phase |-> "Receiving", gen |-> lastGen + 1]
              /\ timeline' = NewTimeline(lastGen + 1, offset) /\ backlog' = <<>>
           \/ /\ state' = [phase |-> "Starting", gen |-> lastGen + 1] /\ clockConfig' # "ok"
              /\ UNCHANGED <<timeline, backlog>>
    BY <1>b, <1>2 DEF Start
  <2> QED BY <1>a, <2>1, OpenStep
<1> QED BY <1>1, <1>2

LEMMA StopStep ==
  ASSUME CoordinatorInv, Stop \/ ObserveClock \/ Restart
  PROVE  CoordinatorInv'
<1>a. lastGen \in Nat
  BY DEF CoordinatorInv, Types
<1>1. CASE Stop
  BY <1>a, <1>1, ClosingStep DEF Stop
<1>2. CASE ObserveClock
  BY <1>2, InhibitStep DEF ObserveClock
<1>3. CASE Restart
  BY <1>3, ClosingStep DEF Restart
<1> QED BY <1>1, <1>2, <1>3

(* poll as far as the clock snapshot. *)
LEMMA PollChecksStep ==
  ASSUME CoordinatorInv, PollFault \/ \E v \in Verdict : PollHealth(v) \/ PollClock(v)
  PROVE  CoordinatorInv'
<1>1. CASE Inhibit
  BY <1>1, InhibitStep
<1>2. CASE ~Inhibit
  <2>1. /\ step' \in {"health", "clock", "fill"} /\ (step # "idle" \/ state.phase = "Receiving")
        /\ UNCHANGED <<proc, state, lastGen, input, timeline, backlog, window, store, lost>>
    BY <1>2 DEF PollFault, PollHealth, PollClock
  <2>2. state.phase = "Receiving"
    BY <2>1 DEF CoordinatorInv, Owned
  <2> QED BY <2>1, <2>2, LookStep
<1> QED BY <1>1, <1>2

(* poll: next_batch moves a batch, in order, or finds the queue empty. *)
LEMMA PollFillStep ==
  ASSUME CoordinatorInv, NEW v \in Verdict, PollFill(v)
  PROVE  CoordinatorInv'
<1> USE CoordinatorAssumption
<1>0. CASE Inhibit
  BY <1>0, InhibitStep
<1>1. CASE ~Inhibit
  <2>a. step = "fill" /\ UNCHANGED <<proc, state, lastGen, timeline, window, store, lost>>
    BY <1>1 DEF PollFill
  <2>b. /\ state.phase = "Receiving" /\ input # NoInput /\ input \in Stream
        /\ input.ready \in Seq(Batch) /\ backlog \in Seq(Batch) /\ input.gen = lastGen
        /\ input.gen # 0 /\ Len(input.ready) \in Nat /\ Len(backlog) \in Nat
    BY <2>a DEF CoordinatorInv, Types, Owned, Stream
  <2>c. Queued(input.ready) /\ Queued(backlog)
    BY <2>b DEF CoordinatorInv, Pipeline
  <2>1. /\ backlog' \in Seq(Batch) /\ Len(backlog') <= WorkerBatches
        /\ \A i \in 1..Len(backlog') :
             \/ i \in 1..Len(backlog) /\ backlog'[i] = backlog[i]
             \/ backlog'[i] = input.ready[1] /\ 1 \in 1..Len(input.ready)
        /\ step' \in {"fill", "process"}
        /\ \E q \in Seq(Batch) :
             /\ input' = [input EXCEPT !.ready = q]
             /\ \A i \in 1..Len(q) : \E j \in 1..Len(input.ready) : q[i] = input.ready[j]
    <3>1. CASE Len(backlog) < WorkerBatches /\ ~input.dead /\ input.ready # <<>>
      <4>1. /\ backlog' = Append(backlog, Head(input.ready)) /\ step' = step
            /\ input' = [input EXCEPT !.ready = Tail(input.ready)]
        BY <1>1, <3>1 DEF PollFill
      <4>2. /\ Head(input.ready) = input.ready[1] /\ input.ready[1] \in Batch
            /\ 1 \in 1..Len(input.ready) /\ Tail(input.ready) \in Seq(Batch)
            /\ Len(Tail(input.ready)) = Len(input.ready) - 1
            /\ \A i \in 1..Len(Tail(input.ready)) :
                 i + 1 \in 1..Len(input.ready) /\ Tail(input.ready)[i] = input.ready[i + 1]
        BY <2>b, <3>1
      <4>3. /\ backlog' \in Seq(Batch) /\ Len(backlog') = Len(backlog) + 1
            /\ backlog'[Len(backlog) + 1] = input.ready[1]
            /\ \A i \in 1..Len(backlog) : backlog'[i] = backlog[i]
        BY <2>b, <4>1, <4>2
      <4>4. Len(backlog') <= WorkerBatches
        BY <2>b, <3>1, <4>3
      <4>5. \A i \in 1..Len(backlog') : i \in 1..Len(backlog) \/ i = Len(backlog) + 1
        BY <2>b, <4>3
      <4>6. \A i \in 1..Len(backlog') :
             \/ i \in 1..Len(backlog) /\ backlog'[i] = backlog[i]
             \/ backlog'[i] = input.ready[1] /\ 1 \in 1..Len(input.ready)
        BY <4>2, <4>3, <4>5
      <4>7. \A i \in 1..Len(Tail(input.ready)) : \E j \in 1..Len(input.ready) :
              Tail(input.ready)[i] = input.ready[j]
        BY <4>2
      <4> QED BY <2>a, <4>1, <4>2, <4>3, <4>4, <4>6, <4>7
    <3>2. CASE ~(Len(backlog) < WorkerBatches /\ ~input.dead /\ input.ready # <<>>)
      <4>1. /\ backlog' = backlog /\ step' = "process"
            /\ input' = [input EXCEPT !.ready = <<>>] \/ input' = input
        BY <1>1, <3>2 DEF PollFill
      <4>2. Len(backlog) <= WorkerBatches
        BY DEF CoordinatorInv, Types
      <4>3. input = [input EXCEPT !.ready = input.ready]
        BY <2>b DEF Stream
      <4>4. <<>> \in Seq(Batch) /\ Len(<<>>) = 0
        OBVIOUS
      <4>5. \E q \in Seq(Batch) :
             /\ input' = [input EXCEPT !.ready = q]
             /\ \A i \in 1..Len(q) : \E j \in 1..Len(input.ready) : q[i] = input.ready[j]
        <5>1. CASE input' = input
          BY <2>b, <4>3, <5>1
        <5>2. CASE input' = [input EXCEPT !.ready = <<>>]
          <6>1. ~\E i \in 1..Len(<<>>) : TRUE
            BY <4>4
          <6>2. \A i \in 1..Len(<<>>) : \E j \in 1..Len(input.ready) : <<>>[i] = input.ready[j]
            BY <6>1
          <6> QED BY <4>4, <5>2, <6>2
        <5> QED BY <4>1, <5>1, <5>2
      <4> QED BY <2>b, <4>1, <4>2, <4>5
    <3> QED BY <3>1, <3>2
  <2>2. PICK q \in Seq(Batch) :
             /\ input' = [input EXCEPT !.ready = q]
             /\ \A i \in 1..Len(q) : \E j \in 1..Len(input.ready) : q[i] = input.ready[j]
    BY <2>1
  <2>3. /\ input' \in Stream /\ input'.gen = input.gen /\ input'.next = input.next
        /\ input'.ready = q
    BY <2>b, <2>2 DEF Stream
  <2>4. input' # NoInput
    BY <2>b, <2>3 DEF NoInput
  <2>5. \A u : Fresh(u) => Fresh(u)'
    BY <2>a, <2>3 DEF Fresh
  <2>6. \A b : OfStream(b) => OfStream(b)'
    BY <2>a, <2>5 DEF OfStream
  <2>7. Types'
    BY <2>a, <2>1, <2>3 DEF CoordinatorInv, Types
  <2>8. Owned'
    BY <2>a, <2>b, <2>3, <2>4 DEF CoordinatorInv, Owned
  <2>9. Queued(input.ready)' /\ Queued(backlog)'
    <3>1. \A b, i : i \in 1..Len(input'.ready) /\ b = input'.ready[i] => OfStream(b)
      BY <2>2, <2>3, <2>c DEF Queued
    <3>2. \A b, i : i \in 1..Len(backlog') /\ b = backlog'[i] => OfStream(b)
      BY <2>1, <2>c DEF Queued
    <3> QED BY <2>6, <3>1, <3>2 DEF Queued
  <2>10. Pipeline'
    <3>1. timeline # NoTimeline => Taken(timeline.active.units)'
      BY <2>a, <2>5 DEF CoordinatorInv, Pipeline, Taken
    <3> QED BY <2>a, <2>b, <2>3, <2>9, <3>1 DEF CoordinatorInv, Pipeline, SlotOf
  <2>11. WindowReady'
    BY <2>1 DEF WindowReady
  <2>12. Stored'
    BY <2>a, <2>b, <2>3 DEF CoordinatorInv, Stored, Current, UnitsOf
  <2> QED BY <2>7, <2>8, <2>10, <2>11, <2>12 DEF CoordinatorInv
<1> QED BY <1>0, <1>1

(* store.record_receive: the window becomes durable as it stands. *)
LEMMA RecordStep ==
  ASSUME CoordinatorInv, NEW v \in Verdict, RecordWindow(v)
  PROVE  CoordinatorInv'
<1>0. CASE Inhibit
  BY <1>0, InhibitStep
<1>1. CASE ~Inhibit
  <2> DEFINE r == [proc |-> proc, gen |-> timeline.gen, slot |-> window.slot,
                   units |-> window.units, offset |-> timeline.offset]
  <2>a. /\ step = "record" /\ step' = "idle" /\ window' = NoWindow
        /\ store' = store \union {r}
        /\ UNCHANGED <<proc, state, lastGen, input, timeline, backlog, lost>>
    BY <1>1 DEF RecordWindow
  <2>b. /\ state.phase = "Receiving" /\ timeline # NoTimeline /\ timeline \in Timeline
        /\ timeline.gen = lastGen /\ lastGen \in Nat /\ proc \in Nat
        /\ timeline.offset \in Nat
    BY <2>a, CoordinatorAssumption DEF CoordinatorInv, Types, Owned, Timeline
  <2>c. NoWindow \in Window
    BY DEF NoWindow, Window
  <2>1. Types' /\ Owned'
    BY <2>a, <2>b, <2>c DEF CoordinatorInv, Types, Owned
  <2>2. Pipeline' /\ WindowReady'
    BY <2>a DEF CoordinatorInv, Pipeline, WindowReady, Queued, OfStream, Taken, Fresh, SlotOf
  <2>3. Stored'
    <3> SUFFICES ASSUME NEW w \in store' PROVE Stored!(w)'
      BY DEF Stored
    <3>1. CASE w \in store
      BY <2>a, <3>1 DEF CoordinatorInv, Stored, Current, UnitsOf
    <3>2. CASE w = r
      <4>1. /\ w.proc = proc /\ w.gen = lastGen /\ w.slot = window.slot
            /\ w.units = window.units /\ w.offset = timeline.offset
        BY <2>b, <3>2
      <4>2. /\ window.slot \in 0..MaxUnits
            /\ window.units = UnitsOf(timeline.offset, window.slot)
            /\ Cardinality(window.units) = SlotUnits
            /\ \A u \in window.units : Fresh(u) /\ u < timeline.expected
        BY <2>a DEF CoordinatorInv, WindowReady, Taken
      <4>3. w.units \cap lost = {} /\ \A u \in w.units : u < input.next /\ u < timeline.expected
        BY <4>1, <4>2 DEF Fresh
      <4>4. w.proc <= proc /\ w.gen <= lastGen
        BY <2>b, <4>1
      <4>5. w.units = UnitsOf(w.offset, w.slot) /\ Cardinality(w.units) = SlotUnits
        BY <4>1, <4>2
      <4> QED BY <2>a, <2>b, <4>1, <4>2, <4>3, <4>4, <4>5 DEF Current, UnitsOf
    <3> QED BY <2>a, <3>1, <3>2
  <2> QED BY <2>1, <2>2, <2>3 DEF CoordinatorInv
<1> QED BY <1>0, <1>1

(* Ft8ReceiveTimeline::push accepts a batch: its unit joins the window of  *)
(* its slot, and a window that is full is the whole slot, later than every *)
(* durable one of the stream.                                              *)
LEMMA PushStep ==
  ASSUME CoordinatorInv, step = "process", backlog # <<>>, Continuous(Head(backlog)),
         timeline' = Pushed(Head(backlog)), backlog' = Tail(backlog),
         \/ /\ Completes(Head(backlog))
            /\ window' = Active(Head(backlog)) /\ step' = "record"
         \/ step' = "idle" /\ UNCHANGED window,
         UNCHANGED <<proc, state, lastGen, input, store, lost>>
  PROVE  CoordinatorInv'
<1> USE CoordinatorAssumption
<1> DEFINE batch == Head(backlog)
           unit == batch.unit
           slot == SlotOf(unit)
           active == Active(batch)
<1>a. /\ state.phase = "Receiving" /\ timeline # NoTimeline /\ timeline \in Timeline
      /\ input # NoInput /\ backlog \in Seq(Batch) /\ Len(backlog) \in Nat /\ Len(backlog) > 0
      /\ Len(backlog) <= WorkerBatches /\ timeline.gen = lastGen /\ lastGen \in Nat
  BY DEF CoordinatorInv, Types, Owned
<1>b. /\ timeline.offset \in Nat /\ timeline.offset <= SlotUnits - 1 /\ timeline.expected \in Int
      /\ timeline.active \in Window /\ timeline.active.units \subseteq Units /\ timeline.gen # 0
  BY <1>a DEF Timeline, Window
<1>c. batch = backlog[1] /\ 1 \in 1..Len(backlog) /\ batch \in Batch
  BY <1>a
<1>d. OfStream(batch)
  BY <1>a, <1>c DEF CoordinatorInv, Pipeline, Queued
<1>e. Fresh(unit) /\ unit \in Units /\ unit \in Nat /\ unit < MaxUnits
  BY <1>d DEF OfStream, Fresh, Units
<1>f. timeline.expected \in {-1, unit}
  BY DEF Continuous
<1>g. timeline.expected <= unit
  BY <1>e, <1>f
<1> HIDE DEF batch, unit
<1>1. slot = (unit + timeline.offset) \div SlotUnits /\ slot \in 0..MaxUnits
  <2>1. slot = (unit + timeline.offset) \div SlotUnits
    BY DEF SlotOf
  <2>2. unit + timeline.offset \in Nat /\ unit + timeline.offset < MaxUnits + SlotUnits
    BY <1>b, <1>e
  <2>3. slot \in Nat /\ slot <= MaxUnits
    BY <2>1, <2>2, DivBounds, DivSmall
  <2> QED BY <2>1, <2>3
<1> HIDE DEF slot
<1>2. /\ active \in Window /\ active.slot = slot
      /\ \A u \in active.units : u = unit \/ (u \in timeline.active.units /\ timeline.active.slot = slot)
  BY <1>b, <1>e, <1>1 DEF Active, Window, slot, unit
<1> HIDE DEF active
<1>3. \A u \in active.units : u \in Units /\ (u + timeline.offset) \div SlotUnits = slot
                              /\ Fresh(u) /\ u < unit + 1
  <2> SUFFICES ASSUME NEW u \in active.units
               PROVE  /\ u \in Units /\ (u + timeline.offset) \div SlotUnits = slot
                      /\ Fresh(u) /\ u < unit + 1
    OBVIOUS
  <2>1. CASE u = unit
    BY <1>1, <1>e, <2>1
  <2>2. CASE u \in timeline.active.units /\ timeline.active.slot = slot
    <3>1. Fresh(u) /\ u < timeline.expected /\ SlotOf(u) = slot
      BY <1>a, <2>2 DEF CoordinatorInv, Pipeline, Taken
    <3>2. u \in Units /\ u \in Nat
      BY <1>b, <2>2 DEF Units
    <3>3. u < unit + 1
      BY <1>b, <1>e, <1>g, <3>1, <3>2
    <3> QED BY <3>1, <3>2, <3>3 DEF SlotOf
  <2> QED BY <1>2, <2>1, <2>2
<1>4. /\ timeline' \in Timeline /\ timeline'.gen = lastGen /\ timeline'.offset = timeline.offset
      /\ timeline'.expected = unit + 1
      /\ timeline'.active = IF Completes(batch) THEN NoWindow ELSE active
  <2>1. timeline' = [timeline EXCEPT !.expected = unit + 1,
                                    !.active = IF Completes(batch) THEN NoWindow ELSE active]
    BY DEF Pushed, batch, unit, active
  <2>2. (IF Completes(batch) THEN NoWindow ELSE active) \in Window /\ unit + 1 \in Int
    BY <1>2, <1>e DEF NoWindow, Window
  <2> QED BY <1>a, <2>1, <2>2 DEF Timeline
<1>5. timeline' # NoTimeline
  BY <1>a, <1>b, <1>4 DEF NoTimeline
<1>6. /\ backlog' \in Seq(Batch) /\ Len(backlog') = Len(backlog) - 1
      /\ \A i \in 1..Len(backlog') : i + 1 \in 1..Len(backlog) /\ backlog'[i] = backlog[i + 1]
  BY <1>a
<1>7. Types'
  <2>1. Len(backlog') <= WorkerBatches
    BY <1>a, <1>6
  <2>2. window' \in Window /\ step' \in {"idle", "record"}
    BY <1>2 DEF CoordinatorInv, Types, active, batch
  <2> QED BY <1>4, <1>6, <2>1, <2>2 DEF CoordinatorInv, Types
<1>8. Owned'
  BY <1>a, <1>4, <1>5 DEF CoordinatorInv, Owned
<1>9. \A u : Fresh(u) => Fresh(u)'
  BY DEF Fresh
<1>10. Pipeline'
  <2>1. Queued(input.ready)' /\ Queued(backlog)'
    <3>1. \A b : OfStream(b) => OfStream(b)'
      BY <1>9 DEF OfStream
    <3>2. Queued(input.ready) /\ Queued(backlog)
      BY <1>a DEF CoordinatorInv, Pipeline
    <3> QED BY <1>6, <3>1, <3>2 DEF Queued
  <2>2. \A u \in timeline'.active.units :
          Fresh(u) /\ u < timeline'.expected /\ (u + timeline.offset) \div SlotUnits = timeline'.active.slot
    <3>1. CASE Completes(batch)
      BY <1>4, <3>1 DEF NoWindow
    <3>2. CASE ~Completes(batch)
      BY <1>2, <1>3, <1>4, <3>2
    <3> QED BY <3>1, <3>2
  <2>3. Taken(timeline.active.units)'
    BY <1>9, <2>2 DEF Taken
  <2>4. \A u \in timeline'.active.units : (u + timeline'.offset) \div SlotUnits = timeline'.active.slot
    BY <1>4, <2>2
  <2> QED BY <2>1, <2>3, <2>4 DEF CoordinatorInv, Pipeline, SlotOf
<1>11. ASSUME NEW w \in store, Current(w)
       PROVE  /\ w.offset = timeline.offset /\ w.slot < slot
              /\ \A u \in w.units : u < unit
  <2>1. /\ w.offset = timeline.offset /\ w.slot \in 0..MaxUnits
        /\ w.units = UnitsOf(w.offset, w.slot) /\ Cardinality(w.units) = SlotUnits
        /\ \A u \in w.units : u < timeline.expected
    BY <1>a, <1>11 DEF CoordinatorInv, Stored
  <2>2. \A u \in w.units : u \in Nat /\ u < unit /\ (u + timeline.offset) \div SlotUnits = w.slot
    BY <1>b, <1>e, <1>g, <2>1 DEF UnitsOf, Units
  <2>3. PICK x \in w.units : TRUE
    <3>1. w.units # {}
      BY <2>1, FS_EmptySet
    <3> QED BY <3>1
  <2>4. w.slot <= slot
    <3>0. x \in Nat /\ x < unit /\ unit \in Nat /\ timeline.offset \in Nat
      BY <1>b, <1>e, <2>2
    <3>1. x + timeline.offset \in Nat /\ unit + timeline.offset \in Nat
          /\ x + timeline.offset <= unit + timeline.offset
      BY <3>0
    <3>2. (x + timeline.offset) \div SlotUnits <= (unit + timeline.offset) \div SlotUnits
      BY <3>1, DivMonotone
    <3> QED BY <1>1, <2>2, <3>2
  <2>5. w.slot # slot
    <3>1. unit \notin w.units
      BY <1>e, <2>2
    <3> QED BY <1>1, <1>e, <2>1, <3>1 DEF UnitsOf
  <2>6. w.slot < slot
    BY <1>1, <2>1, <2>4, <2>5
  <2> QED BY <2>1, <2>2, <2>6
<1>12. WindowReady'
  <2> SUFFICES ASSUME step' = "record" PROVE WindowReady!2'
    BY DEF WindowReady
  <2>1. window' = active /\ Cardinality(active.units) = SlotUnits
    BY DEF Completes, active, batch
  <2>2. active.units = UnitsOf(timeline.offset, slot)
    <3>1. active.units \subseteq UnitsOf(timeline.offset, slot)
      BY <1>3 DEF UnitsOf
    <3> QED BY <1>1, <1>b, <2>1, <3>1, FullIsWhole
  <2>3. Taken(window.units)'
    BY <1>3, <1>4, <1>9, <2>1 DEF Taken
  <2>4. \A w \in store : Current(w) => w.slot < window'.slot
    BY <1>2, <1>11, <2>1
  <2> QED BY <1>1, <1>2, <1>4, <2>1, <2>2, <2>3, <2>4 DEF Current, UnitsOf
<1>13. Stored'
  <2> SUFFICES ASSUME NEW w \in store PROVE Stored!(w)'
    BY DEF Stored
  <2>1. Stored!(w)
    BY DEF CoordinatorInv, Stored
  <2>2. ASSUME Current(w) PROVE w.offset = timeline'.offset /\ \A u \in w.units : u < timeline'.expected
    <3>1. \A u \in w.units : u \in Nat
      BY <2>1 DEF UnitsOf, Units
    <3> QED BY <1>4, <1>e, <1>11, <2>2, <3>1
  <2> QED BY <2>1, <2>2 DEF Current, UnitsOf
<1> QED BY <1>7, <1>8, <1>10, <1>12, <1>13 DEF CoordinatorInv

LEMMA PollProcessStep ==
  ASSUME CoordinatorInv, NEW mapping \in Verdict, NEW gate \in Verdict, NEW treatment \in Treatment,
         PollProcess(mapping, gate, treatment)
  PROVE  CoordinatorInv'
<1>1. CASE Inhibit
  BY <1>1, InhibitStep
<1>2. CASE ~Inhibit /\ backlog = <<>>
  <2>1. state.phase = "Receiving"
    BY DEF PollProcess, CoordinatorInv, Owned
  <2> QED BY <1>2, <2>1, LookStep DEF PollProcess
<1>3. CASE ~Inhibit /\ backlog # <<>>
  BY <1>3, PushStep DEF PollProcess
<1> QED BY <1>1, <1>2, <1>3

LEMMA CoordinatorStep == CoordinatorInv /\ [CoordinatorNext]_coordinatorVars => CoordinatorInv'
<1> SUFFICES ASSUME CoordinatorInv, [CoordinatorNext]_coordinatorVars PROVE CoordinatorInv'
  OBVIOUS
<1>1. CASE UNCHANGED coordinatorVars
  BY <1>1 DEF coordinatorVars, CoordinatorInv, Types, Owned, Pipeline, WindowReady, Stored, Queued,
     OfStream, Taken, Fresh, SlotOf, Current, UnitsOf
<1>2. CASE Poll
  BY <1>2, PollChecksStep, PollFillStep, RecordStep, PollProcessStep DEF Poll
<1> QED BY <1>1, <1>2, CallbackStep, StartStep, StopStep DEF CoordinatorNext

(***************************************************************************)
(* The coordinator's invariant: what the phases own, which units are on    *)
(* their way through poll, and what the store holds.                       *)
(***************************************************************************)
THEOREM CoordinatorInvariant == CoordinatorSpec => []CoordinatorInv
BY CoordinatorStarts, CoordinatorStep, PTL DEF CoordinatorSpec

(***************************************************************************)
(* A window the store holds is the whole of its slot and has no unit that  *)
(* the callbacks dropped, for every slot length and stream, because a unit *)
(* is either queued or lost and a slot has no room for a stranger.         *)
(***************************************************************************)
THEOREM DurableAreWhole == CoordinatorSpec => []DurableWindowsAreWhole
<1>1. CoordinatorInv => DurableWindowsAreWhole
  BY DEF CoordinatorInv, Stored, DurableWindowsAreWhole, Current, UnitsOf, Units
<1> QED BY <1>1, CoordinatorInvariant, PTL

(***************************************************************************)
(* Whatever the clock configuration, nothing of start, poll, inhibit, stop *)
(* or a restart leaves an input stream, a timeline or a batch behind for a *)
(* later generation; a stream is open outside a running receive only where *)
(* a start failed in clock setup.                                          *)
(***************************************************************************)
THEOREM InputIsOwned == CoordinatorSpec => []InputOwnership
<1>1. CoordinatorInv => InputOwnership
  <2> SUFFICES ASSUME CoordinatorInv PROVE InputOwnership
    OBVIOUS
  <2>1. /\ input # NoInput <=> state.phase \in {"Receiving", "Starting"}
        /\ state.phase = "Starting" => clockConfig # "ok"
    BY DEF CoordinatorInv, Owned
  <2>2. backlog # <<>> \/ timeline # NoTimeline => state.phase = "Receiving"
    BY DEF CoordinatorInv, Owned
  <2>3. /\ input # NoInput => input.gen = lastGen /\ state.gen = lastGen
        /\ timeline # NoTimeline => timeline.gen = lastGen
        /\ Len(backlog) <= WorkerBatches
    BY DEF CoordinatorInv, Owned, Types
  <2>4. ASSUME NEW i \in DOMAIN backlog PROVE backlog[i].gen = lastGen
    <3>1. backlog \in Seq(Batch)
      BY DEF CoordinatorInv, Types
    <3>2. i \in 1..Len(backlog) /\ backlog # <<>>
      BY <3>1
    <3>3. OfStream(backlog[i])
      BY <2>1, <2>2, <3>2 DEF CoordinatorInv, Pipeline, Queued
    <3> QED BY <3>3 DEF OfStream
  <2> QED BY <2>1, <2>2, <2>3, <2>4 DEF InputOwnership
<1> QED BY <1>1, CoordinatorInvariant, PTL

-----------------------------------------------------------------------------
(* The coordinator is a receive lifecycle.                                 *)

(* What the lifecycle sees of the store. *)
Published == {[proc |-> w.proc, gen |-> w.gen, slot |-> w.slot] : w \in store}

(* inhibit leaves Receiving, and publishes nothing. *)
LEMMA InhibitRefines ==
  ASSUME CoordinatorInv, state.phase = "Receiving", Inhibit
  PROVE  Lifecycle!Inhibit
<1>1. state'.phase = "Inhibited" /\ UNCHANGED <<proc, lastGen, store>>
  BY DEF CoordinatorInv, Types, Inhibit
<1> QED BY <1>1 DEF Lifecycle!Inhibit

(* A step that the lifecycle does not see. *)
LEMMA Unseen ==
  ASSUME UNCHANGED <<proc, state, lastGen, store>>
  PROVE  UNCHANGED Lifecycle!vars
BY DEF Lifecycle!vars

(* record_receive publishes the next slot of the stream. *)
LEMMA RecordRefines ==
  ASSUME CoordinatorInv, NEW v \in Verdict, RecordWindow(v), ~Inhibit
  PROVE  Lifecycle!Publish
<1>a. /\ step = "record" /\ UNCHANGED <<proc, state, lastGen>>
      /\ store' = store \union {[proc |-> proc, gen |-> timeline.gen, slot |-> window.slot,
                                units |-> window.units, offset |-> timeline.offset]}
  BY DEF RecordWindow
<1>b. state.phase = "Receiving" /\ timeline.gen = lastGen
  BY <1>a DEF CoordinatorInv, Owned
<1>c. window.slot \in 0..MaxUnits /\ \A w \in store : Current(w) => w.slot < window.slot
  BY <1>a DEF CoordinatorInv, WindowReady
<1>1. Published' = Published \union {[proc |-> proc, gen |-> lastGen, slot |-> window.slot]}
  <2> DEFINE Seen(w) == [proc |-> w.proc, gen |-> w.gen, slot |-> w.slot]
             r == [proc |-> proc, gen |-> timeline.gen, slot |-> window.slot,
                   units |-> window.units, offset |-> timeline.offset]
  <2>1. Seen(r) = [proc |-> proc, gen |-> lastGen, slot |-> window.slot]
    BY <1>b
  <2>2. Published = {Seen(w) : w \in store} /\ Published' = {Seen(w) : w \in store'}
    BY DEF Published
  <2>3. store' = store \union {r}
    BY <1>a
  <2> HIDE DEF Seen, r
  <2> QED BY <2>1, <2>2, <2>3
<1>2. \A old \in Published : old.proc = proc /\ old.gen = lastGen => old.slot < window.slot
  BY <1>c DEF Published, Current
<1> QED BY <1>a, <1>b, <1>c, <1>1, <1>2 DEF Lifecycle!Publish, Published

LEMMA RefinementStep ==
  ASSUME CoordinatorInv, [CoordinatorNext]_coordinatorVars
  PROVE  [Lifecycle!Next]_(Lifecycle!vars)
<1>1. CASE UNCHANGED coordinatorVars \/ Callbacks
  BY <1>1, Unseen DEF coordinatorVars, Callbacks, CaptureUnit, DropUnit, Diagnose, LoseDevice, daemon
<1>2. ASSUME NEW clock \in Verdict, NEW opened \in Verdict, NEW offset \in 0..SlotUnits - 1,
             Start(clock, opened, offset)
      PROVE  Lifecycle!Start
  <2>1. /\ state.phase = "Stopped" /\ lastGen' = lastGen + 1 /\ UNCHANGED <<proc, store>>
        /\ state'.phase \in {"Receiving", "Inhibited", "Starting"}
    BY <1>2 DEF Start
  <2> QED BY <2>1 DEF Lifecycle!Start
<1>3. CASE Stop
  BY <1>3 DEF Stop, Lifecycle!Stop, Lifecycle!Next
<1>4. CASE ObserveClock
  BY <1>4, InhibitRefines DEF ObserveClock, Lifecycle!Next
<1>5. CASE Restart
  BY <1>5 DEF Restart, Lifecycle!Restart, Lifecycle!Next
<1>6. CASE Poll
  <2>1. state.phase = "Receiving"
    BY <1>6 DEF Poll, PollFault, PollHealth, PollClock, PollFill, RecordWindow, PollProcess,
       CoordinatorInv, Owned
  <2>2. CASE Inhibit
    BY <2>1, <2>2, InhibitRefines DEF Lifecycle!Next
  <2>3. CASE ~Inhibit /\ \E v \in Verdict : RecordWindow(v)
    BY <2>3, RecordRefines DEF Lifecycle!Next
  <2>4. CASE ~Inhibit /\ ~\E v \in Verdict : RecordWindow(v)
    <3>1. UNCHANGED <<proc, state, lastGen, store>>
      BY <1>6, <2>4 DEF Poll, PollFault, PollHealth, PollClock, PollFill, PollProcess
    <3> QED BY <3>1, Unseen
  <2> QED BY <2>2, <2>3, <2>4
<1> QED BY <1>1, <1>2, <1>3, <1>4, <1>5, <1>6 DEF CoordinatorNext, Lifecycle!Next

(***************************************************************************)
(* LiveReceiveCoordinator implements the receive lifecycle, whatever the   *)
(* clock configuration: windows appear only while receiving and in slot    *)
(* order within a stream, every start attempt has a fresh generation,      *)
(* Inhibited is left by stop or a restart only, and a start that clock     *)
(* setup failed by a restart only.                                         *)
(***************************************************************************)
THEOREM CoordinatorRefinesLifecycle == CoordinatorSpec => ImplementsLifecycle
<1>1. CoordinatorInit => Lifecycle!Init
  BY DEF CoordinatorInit, Lifecycle!Init
<1>2. CoordinatorInv /\ [CoordinatorNext]_coordinatorVars => [Lifecycle!Next]_(Lifecycle!vars)
  BY RefinementStep
<1> QED BY <1>1, <1>2, CoordinatorInvariant, PTL DEF CoordinatorSpec, ImplementsLifecycle, Lifecycle!Spec
=============================================================================
