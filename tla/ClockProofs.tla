---------------------------- MODULE ClockProofs ----------------------------
(***************************************************************************)
(* Proofs about the components that live by paired UTC and monotonic       *)
(* clock samples.  First the receive clock monitor: the properties of      *)
(* ReceiveClock for every configuration that ReceiveClockConfig::new       *)
(* accepts, every set of UTC offsets and every length of the run.  Then    *)
(* the rig port and the slot planner of RigSession, for every set of       *)
(* profiles, evidence and adapter results, every width of the two clocks   *)
(* and every way the virtual clock moves.                                  *)
(***************************************************************************)
EXTENDS ReceiveClock, RigSession, TLAPS

(* No paired sample is the absent one. *)
LEMMA SampleIsPresent == \A s \in Sample : s # NoSample
BY DEF Sample, NoSample

(* A tick of the monotonic clock gives a well-formed sample. *)
LEMMA SampleAtType ==
  ASSUME TypeOK, NEW t \in 0..now
  PROVE  SampleAt(t) \in Sample
<1>1. t \in Nat /\ t \in Time
  BY EnvironmentAssumption DEF TypeOK, Time
<1>2. offset[t] \in Nat
  BY <1>1, EnvironmentAssumption DEF TypeOK
<1> QED BY <1>1, <1>2 DEF SampleAt, Sample

(* compare reports no fault exactly for samples that agree. *)
LEMMA CompareAgrees ==
  ASSUME NEW a \in Sample, NEW b \in Sample
  PROVE  Compare(a, b) = "None" <=> Agree(a, b)
BY ConfigAssumption DEF Compare, Agree, Abs, Sample, ConfigValid

(* compare reports a fault kind or none. *)
LEMMA CompareType ==
  ASSUME NEW a \in Sample, NEW b \in Sample
  PROVE  /\ Compare(a, b) \in FaultKind \union {"None"}
         /\ Compare(a, b) # "ProcessGenerationChanged"
BY DEF Compare, FaultKind

(* latch keeps the monitor well formed and the accepted mapping in place. *)
LEMMA LatchType ==
  ASSUME NEW m \in Monitor, NEW f \in FaultKind,
         NEW c \in Sample \union {NoSample}
  PROVE  /\ Latch(m, f, c) \in Monitor
         /\ ~Healthy(Latch(m, f, c))
         /\ Latch(m, f, c).gen = m.gen
         /\ Latch(m, f, c).lastAccepted = m.lastAccepted
         /\ Latch(m, f, c).recoveryLast = c
         /\ Latch(m, f, c).progress = IF c = NoSample THEN 0 ELSE 1
<1>1. 0..RecoverySamples - 1 \subseteq Nat /\ {0, 1} \subseteq 0..RecoverySamples - 1
  BY ConfigAssumption DEF ConfigValid
<1>2. f # "None"
  BY DEF FaultKind
<1> QED BY <1>1, <1>2 DEF Latch, Monitor, Healthy

(* snapshot either leaves the monitor alone or latches a healthy one. *)
LEMMA SnapshotCases ==
  ASSUME NEW m \in Monitor, NEW at \in Nat
  PROVE  \/ Snapshot(m, at) = m
         \/ Healthy(m) /\ Snapshot(m, at) = Latch(m, "StaleMapping", NoSample)
BY DEF Snapshot

(* A monitor whose mapping is at most MaxSamplingDelay old is not stale. *)
LEMMA TimelyIsFresh ==
  ASSUME NEW m \in Monitor, NEW at \in Nat,
         at - m.lastAccepted.mono <= MaxSamplingDelay
  PROVE  Snapshot(m, at) = m
<1>1. m.lastAccepted.mono \in Nat
  BY DEF Monitor, Sample
<1>2. MappingAge(m, at) <= Freshness
  BY <1>1, ConfigAssumption DEF MappingAge, ConfigValid
<1>3. MappingAge(m, at) \in Nat /\ Freshness \in Nat
  BY <1>1, ConfigAssumption DEF MappingAge, ConfigValid
<1> QED BY <1>2, <1>3 DEF Snapshot

(* A result of observe: well formed, and its label agrees with the state. *)
ObserveSound(m, gen, s, r) ==
  /\ r.mon \in Monitor
  /\ r.mon.gen = m.gen
  /\ r.transition \in Transition
  /\ \/ r.mon.lastAccepted = m.lastAccepted
     \/ r.mon.lastAccepted = s /\ gen = m.gen
  /\ r.transition \in {"Healthy", "Recovered"} <=> Healthy(r.mon)

(* What observe does to a well-formed monitor with a sample of gen. *)
LEMMA ObserveType ==
  ASSUME NEW m \in Monitor, NEW gen \in Nat, NEW s \in Sample, NEW at \in Nat
  PROVE  ObserveSound(m, gen, s, Observe(m, gen, s, at))
<1> DEFINE r == Observe(m, gen, s, at)
<1> DEFINE Goal == ObserveSound(m, gen, s, r)
<1> USE DEF ObserveSound
<1>1. ASSUME NEW f \in FaultKind, NEW c \in Sample \union {NoSample},
             r = Latched(m, f, c)
      PROVE  Goal
  BY <1>1, LatchType DEF Latched, Result, Transition
<1>2. CASE gen # m.gen
  <2>1. r = Latched(m, "ProcessGenerationChanged", NoSample)
    BY <1>2 DEF Observe
  <2> QED BY <2>1, <1>1 DEF FaultKind
<1>3. CASE gen = m.gen /\ at < s.mono
  <2>1. r = Latched(m, "TimelineRegressed", NoSample)
    BY <1>3 DEF Observe
  <2> QED BY <2>1, <1>1 DEF FaultKind
<1>4. CASE gen = m.gen /\ ~(at < s.mono) /\ at - s.mono > MaxSamplingDelay
  <2>1. r = Latched(m, "SamplingDelayed", NoSample)
    BY <1>4 DEF Observe
  <2> QED BY <2>1, <1>1 DEF FaultKind
<1>5. CASE gen = m.gen /\ ~(at < s.mono) /\ ~(at - s.mono > MaxSamplingDelay)
  <2>0. at - s.mono <= MaxSamplingDelay
    BY <1>5, ConfigAssumption DEF Sample, ConfigValid
  <2>1. CASE Healthy(m)
    <3>1. r = ObserveHealthy(m, s, at)
      BY <1>5, <2>1 DEF Observe
    <3>2. CASE Compare(m.lastAccepted, s) # "None"
      <4>1. r = Latched(m, Compare(m.lastAccepted, s), NoSample)
        BY <3>1, <3>2 DEF ObserveHealthy
      <4>2. Compare(m.lastAccepted, s) \in FaultKind
        BY <3>2, CompareType DEF Monitor
      <4> QED BY <4>1, <4>2, <1>1
    <3>3. CASE Compare(m.lastAccepted, s) = "None"
      <4> DEFINE m2 == [m EXCEPT !.lastAccepted = s]
      <4>1. m2 \in Monitor /\ m2.lastAccepted = s /\ m2.gen = m.gen /\ m2.fault = m.fault
        BY DEF Monitor
      <4>2. Snapshot(m2, at) = m2
        BY <4>1, <2>0, TimelyIsFresh
      <4>3. r = Result(m2, "Healthy")
        BY <3>1, <3>3, <4>2 DEF ObserveHealthy
      <4>4. r.mon = m2 /\ r.transition = "Healthy"
        BY <4>3 DEF Result
      <4> HIDE DEF m2
      <4> QED BY <4>1, <4>4, <2>1, <1>5 DEF Transition, Healthy
    <3> QED BY <3>2, <3>3
  <2>2. CASE ~Healthy(m)
    <3> DEFINE f == IF m.recoveryLast = NoSample
                    THEN "None" ELSE Compare(m.recoveryLast, s)
    <3>1. r = ObserveUnhealthy(m, s, at)
      BY <1>5, <2>2 DEF Observe
    <3>2. f \in FaultKind \union {"None"}
      BY CompareType DEF Monitor
    <3>3. CASE m.fault = "ProcessGenerationChanged"
      <4>1. r = Result(m, "Unhealthy")
        BY <3>1, <3>3 DEF ObserveUnhealthy
      <4> QED BY <4>1, <2>2 DEF Result, Transition
    <3>4. CASE m.fault # "ProcessGenerationChanged" /\ f # "None"
      <4>1. r = Latched(m, f, s)
        BY <3>1, <3>4 DEF ObserveUnhealthy
      <4> QED BY <4>1, <3>2, <3>4, <1>1
    <3>5. CASE /\ m.fault # "ProcessGenerationChanged" /\ f = "None"
               /\ m.progress + 1 >= RecoverySamples
      <4> DEFINE m2 == [m EXCEPT !.fault = "None", !.progress = 0,
                                 !.lastAccepted = s, !.recoveryLast = NoSample]
      <4>1. 0 \in 0..RecoverySamples - 1
        BY ConfigAssumption DEF ConfigValid
      <4>2. m2 \in Monitor /\ m2.lastAccepted = s /\ m2.gen = m.gen /\ Healthy(m2)
        BY <4>1 DEF Monitor, Healthy
      <4>3. Snapshot(m2, at) = m2
        BY <4>2, <2>0, TimelyIsFresh
      <4>4. r = Result(m2, "Recovered")
        BY <3>1, <3>5, <4>3 DEF ObserveUnhealthy
      <4>5. r.mon = m2 /\ r.transition = "Recovered"
        BY <4>4 DEF Result
      <4> HIDE DEF m2
      <4> QED BY <4>2, <4>5, <1>5 DEF Transition
    <3>6. CASE /\ m.fault # "ProcessGenerationChanged" /\ f = "None"
               /\ ~(m.progress + 1 >= RecoverySamples)
      <4> DEFINE m2 == [m EXCEPT !.progress = m.progress + 1, !.recoveryLast = s]
      <4>1. m.progress + 1 \in 0..RecoverySamples - 1
        BY <3>6, ConfigAssumption DEF ConfigValid, Monitor
      <4>2. m2 \in Monitor /\ m2.lastAccepted = m.lastAccepted
            /\ m2.gen = m.gen /\ m2.fault = m.fault
        BY <4>1 DEF Monitor
      <4>3. r = Result(m2, "Recovering")
        BY <3>1, <3>6 DEF ObserveUnhealthy
      <4>4. r.mon = m2 /\ r.transition = "Recovering"
        BY <4>3 DEF Result
      <4> HIDE DEF m2
      <4> QED BY <4>2, <4>4, <2>2 DEF Transition, Healthy
    <3> QED BY <3>3, <3>4, <3>5, <3>6
  <2> QED BY <2>1, <2>2
<1> QED BY <1>2, <1>3, <1>4, <1>5
(* Recovery progress after observe, against the history's streak. *)
LEMMA DeliverKeepsProgress ==
  ASSUME IInv, NEW gen \in Generation, NEW s \in Sample, NEW at \in Nat,
         Deliver(gen, s, at)
  PROVE  /\ ProgressIsEarned'
         /\ ~Healthy(mon) /\ Healthy(mon)' => streak' = RecoverySamples
<1> USE DEF IInv
<1>0. /\ mon \in Monitor /\ mon.gen = OwnGeneration
      /\ streak \in 0..RecoverySamples /\ RecoverySamples \in 2..10
      /\ mon.progress \in 0..RecoverySamples - 1
  BY ConfigAssumption DEF TypeOK, AcceptedIsGenuine, ConfigValid, Monitor
<1> DEFINE r == Observe(mon, gen, s, at)
<1>1. mon' = r.mon /\ Record(gen, s, at)
  BY DEF Deliver
<1>2. s # NoSample
  BY SampleIsPresent
<1>s. streak' \in 0..RecoverySamples
  BY <1>0, <1>1 DEF Record
<1>3. ASSUME NEW f \in FaultKind, r = Latched(mon, f, NoSample)
      PROVE  ProgressIsEarned' /\ ~Healthy(mon)'
  <2>1. mon' = Latch(mon, f, NoSample)
    BY <1>1, <1>3 DEF Latched, Result
  <2>2. ~Healthy(mon)' /\ mon'.recoveryLast = NoSample /\ mon'.progress = 0
    BY <2>1, <1>0, LatchType DEF Healthy
  <2> QED BY <2>2, <1>s, <1>0 DEF ProgressIsEarned
<1>4. CASE ~Timely(gen, s, at)
  <2>1. \E f \in FaultKind : r = Latched(mon, f, NoSample)
    BY <1>0, <1>4, ConfigAssumption
    DEF Timely, Observe, FaultKind, Sample, ConfigValid, OwnGeneration, Generation
  <2> QED BY <2>1, <1>3 DEF Healthy
<1>5. CASE Timely(gen, s, at) /\ Healthy(mon)
  <2>1. r = ObserveHealthy(mon, s, at)
    BY <1>5, <1>0, ConfigAssumption DEF Timely, Observe, Sample, ConfigValid
  <2>2. CASE Compare(mon.lastAccepted, s) # "None"
    <3>1. r = Latched(mon, Compare(mon.lastAccepted, s), NoSample)
      BY <2>1, <2>2 DEF ObserveHealthy
    <3>2. Compare(mon.lastAccepted, s) \in FaultKind
      BY <2>2, <1>0, CompareType DEF Monitor
    <3> QED BY <3>1, <3>2, <1>3
  <2>3. CASE Compare(mon.lastAccepted, s) = "None"
    <3> DEFINE m2 == [mon EXCEPT !.lastAccepted = s]
    <3>1. m2 \in Monitor /\ m2.progress = mon.progress
          /\ m2.recoveryLast = mon.recoveryLast /\ m2.lastAccepted = s
      BY <1>0 DEF Monitor
    <3>2. Snapshot(m2, at) = m2
      <4>1. at - s.mono <= MaxSamplingDelay
        BY <1>5, ConfigAssumption DEF Timely, Sample, ConfigValid
      <4> QED BY <3>1, <4>1, TimelyIsFresh
    <3>3. mon' = m2
      BY <1>1, <2>1, <2>3, <3>2 DEF ObserveHealthy, Result
    <3>4. mon'.progress = 0 /\ mon'.recoveryLast = NoSample
      BY <3>1, <3>3, <1>5 DEF ProgressIsEarned, Healthy
    <3> QED BY <3>4, <1>s, <1>0, <1>5 DEF ProgressIsEarned
  <2> QED BY <2>2, <2>3
<1>6. CASE Timely(gen, s, at) /\ ~Healthy(mon)
  <2> DEFINE f == IF mon.recoveryLast = NoSample
                  THEN "None" ELSE Compare(mon.recoveryLast, s)
  <2>1. r = ObserveUnhealthy(mon, s, at)
    BY <1>6, <1>0, ConfigAssumption DEF Timely, Observe, Sample, ConfigValid
  <2>2. /\ seen' = s
        /\ streak' = IF streak = 0 \/ ~Agree(seen, s) THEN 1
                     ELSE IF streak = RecoverySamples THEN streak
                     ELSE streak + 1
    BY <1>1, <1>6 DEF Record
  <2>3. streak' \in 1..RecoverySamples
    BY <2>2, <1>0
  <2>4. f \in FaultKind \union {"None"}
    BY <1>0, CompareType DEF Monitor
  <2>p. f # "ProcessGenerationChanged"
    BY <1>0, CompareType DEF Monitor
  <2>5. f = "None" => \/ streak' = RecoverySamples
                      \/ mon.progress + 1 <= streak'
    <3>1. CASE mon.progress = 0
      BY <3>1, <2>3
    <3>2. CASE mon.progress > 0
      <4>1. mon.recoveryLast # NoSample /\ seen = mon.recoveryLast /\ streak > 0
            /\ mon.progress <= streak
        BY <3>2, <1>0 DEF ProgressIsEarned
      <4>2. mon.recoveryLast \in Sample
        BY <4>1, <1>0 DEF Monitor
      <4>3. f = "None" => Agree(seen, s)
        BY <4>1, <4>2, CompareAgrees
      <4> HIDE DEF f
      <4> QED BY <4>1, <4>3, <2>2, <1>0
    <3> QED BY <3>1, <3>2, <1>0
  <2>6. CASE mon.fault = "ProcessGenerationChanged"
    <3>1. mon' = mon
      BY <1>1, <2>1, <2>6 DEF ObserveUnhealthy, Result
    <3>2. mon.progress = 0 /\ mon.recoveryLast = NoSample /\ ~Healthy(mon)'
      BY <2>6, <3>1, <1>6 DEF ProgressIsEarned, Healthy
    <3> QED BY <3>1, <3>2, <1>s, <1>0 DEF ProgressIsEarned
  <2>7. CASE mon.fault # "ProcessGenerationChanged" /\ f # "None"
    <3>1. mon' = Latch(mon, f, s)
      BY <1>1, <2>1, <2>7 DEF ObserveUnhealthy, Latched, Result
    <3>2. ~Healthy(mon)' /\ mon'.recoveryLast = s /\ mon'.progress = 1
          /\ mon'.fault = f
      <4> HIDE DEF f
      <4>1. mon'.fault = f
          BY <3>1, <1>0 DEF Latch, Monitor
        <4> QED BY <3>1, <4>1, <2>4, <2>7, <1>0, <1>2, LatchType DEF Healthy
    <3> HIDE DEF f
    <3> QED BY <3>2, <2>2, <2>3, <2>p, <1>0, <1>2 DEF ProgressIsEarned, Healthy
  <2>8. CASE /\ mon.fault # "ProcessGenerationChanged" /\ f = "None"
             /\ mon.progress + 1 >= RecoverySamples
    <3> DEFINE m2 == [mon EXCEPT !.fault = "None", !.progress = 0,
                                 !.lastAccepted = s, !.recoveryLast = NoSample]
    <3>1. m2 \in Monitor /\ m2.progress = 0 /\ m2.recoveryLast = NoSample
          /\ m2.lastAccepted = s
      <4>1. 0 \in 0..RecoverySamples - 1
        BY <1>0
      <4> QED BY <4>1, <1>0 DEF Monitor
    <3>2. Snapshot(m2, at) = m2
      <4>1. at - s.mono <= MaxSamplingDelay
        BY <1>6, ConfigAssumption DEF Timely, Sample, ConfigValid
      <4> QED BY <3>1, <4>1, TimelyIsFresh
    <3>3. mon' = m2
      BY <1>1, <2>1, <2>8, <3>2 DEF ObserveUnhealthy, Result
    <3>4. streak' = RecoverySamples
      BY <2>5, <2>8, <2>3, <1>0
    <3>5. mon'.progress = 0 /\ mon'.recoveryLast = NoSample
      BY <3>1, <3>3
    <3> QED BY <3>4, <3>5, <1>s, <1>0 DEF ProgressIsEarned
  <2>9. CASE /\ mon.fault # "ProcessGenerationChanged" /\ f = "None"
             /\ ~(mon.progress + 1 >= RecoverySamples)
    <3> DEFINE m2 == [mon EXCEPT !.progress = mon.progress + 1, !.recoveryLast = s]
    <3>1. mon' = m2
      BY <1>1, <2>1, <2>9 DEF ObserveUnhealthy, Result
    <3>2. mon'.progress = mon.progress + 1 /\ mon'.recoveryLast = s /\ mon'.fault = mon.fault
      BY <3>1, <1>0 DEF Monitor
    <3>3. mon.progress + 1 <= streak'
      BY <2>5, <2>9, <2>3, <1>0
    <3> HIDE DEF f, m2
    <3> QED BY <3>2, <3>3, <2>2, <2>9, <1>2, <1>0, <1>6 DEF ProgressIsEarned, Healthy
  <2> QED BY <2>6, <2>7, <2>8, <2>9
<1> QED BY <1>4, <1>5, <1>6
(* A gate or snapshot at a tick: unchanged, or a healthy monitor latched. *)
LEMMA GateCases ==
  ASSUME NEW m \in Monitor, NEW w \in Window, NEW at \in Nat
  PROVE  \/ Gate(m, w, at) = m
         \/ Healthy(m) /\ \E f \in FaultKind : Gate(m, w, at) = Latch(m, f, NoSample)
<1> DEFINE seenBy == Snapshot(m, at)
<1> DEFINE f == AlignWindow(seenBy, w)
<1>1. f \in FaultKind \union {"None"}
  BY DEF AlignWindow, FaultKind
<1>2. CASE seenBy = m
  <2>1. CASE Healthy(m) /\ f # "None"
    BY <1>1, <1>2, <2>1 DEF Gate
  <2>2. CASE ~(Healthy(m) /\ f # "None")
    BY <1>2, <2>2 DEF Gate
  <2> QED BY <2>1, <2>2
<1>3. CASE Healthy(m) /\ seenBy = Latch(m, "StaleMapping", NoSample)
  <2>1. "StaleMapping" \in FaultKind
    BY DEF FaultKind
  <2>2. ~Healthy(seenBy)
    BY <1>3, <2>1, LatchType
  <2>3. Gate(m, w, at) = seenBy
    BY <2>2 DEF Gate
  <2> QED BY <1>3, <2>1, <2>3
<1> QED BY <1>2, <1>3, SnapshotCases

(* Latching a healthy monitor without a candidate keeps the invariant. *)
LEMMA LatchStep ==
  ASSUME IInv, UNCHANGED <<now, offset, history>>,
         Healthy(mon), NEW f \in FaultKind, mon' = Latch(mon, f, NoSample),
         outcome' \in {"Snapshot", "Rejected"}
  PROVE  IInv'
<1>1. /\ mon' \in Monitor /\ ~Healthy(mon)' /\ mon'.gen = mon.gen
      /\ mon'.lastAccepted = mon.lastAccepted
      /\ mon'.recoveryLast = NoSample /\ mon'.progress = 0
  BY LatchType DEF IInv, TypeOK, Healthy
<1>2. streak \in 0..RecoverySamples /\ RecoverySamples \in Nat
  BY ConfigAssumption DEF IInv, TypeOK, ConfigValid
<1>3. TypeOK'
  BY <1>1 DEF IInv, TypeOK, Outcome, history
<1>4. AcceptedIsGenuine'
  BY <1>1 DEF IInv, AcceptedIsGenuine, SampleAt
<1>5. ProgressIsEarned'
  BY <1>1, <1>2 DEF IInv, ProgressIsEarned, history
<1>6. OutcomeMatchesState'
  BY <1>1 DEF OutcomeMatchesState, Healthy
<1> QED BY <1>3, <1>4, <1>5, <1>6 DEF IInv

(* One observation keeps the invariant. *)
LEMMA DeliverStep ==
  ASSUME IInv, NEW gen \in Generation, NEW s \in Sample, NEW at \in Nat,
         gen = OwnGeneration => \E t \in 0..now : s = SampleAt(t),
         Deliver(gen, s, at)
  PROVE  IInv'
<1> DEFINE r == Observe(mon, gen, s, at)
<1>1. mon' = r.mon /\ outcome' = r.transition /\ UNCHANGED <<now, offset>>
      /\ Record(gen, s, at)
  BY DEF Deliver
<1>2. mon \in Monitor /\ gen \in Nat
  BY DEF IInv, TypeOK, Generation, OwnGeneration
<1>3. ObserveSound(mon, gen, s, r)
  BY <1>2, ObserveType
<1> HIDE DEF r
<1>4. streak' \in 0..RecoverySamples /\ seen' \in Sample \union {NoSample}
  <2>1. streak \in 0..RecoverySamples /\ RecoverySamples \in 2..10
    BY ConfigAssumption DEF IInv, TypeOK, ConfigValid
  <2> QED BY <2>1, <1>1 DEF Record
<1>5. TypeOK'
  BY <1>1, <1>3, <1>4 DEF IInv, TypeOK, ObserveSound, Outcome
<1>6. AcceptedIsGenuine'
  <2>1. mon.gen = OwnGeneration /\ \E t \in 0..now : mon.lastAccepted = SampleAt(t)
    BY DEF IInv, AcceptedIsGenuine
  <2>2. \E t \in 0..now : mon'.lastAccepted = SampleAt(t)
    BY <1>1, <1>3, <2>1 DEF ObserveSound
  <2> QED BY <1>1, <1>3, <2>1, <2>2 DEF ObserveSound, AcceptedIsGenuine, SampleAt
<1>7. ProgressIsEarned'
  BY DeliverKeepsProgress
<1>8. OutcomeMatchesState'
  BY <1>1, <1>3 DEF ObserveSound, OutcomeMatchesState, Transition, Healthy
<1> QED BY <1>5, <1>6, <1>7, <1>8 DEF IInv
(* Every step of the specification keeps the invariant. *)
LEMMA InvariantStep == IInv /\ [Next]_vars => IInv'
<1> SUFFICES ASSUME IInv, [Next]_vars
             PROVE  IInv'
  OBVIOUS
<1>0. now \in Time /\ now \in Nat /\ 0..now \subseteq Time /\ Time \subseteq Nat
  BY EnvironmentAssumption DEF IInv, TypeOK, Time
<1>1. CASE Tick
  <2>1. now' \in Time /\ 0..now \subseteq 0..now'
    BY <1>0, <1>1, EnvironmentAssumption DEF Tick, Time
  <2>2. TypeOK'
    BY <1>1, <2>1 DEF IInv, TypeOK, Tick, history
  <2>3. AcceptedIsGenuine'
    BY <1>1, <2>1 DEF IInv, AcceptedIsGenuine, Tick, SampleAt
  <2>4. ProgressIsEarned' /\ OutcomeMatchesState'
    BY <1>1 DEF IInv, ProgressIsEarned, OutcomeMatchesState, Healthy, Tick, history
  <2> QED BY <2>2, <2>3, <2>4 DEF IInv
<1>2. CASE \E t \in 0..now, at \in Readings : ObserveSample(t, at)
  <2>1. PICK t \in 0..now, at \in Readings : ObserveSample(t, at)
    BY <1>2
  <2>2. at \in Nat /\ OwnGeneration \in Generation
    BY <1>0 DEF Readings, Generation
  <2>3. SampleAt(t) \in Sample
    BY SampleAtType DEF IInv
  <2> QED BY <2>1, <2>2, <2>3, DeliverStep DEF ObserveSample
<1>3. CASE \E t \in 0..now, at \in Readings : ObserveForeign(t, at)
  <2>1. PICK t \in 0..now, at \in Readings : ObserveForeign(t, at)
    BY <1>3
  <2>2. at \in Nat /\ 2 \in Generation /\ 2 # OwnGeneration
    BY <1>0 DEF Readings, Generation, OwnGeneration
  <2>3. offset[now] \in Nat
    BY <1>0, EnvironmentAssumption DEF IInv, TypeOK
  <2>4. [utc |-> now + offset[now], mono |-> t] \in Sample
    BY <1>0, <2>3 DEF Sample
  <2> QED BY <2>1, <2>2, <2>4, DeliverStep DEF ObserveForeign
<1>4. CASE DriverPoll
  <2>1. now \in 0..now /\ OwnGeneration \in Generation
    BY <1>0 DEF Generation
  <2>2. SampleAt(now) \in Sample
    BY <2>1, SampleAtType DEF IInv
  <2> QED BY <1>0, <1>4, <2>1, <2>2, DeliverStep DEF DriverPoll
<1>5. CASE TakeSnapshot
  <2>1. "StaleMapping" \in FaultKind /\ mon \in Monitor
    BY DEF FaultKind, IInv, TypeOK
  <2>2. CASE Snapshot(mon, now) = mon
    BY <1>5, <2>2 DEF TakeSnapshot, IInv, TypeOK, AcceptedIsGenuine, SampleAt,
         ProgressIsEarned, OutcomeMatchesState, Outcome, Healthy, history
  <2>3. CASE Healthy(mon) /\ Snapshot(mon, now) = Latch(mon, "StaleMapping", NoSample)
    BY <1>5, <2>1, <2>3, LatchStep DEF TakeSnapshot
  <2> QED BY <1>0, <2>1, <2>2, <2>3, SnapshotCases
<1>6. CASE \E window \in Windows : GateWindow(window)
  <2>1. PICK window \in Windows : GateWindow(window)
    BY <1>6
  <2>2. window \in Window /\ mon \in Monitor
    BY <1>0, EnvironmentAssumption DEF Windows, Window, IInv, TypeOK
  <2>3. CASE Gate(mon, window, now) = mon
    BY <2>1, <2>3 DEF GateWindow, GateReady, IInv, TypeOK, AcceptedIsGenuine, SampleAt,
         ProgressIsEarned, OutcomeMatchesState, Outcome, Healthy, history
  <2>4. CASE Healthy(mon) /\ \E f \in FaultKind :
                Gate(mon, window, now) = Latch(mon, f, NoSample)
    <3>1. PICK f \in FaultKind : Gate(mon, window, now) = Latch(mon, f, NoSample)
      BY <2>4
    <3>2. ~GateReady(mon, window, now)
      BY <3>1, <2>2, LatchType DEF GateReady
    <3> QED BY <2>1, <2>4, <3>1, <3>2, LatchStep DEF GateWindow
  <2> QED BY <1>0, <2>2, <2>3, <2>4, GateCases
<1>7. CASE UNCHANGED vars
  BY <1>7 DEF vars, history, IInv, TypeOK, AcceptedIsGenuine, SampleAt,
       ProgressIsEarned, OutcomeMatchesState, Healthy
<1> QED BY <1>1, <1>2, <1>3, <1>4, <1>5, <1>6, <1>7 DEF Next

(* The monitor starts inside the invariant. *)
LEMMA InvariantInit == Init => IInv
<1> SUFFICES ASSUME Init PROVE IInv
  OBVIOUS
<1>0. 0 \in Time /\ RecoverySamples \in 2..10
  BY EnvironmentAssumption, ConfigAssumption DEF Time, ConfigValid
<1>1. offset[0] \in Nat
  BY <1>0, EnvironmentAssumption DEF Init
<1>2. SampleAt(0) \in Sample
  BY <1>1 DEF SampleAt, Sample
<1>3. mon \in Monitor
  <2>1. 0 \in 0..RecoverySamples - 1
    BY <1>0
  <2> QED BY <1>2, <2>1 DEF Init, NewMonitor, Monitor, OwnGeneration
<1>4. TypeOK
  <2>1. 0 \in 0..RecoverySamples
    BY <1>0
  <2>2. "New" \in Outcome
    BY Zenon DEF Init, Outcome
  <2> QED BY <1>0, <1>3, <2>1, <2>2 DEF Init, TypeOK
<1> QED BY <1>0, <1>4 DEF Init, IInv, NewMonitor, AcceptedIsGenuine, ProgressIsEarned,
         OutcomeMatchesState, Healthy

(* The inductive invariant holds throughout. *)
THEOREM InvariantHolds == Spec => []IInv
BY InvariantInit, InvariantStep, PTL DEF Spec

(***************************************************************************)
(* The monitor, its results and the history variables are always well      *)
(* formed; in particular the recovery progress stays below the number of   *)
(* samples that recovery requires.                                         *)
(***************************************************************************)
THEOREM TypeCorrect == Spec => []TypeOK
<1>1. IInv => TypeOK
  BY DEF IInv
<1> QED BY <1>1, InvariantHolds, PTL

(***************************************************************************)
(* What observe and gate report always agrees with the state they leave.   *)
(***************************************************************************)
THEOREM OutcomeCorrect == Spec => []OutcomeMatchesState
<1>1. IInv => OutcomeMatchesState
  BY DEF IInv
<1> QED BY <1>1, InvariantHolds, PTL

(***************************************************************************)
(* Every window the gate would release agrees, within the tolerance, with  *)
(* the true system clock at an instant no older than the freshness bound.  *)
(***************************************************************************)
THEOREM ReadyCorrect == Spec => []ReadyTracksTrueClock
<1>1. IInv => ReadyTracksTrueClock
  <2> SUFFICES ASSUME IInv, NEW window \in Windows, GateReady(mon, window, now)
               PROVE  \E t \in 0..now :
                        /\ now - t <= Freshness
                        /\ Abs((window.slot - window.mono) - offset[t]) <= JumpTolerance
    BY DEF ReadyTracksTrueClock
  <2>0. /\ now \in Nat /\ 0..now \subseteq Time /\ Time \subseteq Nat
        /\ mon \in Monitor /\ window \in Window
        /\ Freshness \in Nat /\ JumpTolerance \in Nat
    <3>1. /\ now \in Nat /\ 0..now \subseteq Time /\ Time \subseteq Nat
          /\ mon \in Monitor
      BY EnvironmentAssumption DEF IInv, TypeOK, Time
    <3>2. window \in Window
      BY <3>1, EnvironmentAssumption DEF Windows, Window
    <3> QED BY <3>1, <3>2, ConfigAssumption DEF ConfigValid
  <2>1. Healthy(mon) /\ Gate(mon, window, now) = mon
    BY <2>0, GateCases, LatchType DEF GateReady
  <2>2. Snapshot(mon, now) = mon
    <3>1. "StaleMapping" \in FaultKind
      BY DEF FaultKind
    <3>2. CASE Snapshot(mon, now) = Latch(mon, "StaleMapping", NoSample)
      <4>1. ~Healthy(Snapshot(mon, now))
        BY <2>0, <3>1, <3>2, LatchType
      <4>2. Gate(mon, window, now) = Snapshot(mon, now)
        BY <4>1 DEF Gate
      <4> QED BY <2>1, <4>1, <4>2
    <3> QED BY <2>0, <3>2, SnapshotCases
  <2>3. AlignWindow(mon, window) = "None"
    <3>1. AlignWindow(mon, window) \in FaultKind \union {"None"}
      BY DEF AlignWindow, FaultKind
    <3>2. ASSUME AlignWindow(mon, window) # "None"
          PROVE  FALSE
      <4>1. Gate(mon, window, now) = Latch(mon, AlignWindow(mon, window), NoSample)
        BY <2>1, <2>2, <3>2 DEF Gate
      <4>2. AlignWindow(mon, window) \in FaultKind
        BY <3>1, <3>2
      <4>3. ~Healthy(Gate(mon, window, now))
        BY <4>1, <4>2, <2>0, LatchType
      <4> QED BY <4>3, <2>1
    <3> QED BY <3>2
  <2>4. PICK t \in 0..now : mon.lastAccepted = SampleAt(t)
    BY DEF IInv, AcceptedIsGenuine
  <2>5. offset[t] \in Nat /\ t \in Nat
    BY <2>0, EnvironmentAssumption DEF IInv, TypeOK
  <2>6. mon.lastAccepted.mono = t /\ mon.lastAccepted.utc = t + offset[t]
    BY <2>4 DEF SampleAt
  <2>7. now - t <= Freshness
    <3>1. ~(MappingAge(mon, now) > Freshness)
      <4>1. ASSUME MappingAge(mon, now) > Freshness
            PROVE  FALSE
        <5>1. Snapshot(mon, now) = Latch(mon, "StaleMapping", NoSample)
          BY <2>1, <4>1 DEF Snapshot
        <5> QED BY <5>1, <2>0, <2>1, <2>2, LatchType DEF FaultKind
      <4> QED BY <4>1
    <3> QED BY <3>1, <2>0, <2>5, <2>6 DEF MappingAge
  <2>8. Abs((window.slot - window.mono) - offset[t]) <= JumpTolerance
    <3>1. window.slot \in Nat /\ window.mono \in Nat
      BY <2>0 DEF Window
    <3>2. t + window.slot - (t + offset[t]) = window.slot - offset[t]
      BY <2>5, <3>1
    <3>3. Abs(window.mono - (t + window.slot - (t + offset[t]))) <= JumpTolerance
      BY <2>3, <2>0, <2>5, <2>6, <3>1 DEF AlignWindow, Abs
    <3> QED BY <3>1, <3>2, <3>3, <2>0, <2>5 DEF Abs
  <2> QED BY <2>7, <2>8
<1> QED BY <1>1, InvariantHolds, PTL

(***************************************************************************)
(* A latched monitor recovers only on RecoverySamples consecutive timely   *)
(* samples, each agreeing with the one before it.                          *)
(***************************************************************************)
THEOREM RecoveryCorrect == Spec => RecoveryNeedsEvidence
<1>1. IInv /\ [Next]_vars =>
        [~Healthy(mon) /\ Healthy(mon)' => streak' = RecoverySamples]_vars
  <2> SUFFICES ASSUME IInv, Next, ~Healthy(mon), Healthy(mon)'
               PROVE  streak' = RecoverySamples
    OBVIOUS
  <2>0. /\ now \in Nat /\ now \in Time /\ 0..now \subseteq Time /\ Time \subseteq Nat
        /\ mon \in Monitor
    BY EnvironmentAssumption DEF IInv, TypeOK, Time
  <2>1. CASE Tick
    BY <2>1 DEF Tick, Healthy
  <2>2. CASE \E t \in 0..now, at \in Readings : ObserveSample(t, at)
    <3>1. PICK t \in 0..now, at \in Readings : ObserveSample(t, at)
      BY <2>2
    <3>2. at \in Nat /\ OwnGeneration \in Generation /\ SampleAt(t) \in Sample
      BY <2>0, SampleAtType DEF Readings, Generation, IInv
    <3> QED BY <3>1, <3>2, DeliverKeepsProgress DEF ObserveSample
  <2>3. CASE \E t \in 0..now, at \in Readings : ObserveForeign(t, at)
    <3>1. PICK t \in 0..now, at \in Readings : ObserveForeign(t, at)
      BY <2>3
    <3>2. offset[now] \in Nat
      BY <2>0, EnvironmentAssumption DEF IInv, TypeOK
    <3>3. at \in Nat /\ 2 \in Generation
      BY <2>0 DEF Readings, Generation
    <3>4. [utc |-> now + offset[now], mono |-> t] \in Sample
      BY <2>0, <3>2 DEF Sample
    <3> QED BY <3>1, <3>3, <3>4, DeliverKeepsProgress DEF ObserveForeign
  <2>4. CASE DriverPoll
    <3>1. now \in 0..now /\ OwnGeneration \in Generation
      BY <2>0 DEF Generation
    <3>2. SampleAt(now) \in Sample
      BY <3>1, SampleAtType DEF IInv
    <3> QED BY <2>0, <2>4, <3>1, <3>2, DeliverKeepsProgress DEF DriverPoll
  <2>5. CASE TakeSnapshot
    BY <2>0, <2>5, SnapshotCases DEF TakeSnapshot, Healthy
  <2>6. CASE \E window \in Windows : GateWindow(window)
    <3>1. PICK window \in Windows : GateWindow(window)
      BY <2>6
    <3>2. window \in Window
      BY <2>0, EnvironmentAssumption DEF Windows, Window
    <3> QED BY <2>0, <3>1, <3>2, GateCases DEF GateWindow, Healthy
  <2> QED BY <2>1, <2>2, <2>3, <2>4, <2>5, <2>6 DEF Next
<1> QED BY <1>1, InvariantHolds, PTL DEF Spec, RecoveryNeedsEvidence

-----------------------------------------------------------------------------
(* The rig port: the connection, and what it delivers. *)

RigRevisions == {p.revision : p \in Profiles}

(* What the history may hold of a connection. *)
RigProof == [generation : Generations, revision : RigRevisions, probed : BOOLEAN]

(* An observation carries the UTC at which it was taken. *)
RigObservation ==
  {o \in [generation : Generations, profile : RigRevisions, taken : ClockSample,
          observedAt : [utc : Int, monotonic : Int]] : o.observedAt.utc = o.taken.utc}

RigFaults == [tag : {"Err"}, error : AdapterFaults]
RigResult(values) == [tag : {"Ok"}, value : values] \union RigFaults

(* A step of the script: what a call of its operation may get. *)
RigStep ==
  [operation : {"Connect"}, result : RigResult(Generations)]
    \union [operation : {"Probe"}, result : RigResult(Reports)]
    \union [operation : {"Read"}, result : RigResult(RigObservation)]

RigType ==
  /\ clock \in ClockSample
  /\ script \in Seq(RigStep)
  /\ proved \in RigProof \union {None}
  /\ report \in Reports \union {None}

(* A connection the port still uses is the one the client saw succeed.     *)
RigConnection ==
  /\ lifecycle.state \in {"Connected", "Ready"} =>
       /\ proved # None
       /\ proved.generation = lifecycle.generation
       /\ proved.revision = revision
  /\ lifecycle.state = "Ready" => proved.probed

(* What is delivered was read over such a connection, and was recent.      *)
RigInv == RigType /\ RigConnection /\ ReadsAreProved /\ FreshIsRecent

LEMMA RigAdvance ==
  ASSUME NEW c \in ClockSample, NEW millis \in Strides
  PROVE  Advance(c, millis) \in ClockSample
<1>1. /\ millis \in Nat /\ MaxUtc \in Nat /\ MaxMonotonic \in Nat
      /\ c.utc \in 0..MaxUtc /\ c.monotonic \in 0..MaxMonotonic
  BY TimeAssumption, RigAssumption DEF ClockSample
<1> QED BY <1>1 DEF ClockSample, Advance

LEMMA RigJumpUtc ==
  ASSUME NEW c \in ClockSample, NEW delta \in Jumps
  PROVE  JumpUtc(c, delta) \in ClockSample
BY TimeAssumption, RigAssumption DEF ClockSample, JumpUtc

(* What the adapter gives for a call of each kind. *)
LEMMA RigNext1 ==
  ASSUME script \in Seq(RigStep)
  PROVE  /\ IsOk(Next1("Connect")) => Next1("Connect").value \in Generations
         /\ IsOk(Next1("Probe")) => Next1("Probe").value \in Reports
         /\ IsOk(Next1("Read")) => Next1("Read").value \in RigObservation
<1>1. CASE script = <<>>
  BY <1>1 DEF Next1, IsOk, Err
<1>2. CASE script # <<>>
  <2>1. Head(script) \in RigStep
    BY <1>2
  <2> HIDE DEF RigObservation
  <2> QED BY <2>1 DEF Next1, IsOk, Err, RigStep, RigResult, RigFaults
<1> QED BY <1>1, <1>2

(* Freshness by the port's rule makes an observation recent.               *)
LEMMA RigFreshAt ==
  ASSUME NEW o \in RigObservation, NEW at \in ClockSample,
         IsOk(FreshAt(o, at))
  PROVE  LET age   == at.monotonic - o.taken.monotonic
             moved == AbsDiff(at.utc - at.monotonic, o.taken.utc - o.taken.monotonic)
         IN /\ o.observedAt = o.taken => age <= MaxAge
            /\ age <= MaxAge + MaxDivergence + moved
<1>1. /\ at.utc \in Int /\ at.monotonic \in Int
      /\ o.taken.utc \in Int /\ o.taken.monotonic \in Int
      /\ o.observedAt.utc \in Int /\ o.observedAt.monotonic \in Int
      /\ o.observedAt.utc = o.taken.utc
  BY TimeAssumption DEF RigObservation, ClockSample
<1>2. MaxAge \in Nat /\ MaxDivergence \in Nat
  BY RigAssumption
<1> DEFINE utcAge == at.utc - o.observedAt.utc
           monotonicAge == at.monotonic - o.observedAt.monotonic
<1>3. /\ monotonicAge <= MaxAge
      /\ AbsDiff(utcAge, monotonicAge) <= MaxDivergence
  <2>1. utcAge \in Int /\ monotonicAge \in Int
    BY <1>1
  <2>2. AbsDiff(utcAge, monotonicAge) \in Int
    BY <2>1 DEF AbsDiff
  <2> QED BY <1>2, <2>1, <2>2 DEF FreshAt, IsOk, Err
<1> QED BY <1>1, <1>2, <1>3 DEF AbsDiff

(* Popping a step leaves a script. *)
LEMMA RigPop ==
  ASSUME script \in Seq(RigStep), Pop
  PROVE  script' \in Seq(RigStep)
BY DEF Pop

(* An observation queued now is stamped with the UTC of now. *)
LEMMA RigObserved ==
  ASSUME clock \in ClockSample
  PROVE  Observations \subseteq RigObservation
<1> SUFFICES ASSUME NEW g \in Generations, NEW p \in Profiles, NEW origin \in Origins
             PROVE  [generation |-> g, profile |-> p.revision, taken |-> clock,
                     observedAt |-> [clock EXCEPT !.monotonic = @ + origin]] \in RigObservation
  BY DEF Observations
<1>1. /\ clock \in [utc : Int, monotonic : Int] /\ origin \in Int
  BY TimeAssumption, RigAssumption DEF ClockSample
<1>2. /\ [clock EXCEPT !.monotonic = @ + origin] \in [utc : Int, monotonic : Int]
      /\ [clock EXCEPT !.monotonic = @ + origin].utc = clock.utc
  BY <1>1
<1>3. p.revision \in RigRevisions
  BY DEF RigRevisions
<1> QED BY <1>2, <1>3 DEF RigObservation

(* Queueing a step of the script. *)
LEMMA RigPush ==
  ASSUME RigInv, NEW operation, NEW result,
         [operation |-> operation, result |-> result] \in RigStep,
         Push(operation, result)
  PROVE  RigInv'
<1>1. script' \in Seq(RigStep)
  BY DEF RigInv, RigType, Push
<1> QED BY <1>1 DEF RigInv, RigType, RigConnection, Push, planVars,
           ReadsAreProved, FreshIsRecent, Delivering, Ok

(* A call that fails leaves a faulted port, and nothing proved.            *)
LEMMA RigFail ==
  ASSUME RigInv, Pop, clock' = clock, report' \in Reports \union {None},
         NEW generation, NEW fault, Fail(generation, fault)
  PROVE  RigInv'
<1>1. script' \in Seq(RigStep)
  BY RigPop DEF RigInv, RigType
<1>2. lifecycle'.state = "Faulted" /\ proved' = None /\ answer'.tag = "Err"
  BY DEF Fail, Faulted, Err
<1> QED BY <1>1, <1>2 DEF RigInv, RigType, RigConnection, ReadsAreProved,
                          FreshIsRecent, Delivering

LEMMA RigConnect ==
  ASSUME RigInv, NEW profile \in Profiles, Connect(profile)
  PROVE  RigInv'
<1> DEFINE result == Next1("Connect")
<1>1. /\ Pop /\ clock' = clock /\ report' = report
  BY DEF Connect, Call
<1>2. CASE /\ IsOk(result) /\ revision' = profile.revision
           /\ lifecycle' = Connected(result.value)
           /\ proved' = [generation |-> result.value, revision |-> profile.revision,
                         probed |-> FALSE]
           /\ answer' = result
  <2>1. result.value \in Generations
    BY <1>2, RigNext1 DEF RigInv, RigType
  <2>2. script' \in Seq(RigStep)
    BY <1>1, RigPop DEF RigInv, RigType
  <2>3. proved' \in RigProof
    BY <1>2, <2>1 DEF RigProof, RigRevisions
  <2>4. proved' # None
    BY <2>3, RigAssumption DEF RigProof, RigRevisions
  <2>5. answer'.tag = "Ok"
    BY <1>2 DEF IsOk
  <2>6. RigConnection'
    BY <1>2, <2>4 DEF RigConnection, Connected
  <2> QED BY <1>1, <2>2, <2>3, <2>5, <2>6
          DEF RigInv, RigType, ReadsAreProved, FreshIsRecent, Delivering
<1>3. CASE Fail(None, result.error)
  BY <1>1, <1>3, RigFail DEF RigInv, RigType
<1> QED BY <1>2, <1>3 DEF Connect

LEMMA RigProbe ==
  ASSUME RigInv, Probe
  PROVE  RigInv'
<1> DEFINE result == Next1("Probe")
           current == CurrentGeneration
<1>1. /\ Pop /\ clock' = clock /\ revision' = revision /\ lifecycle.state = "Connected"
  BY DEF Probe, Call
<1>2. CASE /\ IsOk(result) /\ lifecycle' = Ready(current)
           /\ report' = result.value
           /\ proved' = [proved EXCEPT !.probed = TRUE]
           /\ answer' = result
  <2>1. result.value \in Reports
    BY <1>2, RigNext1 DEF RigInv, RigType
  <2>2. script' \in Seq(RigStep)
    BY <1>1, RigPop DEF RigInv, RigType
  <2>3. proved \in RigProof /\ proved.generation = current /\ proved.revision = revision
    BY <1>1 DEF RigInv, RigType, RigConnection, CurrentGeneration
  <2>4. /\ proved' \in RigProof /\ proved'.probed = TRUE
        /\ proved'.generation = current /\ proved'.revision = revision
    BY <1>2, <2>3 DEF RigProof
  <2>5. proved' # None
    BY <2>4, RigAssumption DEF RigProof, RigRevisions
  <2>6. RigConnection'
    BY <1>1, <1>2, <2>4, <2>5 DEF RigConnection, Ready
  <2>7. answer'.tag = "Ok"
    BY <1>2 DEF IsOk
  <2> QED BY <1>1, <1>2, <2>1, <2>2, <2>4, <2>6, <2>7
          DEF RigInv, RigType, ReadsAreProved, FreshIsRecent, Delivering
<1>3. CASE report' = report /\ Fail(current, "GenerationChanged")
  BY <1>1, <1>3, RigFail DEF RigInv, RigType
<1>4. CASE report' = report /\ Fail(current, result.error)
  BY <1>1, <1>4, RigFail DEF RigInv, RigType
<1> QED BY <1>2, <1>3, <1>4 DEF Probe

(* What read accepts is of the connection's generation and profile.        *)
LEMMA RigReadResult ==
  ASSUME script \in Seq(RigStep), IsOk(ReadResult)
  PROVE  /\ ReadResult.value \in RigObservation
         /\ ReadResult.value.generation = lifecycle.generation
         /\ ReadResult.value.profile = revision
<1> DEFINE result == Next1("Read")
<1>1. IsOk(result) => result.value \in RigObservation
  BY RigNext1
<1> HIDE DEF RigObservation, result
<1>2. ReadResult =
        CASE ~IsOk(result) -> result
          [] IsOk(result) /\ result.value.generation # CurrentGeneration
               -> Err("GenerationChanged")
          [] IsOk(result) /\ result.value.generation = CurrentGeneration
             /\ result.value.profile # revision -> Err("ContradictoryReadback")
          [] OTHER -> result
  BY DEF ReadResult, result
<1> QED BY <1>1, <1>2 DEF IsOk, Err, CurrentGeneration

(* Delivering an observation read over a ready connection.                 *)
LEMMA RigDelivered ==
  ASSUME RigInv, Pop, lifecycle.state = "Ready", IsOk(ReadResult),
         UNCHANGED <<clock, lifecycle, proved, revision, report>>,
         NEW fresh \in BOOLEAN,
         answer' = Delivered(ReadResult.value, fresh),
         fresh => IsOk(FreshAt(ReadResult.value, clock))
  PROVE  RigInv'
<1> DEFINE o == ReadResult.value
<1>1. script \in Seq(RigStep) /\ clock \in ClockSample
  BY DEF RigInv, RigType
<1>2. /\ o \in RigObservation
      /\ o.generation = lifecycle.generation
      /\ o.profile = revision
  BY <1>1, RigReadResult
<1> HIDE DEF o
<1>3. answer' = Delivered(o, fresh)
  BY DEF o
<1>4. fresh => IsOk(FreshAt(o, clock))
  BY DEF o
<1>5. answer'.observation = o /\ answer'.at = clock /\ answer'.fresh = fresh
  BY <1>3 DEF Delivered
<1>6. ReadsAreProved'
  BY <1>2, <1>5 DEF ReadsAreProved, RigInv, RigConnection
<1>7. FreshIsRecent'
  BY <1>1, <1>2, <1>4, <1>5, RigFreshAt DEF FreshIsRecent
<1>8. script' \in Seq(RigStep)
  BY <1>1, RigPop
<1> QED BY <1>6, <1>7, <1>8 DEF RigInv, RigType, RigConnection

LEMMA RigRead ==
  ASSUME RigInv, Read
  PROVE  RigInv'
<1>1. /\ Pop /\ lifecycle.state = "Ready"
      /\ clock' = clock /\ revision' = revision /\ report' = report
  BY DEF Read, Call
<1>2. CASE /\ IsOk(ReadResult) /\ UNCHANGED <<lifecycle, proved>>
           /\ answer' = Delivered(ReadResult.value, FALSE)
  BY <1>1, <1>2, RigDelivered
<1>3. CASE Fail(CurrentGeneration, ReadResult.error)
  BY <1>1, <1>3, RigFail DEF RigInv, RigType
<1> QED BY <1>2, <1>3 DEF Read

LEMMA RigReadFresh ==
  ASSUME RigInv, ReadFresh
  PROVE  RigInv'
<1>1. /\ Pop /\ lifecycle.state = "Ready"
      /\ clock' = clock /\ revision' = revision /\ report' = report
  BY DEF ReadFresh, Call
<1>2. CASE /\ IsOk(ReadResult) /\ IsOk(FreshAt(ReadResult.value, clock))
           /\ answer' = Delivered(ReadResult.value, TRUE)
           /\ UNCHANGED <<lifecycle, proved>>
  BY <1>1, <1>2, RigDelivered
<1>3. CASE Fail(CurrentGeneration, FreshAt(ReadResult.value, clock).error)
  BY <1>1, <1>3, RigFail DEF RigInv, RigType
<1>4. CASE Fail(CurrentGeneration, ReadResult.error)
  BY <1>1, <1>4, RigFail DEF RigInv, RigType
<1> QED BY <1>2, <1>3, <1>4 DEF ReadFresh

(* A step that leaves the connection alone and delivers nothing.           *)
LEMMA RigQuiet ==
  ASSUME RigInv, UNCHANGED <<script, lifecycle, revision, report, proved>>,
         clock' \in ClockSample, ~Delivering'
  PROVE  RigInv'
BY DEF RigInv, RigType, RigConnection, ReadsAreProved, FreshIsRecent

(* Every step of RigSession keeps the connection proved.                   *)
LEMMA RigStepKeeps ==
  ASSUME RigInv, [SessionNext]_sessionVars
  PROVE  RigInv'
<1>1. CASE QueueConnect
  <2>1. PICK g \in Generations : Push("Connect", Ok(g))
    BY <1>1 DEF QueueConnect
  <2>2. [operation |-> "Connect", result |-> Ok(g)] \in RigStep
    BY DEF RigStep, RigResult, Ok
  <2> QED BY <2>1, <2>2, RigPush
<1>2. CASE QueueProbe
  <2>1. PICK r \in Reports : Push("Probe", Ok(r))
    BY <1>2 DEF QueueProbe
  <2>2. [operation |-> "Probe", result |-> Ok(r)] \in RigStep
    BY DEF RigStep, RigResult, Ok
  <2> QED BY <2>1, <2>2, RigPush
<1>3. CASE QueueRead
  <2>1. PICK o \in Observations : Push("Read", Ok(o))
    BY <1>3 DEF QueueRead
  <2>2. o \in RigObservation
    BY RigObserved DEF RigInv, RigType
  <2> HIDE DEF RigObservation
  <2>3. [operation |-> "Read", result |-> Ok(o)] \in RigStep
    BY <2>2 DEF RigStep, RigResult, Ok
  <2> QED BY <2>1, <2>3, RigPush
<1>4. CASE QueueFault
  <2>1. PICK operation \in {"Connect", "Probe", "Read"}, fault \in AdapterFaults :
          Push(operation, Err(fault))
    BY <1>4 DEF QueueFault
  <2>2. [operation |-> operation, result |-> Err(fault)] \in RigStep
    BY DEF RigStep, RigResult, RigFaults, Err
  <2> QED BY <2>1, <2>2, RigPush
<1>5. CASE \E profile \in Profiles : Connect(profile)
  BY <1>5, RigConnect
<1>6. CASE Probe
  BY <1>6, RigProbe
<1>7. CASE Read
  BY <1>7, RigRead
<1>8. CASE ReadFresh
  BY <1>8, RigReadFresh
<1>9. CASE \E result : Answer(result) /\ result.tag # "Delivered"
  BY <1>9, RigQuiet DEF Answer, rigVars, Delivering, RigInv, RigType
<1>10. CASE ProbeRefused \/ ReadRefused
  BY <1>9, <1>10 DEF ProbeRefused, ReadRefused, Err
<1>11. CASE \E required \in Requirements : Validate(required)
  BY <1>9, <1>11 DEF Validate, ValidateProfileCapabilities, Ok, Err
<1>12. CASE AdvanceClock \/ JumpClock
  <2>1. clock' \in ClockSample
    BY <1>12, RigAdvance, RigJumpUtc
    DEF AdvanceClock, JumpClock, MoveClock, RigInv, RigType
  <2> QED BY <1>12, <2>1, RigQuiet
          DEF AdvanceClock, JumpClock, MoveClock, rigVars, Delivering
<1>13. CASE (\E mode \in Modes : PlanSlot(mode)) \/ ObserveClock
  BY <1>13, RigQuiet
  DEF PlanSlot, ObserveClock, rigVars, Delivering, RigInv, RigType
<1>14. CASE UNCHANGED sessionVars
  BY <1>14 DEF sessionVars, rigVars, RigInv, RigType, RigConnection,
               ReadsAreProved, FreshIsRecent, Delivering
<1> QED BY <1>1, <1>2, <1>3, <1>4, <1>5, <1>6, <1>7, <1>8, <1>10, <1>11, <1>12, <1>13, <1>14
        DEF SessionNext

LEMMA RigInit ==
  ASSUME SessionInit
  PROVE  RigInv
BY RigAssumption DEF SessionInit, Disconnected, RigInv, RigType, RigConnection,
       ReadsAreProved, FreshIsRecent, Delivering

(***************************************************************************)
(* ReadsAreProved: an observation reaches the client only over the         *)
(* connection whose connect and probe it saw succeed, and is of that       *)
(* connection's generation and profile revision (testkit read, read_fresh).*)
(***************************************************************************)
THEOREM RigReadsAreProved ==
  SessionSpec => []ReadsAreProved
<1>1. SessionInit => RigInv
  BY RigInit
<1>2. RigInv /\ [SessionNext]_sessionVars => RigInv'
  BY RigStepKeeps
<1>3. RigInv => ReadsAreProved
  BY DEF RigInv
<1> QED BY <1>1, <1>2, <1>3, PTL DEF SessionSpec

(***************************************************************************)
(* FreshIsRecent: what read_fresh delivers was taken at most MaxAge ago,   *)
(* or, when stamped by a clock of another origin, is older only by the     *)
(* allowed divergence and by what UTC was moved (rig.rs fresh_at).         *)
(***************************************************************************)
THEOREM RigFreshIsRecent ==
  SessionSpec => []FreshIsRecent
<1>1. SessionInit => RigInv
  BY RigInit
<1>2. RigInv /\ [SessionNext]_sessionVars => RigInv'
  BY RigStepKeeps
<1>3. RigInv => FreshIsRecent
  BY DEF RigInv
<1> QED BY <1>1, <1>2, <1>3, PTL DEF SessionSpec

-----------------------------------------------------------------------------
(* The rig port: what a report satisfies. *)

(* A report holds at most one piece of evidence on a capability.           *)
LEMMA RigReportIsSound ==
  ASSUME NEW r \in Reports
  PROVE  /\ r.evidence \in EvidenceLists
         /\ \A i, j \in DOMAIN r.evidence :
              r.evidence[i].capability = r.evidence[j].capability => i = j
<1>1. PICK g \in Generations, list \in EvidenceLists :
        /\ IsOk(CapabilityReportNew(g, list))
        /\ r = CapabilityReportNew(g, list).value
  BY DEF Reports
<1>2. ~(Len(list) > MaxCapabilities
        \/ ~IsInjective([i \in DOMAIN list |-> list[i].capability]))
  BY <1>1 DEF CapabilityReportNew, IsOk, Err
<1>3. r.evidence = list
  BY <1>1, <1>2 DEF CapabilityReportNew, Ok
<1> QED BY <1>2, <1>3 DEF IsInjective

(* The status of a capability is that of its only piece of evidence.       *)
LEMMA RigStatus ==
  ASSUME NEW r \in Reports, NEW i \in DOMAIN r.evidence
  PROVE  Status(r, r.evidence[i].capability) = r.evidence[i].status
<1> DEFINE capability == r.evidence[i].capability
           found == {k \in 1..Len(r.evidence) : r.evidence[k].capability = capability}
<1>1. r.evidence \in Seq(ToSet(r.evidence))
  BY RigReportIsSound, RigAssumption
<1>2. DOMAIN r.evidence = 1..Len(r.evidence) /\ Len(r.evidence) \in Nat
  BY <1>1
<1>3. found = {i}
  BY <1>2, RigReportIsSound
<1>4. i \in Int
  BY <1>2
<1>5. Min({i}) = i
  BY <1>4 DEF Min
<1> QED BY <1>3, <1>5 DEF Status

(* Nothing but a probed or verified status satisfies a requirement.        *)
LEMMA RigDisposition ==
  ASSUME NEW status \in CapabilityStatus, Disposition(status) = "Satisfied"
  PROVE  status \in {"RuntimeProbed", "PhysicallyVerified"}
BY DEF CapabilityStatus, Disposition

LEMMA RigSatisfied ==
  ASSUME NEW r \in Reports, NEW required \in Requirements,
         IsOk(ValidateProfileCapabilities(required, r)),
         IsSatisfied(ValidateProfileCapabilities(required, r).value),
         NEW i \in 1..Len(required)
  PROVE  LET statuses == {item.status : item \in
                            {e \in ToSet(r.evidence) : e.capability = required[i]}}
         IN statuses # {} /\ statuses \subseteq {"RuntimeProbed", "PhysicallyVerified"}
<1> DEFINE findings == [k \in 1..Len(required) |->
                          [capability |-> required[k],
                           disposition |-> Disposition(Status(r, required[k]))]]
<1>1. ValidateProfileCapabilities(required, r).value = findings
  BY DEF ValidateProfileCapabilities, IsOk, Ok, Err
<1>2. Len(required) \in Nat
  BY RigAssumption
<1>3. Len(findings) = Len(required)
  BY <1>2
<1>4. Disposition(Status(r, required[i])) = "Satisfied"
  <2>1. findings[i].disposition = Disposition(Status(r, required[i]))
    OBVIOUS
  <2> HIDE DEF findings
  <2>2. \A k \in 1..Len(findings) : findings[k].disposition = "Satisfied"
    BY <1>1 DEF IsSatisfied
  <2> QED BY <1>3, <2>1, <2>2
<1>5. r.evidence \in Seq(ToSet(r.evidence))
  BY RigReportIsSound, RigAssumption
<1>6. \A e \in ToSet(r.evidence) : e.status \in CapabilityStatus
  BY RigReportIsSound, RigAssumption
<1>7. \A e \in ToSet(r.evidence) : e.capability = required[i] =>
        e.status \in {"RuntimeProbed", "PhysicallyVerified"}
  <2> SUFFICES ASSUME NEW k \in DOMAIN r.evidence, r.evidence[k].capability = required[i]
               PROVE  r.evidence[k].status \in {"RuntimeProbed", "PhysicallyVerified"}
    BY DEF ToSet
  <2>1. Status(r, required[i]) = r.evidence[k].status
    BY RigStatus
  <2>2. r.evidence[k].status \in CapabilityStatus
    BY <1>6 DEF ToSet
  <2> QED BY <1>4, <2>1, <2>2, RigDisposition
<1>8. \E e \in ToSet(r.evidence) : e.capability = required[i]
  <2> SUFFICES ASSUME \A e \in ToSet(r.evidence) : e.capability # required[i]
               PROVE  FALSE
    OBVIOUS
  <2>1. {k \in 1..Len(r.evidence) : r.evidence[k].capability = required[i]} = {}
    BY <1>5 DEF ToSet
  <2>2. Status(r, required[i]) = "StaleOrUnverified"
    BY <2>1 DEF Status
  <2> QED BY <1>4, <2>2, RigDisposition DEF CapabilityStatus
<1> QED BY <1>7, <1>8

(***************************************************************************)
(* SatisfiedIsProbed: no requirement that is_satisfied accepts has weaker  *)
(* evidence anywhere in the report (rig.rs validate_profile_capabilities): *)
(* RigCapabilityReport::new admits one piece of evidence per capability.   *)
(***************************************************************************)
THEOREM RigSatisfiedIsProbed ==
  SessionSpec => []SatisfiedIsProbed
<1>1. SessionInit => RigInv
  BY RigInit
<1>2. RigInv /\ [SessionNext]_sessionVars => RigInv'
  BY RigStepKeeps
<1>3. RigInv => SatisfiedIsProbed
  BY RigSatisfied DEF RigInv, RigType, SatisfiedIsProbed
<1> QED BY <1>1, <1>2, <1>3, PTL DEF SessionSpec

-----------------------------------------------------------------------------
(* The planner: slots, deadlines and the latching monitor. *)

(* A slot length divides its multiples. *)
LEMMA RigMultiple ==
  ASSUME NEW k \in Nat, NEW m \in Nat \ {0}
  PROVE  (k * m) % m = 0
<1> DEFINE q == (k * m) \div m
           r == (k * m) % m
<1>1. k * m \in Nat
  OBVIOUS
<1>2. q \in Int /\ r \in Int /\ 0 <= r /\ r < m /\ k * m = m * q + r
  BY <1>1
<1> HIDE DEF q, r
<1>3. m * (k - q) = r
  BY <1>2
<1>4. CASE k - q >= 1
  <2>1. m * (k - q) >= m
    BY <1>2, <1>4
  <2> QED BY <1>2, <1>3, <2>1
<1>5. CASE k - q <= -1
  <2>1. m * (k - q) <= -m
    BY <1>2, <1>5
  <2> QED BY <1>2, <1>3, <2>1
<1>6. CASE k - q = 0
  BY <1>2, <1>3, <1>6 DEF r
<1> QED BY <1>2, <1>4, <1>5, <1>6

(* The slot a sample falls in. *)
LEMMA RigSlotOf ==
  ASSUME NEW u \in Nat, NEW m \in Nat \ {0}
  PROVE  /\ u \div m \in Nat
         /\ u - (u % m) = (u \div m) * m
         /\ (u \div m) * m \in Nat
         /\ ((u \div m) * m) % m = 0
<1> DEFINE q == u \div m
<1>1. q \in Nat
  OBVIOUS
<1>2. u - (u % m) = q * m
  OBVIOUS
<1> HIDE DEF q
<1>3. q * m \in Nat
  BY <1>1
<1>4. (q * m) % m = 0
  BY <1>1, RigMultiple
<1> QED BY <1>1, <1>2, <1>3, <1>4 DEF q

(* next_slot: the slot after the sample's own, its deadline as far ahead   *)
(* as the slot's start.                                                    *)
LEMMA RigNextSlot ==
  ASSUME NEW c \in ClockSample, NEW mode \in Modes,
         IsOk(NextSlot(c, mode))
  PROVE  LET v == NextSlot(c, mode).value
         IN /\ v.slot.mode = mode
            /\ v.slot.start \in Nat /\ v.deadline \in Int
            /\ v.slot.start = CurrentSlot(c, mode).value.start + SlotMillis[mode]
            /\ v.deadline = c.monotonic + (v.slot.start - c.utc)
<1> DEFINE m == SlotMillis[mode]
           start == ((c.utc \div m) + 1) * m
           slot == UtcSlotNew(mode, start)
           deadline == DeadlineFor(c, start)
<1>1. m \in Nat \ {0} /\ c.utc \in Nat /\ c.monotonic \in Nat /\ MaxMonotonic \in Nat
  BY TimeAssumption DEF ClockSample
<1>2. /\ start = (c.utc \div m) * m + m
      /\ start \in Nat
      /\ CurrentSlot(c, mode) = Ok([mode |-> mode, start |-> (c.utc \div m) * m])
  <2>1. /\ c.utc \div m \in Nat
        /\ c.utc - (c.utc % m) = (c.utc \div m) * m
        /\ (c.utc \div m) * m \in Nat
        /\ ((c.utc \div m) * m) % m = 0
    BY <1>1, RigSlotOf
  <2>2. CurrentSlot(c, mode) = UtcSlotNew(mode, (c.utc \div m) * m)
    BY <2>1 DEF CurrentSlot
  <2>3. CurrentSlot(c, mode) = Ok([mode |-> mode, start |-> (c.utc \div m) * m])
    BY <2>1, <2>2 DEF UtcSlotNew
  <2> DEFINE q == c.utc \div m
  <2>4. q \in Nat
    BY <2>1
  <2> HIDE DEF q
  <2>5. (q + 1) * m = q * m + m /\ (q + 1) * m \in Nat
    BY <1>1, <2>4
  <2> QED BY <2>3, <2>5 DEF q
<1> HIDE DEF start, m
<1>3. NextSlot(c, mode) =
        CASE start > MaxUtc -> Err("ArithmeticOverflow")
          [] start <= MaxUtc /\ ~IsOk(slot) -> slot
          [] start <= MaxUtc /\ IsOk(slot) /\ ~IsOk(deadline) -> deadline
          [] OTHER -> Ok([slot |-> slot.value, deadline |-> deadline.value])
  BY DEF NextSlot, start, m
<1> HIDE DEF slot, deadline
<1>4. /\ IsOk(slot) /\ IsOk(deadline)
      /\ NextSlot(c, mode).value = [slot |-> slot.value, deadline |-> deadline.value]
  <2>1. MaxUtc \in Nat
    BY TimeAssumption
  <2> QED BY <1>2, <1>3, <2>1 DEF IsOk, Ok, Err
<1>5. slot.value = [mode |-> mode, start |-> start]
  BY <1>4 DEF slot, UtcSlotNew, IsOk, Ok, Err
<1>6. deadline.value = c.monotonic + (start - c.utc)
  BY <1>1, <1>2, <1>4 DEF deadline, DeadlineFor, IsOk, Ok, Err
<1>7. CurrentSlot(c, mode).value.start = (c.utc \div m) * m
  BY <1>2 DEF Ok
<1> QED BY <1>1, <1>2, <1>4, <1>5, <1>6, <1>7 DEF m

RigMonitor ==
  [last : ClockSample, health : {"Healthy", "WallClockJump", "TimelineRegressed"}]

(* observe: a sample the monitor accepts lies within the tolerance of the  *)
(* last one, as long as the monotonic reading fits a UTC value.            *)
LEMMA RigObserve ==
  ASSUME NEW m \in RigMonitor, NEW c \in ClockSample
  PROVE  /\ MonitorObserve(m, c) \in RigMonitor
         /\ MonitorObserve(m, c).health = "Healthy" =>
              /\ m.health = "Healthy" /\ MonitorObserve(m, c).last = c
              /\ m.last.monotonic <= c.monotonic
              /\ c.monotonic <= MaxUtc =>
                   AbsDiff(c.utc - m.last.utc, c.monotonic - m.last.monotonic) <= Tolerance
<1> DEFINE verdict == Verdict(m.last, c)
           utcDelta == c.utc - m.last.utc
           elapsed == c.monotonic - m.last.monotonic
           capped == Min({elapsed, MaxUtc})
<1>1. /\ c.utc \in Nat /\ c.monotonic \in Nat
      /\ m.last.utc \in Nat /\ m.last.monotonic \in Nat
      /\ MaxUtc \in Nat /\ Tolerance \in Nat
  BY TimeAssumption DEF ClockSample, RigMonitor
<1>2. elapsed <= MaxUtc => capped = elapsed
  <2>1. elapsed \in Int
    BY <1>1
  <2> HIDE DEF elapsed
  <2> QED BY <1>1, <2>1 DEF Min
<1>3. verdict \in {"Healthy", "WallClockJump", "TimelineRegressed"}
  BY DEF Verdict
<1>4. verdict = "Healthy" =>
        /\ m.last.monotonic <= c.monotonic
        /\ ~(AbsDiff(utcDelta, capped) > Tolerance)
  <2> HIDE DEF capped
  <2>1. verdict = CASE c.monotonic < m.last.monotonic \/ utcDelta < 0 -> "TimelineRegressed"
                    [] /\ c.monotonic >= m.last.monotonic /\ utcDelta >= 0
                       /\ AbsDiff(utcDelta, capped) > Tolerance -> "WallClockJump"
                    [] OTHER -> "Healthy"
    BY DEF Verdict, capped
  <2> HIDE DEF verdict
  <2> QED BY <1>1, <2>1
<1> HIDE DEF verdict
<1>5. MonitorObserve(m, c) =
        CASE m.health # "Healthy" -> m
          [] m.health = "Healthy" /\ verdict # "Healthy" -> [m EXCEPT !.health = verdict]
          [] OTHER -> [m EXCEPT !.last = c]
  BY DEF MonitorObserve, verdict
<1>6. MonitorObserve(m, c) \in RigMonitor
  BY <1>3, <1>5 DEF RigMonitor
<1>7. MonitorObserve(m, c).health = "Healthy" =>
        m.health = "Healthy" /\ verdict = "Healthy" /\ MonitorObserve(m, c).last = c
  BY <1>3, <1>5 DEF RigMonitor
<1>8. verdict = "Healthy" /\ c.monotonic <= MaxUtc => AbsDiff(utcDelta, elapsed) <= Tolerance
  <2>1. c.monotonic <= MaxUtc => elapsed <= MaxUtc
    BY <1>1
  <2>2. elapsed \in Int /\ utcDelta \in Int
    BY <1>1
  <2>3. AbsDiff(utcDelta, elapsed) \in Int
    BY <2>2 DEF AbsDiff
  <2> HIDE DEF elapsed, utcDelta, capped
  <2> QED BY <1>1, <1>2, <1>4, <2>1, <2>3
<1> QED BY <1>4, <1>6, <1>7, <1>8

(* The planner's state, and what a slot planned is measured by.            *)
RigPlanInv ==
  /\ clock \in ClockSample
  /\ monitor \in RigMonitor
  /\ observed \in Nat
  /\ plan # None => plan.slot.start \in Nat /\ plan.deadline \in Int
  /\ DeadlineKeepsSlot

(* A mapping of UTC to the monotonic clock that is off by at most slack    *)
(* expires the deadline no earlier and no later than slack allows.         *)
LEMMA RigExpiry ==
  ASSUME NEW utc \in Int, NEW mono \in Int, NEW start \in Int, NEW deadline \in Int,
         NEW slack \in Int, AbsDiff(utc - start, mono - deadline) <= slack
  PROVE  /\ IsExpiredAt(deadline, mono) => utc + slack >= start
         /\ ~IsExpiredAt(deadline, mono) => utc < start + slack
BY DEF AbsDiff, IsExpiredAt

(* What the property says of the monitor, for a plan already made.         *)
LEMMA RigKeepsSlot ==
  ASSUME NEW last \in ClockSample, NEW slot, NEW deadline \in Int, NEW n \in Nat,
         slot.start \in Int,
         AbsDiff(last.utc - slot.start, last.monotonic - deadline) <= n * Tolerance
  PROVE  /\ IsExpiredAt(deadline, last.monotonic) =>
              last.utc + n * Tolerance >= slot.start
         /\ ~IsExpiredAt(deadline, last.monotonic) =>
              last.utc < slot.start + n * Tolerance
<1>1. last.utc \in Int /\ last.monotonic \in Int /\ n * Tolerance \in Int
  BY TimeAssumption DEF ClockSample
<1> QED BY <1>1, RigExpiry

LEMMA RigPlanSlot ==
  ASSUME RigPlanInv, NEW mode \in Modes, PlanSlot(mode)
  PROVE  RigPlanInv'
<1> DEFINE v == NextSlot(clock, mode).value
<1>1. /\ clock' = clock /\ observed' = observed /\ clock \in ClockSample
      /\ monitor' = MonitorObserve(monitor, clock) /\ monitor'.health = "Healthy"
      /\ IsOk(NextSlot(clock, mode))
      /\ plan' = [slot |-> v.slot, deadline |-> v.deadline, at |-> clock]
  BY DEF PlanSlot, RigPlanInv
<1>2. /\ v.slot.mode = mode
      /\ v.slot.start \in Nat /\ v.deadline \in Int
      /\ v.slot.start = CurrentSlot(clock, mode).value.start + SlotMillis[mode]
      /\ v.deadline = clock.monotonic + (v.slot.start - clock.utc)
  BY <1>1, RigNextSlot
<1>3. monitor' \in RigMonitor /\ monitor'.last = clock
  BY <1>1, RigObserve DEF RigPlanInv
<1> HIDE DEF v
<1>4. plan'.slot = v.slot /\ plan'.deadline = v.deadline /\ plan'.at = clock
  BY <1>1
<1>5. clock.utc \in Int /\ clock.monotonic \in Int /\ Tolerance \in Nat /\ observed \in Nat
  BY <1>1, TimeAssumption DEF ClockSample, RigPlanInv
<1>6. AbsDiff(clock.utc - v.slot.start, clock.monotonic - v.deadline) <= observed * Tolerance
  <2>1. clock.utc - v.slot.start = clock.monotonic - v.deadline
    BY <1>2, <1>5
  <2>2. AbsDiff(clock.utc - v.slot.start, clock.monotonic - v.deadline) = 0
    BY <1>2, <1>5, <2>1 DEF AbsDiff
  <2>3. observed * Tolerance \in Nat
    BY <1>5
  <2> QED BY <2>2, <2>3
<1>7. DeadlineKeepsSlot'
  BY <1>1, <1>2, <1>3, <1>4, <1>5, <1>6, RigKeepsSlot DEF DeadlineKeepsSlot
<1> QED BY <1>1, <1>2, <1>3, <1>4, <1>7 DEF RigPlanInv

LEMMA RigObserveClock ==
  ASSUME RigPlanInv, ObserveClock
  PROVE  RigPlanInv'
<1>1. /\ clock' = clock /\ plan' = plan /\ clock \in ClockSample
      /\ monitor' = MonitorObserve(monitor, clock) /\ monitor \in RigMonitor
      /\ observed' = IF plan # None /\ monitor'.health = "Healthy"
                     THEN observed + 1 ELSE observed
      /\ observed \in Nat
  BY DEF ObserveClock, RigPlanInv
<1>2. /\ monitor' \in RigMonitor
      /\ monitor'.health = "Healthy" =>
           /\ monitor.health = "Healthy" /\ monitor'.last = clock
           /\ monitor.last.monotonic <= clock.monotonic
           /\ clock.monotonic <= MaxUtc =>
                AbsDiff(clock.utc - monitor.last.utc,
                            clock.monotonic - monitor.last.monotonic) <= Tolerance
  BY <1>1, RigObserve
<1>3. DeadlineKeepsSlot'
  <2> SUFFICES ASSUME plan # None, monitor'.health = "Healthy", clock.monotonic <= MaxUtc
               PROVE  AbsDiff(clock.utc - plan.slot.start, clock.monotonic - plan.deadline)
                        <= (observed + 1) * Tolerance
    <3> HIDE DEF RigMonitor, AbsDiff
    <3>1. plan # None =>
            plan.slot.start = CurrentSlot(plan.at, plan.slot.mode).value.start
                                + SlotMillis[plan.slot.mode]
      BY DEF RigPlanInv, DeadlineKeepsSlot
    <3>2. plan # None => plan.slot.start \in Int /\ plan.deadline \in Int
      BY DEF RigPlanInv
    <3>3. observed + 1 \in Nat
      BY <1>1
    <3> QED BY <1>1, <1>2, <3>1, <3>2, <3>3, RigKeepsSlot DEF DeadlineKeepsSlot
  <2> DEFINE utc == clock.utc
             mono == clock.monotonic
             lastUtc == monitor.last.utc
             lastMono == monitor.last.monotonic
             start == plan.slot.start
             deadline == plan.deadline
  <2>1. /\ utc \in Int /\ mono \in Int /\ lastUtc \in Int /\ lastMono \in Int
        /\ start \in Int /\ deadline \in Int /\ MaxUtc \in Int /\ Tolerance \in Int
    BY <1>1, TimeAssumption DEF ClockSample, RigMonitor, RigPlanInv
  <2>2. AbsDiff(utc - lastUtc, mono - lastMono) <= Tolerance /\ lastMono <= mono
    BY <1>2
  <2>3. lastMono <= MaxUtc
    BY <2>1, <2>2
  <2>4. AbsDiff(lastUtc - start, lastMono - deadline) <= observed * Tolerance
    BY <1>2, <2>3 DEF RigPlanInv, DeadlineKeepsSlot
  <2>5. /\ observed * Tolerance \in Int
        /\ (observed + 1) * Tolerance = observed * Tolerance + Tolerance
    <3>1. observed \in Int /\ Tolerance \in Int
      BY <1>1, <2>1
    <3> QED BY <3>1
  <2> DEFINE slack == observed * Tolerance
  <2> HIDE DEF utc, mono, lastUtc, lastMono, start, deadline, slack
  <2>6. AbsDiff(utc - start, mono - deadline) <= slack + Tolerance
    BY <2>1, <2>2, <2>4, <2>5 DEF AbsDiff, slack
  <2> QED BY <2>5, <2>6 DEF utc, mono, start, deadline, slack
<1> QED BY <1>1, <1>2, <1>3 DEF RigPlanInv

(* Every step of RigSession keeps the planner's invariant; only the clock  *)
(* and the planner's own calls touch what it speaks of.                    *)
LEMMA RigPlanStep ==
  ASSUME RigPlanInv, [SessionNext]_sessionVars
  PROVE  RigPlanInv'
<1>1. CASE clock' \in ClockSample /\ UNCHANGED <<monitor, plan, observed>>
  BY <1>1 DEF RigPlanInv, DeadlineKeepsSlot
<1>2. CASE \E operation, result : Push(operation, result)
  BY <1>1, <1>2 DEF Push, planVars, RigPlanInv
<1>3. CASE QueueConnect \/ QueueProbe \/ QueueRead \/ QueueFault
  BY <1>2, <1>3 DEF QueueConnect, QueueProbe, QueueRead, QueueFault
<1>4. CASE Call
  BY <1>1, <1>4 DEF Call, planVars, RigPlanInv
<1>5. CASE (\E profile \in Profiles : Connect(profile)) \/ Probe \/ Read
             \/ ReadFresh
  BY <1>4, <1>5 DEF Connect, Probe, Read, ReadFresh
<1>6. CASE \E result : Answer(result)
  BY <1>1, <1>6 DEF Answer, planVars, RigPlanInv
<1>7. CASE ProbeRefused \/ ReadRefused
             \/ \E required \in Requirements : Validate(required)
  BY <1>6, <1>7 DEF ProbeRefused, ReadRefused, Validate
<1>8. CASE AdvanceClock \/ JumpClock
  <2>1. clock' \in ClockSample
    BY <1>8, RigAdvance, RigJumpUtc
    DEF AdvanceClock, JumpClock, MoveClock, RigPlanInv
  <2> QED BY <1>1, <1>8, <2>1
          DEF AdvanceClock, JumpClock, MoveClock, planVars
<1>9. CASE \E mode \in Modes : PlanSlot(mode)
  BY <1>9, RigPlanSlot
<1>10. CASE ObserveClock
  BY <1>10, RigObserveClock
<1>11. CASE UNCHANGED sessionVars
  BY <1>1, <1>11 DEF sessionVars, planVars, RigPlanInv
<1> QED BY <1>3, <1>5, <1>7, <1>8, <1>9, <1>10, <1>11 DEF SessionNext

(***************************************************************************)
(* DeadlineKeepsSlot: a planned deadline stays within one tolerance per    *)
(* accepted sample of its UTC slot while the monitor is healthy (time.rs   *)
(* next_slot, observe).                                                    *)
(***************************************************************************)
THEOREM RigDeadlineKeepsSlot ==
  SessionSpec => []DeadlineKeepsSlot
<1>1. SessionInit => RigPlanInv
  BY RigAssumption DEF SessionInit, MonitorNew, RigPlanInv, RigMonitor,
         DeadlineKeepsSlot
<1>2. RigPlanInv /\ [SessionNext]_sessionVars => RigPlanInv'
  BY RigPlanStep
<1>3. RigPlanInv => DeadlineKeepsSlot
  BY DEF RigPlanInv
<1> QED BY <1>1, <1>2, <1>3, PTL DEF SessionSpec
=============================================================================
