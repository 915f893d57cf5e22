---------------------------- MODULE ClockMonitor ----------------------------
(***************************************************************************)
(* The receive clock monitor of crates/operations/src/receive_clock.rs as  *)
(* pure operators on a monitor record.  The monitor compares paired        *)
(* UTC/monotonic samples, latches unhealthy on any inconsistency, recovers *)
(* after RecoverySamples consistent samples, and gates complete FT8        *)
(* windows.  Time is in abstract ticks; the payloads of a fault (ages,     *)
(* divergences) are for reporting only and are left out.                   *)
(***************************************************************************)
EXTENDS Integers

CONSTANTS
  Cadence,            \* sample_cadence_millis
  Freshness,          \* freshness_millis
  MaxSampleGap,       \* max_sample_gap_millis
  JumpTolerance,      \* jump_tolerance_millis
  MaxSamplingDelay,   \* max_sampling_delay_millis
  RecoverySamples     \* recovery_samples

(***************************************************************************)
(* What ReceiveClockConfig::new accepts, without its absolute limits in    *)
(* milliseconds (a tick has no fixed length here).                         *)
(***************************************************************************)
ConfigValid ==
  /\ Cadence \in Nat \ {0}
  /\ Freshness \in Nat /\ Freshness >= Cadence
  /\ MaxSampleGap \in Nat /\ MaxSampleGap >= Cadence
  /\ JumpTolerance \in Nat
  /\ MaxSamplingDelay \in Nat /\ MaxSamplingDelay <= Cadence
  /\ RecoverySamples \in 2..10

ASSUME ConfigAssumption == ConfigValid

(* ReceiveClockFault, with "None" standing for ReceiveClockState::Healthy. *)
FaultKind ==
  {"ProcessGenerationChanged", "TimelineRegressed", "UtcJump", "StaleMapping",
   "SamplingDelayed", "SampleGap", "WindowMisaligned", "ArithmeticOverflow"}

(* ClockSample; UtcInstant admits no instant before the epoch. *)
Sample == [utc : Nat, mono : Nat]

(* recovery_last = None. *)
NoSample == [utc |-> -1, mono |-> -1]

Monitor ==
  [gen          : Nat,
   fault        : FaultKind \union {"None"},
   progress     : 0..RecoverySamples - 1,
   lastAccepted : Sample,
   recoveryLast : Sample \union {NoSample}]

Healthy(m) == m.fault = "None"

Abs(x) == IF x < 0 THEN -x ELSE x

(* ReceiveClockMonitor::new: healthy from one initial sample. *)
NewMonitor(gen, initial) ==
  [gen |-> gen, fault |-> "None", progress |-> 0,
   lastAccepted |-> initial, recoveryLast |-> NoSample]

NextSampleDue(m) == m.lastAccepted.mono + Cadence

(* snapshot_unchecked's mapping_age_millis: a saturating subtraction. *)
MappingAge(m, at) ==
  IF at < m.lastAccepted.mono THEN 0 ELSE at - m.lastAccepted.mono

(***************************************************************************)
(* compare: the fault that `current` shows against `previous`, or "None".  *)
(* Both UTC values are non-negative i64, so the first checked subtraction  *)
(* of the code cannot overflow.                                            *)
(***************************************************************************)
Compare(previous, current) ==
  LET utcDelta  == current.utc - previous.utc
      monoDelta == current.mono - previous.mono
  IN  IF monoDelta < 0 THEN "TimelineRegressed"
      ELSE IF utcDelta < 0 THEN "UtcJump"
      ELSE IF monoDelta > MaxSampleGap THEN "SampleGap"
      ELSE IF Abs(utcDelta - monoDelta) > JumpTolerance THEN "UtcJump"
      ELSE "None"

(* Mutant of Latch: a new fault does not reset the recovery progress. *)
LatchKeepsProgress(m, fault, candidate) ==
  [m EXCEPT !.fault = fault, !.recoveryLast = candidate]

(* latch: `candidate` is the sample that starts a new recovery, or NoSample. *)
Latch(m, fault, candidate) ==
  [m EXCEPT !.fault = fault,
            !.progress = IF candidate = NoSample THEN 0 ELSE 1,
            !.recoveryLast = candidate]

(* Mutant of Snapshot: the freshness bound is not looked at. *)
SnapshotUnchecked(m, at) == m

(* snapshot: an over-age healthy mapping is latched stale when looked at. *)
Snapshot(m, at) ==
  IF Healthy(m) /\ MappingAge(m, at) > Freshness
  THEN Latch(m, "StaleMapping", NoSample)
  ELSE m

(* observe returns a ReceiveClockTransition; here also the monitor after it. *)
Result(m, transition) == [mon |-> m, transition |-> transition]

(* latch as observe returns it. *)
Latched(m, fault, candidate) ==
  Result(Latch(m, fault, candidate),
         IF Healthy(m) THEN "BecameUnhealthy" ELSE "Unhealthy")

(* The Healthy arm of observe. *)
ObserveHealthy(m, sample, at) ==
  LET fault == Compare(m.lastAccepted, sample)
  IN  IF fault # "None"
      THEN Latched(m, fault, NoSample)
      ELSE Result(Snapshot([m EXCEPT !.lastAccepted = sample], at), "Healthy")

(* The Unhealthy arm of observe: one more recovery candidate. *)
ObserveUnhealthy(m, sample, at) ==
  LET fault == IF m.recoveryLast = NoSample
               THEN "None" ELSE Compare(m.recoveryLast, sample)
      progress == m.progress + 1
  IN  IF m.fault = "ProcessGenerationChanged" THEN Result(m, "Unhealthy")
      ELSE IF fault # "None" THEN Latched(m, fault, sample)
      ELSE IF progress >= RecoverySamples
      THEN Result(Snapshot([m EXCEPT !.fault = "None", !.progress = 0,
                                     !.lastAccepted = sample,
                                     !.recoveryLast = NoSample], at),
                  "Recovered")
      ELSE Result([m EXCEPT !.progress = progress, !.recoveryLast = sample],
                  "Recovering")

(* Mutant of Observe: a delayed sample is taken for a fresh one. *)
ObserveAnyDelay(m, gen, sample, at) ==
  IF gen # m.gen
  THEN Latched(m, "ProcessGenerationChanged", NoSample)
  ELSE IF at < sample.mono
  THEN Latched(m, "TimelineRegressed", NoSample)
  ELSE IF Healthy(m)
  THEN ObserveHealthy(m, sample, at)
  ELSE ObserveUnhealthy(m, sample, at)

(* observe: one sample of process generation gen, looked at at time at. *)
Observe(m, gen, sample, at) ==
  IF gen # m.gen
  THEN Latched(m, "ProcessGenerationChanged", NoSample)
  ELSE IF at < sample.mono
  THEN Latched(m, "TimelineRegressed", NoSample)
  ELSE IF at - sample.mono > MaxSamplingDelay
  THEN Latched(m, "SamplingDelayed", NoSample)
  ELSE IF Healthy(m)
  THEN ObserveHealthy(m, sample, at)
  ELSE ObserveUnhealthy(m, sample, at)

(* A window as the gate sees it: its slot start and its capture mapping. *)
Window == [slot : Nat, mono : Nat]

(* align_window: the fault of a window against the accepted mapping. *)
AlignWindow(m, window) ==
  LET predicted == m.lastAccepted.mono + window.slot - m.lastAccepted.utc
  IN  IF predicted < 0 THEN "ArithmeticOverflow"
      ELSE IF Abs(window.mono - predicted) > JumpTolerance
      THEN "WindowMisaligned"
      ELSE "None"

(* gate, for a complete window: the monitor after it ... *)
Gate(m, window, at) ==
  LET seen  == Snapshot(m, at)
      fault == AlignWindow(seen, window)
  IN  IF Healthy(seen) /\ fault # "None"
      THEN Latch(seen, fault, NoSample)
      ELSE seen

(* ... and whether the window is WindowReady rather than WindowRejected. *)
GateReady(m, window, at) == Healthy(Gate(m, window, at))
=============================================================================
