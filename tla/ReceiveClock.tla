---------------------------- MODULE ReceiveClock ----------------------------
(***************************************************************************)
(* The receive clock monitor (ClockMonitor) driven by an environment in    *)
(* which UTC may jump at any tick, samples may be delivered late, out of   *)
(* order, stamped after the observer's own reading, or come from another   *)
(* process generation.  The environment's true UTC-minus-monotonic offset  *)
(* at each tick is `offset`, fixed by Init: the monitor never sees it.     *)
(***************************************************************************)
EXTENDS ClockMonitor

CONSTANTS
  MaxTime,      \* bound: the last monotonic tick
  Offsets,      \* the UTC offsets the system clock may show
  Slots         \* slot starts of the windows that may be gated

ASSUME EnvironmentAssumption ==
  /\ MaxTime \in Nat
  /\ Offsets \subseteq Nat
  /\ Slots \subseteq Nat

VARIABLES
  now,      \* the current tick of the process-local monotonic clock
  offset,   \* offset[t]: the true UTC minus monotonic offset at tick t
  mon,      \* the monitor
  outcome,  \* what the last operation on the monitor returned
  streak,   \* history: consistent observations in a row while latched
  seen      \* history: the last of them, or NoSample

history == <<streak, seen>>
vars == <<now, offset, mon, outcome, history>>

Time == 0..MaxTime
OwnGeneration == 1
Generation == {OwnGeneration, 2}

(* SystemClock::sample at tick t. *)
SampleAt(t) == [utc |-> t + offset[t], mono |-> t]

(* The observer read its clock just now, or just before the sample. *)
Readings == {r \in Time : r \in {now - 1, now}}

(* Complete windows: captured up to now, for one of the slots. *)
Windows == [slot : Slots, mono : 0..now]

Transition ==
  {"Healthy", "BecameUnhealthy", "Recovering", "Recovered", "Unhealthy"}

Outcome == Transition \union {"New", "Snapshot", "Ready", "Rejected"}

(* Every variable has its type; progress stays below what recovery needs. *)
TypeOK ==
  /\ now \in Time
  /\ offset \in [Time -> Offsets]
  /\ mon \in Monitor
  /\ outcome \in Outcome
  /\ streak \in 0..RecoverySamples
  /\ seen \in Sample \union {NoSample}

Init ==
  /\ now = 0
  /\ offset \in [Time -> Offsets]
  /\ mon = NewMonitor(OwnGeneration, SampleAt(0))
  /\ outcome = "New"
  /\ streak = 0
  /\ seen = NoSample

Tick ==
  /\ now < MaxTime
  /\ now' = now + 1
  /\ UNCHANGED <<offset, mon, outcome, history>>

(* Two samples agree: time moves forward, within the gap, without a jump. *)
Agree(a, b) ==
  /\ a.mono <= b.mono /\ b.mono - a.mono <= MaxSampleGap
  /\ a.utc <= b.utc
  /\ Abs((b.utc - a.utc) - (b.mono - a.mono)) <= JumpTolerance

(* An own-generation sample that reached the monitor in time. *)
Timely(gen, sample, at) ==
  gen = OwnGeneration /\ at - sample.mono \in 0..MaxSamplingDelay

(***************************************************************************)
(* History of an observation: how many observations in a row, made while   *)
(* the monitor was latched, were timely and agreed each with the one       *)
(* before it (counted up to RecoverySamples).                              *)
(***************************************************************************)
Record(gen, sample, at) ==
  IF Healthy(mon) \/ ~Timely(gen, sample, at)
  THEN streak' = 0 /\ seen' = NoSample
  ELSE /\ streak' = IF streak = 0 \/ ~Agree(seen, sample) THEN 1
                    ELSE IF streak = RecoverySamples THEN streak
                    ELSE streak + 1
       /\ seen' = sample

(* One observe call. *)
Deliver(gen, sample, at) ==
  LET result == Observe(mon, gen, sample, at)
  IN  /\ mon' = result.mon
      /\ outcome' = result.transition
      /\ Record(gen, sample, at)
      /\ UNCHANGED <<now, offset>>

(* A sample taken at t is handed to the monitor with the reading `at`. *)
ObserveSample(t, at) == Deliver(OwnGeneration, SampleAt(t), at)

(* A sample of another process generation: its monotonic origin differs. *)
ObserveForeign(t, at) ==
  Deliver(2, [utc |-> now + offset[now], mono |-> t], at)

(* ReceiveClockDriver::poll when the cadence is due; otherwise it returns  *)
(* NotDue and changes nothing.                                             *)
DriverPoll ==
  /\ now >= NextSampleDue(mon)
  /\ Deliver(OwnGeneration, SampleAt(now), now)

TakeSnapshot ==
  /\ mon' = Snapshot(mon, now)
  /\ outcome' = "Snapshot"
  /\ UNCHANGED <<now, offset, history>>

GateWindow(window) ==
  /\ mon' = Gate(mon, window, now)
  /\ outcome' = IF GateReady(mon, window, now) THEN "Ready" ELSE "Rejected"
  /\ UNCHANGED <<now, offset, history>>

Next ==
  \/ Tick
  \/ \E t \in 0..now, at \in Readings : ObserveSample(t, at)
  \/ \E t \in 0..now, at \in Readings : ObserveForeign(t, at)
  \/ DriverPoll
  \/ TakeSnapshot
  \/ \E window \in Windows : GateWindow(window)

Spec == Init /\ [][Next]_vars

-----------------------------------------------------------------------------
(***************************************************************************)
(* A latched monitor becomes healthy only on the evidence of the last      *)
(* RecoverySamples observations, all made while it was latched, all timely *)
(* and own-generation, each agreeing with the one before (observe).        *)
(***************************************************************************)
RecoveryNeedsEvidence ==
  [][~Healthy(mon) /\ Healthy(mon)' => streak' = RecoverySamples]_vars

(***************************************************************************)
(* A window is released to the decoder only if its capture mapping agrees, *)
(* within the jump tolerance, with the offset the system clock truly had   *)
(* at some instant no older than the freshness bound (observe and gate).   *)
(***************************************************************************)
ReadyTracksTrueClock ==
  \A window \in Windows :
    GateReady(mon, window, now) =>
      \E t \in 0..now :
        /\ now - t <= Freshness
        /\ Abs((window.slot - window.mono) - offset[t]) <= JumpTolerance

(***************************************************************************)
(* The returned transition or gate result agrees with the state it leaves: *)
(* a Healthy or Recovered transition, or a ready window, never carries an  *)
(* unhealthy snapshot, although observe re-checks staleness afterwards.    *)
(***************************************************************************)
OutcomeMatchesState ==
  /\ outcome \in {"Healthy", "Recovered", "Ready"} => Healthy(mon)
  /\ outcome \in {"BecameUnhealthy", "Recovering", "Unhealthy", "Rejected"}
       => ~Healthy(mon)

(***************************************************************************)
(* The inductive invariant behind the properties above.  The accepted      *)
(* mapping was really shown by this process's clock, and the recovery      *)
(* progress never exceeds the history's streak of consistent observations. *)
(***************************************************************************)
AcceptedIsGenuine ==
  /\ mon.gen = OwnGeneration
  /\ \E t \in 0..now : mon.lastAccepted = SampleAt(t)

ProgressIsEarned ==
  /\ mon.progress = 0 <=> mon.recoveryLast = NoSample
  /\ mon.fault \in {"None", "ProcessGenerationChanged"} => mon.progress = 0
  /\ mon.progress <= streak
  /\ mon.progress > 0 => seen = mon.recoveryLast

IInv == TypeOK /\ AcceptedIsGenuine /\ ProgressIsEarned /\ OutcomeMatchesState
=============================================================================
