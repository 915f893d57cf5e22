------------------------------ MODULE SlotTime ------------------------------
(***************************************************************************)
(* The time arithmetic of crates/operations/src/time.rs and the slots of   *)
(* crates/domain/src/radio.rs: paired UTC/monotonic samples, deadlines,    *)
(* slots, the virtual clock and the latching clock monitor, as operators.  *)
(* A tick stands for a millisecond; the widths of i64 and u64 are the      *)
(* constants MaxUtc and MaxMonotonic, so overflow is met in small models.  *)
(***************************************************************************)
EXTENDS Integers, FiniteSetsExt

CONSTANTS
  MaxUtc,        \* i64::MAX, the last UTC instant
  MaxMonotonic,  \* u64::MAX, the last monotonic instant
  SlotMillis,    \* OperatingMode::slot_millis, a function on the modes
  Tolerance      \* tolerance_millis of the clock monitor

Modes == DOMAIN SlotMillis

ASSUME TimeAssumption ==
  /\ MaxUtc \in Nat /\ MaxMonotonic \in Nat /\ Tolerance \in Nat
  /\ \A mode \in Modes : SlotMillis[mode] \in Nat \ {0}

ClockSample == [utc : 0..MaxUtc, monotonic : 0..MaxMonotonic]

Ok(value) == [tag |-> "Ok", value |-> value]
Err(error) == [tag |-> "Err", error |-> error]
IsOk(result) == result.tag = "Ok"

AbsDiff(a, b) == IF a >= b THEN a - b ELSE b - a

-----------------------------------------------------------------------------
(* Deadlines and slots. *)

DeadlineFor(sample, target) ==
  LET delta == target - sample.utc
  IN CASE delta < 0 -> Err("MissedDeadline")
       [] delta >= 0 /\ sample.monotonic + delta > MaxMonotonic -> Err("ArithmeticOverflow")
       [] OTHER -> Ok(sample.monotonic + delta)

IsExpiredAt(deadline, monotonic) == monotonic >= deadline

UtcSlotNew(mode, start) ==
  IF start >= 0 /\ start % SlotMillis[mode] = 0
  THEN Ok([mode |-> mode, start |-> start])
  ELSE Err("MisalignedSlot")

(* The first slot strictly after the sample, with its deadline. *)
NextSlot(sample, mode) ==
  LET start    == ((sample.utc \div SlotMillis[mode]) + 1) * SlotMillis[mode]
      slot     == UtcSlotNew(mode, start)
      deadline == DeadlineFor(sample, start)
  IN CASE start > MaxUtc -> Err("ArithmeticOverflow")
       [] start <= MaxUtc /\ ~IsOk(slot) -> slot
       [] start <= MaxUtc /\ IsOk(slot) /\ ~IsOk(deadline) -> deadline
       [] OTHER -> Ok([slot |-> slot.value, deadline |-> deadline.value])

CurrentSlot(sample, mode) ==
  UtcSlotNew(mode, sample.utc - (sample.utc % SlotMillis[mode]))

-----------------------------------------------------------------------------
(* VirtualClock: what each operation leaves in the shared sample.          *)

(* UTC is stored before the monotonic sum is checked: when only that sum   *)
(* overflows the call fails and UTC has moved alone.                       *)
Advance(clock, millis) ==
  CASE millis > MaxUtc \/ clock.utc + millis > MaxUtc -> clock
    [] /\ clock.utc + millis <= MaxUtc
       /\ clock.monotonic + millis > MaxMonotonic -> [clock EXCEPT !.utc = @ + millis]
    [] OTHER -> [utc |-> clock.utc + millis, monotonic |-> clock.monotonic + millis]

JumpUtc(clock, delta) ==
  IF clock.utc + delta \in 0..MaxUtc THEN [clock EXCEPT !.utc = @ + delta] ELSE clock

-----------------------------------------------------------------------------
(* ClockMonitor. *)

MonitorNew(sample) == [last |-> sample, health |-> "Healthy"]

(* The sample as seen against the last accepted one. *)
Verdict(last, sample) ==
  LET utcDelta       == sample.utc - last.utc
      monotonicDelta == Min({sample.monotonic - last.monotonic, MaxUtc})
  IN CASE sample.monotonic < last.monotonic \/ utcDelta < 0 -> "TimelineRegressed"
       [] /\ sample.monotonic >= last.monotonic /\ utcDelta >= 0
          /\ AbsDiff(utcDelta, monotonicDelta) > Tolerance -> "WallClockJump"
       [] OTHER -> "Healthy"

(* Mutant: a jump is reported once, and the next agreeing sample is        *)
(* healthy again.                                                          *)
MonitorObserveUnlatched(monitor, sample) ==
  [last |-> sample, health |-> Verdict(monitor.last, sample)]

MonitorObserve(monitor, sample) ==
  LET verdict == Verdict(monitor.last, sample)
  IN CASE monitor.health # "Healthy" -> monitor
       [] monitor.health = "Healthy" /\ verdict # "Healthy" ->
            [monitor EXCEPT !.health = verdict]
       [] OTHER -> [monitor EXCEPT !.last = sample]
=============================================================================
