----------------------------- MODULE RigSession -----------------------------
(***************************************************************************)
(* Reading a radio through the read-only rig port: the contract values of  *)
(* crates/operations/src/rig.rs (reports, observations, freshness, profile *)
(* validation) and the port the repository has, FakeReadOnlyRig of         *)
(* crates/testkit/src/lib.rs, whose adapter is a bounded script of results.*)
(* A client connects, probes, validates and reads while the virtual clock  *)
(* advances and jumps under it.                                            *)
(*                                                                         *)
(* A second client of the same clock plans slots on it and watches it with *)
(* the clock monitor (SlotTime).  The two share nothing but the clock,     *)
(* which neither writes, so a behaviour follows one of them: focus.        *)
(*                                                                         *)
(* An observation's fields are left out: the port and fresh_at look at its *)
(* generation, profile revision and timestamp only.  Connecting and        *)
(* Probing last for the length of one call and are never seen.             *)
(***************************************************************************)
EXTENDS SlotTime, Sequences, SequencesExt

CONSTANTS
  Generations,      \* connection generations the adapter hands out
  Profiles,         \* arguments of RigProfile::new, valid or not
  EvidenceLists,    \* evidence an adapter puts in a report
  Requirements,     \* lists of capabilities a client requires
  AdapterFaults,    \* faults the adapter reports
  Origins,          \* monotonic origins of processes, relative to this one
  MaxAge,           \* max_age_millis of the freshness policy
  MaxDivergence,    \* max_timing_divergence_millis
  MaxCapabilities,  \* MAX_RIG_CAPABILITIES
  MaxSteps,         \* MAX_FAKE_RIG_STEPS
  Starts,           \* initial samples of the virtual clock
  Strides,          \* arguments of advance
  Jumps,            \* arguments of jump_utc
  MaxMoves,         \* bound on clock moves, per focus
  MaxCalls,         \* bound on calls that reach the adapter
  MaxObserved,      \* bound on samples the monitor accepts after a plan
  None              \* Option::None, and nothing yet

(* What an adapter knows of a capability. *)
CapabilityStatus ==
  {"BackendClaimed", "RuntimeProbed", "PhysicallyVerified", "StaleOrUnverified",
   "Unsupported", "Unavailable"}

(* The arguments are of their Rust types; no record is Option::None.       *)
ASSUME RigAssumption ==
  /\ MaxAge \in Nat \ {0}
  /\ {MaxDivergence, MaxCapabilities, MaxSteps, MaxObserved} \subseteq Nat
  /\ Starts \subseteq ClockSample /\ Strides \subseteq Nat
  /\ Jumps \subseteq Int /\ Origins \subseteq Int
  /\ \A list \in Requirements : list \in Seq(ToSet(list))
  /\ \A list \in EvidenceLists :
       list \in Seq(ToSet(list)) /\ \A item \in ToSet(list) : item.status \in CapabilityStatus
  /\ None \notin [generation : Generations, revision : {p.revision : p \in Profiles},
                  probed : BOOLEAN]

VARIABLES
  focus,      \* which client of the clock this behaviour follows
  clock,      \* the virtual clock's sample
  moves,      \* clock moves so far
  script,     \* steps: results the adapter will give
  lifecycle,  \* what lifecycle() shows
  revision,   \* profile_revision_id of the last successful connect
  calls,      \* calls that reached the adapter so far
  answer,     \* result of the call just made
  report,     \* the client's last capability report
  proved,     \* history: what the client's results say of the connection
  monitor,    \* the planner's ClockMonitor
  plan,       \* the planner's slot and deadline
  observed    \* samples the monitor accepted since the plan

rigVars == <<script, lifecycle, revision, calls, report, proved>>
planVars == <<monitor, plan, observed>>
sessionVars == <<focus, clock, moves, answer, rigVars, planVars>>

-----------------------------------------------------------------------------
(* Contract values. *)

(* Two different endpoints, and a managed service on a loopback literal.   *)
RigProfileNew(profile) ==
  CASE profile.downstream.text = profile.service.text -> Err("EndpointRolesConflict")
    [] /\ profile.downstream.text # profile.service.text
       /\ profile.mode = "Managed" /\ ~profile.service.loopback -> Err("ManagedServiceNotLoopback")
    [] OTHER -> Ok(profile)

(* Mutant: several pieces of evidence on one capability are accepted.      *)
CapabilityReportNewRepeats(generation, evidence) ==
  IF Len(evidence) > MaxCapabilities
  THEN Err("InvalidCapabilitySet")
  ELSE Ok([generation |-> generation, evidence |-> evidence])

CapabilityReportNew(generation, evidence) ==
  IF Len(evidence) > MaxCapabilities \/ ~IsInjective([i \in DOMAIN evidence |-> evidence[i].capability])
  THEN Err("InvalidCapabilitySet")
  ELSE Ok([generation |-> generation, evidence |-> evidence])

(* The status of the first piece of evidence on a capability.              *)
Status(rep, capability) ==
  LET found == {i \in 1..Len(rep.evidence) : rep.evidence[i].capability = capability}
  IN IF found = {} THEN "StaleOrUnverified" ELSE rep.evidence[Min(found)].status

Disposition(status) ==
  CASE status \in {"RuntimeProbed", "PhysicallyVerified"} -> "Satisfied"
    [] status \in {"BackendClaimed", "StaleOrUnverified"} -> "Unverified"
    [] status \in {"Unsupported", "Unavailable"} -> "Failed"

ValidateProfileCapabilities(required, rep) ==
  IF Len(required) > MaxCapabilities \/ ~IsInjective(required)
  THEN Err("InvalidCapabilitySet")
  ELSE Ok([i \in 1..Len(required) |->
             [capability |-> required[i], disposition |-> Disposition(Status(rep, required[i]))]])

IsSatisfied(findings) == \A i \in 1..Len(findings) : findings[i].disposition = "Satisfied"

(* Mutant: the UTC age decides what is stale.                              *)
FreshAtByUtc(observation, now) ==
  LET utcAge       == now.utc - observation.observedAt.utc
      monotonicAge == now.monotonic - observation.observedAt.monotonic
  IN CASE monotonicAge < 0 \/ utcAge < 0 -> Err("TimelineRegressed")
       [] monotonicAge >= 0 /\ utcAge >= 0
          /\ AbsDiff(utcAge, monotonicAge) > MaxDivergence -> Err("ContradictoryTiming")
       [] monotonicAge >= 0 /\ utcAge >= 0 /\ AbsDiff(utcAge, monotonicAge) <= MaxDivergence
          /\ utcAge > MaxAge -> Err("Stale")
       [] OTHER -> Ok(monotonicAge)

FreshAt(observation, now) ==
  LET utcAge       == now.utc - observation.observedAt.utc
      monotonicAge == now.monotonic - observation.observedAt.monotonic
  IN CASE monotonicAge < 0 \/ utcAge < 0 -> Err("TimelineRegressed")
       [] monotonicAge >= 0 /\ utcAge >= 0
          /\ AbsDiff(utcAge, monotonicAge) > MaxDivergence -> Err("ContradictoryTiming")
       [] monotonicAge >= 0 /\ utcAge >= 0 /\ AbsDiff(utcAge, monotonicAge) <= MaxDivergence
          /\ monotonicAge > MaxAge -> Err("Stale")
       [] OTHER -> Ok(monotonicAge)

(* RigFault::kind. *)
Kind(fault) ==
  CASE fault \in {"ContradictoryTiming", "ContradictoryReadback"} -> "Contradictory"
    [] fault = "MalformedResponse" -> "Malformed"
    [] OTHER -> fault

-----------------------------------------------------------------------------
(* The lifecycle. *)

Disconnected == [state |-> "Disconnected", generation |-> None]
Connected(generation) == [state |-> "Connected", generation |-> generation]
Ready(generation) == [state |-> "Ready", generation |-> generation]
Faulted(generation, fault) ==
  [state |-> "Faulted", generation |-> generation, fault |-> Kind(fault)]

(* Every state carries a generation or None, as current_generation says.   *)
CurrentGeneration == lifecycle.generation

Fail(generation, fault) ==
  /\ lifecycle' = Faulted(generation, fault)
  /\ proved' = None
  /\ answer' = Err(fault)

(* What the adapter gives for a call: its next step is consumed even when  *)
(* it belongs to another call, and an empty script consumes nothing.       *)
Next1(operation) ==
  IF script # <<>> /\ Head(script).operation = operation
  THEN Head(script).result
  ELSE Err("MalformedResponse")

Pop == script' = IF script = <<>> THEN script ELSE Tail(script)

-----------------------------------------------------------------------------
(* Scripting the adapter. *)

Push(operation, result) ==
  /\ focus = "rig"
  /\ Len(script) < MaxSteps
  /\ script' = Append(script, [operation |-> operation, result |-> result])
  /\ answer' = None
  /\ UNCHANGED <<focus, clock, moves, lifecycle, revision, calls, report, proved, planVars>>

Reports ==
  {built.value : built \in
     {result \in {CapabilityReportNew(g, list) : g \in Generations, list \in EvidenceLists} :
        IsOk(result)}}

(* An observation taken now, stamped by this process's clock or by that of *)
(* another process, whose monotonic origin differs.  taken is history.     *)
Observations ==
  {[generation |-> g, profile |-> p.revision, taken |-> clock,
    observedAt |-> [clock EXCEPT !.monotonic = @ + origin]] :
       g \in Generations, p \in Profiles, origin \in {o \in Origins : clock.monotonic + o >= 0}}

QueueConnect == \E g \in Generations : Push("Connect", Ok(g))
QueueProbe == \E r \in Reports : Push("Probe", Ok(r))
QueueRead == \E o \in Observations : Push("Read", Ok(o))
QueueFault ==
  \E operation \in {"Connect", "Probe", "Read"}, fault \in AdapterFaults :
    Push(operation, Err(fault))

-----------------------------------------------------------------------------
(* Calls of the port. *)

Call ==
  /\ focus = "rig" /\ calls < MaxCalls /\ calls' = calls + 1
  /\ UNCHANGED <<focus, clock, moves, planVars>>

(* A call that does not reach the adapter changes nothing. *)
Answer(result) ==
  /\ focus = "rig" /\ answer' = result
  /\ UNCHANGED <<focus, clock, moves, rigVars, planVars>>

Connect(profile) ==
  LET result == Next1("Connect")
  IN /\ Call
     /\ IsOk(RigProfileNew(profile))
     /\ Pop
     /\ UNCHANGED report
     /\ \/ /\ IsOk(result)
           /\ revision' = profile.revision
           /\ lifecycle' = Connected(result.value)
           /\ proved' = [generation |-> result.value, revision |-> profile.revision,
                         probed |-> FALSE]
           /\ answer' = result
        \/ /\ ~IsOk(result)
           /\ Fail(None, result.error)
           /\ UNCHANGED revision

ProbeRefused ==
  /\ lifecycle.state # "Connected"
  /\ Answer(Err("NotConnected"))

Probe ==
  LET result  == Next1("Probe")
      current == CurrentGeneration
  IN /\ Call
     /\ lifecycle.state = "Connected"
     /\ Pop
     /\ UNCHANGED revision
     /\ \/ /\ IsOk(result) /\ result.value.generation = current
           /\ lifecycle' = Ready(current)
           /\ report' = result.value
           /\ proved' = [proved EXCEPT !.probed = TRUE]
           /\ answer' = result
        \/ /\ IsOk(result) /\ result.value.generation # current
           /\ Fail(current, "GenerationChanged")
           /\ UNCHANGED report
        \/ /\ ~IsOk(result)
           /\ Fail(current, result.error)
           /\ UNCHANGED report

ReadRefused ==
  /\ lifecycle.state # "Ready"
  /\ Answer(Err(IF CurrentGeneration # None THEN "NotProbed" ELSE "NotConnected"))

(* What read makes of the adapter's result. *)
ReadResult ==
  LET result == Next1("Read")
  IN CASE ~IsOk(result) -> result
       [] IsOk(result) /\ result.value.generation # CurrentGeneration -> Err("GenerationChanged")
       [] IsOk(result) /\ result.value.generation = CurrentGeneration
          /\ result.value.profile # revision -> Err("ContradictoryReadback")
       [] OTHER -> result

Delivered(observation, fresh) ==
  [tag |-> "Delivered", observation |-> observation, at |-> clock, fresh |-> fresh]

Read ==
  /\ Call
  /\ lifecycle.state = "Ready"
  /\ Pop
  /\ UNCHANGED <<revision, report>>
  /\ \/ /\ IsOk(ReadResult)
        /\ answer' = Delivered(ReadResult.value, FALSE)
        /\ UNCHANGED <<lifecycle, proved>>
     \/ /\ ~IsOk(ReadResult)
        /\ Fail(CurrentGeneration, ReadResult.error)

(* Mutant: a stale observation is refused but the port stays ready.        *)
ReadFreshStaysReady ==
  /\ Call
  /\ lifecycle.state = "Ready"
  /\ Pop
  /\ UNCHANGED <<revision, report>>
  /\ \/ /\ IsOk(ReadResult) /\ IsOk(FreshAt(ReadResult.value, clock))
        /\ answer' = Delivered(ReadResult.value, TRUE)
        /\ UNCHANGED <<lifecycle, proved>>
     \/ /\ IsOk(ReadResult) /\ ~IsOk(FreshAt(ReadResult.value, clock))
        /\ answer' = FreshAt(ReadResult.value, clock)
        /\ proved' = None
        /\ UNCHANGED lifecycle
     \/ /\ ~IsOk(ReadResult)
        /\ Fail(CurrentGeneration, ReadResult.error)

ReadFresh ==
  /\ Call
  /\ lifecycle.state = "Ready"
  /\ Pop
  /\ UNCHANGED <<revision, report>>
  /\ \/ /\ IsOk(ReadResult) /\ IsOk(FreshAt(ReadResult.value, clock))
        /\ answer' = Delivered(ReadResult.value, TRUE)
        /\ UNCHANGED <<lifecycle, proved>>
     \/ /\ IsOk(ReadResult) /\ ~IsOk(FreshAt(ReadResult.value, clock))
        /\ Fail(CurrentGeneration, FreshAt(ReadResult.value, clock).error)
     \/ /\ ~IsOk(ReadResult)
        /\ Fail(CurrentGeneration, ReadResult.error)

(* The client judges the report it holds, however old, for its profile.    *)
Validate(required) ==
  /\ report # None
  /\ Answer(ValidateProfileCapabilities(required, report))

-----------------------------------------------------------------------------
(* Time, and the planner. *)

MoveClock(sample) ==
  /\ moves < MaxMoves[focus]
  /\ clock' = sample /\ moves' = moves + 1
  /\ answer' = None
  /\ UNCHANGED <<focus, rigVars, planVars>>

AdvanceClock == \E millis \in Strides : MoveClock(Advance(clock, millis))
JumpClock == \E delta \in Jumps : MoveClock(JumpUtc(clock, delta))

(* The planner takes a sample, has the monitor judge it, and schedules on  *)
(* it while the monitor is healthy.                                        *)
PlanSlot(mode) ==
  /\ focus = "plan" /\ plan = None
  /\ monitor' = MonitorObserve(monitor, clock)
  /\ monitor'.health = "Healthy" /\ IsOk(NextSlot(clock, mode))
  /\ plan' = [slot |-> NextSlot(clock, mode).value.slot,
              deadline |-> NextSlot(clock, mode).value.deadline, at |-> clock]
  /\ answer' = None
  /\ UNCHANGED <<focus, clock, moves, observed, rigVars>>

ObserveClock ==
  /\ focus = "plan" /\ observed < MaxObserved
  /\ monitor' = MonitorObserve(monitor, clock)
  /\ observed' = IF plan # None /\ monitor'.health = "Healthy" THEN observed + 1 ELSE observed
  /\ answer' = None
  /\ UNCHANGED <<focus, clock, moves, plan, rigVars>>

SessionInit ==
  /\ focus \in {"rig", "plan"}
  /\ clock \in Starts /\ moves = 0
  /\ script = <<>> /\ lifecycle = Disconnected /\ revision = None
  /\ calls = 0 /\ answer = None /\ report = None /\ proved = None
  /\ monitor = MonitorNew(clock) /\ plan = None /\ observed = 0

SessionNext ==
  \/ QueueConnect \/ QueueProbe \/ QueueRead \/ QueueFault
  \/ \E profile \in Profiles : Connect(profile)
  \/ ProbeRefused \/ Probe \/ ReadRefused \/ Read \/ ReadFresh
  \/ \E required \in Requirements : Validate(required)
  \/ AdvanceClock \/ JumpClock
  \/ \E mode \in Modes : PlanSlot(mode)
  \/ ObserveClock

SessionSpec == SessionInit /\ [][SessionNext]_sessionVars

-----------------------------------------------------------------------------
(* Properties. *)

(* Every variable has its type; the script keeps to MAX_FAKE_RIG_STEPS. *)
SessionTypeOK ==
  /\ focus \in {"rig", "plan"}
  /\ clock \in ClockSample
  /\ Len(script) <= MaxSteps
  /\ lifecycle.state \in {"Disconnected", "Connected", "Ready", "Faulted"}
  /\ monitor.health \in {"Healthy", "WallClockJump", "TimelineRegressed"}
  /\ observed \in 0..MaxObserved

Delivering == answer # None /\ answer.tag = "Delivered"

(***************************************************************************)
(* What read_fresh delivers (testkit read_fresh, rig.rs fresh_at) is       *)
(* recent.  Stamped by this process, it was taken at most MaxAge ago, no   *)
(* matter how UTC jumped.  Nothing compares the service instance of an     *)
(* observation, so its monotonic reading may be of another origin: it is   *)
(* then still at most MaxAge + MaxDivergence old, and older only by what   *)
(* UTC itself was moved in between.                                        *)
(***************************************************************************)
FreshIsRecent ==
  Delivering /\ answer.fresh =>
    LET observation == answer.observation
        at          == answer.at
        age         == at.monotonic - observation.taken.monotonic
        moved       == AbsDiff(at.utc - at.monotonic,
                               observation.taken.utc - observation.taken.monotonic)
    IN /\ observation.observedAt = observation.taken => age <= MaxAge
       /\ age <= MaxAge + MaxDivergence + moved

(***************************************************************************)
(* An observation reaches the client (testkit read and read_fresh) only    *)
(* over a connection whose connect and probe the client saw succeed, with  *)
(* no failed call since, and it carries that connection's generation and   *)
(* the profile revision of that connect: "Faulted" retains no verified     *)
(* state (rig.rs RigLifecycleState).                                       *)
(***************************************************************************)
ReadsAreProved ==
  Delivering =>
    /\ proved # None
    /\ proved.probed
    /\ answer.observation.generation = proved.generation
    /\ answer.observation.profile = proved.revision

(***************************************************************************)
(* Whatever order an adapter reports its evidence in, no requirement that  *)
(* is_satisfied accepts (rig.rs validate_profile_capabilities) has weaker  *)
(* evidence anywhere in the report it was judged by.                       *)
(***************************************************************************)
SatisfiedIsProbed ==
  report # None =>
    \A required \in Requirements :
      LET verdict == ValidateProfileCapabilities(required, report)
      IN IsOk(verdict) /\ IsSatisfied(verdict.value) =>
           \A i \in 1..Len(required) :
             LET statuses == {item.status : item \in
                                {e \in ToSet(report.evidence) : e.capability = required[i]}}
             IN statuses # {} /\ statuses \subseteq {"RuntimeProbed", "PhysicallyVerified"}

(***************************************************************************)
(* A monotonic deadline keeps its UTC slot while the monitor stays healthy *)
(* (time.rs next_slot, observe): the slot planned is the one after the     *)
(* sample's own, and after n accepted samples the deadline and the slot's  *)
(* start are at most n tolerances apart on the sampled clock, in either    *)
(* direction.  Drift below the tolerance does add up sample by sample.     *)
(* The monitor caps a monotonic difference at the largest UTC value, so    *)
(* this is promised up to monotonic readings of that size.                 *)
(***************************************************************************)
DeadlineKeepsSlot ==
  plan # None =>
    /\ plan.slot.start = CurrentSlot(plan.at, plan.slot.mode).value.start
                           + SlotMillis[plan.slot.mode]
    /\ monitor.health = "Healthy" /\ monitor.last.monotonic <= MaxUtc =>
         LET last == monitor.last
             slack == observed * Tolerance
         IN /\ AbsDiff(last.utc - plan.slot.start, last.monotonic - plan.deadline) <= slack
            /\ IsExpiredAt(plan.deadline, last.monotonic) => last.utc + slack >= plan.slot.start
            /\ ~IsExpiredAt(plan.deadline, last.monotonic) => last.utc < plan.slot.start + slack
=============================================================================
