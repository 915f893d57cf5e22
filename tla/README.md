# slotpilot: TLA+ models, model checking and proofs

slotpilot is an FT8 receive daemon: it captures audio, cuts it into slot-aligned
windows, decodes them, stores the evidence and serves it over a local API. This
directory models the parts of it that keep state: the capture queue between the
native audio callback and the worker, the receive timeline and clock monitor, the
live receive coordinator, the message codec, the durable stores and event history,
the command processors with their request journal, the local endpoint, the spectrum,
and the read-only rig port with the time arithmetic. `PROJECT.json` maps every definition to the lines it
stands for. Paths below are relative to `src/`.

To check a run: `tlc -config MCAudio.cfg MCAudio`. To check the
proofs: `tlapm ClockProofs.tla`, and the same for the other `*Proofs` modules.

## The system

```
 native audio thread          worker (daemon)                               clients
 ------------------    ---------------------------------------------   -----------------
 callback --ready-->   LiveReceiveCoordinator.poll                      API over a socket
          <--free---     next_fault, health, clock snapshot                  |
 error    --faults->     next_batch -> backlog                        ReceiveApiProcessor
 callback  terminal      Ft8ReceiveTimeline.push -> window               request journal
                         ReceiveClockMonitor.gate -> decoder          EventService.subscribe
                         record_receive (+ public event) ----- SQLite ------ events
                         SpectrumModel.push -> snapshot
```

| Component | State | Operations | What is hard, and what makes it correct |
|---|---|---|---|
| Capture queue (`crates/audio/src/capture.rs`) | free, ready and diagnostics queues of fixed capacity; stop flag, terminal code, reported flag, overflow counter | audio callback, error callback, `next_batch`, `next_fault`, `stop`, drop | three threads on lock-free state: buffers are conserved, every lost frame is in the next batch's mark, a stopped stream has a reason that reaches the worker |
| Receive timeline (`crates/audio/src/timeline.rs`) | expected position, anchor, resampler, slot accumulator, counters | `push` | late, repeated, lost and re-timed input: a published window is exactly its slot's consecutive audio |
| Clock monitor (`crates/operations/src/receive_clock.rs`) | accepted mapping, latched fault, recovery progress | `observe`, `snapshot`, `gate`, driver `poll` | wall clock steps, delayed and foreign samples: only windows that agree with the true clock pass, recovery needs consistent evidence |
| Coordinator (`apps/daemon/src/receive.rs`) | lifecycle state, last generation, input, timeline, monitor, backlog | `start`, `observe_clock`, `poll`, `stop` | callbacks between the steps of `poll`, failures after part of the work, crashes: whole windows only, no stream or backlog survives its generation |
| Spectrum (`crates/audio/src/spectrum.rs`) | pending samples, retained rows, reset reason, publication token | `reset`, `push`, `take_snapshot` | overlap, slot boundaries and resets: rows are whole and continuous, a reset is marked, a push is bounded |
| Event history (`crates/storage/src/lib.rs`, `apps/daemon/src/lib.rs`) | event rows, AUTOINCREMENT mark, service instance | append, prune, `replay_events`, `subscribe` | retention, restarts and lost answers: no event is skipped unannounced, and none of another instance is shown |
| Receive store (`crates/storage/src/receive.rs`) | windows, decodes, events | `record_receive`, `record_receive_with_event`, `receive_page`, retention | retries in every order with retention: rows are distinct and published, events name their row, pages miss nothing; a record survives its columns unchanged |
| Request journal and processors (`apps/daemon/src/receive_api.rs`, `apps/daemon/src/lib.rs`, `crates/api/src/lib.rs`) | accepted commands, the port with its result cache | `execute` with its version gate and bounds, `execute_read_only`, `execute_mutating`, `accept_or_existing`, `NoopService` | lookup, effect and journal are three steps: one effect per request, one answer in every API version |
| Local IPC (`crates/ipc/src/lib.rs`) | lock file, socket file, one exchange | `bind`, drop, `serve_exchange`, `exchange`, cancel | daemons that crash, start and stop around each other: the socket file leads to the live server; clients that break off: the next one is served; a response that cannot be sent after the handler ran |
| Message codec and decoder (`crates/protocol/src/offline_adapter.rs`) | none (the set of known calls) | `encode`, `decode_bits`, `synthesize`, `decode` | a library that may drop an affix or read RR73 two ways, candidates in any order: what is sent is what is heard, and a window's results do not depend on that order |
| Rig port (`crates/operations/src/rig.rs`, `crates/testkit/src/lib.rs`, `crates/domain/src/rig.rs`) | lifecycle, profile revision, scripted results | `connect`, `probe`, `read`, `read_fresh`, `validate_profile_capabilities` | faults after success, foreign results, clocks that jump: what is delivered is recent and proved by its own connection |
| Time (`crates/operations/src/time.rs`, `crates/domain/src/radio.rs`) | virtual clock, monitor's last sample and latched fault | `advance`, `jump_utc`, `next_slot`, `current_slot`, `observe` | overflow half way through a move, drift below the tolerance: a deadline keeps its slot |
| WAV files, other domain values, device maps, CLI | none | parsing, conversion, printing | numeric and textual, without a state machine |

The list of hazards, at their lines and with the properties that would catch them,
is in `PROJECT.json` under `hazards`.

## Modules

Definitions keep the source's names. A module's Mutant definitions are the
plausible bugs that show each property can fail; nothing else uses them.

**ClockMonitor, ReceiveClock.** `ClockMonitor` is the monitor
as operators on a record: `Compare`, `Latch`, `Snapshot`, `Observe`, `AlignWindow`,
`Gate`, with the guards of `ReceiveClockConfig::new` as `ConfigAssumption`.
`ReceiveClock` puts it in an environment: a monotonic clock (`now`), the true UTC
offset at each tick (`offset`, chosen freely from `Offsets`: a jump is a change
between ticks), samples that are delivered at any later tick, in any order, or from
another process generation, and windows at any alignment. `streak` and `seen` are
history: the consistent evidence collected since the last fault.

**CaptureQueue, CaptureQueueProofs.** One action per access to shared state, so all
interleavings of the audio callback (`cb`), the backend error callback (`err`) and
the worker (`wk`) are covered. A callback of n frames is cut in chunks of
`MaxBatchFrames`; a chunk without a free buffer is dropped and counted. Atomics are
taken as sequentially consistent; the acquire/release pairs the code uses order the
accesses the properties depend on (code before flag). A sample is a frame number.

**ReceiveTimeline.** `push` with its checks in the order of the code, the rational
resampler and the accumulator. A push that passes its checks runs frame by frame and
output tick by output tick (`OutputTick`, `FrameDone`, `PushReturns`); nothing else
happens between these steps, they are separate so that each can be reasoned about. An output sample is the pair of source frames it is
interpolated from, so a splice is visible. The environment is the device: frames in
order with jitter and delay, lost frames, repeated frames, another stream's batch,
UTC steps. The stream's monotonic origin may differ from the process's (`origin`),
as it does in `capture.rs`.

**ReceiveLifecycle, ReceiveCoordinator.** `ReceiveLifecycle` is the promise of
`docs/live-receive.md`: phases, a fresh generation for each start attempt, windows
published only while receiving and in slot order, `Inhibited` left only by stop or
a restart, and a start that clock setup failed left by a restart only. `ReceiveCoordinator` is the code: `start`, `stop`, `observe_clock`,
`inhibit`, and `poll` split into its looks at the input (fault, health, clock, fill,
process, record), because the callbacks run beside it. A unit of audio is a batch,
a slot `SlotUnits` of them; the timeline's and monitor's verdicts are inputs here,
their full behaviour being in their own modules. Whether the monitor accepts the
process's clock configuration (`clockConfig`) is chosen with the process, for nothing
looks at it before `start` has opened the input. What is done with a whole window
(`Treatment`) may succeed, inhibit, or end `poll` with an error that drops the window
and leaves receive running. The last module-level definition
maps it onto `ReceiveLifecycle` (`INSTANCE ... WITH`).

**EventHistory.** Rows, the two statements of `replay_events`, `subscribe`'s
decisions, retention, restarts as new service instances, and a client that follows
pages as `docs/cli-api.md` describes. The daemon's stores are separate connections to
one file, so a commit may fall between the two statements: it tears the call (`torn`),
and the history variable `slipped` collects the events that the page of a torn call
moved the client past. A gap names the first retained event, and a cursor the last
event observed; so the client continues just before it, unless it is a `literal` one,
which takes `earliest_available` for the cursor its type says it is. Both kinds are
followed.

**ReceiveStore.** The two transactions of `record_receive` and
`record_receive_with_event_builder`, an upgrade from the first to the second, and
the two retentions, with a reader that follows `receive_page`. A record is its
identity, its unique context and its body. A page is one step, although each record is
read by a statement of its own: the statement that lists the sequences stays open until
the last of them is read, on the same connection, and SQLite serves all statements that
overlap from one snapshot. The error `receive_page` has for a sequence that disappears
cannot be caused by another connection therefore. What is read before, in a statement
that is over, is the oldest and newest sequence that the page reports; no cursor depends
on them and they are left out. `replay_events` decides by such bounds, and there the two
statements are two steps.

**Ft8Codec.** The codec as operators: `Packed` and `Encode` with its round trip,
`ClassifyBits`, `Synthesize`, `Merged` and `DecodeWindow`. Sorting is said by rank (in
place n stands what n - 1 others come before), so that it can be reasoned about without
recursion. A text is a sequence of words,
the 77 bits are the fields the adapter reads. The library's packing is external: a
standard call is packed as it is, of any other call the library may pack the hash or
quietly the call without its affixes, and the adapter's checks must hold for either.
Which calls the decoder can resolve (`Known`) and which words are grids and reports are
constants. Metadata comes in halves of a unit, so that rounding is a step of the model.

**ReceiveColumns.** One window on its way from a message that is sent (`Transmit`), over
the decoder (`Decode`, `DecodeRefused`), into the tables and back: the checks of
`ReceiveRecord::new`, the columns, the CHECK constraints of the migration, the
reconstruction, a retry that compares, and the summary that is published with the row
(`MapReceiveRecord`). A behaviour may start at any of these stages. It is a transducer
rather than a protocol, so its run enumerates messages, buffers, arguments and rows at
and past every bound instead of interleavings. Code words are written out in both directions, as in the source.
Fields that the code treats alike share one field of the model (its header says which).

**LocalEndpoint, LocalEndpointProofs.** `bind` and the drop of a server as their
system calls, so that a crash, a failure or another daemon can come between any two;
`serve_exchange` as its blocking points; clients that send whole, broken or no frames
and leave when they like. External behaviour, from the operating system and the
socket library: a dead process loses its lock and its connections and leaves its
socket file, and a dropped listener removes the file at its path.

**ApiService, CommandJournal.** `ApiService` is what the processors answer without the
journal: the version gate, the bounds, negotiation, `NoopService` and the read-only
commands. `CommandJournal` has lookup, apply and journal as three steps of a processor; a port
that is idempotent per request within a process, as `ReceiveApiPort` demands; a
second processor on the same file; responses that are lost, storage that fails, a
daemon that dies between any two steps.

**Spectrum.** `push` row by row; a sample is its place (generation, slot, offset).
Generations count the streams of all processes; `ProcessOf` says whose each is.

**SlotTime, RigSession.** `SlotTime` is the arithmetic of `time.rs` and `UtcSlot` as
operators, with the widths of `i64` and `u64` as constants, so that every overflow is
met. `RigSession` has the contract values of `rig.rs` and the one port the repository
has, `FakeReadOnlyRig`, with its script of results as the adapter: `connect`, `probe`,
`read` and `read_fresh` in any order, answers of other generations, calls and process
origins, faults, while the virtual clock advances (`advance` may move UTC and then fail)
and jumps. A second client plans slots on that clock and watches it with the monitor;
the two share nothing but the clock, so a behaviour follows one of them (`focus`).

**AudioProofs, ClockProofs** hold the proofs of `Spectrum` and `ReceiveTimeline`, and of
`ReceiveClock` and `RigSession`; the other `*Proofs` modules are named for their model.

The `MC*` modules fix the constants the `.cfg` files give. `MCAudio`, `MCOperations` and
`MCReceivePath` put the components of a crate, or of the receive path, side by side: a
variable `part` names the one that a behaviour is about, the others rest in an initial
state of theirs. The components share no variable (they meet in `ReceiveCoordinator`,
by their verdicts), so an interleaving of them shows nothing that each alone does not,
and their states add up instead of multiplying. Fairness is of the part's own actions.

## Runs

| Run | Part | What it checks | Bounds, and why they are enough |
|---|---|---|---|
| `audio` | `CaptureQueue` | `BuffersConserved`, `StreamAccounted`, `StopHasReason`, and `TerminalIsReported` under fairness | two buffers of one frame, callbacks of up to two frames, four frames in all: a callback is split, a chunk is dropped in the middle of a callback, and a batch follows the gap; one backend error, of another kind than the callback's own. The proofs remove the bounds for the first three |
|  | `ReceiveTimeline` | `WindowsAreWhole`, `SlotsAreAccounted`, `SlotsIncrease` | three source frames to two output ticks, two and a half batches a slot, up to four batches and three faults: a fault can fall before, within and after a slot, and a second recovery can go wrong too. The slot is the shortest `TimelineAssumption` allows. The proofs remove the bounds |
|  | `Spectrum` | `RowsAreWhole` (whole rows, one unbroken run), `ResetIsMarked`, `PushIsBounded` | slots of five samples, rows of three two apart, two retained rows, chunks of up to four: overlap, a remainder at the slot's end and eviction all happen; two streams of one process and one of the next |
| `operations` | `ReceiveClock` | `ReadyTracksTrueClock`: a released window agrees with the true clock at a fresh instant. `OutcomeMatchesState`: a returned transition never contradicts the state left. `RecoveryNeedsEvidence`: a latched monitor recovers on `RecoverySamples` consistent observations in a row only | four ticks, three offsets (within the tolerance of each other, and beyond it), windows on and off the mapping; three samples to recover so progress can be lost half way. The proofs remove the bounds |
|  | `RigSession` | `FreshIsRecent`, `ReadsAreProved`, `SatisfiedIsProbed`, `DeadlineKeepsSlot` | UTC up to 6 and monotonic time up to 8, starting at the beginning and one tick below the end of monotonic time, so `advance` overflows half way and the monitor's difference reaches its cap; slots of two and four ticks, strides of one and two, jumps of -4, -1 and 2, tolerance one; two generations, two process origins, a script of one step, four adapter calls (connect, probe, read and one more), two clock moves around them, six for the planner with three accepted samples, so that drift adds up. The proofs remove the bounds |
| `receive_path` | `ReceiveCoordinator` | `DurableWindowsAreWhole`, `InputOwnership` (a stream is open while receiving, or after a start that clock setup failed, and stream, timeline and backlog are of the current generation), refinement of the lifecycle, `FaultInhibits` under fairness | two units a slot, streams of four units (one or two slots, by where they start), a queue and a backlog of two so both bounds are met, two starts and two processes, clock configurations that the monitor accepts and refuses |
|  | `ReceiveStore` | `WindowsAreDistinct`, `EventNamesItsWindow`, `WindowsArePublished`, `PagesMissNothing` | two identities, contexts and bodies: exact retry, reused identity, reused context, and both matching different rows; three windows, pages of one or two |
|  | `ReceiveColumns` | `SentIsHeard`, `HeardOrderKeepsResults`, `RetryFindsItsRecord`, `AcceptedIsStorable`, `ReadIsFaithful` | two standard calls and a compound one whose base is one of them, plain or bracketed, known or not; RR73 as a grid and as an ending, a report with and without its zero; all texts of these words with every class, all bit patterns of types 1, 2 and 4 over them, up to three candidates in every order. Integers up to 3 stand for `i64`, twice that for `u64`; every fault with every value, every class, platform and format; up to three decodes where two are allowed. What the checks do not relate is varied one at a time |
| `event_history` | `EventHistory` | `NoImplicitJump` (all that a client can miss), `OneGeneration`, and `EventsReachClient` under fairness | pages of two, four events: a full page, a second page and retention and appends in between, within a call and between calls; two instances, clients of both kinds |
| `local_endpoint` | `LocalEndpoint` | `SocketReachesServer`, `HandledOnce`, and `ClientsFinish`, `EndpointRecovers` under fairness | two daemons, two clients with one connection each, two failures: a crash or failed call during a bind that follows another daemon's, a client queued behind one that breaks off. The proofs remove the bounds for the first two |
| `command_journal` | `CommandJournal` | `ExactReplay`, `AppliedOnce`, and `RetryIsAnswered` under fairness: the client gets the outcome that the journal keeps | one identity that clients use for three commands (identities do not interact), every command in three API versions, in and out of bounds, six negotiations, two processors, two processes, two effects a process, so a second effect would be seen |

Six more runs each expect one property to be violated (see Findings). They use the
instances above, or a smaller one where that is enough to show it.

| Run | Violated | Instance |
|---|---|---|
| `receive_timeline_origin` | `PromptBatchIsNotLate` | the stream opened up to three ticks after the process's origin, bound of lateness two |
| `coordinator_start` | `InputOnlyWhileReceiving` | that of the coordinator in `receive_path` |
| `receive_order` | `HeardOrderIsIndependent` | that of the columns in `receive_path` |
| `event_retention` | `RetentionIsAnnounced` | that of `event_history` |
| `event_earliest` | `EarliestCursorReplays` | that of `event_history` |
| `command_retry` | `RetryableMaySucceed` | one command and no other processor, a port that recovers (strong fairness of its success) |

`TypeOK` is the base of the proofs of the modules that have them; in the other modules
it states the ranges of the variables for the reader and for the proofs planned. No run
repeats it: the bounds that matter (the backlog, the waterfall) are part of the
properties above. Deadlock is left unchecked where the
environment's bounds (frames, events, starts, effects) let the model come to rest.

### Fairness

- `audio`: each poll of the coordinator calls `next_fault` and then
  `next_batch`, so neither is starved (strong fairness), and a call or callback that
  began runs to its end (weak). New callbacks, errors and stops may never come.
- `receive_path`: weak fairness of `Poll`: the daemon's worker keeps polling a
  receiving coordinator. Nothing is assumed of the callbacks or the clock.
- `event_history`: the client keeps asking for valid pages and in the end stops
  restarting from snapshots; the daemon answers a call in progress; the connection
  delivers an answer again and again (strong).
- `command_journal`: a client repeats one request; the receive processor executes
  what it accepted; the journal and the connection do not fail for ever (strong). For
  `command_retry` the port recovers too: asked again and again it does start once.
- `local_endpoint`: a daemon that is down tries to bind, one that began finishes,
  and its caller serves again or drops the server, dropping it once cancelled (weak); a
  connected client sends or leaves, and one that sent half a frame leaves in the end
  (weak). The last is needed: the server reads without a timeout.

## Findings

Six runs are expected to be violated. Each states a comment or a document of the
repository, and TLC's counterexample is what the code does. Where part of the promise
holds, a property of a passing run says which:

1. **`PromptBatchIsNotLate`**: the capture's monotonic origin is the opening of the
   stream (`capture.rs:308`), the observer's is the process's; a stream opened later
   than the lateness bound is refused as late, batch after batch.
2. **`InputOnlyWhileReceiving`**: if the clock monitor refuses its configuration, `start`
   returns through `?` (`receive.rs:389`) with the input open and the state `Starting`,
   which neither `start` nor `stop` accepts; `receive.rs:351` and
   `docs/live-receive.md:34-35` promise `inhibited`. `InputOwnership` shows that no other
   path leaves a stream open.
3. **`RetentionIsAnnounced`**: retention and an append that commit between the two
   statements of `replay_events` (storage `lib.rs:278`) let a client jump over deleted
   events without a gap; `docs/storage.md:31-33` says it gets one. `NoImplicitJump` shows
   that no other call jumps, and that what is jumped over is deleted.
4. **`EarliestCursorReplays`**: `earliest_available` is the sequence of the first retained
   event (daemon `lib.rs:188`), but cursors are exclusive, so a client that continues from
   it loses that event; `crates/api/src/lib.rs:235` calls it the earliest cursor from which
   replay is possible. `NoImplicitJump` and `EventsReachClient` show that such a client
   loses that event only, and that one continuing just before it loses none.
5. **`HeardOrderIsIndependent`**: decodes that agree in time, frequency, text, kind and
   SNR but differ in class or detail keep the order they came in, for the sort is stable
   (protocol `lib.rs:362`); `lib.rs:360` calls the order independent of the container's.
   `HeardOrderKeepsResults` shows that which results there are, and the order of their
   keys, does not depend on it.
6. **`RetryableMaySucceed`**: an error marked retryable is journaled like a result
   (`receive_api.rs:347`), so the unchanged request is answered with it for ever, also by
   a port that has recovered; `crates/api/src/lib.rs:496` says of the flag "whether
   retrying the same request without changes may succeed". `RetryIsAnswered` promises the
   journal's outcome and no more.

Other disagreements between documentation and code, met while modelling. They are
behaviours of the models but have no run of their own:

- `receive_api.rs:303`: a replay answers in the API version of the first request, as
  `canonical_bytes` leaves the version out; `crates/api/src/lib.rs:272` calls the
  envelope's version the one "requested for this command and response".
  `ExactReplay` includes the version, and so shows it.
- `time.rs:141`: `advance` stores the new UTC before the monotonic sum can overflow, so a
  call that fails has moved one clock. `DeadlineKeepsSlot` and `FreshIsRecent` hold over
  such moves.
- `rig.rs:348`: `fresh_at` never compares the observation's service instance, though
  its monotonic reading means nothing in another process. `FreshIsRecent` says what is
  left of freshness then.
- `offline_adapter.rs:108`: one candidate with metadata out of range, or that cannot be
  unpacked, fails the window with all its other results; and a decoder configured for
  more than 128 candidates may return more than a record can hold, which fails the
  record (`receive.rs:169` of storage) and inhibits receive.
- `receive_clock.rs:567`: `latch` replaces the stored fault, so after a foreign sample
  a later delayed sample overwrites `ProcessGenerationChanged` and the monitor
  recovers; `docs/receive-clock.md:55` says a mismatch requires a new monitor.
- `timeline.rs:222`: a late repeat moves the expected position before the position
  is validated; `docs/audio-timeline.md:67-68` says overlap cannot advance the
  timeline. `SlotsIncrease` shows that it does not let an old slot out again.
- `timeline.rs:265`: an arithmetic error in the resampler returns without
  discarding anchor and resampler; `docs/audio-timeline.md:57-64` lists checked
  arithmetic failure among the causes of a discard.
- daemon `lib.rs:182`: a new instance on an existing file answers a fresh client
  with `cursor_gap` although retention removed nothing (`docs/cli-api.md:233`), and
  `lib.rs:192` answers an up-to-date cursor with `cursor_unavailable` once all
  events are pruned (`docs/cli-api.md:235`).
- storage `receive.rs:324`: after event retention an exact retry publishes the same
  event identity again under a new sequence (`docs/storage.md:33-34`, `60-61`).
- `time.rs:240`: the monitor compares a monotonic difference capped at the largest `i64`
  (`try_from(..).unwrap_or(i64::MAX)`), so past that reading a step of UTC can be taken for
  healthy. The proof of `DeadlineKeepsSlot` needed the condition that says so; TLC finds the
  counterexample without it.
- `spectrum.rs:629`: the one row that carries a reset's reason can be evicted before
  the first snapshot after the reset (`docs/spectrum-waterfall.md:55-56`).

## Proofs

**ClockProofs**, first part, proves for `ReceiveClock`, for every configuration `ReceiveClockConfig::new`
accepts (`ConfigAssumption`), every set of UTC offsets, slots and run length
(`EnvironmentAssumption`: naturals): `TypeCorrect`, `OutcomeCorrect`,
`ReadyCorrect` and `RecoveryCorrect`. `ReadyTracksTrueClock` is not inductive: it
speaks of the true clock, and the monitor only of the sample it accepted.
`IInv` (proved in `InvariantHolds`) adds `AcceptedIsGenuine`, that the accepted
mapping is a sample this process's clock really gave at some tick not in the future,
and `ProgressIsEarned`, that the monitor's recovery progress is covered by the history's
streak. Lemmas first say what `Compare`, `Latch`, `Snapshot`, `Observe` and `Gate`
return; the steps of `Next` then need only those.

Its second part proves for `RigSession`, for any profiles, evidence, adapter results,
clock widths, strides and jumps (`RigAssumption`, `TimeAssumption`: the arguments are of
their Rust types), `RigReadsAreProved` (`ReadsAreProved`), `RigFreshIsRecent`
(`FreshIsRecent`), `RigSatisfiedIsProbed` (`SatisfiedIsProbed`) and
`RigDeadlineKeepsSlot` (`DeadlineKeepsSlot`). `RigInv` ties the history `proved` to the
port's lifecycle and profile through every call; lemmas say what an accepted report is
(its evidence lists each capability once), what `fresh_at` and `observe` compare, and
which slot `next_slot` plans. The deadline needs its own invariant, `RigPlanInv`: each
sample the monitor accepts moves UTC and the deadline apart by one tolerance at most.

**CaptureQueueProofs** proves, for every queue size of at least two, batch size and
callback length (`CaptureAssumption`), `Conservation` (`BuffersConserved`),
`ReasonStored` (`StopHasReason`) and `StreamIsAccounted` (`StreamAccounted`). `QueueInv`
adds the type invariant (who holds a buffer is decided by the program counters, whose
ranges it gives) and `CodeBeforeFlag`: a callback about to set the flag has stored the
code. `StreamAccounted` speaks of the one batch the worker copies; `StreamInv` follows
the frames to it: batches in the ready queue are chained, each starting where the one
before ended plus what its mark says was dropped, and the callback's counters continue
the last of them. The proof has one step per action of each thread, and under it one per
conjunct.

**LocalEndpointProofs** proves, for any sets of daemons and clients that do not contain
`None` and `Stale` (`EndpointAssumption`), `EndpointOwned` (`SocketReachesServer`),
`EndpointTyped` (`TypeOK`) and `HandlerRunsOnce` (`HandledOnce`). The first is inductive
once the stages are typed (`Owned`): whoever touches the socket file holds the lock, so
every other daemon is down and has nothing to lose. The last needs `ExchangeInv`: a
connection is in one place at a time (one queue, or one daemon's hands), and what has
happened to it is told by the stage of the daemon that has it.

**ReceiveCoordinatorProofs** proves, for every slot length, queue and backlog size,
number of units, starts and processes: `DurableAreWhole` (`DurableWindowsAreWhole`),
`InputIsOwned` (`InputOwnership`) and the refinement, `CoordinatorRefinesLifecycle`
(`ImplementsLifecycle`: initial states map to initial states, every step to a lifecycle
step or a stutter). `CoordinatorInv` says which of input, timeline and backlog exist in
which phase and of which generation (`Owned`), that every unit on its way through `poll`
was produced by the current stream and not dropped (`Pipeline`), that the timeline holds
units of one slot, and that what is stored is behind the timeline (`Stored`). A window is
whole because its units are distinct units of one slot and `SlotUnits` in number: this
needs cardinalities and the division that cuts units into slots. All of them hold for
every clock configuration: that a refused one leaves a stream open in `Starting` (see
Findings) is a part of `InputOwnership` and a step of the lifecycle.

**EventHistoryProofs** proves, for every page size, number of events and of service
instances, `NoEventIsPassed` (`NoImplicitJump`) and `GenerationsStayApart`
(`OneGeneration`). `HistoryInv` follows a cursor through the exchange: retention takes
events from below only (`LogInv`), the bounds a call read are still those of the rows it
will read unless a commit tore it (`CallInv`), and the page of an answer on its way covers
every event up to the cursor it carries, or, if the call was torn, every one of them that
is still retained (`AnswerInv`). What a torn call can lose is thus proved, not excluded.

**ReceiveStoreProofs** proves, for every set of identities, contexts and bodies, every
page size and number of rows, the four properties of the store: `DistinctWindows`,
`EventsNameWindows`, `PublishedTogether` and `PagesAreComplete`, the last two as
properties of every step. `StoreInv` relates the rows to the AUTOINCREMENT marks and to
the reader's cursor. For the pages a lemma shows that the rows a page returns are a
lower part of those ahead of the cursor.

Its second part proves for `ReceiveColumns`, for every vocabulary, callsign table,
bound, width and number of decodes, `ReadsAreFaithful` (`ReadIsFaithful`),
`RetriesFindTheirRecord` (`RetryFindsItsRecord`), `AcceptedAreStorable`
(`AcceptedIsStorable`), `HeardInAnyOrder` (`HeardOrderKeepsResults`), `SentIsRead`
(`SentIsHeard`) and `ColumnsTyped` (`ColumnsTypeOK`, which needs no run of its own).
`ColumnsInv` follows a window from stage to stage: what is given are arguments of their
Rust types, what is built is what `ReceiveRecord::new` makes of them, and what is stored
are its columns and its summary. It rests on two round trips. `AcceptedIsStored`: an
accepted record passes every CHECK, and its columns, found by index, sorted and rebuilt,
are that record again. `RowReadsBack`: a row that passes the CHECKs and reads back is
written back as it was. Both need what sorting does. `OrderEnumerates` shows by counting
that in a finite set with a total order every rank up to the cardinality is taken once;
from it follow that sorting sorts and that sorting again changes nothing
(`SortedIsSorted`, `SortedStays`), so the order check in `read_decodes` accepts what
`ReceiveRecord::new` sorted. That the arguments the decoder makes are of their types
goes through the codec: `PackedIsPacked` and `SynthesizedIsHeard` for what is sent,
`ClassifiedAreMessages`, `MergedIsTyped` and `DecodedAreDecodes` for what is heard.

`HeardInv` says that a window that was decoded holds what the decoder made of it. That
the order of the candidates leaves the results what they are is then a fact about `DecodeWindow`
(`OrderIsIrrelevant`), from two others: merging keeps those results that are not softer
than an equal one, each once, whatever order they come in (`MergedAreLoud`); and two
sequences with the same members, each once, that ascend by their keys have the same
keys, by the pigeonhole principle (`KeysAgree`).

`SentInv` relates what is read to what was sent, over the window it was heard in. The
proof behind it, `EncodedIsRead`, reads the bits twice: with the sender's own hashes, as
`encode` verified them, and with those the other station knows. A call is shown as the
same word or as an unknown hash (`CallIsShown`), and the payload alike
(`NormalizedAlike`), so the text is the one that was sent or has an unknown hash in it
(`TextIsShown`). The class is the one the bits tell (`PackedTellsClass`): the payload
code distinguishes RR73 the ending from RR73 the grid, and a type 4 message that lost
its payload, which would leave no class, does not read back as three words and is
refused by `encode`.

Assumed are the types of the constants (`CodecAssumption`, `ArgumentsAssumption`,
`RowsAssumption`: callers and rows have the types the code and the columns give them),
that words are told apart by their shape (`VocabularyAssumption`: only a hash is in
angle brackets, CQ is no callsign since `FullCallsign` demands a digit, and a report is
no grid, no ending, and with or without an R), that the record around a decoded window
is acceptable without its decodes and that a slot's offsets and the calibrated SNR are
within the stored bounds (`SurroundingsAssumption`), and the constructors' bounds in
`ColumnsAssumption`, among them that a summary may hold every decode a record may
(`MAX_STORED_DECODES_PER_WINDOW` and `MAX_RECEIVE_DECODES`).

**CommandJournalProofs** proves, for any number of requests, envelopes, processors on
the journal, processes and effects, `ReplayIsExact` (`ExactReplay`) and
`EffectsAppliedOnce` (`AppliedOnce`). `JournalInv`: a final answer is the journal's
(`RepliesAreJournaled`), which no step changes; an outcome on its way to the journal was
reported by the port of this process (`ReportIsOwn`); and between its lookup and its
insert the receive processor can lose a request's identity to a no-op only
(`NotOvertaken`), since no other processor executes anything else. The last is what keeps
a journaled success from being older than an effect (`JournalIsLast`).

**AudioProofs**, first part, proves for `Spectrum`, for every configuration `SpectrumConfig::new` accepts
(`SpectrumAssumption`) and any number of processes, generations, slots and rows, `WholeRows`
(`RowsAreWhole`), `ResetReasons` (`ResetIsMarked`) and `PushHasRoom` (`PushIsBounded`).
`SpectrumInv`: what is pending is one run of samples that ends where the next chunk must
begin (`Held`), the next row would continue the last retained one (`Linked`), and each
row a push produced took a hop from the at most `FftSize - 1 + MaxChunk` samples it began
with (`Short`). That a slot too short for a single row cannot come between two rows
follows from the rows themselves: one of them fitted in a slot.

Its second part proves for `ReceiveTimeline`, for every pair of rates, slot length, batch
size, delay, jitter, stream origin, UTC step and number of frames and faults that
`TimelineAssumption` allows, `TimelineWindowsAreWhole` (`WindowsAreWhole`),
`TimelineSlotsAreAccounted` (`SlotsAreAccounted`) and `TimelineSlotsIncrease`
(`SlotsIncrease`). `TimelineInv` speaks of the state between pushes (`AtRest`) and at each
step of a push (`Underway`): the slot in progress holds one sample for each of its ticks
since the anchor or since the slot's start, whichever is later (`Joined`), the resampler's
last frame is the one before the next and not after the next tick (`Proceeds`), and windows,
incomplete slots and slots begun add up (`Tallied`). One case is apart: where the anchor's
own slot begins before the stream's monotonic origin no sample is ever taken (`Stuck`).
`OrderInv` adds the time: a UTC reading is ahead of the capture time by the stream's start,
the steps and one jitter at most (`Timely`), so a slot that is published is over
(`OverBy`), and a batch that is not late begins an anchor behind the newest slot
(`NewAnchorIsLater`). This takes `MaxLateness` plus the spread of the readings' deviations
plus one tick to be shorter than a slot, as `TimelineAssumption` demands: 2,000 ms of 15,000
in the code, which leaves 12,999 ms for the readings. The extra tick is needed because a
tick has several frames: without it, TLC finds a slot that is published twice.

`SharedCapture::new` refuses a queue of fewer than two batches, hence the assumption in
`CaptureAssumption`. It and the others are evaluated by TLC in the runs. Every inductive
invariant was checked with TLC on the run's instance before its proof.

Model-checked only:

- all liveness (`TerminalIsReported`, `FaultInhibits`, `EventsReachClient`,
  `ClientsFinish`, `EndpointRecovers`, `RetryIsAnswered`): it needs fairness and ENABLED,
  which the prover does not reason about.

## What is not modelled

- Sample values: normalisation, clipping, interpolation, FFT and dB arithmetic,
  modulation and the decoder's search; WAV parsing. Numeric code without a state machine.
- The message library's choice of packing: nondeterministic in `Ft8Codec`.
- Device discovery and selection, and the CLI: input and output.
- JSON, and the maps of devices, selections and inhibitions: renamings without state.
- Integer overflow of 64-bit times and positions in the timeline and the clock monitor:
  the checked operations are modelled as error outcomes where the code handles them.
  `SlotTime` and `ReceiveColumns` do reach theirs.
- Windows named pipes and the permissions of the runtime directory; `CaptureSequence`,
  which nothing composes; the other fakes of the test kit, queues and flags that nothing
  composes; the time a terminal fault was stored at; the fields of a rig observation,
  which the port does not judge.

## Plan

Done, with proofs: the clock monitor, the capture queue, the receive timeline, the local
endpoint, the coordinator with its abstract lifecycle, event history, receive store, command
processors with their journal, spectrum, rig port and time arithmetic, receive columns with
the message codec.

Next, models, in this order:

1. `CommandJournal` over `LocalEndpoint`: the frame bound on a response whose command
   already took effect, and the client's retry over a new connection.
2. `CaptureSequence` against `ReceiveTimeline`'s position checks, once something
   composes it.
3. A rig adapter in place of the scripted port, when the rig crate holds one.

Next, proofs: every safety property the runs check is proved. The models above would come
with proofs of their own; for the liveness properties a prover that handles ENABLED is needed.
