---------------------------- MODULE ReceiveColumns ----------------------------
(***************************************************************************)
(* The way of one receive window from a message that is sent, over the     *)
(* decoder (Ft8Codec), to its durable and its public form: what            *)
(* ReceiveRecord::new accepts (crates/storage/src/receive.rs), the columns *)
(* it is written to, the CHECK constraints of                              *)
(* migrations/0002_phase2_receive.sql, the reconstruction every query and  *)
(* every retry goes through, and the summary that PublicReceiveStore       *)
(* publishes with it (daemon/src/receive_api.rs).  A behaviour may start   *)
(* at any of these stages; a row may also have been put there by another   *)
(* program, which the CHECKs hold to as well.                              *)
(*                                                                         *)
(* One field stands for those that are treated alike: `count` for every    *)
(* u64 column, `drift` for the bounded i32 columns, `offset` for the       *)
(* decode metadata.  Identities and the input configuration, whose CHECKs  *)
(* are their constructors' bounds, are reduced to the device's code words. *)
(***************************************************************************)
EXTENDS Ft8Codec, FiniteSets

CONSTANTS
  MaxI64,        \* bound: the largest i64
  SlotMillis,    \* FT8_RECEIVE_SLOT_MILLIS
  MaxDrift,      \* the bound on drift
  MaxOffset,     \* the bound on a decode's start offset and frequency
  MaxSnr,        \* the bound on its signal-to-noise ratio
  MaxAge,        \* MAX_CLOCK_MAPPING_AGE_MILLIS
  MaxRequired,   \* the most observations a recovery may require
  MaxDecodes,    \* MAX_STORED_DECODES_PER_WINDOW
  MaxSummary,    \* MAX_RECEIVE_DECODES
  Requests,      \* what the synthesizer is asked for
  Buffers,       \* PCM windows the decoder is given
  Surroundings,  \* the other arguments of a record of decodes
  Arguments,     \* what callers give ReceiveRecord::new
  Rows           \* what else may be found in the tables

U64 == 0..2 * MaxI64 + 1
I64 == -(MaxI64 + 1)..MaxI64

ASSUME ColumnsAssumption ==
  /\ MaxI64 \in Nat \ {0} /\ SlotMillis \in 2..MaxI64
  /\ {MaxDrift, MaxOffset, MaxSnr, MaxAge, MaxDecodes} \subseteq 1..MaxI64 - 1
  /\ MaxRequired \in 2..MaxI64 /\ MaxSummary \in Nat /\ MaxDecodes <= MaxSummary

VARIABLES
  phase,    \* the stage reached, or how the attempt ended
  sent,     \* the request synthesized, or None
  buffer,   \* the window decoded, or None
  given,    \* the arguments, or None for a row found in the tables
  record,   \* the ReceiveRecord built from them
  row,      \* the row in the tables
  loaded,   \* what the last read made of it
  published \* the summary in the event committed with the row

columnVars == <<phase, sent, buffer, given, record, row, loaded, published>>

-----------------------------------------------------------------------------
(* Code words, each way                                                    *)

PlatformToStr ==
  [MacOsCoreAudio |-> "macos_core_audio", WindowsWasapi |-> "windows_wasapi",
   LinuxAlsa |-> "linux_alsa", LinuxJack |-> "linux_jack"]
StrToPlatform ==
  [macos_core_audio |-> "MacOsCoreAudio", windows_wasapi |-> "WindowsWasapi",
   linux_alsa |-> "LinuxAlsa", linux_jack |-> "LinuxJack"]

FormatToStr ==
  [Signed8 |-> "signed_8", Signed16 |-> "signed_16", Signed24 |-> "signed_24",
   Signed32 |-> "signed_32", Signed64 |-> "signed_64", Unsigned8 |-> "unsigned_8",
   Unsigned16 |-> "unsigned_16", Unsigned24 |-> "unsigned_24", Unsigned32 |-> "unsigned_32",
   Unsigned64 |-> "unsigned_64", Float32 |-> "float_32", Float64 |-> "float_64"]
StrToFormat ==
  [signed_8 |-> "Signed8", signed_16 |-> "Signed16", signed_24 |-> "Signed24",
   signed_32 |-> "Signed32", signed_64 |-> "Signed64", unsigned_8 |-> "Unsigned8",
   unsigned_16 |-> "Unsigned16", unsigned_24 |-> "Unsigned24", unsigned_32 |-> "Unsigned32",
   unsigned_64 |-> "Unsigned64", float_32 |-> "Float32", float_64 |-> "Float64"]

ClassToStr ==
  [GeneralCall |-> "general_call", DirectedGrid |-> "directed_grid",
   SignalReport |-> "signal_report", RogerSignalReport |-> "roger_signal_report",
   Roger |-> "roger", Ending73 |-> "ending_73", EndingRr73 |-> "ending_rr73"]
StrToClass ==
  [general_call |-> "GeneralCall", directed_grid |-> "DirectedGrid",
   signal_report |-> "SignalReport", roger_signal_report |-> "RogerSignalReport",
   roger |-> "Roger", ending_73 |-> "Ending73", ending_rr73 |-> "EndingRr73"]

FaultToStr ==
  [ProcessGenerationChanged |-> "process_generation_changed",
   TimelineRegressed |-> "timeline_regressed", UtcJump |-> "utc_jump",
   StaleMapping |-> "stale_mapping", SamplingDelayed |-> "sampling_delayed",
   SampleGap |-> "sample_gap", WindowMisaligned |-> "window_misaligned",
   ArithmeticOverflow |-> "arithmetic_overflow"]
StrToFault ==
  [process_generation_changed |-> "ProcessGenerationChanged",
   timeline_regressed |-> "TimelineRegressed", utc_jump |-> "UtcJump",
   stale_mapping |-> "StaleMapping", sampling_delayed |-> "SamplingDelayed",
   sample_gap |-> "SampleGap", window_misaligned |-> "WindowMisaligned",
   arithmetic_overflow |-> "ArithmeticOverflow"]

Unsigned == {"StaleMapping", "SamplingDelayed", "SampleGap"}
Signed == {"UtcJump", "WindowMisaligned"}

Detailed == {"unresolved_hash", "unsupported", "ambiguous"}

-----------------------------------------------------------------------------
(* Owned types                                                             *)

(* ReceiveClockFault, and ReceiveClockHealth: Healthy has no fault. *)
ClockFault ==
  [kind : DOMAIN FaultToStr \ (Signed \union Unsigned), value : {None}]
    \union [kind : Signed, value : I64] \union [kind : Unsigned, value : U64]
ClockHealth ==
  [fault : {None}, progress : {0}, required : {0}, age : U64]
    \union [fault : ClockFault, progress : Nat, required : Nat, age : U64]

(* Mutant of ValidClock: a recovery may already be complete. *)
ValidClockComplete(clock) ==
  /\ clock.age <= MaxAge
  /\ clock.fault # None => clock.required \in 2..MaxRequired /\ clock.progress <= clock.required

(* ReceiveClockHealth::validate; a clock without a fault is Healthy. *)
ValidClock(clock) ==
  /\ clock.age <= MaxAge
  /\ clock.fault # None => clock.required \in 2..MaxRequired /\ clock.progress < clock.required

(* Texts above 0 are the ones validate_text takes; 0 stands for text with  *)
(* other characters, which the CHECKs do not look at.                      *)
ValidText(text) == text > 0

(* A sender or recipient that FullCallsign parses. *)
ValidCallsign(callsign) == callsign # "unparsable"

(* The constructors of the five outcomes. *)
ValidMessage(m) ==
  /\ ValidText(m.text)
  /\ m.kind = "resolved" =>
       /\ ValidCallsign(m.sender) /\ ValidCallsign(m.recipient)
       /\ (m.class # "GeneralCall") = (m.recipient # None)
  /\ m.kind \in Detailed => ValidText(m.detail)

(* A message as its constructor leaves it. *)
Ft8Message ==
  {m \in [kind : ToSet(Kinds), text : Nat, class : DOMAIN ClassToStr \union {None},
          sender : STRING \union {None}, recipient : STRING \union {None},
          detail : Nat \union {None}] :
     /\ ValidMessage(m)
     /\ m.kind = "resolved" => m.class # None /\ m.sender # None
     /\ m.kind # "resolved" => m.class = None /\ m.sender = None /\ m.recipient = None
     /\ m.kind \in Detailed <=> m.detail # None}
Ft8Decode == [offset : Int, snr : Int, message : Ft8Message]

ValidDecodeMetadata(decode) ==
  decode.offset \in -MaxOffset..MaxOffset /\ decode.snr \in -MaxSnr..MaxSnr

(* The arguments of ReceiveRecord::new, and of synthesize. *)
ReceiveArguments ==
  [slot : {utc \in 0..MaxI64 : utc % SlotMillis = 0}, captureUtc : Nat, count : U64,
   platform : DOMAIN PlatformToStr, format : DOMAIN FormatToStr, recorded : I64,
   drift : Int, clock : ClockHealth, decodes : Seq(Ft8Decode)]
OwnedMessage ==
  {m \in [words : Seq(Word), class : DOMAIN ClassToStr, sender : Callsigns,
          recipient : Callsigns \union {None}] :
     (m.class # "GeneralCall") = (m.recipient # None)}
WaveformRequest ==
  [message : OwnedMessage, canonical : BOOLEAN, frequency : Nat, start : Nat \union {None}]

ASSUME ArgumentsAssumption ==
  /\ None \notin ClockFault \union Ft8Message \union Seq(Ft8Decode) \union ReceiveArguments
  /\ None \notin DOMAIN ClassToStr \union DOMAIN StrToClass \union DOMAIN StrToFault
  /\ \A call \in Callsigns \union {None} : ValidCallsign(call)
  /\ Arguments \union {Surroundings} \subseteq ReceiveArguments
  /\ Buffers \subseteq PcmBuffer /\ Requests \subseteq WaveformRequest

(* The checks of ReceiveRecord::new. *)
Accepts(a) ==
  /\ a.captureUtc = a.slot /\ a.recorded >= 0
  /\ Len(a.decodes) <= MaxDecodes
  /\ a.drift \in -MaxDrift..MaxDrift
  /\ ValidClock(a.clock)
  /\ \A i \in DOMAIN a.decodes : ValidDecodeMetadata(a.decodes[i])
  /\ a.clock.fault # None => a.decodes = <<>>

(* A window without decodes is accepted, and so is where in a slot and how *)
(* loud a synthesized message is heard.                                    *)
ASSUME SurroundingsAssumption ==
  /\ Accepts([Surroundings EXCEPT !.decodes = <<>>]) /\ Surroundings.clock.fault = None
  /\ SlotSamples - FrameSamples <= MaxOffset /\ Rounded(SnrCalibration) \in -MaxSnr..MaxSnr

(* Mutant of New: decodes keep the order they came in. *)
NewUnsorted(a) == IF Accepts(a) THEN a ELSE None

(* ReceiveRecord::new *)
New(a) == IF Accepts(a) THEN [a EXCEPT !.decodes = Sorted(a.decodes)] ELSE None

-----------------------------------------------------------------------------
(* Writing                                                                 *)

ClockColumns(clock) ==
  IF clock.fault = None
  THEN [state |-> "healthy", kind |-> None, value |-> None,
        progress |-> 0, required |-> 0, age |-> clock.age]
  ELSE [state |-> "unhealthy", kind |-> FaultToStr[clock.fault.kind],
        value |-> clock.fault.value, progress |-> clock.progress,
        required |-> clock.required, age |-> clock.age]

MessageColumns(m) ==
  [kind |-> m.kind, text |-> m.text,
   detail |-> IF m.kind \in Detailed THEN m.detail ELSE None,
   class |-> IF m.kind = "resolved" THEN ClassToStr[m.class] ELSE None,
   sender |-> IF m.kind = "resolved" THEN m.sender ELSE None,
   recipient |-> IF m.kind = "resolved" THEN m.recipient ELSE None]

DecodeColumns(index, decode) ==
  [index |-> index, offset |-> decode.offset, snr |-> decode.snr,
   message |-> MessageColumns(decode.message)]

(* Every value of the record that to_i64 is applied to. *)
Wide(r) ==
  {r.count, r.clock.age}
    \union (IF r.clock.fault # None /\ r.clock.fault.kind \in Unsigned
            THEN {r.clock.fault.value} ELSE {})
Fits(r) == \A value \in Wide(r) : value <= MaxI64

Columns(r) ==
  [slot |-> r.slot, captureUtc |-> r.captureUtc, count |-> r.count,
   platform |-> PlatformToStr[r.platform], format |-> FormatToStr[r.format],
   recorded |-> r.recorded, drift |-> r.drift,
   clock |-> ClockColumns(r.clock),
   decodes |-> {DecodeColumns(i - 1, r.decodes[i]) : i \in DOMAIN r.decodes}]

(* The types of the columns. *)
ClockRow ==
  [state : STRING, kind : STRING \union {None}, value : I64 \union {None},
   progress : I64, required : I64, age : I64]
MessageRow ==
  [kind : STRING, text : I64, detail : I64 \union {None}, class : STRING \union {None},
   sender : STRING \union {None}, recipient : STRING \union {None}]
DecodeRow == [index : I64, offset : I64, snr : I64, message : MessageRow]
WindowRow ==
  [slot : I64, captureUtc : I64, count : I64, platform : STRING, format : STRING, recorded : I64,
   drift : I64, clock : ClockRow, decodes : SUBSET DecodeRow]

ASSUME RowsAssumption == Rows \subseteq WindowRow

(* The CHECK constraints of receive_windows and receive_diagnostics ... *)
CheckWindow(t) ==
  /\ t.slot >= 0 /\ t.slot % SlotMillis = 0 /\ t.captureUtc >= 0
  /\ t.count >= 0 /\ t.recorded >= 0
  /\ t.platform \in DOMAIN StrToPlatform /\ t.format \in DOMAIN StrToFormat
CheckClock(c) ==
  /\ c.progress \in 0..MaxRequired /\ c.required \in 0..MaxRequired /\ c.age \in 0..MaxAge
  /\ \/ /\ c.state = "healthy" /\ c.kind = None /\ c.value = None
        /\ c.progress = 0 /\ c.required = 0
     \/ /\ c.state = "unhealthy" /\ c.kind \in DOMAIN StrToFault
        /\ c.required \in 2..MaxRequired /\ c.progress < c.required
  /\ (c.kind # None /\ StrToFault[c.kind] \in Signed \union Unsigned) = (c.value # None)

(* ... and of receive_decodes. *)
CheckDecode(d) ==
  LET m == d.message
  IN  /\ d.index \in 0..MaxDecodes - 1 /\ d.offset \in -MaxOffset..MaxOffset
      /\ d.snr \in -MaxSnr..MaxSnr
      /\ \/ m.kind = "resolved" /\ m.detail = None /\ m.class # None /\ m.sender # None
         \/ m.kind \in Detailed /\ m.detail # None
            /\ m.class = None /\ m.sender = None /\ m.recipient = None
         \/ m.kind = "free_text" /\ m.detail = None
            /\ m.class = None /\ m.sender = None /\ m.recipient = None
      /\ m.class # None =>
           m.class \in DOMAIN StrToClass /\ (m.class = "general_call") = (m.recipient = None)

Checks(t) ==
  /\ CheckWindow(t) /\ t.drift \in -MaxDrift..MaxDrift /\ CheckClock(t.clock)
  /\ \A d \in t.decodes : CheckDecode(d)
  /\ \A d, e \in t.decodes : d.index = e.index => d = e

-----------------------------------------------------------------------------
(* Reading                                                                 *)

(* reconstruct_clock_fault: a measurement that was unsigned still is. *)
ReconstructFault(c) ==
  [kind |-> StrToFault[c.kind], value |-> c.value]
ReconstructsFault(c) ==
  /\ c.kind # None
  /\ (StrToFault[c.kind] \in Signed \union Unsigned) = (c.value # None)
  /\ StrToFault[c.kind] \in Unsigned => c.value >= 0

ReconstructClock(c) ==
  IF c.state = "healthy"
  THEN [fault |-> None, progress |-> 0, required |-> 0, age |-> c.age]
  ELSE [fault |-> ReconstructFault(c), progress |-> c.progress,
        required |-> c.required, age |-> c.age]
ReconstructsClock(c) ==
  /\ IF c.state = "healthy"
     THEN c.kind = None /\ c.value = None /\ c.progress = 0 /\ c.required = 0
     ELSE ReconstructsFault(c)
  /\ ValidClock(ReconstructClock(c))

(* reconstruct_message looks at the columns its kind has, no others. *)
ReconstructMessage(m) ==
  [kind |-> m.kind, text |-> m.text,
   detail |-> IF m.kind \in Detailed THEN m.detail ELSE None,
   class |-> IF m.kind = "resolved" THEN StrToClass[m.class] ELSE None,
   sender |-> IF m.kind = "resolved" THEN m.sender ELSE None,
   recipient |-> IF m.kind = "resolved" THEN m.recipient ELSE None]

InIndexOrder(decodes) ==
  InOrder(decodes, LAMBDA d, e : d.index < e.index)
Reconstructed(raw) ==
  [i \in DOMAIN raw |-> [offset |-> raw[i].offset, snr |-> raw[i].snr,
                         message |-> ReconstructMessage(raw[i].message)]]

(* Mutant of ReadsDecodes: indices need not be contiguous. *)
ReadsDecodesWithGaps(raw) ==
  /\ \A i \in DOMAIN raw : ValidMessage(ReconstructMessage(raw[i].message))
  /\ Sorted(Reconstructed(raw)) = Reconstructed(raw)

(* read_decodes: indices from 0 without a gap, every message valid, and    *)
(* the order the one results are sorted in.                                *)
ReadsDecodes(raw) ==
  /\ \A i \in DOMAIN raw : raw[i].index = i - 1 /\ ValidMessage(ReconstructMessage(raw[i].message))
  /\ Sorted(Reconstructed(raw)) = Reconstructed(raw)

(* reconstruct_receive: the record, or None for InvalidPersistedReceiveValue. *)
Reconstruct(t) ==
  LET raw == InIndexOrder(t.decodes)
  IN  IF /\ t.platform \in DOMAIN StrToPlatform /\ t.format \in DOMAIN StrToFormat
         /\ t.count >= 0 /\ t.captureUtc >= 0
         /\ t.slot >= 0 /\ t.slot % SlotMillis = 0
         /\ ReconstructsClock(t.clock) /\ ReadsDecodes(raw)
      THEN New([slot |-> t.slot, captureUtc |-> t.captureUtc, count |-> t.count,
                platform |-> StrToPlatform[t.platform], format |-> StrToFormat[t.format],
                recorded |-> t.recorded, drift |-> t.drift,
                clock |-> ReconstructClock(t.clock), decodes |-> Reconstructed(raw)])
      ELSE None

-----------------------------------------------------------------------------
(* The public summary                                                      *)

(* map_storage_clock: the kind of clock fault is not made public. *)
MapStorageClock(clock) ==
  IF clock.fault = None
  THEN [state |-> "healthy", age |-> clock.age]
  ELSE [state |-> "unhealthy", reason |-> "clock_unhealthy", progress |-> clock.progress,
        required |-> clock.required, age |-> clock.age]

MapDecode(decode) ==
  [offset |-> decode.offset, snr |-> decode.snr,
   classification |->
     LET m == decode.message
     IN  CASE m.kind = "resolved" ->
                [kind |-> m.kind, text |-> m.text, sender |-> m.sender,
                 recipient |-> m.recipient, class |-> ClassToStr[m.class]]
           [] m.kind \in Detailed -> [kind |-> m.kind, text |-> m.text, detail |-> m.detail]
           [] m.kind = "free_text" -> [kind |-> m.kind, text |-> m.text]]

MapReceiveRecord(r) ==
  [slot |-> r.slot, platform |-> PlatformToStr[r.platform], format |-> FormatToStr[r.format],
   count |-> r.count, drift |-> r.drift, clock |-> MapStorageClock(r.clock),
   decodes |-> [i \in DOMAIN r.decodes |-> MapDecode(r.decodes[i])]]

(* ReceiveRecordSummary::validate *)
ValidSummary(summary) == Len(summary.decodes) <= MaxSummary

-----------------------------------------------------------------------------
(* A message is sent, a window decoded, its record stored, or a row found; *)
(* rows are read, and recording is retried.                                *)

ColumnsInit ==
  /\ record = None /\ loaded = None /\ published = None
  /\ \/ phase = "composed" /\ sent \in Requests /\ buffer = None /\ given = None /\ row = None
     \/ phase = "heard" /\ buffer \in Buffers /\ sent = None /\ given = None /\ row = None
     \/ phase = "given" /\ given \in Arguments /\ sent = None /\ buffer = None /\ row = None
     \/ phase = "found" /\ row \in {t \in Rows : Checks(t)}
        /\ sent = None /\ buffer = None /\ given = None

(* synthesize, and the window it is heard in. *)
Transmit ==
  /\ phase = "composed"
  /\ buffer' \in Synthesize(sent)
  /\ phase' = IF buffer' = None THEN "unsendable" ELSE "heard"
  /\ UNCHANGED <<sent, given, record, row, loaded, published>>

(* decode, whose results become part of the record. *)
Decode ==
  /\ phase = "heard"
  /\ phase' = IF DecodeWindow(buffer) = None THEN "undecodable" ELSE "given"
  /\ given' = IF phase' = "given" THEN [Surroundings EXCEPT !.decodes = DecodeWindow(buffer)] ELSE None
  /\ UNCHANGED <<sent, buffer, record, row, loaded, published>>

(* decode refuses to run where the library is tuned by the environment. *)
DecodeRefused ==
  /\ phase = "heard"
  /\ phase' = "refused"
  /\ UNCHANGED <<sent, buffer, given, record, row, loaded, published>>

Construct ==
  /\ phase = "given"
  /\ record' = New(given)
  /\ phase' = IF New(given) = None THEN "invalid" ELSE "built"
  /\ UNCHANGED <<sent, buffer, given, row, loaded, published>>

(* record_receive of a new window, with its event: a failed conversion or  *)
(* CHECK rolls the transaction back.                                       *)
Insert ==
  /\ phase = "built"
  /\ phase' = CASE ~Fits(record) -> "too_wide"
                [] Fits(record) /\ Checks(Columns(record)) -> "stored"
                [] OTHER -> "constraint"
  /\ row' = IF phase' = "stored" THEN Columns(record) ELSE row
  /\ published' = IF phase' = "stored" THEN MapReceiveRecord(record) ELSE published
  /\ UNCHANGED <<sent, buffer, given, record, loaded>>

(* receive_record and receive_page. *)
Read ==
  /\ phase \in {"stored", "found"}
  /\ loaded' = Reconstruct(row)
  /\ phase' = IF loaded' = None THEN "unreadable" ELSE "read"
  /\ UNCHANGED <<sent, buffer, given, record, row, published>>

(* record_receive of the same arguments: the window is there already, is   *)
(* read back and compared, and so is its event.                            *)
Retry ==
  /\ phase = "stored"
  /\ loaded' = Reconstruct(row)
  /\ phase' = CASE loaded' = None -> "unreadable"
                [] loaded' = New(given) /\ MapReceiveRecord(New(given)) = published -> "existing"
                [] OTHER -> "collision"
  /\ UNCHANGED <<sent, buffer, given, record, row, published>>

ColumnsNext ==
  Transmit \/ Decode \/ DecodeRefused \/ Construct \/ Insert \/ Read \/ Retry

ColumnsSpec == ColumnsInit /\ [][ColumnsNext]_columnVars

-----------------------------------------------------------------------------
(***************************************************************************)
(* Type correctness; a record holds at most MAX_STORED_DECODES_PER_WINDOW  *)
(* decodes, and a row has integers that fit its columns.                   *)
(***************************************************************************)
ColumnsTypeOK ==
  /\ phase \in {"composed", "unsendable", "heard", "undecodable", "refused", "given", "built",
                "invalid", "stored", "too_wide", "constraint", "found", "read", "unreadable",
                "existing", "collision"}
  /\ \A r \in {record, loaded} \ {None} : Len(r.decodes) \in 0..MaxDecodes /\ r.count \in U64
  /\ row # None => {row.count, row.recorded, row.clock.age} \subseteq I64

(***************************************************************************)
(* A record that was stored reads back as itself, so a caller that retries *)
(* after a lost answer is told the window exists: the retry never collides *)
(* with, and never fails to read, what the same call wrote.  A page of the *)
(* history shows the same summary the event announced.                     *)
(***************************************************************************)
RetryFindsItsRecord ==
  /\ given # None => phase \notin {"unreadable", "collision"}
  /\ given # None /\ loaded # None =>
       loaded = record /\ MapReceiveRecord(loaded) = published

(***************************************************************************)
(* Whatever ReceiveRecord::new accepts, and whose counters an INTEGER      *)
(* column can hold, the CHECK constraints let in, and its summary is       *)
(* within the bounds of the wire: the three sets of bounds never disagree  *)
(* at run time.                                                            *)
(***************************************************************************)
AcceptedIsStorable ==
  /\ phase # "constraint"
  /\ published # None => ValidSummary(published)

(***************************************************************************)
(* Reading loses nothing.  A row that reads back at all, whoever wrote it, *)
(* is the row its record would be written to: no two rows are presented as *)
(* one record, and no column is dropped in silence.                        *)
(***************************************************************************)
ReadIsFaithful == loaded # None => Columns(loaded) = row

(***************************************************************************)
(* A message the codec agrees to encode is the message the station at the  *)
(* other end reads from its history: same words, class and identities,     *)
(* though the library may drop an affix and RR73 is a grid as well as an   *)
(* ending (offline_adapter.rs encode_owned, directed_class_from_bits).  If *)
(* a hash in it is unknown there, it is reported as unresolved, never as   *)
(* another message; placed in a slot it always gets that far.              *)
(***************************************************************************)
SentIsHeard ==
  /\ sent # None /\ sent.start # None => phase \notin {"undecodable", "invalid"}
  /\ sent # None /\ loaded # None =>
       LET m == sent.message
           hashes == {call \in Callsigns : Bracket[call] \in ToSet(m.words)}
           heard == loaded.decodes[1].message
       IN  /\ Len(loaded.decodes) = 1
           /\ hashes \subseteq Known =>
                heard = [kind |-> "resolved", text |-> TextId(m.words), class |-> m.class,
                         sender |-> m.sender, recipient |-> m.recipient, detail |-> None]
           /\ ~(hashes \subseteq Known) => heard.kind = "unresolved_hash"

(* The candidates of buffer b, reported in another order. *)
Reordered(b, order) == [b EXCEPT !.heard = [i \in DOMAIN @ |-> @[order[i]]]]

(***************************************************************************)
(* The order in which the library reports its candidates does not decide   *)
(* what is heard (offline_adapter.rs decode): any other order fails as     *)
(* well, or gives the same set of results, sorted by the same keys; of     *)
(* several equal results the same one is kept.                             *)
(***************************************************************************)
HeardOrderKeepsResults ==
  buffer # None /\ phase # "heard" =>
    \A order \in Bijection(DOMAIN buffer.heard, DOMAIN buffer.heard) :
      LET other == DecodeWindow(Reordered(buffer, order))
          Keys(decodes) == [i \in DOMAIN decodes |-> SortKey(decodes[i])]
      IN  /\ phase = "undecodable" => other = None
          /\ given # None =>
               /\ other # None
               /\ ToSet(other) = ToSet(given.decodes)
               /\ Keys(other) = Keys(given.decodes)

(***************************************************************************)
(* What crates/protocol/src/lib.rs:360 says of sort_deterministically: the *)
(* ordering is independent of upstream order.  It is not where two results *)
(* have the same keys and differ in class or detail, as RR73 does that was *)
(* sent as a grid and as an ending: the stable sort keeps such two in the  *)
(* order in which the library reported them.                               *)
(***************************************************************************)
HeardOrderIsIndependent ==
  buffer # None /\ phase # "heard" /\ given # None =>
    \A order \in Bijection(DOMAIN buffer.heard, DOMAIN buffer.heard) :
      DecodeWindow(Reordered(buffer, order)) = given.decodes
=============================================================================
