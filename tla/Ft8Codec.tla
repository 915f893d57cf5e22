------------------------------- MODULE Ft8Codec -------------------------------
(***************************************************************************)
(* The FT8 message codec, the synthesizer's checks and the window decoder  *)
(* of crates/protocol/src/offline_adapter.rs, over the message library it  *)
(* wraps.  Everything is an operator; ReceiveColumns takes the steps.      *)
(*                                                                         *)
(* A text is the sequence of its words, a word an atom.  The 77 bits are   *)
(* the fields the adapter reads: the type i3 and n3, and for types 1, 2    *)
(* and 4 the two call fields, each plain or a hash of a call, the roger    *)
(* bit and the payload code (g15, or the report of type 4).  Modulation    *)
(* and search are the library's: a candidate is its bits and raw metadata. *)
(***************************************************************************)
EXTENDS Integers, Sequences, FiniteSetsExt, SequencesExt

CONSTANTS
  Callsigns,       \* words that FullCallsign parses
  Standard,        \* call words that fit a plain call field, CQ among them
  Base,            \* callsign -> the standard call without its affixes
  Bracket,         \* callsign -> the word that shows it as a resolved hash
  Known,           \* callsigns in the decoder's hash table
  GridIndex,       \* grid -> its g15 code
  ReportForms,     \* report code above MaxGrid -> its four words
  Vocabulary,      \* the words in the order of their bytes
  MaxGrid,         \* 32400, the largest g15 code of a grid
  FrameSamples,    \* FT8_FRAME_SAMPLES
  SlotSamples,     \* FT8_SLOT_SAMPLES
  MaxTone,         \* 5956, the highest base frequency
  SnrCalibration,  \* PHASE1_SNR_CALIBRATION_DB, in halves
  None             \* NULL, Option::None, and an error

Unresolved == "<...>"
Word == ToSet(Vocabulary)

ASSUME CodecAssumption ==
  /\ Vocabulary \in Seq(STRING) /\ None \notin STRING /\ None \notin Int
  /\ Callsigns \union Standard \union DOMAIN GridIndex \subseteq Word
  /\ {Unresolved, "CQ", "DE", "R", "RRR", "RR73", "73", "UNSUPPORTED"} \subseteq Word
  /\ None \notin Seq(Word)
  /\ "CQ" \in Standard
  /\ Base \in [Callsigns -> Standard] /\ Bracket \in [Callsigns -> Word]
  /\ {MaxGrid, FrameSamples, SlotSamples} \subseteq Nat /\ SnrCalibration \in Int
  /\ \A code \in 1..MaxGrid : \E grid \in DOMAIN GridIndex : GridIndex[grid] = code
  /\ \A grid \in DOMAIN GridIndex : GridIndex[grid] \in 1..MaxGrid
  /\ \A code \in DOMAIN ReportForms :
       /\ code \in Nat \ 0..4
       /\ ReportForms[code] \in [long : Word, short : Word, rogerLong : Word, rogerShort : Word]

(* Words are told apart by their shape: nothing else is in angle brackets, *)
(* CQ does not parse as a callsign, a report is neither a grid nor an      *)
(* ending, and has an R in front or has none.                              *)
ASSUME VocabularyAssumption ==
  LET bracketed == {Bracket[call] : call \in Callsigns} \union {Unresolved}
      endings == {"RRR", "RR73", "73"}
      Forms(form) == {ReportForms[code][form] : code \in DOMAIN ReportForms}
      plain == Forms("long") \union Forms("short")
      roger == Forms("rogerLong") \union Forms("rogerShort")
  IN  /\ "CQ" \notin Callsigns /\ \A call \in Callsigns : Bracket[call] # Unresolved
      /\ \A call, other \in Callsigns : Bracket[call] = Bracket[other] => call = other
      /\ bracketed \intersect (Callsigns \union Standard \union {"DE", "R"} \union endings
                                \union DOMAIN GridIndex \union plain \union roger) = {}
      /\ (plain \union roger) \intersect (endings \union DOMAIN GridIndex) = {}
      /\ plain \intersect roger = {}

IsGrid(word) == word \in DOMAIN GridIndex
IsReport(word) == \E code \in DOMAIN ReportForms : word = ReportForms[code].long
IsRogerReport(word) == \E code \in DOMAIN ReportForms : word = ReportForms[code].rogerLong

(* The word without the brackets of a resolved hash. *)
Unbracketed(word) ==
  LET shown == {call \in Callsigns : word = Bracket[call]}
  IN  IF shown = {} THEN word ELSE CHOOSE call \in shown : TRUE

(* Texts are compared as strings; a blank sorts before every character of  *)
(* a word, so the order of texts is that of their words.                   *)
TextId(words) ==
  LET width == Len(Vocabulary) + 1
      Place(n) == IF n \in DOMAIN words THEN CHOOSE i \in DOMAIN Vocabulary : Vocabulary[i] = words[n]
                  ELSE 0
  IN  ((Place(1) * width + Place(2)) * width + Place(3)) * width + Place(4)

(* What a packed message can hold; a call field may not be one. *)
CallField ==
  [call : Standard \union Callsigns \union {"DE", None}, hashed : {FALSE}]
    \union [call : Callsigns, hashed : {TRUE}]
PackedFt8Bits ==
  [i3 : {1, 2}, n3 : {0}, calls : CallField \X CallField, roger : BOOLEAN,
   code : 1..MaxGrid + 4 \union {MaxGrid + code : code \in DOMAIN ReportForms}]
    \union [i3 : {4}, n3 : {0}, calls : CallField \X CallField, cq : BOOLEAN, code : 0..3]
    \union [i3 : 0..7 \ {1, 2, 4}, n3 : 0..7, text : (Seq(Word) \ {<<>>}) \union {None}]

(* What is heard in a window, and how long the window is. *)
PcmBuffer ==
  [frames : Nat,
   heard : Seq([offset : Int \union {None}, snr : Int \union {None}, bits : PackedFt8Bits])]

-----------------------------------------------------------------------------
(* The message library.                                                    *)

PlainCall(call) == [call |-> call, hashed |-> FALSE]
HashedCall(call) == [call |-> call, hashed |-> TRUE]

Type1(calls, roger, code) == [i3 |-> 1, n3 |-> 0, calls |-> calls, roger |-> roger, code |-> code]
Type4(calls, cq, code) == [i3 |-> 4, n3 |-> 0, calls |-> calls, cq |-> cq, code |-> code]

(* How a call can be packed.  A standard call is packed as it is; of any   *)
(* other the library may pack the hash, or quietly the call without its    *)
(* affixes.                                                                *)
Fields(word) ==
  IF word \in Standard THEN {PlainCall(word)}
  ELSE {HashedCall(Unbracketed(word)), PlainCall(Base[Unbracketed(word)])}

Ending(payload) ==
  CASE payload = "RRR" -> 1 [] payload = "RR73" -> 2 [] payload = "73" -> 3 [] OTHER -> 0

(* pack77 knows the endings before the grids ... *)
Payload(payload) ==
  IF Ending(payload) # 0 THEN {<<FALSE, MaxGrid + 1 + Ending(payload)>>}
  ELSE IF IsGrid(payload) THEN {<<FALSE, GridIndex[payload]>>}
  ELSE {<<FALSE, MaxGrid + code>> : code \in
          {c \in DOMAIN ReportForms : payload = ReportForms[c].long}}
    \union {<<TRUE, MaxGrid + code>> : code \in
          {c \in DOMAIN ReportForms : payload = ReportForms[c].rogerLong}}

Pack77(first, second, payload) ==
  {Type1(<<f, s>>, p[1], p[2]) : f \in Fields(first), s \in Fields(second), p \in Payload(payload)}
    \union (IF {first, second} \subseteq Standard THEN {}
            ELSE {None} \union {Type4(<<f, s>>, FALSE, Ending(payload)) :
                                  f \in Fields(first), s \in Fields(second)})

(* ... pack77_type1 takes a grid for a grid. *)
Pack77Type1(first, second, grid) ==
  {Type1(<<f, s>>, FALSE, GridIndex[grid]) : f \in Fields(first), s \in Fields(second)}

Pack77Type4(sender) ==
  {IF sender \in Callsigns THEN Type4(<<PlainCall("CQ"), PlainCall(sender)>>, TRUE, 0) ELSE None}

(* unpack77_with_hash: reports come without their leading zero. *)
UnpackPayload(bits) ==
  LET code == IF bits.i3 = 4 THEN bits.code + 1 ELSE bits.code - MaxGrid
  IN  CASE bits.i3 # 4 /\ bits.code <= MaxGrid ->
             (IF bits.roger THEN <<"R">> ELSE <<>>)
               \o <<CHOOSE grid \in DOMAIN GridIndex : GridIndex[grid] = bits.code>>
        [] ~(bits.i3 # 4 /\ bits.code <= MaxGrid) /\ code <= 4 ->
             <<<<>>, <<"RRR">>, <<"RR73">>, <<"73">>>>[code]
        [] OTHER -> IF bits.roger THEN <<ReportForms[code].rogerShort>>
                    ELSE <<ReportForms[code].short>>

Unpack77(bits, table) ==
  LET Show(field) == CASE ~field.hashed -> field.call
                       [] field.hashed /\ field.call \in table -> Bracket[field.call]
                       [] OTHER -> Unresolved
  IN  CASE bits.i3 \notin {1, 2, 4} -> bits.text
        [] bits.i3 \in {1, 2, 4} /\ None \in {bits.calls[1].call, bits.calls[2].call} -> None
        [] OTHER -> <<Show(bits.calls[1]), Show(bits.calls[2])>> \o UnpackPayload(bits)

-----------------------------------------------------------------------------
(* Reading a message.                                                      *)

(* A short report in third place gets its leading zero back. *)
NormalizeStandardReport(words) ==
  LET short == {code \in DOMAIN ReportForms :
                  Len(words) >= 3 /\ words[3] = ReportForms[code].short}
      rogerShort == {code \in DOMAIN ReportForms :
                  Len(words) >= 3 /\ words[3] = ReportForms[code].rogerShort}
  IN  CASE short # {} -> <<words[1], words[2], ReportForms[CHOOSE c \in short : TRUE].long>>
        [] rogerShort # {} ->
             <<words[1], words[2], ReportForms[CHOOSE c \in rogerShort : TRUE].rogerLong>>
        [] OTHER -> words

ClassifyPayload(payload) ==
  CASE payload = "RRR" -> "Roger"
    [] payload = "73" -> "Ending73"
    [] payload = "RR73" -> "EndingRr73"
    [] payload # "RR73" /\ IsGrid(payload) -> "DirectedGrid"
    [] IsReport(payload) -> "SignalReport"
    [] IsRogerReport(payload) -> "RogerSignalReport"
    [] OTHER -> None

DirectedClassFromBits(bits) ==
  LET report == bits.code - MaxGrid
  IN  CASE bits.i3 \in {1, 2} /\ bits.code <= MaxGrid -> "DirectedGrid"
        [] bits.i3 \in {1, 2} /\ bits.code > MaxGrid ->
             (CASE ~bits.roger /\ report = 2 -> "Roger"
                [] ~bits.roger /\ report = 3 -> "EndingRr73"
                [] ~bits.roger /\ report = 4 -> "Ending73"
                [] ~bits.roger /\ report >= 5 -> "SignalReport"
                [] bits.roger /\ report >= 5 -> "RogerSignalReport"
                [] OTHER -> None)
        [] bits.i3 = 4 /\ ~bits.cq /\ bits.code # 0 ->
             <<"Roger", "EndingRr73", "Ending73">>[bits.code]
        [] OTHER -> None

Outcome(kind, words) ==
  [kind |-> kind, text |-> TextId(words), class |-> None, sender |-> None,
   recipient |-> None, detail |-> IF kind = "free_text" THEN None ELSE 1]

(* Identities that do not parse leave the message ambiguous. *)
Resolved(words, sender, recipient, class) ==
  IF {Unbracketed(sender)} \union ({Unbracketed(recipient)} \ {None}) \subseteq Callsigns
  THEN [kind |-> "resolved", text |-> TextId(words), class |-> class, detail |-> None,
        sender |-> Unbracketed(sender), recipient |-> Unbracketed(recipient)]
  ELSE Outcome("ambiguous", words)

ClassifySupported(words, bitClass) ==
  LET general == words[1] = "CQ" /\ (Len(words) = 2 \/ (Len(words) = 3 /\ IsGrid(words[3])))
      class == IF bitClass # None THEN bitClass ELSE ClassifyPayload(words[3])
  IN  CASE general -> Resolved(words, words[2], None, "GeneralCall")
        [] ~general /\ Len(words) = 3 ->
             IF class # None THEN Resolved(words, words[1], words[2], class)
             ELSE Outcome("unsupported", words)
        [] OTHER -> Outcome("unsupported", words)

(* The outcome, or None for bits that cannot be unpacked. *)
ClassifyBits(bits) ==
  LET decoded == Unpack77(bits, Known)
      words == NormalizeStandardReport(decoded)
      typed == bits.i3 \in {1, 2, 4}
  IN  CASE decoded = None /\ (typed \/ (bits.i3 = 0 /\ bits.n3 = 0)) -> None
        [] decoded = None /\ ~typed /\ (bits.i3 # 0 \/ bits.n3 # 0) ->
             Outcome("unsupported", <<"UNSUPPORTED">>)
        [] decoded # None /\ bits.i3 = 0 /\ bits.n3 = 0 -> Outcome("free_text", decoded)
        [] decoded # None /\ ~typed /\ (bits.i3 # 0 \/ bits.n3 # 0) -> Outcome("unsupported", decoded)
        [] decoded # None /\ typed /\ Unresolved \in ToSet(words) ->
             Outcome("unresolved_hash", words)
        [] OTHER -> ClassifySupported(words, DirectedClassFromBits(bits))
-----------------------------------------------------------------------------
(* Writing a message.  An owned message is its words, class, sender and    *)
(* recipient; nothing but PayloadMatches and the round trip relates them.  *)

PayloadMatches(class, payload) ==
  CASE class = "DirectedGrid" -> IsGrid(payload)
    [] class = "SignalReport" -> IsReport(payload)
    [] class = "RogerSignalReport" -> IsRogerReport(payload)
    [] class = "Roger" -> payload = "RRR"
    [] class = "Ending73" -> payload = "73"
    [] class = "EndingRr73" -> payload = "RR73"
    [] OTHER -> FALSE

(* What the library may make of the message; None where no arm applies. *)
Packed(m) ==
  LET words == m.words
      general == m.class = "GeneralCall" /\ Len(words) \in 2..3 /\ words[1] = "CQ"
                   /\ Unbracketed(words[2]) = m.sender
      directed == m.class # "GeneralCall" /\ Len(words) = 3 /\ Unbracketed(words[1]) = m.sender
                   /\ Unbracketed(words[2]) = m.recipient /\ PayloadMatches(m.class, words[3])
  IN  CASE general /\ Len(words) = 2 /\ Base[m.sender] # m.sender -> Pack77Type4(words[2])
        [] general /\ Len(words) = 3 /\ IsGrid(words[3]) -> Pack77("CQ", words[2], words[3])
        [] directed /\ m.class = "DirectedGrid" -> Pack77Type1(words[1], words[2], words[3])
        [] directed /\ m.class # "DirectedGrid" -> Pack77(words[1], words[2], words[3])
        [] OTHER -> {None}

(* Mutant: what the library packs is not read back. *)
EncodeUnverified(m) == Packed(m)

(* encode: the bits, if they read back as the very text. *)
Encode(m) ==
  LET table == {m.sender, m.recipient} \ {None}
      Verified(bits) ==
        bits # None /\ Unpack77(bits, table) # None
          /\ NormalizeStandardReport(Unpack77(bits, table)) = m.words
  IN  {IF Verified(bits) THEN bits ELSE None : bits \in Packed(m)}

(* synthesize: a buffer, as what can be heard in it, or None. *)
Synthesize(request) ==
  LET Buffer(frames, start, bits) ==
        [frames |-> frames, heard |-> <<[offset |-> 2 * start, snr |-> 0, bits |-> bits]>>]
      Placed(bits) ==
        CASE bits = None -> None
          [] bits # None /\ request.start = None -> Buffer(FrameSamples, 0, bits)
          [] bits # None /\ request.start # None /\ request.start + FrameSamples <= SlotSamples ->
               Buffer(SlotSamples, request.start, bits)
          [] OTHER -> None
  IN  IF ~request.canonical \/ request.frequency > MaxTone THEN {None}
      ELSE {Placed(bits) : bits \in Encode(request.message)}

-----------------------------------------------------------------------------
(* Decoding a window.                                                      *)

(* Ft8OutcomeKind in its declared order. *)
Kinds == <<"resolved", "unresolved_hash", "unsupported", "ambiguous", "free_text">>
Rank(kind) == CHOOSE i \in DOMAIN Kinds : Kinds[i] = kind

(* The members of a finite set, those that come before others first. *)
InOrder(S, Before(_, _)) ==
  [n \in 1..Cardinality(S) |->
     CHOOSE x \in S : Cardinality({y \in S : Before(y, x)}) = n - 1]

(* Lexicographic order of keys. *)
Precedes(a, b) == \E n \in DOMAIN a : a[n] < b[n] /\ \A k \in 1..n - 1 : a[k] = b[k]

(* deterministic_cmp *)
SortKey(d) == <<d.offset, d.message.text, Rank(d.message.kind), d.snr>>

(* Ft8Decode::sort_deterministically, a stable sort by deterministic_cmp. *)
Sorted(decodes) ==
  LET Key(i) == SortKey(decodes[i])
      order == InOrder(DOMAIN decodes,
                       LAMBDA i, j : Precedes(Key(i), Key(j)) \/ (Key(i) = Key(j) /\ i < j))
  IN  [n \in DOMAIN decodes |-> decodes[order[n]]]

(* Raw metadata comes in halves, None where it is not finite; a half is    *)
(* rounded away from zero.                                                 *)
Rounded(halves) == IF halves >= 0 THEN (halves + 1) \div 2 ELSE -((1 - halves) \div 2)

Decodable(candidate) ==
  None \notin {candidate.offset, candidate.snr} /\ ClassifyBits(candidate.bits) # None

OwnedDecode(candidate) ==
  [offset |-> Rounded(candidate.offset), snr |-> Rounded(candidate.snr + SnrCalibration),
   message |-> ClassifyBits(candidate.bits)]

(* The results that are equal but for their loudness. *)
Same(owned, i) ==
  {j \in DOMAIN owned : owned[j].offset = owned[i].offset /\ owned[j].message = owned[i].message}

(* Mutant of Loudest: the first of several equal results is kept. *)
LoudestFirst(owned, i) == Min(Same(owned, i))

Loudest(owned, i) ==
  CHOOSE j \in Same(owned, i) : \A k \in Same(owned, i) : owned[k].snr <= owned[j].snr

(* Of equal results the loudest is kept, in the place of the first. *)
Merged(owned) ==
  LET places == InOrder({i \in DOMAIN owned : \A j \in Same(owned, i) : i <= j},
                        LAMBDA i, j : i < j)
  IN  [n \in DOMAIN places |-> owned[Loudest(owned, places[n])]]

(* decode: one candidate without metadata or content fails the window. *)
DecodeWindow(buffer) ==
  IF buffer.frames # SlotSamples \/ \E i \in DOMAIN buffer.heard : ~Decodable(buffer.heard[i])
  THEN None
  ELSE Sorted(Merged([i \in DOMAIN buffer.heard |-> OwnedDecode(buffer.heard[i])]))
===============================================================================
