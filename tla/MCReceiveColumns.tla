--------------------------- MODULE MCReceiveColumns ---------------------------
(* Arguments and rows that vary, around a plain record, the parts that the *)
(* checks relate to each other: the clock with the decodes, the times with *)
(* each other, and the decodes among themselves, at and past every bound.  *)
EXTENDS ReceiveColumns

Message(kind, text, class, sender, recipient, detail) ==
  [kind |-> kind, text |-> text, class |-> class, sender |-> sender,
   recipient |-> recipient, detail |-> detail]

Messages ==
  {Message("resolved", 1, "GeneralCall", "a", None, None)}
    \union {Message("resolved", 1, c, "a", "b", None) : c \in DOMAIN ClassToStr \ {"GeneralCall"}}
    \union {Message(k, 2, None, None, None, 1) : k \in Detailed}
    \union {Message("free_text", 1, None, None, None, None)}

Decodes == [offset : {-MaxOffset, 0, MaxOffset + 1}, snr : {0, MaxSnr, MaxSnr + 1}, message : Messages]
FewDecodes ==
  {d \in Decodes : (d.offset = 0 /\ d.snr = 0) \/ d.message.kind = "free_text"}

Faults ==
  [kind : DOMAIN FaultToStr \ (Signed \union Unsigned), value : {None}]
    \union [kind : Signed, value : I64] \union [kind : Unsigned, value : U64]

Clocks ==
  [fault : {None}, progress : {0}, required : {0}, age : 0..MaxAge + 1]
    \union [fault : Faults, progress : 0..2, required : 1..MaxRequired + 1, age : {0, MaxAge, MaxAge + 1}]

Healthy == [fault |-> None, progress |-> 0, required |-> 0, age |-> 1]
Plain ==
  [slot |-> 0, captureUtc |-> 0, count |-> 1, platform |-> "LinuxAlsa", format |-> "Signed16", recorded |-> 0,
   drift |-> 0, clock |-> Healthy, decodes |-> <<>>]
AnyDecode == CHOOSE d \in FewDecodes : d.offset = 0 /\ d.snr = 0

MCArguments ==
  {[Plain EXCEPT !.clock = c, !.decodes = s] : c \in Clocks, s \in {<<>>, <<AnyDecode>>}}
    \union {[Plain EXCEPT !.decodes = s] :
              s \in {<<d>> : d \in Decodes} \union {<<d, e>> : d, e \in FewDecodes}
                      \union {<<AnyDecode, AnyDecode, d>> : d \in FewDecodes}}
    \union {[Plain EXCEPT !.platform = p, !.format = f] :
              p \in DOMAIN PlatformToStr, f \in DOMAIN FormatToStr}
    \union [slot : {0, SlotMillis}, captureUtc : 0..SlotMillis, count : U64,
            platform : {"LinuxJack"}, format : {"Float32"}, recorded : {-1, 0, MaxI64},
            drift : {-MaxDrift - 1, -MaxDrift, MaxDrift + 1}, clock : {Healthy}, decodes : {<<>>}]

MessageRows ==
  [kind : {Kinds[i] : i \in DOMAIN Kinds}, text : {0, 1}, detail : {None, 0, 1},
   class : {None, "general_call", "roger"}, sender : {None, "a", "unparsable"},
   recipient : {None, "a"}]
DecodeRows ==
  {d \in [index : 0..MaxDecodes - 1, offset : {0, 1}, snr : {0}, message : MessageRows] : CheckDecode(d)}
FewDecodeRows == {d \in DecodeRows : d.message.text = 1 /\ d.message.detail # 0 /\ d.message.sender # "unparsable"}

ClockRows ==
  {c \in [state : {"healthy", "unhealthy"}, kind : {None} \union DOMAIN StrToFault,
          value : {None} \union I64, progress : 0..2, required : 0..MaxRequired, age : {0, MaxAge}] :
     (c.value # None => c.kind # None) /\ CheckClock(c)}

PlainRow == Columns(Plain)

MCRows ==
  {[PlainRow EXCEPT !.clock = c, !.decodes = s] :
     c \in ClockRows, s \in {{}, {DecodeColumns(0, AnyDecode)}}}
    \union {[PlainRow EXCEPT !.decodes = {d}] : d \in DecodeRows}
    \union {[PlainRow EXCEPT !.decodes = {d, e}] : d, e \in FewDecodeRows}
    \union {[PlainRow EXCEPT !.slot = s, !.captureUtc = u, !.recorded = r] :
              s \in {0, SlotMillis}, u \in 0..SlotMillis, r \in {0, MaxI64}}
    \union {[PlainRow EXCEPT !.platform = p, !.format = f] :
              p \in DOMAIN StrToPlatform, f \in DOMAIN StrToFormat}

-----------------------------------------------------------------------------
(* Two standard calls and a compound one whose base is the first of them;  *)
(* RR73 is a grid and an ending; of two reports one loses a zero.          *)

MCCallsigns == {"K1ABC", "W1AW", "K1ABC/P"}
MCStandard == {"CQ", "K1ABC", "W1AW"}
MCBase == [c \in MCCallsigns |-> IF c = "W1AW" THEN c ELSE "K1ABC"]
MCBracket ==
  [c \in MCCallsigns |-> CASE c = "K1ABC" -> "<K1ABC>" [] c = "W1AW" -> "<W1AW>"
                          [] c = "K1ABC/P" -> "<K1ABC/P>"]
MCKnown == {"K1ABC", "K1ABC/P"}
MCGridIndex == [g \in {"FN42", "RR73"} |-> IF g = "FN42" THEN 1 ELSE 2]
MCReportForms ==
  [c \in {5, 6} |->
     IF c = 5 THEN [long |-> "-12", short |-> "-12", rogerLong |-> "R-12", rogerShort |-> "R-12"]
     ELSE [long |-> "+05", short |-> "+5", rogerLong |-> "R+05", rogerShort |-> "R+5"]]
MCVocabulary ==
  <<"+05", "+5", "-12", "73", Unresolved, "<K1ABC/P>", "<K1ABC>", "<W1AW>", "CQ", "DE", "FN42",
    "HELLO", "K1ABC", "K1ABC/P", "R", "R+05", "R+5", "R-12", "RR73", "RRR", "UNSUPPORTED", "W1AW">>

Payloads == {"FN42", "RR73", "RRR", "73", "-12", "+05", "+5", "R+05"}
CallWords == MCCallsigns \union {MCBracket[c] : c \in MCCallsigns}
Texts ==
  {<<"CQ", c>> : c \in CallWords} \union {<<"CQ", c, p>> : c \in CallWords, p \in {"FN42", "RR73", "73"}}
    \union {<<c, d, p>> : c, d \in CallWords, p \in Payloads}

Composed ==
  {m \in [words : Texts, class : DOMAIN ClassToStr, sender : MCCallsigns,
          recipient : MCCallsigns \union {None}] :
     (m.class = "GeneralCall") = (m.recipient = None)}

MCRequests ==
  [message : {m \in Composed : \E n \in 1..2 : Unbracketed(m.words[n]) = m.sender},
   canonical : {TRUE}, frequency : {MaxTone}, start : {1}]
    \union [message : {m \in Composed : m.words = <<"W1AW", "K1ABC", "RR73">>},
            canonical : BOOLEAN, frequency : {MaxTone, MaxTone + 1}, start : {None} \union 0..2]

Field == [call : MCStandard \union {None, "DE"}, hashed : {FALSE}]
           \union [call : MCCallsigns, hashed : {TRUE}]
MCBits ==
  [i3 : {1, 2}, n3 : {0}, calls : Field \X Field, roger : {FALSE}, code : 1..MaxGrid + 6]
    \union [i3 : {1}, n3 : {0}, calls : Field \X Field, roger : {TRUE},
            code : 1..MaxGrid \union {MaxGrid + 5, MaxGrid + 6}]
    \union [i3 : {4}, n3 : {0}, calls : Field \X Field, cq : {FALSE}, code : 0..3]
    \union [i3 : {0, 3}, n3 : {0, 1}, text : {<<"HELLO", "W1AW">>, None}]

Candidate(offset, snr, bits) == [offset |-> offset, snr |-> snr, bits |-> bits]
Directed(code) == Type1(<<PlainCall("W1AW"), PlainCall("K1ABC")>>, FALSE, code)
FewCandidates ==
  {Candidate(o, n, b) : o \in {-2, -1, 0}, n \in {-2, 0}, b \in {Directed(2), Directed(MaxGrid + 3)}}
    \union {Candidate(None, 0, Directed(1)), Candidate(0, None, Directed(1)),
            Candidate(0, 0, Type1(<<PlainCall(None), PlainCall("W1AW")>>, FALSE, 1))}

MCBuffers ==
  [frames : {SlotSamples}, heard : {<<Candidate(0, 0, b)>> : b \in MCBits}]
    \union [frames : {SlotSamples - 1, SlotSamples},
            heard : {<<>>} \union {<<c, d>> : c, d \in FewCandidates}
                      \union {<<c, d, e>> : c, d, e \in {f \in FewCandidates : f.snr # None /\ f.offset # None}}]
=============================================================================
