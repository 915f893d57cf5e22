------------------------ MODULE CommandJournalProofs ------------------------
(***************************************************************************)
(* ExactReplay and AppliedOnce for any number of requests, envelopes,      *)
(* processors on the journal, processes and mutations of the port.  Every  *)
(* final answer is the journal's, which never changes; and between looking *)
(* a request up and journaling it, the receive processor can only lose its *)
(* identity to a no-op, never to a mutation of the port.                   *)
(***************************************************************************)
EXTENDS CommandJournal, TLAPS

Executing == {"lookup", "apply", "accept"}

(* Some start was applied in this process. *)
Started == \E a \in applied : a.proc = proc /\ a.cmd = "ReceiveStart"

Shapes ==
  /\ proc \in Nat
  /\ journal = [r \in Requests |-> journal[r]]
  /\ port.cache = [r \in Requests |-> port.cache[r]]
  /\ work = [p \in Processors |-> work[p]]

(* What a processor executes has a request. *)
Requested(w) ==
  /\ w.stage \in {"idle", "answer"} \union Executing
  /\ w.stage \in Executing => w.request \in Requests
  /\ w.stage = "lookup" =>
       w = [stage |-> "lookup", request |-> w.request, cmd |-> w.cmd, version |-> w.version]

(* What is about to be journaled was reported by the port of this process. *)
ReportIsOwn(w) ==
  w.stage = "accept" /\ w.outcome.kind = "Success" /\ w.cmd # "NoopMutation" =>
    w.outcome.report.proc = proc

(* A status that says receiving has a start to explain it. *)
StatusIsOwn(w) ==
  w.stage = "answer" /\ w.outcome.kind = "Status" /\ w.outcome.receiving => Started

(* Only the receive processor executes anything but a no-op, and from its  *)
(* lookup on a request's identity can go to a no-op only.                  *)
NotOvertaken(p, w) ==
  /\ w.stage \in Executing /\ p # Receiver => w.cmd = "NoopMutation"
  /\ w.stage \in {"apply", "accept"} /\ p = Receiver =>
       journal[w.request] = None \/ journal[w.request].cmd = "NoopMutation"

Allowed(p, w) == Requested(w) /\ ReportIsOwn(w) /\ StatusIsOwn(w) /\ NotOvertaken(p, w)

Worked == \A p \in Processors : Allowed(p, work[p])

PortRemembers ==
  /\ port.receiving \in BOOLEAN /\ (port.receiving => Started)
  /\ \A r \in Requests : port.cache[r] # None => port.cache[r].proc = proc
  /\ \A a \in applied :
       /\ a.proc \in Nat /\ a.proc <= proc /\ a.cmd # "NoopMutation" /\ a.request \in Requests
       /\ a.proc = proc => port.cache[a.request] # None

EffectsAreOnce ==
  \A a, b \in applied : a.proc = b.proc /\ a.request = b.request => a = b

(* No mutation is later than the journaled success of its command. *)
JournalIsLast ==
  \A r \in Requests : \A a \in applied :
    journal[r] # None /\ journal[r].result.kind = "Success" /\ a.request = r
      /\ a.cmd = journal[r].cmd => a.proc <= journal[r].result.report.proc

(* A final answer is the journal's. *)
RepliesAreJournaled ==
  \A a \in replies :
    /\ a.request \in Requests
    /\ Final(a) => /\ journal[a.request] # None
                   /\ journal[a.request].cmd = a.cmd /\ journal[a.request].result = a.outcome

JournalInv ==
  /\ Shapes /\ Worked /\ PortRemembers /\ EffectsAreOnce /\ JournalIsLast
  /\ RepliesAreJournaled

LEMMA JournalInit == Init => JournalInv
<1> SUFFICES ASSUME Init PROVE JournalInv
  OBVIOUS
<1>1. Shapes
  BY DEF Init, Shapes, NewPort
<1>2. Worked
  BY DEF Init, Worked, Allowed, Requested, ReportIsOwn, StatusIsOwn, NotOvertaken, Idle, Executing
<1>3. PortRemembers /\ EffectsAreOnce /\ JournalIsLast /\ RepliesAreJournaled
  BY DEF Init, PortRemembers, EffectsAreOnce, JournalIsLast, RepliesAreJournaled, NewPort
<1> QED BY <1>1, <1>2, <1>3 DEF JournalInv

(* p goes on to w, and neither journal nor port changes. *)
LEMMA WorkStep ==
  ASSUME JournalInv, NEW p \in Processors, NEW w, Allowed(p, w),
         work' = [work EXCEPT ![p] = w],
         UNCHANGED <<proc, journal, port, applied>>, RepliesAreJournaled'
  PROVE  JournalInv'
<1>1. /\ work' = [q \in Processors |-> work'[q]] /\ work'[p] = w
      /\ \A q \in Processors : q # p => work'[q] = work[q]
  BY DEF JournalInv, Shapes
<1>2. Shapes'
  BY <1>1 DEF JournalInv, Shapes
<1>3. \A q, v : Allowed(q, v) => Allowed(q, v)'
  BY DEF Allowed, Requested, ReportIsOwn, StatusIsOwn, NotOvertaken, Started
<1>4. Worked'
  <2>1. \A q \in Processors : Allowed(q, work'[q])
    BY <1>1 DEF JournalInv, Worked
  <2>2. \A q, v : q \in Processors /\ v = work'[q] => Allowed(q, v)'
    BY <1>3, <2>1
  <2> QED BY <2>2 DEF Worked
<1>5. PortRemembers' /\ EffectsAreOnce' /\ JournalIsLast'
  BY DEF JournalInv, PortRemembers, EffectsAreOnce, JournalIsLast, Started
<1> QED BY <1>2, <1>4, <1>5 DEF JournalInv

(* A processor that is done is idle. *)
LEMMA IdleIsAllowed == \A p : Allowed(p, Idle)
BY DEF Allowed, Requested, ReportIsOwn, StatusIsOwn, NotOvertaken, Idle, Executing

(* An answer that is the journal's, a conflict or a storage failure. *)
LEMMA ReplyStep ==
  ASSUME JournalInv, NEW p \in Processors, NEW outcome, NEW read \in BOOLEAN,
         work[p].stage \in Executing, Reply(p, outcome, read),
         \/ outcome \in {StorageFailed, Conflict}
         \/ /\ journal[work[p].request] # None
            /\ outcome = Stored(journal[work[p].request], work[p].cmd),
         UNCHANGED <<proc, journal, port, applied>>
  PROVE  JournalInv'
<1>a. work[p].request \in Requests
  BY DEF JournalInv, Worked, Allowed, Requested
<1>1. RepliesAreJournaled'
  <2> SUFFICES ASSUME NEW a \in replies' PROVE RepliesAreJournaled!(a)'
    BY DEF RepliesAreJournaled
  <2>1. CASE a \in replies
    BY <2>1 DEF JournalInv, RepliesAreJournaled, Final, Conflict
  <2>2. CASE a \notin replies
    <3>1. /\ a = [request |-> work[p].request, cmd |-> work[p].cmd, outcome |-> outcome]
          /\ outcome # StorageFailed
      BY <2>2 DEF Reply
    <3>2. a.request = work[p].request /\ a.cmd = work[p].cmd /\ a.outcome = outcome
      BY <3>1
    <3>3. ASSUME Final(a)
          PROVE  /\ journal[a.request] # None
                 /\ journal[a.request].cmd = a.cmd /\ journal[a.request].result = a.outcome
      <4>1. outcome # Conflict
        BY <3>2, <3>3 DEF Final
      <4> QED BY <3>1, <3>2, <4>1 DEF Stored
    <3> QED BY <1>a, <3>2, <3>3 DEF Final, Conflict, None
  <2> QED BY <2>1, <2>2
<1>2. work' = [work EXCEPT ![p] = Idle]
  BY DEF Reply
<1> QED BY <1>1, <1>2, IdleIsAllowed, WorkStep

-----------------------------------------------------------------------------
(* What is answered at once. *)

(* The base service never says receiving, and what it calls capabilities   *)
(* are capabilities.                                                       *)
LEMMA BaseAnswer ==
  ASSUME NEW env
  PROVE  LET o == NoopServiceExecute(env)
         IN  /\ o.kind = "Status" => o.receiving = FALSE
             /\ o.kind = "Capabilities" => \E v, n, i : o = Capabilities(v, n, i)
<1>1. \A v, c, r : ApiError(v, c, r).kind = "Error"
  BY DEF ApiError
<1>2. LET o == Negotiate(env)
      IN  o.kind = "Error" \/ (\E v, n, i : o = Capabilities(v, n, i) /\ o.kind = "Capabilities")
  <2>1. \A v, n, i : Capabilities(v, n, i).kind = "Capabilities"
    BY DEF Capabilities
  <2> DEFINE agreed == SelectSeq(env.offered, LAMBDA v : v \in SupportedApiVersions)
             tooLarge == ApiError(env.version, "NegotiationTooLarge", FALSE)
             capable == Capabilities(env.version, Head(agreed),
                          IF Head(agreed) >= ApiVersion THEN "Unavailable" ELSE "None")
             refused == ApiError(env.version, "IncompatibleApiVersion", FALSE)
  <2>2. Negotiate(env) = CASE Len(env.offered) > MaxNegotiation -> tooLarge
                           [] Len(env.offered) <= MaxNegotiation /\ agreed # <<>> -> capable
                           [] OTHER -> refused
    BY Zenon DEF Negotiate
  <2>3. tooLarge.kind = "Error" /\ refused.kind = "Error"
    BY <1>1
  <2>4. \E v, n, i : capable = Capabilities(v, n, i)
    BY Zenon
  <2> HIDE DEF agreed, tooLarge, capable, refused
  <2>5. Negotiate(env) \in {tooLarge, capable, refused}
    BY <2>2
  <2> QED BY <2>1, <2>3, <2>4, <2>5
<1>3. \A v : Status(v, FALSE).kind = "Status" /\ Status(v, FALSE).receiving = FALSE
  BY DEF Status
<1> QED BY <1>1, <1>2, <1>3 DEF NoopServiceExecute

(* A status that says receiving says what the port says. *)
LEMMA StatusIsThePorts ==
  ASSUME NEW p, NEW env, port.receiving \in BOOLEAN, NEW o \in Answers(p, env),
         o.kind = "Status", o.receiving
  PROVE  port.receiving
<1>1. o # NoopServiceExecute(env)
  BY BaseAnswer
<1>2. \A v, c, r : o # ApiError(v, c, r)
  BY DEF ApiError
<1>3. p = Receiver /\ o \in ReceiveAnswers(env, port.receiving)
  <2>1. NoResponse.kind # "Status"
    BY DEF NoResponse
  <2> QED BY <1>1, <2>1 DEF Answers, CommandAnswers
<1>4. o \in ExecuteReadOnly(env, port.receiving)
  BY <1>1, <1>2, <1>3 DEF ReceiveAnswers
<1>5. \A v : o \notin Faults(v)
  BY <1>2 DEF Faults
<1>6. \A v : o # Listing(v)
  BY DEF Listing
<1>7. CASE env.cmd = "GetCapabilities"
  <2>1. o = IF NoopServiceExecute(env).kind = "Capabilities"
            THEN [NoopServiceExecute(env) EXCEPT !.receiveInput = "Available"]
            ELSE NoopServiceExecute(env)
    BY <1>4, <1>7 DEF ExecuteReadOnly
  <2>2. PICK v, n, i : NoopServiceExecute(env) = Capabilities(v, n, i)
    BY <1>1, <2>1, BaseAnswer
  <2>3. o = [Capabilities(v, n, i) EXCEPT !.receiveInput = "Available"]
    BY <1>1, <2>1, <2>2
  <2> QED BY <2>3 DEF Capabilities
<1>8. CASE env.cmd # "GetCapabilities"
  <2>1. o = Status(env.version, port.receiving)
    BY <1>2, <1>4, <1>5, <1>6, <1>8 DEF ExecuteReadOnly
  <2> QED BY <2>1 DEF Status
<1> QED BY <1>7, <1>8

(* A CommandProcessor takes to the journal nothing but the no-op. *)
LEMMA NoopOnly ==
  ASSUME NEW p \in Processors, p # Receiver, NEW env, Answers(p, env) = {}
  PROVE  env.cmd = "NoopMutation"
BY DEF Answers, CommandAnswers

LEMMA AnswerStep ==
  ASSUME JournalInv, NEW p \in Processors, NEW env, Answer(p, env)
  PROVE  JournalInv'
<1>1. PICK o \in Answers(p, env) : work' = [work EXCEPT ![p] = [stage |-> "answer", outcome |-> o]]
  BY DEF Answer
<1> DEFINE w == [stage |-> "answer", outcome |-> o]
<1>2. o.kind = "Status" /\ o.receiving => Started
  <2>1. port.receiving \in BOOLEAN /\ (port.receiving => Started)
    BY DEF JournalInv, PortRemembers
  <2> QED BY <2>1, StatusIsThePorts
<1>3. Allowed(p, w)
  BY <1>2 DEF Allowed, Requested, ReportIsOwn, StatusIsOwn, NotOvertaken, Executing
<1>4. RepliesAreJournaled'
  BY DEF JournalInv, RepliesAreJournaled, Answer, Final, Conflict
<1> QED BY <1>1, <1>3, <1>4, WorkStep DEF Answer

LEMMA AcceptStep ==
  ASSUME JournalInv, NEW p \in Processors, NEW r \in Requests, NEW env, Accept(p, r, env)
  PROVE  JournalInv'
<1> DEFINE w == [stage |-> IF p = Receiver THEN "lookup" ELSE "apply",
                 request |-> r, cmd |-> env.cmd, version |-> env.version]
<1>1. p # Receiver => env.cmd = "NoopMutation"
  BY NoopOnly DEF Accept
<1>2. Allowed(p, w)
  BY <1>1 DEF Allowed, Requested, ReportIsOwn, StatusIsOwn, NotOvertaken, Executing
<1>3. RepliesAreJournaled'
  BY DEF JournalInv, RepliesAreJournaled, Accept, Final, Conflict
<1> QED BY <1>2, <1>3, WorkStep DEF Accept

LEMMA AnsweredStep ==
  ASSUME JournalInv, NEW p \in Processors, Answered(p)
  PROVE  JournalInv'
<1>1. RepliesAreJournaled'
  BY DEF JournalInv, RepliesAreJournaled, Answered, Final, Conflict
<1> QED BY <1>1, IdleIsAllowed, WorkStep DEF Answered

-----------------------------------------------------------------------------
(* What goes through the journal. *)

LEMMA LookupStep ==
  ASSUME JournalInv, NEW p \in Processors, NEW read \in BOOLEAN, Lookup(p, read)
  PROVE  JournalInv'
<1>0. work[p].stage \in Executing
  BY DEF Lookup, Executing
<1>1. CASE journal[work[p].request] # None
  BY <1>0, <1>1, ReplyStep DEF Lookup
<1>2. CASE journal[work[p].request] = None
  <2> DEFINE w == [work[p] EXCEPT !.stage = "apply"]
  <2>1. work' = [work EXCEPT ![p] = w]
    BY <1>2 DEF Lookup
  <2>2. Allowed(p, work[p])
    BY DEF JournalInv, Worked
  <2>3. w = [stage |-> "apply", request |-> work[p].request, cmd |-> work[p].cmd,
             version |-> work[p].version]
    BY <2>2 DEF Allowed, Requested, Lookup
  <2>4. Allowed(p, w)
    BY <1>2, <2>2, <2>3
    DEF Allowed, Requested, ReportIsOwn, StatusIsOwn, NotOvertaken, Executing, Lookup
  <2>5. RepliesAreJournaled'
    BY <1>2 DEF JournalInv, RepliesAreJournaled, Lookup, Final, Conflict
  <2> HIDE DEF w
  <2> QED BY <2>1, <2>4, <2>5, WorkStep DEF Lookup
<1> QED BY <1>1, <1>2

LEMMA FailureStep ==
  ASSUME JournalInv, NEW p \in Processors, NEW read \in BOOLEAN,
         LookupFails(p, read) \/ JournalFails(p, read)
  PROVE  JournalInv'
BY ReplyStep DEF LookupFails, JournalFails, Executing

(* An outcome on its way to the journal. *)
LEMMA OutcomeIsAllowed ==
  ASSUME JournalInv, NEW p \in Processors, work[p].stage = "apply", NEW outcome,
         outcome.kind = "Success" /\ work[p].cmd # "NoopMutation" => outcome.report.proc = proc
  PROVE  Allowed(p, [stage |-> "accept", request |-> work[p].request, cmd |-> work[p].cmd,
                     version |-> work[p].version, outcome |-> outcome])
BY DEF JournalInv, Worked, Allowed, Requested, ReportIsOwn, StatusIsOwn, NotOvertaken, Executing

LEMMA ApplyKnownStep ==
  ASSUME JournalInv, NEW p \in Processors, ApplyKnown(p)
  PROVE  JournalInv'
<1>1. RepliesAreJournaled'
  BY DEF JournalInv, RepliesAreJournaled, ApplyKnown, Final, Conflict
<1>2. work[p].request \in Requests /\ work[p].stage = "apply"
  BY DEF JournalInv, Worked, Allowed, Requested, ApplyKnown, Executing
<1>3. PICK outcome : /\ Computed(p, outcome)
                     /\ outcome.kind = "Success" /\ work[p].cmd # "NoopMutation" =>
                           outcome.report.proc = proc
  <2>1. CASE work[p].cmd = "NoopMutation"
    BY <2>1 DEF ApplyKnown
  <2>2. CASE work[p].cmd # "NoopMutation"
    <3> DEFINE cached == port.cache[work[p].request]
    <3>1. cached # None /\ Computed(p, Success(work[p].version, work[p].cmd, cached))
      BY <2>2 DEF ApplyKnown
    <3>2. cached.proc = proc
      BY <1>2, <3>1 DEF JournalInv, PortRemembers
    <3>3. Success(work[p].version, work[p].cmd, cached).report = cached
      BY DEF Success
    <3> QED BY <3>1, <3>2, <3>3
  <2> QED BY <2>1, <2>2
<1> QED BY <1>1, <1>2, <1>3, OutcomeIsAllowed, WorkStep DEF Computed, ApplyKnown

LEMMA ApplyFaultStep ==
  ASSUME JournalInv, NEW p \in Processors, ApplyFault(p)
  PROVE  JournalInv'
<1>1. RepliesAreJournaled'
  BY DEF JournalInv, RepliesAreJournaled, ApplyFault, Final, Conflict
<1>2. PICK fault \in Faults(work[p].version) : Computed(p, fault)
  BY DEF ApplyFault
<1>3. fault.kind # "Success"
  BY DEF Faults, ApiError
<1> QED BY <1>1, <1>2, <1>3, OutcomeIsAllowed, WorkStep DEF Computed, ApplyFault

LEMMA ApplyMutationStep ==
  ASSUME JournalInv, NEW p \in Processors, ApplyMutation(p)
  PROVE  JournalInv'
<1> DEFINE report == [kind |-> "Report", proc |-> proc, receiving |-> work[p].cmd = "ReceiveStart"]
           outcome == Success(work[p].version, work[p].cmd, report)
           w == [stage |-> "accept", request |-> work[p].request, cmd |-> work[p].cmd,
                 version |-> work[p].version, outcome |-> outcome]
           effect == [proc |-> proc, request |-> work[p].request, cmd |-> work[p].cmd,
                      nth |-> Cardinality({a \in applied : a.proc = proc})]
<1>1. /\ work[p].stage = "apply" /\ work[p].cmd # "NoopMutation"
      /\ port.cache[work[p].request] = None
      /\ work' = [work EXCEPT ![p] = w] /\ applied' = applied \union {effect}
      /\ UNCHANGED <<proc, journal, replies>>
  BY DEF ApplyMutation, Computed
<1>2. /\ port'.receiving = (work[p].cmd = "ReceiveStart")
      /\ port'.cache = [port.cache EXCEPT ![work[p].request] = report]
  BY DEF ApplyMutation
<1>3. effect.proc = proc /\ effect.request = work[p].request /\ effect.cmd = work[p].cmd
  OBVIOUS
<1>4. report.proc = proc /\ report # None
  BY DEF None
<1>5. Allowed(p, w)
  <2>1. outcome.report.proc = proc
    BY DEF Success
  <2> QED BY <1>1, <2>1, OutcomeIsAllowed
<1> HIDE DEF report, w, effect
<1>6. /\ work[p].request \in Requests
      /\ journal[work[p].request] = None \/ journal[work[p].request].cmd = "NoopMutation"
  BY <1>1 DEF JournalInv, Worked, Allowed, Requested, NotOvertaken, Executing
<1>7. Shapes'
  BY <1>1, <1>2 DEF JournalInv, Shapes
<1>8. Worked'
  <2>1. /\ work'[p] = w
        /\ \A q \in Processors : q # p => work'[q] = work[q]
    BY <1>1 DEF JournalInv, Shapes
  <2>2. \A q \in Processors : Allowed(q, work'[q])
    BY <1>5, <2>1 DEF JournalInv, Worked
  <2>3. \A q, v : Allowed(q, v) => Allowed(q, v)'
    BY <1>1 DEF Allowed, Requested, ReportIsOwn, StatusIsOwn, NotOvertaken, Started
  <2>4. \A q, v : q \in Processors /\ v = work'[q] => Allowed(q, v)'
    BY <2>2, <2>3
  <2> QED BY <2>4 DEF Worked
<1>9. PortRemembers'
  <2>1. port'.receiving \in BOOLEAN /\ (port'.receiving => Started')
    BY <1>1, <1>2, <1>3 DEF Started
  <2>2. \A r \in Requests :
          port'.cache[r] = IF r = work[p].request THEN report ELSE port.cache[r]
    BY <1>2 DEF JournalInv, Shapes
  <2>3. \A r \in Requests : port'.cache[r] # None => port'.cache[r].proc = proc'
    BY <1>1, <1>4, <2>2 DEF JournalInv, PortRemembers
  <2>4. ASSUME NEW a \in applied'
        PROVE  /\ a.proc \in Nat /\ a.proc <= proc' /\ a.cmd # "NoopMutation"
               /\ a.request \in Requests
               /\ a.proc = proc' => port'.cache[a.request] # None'
    <3>0. None' = None
      BY DEF None
    <3>1. CASE a \in applied
      BY <1>1, <1>4, <2>2, <3>0, <3>1 DEF JournalInv, PortRemembers
    <3>2. CASE a = effect
      BY <1>1, <1>3, <1>4, <1>6, <2>2, <3>0, <3>2 DEF JournalInv, Shapes
    <3> QED BY <1>1, <3>1, <3>2
  <2> QED BY <2>1, <2>3, <2>4 DEF PortRemembers, None
<1>10. EffectsAreOnce'
  <2>1. \A b \in applied : ~(b.proc = proc /\ b.request = work[p].request)
    BY <1>1 DEF JournalInv, PortRemembers
  <2> QED BY <1>1, <1>3, <2>1 DEF JournalInv, EffectsAreOnce
<1>11. JournalIsLast'
  <2>1. None' = None
    BY DEF None
  <2>2. \A a \in applied' : a \in applied \/ a = effect
    BY <1>1
  <2> QED BY <1>1, <1>3, <1>6, <2>1, <2>2 DEF JournalInv, JournalIsLast
<1>12. RepliesAreJournaled'
  BY <1>1 DEF JournalInv, RepliesAreJournaled, Final, Conflict, None
<1> QED BY <1>7, <1>8, <1>9, <1>10, <1>11, <1>12 DEF JournalInv

(* The outcome becomes the request's, for every process to come. *)
LEMMA InsertStep ==
  ASSUME JournalInv, NEW p \in Processors, NEW read \in BOOLEAN,
         work[p].stage = "accept", journal[work[p].request] = None,
         journal' = [journal EXCEPT ![work[p].request] =
           [kind |-> "Entry", cmd |-> work[p].cmd, result |-> work[p].outcome]],
         Reply(p, work[p].outcome, read),
         UNCHANGED <<proc, port, applied>>
  PROVE  JournalInv'
<1> DEFINE entry == [kind |-> "Entry", cmd |-> work[p].cmd, result |-> work[p].outcome]
           request == work[p].request
<1>1. /\ request \in Requests
      /\ p # Receiver => work[p].cmd = "NoopMutation"
      /\ work[p].outcome.kind = "Success" /\ work[p].cmd # "NoopMutation" =>
           work[p].outcome.report.proc = proc
  BY DEF JournalInv, Worked, Allowed, Requested, ReportIsOwn, NotOvertaken, Executing
<1>2. entry.cmd = work[p].cmd /\ entry.result = work[p].outcome /\ entry # None
  BY DEF None
<1>3. None' = None /\ Conflict' = Conflict
  BY DEF None, Conflict
<1> HIDE DEF entry
<1>4. /\ journal' = [r \in Requests |-> journal'[r]]
      /\ \A r \in Requests : journal'[r] = IF r = request THEN entry ELSE journal[r]
  BY DEF JournalInv, Shapes, entry
<1>5. /\ work' = [q \in Processors |-> work'[q]] /\ work'[p] = Idle
      /\ \A q \in Processors : q # p => work'[q] = work[q]
  BY DEF JournalInv, Shapes, Reply
<1>6. Shapes'
  BY <1>4, <1>5 DEF JournalInv, Shapes
<1>7. Worked'
  <2>1. ASSUME NEW q \in Processors, NEW v, Allowed(q, v), q # p \/ v = Idle
        PROVE  Allowed(q, v)'
    <3>1. NotOvertaken(q, v)'
      <4>1. CASE v = Idle
        BY <4>1 DEF NotOvertaken, Idle, Executing
      <4>2. CASE v # Idle /\ v.stage \in {"apply", "accept"} /\ q = Receiver
        <5>1. work[p].cmd = "NoopMutation" /\ v.request \in Requests
          BY <1>1, <2>1, <4>2 DEF Allowed, Requested, Executing
        <5> QED BY <1>2, <1>3, <1>4, <2>1, <4>2, <5>1 DEF Allowed, NotOvertaken
      <4>3. CASE ~(v.stage \in {"apply", "accept"} /\ q = Receiver)
        BY <2>1, <4>3 DEF Allowed, NotOvertaken
      <4> QED BY <4>1, <4>2, <4>3
    <3>2. Requested(v)' /\ ReportIsOwn(v)' /\ StatusIsOwn(v)'
      BY <2>1 DEF Allowed, Requested, ReportIsOwn, StatusIsOwn, Started
    <3> QED BY <3>1, <3>2 DEF Allowed
  <2>2. \A q \in Processors : Allowed(q, work'[q]) /\ (q # p \/ work'[q] = Idle)
    BY <1>5, IdleIsAllowed DEF JournalInv, Worked
  <2>3. \A q, v : q \in Processors /\ v = work'[q] => Allowed(q, v)'
    BY <2>1, <2>2
  <2> QED BY <2>3 DEF Worked
<1>8. PortRemembers' /\ EffectsAreOnce'
  BY DEF JournalInv, PortRemembers, EffectsAreOnce, Started, None
<1>9. JournalIsLast'
  <2>1. \A a \in applied : a.proc \in Nat /\ a.proc <= proc /\ a.cmd # "NoopMutation"
    BY DEF JournalInv, PortRemembers
  <2> QED BY <1>1, <1>2, <1>3, <1>4, <2>1 DEF JournalInv, JournalIsLast
<1>10. RepliesAreJournaled'
  <2> SUFFICES ASSUME NEW a \in replies' PROVE RepliesAreJournaled!(a)'
    BY DEF RepliesAreJournaled
  <2>1. CASE a \in replies
    BY <1>3, <1>4, <2>1 DEF JournalInv, RepliesAreJournaled, Final
  <2>2. CASE a \notin replies
    <3>1. a = [request |-> work[p].request, cmd |-> work[p].cmd, outcome |-> work[p].outcome]
      BY <2>2 DEF Reply
    <3>2. a.request = request /\ a.cmd = work[p].cmd /\ a.outcome = work[p].outcome
      BY <3>1
    <3> QED BY <1>1, <1>2, <1>3, <1>4, <3>2
  <2> QED BY <2>1, <2>2
<1> QED BY <1>6, <1>7, <1>8, <1>9, <1>10 DEF JournalInv

LEMMA JournalsStep ==
  ASSUME JournalInv, NEW p \in Processors, NEW read \in BOOLEAN, Journal(p, read)
  PROVE  JournalInv'
<1>1. CASE journal[work[p].request] = None
  BY <1>1, InsertStep DEF Journal
<1>2. CASE journal[work[p].request] # None
  <2>1. work[p].stage \in Executing
    BY DEF Journal, Executing
  <2> QED BY <1>2, <2>1, ReplyStep DEF Journal
<1> QED BY <1>1, <1>2

LEMMA RestartStep ==
  ASSUME JournalInv, Restart
  PROVE  JournalInv'
<1>0. None' = None
  BY DEF None
<1>1. Shapes'
  BY DEF JournalInv, Shapes, Restart, NewPort
<1>2. Worked'
  <2>1. \A q \in Processors : work'[q] = Idle
    BY DEF Restart
  <2>2. \A q : Allowed(q, Idle)'
    BY DEF Allowed, Requested, ReportIsOwn, StatusIsOwn, NotOvertaken, Idle, Executing
  <2>3. \A q, v : q \in Processors /\ v = work'[q] => Allowed(q, v)'
    BY <2>1, <2>2 DEF Idle
  <2> QED BY <2>3 DEF Worked
<1>3. PortRemembers'
  <2>1. /\ port'.receiving = FALSE /\ \A r \in Requests : port'.cache[r] = None
        /\ proc' = proc + 1 /\ applied' = applied /\ proc \in Nat
    BY DEF Restart, NewPort, JournalInv, Shapes
  <2>2. \A a \in applied :
          /\ a.proc \in Nat /\ a.proc <= proc /\ a.cmd # "NoopMutation"
          /\ a.request \in Requests
    BY DEF JournalInv, PortRemembers
  <2>3. \A a \in applied : a.proc # proc' /\ a.proc <= proc'
    BY <2>1, <2>2
  <2> QED BY <1>0, <2>1, <2>2, <2>3 DEF PortRemembers
<1>4. EffectsAreOnce' /\ JournalIsLast' /\ RepliesAreJournaled'
  BY <1>0 DEF JournalInv, EffectsAreOnce, JournalIsLast, RepliesAreJournaled, Restart, Final, Conflict
<1> QED BY <1>1, <1>2, <1>3, <1>4 DEF JournalInv

LEMMA JournalStep == JournalInv /\ [Next]_vars => JournalInv'
<1> SUFFICES ASSUME JournalInv, [Next]_vars PROVE JournalInv'
  OBVIOUS
<1>1. ASSUME NEW p \in Processors, Execute(p) PROVE JournalInv'
  BY <1>1, LookupStep, FailureStep, JournalsStep, ApplyKnownStep, ApplyMutationStep,
     ApplyFaultStep, AnsweredStep DEF Execute
<1>2. CASE Restart
  BY <1>2, RestartStep
<1>3. CASE UNCHANGED vars
  BY <1>3 DEF vars, JournalInv, Shapes, Worked, Allowed, Requested, ReportIsOwn, StatusIsOwn,
       NotOvertaken, Started, PortRemembers, EffectsAreOnce, JournalIsLast, RepliesAreJournaled, Final
<1> QED BY <1>1, <1>2, <1>3, AnswerStep, AcceptStep DEF Next

(* The inductive invariant of the request journal: every final answer is   *)
(* the journal's, which no step changes once written, and what the port of *)
(* a process did is remembered by that port.                               *)
THEOREM JournalInvariant == Spec => []JournalInv
<1>1. Init => JournalInv
  BY JournalInit
<1>2. JournalInv /\ [Next]_vars => JournalInv'
  BY JournalStep
<1> QED BY <1>1, <1>2, PTL DEF Spec

(* A request and its command get one answer for ever (receive_api.rs       *)
(* execute_mutating, storage accept_or_existing), for any number of        *)
(* requests, processors, processes, retries and API versions.              *)
THEOREM ReplayIsExact == Spec => []ExactReplay
<1>1. JournalInv => ExactReplay
  BY DEF JournalInv, RepliesAreJournaled, ExactReplay
<1> QED BY <1>1, JournalInvariant, PTL

(* Within a process a request mutates the port once; a command that was    *)
(* answered with success mutates it in no later process; and a receiving   *)
(* status is explained by a start of the same process.                     *)
THEOREM EffectsAppliedOnce == Spec => []AppliedOnce
<1>1. ASSUME JournalInv PROVE AppliedOnce
  <2>1. ASSUME NEW a \in applied, NEW r \in replies,
               r.request = a.request, r.cmd = a.cmd, r.outcome.kind = "Success"
        PROVE  a.proc <= r.outcome.report.proc
    <3>1. Final(r)
      BY <2>1 DEF Final, Conflict
    <3>2. /\ journal[r.request] # None /\ journal[r.request].cmd = r.cmd
          /\ journal[r.request].result = r.outcome /\ r.request \in Requests
      BY <1>1, <3>1 DEF JournalInv, RepliesAreJournaled
    <3> QED BY <1>1, <2>1, <3>2 DEF JournalInv, JournalIsLast
  <2>2. \A p \in Processors :
          work[p].stage = "answer" /\ work[p].outcome.kind = "Status" /\ work[p].outcome.receiving =>
            \E a \in applied : a.proc = proc /\ a.cmd = "ReceiveStart"
    BY <1>1 DEF JournalInv, Worked, Allowed, StatusIsOwn, Started
  <2> QED BY <1>1, <2>1, <2>2 DEF AppliedOnce, JournalInv, EffectsAreOnce
<1> QED BY <1>1, JournalInvariant, PTL
=============================================================================
