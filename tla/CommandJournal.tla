--------------------------- MODULE CommandJournal ---------------------------
(***************************************************************************)
(* The daemon's command processors, ReceiveApiProcessor                    *)
(* (apps/daemon/src/receive_api.rs) and CommandProcessor                   *)
(* (apps/daemon/src/lib.rs), over one request journal                      *)
(* (crates/storage/src/lib.rs), served over a connection that may break    *)
(* before the response is read.  ApiService says what they answer at once; *)
(* any other command is mutating: the receive processor looks the request  *)
(* up, applies it to its port and only then journals the response, three   *)
(* steps between which the daemon may die or another processor commit.     *)
(***************************************************************************)
EXTENDS ApiService, FiniteSets

CONSTANTS
  Requests,    \* request identities
  Receiver,    \* the ReceiveApiProcessor, owner of the port
  Noop,        \* CommandProcessors on the same journal file
  Envelopes,   \* what clients send, without the request identity
  MaxProcs,    \* bound: daemon processes
  MaxEffects   \* bound: mutations of the port in one process

ASSUME CommandJournalAssumption ==
  /\ Receiver \notin Noop
  /\ {MaxProcs, MaxEffects} \subseteq Nat

VARIABLES
  proc,      \* daemon process
  journal,   \* accepted_commands: the command and original result per request
  port,      \* the port: receiving or not, and its same-process result cache
  work,      \* what each processor is executing
  replies,   \* history: responses that reached a client, storage failures aside
  applied    \* history: mutations of the port, in order of the count

vars == <<proc, journal, port, work, replies, applied>>

Processors == {Receiver} \union Noop

None == [kind |-> "None"]
Idle == [stage |-> "idle"]

(* A result names the command it answers, the version it is encoded in and *)
(* what the port then reported.                                            *)
Success(version, cmd, report) ==
  [kind |-> "Success", version |-> version, cmd |-> cmd, report |-> report]
Conflict == [kind |-> "Conflict"]
StorageFailed == [kind |-> "StorageFailed"]

(* A port as ReceiveApiPort demands: idempotent per request in a process. *)
NewPort == [receiving |-> FALSE, cache |-> [r \in Requests |-> None]]

Init ==
  /\ proc = 1
  /\ journal = [r \in Requests |-> None]
  /\ port = NewPort
  /\ work = [p \in Processors |-> Idle]
  /\ replies = {} /\ applied = {}

(* The processor answers; the client reads the response or has gone. *)
Reply(p, outcome, read) ==
  /\ work' = [work EXCEPT ![p] = Idle]
  /\ replies' = IF read /\ outcome # StorageFailed
                THEN replies \union {[request |-> work[p].request, cmd |-> work[p].cmd,
                                      outcome |-> outcome]}
                ELSE replies

(* What processor p may answer without the journal. *)
Answers(p, env) == IF p = Receiver THEN ReceiveAnswers(env, port.receiving) ELSE CommandAnswers(env)

(* A command arrives at an idle processor that is answered at once ... *)
Answer(p, env) ==
  /\ work[p] = Idle
  /\ \E outcome \in Answers(p, env) :
       work' = [work EXCEPT ![p] = [stage |-> "answer", outcome |-> outcome]]
  /\ UNCHANGED <<proc, journal, port, replies, applied>>

(* ... whether the client reads it or not. *)
Answered(p) ==
  /\ work[p].stage = "answer"
  /\ work' = [work EXCEPT ![p] = Idle]
  /\ UNCHANGED <<proc, journal, port, replies, applied>>

(* A command arrives that is to be journaled.  A CommandProcessor executes *)
(* the no-op mutation only, and needs no lookup.                           *)
Accept(p, request, env) ==
  /\ work[p] = Idle
  /\ Answers(p, env) = {}
  /\ work' = [work EXCEPT ![p] =
       [stage |-> IF p = Receiver THEN "lookup" ELSE "apply",
        request |-> request, cmd |-> env.cmd, version |-> env.version]]
  /\ UNCHANGED <<proc, journal, port, replies, applied>>

(* Mutant of Stored: the canonical command is not compared. *)
StoredWithoutCompare(entry, cmd) == entry.result

(* An accepted request answers with its original result, or conflicts. *)
Stored(entry, cmd) == IF entry.cmd = cmd THEN entry.result ELSE Conflict

(* Mutant of Lookup: the journal is consulted only when inserting. *)
LookupSkipped(p, read) ==
  /\ work[p].stage = "lookup"
  /\ work' = [work EXCEPT ![p].stage = "apply"]
  /\ UNCHANGED <<proc, journal, port, replies, applied>>

(* Mutant of Lookup: a request already accepted is ignored. *)
LookupIgnoresRetry(p, read) ==
  /\ work[p].stage = "lookup"
  /\ IF journal[work[p].request] # None
     THEN work' = [work EXCEPT ![p] = Idle]
     ELSE work' = [work EXCEPT ![p].stage = "apply"]
  /\ UNCHANGED <<proc, journal, port, replies, applied>>

(* execute_mutating: accepted_command. *)
Lookup(p, read) ==
  /\ work[p].stage = "lookup"
  /\ LET entry == journal[work[p].request]
     IN  IF entry # None
         THEN Reply(p, Stored(entry, work[p].cmd), read)
         ELSE /\ work' = [work EXCEPT ![p].stage = "apply"]
              /\ UNCHANGED replies
  /\ UNCHANGED <<proc, journal, port, applied>>

(* The journal cannot be read: serve_receive_once answers a retryable      *)
(* storage failure.                                                        *)
LookupFails(p, read) ==
  /\ work[p].stage = "lookup"
  /\ Reply(p, StorageFailed, read)
  /\ UNCHANGED <<proc, journal, port, applied>>

(* The processor has its outcome and goes on to journal it. *)
Computed(p, outcome) ==
  work' = [work EXCEPT ![p] = [stage |-> "accept", request |-> work[p].request,
                               cmd |-> work[p].cmd, version |-> work[p].version,
                               outcome |-> outcome]]

(* NoopMutation succeeds by itself; a cached request repeats its report. *)
ApplyKnown(p) ==
  /\ work[p].stage = "apply"
  /\ LET cached == port.cache[work[p].request]
     IN  \/ /\ work[p].cmd = "NoopMutation"
            /\ Computed(p, Success(work[p].version, "NoopMutation", None))
         \/ /\ work[p].cmd # "NoopMutation" /\ cached # None
            /\ Computed(p, Success(work[p].version, work[p].cmd, cached))
  /\ UNCHANGED <<proc, journal, port, replies, applied>>

(* port.start or port.stop takes effect. *)
ApplyMutation(p) ==
  /\ work[p].stage = "apply" /\ work[p].cmd # "NoopMutation"
  /\ port.cache[work[p].request] = None
  /\ Cardinality({a \in applied : a.proc = proc}) < MaxEffects
  /\ LET report == [kind |-> "Report", proc |-> proc,
                    receiving |-> work[p].cmd = "ReceiveStart"]
     IN  /\ port' = [receiving |-> report.receiving,
                     cache |-> [port.cache EXCEPT ![work[p].request] = report]]
         /\ Computed(p, Success(work[p].version, work[p].cmd, report))
  /\ applied' = applied \union
       {[proc |-> proc, request |-> work[p].request, cmd |-> work[p].cmd,
         nth |-> Cardinality({a \in applied : a.proc = proc})]}
  /\ UNCHANGED <<proc, journal, replies>>

(* port.start or port.stop faults; the error is an outcome like any other. *)
ApplyFault(p) ==
  /\ work[p].stage = "apply" /\ work[p].cmd # "NoopMutation"
  /\ port.cache[work[p].request] = None
  /\ \E fault \in Faults(work[p].version) : Computed(p, fault)
  /\ UNCHANGED <<proc, journal, port, replies, applied>>

(* accept_or_existing: insert, or the winner of the request's identity. *)
Journal(p, read) ==
  /\ work[p].stage = "accept"
  /\ LET entry == journal[work[p].request]
     IN  \/ /\ entry = None
            /\ journal' = [journal EXCEPT ![work[p].request] =
                 [kind |-> "Entry", cmd |-> work[p].cmd, result |-> work[p].outcome]]
            /\ Reply(p, work[p].outcome, read)
         \/ /\ entry # None
            /\ Reply(p, Stored(entry, work[p].cmd), read)
            /\ UNCHANGED journal
  /\ UNCHANGED <<proc, port, applied>>

(* The insert fails and leaves nothing. *)
JournalFails(p, read) ==
  /\ work[p].stage = "accept"
  /\ Reply(p, StorageFailed, read)
  /\ UNCHANGED <<proc, journal, port, applied>>

(* The daemon dies; its successor is receive-inactive over the same file. *)
Restart ==
  /\ proc < MaxProcs
  /\ proc' = proc + 1
  /\ port' = NewPort
  /\ work' = [p \in Processors |-> Idle]
  /\ UNCHANGED <<journal, replies, applied>>

Execute(p) ==
  \/ \E read \in BOOLEAN :
       Lookup(p, read) \/ LookupFails(p, read) \/ Journal(p, read) \/ JournalFails(p, read)
  \/ ApplyKnown(p) \/ ApplyMutation(p) \/ ApplyFault(p) \/ Answered(p)

Next ==
  \/ \E p \in Processors :
       Execute(p) \/ \E env \in Envelopes : Answer(p, env) \/ \E r \in Requests : Accept(p, r, env)
  \/ Restart

Spec == Init /\ [][Next]_vars

(* A client repeats its request until it is answered for good; the daemon  *)
(* executes what it was given, and the journal and the connection do not   *)
(* fail for ever.                                                          *)
Serving(request, cmd) ==
  /\ work[Receiver].stage \notin {"idle", "answer"}
  /\ work[Receiver].request = request /\ work[Receiver].cmd = cmd

Fairness(request, env) ==
  /\ WF_vars(Execute(Receiver))
  /\ SF_vars(Accept(Receiver, request, env))
  /\ SF_vars(Serving(request, env.cmd) /\ Lookup(Receiver, TRUE))
  /\ SF_vars(Serving(request, env.cmd) /\ Journal(Receiver, TRUE))

-----------------------------------------------------------------------------
Final(reply) == reply.outcome # Conflict

(* Every variable has its type. *)
TypeOK ==
  /\ proc \in 1..MaxProcs
  /\ \A r \in Requests :
       \/ journal[r] = None
       \/ journal[r].cmd \in Mutating /\ journal[r].result.kind \in {"Success", "Error"}
  /\ port.receiving \in BOOLEAN
  /\ \A p \in Processors :
       \/ work[p].stage \in {"idle", "answer"}
       \/ /\ work[p].request \in Requests /\ work[p].cmd \in Mutating
          /\ work[p].version \in SupportedApiVersions
  /\ \A a \in applied : a.request \in Requests /\ a.nth < MaxEffects

(***************************************************************************)
(* The same request and command always get the same answer, its encoding   *)
(* version included, whichever processor, process, retry or API version    *)
(* asked for it, and the answer is to that command; only a conflict (or a  *)
(* failure of the journal, which is not kept here) may differ.             *)
(***************************************************************************)
ExactReplay ==
  \A a, b \in replies :
    a.request = b.request /\ Final(a) /\ Final(b) =>
      a.cmd = b.cmd /\ a.outcome = b.outcome

(***************************************************************************)
(* Within a process a request mutates the port once, through journal       *)
(* failures and lost responses alike, and once a command is journaled it   *)
(* does not mutate the port again in any process.  A status that says      *)
(* receiving is explained by a start applied in this very process: an old  *)
(* result that replays after a restart does not start anything.            *)
(***************************************************************************)
AppliedOnce ==
  /\ \A a, b \in applied : a.proc = b.proc /\ a.request = b.request => a = b
  /\ \A a \in applied : \A r \in replies :
       r.request = a.request /\ r.cmd = a.cmd /\ r.outcome.kind = "Success" =>
         a.proc <= r.outcome.report.proc
  /\ \A p \in Processors :
       work[p].stage = "answer" /\ work[p].outcome.kind = "Status" /\ work[p].outcome.receiving =>
         \E a \in applied : a.proc = proc /\ a.cmd = "ReceiveStart"

=============================================================================
