-------------------------- MODULE MCCommandJournal --------------------------
(* CommandJournal with one request identity, which several clients use for *)
(* several commands in three API versions, and two processors.             *)
EXTENDS CommandJournal

CONSTANTS r1, receiver, noop

MCRequests == {r1}
OneNoop == {noop}

Env(version, cmd, bounded, offered) ==
  [version |-> version, cmd |-> cmd, bounded |-> bounded, offered |-> offered]
Offers == {<<>>, <<3>>, <<1>>, <<3, 1, 2>>, <<2, 1>>, <<2, 1, 2, 1>>}
MCEnvelopes ==
  {Env(v, c, TRUE, <<>>) : v \in 1..3, c \in Mutating \union ReadOnly}
    \union {Env(v, c, FALSE, <<>>) :
              v \in 1..3, c \in {"ReceiveStart", "NoopMutation", "QueryReceiveHistory"}}
    \union {Env(v, "GetCapabilities", TRUE, o) : v \in 1..3, o \in Offers}
Start == Env(ApiVersion, "ReceiveStart", TRUE, <<>>)

(* The client whose retries are assumed to be fair. *)
MCFairSpec == Spec /\ Fairness(r1, Start)

(***************************************************************************)
(* A client that keeps retrying one command is answered, with the one      *)
(* outcome that the journal keeps for its request, a result or an error,   *)
(* or with a conflict; that an error kept may be a passing one is the      *)
(* subject of RetryableMaySucceed.                                         *)
(***************************************************************************)
AnsweredAsJournaled ==
  \E a \in replies :
    /\ a.request = r1 /\ a.cmd = "ReceiveStart"
    /\ \/ a.outcome = Conflict
       \/ journal[r1] # None /\ a.outcome = journal[r1].result
RetryIsAnswered == <>AnsweredAsJournaled

-----------------------------------------------------------------------------
(* One client and no other processor; the port recovers: it does not fault *)
(* for ever on a start that it is asked for again and again.               *)
StartOnly == {Start}
NoNoop == {}
MCRecoveringSpec ==
  /\ MCFairSpec
  /\ SF_vars(Serving(r1, "ReceiveStart") /\ ApplyMutation(Receiver))

Passing(outcome) == outcome.kind = "Error" /\ outcome.retryable

(***************************************************************************)
(* What crates/api/src/lib.rs:496 says of retryable: the same request      *)
(* without changes may succeed.  A client that was told so and keeps       *)
(* asking, of a port that recovers, comes to its success in the end, or to *)
(* an error that is final.  It does not: execute_mutating journals the     *)
(* passing error like a result, and the journal answers every retry so.    *)
(***************************************************************************)
RetryableMaySucceed ==
  (\E a \in replies : Passing(a.outcome)) ~> (\E a \in replies : ~Passing(a.outcome))
=============================================================================
