------------------------------ MODULE ApiService ------------------------------
(***************************************************************************)
(* What the daemon answers without its request journal: the API versions,  *)
(* command classes and bounds of crates/api/src/lib.rs, the NoopService,   *)
(* and the gate and read-only half of ReceiveApiProcessor                  *)
(* (apps/daemon/src/receive_api.rs) and of CommandProcessor                *)
(* (apps/daemon/src/lib.rs).  Everything is an operator; CommandJournal    *)
(* takes the steps.                                                        *)
(*                                                                         *)
(* An envelope is its api_version, its command, whether the command's      *)
(* fields are within their bounds (canonical_bytes succeeds), and the      *)
(* versions offered by GetCapabilities.                                    *)
(***************************************************************************)
EXTENDS Integers, Sequences, SequencesExt

CONSTANT MaxNegotiation   \* MAX_NEGOTIATION_VERSIONS

ApiVersion == 2
LegacyApiVersion == 1
SupportedApiVersions == {ApiVersion, LegacyApiVersion}

Mutating == {"ReceiveStart", "ReceiveStop", "NoopMutation"}
ReadOnly ==
  {"GetCapabilities", "GetSnapshot", "ListInputDevices", "GetReceiveStatus", "QueryReceiveHistory"}

IsReceiveCommand(cmd) ==
  cmd \in {"ListInputDevices", "ReceiveStart", "ReceiveStop", "GetReceiveStatus",
           "QueryReceiveHistory"}

(* Responses other than the journal's: their version and what they say. *)
ApiError(version, code, retryable) ==
  [kind |-> "Error", version |-> version, code |-> code, retryable |-> retryable]
Capabilities(version, negotiated, receiveInput) ==
  [kind |-> "Capabilities", version |-> version, negotiated |-> negotiated,
   receiveInput |-> receiveInput]
Status(version, receiving) ==
  [kind |-> "Status", version |-> version, receiving |-> receiving]
Listing(version) == [kind |-> "Listing", version |-> version]

(* api_fault_outcome of each ReceiveApiFault. *)
Faults(version) ==
  {ApiError(version, "ReceiveUnavailable", TRUE),
   ApiError(version, "ReceiveInhibited", FALSE),
   ApiError(version, "InvalidReceiveRequest", FALSE)}

(* GetCapabilities: the first version offered that the service supports. *)
Negotiate(env) ==
  LET agreed == SelectSeq(env.offered, LAMBDA v : v \in SupportedApiVersions)
  IN  CASE Len(env.offered) > MaxNegotiation ->
             ApiError(env.version, "NegotiationTooLarge", FALSE)
        [] Len(env.offered) <= MaxNegotiation /\ agreed # <<>> ->
             Capabilities(env.version, Head(agreed),
                          IF Head(agreed) >= ApiVersion THEN "Unavailable" ELSE "None")
        [] OTHER -> ApiError(env.version, "IncompatibleApiVersion", FALSE)

(* NoopService::execute; a version it does not know is answered in ours. *)
NoopServiceExecute(env) ==
  CASE env.version \notin SupportedApiVersions ->
         ApiError(ApiVersion, "IncompatibleApiVersion", FALSE)
    [] env.version \in SupportedApiVersions /\ env.cmd = "GetCapabilities" -> Negotiate(env)
    [] env.version \in SupportedApiVersions /\ env.cmd = "GetSnapshot" -> Status(env.version, FALSE)
    [] env.version \in SupportedApiVersions /\ env.cmd = "NoopMutation" ->
         ApiError(env.version, "RequestJournalRequired", FALSE)
    [] OTHER ->
         ApiError(env.version, IF env.version < ApiVersion THEN "CommandUnavailableInVersion"
                               ELSE "ReceiveUnavailable", FALSE)

(* execute_read_only: the port answers, or faults. *)
ExecuteReadOnly(env, receiving) ==
  LET base == NoopServiceExecute(env)
  IN  CASE env.cmd = "GetCapabilities" ->
             {IF base.kind = "Capabilities" THEN [base EXCEPT !.receiveInput = "Available"] ELSE base}
        [] env.cmd \in {"GetSnapshot", "GetReceiveStatus"} ->
             {Status(env.version, receiving)} \union Faults(env.version)
        [] env.cmd = "QueryReceiveHistory" /\ ~env.bounded ->
             {ApiError(env.version, "InvalidReceiveRequest", FALSE)}
        [] OTHER -> {Listing(env.version)} \union Faults(env.version)

(* What ReceiveApiProcessor::execute may answer at once; nothing where the *)
(* command goes on to the journal.                                         *)
ReceiveAnswers(env, receiving) ==
  CASE env.version \notin SupportedApiVersions -> {NoopServiceExecute(env)}
    [] env.version = LegacyApiVersion /\ IsReceiveCommand(env.cmd) ->
         {ApiError(env.version, "CommandUnavailableInVersion", FALSE)}
    [] /\ env.version \in SupportedApiVersions /\ env.cmd \in ReadOnly
       /\ ~(env.version = LegacyApiVersion /\ IsReceiveCommand(env.cmd)) ->
         ExecuteReadOnly(env, receiving)
    [] OTHER -> IF env.bounded THEN {} ELSE {ApiError(env.version, "InvalidReceiveRequest", FALSE)}

(* The same of CommandProcessor::execute, whose `?` on canonical_bytes     *)
(* leaves its caller without a response.                                   *)
NoResponse == [kind |-> "NoResponse"]
CommandAnswers(env) ==
  CASE env.version # ApiVersion \/ env.cmd \in ReadOnly -> {NoopServiceExecute(env)}
    [] env.version = ApiVersion /\ env.cmd \in Mutating /\ ~env.bounded -> {NoResponse}
    [] OTHER -> IF env.cmd = "NoopMutation" THEN {} ELSE {NoopServiceExecute(env)}
===============================================================================
