---------------------------- MODULE EventHistory ----------------------------
(***************************************************************************)
(* The operational event log of crates/storage/src/lib.rs, read through    *)
(* EventService::subscribe of apps/daemon/src/lib.rs by a client that      *)
(* follows it page by page.  replay_events reads the bounds and the rows   *)
(* in two statements: where the daemon's stores are separate connections   *)
(* to one file (EventService::open, PublicReceiveStore::open), a commit of *)
(* another may fall between them and leave the call torn.  A daemon        *)
(* restart is a new service instance on the same file.                     *)
(***************************************************************************)
EXTENDS Integers, FiniteSets, FiniteSetsExt

CONSTANTS
  MaxReplay,    \* MAX_REPLAY_EVENTS, the largest page
  MaxEvents,    \* bound: events ever published
  MaxServices   \* bound: service instances

ASSUME EventHistoryAssumption ==
  /\ MaxReplay \in Nat \ {0}
  /\ {MaxEvents, MaxServices} \subseteq Nat

VARIABLES
  literal,    \* whether the client continues from earliest_available itself
  svc,        \* the running service instance
  events,     \* operational_events: the retained rows
  last,       \* the AUTOINCREMENT high-water mark of their sequence
  call,       \* the subscribe call in progress, or NoCall
  answer,     \* the outcome on its way to the client, or NoAnswer
  cursor,     \* the client's cursor: service instance and sequence
  seen,       \* history: events the client has been given
  told,       \* history: the last sequence that it was told is gone
  slipped,    \* history: events that the page of a torn call moved it past
  published   \* history: every event ever committed

historyVars == <<literal, svc, events, last, call, answer, cursor, seen, told, slipped, published>>
client == <<literal, cursor, seen, told, slipped>>
log == <<svc, events, last, published>>

NoCall == [after |-> -1]
NoAnswer == [kind |-> "None"]

Event == [seq : 1..MaxEvents, svc : 1..MaxServices]

(* Retained events of one service instance, and their sequences. *)
EventsOf(s) == {e \in events : e.svc = s}
Sequences(set) == {e.seq : e \in set}

HistoryInit ==
  /\ literal \in BOOLEAN
  /\ svc = 1 /\ events = {} /\ last = 0 /\ published = {}
  /\ call = NoCall /\ answer = NoAnswer
  /\ cursor = [svc |-> 1, seq |-> 0] /\ seen = {} /\ told = 0 /\ slipped = {}

(* A commit tears the call that is between its two statements. *)
Commit == call' = IF call = NoCall THEN NoCall ELSE [call EXCEPT !.torn = TRUE]

(* publish_event: append_event in one immediate transaction. *)
Publish ==
  /\ last < MaxEvents
  /\ LET event == [seq |-> last + 1, svc |-> svc]
     IN  /\ events' = events \union {event}
         /\ published' = published \union {event}
  /\ last' = last + 1
  /\ Commit
  /\ UNCHANGED <<svc, answer, client>>

(* prune_before: rows below the first retained sequence are deleted. *)
Prune(first) ==
  /\ \E e \in events : e.seq < first
  /\ events' = {e \in events : e.seq >= first}
  /\ Commit
  /\ UNCHANGED <<svc, last, published, answer, client>>

(* A new process opens the same file under a new service_instance_id; the  *)
(* exchange in progress dies with the old one.                             *)
RestartService ==
  /\ svc < MaxServices
  /\ svc' = svc + 1
  /\ call' = NoCall /\ answer' = NoAnswer
  /\ UNCHANGED <<events, last, published, client>>

(***************************************************************************)
(* subscribe, up to replay_events' first statement: the version, limit and *)
(* generation checks, then MIN and MAX of this instance's sequences.       *)
(***************************************************************************)
Subscribe(version, limit) ==
  /\ call = NoCall /\ answer = NoAnswer
  /\ LET own == Sequences(EventsOf(svc))
     IN  CASE version # "supported" \/ limit \notin 1..MaxReplay ->
                /\ answer' = [kind |-> "InvalidRequest"]
                /\ UNCHANGED call
           [] version = "supported" /\ limit \in 1..MaxReplay /\ cursor.svc # svc ->
                /\ answer' = [kind |-> "IncompatibleGeneration"]
                /\ UNCHANGED call
           [] OTHER ->
                /\ call' = [after |-> cursor.seq, limit |-> limit,
                            earliest |-> IF own = {} THEN -1 ELSE Min(own),
                            latest |-> IF own = {} THEN 0 ELSE Max(own), torn |-> FALSE]
                /\ UNCHANGED answer
  /\ UNCHANGED <<log, client>>

(* Mutant of Rows: rows of every service instance are returned. *)
RowsOfAnyService ==
  LET after == {e \in events : e.seq > call.after}
  IN  {e \in after : Cardinality({d \in after : d.seq < e.seq}) < call.limit}

(* replay_events' page: the first rows after the cursor, in order. *)
Rows ==
  LET after == {e \in EventsOf(svc) : e.seq > call.after}
  IN  {e \in after : Cardinality({d \in after : d.seq < e.seq}) < call.limit}

(* Mutant of Outcome: a page is returned whatever the bounds say. *)
OutcomeWithoutGap ==
  [kind |-> "Events", page |-> Rows, torn |-> call.torn,
   next |-> IF Rows = {} THEN call.after ELSE Max(Sequences(Rows))]

(* Mutant of Outcome: the page is dropped and the cursor stays. *)
OutcomeStalls ==
  [kind |-> "Events", page |-> {}, torn |-> call.torn, next |-> call.after]

(***************************************************************************)
(* subscribe, from replay_events' second statement on: a gap when the      *)
(* bounds read before say so, unavailable when the cursor is beyond them,  *)
(* otherwise the page and the cursor through its last event.               *)
(***************************************************************************)
Outcome ==
  IF call.earliest # -1 /\ call.after < call.earliest - 1
  THEN [kind |-> "CursorGap", earliest |-> call.earliest]
  ELSE IF call.after > call.latest
  THEN [kind |-> "CursorUnavailable", requested |-> call.after]
  ELSE [kind |-> "Events", page |-> Rows, torn |-> call.torn,
        next |-> IF Rows = {} THEN call.after ELSE Max(Sequences(Rows))]

Replay ==
  /\ call # NoCall
  /\ answer' = Outcome
  /\ call' = NoCall
  /\ UNCHANGED <<log, client>>

-----------------------------------------------------------------------------
(* The client, as docs/cli-api.md describes it.                            *)

(* GetSnapshot: the cursor of a snapshot is at sequence zero. *)
Snapshot ==
  /\ cursor' = [svc |-> svc, seq |-> 0]
  /\ IF cursor.svc = svc THEN UNCHANGED <<told, seen, slipped>>
     ELSE told' = 0 /\ seen' = {} /\ slipped' = {}
  /\ UNCHANGED literal

(***************************************************************************)
(* The answer arrives.  A page advances the cursor.  A gap tells that all  *)
(* before earliest_available is gone: a cursor is the last event observed, *)
(* so the client continues just before it, unless it takes                 *)
(* earliest_available, a cursor by its type, for the one to continue from. *)
(* Another generation asks for a fresh snapshot.                           *)
(***************************************************************************)
Receive ==
  /\ answer # NoAnswer
  /\ answer' = NoAnswer
  /\ CASE answer.kind = "Events" ->
            /\ cursor' = [cursor EXCEPT !.seq = answer.next]
            /\ seen' = seen \union answer.page
            /\ slipped' = slipped \union
                 {e \in published \ answer.page :
                    answer.torn /\ e.svc = cursor.svc /\ e.seq \in cursor.seq + 1..answer.next}
            /\ UNCHANGED <<literal, told>>
       [] answer.kind = "CursorGap" ->
            /\ cursor' = [cursor EXCEPT !.seq = IF literal THEN answer.earliest
                                                ELSE answer.earliest - 1]
            /\ told' = answer.earliest - 1
            /\ UNCHANGED <<literal, seen, slipped>>
       [] answer.kind = "IncompatibleGeneration" -> Snapshot
       [] OTHER -> UNCHANGED client
  /\ UNCHANGED <<log, call>>

(* The connection breaks before the response frame is read. *)
LoseAnswer ==
  /\ answer # NoAnswer
  /\ answer' = NoAnswer
  /\ UNCHANGED <<log, call, client>>

(* The client reconnects and starts again from a snapshot. *)
Reconnect ==
  /\ call = NoCall /\ answer = NoAnswer
  /\ cursor.seq > 0
  /\ Snapshot
  /\ UNCHANGED <<log, call, answer>>

Ask == \E version \in {"supported", "other"}, limit \in 0..MaxReplay + 1 :
         Subscribe(version, limit)

HistoryNext ==
  \/ Publish \/ (\E first \in 1..MaxEvents + 1 : Prune(first)) \/ RestartService
  \/ Ask \/ Replay
  \/ Receive \/ LoseAnswer \/ Reconnect

HistorySpec == HistoryInit /\ [][HistoryNext]_historyVars

(* A client that keeps asking for valid pages on a connection that works   *)
(* often enough; the daemon answers what it is asked.                      *)
Follow == \E limit \in 1..MaxReplay : Subscribe("supported", limit)

HistoryFairness ==
  /\ WF_historyVars(Follow) /\ WF_historyVars(Replay) /\ SF_historyVars(Receive)
  /\ <>[][~Reconnect /\ ~(Ask /\ ~Follow)]_historyVars

HistoryFairSpec == HistorySpec /\ HistoryFairness

-----------------------------------------------------------------------------
(* Every variable has its type. *)
HistoryTypeOK ==
  /\ literal \in BOOLEAN
  /\ svc \in 1..MaxServices
  /\ events \subseteq Event /\ published \subseteq Event
  /\ last \in 0..MaxEvents
  /\ cursor \in [svc : 1..MaxServices, seq : 0..MaxEvents]
  /\ seen \subseteq Event
  /\ told \in 0..MaxEvents /\ slipped \subseteq published

(* The event a client overlooks that continues from earliest_available. *)
Overlooked(n) == literal /\ n = told + 1

(***************************************************************************)
(* The whole extent of what a client can miss.  An event of its generation *)
(* that its cursor has passed was given to it, or it was told that it is   *)
(* gone; or it is the very event of earliest_available, to a client that   *)
(* continues from there; or it was deleted before the page of a torn call, *)
(* and that page passed it.  A call that no commit tears jumps nothing,    *)
(* and no page of any call passes an event that is still retained.         *)
(***************************************************************************)
NoImplicitJump ==
  \A e \in published :
    e.svc = cursor.svc /\ e.seq <= cursor.seq =>
      \/ e \in seen \/ e.seq <= told
      \/ Overlooked(e.seq)
      \/ e \in slipped /\ e \notin events

(***************************************************************************)
(* What docs/storage.md:31-33 says of retention: a cursor before the first *)
(* retained sequence becomes a gap rather than an implicit jump, so what   *)
(* the cursor has passed and is deleted was given or told of.              *)
(***************************************************************************)
RetentionIsAnnounced ==
  \A e \in published \ events :
    e.svc = cursor.svc /\ e.seq <= cursor.seq =>
      e \in seen \/ e.seq <= told \/ Overlooked(e.seq)

(***************************************************************************)
(* What crates/api/src/lib.rs:235 says of earliest_available: it is the    *)
(* earliest cursor from which replay is possible, so a client continuing   *)
(* from it has been given every retained event that its cursor passed.     *)
(***************************************************************************)
EarliestCursorReplays ==
  \A e \in events : e.svc = cursor.svc /\ e.seq <= cursor.seq => e \in seen

(***************************************************************************)
(* A client is never given an event of another service instance than the   *)
(* one its cursor names, whatever restart fell between request and answer. *)
(***************************************************************************)
OneGeneration == \A e \in seen : e.svc = cursor.svc

(***************************************************************************)
(* Every committed event of the running instance reaches a client that     *)
(* keeps following, unless retention deletes it first, whatever commits    *)
(* tear its calls; only the event of earliest_available is lost, and only  *)
(* to a client that continues from there.                                  *)
(***************************************************************************)
EventsReachClient ==
  \A n \in 1..MaxEvents, s \in 1..MaxServices :
    [seq |-> n, svc |-> s] \in published ~>
      \/ [seq |-> n, svc |-> s] \in seen \/ [seq |-> n, svc |-> s] \notin events
      \/ svc # s \/ (cursor.svc = s /\ Overlooked(n))
=============================================================================
