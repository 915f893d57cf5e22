------------------------- MODULE EventHistoryProofs -------------------------
(***************************************************************************)
(* NoImplicitJump and OneGeneration of EventHistory for every page size,   *)
(* any number of events and any number of service instances.  HistoryInv   *)
(* follows a cursor from the subscribe call that reads it to the answer    *)
(* that moves it.                                                          *)
(***************************************************************************)
EXTENDS EventHistory, FiniteSetTheorems, TLAPS

Row == [seq : Nat \ {0}, svc : Nat]

(* Rows are deleted from below: what retention took is older than the rest. *)
LogInv ==
  /\ svc \in Nat /\ last \in Nat
  /\ published \subseteq Row /\ events \subseteq published /\ IsFiniteSet(events)
  /\ \A e \in published : e.seq <= last
  /\ \A gone \in published \ events, kept \in events : gone.seq < kept.seq

(* The cursor never passes the log. *)
ClientInv ==
  /\ cursor \in [svc : Nat, seq : Nat] /\ cursor.seq <= last
  /\ told \in Nat

(* The bounds of a call in progress are those of the rows it will read,    *)
(* unless a commit tore it.                                                *)
CallInv ==
  call # NoCall =>
    /\ call \in [after : Nat, limit : Nat, earliest : Nat \union {-1}, latest : Nat,
                 torn : BOOLEAN]
    /\ answer = NoAnswer
    /\ cursor.svc = svc /\ call.after = cursor.seq /\ call.earliest <= last
    /\ ~call.torn /\ call.earliest = -1 => EventsOf(svc) = {}
    /\ ~call.torn /\ call.earliest # -1 => \E e \in EventsOf(svc) : e.seq = call.earliest

(* An event up to the end of a page is in it, or was dealt with before, or *)
(* retention deleted it: earlier, or under the call that made this page.   *)
PageCovers(page, next, torn) ==
  \A e \in published :
    e.svc = svc /\ e.seq <= next =>
      \/ e \in seen \union page
      \/ e.seq <= told
      \/ Overlooked(e.seq)
      \/ e \in slipped /\ e \notin events
      \/ torn = TRUE /\ e.seq > cursor.seq /\ e \notin events

(* An answer moves the cursor of the running instance, within the log. *)
AnswerInv ==
  /\ answer.kind = "Events" =>
       /\ cursor.svc = svc /\ answer.next \in 0..last
       /\ \A e \in answer.page : e.svc = svc
       /\ PageCovers(answer.page, answer.next, answer.torn)
  /\ answer.kind = "CursorGap" => cursor.svc = svc /\ answer.earliest \in 1..last

HistoryInv ==
  LogInv /\ ClientInv /\ CallInv /\ AnswerInv /\ NoImplicitJump /\ OneGeneration

-----------------------------------------------------------------------------
(* A set of naturals that is not empty has a least element. *)
LEMMA LeastExists ==
  ASSUME NEW S \in SUBSET Nat, S # {}
  PROVE  \E x \in S : \A y \in S : x <= y
<1> DEFINE R == OpToRel(<, Nat)
<1>1. IsWellFoundedOn(R, Nat)
  BY NatLessThanWellFounded
<1>2. PICK x \in S : \A y \in S : ~(<<y, x>> \in R)
  <2> HIDE DEF R
  <2> QED BY <1>1, WFMin
<1>3. \A y \in S : ~(y < x)
  BY <1>2 DEF OpToRel
<1> QED BY <1>3

(* Min of a set of naturals that is not empty is its least element. *)
LEMMA MinIsLeast ==
  ASSUME NEW S \in SUBSET Nat, S # {}
  PROVE  Min(S) \in S /\ \A y \in S : Min(S) <= y
<1>1. \E x \in S : \A y \in S : x =< y
  BY LeastExists
<1> QED BY <1>1 DEF Min

(* A bounded set of naturals that is not empty has a maximum: Max. *)
LEMMA MaxIsGreatest ==
  ASSUME NEW bound \in Nat, NEW S \in SUBSET (0..bound), S # {}
  PROVE  Max(S) \in S /\ \A y \in S : y <= Max(S)
<1> DEFINE T == {bound - y : y \in S}
<1>1. T \in SUBSET Nat /\ T # {}
  <2>1. \A y \in S : bound - y \in Nat
    OBVIOUS
  <2>2. PICK s : s \in S
    OBVIOUS
  <2>3. bound - s \in T
    BY <2>2
  <2> QED BY <2>1, <2>3
<1>2. PICK t \in T : \A u \in T : t <= u
  <2> HIDE DEF T
  <2> QED BY <1>1, LeastExists
<1>3. PICK x \in S : t = bound - x
  BY <1>2
<1>4. \A y \in S : x >= y
  <2> SUFFICES ASSUME NEW y \in S PROVE x >= y
    OBVIOUS
  <2>1. bound - x <= bound - y
    BY <1>2, <1>3
  <2> QED BY <2>1
<1>5. \E z \in S : \A y \in S : z >= y
  BY <1>4
<1>6. Max(S) \in S /\ \A y \in S : Max(S) >= y
  BY <1>5 DEF Max
<1> QED BY <1>6


-----------------------------------------------------------------------------
(* replay_events returns an initial run of this instance's rows. *)
LEMMA RowsAreInitial ==
  ASSUME LogInv, call.after \in Nat, call.limit \in Nat, NEW r \in Rows,
         NEW e \in EventsOf(svc), e.seq > call.after, e.seq <= r.seq
  PROVE  e \in Rows
<1> DEFINE ahead == {x \in EventsOf(svc) : x.seq > call.after}
           L(u) == {d \in ahead : d.seq < u.seq}
<1>1. IsFiniteSet(ahead) /\ \A x \in ahead : x.seq \in Nat
  BY FS_Subset DEF LogInv, EventsOf, Row
<1>2. r \in ahead /\ Cardinality(L(r)) < call.limit
  BY DEF Rows
<1>3. L(e) \subseteq L(r) /\ L(r) \subseteq ahead /\ e \in ahead
  BY <1>1, <1>2
<1>4. IsFiniteSet(L(r)) /\ IsFiniteSet(L(e))
  <2> HIDE DEF ahead, L
  <2> QED BY <1>1, <1>3, FS_Subset
<1>5. Cardinality(L(e)) < call.limit
  <2> HIDE DEF ahead, L
  <2>1. /\ Cardinality(L(e)) <= Cardinality(L(r))
        /\ Cardinality(L(e)) \in Nat /\ Cardinality(L(r)) \in Nat
    BY <1>3, <1>4, FS_Subset, FS_CardinalityType
  <2> QED BY <1>2, <2>1
<1> QED BY <1>3, <1>5 DEF Rows

(* The cursor a page carries: its last row, or where the cursor was. *)
LEMMA NextOfPage ==
  ASSUME LogInv, call.after \in 0..last
  PROVE  LET next == IF Rows = {} THEN call.after ELSE Max(Sequences(Rows))
         IN  /\ next \in 0..last
             /\ Rows # {} => \E r \in Rows : r.seq = next
<1>1. CASE Rows = {}
  BY <1>1
<1>2. CASE Rows # {}
  <2> DEFINE S == Sequences(Rows)
  <2>1. S \in SUBSET (0..last) /\ S # {} /\ last \in Nat
    <3>1. \A r \in Rows : r \in published
      BY DEF Rows, EventsOf, LogInv
    <3>2. \A r \in Rows : r.seq \in 0..last
      BY <3>1 DEF LogInv, Row
    <3> QED BY <1>2, <3>2 DEF Sequences, LogInv
  <2>2. Max(S) \in S
    <3> HIDE DEF S
    <3> QED BY <2>1, MaxIsGreatest
  <2>3. Max(S) \in 0..last
    <3> HIDE DEF S
    <3> QED BY <2>1, <2>2
  <2>4. \E r \in Rows : r.seq = Max(S)
    BY <2>2 DEF Sequences
  <2> QED BY <1>2, <2>3, <2>4
<1> QED BY <1>1, <1>2

(***************************************************************************)
(* The page of a call that saw no gap leaves nothing retained out, and     *)
(* nothing at all if no commit tore it: a row deleted ahead of the cursor  *)
(* would have put the earliest sequence, or an empty log, beyond it.       *)
(***************************************************************************)
LEMMA PageLeavesNothingOut ==
  ASSUME HistoryInv, call # NoCall,
         ~(call.earliest # -1 /\ call.after < call.earliest - 1)
  PROVE  PageCovers(Rows, IF Rows = {} THEN call.after ELSE Max(Sequences(Rows)), call.torn)
<1> DEFINE next == IF Rows = {} THEN call.after ELSE Max(Sequences(Rows))
<1>a. LogInv /\ ClientInv /\ CallInv /\ NoImplicitJump
  BY DEF HistoryInv
<1>b. /\ call \in [after : Nat, limit : Nat, earliest : Nat \union {-1}, latest : Nat,
                   torn : BOOLEAN]
      /\ cursor.svc = svc /\ call.after = cursor.seq /\ call.after \in 0..last
      /\ ~call.torn /\ call.earliest = -1 => EventsOf(svc) = {}
      /\ ~call.torn /\ call.earliest # -1 => \E e \in EventsOf(svc) : e.seq = call.earliest
  BY <1>a DEF CallInv, ClientInv, LogInv
<1>c. next \in 0..last /\ (Rows # {} => \E r \in Rows : r.seq = next)
  BY <1>a, <1>b, NextOfPage
<1> SUFFICES ASSUME NEW e \in published, e.svc = svc, e.seq <= next
             PROVE  \/ e \in seen \union Rows
                    \/ e.seq <= told
                    \/ Overlooked(e.seq)
                    \/ e \in slipped /\ e \notin events
                    \/ call.torn = TRUE /\ e.seq > cursor.seq /\ e \notin events
  BY DEF PageCovers
<1>d. e.seq \in Nat
  BY <1>a DEF LogInv, Row
<1>1. CASE e.seq <= call.after
  BY <1>1, <1>a, <1>b DEF NoImplicitJump
<1>3. CASE ~(e.seq <= call.after) /\ call.torn /\ e \notin events
  BY <1>3, <1>b, <1>d
<1>2. CASE ~(e.seq <= call.after) /\ ~(call.torn /\ e \notin events)
  <2>1. PICK r \in Rows : r.seq = next
    BY <1>2, <1>c
  <2>2. r \in EventsOf(svc) /\ r \in events /\ r.seq \in Nat
    BY <2>1, <1>a DEF Rows, EventsOf, LogInv, Row
  <2>3. e \in events
    <3> SUFFICES ASSUME e \notin events PROVE FALSE
      OBVIOUS
    <3>1. ~call.torn /\ call.earliest # -1 /\ call.earliest \in Nat
      BY <1>2, <1>b, <2>2
    <3>2. PICK kept \in EventsOf(svc) : kept.seq = call.earliest
      BY <1>b, <3>1
    <3>3. e.seq < call.earliest
      BY <1>a, <3>2 DEF LogInv, EventsOf
    <3> QED BY <1>2, <1>b, <1>d, <3>1, <3>3
  <2>4. e \in EventsOf(svc)
    BY <2>3 DEF EventsOf
  <2>5. e \in Rows
    BY <1>2, <1>a, <1>b, <1>d, <2>1, <2>4, RowsAreInitial
  <2> QED BY <2>5
<1> QED BY <1>1, <1>2, <1>3

-----------------------------------------------------------------------------
(* A torn call keeps its bounds, which no longer speak of the rows. *)
LEMMA CommitStep ==
  ASSUME CallInv, LogInv, Commit, UNCHANGED <<svc, answer, cursor>>,
         last' \in Nat, last <= last'
  PROVE  CallInv'
<1>1. CASE call = NoCall
  BY <1>1 DEF Commit, CallInv
<1>2. CASE call # NoCall
  <2>1. call' = [call EXCEPT !.torn = TRUE]
    BY <1>2 DEF Commit
  <2>2. /\ call \in [after : Nat, limit : Nat, earliest : Nat \union {-1}, latest : Nat,
                     torn : BOOLEAN]
        /\ answer = NoAnswer
        /\ cursor.svc = svc /\ call.after = cursor.seq /\ call.earliest <= last
    BY <1>2 DEF CallInv
  <2>3. /\ call' \in [after : Nat, limit : Nat, earliest : Nat \union {-1}, latest : Nat,
                      torn : BOOLEAN]
        /\ call'.after = call.after /\ call'.earliest = call.earliest /\ call'.torn = TRUE
    BY <2>1, <2>2
  <2>4. call'.earliest <= last'
    BY <2>2, <2>3 DEF LogInv
  <2> QED BY <2>2, <2>3, <2>4 DEF CallInv
<1> QED BY <1>1, <1>2

LEMMA PublishStep ==
  ASSUME HistoryInv, Publish
  PROVE  HistoryInv'
<1> DEFINE event == [seq |-> last + 1, svc |-> svc]
<1>a. LogInv /\ ClientInv /\ CallInv /\ AnswerInv /\ NoImplicitJump /\ OneGeneration
  BY DEF HistoryInv
<1>b. /\ events' = events \union {event} /\ published' = published \union {event}
      /\ last' = last + 1 /\ Commit
      /\ UNCHANGED <<svc, answer, literal, cursor, seen, told, slipped>>
  BY DEF Publish, client
<1>c. event \in Row /\ event.seq = last + 1 /\ event.svc = svc /\ last \in Nat
  BY <1>a DEF LogInv, Row
<1>d. \A e \in published : e.seq \in Nat /\ e.seq <= last
  BY <1>a DEF LogInv, Row
<1>f. \A e \in published : e \notin events => e \notin events'
  BY <1>b, <1>c, <1>d
<1> HIDE DEF event
<1>1. LogInv'
  <2>1. IsFiniteSet(events')
    BY <1>a, <1>b, FS_AddElement DEF LogInv
  <2>2. \A gone \in published' \ events', kept \in events' : gone.seq < kept.seq
    BY <1>a, <1>b, <1>c, <1>d DEF LogInv
  <2>3. \A e \in published' : e.seq <= last'
    BY <1>b, <1>c, <1>d
  <2> QED BY <1>a, <1>b, <1>c, <2>1, <2>2, <2>3 DEF LogInv
<1>2. ClientInv'
  BY <1>a, <1>b, <1>c DEF ClientInv
<1>3. CallInv'
  BY <1>a, <1>b, <1>c, CommitStep
<1>4. AnswerInv'
  <2>1. ASSUME answer.kind = "Events" PROVE AnswerInv'
    <3>1. /\ cursor.svc = svc /\ answer.next \in 0..last
          /\ \A e \in answer.page : e.svc = svc
          /\ PageCovers(answer.page, answer.next, answer.torn)
      BY <1>a, <2>1 DEF AnswerInv
    <3>2. answer.next \in 0..last' /\ ~(event.seq <= answer.next)
      BY <1>b, <1>c, <3>1
    <3>3. PageCovers(answer.page, answer.next, answer.torn)'
      BY <1>b, <1>f, <3>1, <3>2 DEF PageCovers, Overlooked
    <3> QED BY <1>b, <2>1, <3>1, <3>2, <3>3 DEF AnswerInv
  <2>2. ASSUME answer.kind = "CursorGap" PROVE AnswerInv'
    <3>1. cursor.svc = svc /\ answer.earliest \in 1..last
      BY <1>a, <2>2 DEF AnswerInv
    <3>2. answer.earliest \in 1..last'
      BY <1>b, <1>c, <3>1
    <3> QED BY <1>b, <2>2, <3>1, <3>2 DEF AnswerInv
  <2> QED BY <1>b, <2>1, <2>2 DEF AnswerInv
<1>5. NoImplicitJump' /\ OneGeneration'
  <2>1. ~(event.seq <= cursor.seq)
    BY <1>a, <1>c DEF ClientInv
  <2> QED BY <1>a, <1>b, <1>f, <2>1 DEF NoImplicitJump, Overlooked, OneGeneration
<1> QED BY <1>1, <1>2, <1>3, <1>4, <1>5 DEF HistoryInv

LEMMA PruneStep ==
  ASSUME HistoryInv, NEW first \in 1..MaxEvents + 1, Prune(first)
  PROVE  HistoryInv'
<1>a. LogInv /\ ClientInv /\ CallInv /\ AnswerInv /\ NoImplicitJump /\ OneGeneration
  BY DEF HistoryInv
<1>b. /\ events' = {e \in events : e.seq >= first} /\ Commit
      /\ UNCHANGED <<svc, last, published, answer, literal, cursor, seen, told, slipped>>
  BY DEF Prune, client
<1>c. first \in Nat /\ \A e \in published : e.seq \in Nat
  BY <1>a, EventHistoryAssumption DEF LogInv, Row
<1>1. LogInv'
  <2>1. IsFiniteSet(events')
    BY <1>a, <1>b, FS_Subset DEF LogInv
  <2>2. \A gone \in published' \ events', kept \in events' : gone.seq < kept.seq
    <3> SUFFICES ASSUME NEW gone \in published, gone \notin events', NEW kept \in events'
                 PROVE  gone.seq < kept.seq
      BY <1>b
    <3>1. kept \in events /\ kept.seq >= first /\ kept \in published
      BY <1>a, <1>b DEF LogInv
    <3>2. CASE gone \in events
      BY <1>b, <1>c, <3>1, <3>2
    <3>3. CASE gone \notin events
      BY <1>a, <3>1, <3>3 DEF LogInv
    <3> QED BY <3>2, <3>3
  <2> QED BY <1>a, <1>b, <2>1, <2>2 DEF LogInv
<1>2. ClientInv' /\ AnswerInv' /\ NoImplicitJump' /\ OneGeneration'
  <2>1. \A e \in published : e \notin events => e \notin events'
    BY <1>b
  <2>2. ClientInv' /\ OneGeneration'
    BY <1>a, <1>b DEF ClientInv, OneGeneration
  <2>3. NoImplicitJump'
    BY <1>a, <1>b, <2>1 DEF NoImplicitJump, Overlooked
  <2>4. ASSUME answer.kind = "Events" PROVE PageCovers(answer.page, answer.next, answer.torn)'
    BY <1>a, <1>b, <2>1, <2>4 DEF AnswerInv, PageCovers, Overlooked
  <2>5. AnswerInv'
    BY <1>a, <1>b, <2>4 DEF AnswerInv
  <2> QED BY <2>2, <2>3, <2>5
<1>3. CallInv'
  BY <1>a, <1>b, CommitStep DEF LogInv
<1> QED BY <1>1, <1>2, <1>3 DEF HistoryInv

(* A new instance knows of no call and no answer. *)
LEMMA RestartStep ==
  ASSUME HistoryInv, RestartService
  PROVE  HistoryInv'
<1>a. LogInv /\ ClientInv /\ CallInv /\ AnswerInv /\ NoImplicitJump /\ OneGeneration
  BY DEF HistoryInv
<1>b. /\ svc' = svc + 1 /\ call' = NoCall /\ answer' = NoAnswer
      /\ UNCHANGED <<events, last, published, literal, cursor, seen, told, slipped>>
  BY DEF RestartService, client
<1>1. LogInv'
  BY <1>a, <1>b DEF LogInv
<1>2. ClientInv' /\ NoImplicitJump' /\ OneGeneration'
  BY <1>a, <1>b DEF ClientInv, NoImplicitJump, Overlooked, OneGeneration
<1>3. CallInv' /\ AnswerInv'
  BY <1>b DEF CallInv, AnswerInv, NoAnswer
<1> QED BY <1>1, <1>2, <1>3 DEF HistoryInv

(* A step of the exchange: the log stays as it is. *)
LEMMA LogStays ==
  ASSUME LogInv, UNCHANGED log
  PROVE  LogInv'
BY DEF LogInv, log

(* subscribe: a refused request is answered, any other one reads the       *)
(* bounds of this instance's rows.                                         *)
LEMMA SubscribeStep ==
  ASSUME HistoryInv, NEW version, NEW limit \in 0..MaxReplay + 1, Subscribe(version, limit)
  PROVE  HistoryInv'
<1> DEFINE own == Sequences(EventsOf(svc))
<1>a. LogInv /\ ClientInv /\ CallInv /\ AnswerInv /\ NoImplicitJump /\ OneGeneration
  BY DEF HistoryInv
<1>b. /\ call = NoCall /\ answer = NoAnswer /\ UNCHANGED log
      /\ UNCHANGED <<svc, events, last, published, literal, cursor, seen, told, slipped>>
  BY DEF Subscribe, client, log
<1>c. limit \in Nat
  BY EventHistoryAssumption
<1>1. \/ answer' = [kind |-> "InvalidRequest"] /\ call' = call
      \/ answer' = [kind |-> "IncompatibleGeneration"] /\ call' = call
      \/ /\ cursor.svc = svc /\ answer' = answer
         /\ call' = [after |-> cursor.seq, limit |-> limit,
                     earliest |-> IF own = {} THEN -1 ELSE Min(own),
                     latest |-> IF own = {} THEN 0 ELSE Max(own), torn |-> FALSE]
  BY DEF Subscribe
<1>2. LogInv' /\ ClientInv' /\ NoImplicitJump' /\ OneGeneration'
  BY <1>a, <1>b, LogStays DEF ClientInv, NoImplicitJump, Overlooked, OneGeneration
<1>3. CASE answer' = [kind |-> "InvalidRequest"] /\ call' = call
  BY <1>2, <1>3, <1>b DEF HistoryInv, CallInv, AnswerInv
<1>4. CASE answer' = [kind |-> "IncompatibleGeneration"] /\ call' = call
  BY <1>2, <1>4, <1>b DEF HistoryInv, CallInv, AnswerInv
<1>5. CASE /\ cursor.svc = svc /\ answer' = answer
           /\ call' = [after |-> cursor.seq, limit |-> limit,
                       earliest |-> IF own = {} THEN -1 ELSE Min(own),
                       latest |-> IF own = {} THEN 0 ELSE Max(own), torn |-> FALSE]
  <2>1. own \in SUBSET (0..last) /\ last \in Nat
    <3>1. \A e \in EventsOf(svc) : e.seq \in 0..last
      BY <1>a DEF EventsOf, LogInv, Row
    <3> QED BY <1>a, <3>1 DEF Sequences, LogInv
  <2>2. own # {} => /\ Min(own) \in own /\ Min(own) \in 0..last
                    /\ Max(own) \in own /\ Max(own) \in 0..last
    <3> HIDE DEF own
    <3>1. own \in SUBSET Nat
      BY <2>1
    <3> QED BY <2>1, <3>1, MinIsLeast, MaxIsGreatest
  <2>3. own = {} <=> EventsOf(svc) = {}
    BY DEF Sequences
  <2>4. own # {} => \E e \in EventsOf(svc) : e.seq = Min(own)
    BY <2>2 DEF Sequences
  <2> HIDE DEF own
  <2>5. /\ call'.after = cursor.seq /\ call'.limit = limit
        /\ call'.earliest = IF own = {} THEN -1 ELSE Min(own)
        /\ call'.latest = IF own = {} THEN 0 ELSE Max(own)
        /\ call'.torn = FALSE
    BY <1>5
  <2>6. call' \in [after : Nat, limit : Nat, earliest : Nat \union {-1}, latest : Nat,
                  torn : BOOLEAN]
    <3>1. (IF own = {} THEN -1 ELSE Min(own)) \in Nat \union {-1}
      BY <2>1, <2>2
    <3>2. (IF own = {} THEN 0 ELSE Max(own)) \in Nat
      BY <2>1, <2>2
    <3> QED BY <1>5, <1>a, <1>c, <3>1, <3>2 DEF ClientInv
  <2>7. call'.earliest <= last
    BY <2>1, <2>2, <2>5
  <2>8. (EventsOf(svc))' = EventsOf(svc)
    BY <1>b DEF EventsOf
  <2>9. /\ call'.earliest = -1 => EventsOf(svc) = {}
        /\ call'.earliest # -1 => \E e \in EventsOf(svc) : e.seq = call'.earliest
    BY <2>1, <2>2, <2>3, <2>4, <2>5
  <2>10. CallInv'
    BY <1>5, <1>b, <2>5, <2>6, <2>7, <2>8, <2>9 DEF CallInv
  <2>11. AnswerInv'
    BY <1>5, <1>b DEF AnswerInv, NoAnswer
  <2> QED BY <1>2, <2>10, <2>11 DEF HistoryInv
<1> QED BY <1>1, <1>3, <1>4, <1>5

(* The second half of subscribe. *)
LEMMA ReplayStep ==
  ASSUME HistoryInv, Replay
  PROVE  HistoryInv'
<1> DEFINE next == IF Rows = {} THEN call.after ELSE Max(Sequences(Rows))
<1>a. LogInv /\ ClientInv /\ CallInv /\ AnswerInv /\ NoImplicitJump /\ OneGeneration
  BY DEF HistoryInv
<1>b. /\ call # NoCall /\ call' = NoCall /\ answer' = Outcome /\ UNCHANGED log
      /\ UNCHANGED <<svc, events, last, published, literal, cursor, seen, told, slipped>>
  BY DEF Replay, client, log
<1>c. /\ call \in [after : Nat, limit : Nat, earliest : Nat \union {-1}, latest : Nat,
                   torn : BOOLEAN]
      /\ cursor.svc = svc /\ call.after \in 0..last /\ call.earliest <= last
  BY <1>a, <1>b DEF CallInv, ClientInv, LogInv
<1>1. LogInv' /\ ClientInv' /\ NoImplicitJump' /\ OneGeneration'
  BY <1>a, <1>b, LogStays DEF ClientInv, NoImplicitJump, Overlooked, OneGeneration
<1>2. CallInv'
  BY <1>b DEF CallInv
<1>3. CASE call.earliest # -1 /\ call.after < call.earliest - 1
  <2>1. answer' = [kind |-> "CursorGap", earliest |-> call.earliest]
    BY <1>b, <1>3 DEF Outcome
  <2>2. call.earliest \in 1..last
    BY <1>3, <1>a, <1>c DEF LogInv
  <2> QED BY <1>1, <1>2, <1>b, <1>c, <2>1, <2>2 DEF HistoryInv, AnswerInv
<1>4. CASE /\ ~(call.earliest # -1 /\ call.after < call.earliest - 1)
           /\ call.after > call.latest
  <2>1. answer' = [kind |-> "CursorUnavailable", requested |-> call.after]
    BY <1>b, <1>4 DEF Outcome
  <2> QED BY <1>1, <1>2, <2>1 DEF HistoryInv, AnswerInv
<1>5. CASE /\ ~(call.earliest # -1 /\ call.after < call.earliest - 1)
           /\ ~(call.after > call.latest)
  <2>1. answer' = [kind |-> "Events", page |-> Rows, torn |-> call.torn, next |-> next]
    BY <1>b, <1>5 DEF Outcome
  <2>2. next \in 0..last
    BY <1>a, <1>c, NextOfPage
  <2>3. \A e \in Rows : e.svc = svc
    BY DEF Rows, EventsOf
  <2>4. PageCovers(Rows, next, call.torn)
    BY <1>5, <1>b, PageLeavesNothingOut
  <2> HIDE DEF next
  <2>5. /\ answer'.kind = "Events" /\ answer'.page = Rows /\ answer'.next = next
        /\ answer'.torn = call.torn
    BY <2>1
  <2>6. PageCovers(answer.page, answer.next, answer.torn)'
    BY <1>b, <2>4, <2>5 DEF PageCovers, Overlooked
  <2>7. AnswerInv'
    BY <1>b, <1>c, <2>2, <2>3, <2>5, <2>6 DEF AnswerInv
  <2> QED BY <1>1, <1>2, <2>7 DEF HistoryInv
<1> QED BY <1>3, <1>4, <1>5

(* A snapshot starts the client at sequence zero of the running instance, *)
(* from which no event has been passed.                                    *)
LEMMA SnapshotKeeps ==
  ASSUME HistoryInv, Snapshot, UNCHANGED log
  PROVE  ClientInv' /\ NoImplicitJump' /\ OneGeneration'
<1>a. LogInv /\ ClientInv /\ OneGeneration
  BY DEF HistoryInv
<1>b. UNCHANGED <<svc, published, last>>
  BY DEF log
<1>1. cursor'.svc = svc /\ cursor'.seq = 0 /\ cursor' \in [svc : Nat, seq : Nat]
  BY <1>a DEF Snapshot, LogInv
<1>2. ClientInv'
  BY <1>1, <1>a, <1>b DEF ClientInv, Snapshot, LogInv
<1>3. NoImplicitJump'
  <2>1. \A e \in published : ~(e.seq <= 0)
    BY <1>a DEF LogInv, Row
  <2> QED BY <2>1, <1>1, <1>b DEF NoImplicitJump
<1>4. OneGeneration'
  BY <1>1, <1>a DEF OneGeneration, Snapshot
<1> QED BY <1>2, <1>3, <1>4

LEMMA ReceiveStep ==
  ASSUME HistoryInv, Receive
  PROVE  HistoryInv'
<1>a. LogInv /\ ClientInv /\ CallInv /\ AnswerInv /\ NoImplicitJump /\ OneGeneration
  BY DEF HistoryInv
<1>b. answer # NoAnswer /\ answer' = NoAnswer /\ UNCHANGED log /\ UNCHANGED call
  BY DEF Receive
<1>c. UNCHANGED <<svc, events, last, published>>
  BY <1>b DEF log
<1>1. LogInv' /\ AnswerInv'
  BY <1>a, <1>b, LogStays DEF AnswerInv, NoAnswer
<1>2. CallInv'
  BY <1>a, <1>b DEF CallInv
<1>3. ClientInv' /\ NoImplicitJump' /\ OneGeneration'
  <2>1. CASE answer.kind = "Events"
    <3>1. /\ cursor' = [cursor EXCEPT !.seq = answer.next]
          /\ seen' = seen \union answer.page /\ told' = told /\ literal' = literal
          /\ slipped' = slipped \union
               {e \in published \ answer.page :
                  answer.torn /\ e.svc = cursor.svc /\ e.seq \in cursor.seq + 1..answer.next}
      BY <2>1 DEF Receive
    <3>2. /\ cursor.svc = svc /\ answer.next \in 0..last
          /\ \A e \in answer.page : e.svc = svc
          /\ PageCovers(answer.page, answer.next, answer.torn)
      BY <1>a, <2>1 DEF AnswerInv
    <3>3. cursor'.svc = svc /\ cursor'.seq = answer.next /\ cursor' \in [svc : Nat, seq : Nat]
      BY <1>a, <3>1, <3>2 DEF ClientInv
    <3>4. ClientInv'
      BY <1>a, <1>c, <3>1, <3>2, <3>3 DEF ClientInv, LogInv
    <3>5. NoImplicitJump'
      <4> SUFFICES ASSUME NEW e \in published, e.svc = svc, e.seq <= answer.next
                   PROVE  \/ e \in seen'
                          \/ e.seq <= told
                          \/ literal /\ e.seq = told + 1
                          \/ e \in slipped' /\ e \notin events
        BY <1>c, <3>1, <3>3 DEF NoImplicitJump, Overlooked
      <4>1. \/ e \in seen \union answer.page
            \/ e.seq <= told
            \/ Overlooked(e.seq)
            \/ e \in slipped /\ e \notin events
            \/ answer.torn = TRUE /\ e.seq > cursor.seq /\ e \notin events
        BY <3>2 DEF PageCovers
      <4>2. CASE e \in seen \union answer.page \/ e.seq <= told \/ Overlooked(e.seq)
        BY <3>1, <4>2 DEF Overlooked
      <4>3. CASE e \in slipped /\ e \notin events
        BY <3>1, <4>3
      <4>4. CASE answer.torn = TRUE /\ e.seq > cursor.seq /\ e \notin events /\ e \notin answer.page
        <5>1. e.seq \in cursor.seq + 1..answer.next
          BY <1>a, <3>2, <4>4 DEF LogInv, ClientInv, Row
        <5> QED BY <3>1, <3>2, <4>4, <5>1
      <4> QED BY <4>1, <4>2, <4>3, <4>4
    <3>6. OneGeneration'
      BY <1>a, <3>1, <3>2, <3>3 DEF OneGeneration
    <3> QED BY <3>4, <3>5, <3>6
  <2>2. CASE answer.kind = "CursorGap"
    <3> DEFINE next == IF literal THEN answer.earliest ELSE answer.earliest - 1
    <3>1. /\ cursor' = [cursor EXCEPT !.seq = next]
          /\ told' = answer.earliest - 1 /\ seen' = seen /\ literal' = literal
      BY <2>2 DEF Receive
    <3>2. answer.earliest \in 1..last /\ last \in Nat
      BY <1>a, <2>2 DEF AnswerInv, LogInv
    <3>3. next \in 0..last /\ told' \in Nat
      BY <3>1, <3>2
    <3>4. /\ cursor'.svc = cursor.svc /\ cursor'.seq = next
          /\ cursor' \in [svc : Nat, seq : Nat]
      BY <1>a, <3>1, <3>3 DEF ClientInv
    <3>5. ClientInv'
      BY <1>c, <3>2, <3>3, <3>4 DEF ClientInv
    <3>6. NoImplicitJump'
      <4>1. \A e \in published :
              e.seq <= next => \/ e.seq <= told'
                               \/ literal' /\ e.seq = told' + 1
        BY <1>a, <3>1, <3>2 DEF LogInv, Row
      <4> QED BY <1>c, <3>4, <4>1 DEF NoImplicitJump, Overlooked
    <3>7. OneGeneration'
      BY <1>a, <3>1, <3>4 DEF OneGeneration
    <3> QED BY <3>5, <3>6, <3>7
  <2>3. CASE answer.kind = "IncompatibleGeneration"
    <3>1. Snapshot
      BY <2>3 DEF Receive
    <3> QED BY <1>b, <3>1, SnapshotKeeps
  <2>4. CASE answer.kind \notin {"Events", "CursorGap", "IncompatibleGeneration"}
    <3>1. UNCHANGED <<literal, cursor, seen, told, slipped>>
      BY <2>4 DEF Receive, client
    <3> QED BY <1>a, <1>c, <3>1 DEF ClientInv, NoImplicitJump, Overlooked, OneGeneration
  <2> QED BY <2>1, <2>2, <2>3, <2>4
<1> QED BY <1>1, <1>2, <1>3 DEF HistoryInv

(* The answer is lost, or the client starts again from a snapshot. *)
LEMMA ReconnectStep ==
  ASSUME HistoryInv, LoseAnswer \/ Reconnect
  PROVE  HistoryInv'
<1>a. LogInv /\ ClientInv /\ CallInv /\ AnswerInv /\ NoImplicitJump /\ OneGeneration
  BY DEF HistoryInv
<1>1. CASE LoseAnswer
  <2>1. /\ answer # NoAnswer /\ answer' = NoAnswer
        /\ UNCHANGED <<call, literal, cursor, seen, told, slipped>> /\ UNCHANGED log
    BY <1>1 DEF LoseAnswer, client
  <2>2. LogInv' /\ AnswerInv'
    BY <1>a, <2>1, LogStays DEF AnswerInv, NoAnswer
  <2>3. CallInv'
    BY <1>a, <2>1 DEF CallInv
  <2>4. ClientInv' /\ NoImplicitJump' /\ OneGeneration'
    BY <1>a, <2>1 DEF ClientInv, NoImplicitJump, Overlooked, OneGeneration, log
  <2> QED BY <2>2, <2>3, <2>4 DEF HistoryInv
<1>2. CASE Reconnect
  <2>1. call = NoCall /\ answer = NoAnswer /\ Snapshot /\ UNCHANGED <<call, answer>> /\ UNCHANGED log
    BY <1>2 DEF Reconnect
  <2>2. LogInv' /\ AnswerInv' /\ CallInv'
    BY <1>a, <2>1, LogStays DEF AnswerInv, CallInv, NoAnswer
  <2> QED BY <2>1, <2>2, SnapshotKeeps DEF HistoryInv
<1> QED BY <1>1, <1>2

-----------------------------------------------------------------------------
(* The log, the call, the answer and the client agree throughout. *)
THEOREM HistoryInvariant == HistorySpec => []HistoryInv
<1>1. HistoryInit => HistoryInv
  <2> SUFFICES ASSUME HistoryInit PROVE HistoryInv
    OBVIOUS
  <2>1. LogInv
    BY FS_EmptySet DEF HistoryInit, LogInv
  <2>2. ClientInv /\ CallInv /\ AnswerInv
    BY DEF HistoryInit, ClientInv, CallInv, AnswerInv, NoAnswer
  <2>3. NoImplicitJump /\ OneGeneration
    BY DEF HistoryInit, NoImplicitJump, OneGeneration
  <2> QED BY <2>1, <2>2, <2>3 DEF HistoryInv
<1>2. HistoryInv /\ [HistoryNext]_historyVars => HistoryInv'
  <2> SUFFICES ASSUME HistoryInv, [HistoryNext]_historyVars PROVE HistoryInv'
    OBVIOUS
  <2>1. CASE UNCHANGED historyVars
    BY <2>1 DEF historyVars, HistoryInv, LogInv, ClientInv, CallInv, AnswerInv, PageCovers, EventsOf,
       NoImplicitJump, Overlooked, OneGeneration
  <2>2. CASE Ask
    BY <2>2, SubscribeStep DEF Ask
  <2> QED BY <2>1, <2>2, PublishStep, PruneStep, RestartStep, ReplayStep, ReceiveStep,
             ReconnectStep DEF HistoryNext
<1> QED BY <1>1, <1>2, PTL DEF HistorySpec

(***************************************************************************)
(* EventService::subscribe never moves a client past an event that it      *)
(* neither returned nor reported as a gap, whatever commits tear its       *)
(* calls and whatever retention, lost answers, snapshots and restarts come *)
(* in between, but for two: the event of earliest_available, to a client   *)
(* that continues from there, and what retention deleted before the page   *)
(* of a torn call that passed it.                                          *)
(***************************************************************************)
THEOREM NoEventIsPassed == HistorySpec => []NoImplicitJump
<1>1. HistoryInv => NoImplicitJump
  BY DEF HistoryInv
<1> QED BY <1>1, HistoryInvariant, PTL

(***************************************************************************)
(* replay_events filters by service instance and a restart drops the       *)
(* exchange: a client sees events of its cursor's instance only.           *)
(***************************************************************************)
THEOREM GenerationsStayApart == HistorySpec => []OneGeneration
<1>1. HistoryInv => OneGeneration
  BY DEF HistoryInv
<1> QED BY <1>1, HistoryInvariant, PTL
=============================================================================
