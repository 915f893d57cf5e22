---------------------------- MODULE ReceiveStore ----------------------------
(***************************************************************************)
(* The durable receive evidence of crates/storage/src/receive.rs, with the *)
(* public event that PublicReceiveStore (apps/daemon/src/receive_api.rs)   *)
(* commits in the same transaction.  A call is one immediate transaction:  *)
(* it commits whole or rolls back whole, sequences included.  A caller may *)
(* repeat a call whose answer it never saw, a database may have been       *)
(* filled by record_receive alone before the event was coupled to it, and  *)
(* retention deletes windows and events separately.                        *)
(***************************************************************************)
EXTENDS Integers, FiniteSets, FiniteSetsExt

CONSTANTS
  Ids,         \* receive window identities
  Contexts,    \* service, generations, slot, device and configuration
  Bodies,      \* capture mapping, diagnostics, decodes and record time
  MaxWindows,  \* bound: window sequences
  MaxEvents,   \* bound: event sequences
  MaxPage      \* MAX_RECEIVE_PAGE_SIZE

ASSUME ReceiveStoreAssumption == {MaxWindows, MaxEvents} \subseteq Nat /\ MaxPage \in Nat \ {0}

VARIABLES
  coupled,     \* whether the caller records through PublicReceiveStore
  windows,     \* receive_windows, with diagnostics and decodes
  events,      \* operational_events of kind receive_decode
  windowLast,  \* AUTOINCREMENT mark of receive_windows
  eventLast,   \* AUTOINCREMENT mark of operational_events
  committed,   \* history: every window row ever committed
  emitted,     \* history: every event row ever committed
  after,       \* the history cursor of a reader
  seen,        \* the windows it was shown
  more         \* what its last page said of has_more

reader == <<after, seen, more>>
vars == <<coupled, windows, events, windowLast, eventLast, committed, emitted, reader>>

Record == [id : Ids, ctx : Contexts, body : Bodies]
Window == [seq : 1..MaxWindows, rec : Record]

(* The event of a window: its identity is derived from the window's, its   *)
(* payload from the record and the window's sequence.                      *)
Event == [seq : 1..MaxEvents, id : Ids, payload : Window]

Init ==
  /\ coupled = FALSE
  /\ windows = {} /\ events = {} /\ windowLast = 0 /\ eventLast = 0
  /\ committed = {} /\ emitted = {}
  /\ after = 0 /\ seen = {} /\ more = TRUE

(* Mutant of Existing: only the identity is looked up. *)
ExistingById(rec) == {w \in windows : w.rec.id = rec.id}

(* find_existing_sequence: the same identity, or the same context. *)
Existing(rec) == {w \in windows : w.rec.id = rec.id \/ w.rec.ctx = rec.ctx}

(* The row a transaction on rec ends with: the one found, or a new one. *)
NewWindow(rec) == [seq |-> windowLast + 1, rec |-> rec]

(***************************************************************************)
(* The receive half of both transactions: the existing row if it is the    *)
(* exact record, a collision if it is not, otherwise insert_window,        *)
(* insert_diagnostics and insert_decode.  LIMIT is absent from the lookup, *)
(* so either matching row may be the one compared.                         *)
(***************************************************************************)
Inserts(rec, w) ==
  /\ IF Existing(rec) = {} THEN w = NewWindow(rec) /\ windowLast < MaxWindows
     ELSE w \in Existing(rec) /\ w.rec = rec
  /\ windows' = windows \union {w}
  /\ committed' = committed \union {w}
  /\ windowLast' = IF w.seq > windowLast THEN w.seq ELSE windowLast

(* record_receive of the plain Store. *)
RecordReceive(rec) ==
  /\ ~coupled
  /\ \E w \in windows \union {NewWindow(rec)} : Inserts(rec, w)
  /\ UNCHANGED <<coupled, events, eventLast, emitted, reader>>

(* Mutant of EmitsEvent: the stored payload is not compared. *)
EmitsEventUnchecked(w) ==
  IF \E e \in events : e.id = w.rec.id
  THEN UNCHANGED <<events, eventLast, emitted>>
  ELSE /\ eventLast < MaxEvents
       /\ LET event == [seq |-> eventLast + 1, id |-> w.rec.id, payload |-> w]
          IN  /\ events' = events \union {event}
              /\ emitted' = emitted \union {event}
              /\ eventLast' = eventLast + 1

(* Mutant of EmitsEvent: the event is left for later. *)
EmitsEventLater(w) == UNCHANGED <<events, eventLast, emitted>>

(* The event half: the stored event if it is the same, a collision if it   *)
(* differs, otherwise a new row.                                           *)
EmitsEvent(w) ==
  LET stored == {e \in events : e.id = w.rec.id}
      event  == [seq |-> eventLast + 1, id |-> w.rec.id, payload |-> w]
  IN  IF stored # {}
      THEN /\ \A e \in stored : e.payload = w
           /\ UNCHANGED <<events, eventLast, emitted>>
      ELSE /\ eventLast < MaxEvents
           /\ events' = events \union {event}
           /\ emitted' = emitted \union {event}
           /\ eventLast' = eventLast + 1

(* record_receive_with_event_builder: both halves, or neither. *)
RecordReceiveWithEvent(rec) ==
  /\ coupled
  /\ \E w \in windows \union {NewWindow(rec)} : Inserts(rec, w) /\ EmitsEvent(w)
  /\ UNCHANGED <<coupled, reader>>

(* The daemon that records through PublicReceiveStore takes over the file. *)
Upgrade ==
  /\ ~coupled
  /\ coupled' = TRUE
  /\ UNCHANGED <<windows, events, windowLast, eventLast, committed, emitted, reader>>

(* prune_receive_before; diagnostics and decodes cascade. *)
PruneReceiveBefore(first) ==
  /\ \E w \in windows : w.seq < first
  /\ windows' = {w \in windows : w.seq >= first}
  /\ UNCHANGED <<coupled, events, windowLast, eventLast, committed, emitted, reader>>

(* prune_events_before *)
PruneEventsBefore(first) ==
  /\ \E e \in events : e.seq < first
  /\ events' = {e \in events : e.seq >= first}
  /\ UNCHANGED <<coupled, windows, windowLast, eventLast, committed, emitted, reader>>

(* receive_page asks for one row more than its limit ... *)
Fetched(limit) ==
  {w \in windows : w.seq > after /\ Cardinality({v \in windows : v.seq \in after + 1..w.seq - 1}) <= limit}

(* ... tells from it whether there are more, and returns the others. *)
Page(limit) ==
  {w \in Fetched(limit) : Cardinality({v \in Fetched(limit) : v.seq < w.seq}) < limit}

(* Mutant of NextSequence: the cursor of the row that was not returned. *)
NextSequenceFetched(limit) == Max({w.seq : w \in Fetched(limit)} \union {after})

(* map_receive_page: the last record's sequence, or the cursor as it was. *)
NextSequence(limit) == Max({w.seq : w \in Page(limit)} \union {after})

(***************************************************************************)
(* query_receive_history, by a reader that follows next_sequence.  It is   *)
(* one step although receive_page reads each record by a statement of its  *)
(* own: the statement that lists the sequences is open around them, so     *)
(* that SQLite serves all from one snapshot, and a commit of another       *)
(* connection falls before or after the page.                              *)
(***************************************************************************)
ReceivePage(limit) ==
  /\ after' = NextSequence(limit)
  /\ seen' = seen \union Page(limit)
  /\ more' = (Cardinality(Fetched(limit)) > limit)
  /\ UNCHANGED <<coupled, windows, events, windowLast, eventLast, committed, emitted>>

Next ==
  \/ \E rec \in Record : RecordReceive(rec) \/ RecordReceiveWithEvent(rec)
  \/ Upgrade
  \/ \E first \in 1..MaxWindows + 1 : PruneReceiveBefore(first)
  \/ \E first \in 1..MaxEvents + 1 : PruneEventsBefore(first)
  \/ \E limit \in 1..MaxPage : ReceivePage(limit)

Spec == Init /\ [][Next]_vars

-----------------------------------------------------------------------------
(* Every variable has its type. *)
TypeOK ==
  /\ coupled \in BOOLEAN
  /\ windows \subseteq Window /\ committed \subseteq Window
  /\ events \subseteq Event /\ emitted \subseteq Event
  /\ windowLast \in 0..MaxWindows /\ eventLast \in 0..MaxEvents
  /\ after \in 0..MaxWindows /\ seen \subseteq Window /\ more \in BOOLEAN

(***************************************************************************)
(* No two retained windows share an identity, a context or a sequence, and *)
(* a sequence never names two different records over the file's life.      *)
(***************************************************************************)
WindowsAreDistinct ==
  /\ \A v, w \in windows :
       v.rec.id = w.rec.id \/ v.rec.ctx = w.rec.ctx => v = w
  /\ \A v, w \in committed : v.seq = w.seq => v = w

(***************************************************************************)
(* A public event claims only what was committed, and while its window is  *)
(* retained it names that very row: a window recorded again after          *)
(* retention cannot hide behind the event of its former row.               *)
(***************************************************************************)
EventNamesItsWindow ==
  \A e \in events :
    /\ e.payload \in committed
    /\ \A w \in windows : w.rec.id = e.id => w = e.payload

(***************************************************************************)
(* A window committed through PublicReceiveStore was published: each step  *)
(* that adds a window to the file while coupled adds its event too.        *)
(***************************************************************************)
WindowsArePublished ==
  [][\A w \in committed' \ committed :
       coupled => \E e \in emitted' : e.payload = w]_vars

(***************************************************************************)
(* A reader that follows next_sequence was shown every retained window     *)
(* behind its cursor, whatever was recorded, pruned and recorded again     *)
(* between its pages, and a page that says there are no more is the last.  *)
(***************************************************************************)
PagesMissNothing ==
  [][/\ \A w \in windows' : w.seq <= after' => w \in seen'
     /\ ~more' /\ (after' # after \/ more) => \A w \in windows' : w.seq <= after']_vars
=============================================================================
