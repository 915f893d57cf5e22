------------------------- MODULE ReceiveStoreProofs -------------------------
(***************************************************************************)
(* The four properties of ReceiveStore for every set of identities,        *)
(* contexts and bodies, every page size and any number of rows.  StoreInv  *)
(* says what the rows, the AUTOINCREMENT marks and the reader's cursor     *)
(* have to do with each other.                                             *)
(*                                                                         *)
(* Then the five properties of ReceiveColumns for every vocabulary, every  *)
(* bound and any number of decodes.  What is stored reads back as itself,  *)
(* ColumnsInv following a window from stage to stage; the order in which   *)
(* candidates are heard does not matter (HeardInAnyOrder); and what is     *)
(* sent is what is read (SentIsRead).  They rest on what sorting does      *)
(* (OrderEnumerates, SortedIsSorted), on the types of what the codec       *)
(* returns (DecodedAreDecodes, SynthesizedIsHeard), on the round trip of   *)
(* the codec (EncodedIsRead), and on those from a record to its columns    *)
(* and back (AcceptedIsStored) and from columns to a record and back       *)
(* (RowReadsBack).                                                         *)
(***************************************************************************)
EXTENDS ReceiveStore, ReceiveColumns, FiniteSetTheorems, SequenceTheorems, TLAPS

(* Sequences are used up: no row, retained or not, is above the mark.      *)
Marked ==
  /\ IsFiniteSet(windows) /\ windows \subseteq committed
  /\ \A w \in committed : w.seq <= windowLast
  /\ after <= windowLast

(* Events come from the coupled store and are named after their window.    *)
Coupled ==
  /\ ~coupled => events = {}
  /\ \A e \in events : e.id = e.payload.rec.id

(* The reader was shown every retained window behind its cursor. *)
ShownBehind == \A w \in windows : w.seq <= after => w \in seen

StoreInv ==
  TypeOK /\ Marked /\ Coupled /\ ShownBehind /\ WindowsAreDistinct /\ EventNamesItsWindow

-----------------------------------------------------------------------------
(* A set of naturals that is not empty has a least element. *)
LEMMA LeastExists ==
  ASSUME NEW S \in SUBSET Nat, S # {}
  PROVE  \E x \in S : \A y \in S : x <= y
<1> DEFINE R == OpToRel(<, Nat)
<1>1. IsWellFoundedOn(R, Nat)
  BY NatLessThanWellFounded
<1>2. PICK x \in S : \A y \in S : ~(<<y, x>> \in R)
  <2> HIDE DEF R
  <2> QED BY <1>1, WFMin
<1>3. \A y \in S : ~(y < x)
  BY <1>2 DEF OpToRel
<1> QED BY <1>3

(* A bounded set of naturals that is not empty has a maximum: Max. *)
LEMMA MaxIsGreatest ==
  ASSUME NEW bound \in Nat, NEW S \in SUBSET (0..bound), S # {}
  PROVE  Max(S) \in S /\ \A y \in S : y <= Max(S)
<1> DEFINE T == {bound - y : y \in S}
<1>1. T \in SUBSET Nat /\ T # {}
  <2>1. \A y \in S : bound - y \in Nat
    OBVIOUS
  <2>2. PICK s : s \in S
    OBVIOUS
  <2>3. bound - s \in T
    BY <2>2
  <2> QED BY <2>1, <2>3
<1>2. PICK t \in T : \A u \in T : t <= u
  <2> HIDE DEF T
  <2> QED BY <1>1, LeastExists
<1>3. PICK x \in S : t = bound - x
  BY <1>2
<1>4. \A y \in S : x >= y
  <2> SUFFICES ASSUME NEW y \in S PROVE x >= y
    OBVIOUS
  <2>1. bound - x <= bound - y
    BY <1>2, <1>3
  <2> QED BY <2>1
<1>5. \E z \in S : \A y \in S : z >= y
  BY <1>4
<1>6. Max(S) \in S /\ \A y \in S : Max(S) >= y
  BY <1>5 DEF Max
<1> QED BY <1>6

-----------------------------------------------------------------------------
(* The receive half of a transaction finds the exact record or adds a row  *)
(* whose sequence, identity and context no retained row has.               *)
LEMMA InsertsCases ==
  ASSUME StoreInv, NEW rec \in Record, NEW w \in windows \union {NewWindow(rec)},
         Inserts(rec, w)
  PROVE  \/ w \in windows /\ UNCHANGED <<windows, committed, windowLast>>
         \/ /\ w \in Window /\ w \notin committed
            /\ w.seq = windowLast + 1 /\ w.rec = rec
            /\ windowLast' = windowLast + 1 /\ windowLast' \in 0..MaxWindows
            /\ windows' = windows \union {w} /\ committed' = committed \union {w}
            /\ \A v \in windows : v.rec.id # rec.id /\ v.rec.ctx # rec.ctx
<1> USE ReceiveStoreAssumption
<1>a. /\ windows \subseteq Window /\ committed \subseteq Window
      /\ windowLast \in 0..MaxWindows /\ windows \subseteq committed
      /\ \A v \in committed : v.seq <= windowLast
  BY DEF StoreInv, TypeOK, Marked
<1>1. CASE Existing(rec) = {}
  <2>1. w = NewWindow(rec) /\ windowLast < MaxWindows
    BY <1>1 DEF Inserts
  <2>2. w.seq = windowLast + 1 /\ w.rec = rec /\ w \in Window
    BY <1>a, <2>1 DEF NewWindow, Window
  <2>3. w \notin committed
    BY <1>a, <2>2
  <2>4. windows' = windows \union {w} /\ committed' = committed \union {w}
    BY DEF Inserts
  <2>5. windowLast' = windowLast + 1
    BY <1>a, <2>2 DEF Inserts
  <2>6. \A v \in windows : v.rec.id # rec.id /\ v.rec.ctx # rec.ctx
    BY <1>1 DEF Existing
  <2> QED BY <1>a, <2>1, <2>2, <2>3, <2>4, <2>5, <2>6
<1>2. CASE Existing(rec) # {}
  <2>1. w \in windows
    BY <1>2 DEF Inserts, Existing
  <2>2. w \in committed /\ w.seq \in 1..MaxWindows /\ w.seq <= windowLast
    BY <1>a, <2>1 DEF Window
  <2>3. windowLast' = windowLast
    BY <1>a, <2>2 DEF Inserts
  <2>4. windows' = windows /\ committed' = committed
    BY <2>1, <2>2 DEF Inserts
  <2> QED BY <2>1, <2>3, <2>4
<1> QED BY <1>1, <1>2

(* The receive half keeps what StoreInv says of windows and of the reader. *)
LEMMA InsertsKeeps ==
  ASSUME StoreInv, NEW rec \in Record, NEW w \in windows \union {NewWindow(rec)},
         Inserts(rec, w), UNCHANGED reader
  PROVE  /\ windows' \subseteq Window /\ committed' \subseteq Window
         /\ windowLast' \in 0..MaxWindows
         /\ Marked' /\ ShownBehind' /\ WindowsAreDistinct'
<1>a. /\ windows \subseteq Window /\ committed \subseteq Window
      /\ windowLast \in 0..MaxWindows /\ after \in 0..MaxWindows
      /\ Marked /\ ShownBehind /\ WindowsAreDistinct
  BY DEF StoreInv, TypeOK
<1>b. after' = after /\ seen' = seen
  BY DEF reader
<1>1. CASE w \in windows /\ UNCHANGED <<windows, committed, windowLast>>
  BY <1>1, <1>a, <1>b DEF Marked, ShownBehind, WindowsAreDistinct
<1>2. CASE /\ w \in Window /\ w \notin committed
           /\ w.seq = windowLast + 1 /\ w.rec = rec
           /\ windowLast' = windowLast + 1 /\ windowLast' \in 0..MaxWindows
           /\ windows' = windows \union {w} /\ committed' = committed \union {w}
           /\ \A v \in windows : v.rec.id # rec.id /\ v.rec.ctx # rec.ctx
  <2>1. windows' \subseteq Window /\ committed' \subseteq Window
    BY <1>2, <1>a
  <2>2. \A v \in committed' : v.seq \in Nat
    BY <2>1 DEF Window
  <2>3. Marked'
    <3>1. IsFiniteSet(windows')
      BY <1>2, <1>a, FS_AddElement DEF Marked
    <3>2. \A v \in committed' : v.seq <= windowLast'
      BY <1>2, <1>a, <2>2 DEF Marked
    <3>3. after' <= windowLast'
      BY <1>2, <1>a, <1>b DEF Marked
    <3> QED BY <3>1, <3>2, <3>3, <1>2, <1>a DEF Marked
  <2>4. ShownBehind'
    <3>1. w.seq > after
      BY <1>2, <1>a DEF Marked
    <3> QED BY <3>1, <1>2, <1>a, <1>b DEF ShownBehind
  <2>5. WindowsAreDistinct'
    <3>1. \A u, v \in windows' : u.rec.id = v.rec.id \/ u.rec.ctx = v.rec.ctx => u = v
      BY <1>2, <1>a DEF WindowsAreDistinct
    <3>2. \A u, v \in committed' : u.seq = v.seq => u = v
      <4>1. \A v \in committed : v.seq # w.seq
        BY <1>2, <1>a, <2>2 DEF Marked
      <4> QED BY <4>1, <1>2, <1>a DEF WindowsAreDistinct
    <3> QED BY <3>1, <3>2 DEF WindowsAreDistinct
  <2> QED BY <1>2, <2>1, <2>3, <2>4, <2>5
<1> QED BY <1>1, <1>2, InsertsCases

(* record_receive on a file that has no events yet. *)
LEMMA RecordReceiveStep ==
  ASSUME StoreInv, NEW rec \in Record, RecordReceive(rec)
  PROVE  StoreInv'
<1>1. PICK w \in windows \union {NewWindow(rec)} : Inserts(rec, w)
  BY DEF RecordReceive
<1>2. UNCHANGED <<coupled, events, eventLast, emitted>> /\ UNCHANGED reader
  BY DEF RecordReceive
<1>3. events = {} /\ events' = {}
  BY <1>2 DEF RecordReceive, StoreInv, Coupled
<1>4. /\ windows' \subseteq Window /\ committed' \subseteq Window
      /\ windowLast' \in 0..MaxWindows
      /\ Marked' /\ ShownBehind' /\ WindowsAreDistinct'
  BY <1>1, <1>2, InsertsKeeps
<1>5. TypeOK'
  BY <1>2, <1>4 DEF StoreInv, TypeOK, reader
<1>6. Coupled' /\ EventNamesItsWindow'
  BY <1>3 DEF Coupled, EventNamesItsWindow
<1> QED BY <1>4, <1>5, <1>6 DEF StoreInv

(***************************************************************************)
(* The event half never meets the event of a window that was pruned and    *)
(* recorded again: the stored payload names another sequence, so the       *)
(* comparison fails and the transaction does not commit.                   *)
(***************************************************************************)
LEMMA EmitsEventCases ==
  ASSUME StoreInv, NEW rec \in Record, NEW w \in windows \union {NewWindow(rec)},
         Inserts(rec, w), EmitsEvent(w)
  PROVE  \/ w \in windows /\ UNCHANGED <<events, eventLast, emitted>>
         \/ \E event : /\ event.payload = w /\ event.id = w.rec.id
                       /\ event = [seq |-> eventLast + 1, id |-> w.rec.id, payload |-> w]
                       /\ eventLast < MaxEvents /\ eventLast' = eventLast + 1
                       /\ events' = events \union {event} /\ emitted' = emitted \union {event}
                       /\ \A e \in events : e.id # w.rec.id
<1> DEFINE stored == {e \in events : e.id = w.rec.id}
           event  == [seq |-> eventLast + 1, id |-> w.rec.id, payload |-> w]
<1>1. CASE stored # {}
  <2>1. PICK e \in stored : TRUE
    BY <1>1
  <2>2. e \in events /\ e.payload = w /\ UNCHANGED <<events, eventLast, emitted>>
    BY <1>1, <2>1 DEF EmitsEvent
  <2>3. w \in committed
    BY <2>2 DEF StoreInv, EventNamesItsWindow
  <2>4. w \in windows
    BY <2>3, InsertsCases
  <2> QED BY <2>2, <2>4
<1>2. CASE stored = {}
  <2>1. /\ eventLast < MaxEvents /\ eventLast' = eventLast + 1
        /\ events' = events \union {event} /\ emitted' = emitted \union {event}
    BY <1>2 DEF EmitsEvent
  <2>2. event.payload = w /\ event.id = w.rec.id
    OBVIOUS
  <2>3. \A e \in events : e.id # w.rec.id
    BY <1>2
  <2> HIDE DEF event
  <2>4. event = [seq |-> eventLast + 1, id |-> w.rec.id, payload |-> w]
    BY DEF event
  <2> QED BY <2>1, <2>2, <2>3, <2>4
<1> QED BY <1>1, <1>2

(* record_receive_with_event_builder *)
LEMMA RecordReceiveWithEventStep ==
  ASSUME StoreInv, NEW rec \in Record, RecordReceiveWithEvent(rec)
  PROVE  StoreInv'
<1>1. PICK w \in windows \union {NewWindow(rec)} : Inserts(rec, w) /\ EmitsEvent(w)
  BY DEF RecordReceiveWithEvent
<1>2. coupled /\ coupled' /\ UNCHANGED reader /\ coupled' = coupled
  BY DEF RecordReceiveWithEvent
<1>3. /\ windows' \subseteq Window /\ committed' \subseteq Window
      /\ windowLast' \in 0..MaxWindows
      /\ Marked' /\ ShownBehind' /\ WindowsAreDistinct'
  BY <1>1, <1>2, InsertsKeeps
<1>4. w \in windows' /\ w \in committed' /\ committed \subseteq committed'
  BY <1>1 DEF Inserts
<1>5. w.rec.id \in Ids
  BY <1>3, <1>4 DEF Window, Record
<1>6. CASE w \in windows /\ UNCHANGED <<events, eventLast, emitted>>
  <2>1. TypeOK'
    BY <1>2, <1>3, <1>6 DEF StoreInv, TypeOK, reader
  <2>2. windows' = windows
    BY <1>1, <1>6 DEF Inserts
  <2>3. Coupled' /\ EventNamesItsWindow'
    BY <1>2, <1>4, <1>6, <2>2 DEF StoreInv, Coupled, EventNamesItsWindow
  <2> QED BY <1>3, <2>1, <2>3 DEF StoreInv
<1>7. ASSUME NEW event, event.payload = w, event.id = w.rec.id,
             event = [seq |-> eventLast + 1, id |-> w.rec.id, payload |-> w],
             eventLast < MaxEvents, eventLast' = eventLast + 1,
             events' = events \union {event}, emitted' = emitted \union {event},
             \A e \in events : e.id # w.rec.id
      PROVE  StoreInv'
  <2>1. eventLast' \in 0..MaxEvents /\ event \in Event
    <3>1. eventLast \in 0..MaxEvents
      BY DEF StoreInv, TypeOK
    <3> QED BY <1>3, <1>4, <1>5, <1>7, <3>1, ReceiveStoreAssumption DEF Event
  <2>2. TypeOK'
    BY <1>2, <1>3, <1>7, <2>1 DEF StoreInv, TypeOK, reader
  <2>3. Coupled'
    BY <1>2, <1>7 DEF StoreInv, Coupled
  <2>4. EventNamesItsWindow'
    <3> SUFFICES ASSUME NEW e \in events'
                 PROVE  /\ e.payload \in committed'
                        /\ \A v \in windows' : v.rec.id = e.id => v = e.payload
      BY DEF EventNamesItsWindow
    <3>1. CASE e = event
      BY <1>3, <1>4, <1>7, <3>1 DEF WindowsAreDistinct
    <3>2. CASE e \in events
      <4>1. /\ e.payload \in committed /\ e.id # w.rec.id
            /\ \A v \in windows : v.rec.id = e.id => v = e.payload
        BY <1>7, <3>2 DEF StoreInv, EventNamesItsWindow
      <4>2. windows' = windows \union {w}
        BY <1>1 DEF Inserts
      <4> QED BY <1>4, <4>1, <4>2
    <3> QED BY <1>7, <3>1, <3>2
  <2> QED BY <1>3, <2>2, <2>3, <2>4 DEF StoreInv
<1> QED BY <1>1, <1>6, <1>7, EmitsEventCases

(* Retention deletes rows and nothing else. *)
LEMMA PruneStep ==
  ASSUME StoreInv, windows' \subseteq windows, events' \subseteq events,
         UNCHANGED <<coupled, windowLast, eventLast, committed, emitted, reader>>
  PROVE  StoreInv'
<1>1. TypeOK'
  BY DEF StoreInv, TypeOK, reader
<1>2. Marked'
  <2>1. IsFiniteSet(windows')
    BY FS_Subset DEF StoreInv, Marked
  <2> QED BY <2>1 DEF StoreInv, Marked, reader
<1>3. Coupled' /\ ShownBehind'
  BY DEF StoreInv, Coupled, ShownBehind, reader
<1>4. WindowsAreDistinct' /\ EventNamesItsWindow'
  BY DEF StoreInv, WindowsAreDistinct, EventNamesItsWindow
<1> QED BY <1>1, <1>2, <1>3, <1>4 DEF StoreInv

-----------------------------------------------------------------------------
(* The rows between the cursor and w are finite in number, and rows that   *)
(* come later have more of them.                                           *)
LEMMA BetweenIsMonotone ==
  ASSUME StoreInv, NEW v \in windows, NEW w \in windows, v.seq <= w.seq
  PROVE  LET Between(u) == {x \in windows : x.seq \in after + 1..u.seq - 1}
         IN  /\ Cardinality(Between(v)) \in Nat /\ Cardinality(Between(w)) \in Nat
             /\ Cardinality(Between(v)) <= Cardinality(Between(w))
<1> DEFINE B(u) == {x \in windows : x.seq \in after + 1..u.seq - 1}
<1>1. IsFiniteSet(windows) /\ after \in Nat /\ \A x \in windows : x.seq \in Nat
  BY DEF StoreInv, TypeOK, Marked, Window
<1>2. IsFiniteSet(B(v)) /\ IsFiniteSet(B(w))
  BY <1>1, FS_Subset
<1>3. B(v) \subseteq B(w)
  BY <1>1
<1>4. Cardinality(B(v)) \in Nat /\ Cardinality(B(w)) \in Nat
  BY <1>2, FS_CardinalityType
<1>5. Cardinality(B(v)) <= Cardinality(B(w))
  BY <1>2, <1>3, FS_Subset
<1> QED BY <1>4, <1>5

(* receive_page returns an initial run of what lies ahead of the cursor. *)
LEMMA PageIsInitial ==
  ASSUME StoreInv, NEW limit \in 1..MaxPage, NEW p \in Page(limit), NEW w \in windows,
         w.seq > after, w.seq <= p.seq
  PROVE  w \in Page(limit)
<1> USE ReceiveStoreAssumption
<1>1. IsFiniteSet(windows) /\ after \in Nat /\ \A x \in windows : x.seq \in Nat
  BY DEF StoreInv, TypeOK, Marked, Window
<1>2. p \in Fetched(limit) /\ p \in windows /\ p.seq > after
  BY DEF Page, Fetched
<1>3. w \in Fetched(limit)
  <2> DEFINE B(u) == {x \in windows : x.seq \in after + 1..u.seq - 1}
  <2>1. /\ Cardinality(B(w)) \in Nat /\ Cardinality(B(p)) \in Nat
        /\ Cardinality(B(w)) <= Cardinality(B(p))
    BY <1>2, BetweenIsMonotone
  <2>2. Cardinality(B(p)) <= limit /\ limit \in Nat
    BY <1>2 DEF Fetched
  <2>3. Cardinality(B(w)) <= limit
    <3> HIDE DEF B
    <3> QED BY <2>1, <2>2
  <2> QED BY <2>3 DEF Fetched
<1> DEFINE L(u) == {x \in Fetched(limit) : x.seq < u.seq}
<1>4. L(w) \subseteq L(p) /\ L(p) \subseteq windows /\ L(w) \subseteq windows
  BY <1>1, <1>2 DEF Fetched
<1>5. IsFiniteSet(L(p)) /\ IsFiniteSet(L(w))
  BY <1>1, <1>4, FS_Subset
<1>6. Cardinality(L(w)) <= Cardinality(L(p))
  BY <1>4, <1>5, FS_Subset
<1>7. Cardinality(L(p)) < limit
  BY DEF Page
<1>8. Cardinality(L(w)) \in Nat /\ Cardinality(L(p)) \in Nat /\ limit \in Nat
  BY <1>5, FS_CardinalityType
<1> HIDE DEF L
<1>9. Cardinality(L(w)) < limit
  BY <1>6, <1>7, <1>8
<1> QED BY <1>3, <1>9 DEF Page, L

(* The cursor of a page: the last row returned, or where it was. *)
LEMMA NextSequenceBounds ==
  ASSUME StoreInv, NEW limit \in 1..MaxPage
  PROVE  /\ NextSequence(limit) \in 0..MaxWindows
         /\ NextSequence(limit) <= windowLast /\ NextSequence(limit) >= after
         /\ \A p \in Page(limit) : p.seq <= NextSequence(limit)
         /\ NextSequence(limit) = after \/ \E p \in Page(limit) : p.seq = NextSequence(limit)
<1> DEFINE S == {w.seq : w \in Page(limit)} \union {after}
<1>1. /\ windowLast \in 0..MaxWindows /\ MaxWindows \in Nat /\ after \in 0..MaxWindows
      /\ after <= windowLast
      /\ \A w \in windows : w.seq \in Nat /\ w.seq <= windowLast
  BY ReceiveStoreAssumption DEF StoreInv, TypeOK, Marked, Window
<1>2. Page(limit) \subseteq windows
  BY DEF Page, Fetched
<1>3. S \in SUBSET (0..windowLast) /\ S # {} /\ windowLast \in Nat
  BY <1>1, <1>2
<1>4. Max(S) \in S /\ \A y \in S : y <= Max(S)
  <2> HIDE DEF S
  <2> QED BY <1>3, MaxIsGreatest
<1>5. NextSequence(limit) = Max(S)
  BY DEF NextSequence
<1>6. after \in S /\ \A p \in Page(limit) : p.seq \in S
  OBVIOUS
<1>7. \A y \in S : y = after \/ \E p \in Page(limit) : p.seq = y
  OBVIOUS
<1> HIDE DEF S
<1>8. NextSequence(limit) \in S /\ \A y \in S : y <= NextSequence(limit)
  BY <1>4, <1>5
<1>9. NextSequence(limit) \in 0..windowLast /\ NextSequence(limit) >= after
  BY <1>1, <1>3, <1>6, <1>8
<1>10. NextSequence(limit) \in 0..MaxWindows /\ NextSequence(limit) <= windowLast
  BY <1>1, <1>9
<1> QED BY <1>6, <1>7, <1>8, <1>9, <1>10

LEMMA ReceivePageStep ==
  ASSUME StoreInv, NEW limit \in 1..MaxPage, ReceivePage(limit)
  PROVE  StoreInv'
<1>1. /\ after' = NextSequence(limit) /\ seen' = seen \union Page(limit)
      /\ more' = (Cardinality(Fetched(limit)) > limit)
      /\ UNCHANGED <<coupled, windows, events, windowLast, eventLast, committed, emitted>>
  BY DEF ReceivePage
<1>2. Page(limit) \subseteq windows
  BY DEF Page, Fetched
<1>3. TypeOK'
  <2>1. more' \in BOOLEAN
    BY <1>1
  <2>2. after' \in 0..MaxWindows
    BY <1>1, NextSequenceBounds
  <2> QED BY <1>1, <1>2, <2>1, <2>2 DEF StoreInv, TypeOK
<1>4. Marked'
  BY <1>1, NextSequenceBounds DEF StoreInv, Marked
<1>5. ShownBehind'
  <2> SUFFICES ASSUME NEW w \in windows, w.seq <= after'
               PROVE  w \in seen'
    BY <1>1 DEF ShownBehind
  <2>1. CASE w.seq <= after
    BY <1>1, <2>1 DEF StoreInv, ShownBehind
  <2>2. CASE ~(w.seq <= after)
    <3>1. w.seq \in Nat /\ after \in Nat /\ after' \in Nat
      BY <1>3 DEF StoreInv, TypeOK, Window
    <3>2. PICK p \in Page(limit) : p.seq = after'
      BY <1>1, <2>2, NextSequenceBounds
    <3>3. w \in Page(limit)
      BY <2>2, <3>1, <3>2, PageIsInitial
    <3> QED BY <1>1, <3>3
  <2> QED BY <2>1, <2>2
<1>6. Coupled' /\ WindowsAreDistinct' /\ EventNamesItsWindow'
  BY <1>1 DEF StoreInv, Coupled, WindowsAreDistinct, EventNamesItsWindow
<1> QED BY <1>3, <1>4, <1>5, <1>6 DEF StoreInv

(***************************************************************************)
(* A page that fetched no more than its limit fetched every row ahead of   *)
(* the cursor: the first row it left out would have limit + 1 rows, all    *)
(* fetched, before it.                                                     *)
(***************************************************************************)
LEMMA LastPageIsWhole ==
  ASSUME StoreInv, NEW limit \in 1..MaxPage, ~(Cardinality(Fetched(limit)) > limit)
  PROVE  \A w \in windows : w.seq > after => w \in Page(limit)
<1> USE ReceiveStoreAssumption
<1>1. IsFiniteSet(windows) /\ after \in Nat /\ limit \in Nat /\ \A x \in windows : x.seq \in Nat
  BY DEF StoreInv, TypeOK, Marked, Window
<1>2. IsFiniteSet(Fetched(limit)) /\ Fetched(limit) \subseteq windows
  BY <1>1, FS_Subset DEF Fetched
<1>3. Cardinality(Fetched(limit)) \in Nat /\ Cardinality(Fetched(limit)) <= limit
  BY <1>1, <1>2, FS_CardinalityType
<1>4. \A w \in windows : w.seq > after => w \in Fetched(limit)
  <2> DEFINE Left == {x \in windows : x.seq > after /\ x \notin Fetched(limit)}
             Places == {x.seq : x \in Left}
  <2>1. SUFFICES ASSUME Left # {} PROVE FALSE
    OBVIOUS
  <2>2. Places \in SUBSET Nat /\ Places # {}
    BY <1>1, <2>1
  <2>3. PICK n \in Places : \A m \in Places : n <= m
    <3> HIDE DEF Places
    <3> QED BY <2>2, LeastExists
  <2>4. PICK w \in Left : w.seq = n
    BY <2>3
  <2> DEFINE B == {x \in windows : x.seq \in after + 1..w.seq - 1}
  <2>5. B \subseteq Fetched(limit)
    <3> SUFFICES ASSUME NEW x \in B, x \notin Fetched(limit) PROVE FALSE
      OBVIOUS
    <3>1. x \in windows /\ x.seq \in Nat /\ w.seq \in Nat /\ x.seq > after /\ x.seq < w.seq
      BY <1>1
    <3>2. x.seq \in Places
      BY <3>1
    <3>3. n <= x.seq
      BY <2>3, <3>2
    <3> QED BY <2>4, <3>1, <3>3
  <2>6. Cardinality(B) \in Nat /\ Cardinality(B) <= Cardinality(Fetched(limit))
    <3>1. IsFiniteSet(B)
      BY <1>2, <2>5, FS_Subset
    <3> HIDE DEF B
    <3> QED BY <1>2, <2>5, <3>1, FS_Subset, FS_CardinalityType
  <2>7. ~(Cardinality(B) <= limit)
    BY <2>4 DEF Fetched
  <2> HIDE DEF B
  <2> QED BY <1>1, <1>3, <2>6, <2>7
<1>5. ASSUME NEW w \in Fetched(limit) PROVE w \in Page(limit)
  <2> DEFINE L == {x \in Fetched(limit) : x.seq < w.seq}
  <2>1. L \subseteq Fetched(limit) \ {w}
    BY <1>1, <1>2
  <2>2. /\ IsFiniteSet(Fetched(limit) \ {w})
        /\ Cardinality(Fetched(limit) \ {w}) = Cardinality(Fetched(limit)) - 1
    BY <1>2, <1>5, FS_RemoveElement
  <2>3. Cardinality(L) <= Cardinality(Fetched(limit)) - 1 /\ Cardinality(L) \in Nat
    <3> HIDE DEF L
    <3>1. IsFiniteSet(L) /\ Cardinality(L) <= Cardinality(Fetched(limit) \ {w})
      BY <2>1, <2>2, FS_Subset
    <3> QED BY <2>2, <3>1, FS_CardinalityType
  <2> HIDE DEF L
  <2>4. Cardinality(L) < limit
    BY <1>1, <1>3, <2>3
  <2> QED BY <1>5, <2>4 DEF Page, L
<1> QED BY <1>4, <1>5

-----------------------------------------------------------------------------
LEMMA StoreInit == Init => StoreInv
<1> SUFFICES ASSUME Init PROVE StoreInv
  OBVIOUS
<1>1. TypeOK
  <2>1. windowLast \in 0..MaxWindows /\ eventLast \in 0..MaxEvents /\ after \in 0..MaxWindows
    BY ReceiveStoreAssumption DEF Init
  <2>2. coupled \in BOOLEAN /\ more \in BOOLEAN
    BY DEF Init
  <2>3. windows = {} /\ committed = {} /\ events = {} /\ emitted = {} /\ seen = {}
    BY DEF Init
  <2> QED BY <2>1, <2>2, <2>3 DEF TypeOK
<1>2. Marked
  BY FS_EmptySet DEF Init, Marked
<1>3. Coupled /\ ShownBehind /\ WindowsAreDistinct /\ EventNamesItsWindow
  BY DEF Init, Coupled, ShownBehind, WindowsAreDistinct, EventNamesItsWindow
<1> QED BY <1>1, <1>2, <1>3 DEF StoreInv

LEMMA StoreStep == StoreInv /\ [Next]_vars => StoreInv'
<1> SUFFICES ASSUME StoreInv, [Next]_vars PROVE StoreInv'
  OBVIOUS
<1>1. CASE UNCHANGED vars
  BY <1>1, PruneStep DEF vars
<1>2. ASSUME NEW rec \in Record, RecordReceive(rec) \/ RecordReceiveWithEvent(rec)
      PROVE  StoreInv'
  BY <1>2, RecordReceiveStep, RecordReceiveWithEventStep
<1>3. CASE Upgrade
  <2>1. coupled' = TRUE
        /\ UNCHANGED <<windows, events, windowLast, eventLast, committed, emitted, reader>>
    BY <1>3 DEF Upgrade
  <2>2. TypeOK'
    BY <2>1 DEF StoreInv, TypeOK, reader
  <2>3. Marked' /\ ShownBehind'
    BY <2>1 DEF StoreInv, Marked, ShownBehind, reader
  <2>4. Coupled' /\ WindowsAreDistinct' /\ EventNamesItsWindow'
    BY <2>1 DEF StoreInv, Coupled, WindowsAreDistinct, EventNamesItsWindow
  <2> QED BY <2>2, <2>3, <2>4 DEF StoreInv
<1>4. ASSUME NEW first \in 1..MaxWindows + 1, PruneReceiveBefore(first)
      PROVE  StoreInv'
  BY <1>4, PruneStep DEF PruneReceiveBefore
<1>5. ASSUME NEW first \in 1..MaxEvents + 1, PruneEventsBefore(first)
      PROVE  StoreInv'
  BY <1>5, PruneStep DEF PruneEventsBefore
<1>6. ASSUME NEW limit \in 1..MaxPage, ReceivePage(limit)
      PROVE  StoreInv'
  BY <1>6, ReceivePageStep
<1> QED BY <1>1, <1>2, <1>3, <1>4, <1>5, <1>6 DEF Next

(* The rows, the marks and the cursor agree throughout. *)
THEOREM StoreInvariant == Spec => []StoreInv
BY StoreInit, StoreStep, PTL DEF Spec

(***************************************************************************)
(* find_existing_sequence with its comparison keeps retained windows apart *)
(* by identity, context and sequence, and AUTOINCREMENT never lets a       *)
(* sequence name two records, for any history of recording and retention.  *)
(***************************************************************************)
THEOREM DistinctWindows == Spec => []WindowsAreDistinct
<1>1. StoreInv => WindowsAreDistinct
  BY DEF StoreInv
<1> QED BY <1>1, StoreInvariant, PTL

(***************************************************************************)
(* record_receive_with_event_builder compares the stored payload, so an    *)
(* event names the very row its window has now.                            *)
(***************************************************************************)
THEOREM EventsNameWindows == Spec => []EventNamesItsWindow
<1>1. StoreInv => EventNamesItsWindow
  BY DEF StoreInv
<1> QED BY <1>1, StoreInvariant, PTL

(***************************************************************************)
(* A window that a coupled store commits is published in the same step.    *)
(***************************************************************************)
THEOREM PublishedTogether == Spec => WindowsArePublished
<1> DEFINE A == \A w \in committed' \ committed :
                  coupled => \E e \in emitted' : e.payload = w
<1>1. StoreInv /\ [Next]_vars => [A]_vars
  <2> SUFFICES ASSUME StoreInv, Next, NEW w \in committed' \ committed, coupled
               PROVE  \E e \in emitted' : e.payload = w
    BY DEF vars
  <2>1. PICK rec \in Record : RecordReceiveWithEvent(rec)
    BY DEF Next, RecordReceive, Upgrade, PruneReceiveBefore, PruneEventsBefore, ReceivePage
  <2>2. PICK v \in windows \union {NewWindow(rec)} : Inserts(rec, v) /\ EmitsEvent(v)
    BY <2>1 DEF RecordReceiveWithEvent
  <2>3. v = w /\ windows \subseteq committed
    BY <2>2 DEF Inserts, StoreInv, Marked
  <2>4. v \notin windows
    BY <2>3
  <2> QED BY <2>2, <2>3, <2>4, EmitsEventCases
<1> QED BY <1>1, StoreInvariant, PTL DEF Spec, WindowsArePublished

(***************************************************************************)
(* receive_page and next_sequence lose nothing: a reader has been shown    *)
(* every retained row behind its cursor, and has_more is false only when   *)
(* there are none ahead.                                                   *)
(***************************************************************************)
THEOREM PagesAreComplete == Spec => PagesMissNothing
<1> DEFINE A == /\ \A w \in windows' : w.seq <= after' => w \in seen'
                /\ ~more' /\ (after' # after \/ more) => \A w \in windows' : w.seq <= after'
<1>1. StoreInv /\ [Next]_vars => [A]_vars
  <2> SUFFICES ASSUME StoreInv, Next PROVE A
    OBVIOUS
  <2>1. StoreInv'
    BY StoreStep
  <2>2. \A w \in windows' : w.seq <= after' => w \in seen'
    BY <2>1 DEF StoreInv, ShownBehind
  <2>3. ASSUME ~more', after' # after \/ more, NEW w \in windows'
        PROVE  w.seq <= after'
    <3>1. PICK limit \in 1..MaxPage : ReceivePage(limit)
      BY <2>3 DEF Next, RecordReceive, RecordReceiveWithEvent, Upgrade, PruneReceiveBefore,
         PruneEventsBefore, reader
    <3>2. /\ w \in windows /\ after' = NextSequence(limit)
          /\ ~(Cardinality(Fetched(limit)) > limit)
      BY <2>3, <3>1 DEF ReceivePage
    <3>3. w.seq \in Nat /\ after \in Nat /\ after' \in Nat
      BY <2>1, <3>2 DEF StoreInv, TypeOK, Window
    <3>4. CASE w.seq > after
      <4>1. w \in Page(limit)
        BY <3>2, <3>4, LastPageIsWhole
      <4> QED BY <3>2, <4>1, NextSequenceBounds
    <3>5. CASE ~(w.seq > after)
      BY <3>2, <3>3, <3>5, NextSequenceBounds
    <3> QED BY <3>4, <3>5
  <2> QED BY <2>2, <2>3
<1> QED BY <1>1, StoreInvariant, PTL DEF Spec, PagesMissNothing

-----------------------------------------------------------------------------
(* Before[d] are the members of the finite set S that come before d in a   *)
(* total order.                                                            *)
Orders(S, Before) ==
  /\ IsFiniteSet(S) /\ Before \in [S -> SUBSET S]
  /\ \A d \in S : d \notin Before[d]
  /\ \A d, e \in S : d # e => d \in Before[e] \/ e \in Before[d]
  /\ \A d, e \in S : d \in Before[e] => Before[d] \subseteq Before[e]

(* s[n] is the member that n - 1 others come before, if there is one. *)
Enumerates(s, S, Before) ==
  \A n \in 1..Cardinality(S) : (\E d \in S : Cardinality(Before[d]) = n - 1) =>
                                 s[n] \in S /\ Cardinality(Before[s[n]]) = n - 1

(* A member is known by how many come before it, and every number below    *)
(* the cardinality is taken.                                               *)
LEMMA RanksAreTaken ==
  ASSUME NEW S, NEW Before, Orders(S, Before)
  PROVE  /\ Cardinality(S) \in Nat
         /\ \A d \in S : Cardinality(Before[d]) \in 0..Cardinality(S) - 1
         /\ \A d, e \in S : Cardinality(Before[d]) = Cardinality(Before[e]) => d = e
         /\ \A n \in 0..Cardinality(S) - 1 : \E d \in S : Cardinality(Before[d]) = n
         /\ \A d, e \in S : d \in Before[e] <=> Cardinality(Before[d]) < Cardinality(Before[e])
<1> DEFINE N == Cardinality(S)
           rank == [d \in S |-> Cardinality(Before[d])]
<1>1. N \in Nat
  BY FS_CardinalityType DEF Orders
<1>2. ASSUME NEW d \in S
      PROVE  /\ IsFiniteSet(Before[d]) /\ Cardinality(Before[d]) \in Nat
             /\ Cardinality(Before[d]) < N
  <2>1. Before[d] \in SUBSET S /\ Before[d] # S
    BY DEF Orders
  <2>2. IsFiniteSet(Before[d]) /\ Cardinality(Before[d]) <= N /\ Cardinality(Before[d]) # N
    BY <2>1, FS_Subset DEF Orders
  <2>3. Cardinality(Before[d]) \in Nat
    BY <2>2, FS_CardinalityType
  <2> QED BY <1>1, <2>2, <2>3
<1>3. ASSUME NEW d \in S, NEW e \in S, d \in Before[e]
      PROVE  Cardinality(Before[d]) < Cardinality(Before[e])
  <2>1. Before[d] \in SUBSET Before[e] /\ Before[d] # Before[e]
    BY <1>3 DEF Orders
  <2>2. /\ Cardinality(Before[d]) <= Cardinality(Before[e])
        /\ Cardinality(Before[d]) # Cardinality(Before[e])
    BY <1>2, <2>1, FS_Subset
  <2> QED BY <1>2, <2>2
<1>4. /\ \A d, e \in S : Cardinality(Before[d]) = Cardinality(Before[e]) => d = e
      /\ \A d, e \in S : d \in Before[e] <=> Cardinality(Before[d]) < Cardinality(Before[e])
  BY <1>2, <1>3 DEF Orders
<1>5. rank \in Injection(S, 0..N - 1)
  <2>1. rank \in [S -> 0..N - 1]
    BY <1>1, <1>2
  <2>2. \A d, e \in DOMAIN rank : rank[d] = rank[e] => d = e
    BY <1>4
  <2> QED BY <2>1, <2>2 DEF Injection, IsInjective
<1>6. IsFiniteSet(0..N - 1) /\ Cardinality(0..N - 1) = N
  BY <1>1, FS_Interval
<1>7. rank \in Surjection(S, 0..N - 1)
  BY <1>5, <1>6, FS_Injection
<1>8. \A n \in 0..N - 1 : \E d \in S : Cardinality(Before[d]) = n
  BY <1>7 DEF Surjection
<1>9. \A d \in S : Cardinality(Before[d]) \in 0..N - 1
  BY <1>1, <1>2
<1> QED BY <1>1, <1>4, <1>8, <1>9

(* Taking the member that n - 1 others are before, for every n in turn,    *)
(* enumerates the set in that order: InOrder.                              *)
LEMMA OrderEnumerates ==
  ASSUME NEW S, NEW Before, NEW s, Orders(S, Before), Enumerates(s, S, Before)
  PROVE  /\ Cardinality(S) \in Nat
         /\ \A n \in 1..Cardinality(S) : s[n] \in S /\ Cardinality(Before[s[n]]) = n - 1
         /\ \A d \in S : \E n \in 1..Cardinality(S) : s[n] = d
         /\ \A n, m \in 1..Cardinality(S) : n < m <=> s[n] \in Before[s[m]]
<1> DEFINE N == Cardinality(S)
<1>1. /\ N \in Nat
      /\ \A d \in S : Cardinality(Before[d]) \in 0..N - 1
      /\ \A d, e \in S : Cardinality(Before[d]) = Cardinality(Before[e]) => d = e
      /\ \A n \in 0..N - 1 : \E d \in S : Cardinality(Before[d]) = n
      /\ \A d, e \in S : d \in Before[e] <=> Cardinality(Before[d]) < Cardinality(Before[e])
  BY RanksAreTaken
<1>2. ASSUME NEW n \in 1..N
      PROVE  s[n] \in S /\ Cardinality(Before[s[n]]) = n - 1
  <2>1. n - 1 \in 0..N - 1
    BY <1>1
  <2>2. \E d \in S : Cardinality(Before[d]) = n - 1
    BY <1>1, <2>1
  <2> QED BY <2>2 DEF Enumerates
<1>3. ASSUME NEW d \in S
      PROVE  \E n \in 1..N : s[n] = d
  <2> DEFINE n == Cardinality(Before[d]) + 1
  <2>1. n \in 1..N /\ n - 1 = Cardinality(Before[d])
    BY <1>1
  <2>2. s[n] \in S /\ Cardinality(Before[s[n]]) = Cardinality(Before[d])
    BY <1>2, <2>1
  <2> QED BY <1>1, <2>1, <2>2
<1>4. \A n, m \in 1..N : n < m <=> s[n] \in Before[s[m]]
  BY <1>1, <1>2
<1> QED BY <1>1, <1>2, <1>3, <1>4

(* A sequence is a function of its places, which are finitely many. *)
LEMMA SeqDomain ==
  ASSUME NEW T, NEW s \in Seq(T)
  PROVE  /\ Len(s) \in Nat /\ DOMAIN s = 1..Len(s) /\ s \in [1..Len(s) -> T]
         /\ IsFiniteSet(DOMAIN s) /\ Cardinality(DOMAIN s) = Len(s)
<1>1. Len(s) \in Nat /\ DOMAIN s = 1..Len(s) /\ s \in [1..Len(s) -> T]
  OBVIOUS
<1>2. IsFiniteSet(1..Len(s)) /\ Cardinality(1..Len(s)) = Len(s)
  BY <1>1, FS_Interval
<1> QED BY <1>1, <1>2

(* Keys of four integers are in a total order. *)
LEMMA KeysAreOrdered ==
  ASSUME NEW a \in [1..4 -> Int], NEW b \in [1..4 -> Int]
  PROVE  /\ ~Precedes(a, a)
         /\ a # b => Precedes(a, b) \/ Precedes(b, a)
         /\ \A c \in [1..4 -> Int] : Precedes(a, b) /\ Precedes(b, c) => Precedes(a, c)
<1>1. ~Precedes(a, a)
  BY DEF Precedes
<1>2. ASSUME a # b
      PROVE  Precedes(a, b) \/ Precedes(b, a)
  <2> DEFINE D == {n \in 1..4 : a[n] # b[n]}
  <2>1. D # {} /\ D \in SUBSET Nat
    BY <1>2
  <2>2. PICK n \in D : \A m \in D : n <= m
    <3> HIDE DEF D
    <3> QED BY <2>1, LeastExists
  <2>3. \A k \in 1..n - 1 : a[k] = b[k]
    BY <2>2
  <2>4. n \in DOMAIN a /\ n \in DOMAIN b /\ (a[n] < b[n] \/ b[n] < a[n])
    BY <2>2
  <2> QED BY <2>3, <2>4 DEF Precedes
<1>3. ASSUME NEW c \in [1..4 -> Int], Precedes(a, b), Precedes(b, c)
      PROVE  Precedes(a, c)
  <2>1. PICK n \in 1..4 : a[n] < b[n] /\ \A k \in 1..n - 1 : a[k] = b[k]
    BY <1>3 DEF Precedes
  <2>2. PICK m \in 1..4 : b[m] < c[m] /\ \A k \in 1..m - 1 : b[k] = c[k]
    BY <1>3 DEF Precedes
  <2>3. CASE n <= m
    <3>1. a[n] < c[n]
      BY <2>1, <2>2, <2>3
    <3>2. \A k \in 1..n - 1 : a[k] = c[k]
      BY <2>1, <2>2, <2>3
    <3> QED BY <3>1, <3>2 DEF Precedes
  <2>4. CASE m < n
    <3>1. a[m] < c[m]
      BY <2>1, <2>2, <2>4
    <3>2. \A k \in 1..m - 1 : a[k] = c[k]
      BY <2>1, <2>2, <2>4
    <3> QED BY <3>1, <3>2 DEF Precedes
  <2> QED BY <2>3, <2>4
<1> QED BY <1>1, <1>2, <1>3

(* The order of two places, and the places before one. *)
KeyAt(s, i) == SortKey(s[i])
Earlier(s, i, j) == Precedes(KeyAt(s, i), KeyAt(s, j)) \/ (KeyAt(s, i) = KeyAt(s, j) /\ i < j)
Preceding(s, i) == {j \in DOMAIN s : Earlier(s, j, i)}

(* SortKey is four integers. *)
LEMMA KeysAreKeys ==
  ASSUME NEW s \in Seq(Ft8Decode), NEW i \in DOMAIN s
  PROVE  KeyAt(s, i) \in [1..4 -> Int]
<1> DEFINE d == s[i]
<1>1. d \in Ft8Decode
  BY SeqDomain
<1>2. d.message.kind \in ToSet(Kinds) /\ d.message.text \in Int /\ d.offset \in Int /\ d.snr \in Int
  BY <1>1 DEF Ft8Decode, Ft8Message
<1>3. Rank(d.message.kind) \in Int
  BY <1>2 DEF Rank, ToSet, Kinds
<1> HIDE DEF d
<1>4. SortKey(d) \in [1..4 -> Int]
  BY <1>2, <1>3 DEF SortKey
<1> QED BY <1>4 DEF KeyAt, d

(* The order Sorted takes: by key, and by place where keys are equal. *)
LEMMA EarlierIsTotal ==
  ASSUME NEW s \in Seq(Ft8Decode), NEW i \in DOMAIN s, NEW j \in DOMAIN s
  PROVE  /\ ~Earlier(s, i, i)
         /\ i # j => Earlier(s, i, j) \/ Earlier(s, j, i)
         /\ \A k \in DOMAIN s : Earlier(s, i, j) /\ Earlier(s, j, k) => Earlier(s, i, k)
<1>1. DOMAIN s \subseteq Int
  BY SeqDomain
<1>2. \A k \in DOMAIN s : KeyAt(s, k) \in [1..4 -> Int]
  BY KeysAreKeys
<1>3. ~Earlier(s, i, i) /\ (i # j => Earlier(s, i, j) \/ Earlier(s, j, i))
  BY <1>1, <1>2, KeysAreOrdered DEF Earlier
<1>4. ASSUME NEW k \in DOMAIN s, Earlier(s, i, j), Earlier(s, j, k)
      PROVE  Earlier(s, i, k)
  <2> DEFINE a == KeyAt(s, i)
             b == KeyAt(s, j)
             c == KeyAt(s, k)
  <2>1. /\ Precedes(a, b) \/ (a = b /\ i < j)
        /\ Precedes(b, c) \/ (b = c /\ j < k)
    BY <1>4 DEF Earlier
  <2>2. Precedes(a, b) /\ Precedes(b, c) => Precedes(a, c)
    BY <1>2, KeysAreOrdered
  <2> HIDE DEF a, b, c
  <2>3. Precedes(a, c) \/ (a = c /\ i < k)
    BY <1>1, <2>1, <2>2
  <2> QED BY <2>3 DEF Earlier, a, c
<1> QED BY <1>3, <1>4

(* Sorted takes the decodes in a total order of their places. *)
LEMMA SortingOrder ==
  ASSUME NEW s \in Seq(Ft8Decode)
  PROVE  \E order \in [DOMAIN s -> DOMAIN s] :
           /\ Sorted(s) = [n \in DOMAIN s |-> s[order[n]]]
           /\ \A n \in DOMAIN s : Cardinality(Preceding(s, order[n])) = n - 1
           /\ \A i \in DOMAIN s : \E n \in DOMAIN s : order[n] = i
           /\ \A n, m \in DOMAIN s : n < m <=> Earlier(s, order[n], order[m])
<1> DEFINE S == DOMAIN s
           N == Cardinality(S)
           Before == [i \in S |-> Preceding(s, i)]
           order == InOrder(S, LAMBDA i, j : Earlier(s, i, j))
<1>1. S = 1..Len(s) /\ Len(s) \in Nat /\ IsFiniteSet(S) /\ N = Len(s)
  BY SeqDomain
<1>2. /\ Before \in [S -> SUBSET S]
      /\ \A i, j \in S : i \in Before[j] <=> Earlier(s, i, j)
  BY DEF Preceding
<1>3. Orders(S, Before)
  <2>1. /\ \A i, j \in S : ~Earlier(s, i, i) /\ (i # j => Earlier(s, i, j) \/ Earlier(s, j, i))
        /\ \A i, j, k \in S : Earlier(s, i, j) /\ Earlier(s, j, k) => Earlier(s, i, k)
    BY EarlierIsTotal
  <2> HIDE DEF Before, S
  <2> QED BY <1>1, <1>2, <2>1 DEF Orders
<1>4. order = [n \in 1..N |-> CHOOSE i \in S : Cardinality({j \in S : Earlier(s, j, i)}) = n - 1]
  BY DEF InOrder
<1>5. Enumerates(order, S, Before)
  <2>1. \A i \in S : Before[i] = {j \in S : Earlier(s, j, i)}
    BY DEF Preceding
  <2> HIDE DEF Before, order, S
  <2> QED BY <1>4, <2>1 DEF Enumerates
<1>6. /\ \A n \in 1..N : order[n] \in S /\ Cardinality(Before[order[n]]) = n - 1
      /\ \A i \in S : \E n \in 1..N : order[n] = i
      /\ \A n, m \in 1..N : n < m <=> order[n] \in Before[order[m]]
  <2> HIDE DEF Before, order, S
  <2>1. /\ Cardinality(S) \in Nat
        /\ \A n \in 1..Cardinality(S) : order[n] \in S /\ Cardinality(Before[order[n]]) = n - 1
        /\ \A d \in S : \E n \in 1..Cardinality(S) : order[n] = d
        /\ \A n, m \in 1..Cardinality(S) : n < m <=> order[n] \in Before[order[m]]
    BY <1>3, <1>5, OrderEnumerates
  <2> QED BY <2>1
<1>7. Sorted(s) = [n \in S |-> s[order[n]]]
  BY DEF Sorted, KeyAt, Earlier
<1> HIDE DEF order
<1>8. order \in [S -> S]
  <2> HIDE DEF S
  <2> QED BY <1>1, <1>4, <1>6
<1>9. \A n \in S : Cardinality(Preceding(s, order[n])) = n - 1
  BY <1>1, <1>6
<1>10. \A i \in S : \E n \in S : order[n] = i
  BY <1>1, <1>6
<1>11. \A n, m \in S : n < m <=> Earlier(s, order[n], order[m])
  <2> HIDE DEF Before, S
  <2> QED BY <1>1, <1>2, <1>6
<1> QED BY <1>7, <1>8, <1>9, <1>10, <1>11

(* A sequence of which each is before the next is sorted already, *)
LEMMA SortedStays ==
  ASSUME NEW t \in Seq(Ft8Decode), \A n, m \in DOMAIN t : n < m => Earlier(t, n, m)
  PROVE  Sorted(t) = t
<1>1. PICK order \in [DOMAIN t -> DOMAIN t] :
           /\ Sorted(t) = [n \in DOMAIN t |-> t[order[n]]]
           /\ \A n \in DOMAIN t : Cardinality(Preceding(t, order[n])) = n - 1
  BY SortingOrder
<1>2. DOMAIN t = 1..Len(t) /\ Len(t) \in Nat
  BY SeqDomain
<1>3. ASSUME NEW i \in DOMAIN t
      PROVE  Cardinality(Preceding(t, i)) = i - 1
  <2>1. \A j \in DOMAIN t : Earlier(t, j, i) <=> j < i
    <3> SUFFICES ASSUME NEW j \in DOMAIN t, Earlier(t, j, i), ~(j < i) PROVE FALSE
      OBVIOUS
    <3>1. j = i \/ Earlier(t, i, j)
      BY <1>2
    <3> QED BY <3>1, EarlierIsTotal
  <2>2. Preceding(t, i) = 1..i - 1
    BY <1>2, <2>1 DEF Preceding
  <2> QED BY <1>2, <2>2, FS_Interval
<1>4. \A n \in DOMAIN t : order[n] = n
  BY <1>1, <1>2, <1>3
<1> QED BY <1>1, <1>4

(* and that is what sorting results in. *)
LEMMA SortedIsSorted ==
  ASSUME NEW s \in Seq(Ft8Decode)
  PROVE  /\ Sorted(s) \in Seq(Ft8Decode) /\ Len(Sorted(s)) = Len(s)
         /\ \A n \in DOMAIN Sorted(s) : \E i \in DOMAIN s : Sorted(s)[n] = s[i]
         /\ Sorted(Sorted(s)) = Sorted(s)
<1>1. PICK order \in [DOMAIN s -> DOMAIN s] :
           /\ Sorted(s) = [n \in DOMAIN s |-> s[order[n]]]
           /\ \A n, m \in DOMAIN s : n < m <=> Earlier(s, order[n], order[m])
  BY SortingOrder
<1> DEFINE t == Sorted(s)
<1>2. /\ t \in Seq(Ft8Decode) /\ Len(t) = Len(s) /\ DOMAIN t = DOMAIN s
      /\ \A n \in DOMAIN s : t[n] = s[order[n]]
  <2>1. /\ Len(s) \in Nat /\ DOMAIN s = 1..Len(s)
        /\ \A n \in DOMAIN s : s[n] \in Ft8Decode
    BY SeqDomain
  <2>2. t = [n \in 1..Len(s) |-> s[order[n]]]
    BY <1>1, <2>1
  <2>3. t \in [1..Len(s) -> Ft8Decode]
    BY <2>1, <2>2
  <2> QED BY <2>1, <2>2, <2>3
<1> HIDE DEF t
<1>3. ASSUME NEW n \in DOMAIN t, NEW m \in DOMAIN t, n < m
      PROVE  Earlier(t, n, m)
  <2>1. KeyAt(t, n) = KeyAt(s, order[n]) /\ KeyAt(t, m) = KeyAt(s, order[m])
    BY <1>2 DEF KeyAt
  <2>2. Earlier(s, order[n], order[m])
    BY <1>1, <1>2, <1>3
  <2> QED BY <1>3, <2>1, <2>2 DEF Earlier
<1>4. Sorted(t) = t
  BY <1>2, <1>3, SortedStays
<1> QED BY <1>1, <1>2, <1>4 DEF t

(* Of results that are equal there is one that none is louder than. *)
LEMMA LoudestIsLoud ==
  ASSUME NEW o \in Seq(Ft8Decode), NEW i \in DOMAIN o
  PROVE  /\ Loudest(o, i) \in Same(o, i)
         /\ \A k \in Same(o, i) : o[k].snr <= o[Loudest(o, i)].snr
<1> DEFINE S == Same(o, i)
           Before == [j \in S |-> {k \in S : o[k].snr > o[j].snr \/ (o[k].snr = o[j].snr /\ k < j)}]
           s == [n \in 1..Cardinality(S) |-> CHOOSE j \in S : Cardinality(Before[j]) = n - 1]
<1>1. DOMAIN o \subseteq Int /\ IsFiniteSet(DOMAIN o) /\ \A j \in DOMAIN o : o[j].snr \in Int
  <2>1. \A j \in DOMAIN o : o[j] \in Ft8Decode
    BY SeqDomain
  <2> QED BY <2>1, SeqDomain DEF Ft8Decode
<1>2. i \in S /\ S \subseteq DOMAIN o /\ IsFiniteSet(S)
  BY <1>1, FS_Subset DEF Same
<1>3. /\ Before \in [S -> SUBSET S]
      /\ \A j, k \in S : k \in Before[j] <=> o[k].snr > o[j].snr \/ (o[k].snr = o[j].snr /\ k < j)
  OBVIOUS
<1>4. Orders(S, Before)
  <2> HIDE DEF Before, S
  <2>1. \A j \in S : j \in Int /\ o[j].snr \in Int
    BY <1>1, <1>2
  <2>2. /\ \A j \in S : j \notin Before[j]
        /\ \A j, k \in S : j # k => j \in Before[k] \/ k \in Before[j]
    BY <1>3, <2>1
  <2>3. ASSUME NEW j \in S, NEW k \in S, j \in Before[k], NEW l \in Before[j]
        PROVE  l \in Before[k]
    <3>1. l \in S
      BY <1>3
    <3> QED BY <1>3, <2>1, <2>3, <3>1
  <2> QED BY <1>2, <1>3, <2>2, <2>3 DEF Orders
<1>5. Enumerates(s, S, Before)
  <2> HIDE DEF Before, S
  <2> QED BY DEF Enumerates
<1> HIDE DEF Before, S, s
<1>6. /\ Cardinality(S) \in Nat
      /\ \A n \in 1..Cardinality(S) : s[n] \in S /\ Cardinality(Before[s[n]]) = n - 1
      /\ \A j \in S : \E n \in 1..Cardinality(S) : s[n] = j
  BY <1>4, <1>5, OrderEnumerates
<1>7. s[1] \in S /\ Cardinality(Before[s[1]]) = 0
  BY <1>2, <1>6
<1>8. Before[s[1]] = {}
  <2>1. Before[s[1]] \in SUBSET S
    BY <1>3, <1>7
  <2> QED BY <1>2, <1>7, <2>1, FS_Subset, FS_EmptySet
<1>9. \A k \in S : o[k].snr <= o[s[1]].snr
  BY <1>1, <1>2, <1>3, <1>7, <1>8
<1> QED BY <1>2, <1>7, <1>9 DEF Loudest, S

(* Merging takes the first place of each result, and its loudest there. *)
Foremost(o) == {i \in DOMAIN o : \A j \in Same(o, i) : i <= j}
Places(o) == InOrder(Foremost(o), LAMBDA i, j : i < j)

LEMMA MergedPlaces ==
  ASSUME NEW o \in Seq(Ft8Decode)
  PROVE  /\ Places(o) \in Seq(Foremost(o))
         /\ Merged(o) = [k \in DOMAIN Places(o) |-> o[Loudest(o, Places(o)[k])]]
         /\ \A k, l \in DOMAIN Places(o) : Places(o)[k] = Places(o)[l] => k = l
         /\ \A i \in Foremost(o) : \E k \in DOMAIN Places(o) : Places(o)[k] = i
<1> DEFINE S == Foremost(o)
           Before == [i \in S |-> {j \in S : j < i}]
           s == Places(o)
           N == Cardinality(S)
<1>1. DOMAIN o \subseteq Int /\ IsFiniteSet(DOMAIN o)
  BY SeqDomain
<1>2. S \subseteq DOMAIN o /\ IsFiniteSet(S)
  BY <1>1, FS_Subset DEF Foremost
<1>3. /\ Before \in [S -> SUBSET S]
      /\ \A i, j \in S : i \in Before[j] <=> i < j
  OBVIOUS
<1>4. Orders(S, Before)
  <2> HIDE DEF Before, S
  <2> QED BY <1>1, <1>2, <1>3 DEF Orders
<1>5. s = [n \in 1..N |-> CHOOSE i \in S : Cardinality({j \in S : j < i}) = n - 1]
  BY DEF Places, InOrder
<1>6. Enumerates(s, S, Before)
  <2>1. \A i \in S : Before[i] = {j \in S : j < i}
    OBVIOUS
  <2> HIDE DEF Before, S, s
  <2> QED BY <1>5, <2>1 DEF Enumerates
<1>7. Merged(o) = [k \in DOMAIN s |-> o[Loudest(o, s[k])]]
  BY DEF Merged, Places, Foremost
<1> HIDE DEF Before, S, s
<1>8. /\ N \in Nat
      /\ \A n \in 1..N : s[n] \in S /\ Cardinality(Before[s[n]]) = n - 1
      /\ \A i \in S : \E n \in 1..N : s[n] = i
  BY <1>4, <1>6, OrderEnumerates
<1>9. DOMAIN s = 1..N /\ s \in Seq(S)
  <2>1. DOMAIN s = 1..N /\ s \in [1..N -> S]
    BY <1>5, <1>8
  <2> QED BY <1>8, <2>1, SeqDef
<1>10. \A k, l \in 1..N : s[k] = s[l] => k = l
  <2>1. \A k, l \in 1..N : s[k] = s[l] => k - 1 = l - 1
    BY <1>8
  <2> QED BY <1>8, <2>1
<1> QED BY <1>7, <1>8, <1>9, <1>10 DEF S, s

(* Merging keeps decodes, and a sequence of them: *)
LEMMA MergedIsTyped ==
  ASSUME NEW o \in Seq(Ft8Decode)
  PROVE  Merged(o) \in Seq(Ft8Decode)
<1> DEFINE p == Places(o)
<1>1. p \in Seq(Foremost(o)) /\ Merged(o) = [k \in DOMAIN p |-> o[Loudest(o, p[k])]]
  BY MergedPlaces
<1> HIDE DEF p
<1>2. ASSUME NEW k \in DOMAIN p
      PROVE  o[Loudest(o, p[k])] \in Ft8Decode
  <2>1. p[k] \in DOMAIN o
    BY <1>1, SeqDomain DEF Foremost
  <2>2. Loudest(o, p[k]) \in DOMAIN o
    BY <2>1, LoudestIsLoud DEF Same
  <2> QED BY <2>2, SeqDomain
<1>3. Len(p) \in Nat /\ DOMAIN p = 1..Len(p)
  BY <1>1, SeqDomain
<1>4. Merged(o) \in [1..Len(p) -> Ft8Decode]
  BY <1>1, <1>2, <1>3
<1> QED BY <1>3, <1>4, SeqDef

(* The results that none of their equals is louder than. *)
Loud(T) ==
  {d \in T : \A e \in T : e.offset = d.offset /\ e.message = d.message => e.snr <= d.snr}

(* The sequence holds each of its members once. *)
Distinct(s) == \A i, j \in DOMAIN s : s[i] = s[j] => i = j

(* What is left are the loud results, each once: the order they come in    *)
(* does not decide which.                                                  *)
LEMMA MergedAreLoud ==
  ASSUME NEW o \in Seq(Ft8Decode)
  PROVE  Distinct(Merged(o)) /\ ToSet(Merged(o)) = Loud(ToSet(o))
<1> DEFINE places == Places(o)
           D == DOMAIN places
<1>1. /\ \A k \in D : places[k] \in Foremost(o)
      /\ Merged(o) = [k \in D |-> o[Loudest(o, places[k])]]
      /\ \A k, l \in D : places[k] = places[l] => k = l
      /\ \A i \in Foremost(o) : \E k \in D : places[k] = i
  <2>1. places \in Seq(Foremost(o))
    BY MergedPlaces
  <2> QED BY <2>1, MergedPlaces, SeqDomain
<1> HIDE DEF places, D
<1> DEFINE m == Merged(o)
<1>2. DOMAIN m = D /\ \A k \in D : m[k] = o[Loudest(o, places[k])]
  BY <1>1
<1> HIDE DEF m
<1>3. /\ DOMAIN o \subseteq Nat /\ Foremost(o) \subseteq DOMAIN o
      /\ \A i \in DOMAIN o : o[i] \in Ft8Decode
  BY SeqDomain DEF Foremost
<1>4. ASSUME NEW k \in D
      PROVE  /\ places[k] \in Foremost(o) /\ m[k] \in ToSet(o)
             /\ m[k].offset = o[places[k]].offset /\ m[k].message = o[places[k]].message
             /\ \A j \in DOMAIN o :
                  o[j].offset = m[k].offset /\ o[j].message = m[k].message => o[j].snr <= m[k].snr
  <2>1. places[k] \in Foremost(o) /\ places[k] \in DOMAIN o
    BY <1>1, <1>3
  <2>2. /\ Loudest(o, places[k]) \in Same(o, places[k])
        /\ \A j \in Same(o, places[k]) : o[j].snr <= m[k].snr
    BY <1>2, <2>1, LoudestIsLoud
  <2> QED BY <1>2, <2>1, <2>2 DEF Same, ToSet
<1>5. Distinct(m)
  <2> SUFFICES ASSUME NEW k \in D, NEW l \in D, m[k] = m[l] PROVE k = l
    BY <1>2 DEF Distinct
  <2>1. places[k] \in Same(o, places[l]) /\ places[l] \in Same(o, places[k])
    BY <1>3, <1>4 DEF Same
  <2>2. places[k] <= places[l] /\ places[l] <= places[k] /\ places[k] \in Nat /\ places[l] \in Nat
    BY <1>3, <1>4, <2>1 DEF Foremost
  <2> QED BY <1>1, <2>2
<1>6. ToSet(m) \subseteq Loud(ToSet(o))
  BY <1>2, <1>4 DEF ToSet, Loud
<1>7. ASSUME NEW d \in Loud(ToSet(o))
      PROVE  d \in ToSet(m)
  <2>1. PICK i \in DOMAIN o : o[i] = d
    BY DEF Loud, ToSet
  <2>2. i \in Same(o, i) /\ Same(o, i) \subseteq DOMAIN o
    BY DEF Same
  <2>3. PICK j \in Same(o, i) : \A l \in Same(o, i) : j <= l
    <3>1. Same(o, i) # {} /\ Same(o, i) \in SUBSET Nat
      BY <1>3, <2>2
    <3> QED BY <3>1, LeastExists
  <2>4. j \in Foremost(o) /\ o[j].offset = d.offset /\ o[j].message = d.message
    BY <2>1, <2>3 DEF Foremost, Same
  <2>5. PICK k \in D : places[k] = j
    BY <1>1, <2>4
  <2>6. m[k].offset = d.offset /\ m[k].message = d.message /\ d.snr <= m[k].snr
    BY <1>4, <2>1, <2>4, <2>5
  <2>7. m[k] \in ToSet(o) /\ d \in ToSet(o)
    BY <1>4 DEF Loud
  <2>8. m[k].snr <= d.snr
    BY <2>6, <2>7 DEF Loud
  <2>9. m[k] \in Ft8Decode /\ d \in Ft8Decode
    BY <1>3, <2>7 DEF ToSet
  <2>10. m[k].snr = d.snr
    <3>1. m[k].snr \in Int /\ d.snr \in Int
      BY <2>9 DEF Ft8Decode
    <3> QED BY <2>6, <2>8, <3>1
  <2>11. m[k] = d
    <3>1. ASSUME NEW e \in Ft8Decode
          PROVE  e = [offset |-> e.offset, snr |-> e.snr, message |-> e.message]
      BY DEF Ft8Decode
    <3> QED BY <2>6, <2>9, <2>10, <3>1
  <2> QED BY <1>2, <2>11 DEF ToSet
<1> QED BY <1>5, <1>6, <1>7 DEF m

-----------------------------------------------------------------------------
(* A word is a string, so not None. *)
LEMMA WordsAreTexts == Word \subseteq STRING /\ None \notin Word /\ Callsigns \subseteq Word
<1>1. \A i \in DOMAIN Vocabulary : Vocabulary[i] \in STRING
  BY CodecAssumption, SeqDomain
<1> QED BY <1>1, CodecAssumption DEF Word, ToSet

(* One more place after a text that is not empty. *)
LEMMA PlaceIsPositive ==
  ASSUME NEW x \in Nat \ {0}, NEW width \in Nat \ {0}, NEW place \in Nat
  PROVE  x * width + place \in Nat \ {0}
<1>1. x * width \in Nat /\ x * width > 0
  OBVIOUS
<1> QED BY <1>1

(* A text that is not empty has an identity above 0: validate_text takes   *)
(* it.                                                                     *)
LEMMA TextIdIsPositive ==
  ASSUME NEW words \in Seq(Word), words # <<>>
  PROVE  TextId(words) \in Nat \ {0}
<1> DEFINE width == Len(Vocabulary) + 1
           Place(n) == IF n \in DOMAIN words
                       THEN CHOOSE i \in DOMAIN Vocabulary : Vocabulary[i] = words[n] ELSE 0
<1>1. Len(Vocabulary) \in Nat /\ DOMAIN Vocabulary = 1..Len(Vocabulary)
  BY CodecAssumption, SeqDomain
<1>2. \A n \in DOMAIN words : \E i \in DOMAIN Vocabulary : Vocabulary[i] = words[n]
  <2>1. \A n \in DOMAIN words : words[n] \in Word
    BY SeqDomain
  <2> QED BY <2>1 DEF Word, ToSet
<1>3. \A n \in DOMAIN words : Place(n) \in Nat \ {0}
  BY <1>1, <1>2
<1>4. Place(2) \in Nat /\ Place(3) \in Nat /\ Place(4) \in Nat
  BY <1>3
<1>5. Place(1) \in Nat \ {0}
  <2>1. 1 \in DOMAIN words
    BY SeqDomain, EmptySeq
  <2> QED BY <1>3, <2>1
<1>6. TextId(words) = ((Place(1) * width + Place(2)) * width + Place(3)) * width + Place(4)
  BY DEF TextId
<1> HIDE DEF Place
<1>7. width \in Nat \ {0}
  BY <1>1
<1> HIDE DEF width
<1>8. Place(1) * width + Place(2) \in Nat \ {0}
  BY <1>4, <1>5, <1>7, PlaceIsPositive
<1>9. (Place(1) * width + Place(2)) * width + Place(3) \in Nat \ {0}
  BY <1>4, <1>8, <1>7, PlaceIsPositive
<1> QED BY <1>4, <1>6, <1>9, <1>7, PlaceIsPositive

(* The words of a message that is not empty. *)
Phrase == Seq(Word) \ {<<>>}

(* Three words are a phrase. *)
LEMMA TripleIsPhrase ==
  ASSUME NEW a \in Word, NEW b \in Word, NEW c \in Word
  PROVE  <<a, b, c>> \in Phrase
<1>1. <<a, b, c>> \in Seq(Word) /\ Len(<<a, b, c>>) = 3
  OBVIOUS
<1> QED BY <1>1, EmptySeq DEF Phrase

(* The words a payload is shown as, before and after its zero is back. *)
PayloadWord ==
  {"R", "RRR", "RR73", "73"} \union DOMAIN GridIndex
    \union {ReportForms[code].long : code \in DOMAIN ReportForms}
    \union {ReportForms[code].rogerLong : code \in DOMAIN ReportForms}
    \union {ReportForms[code].short : code \in DOMAIN ReportForms}
    \union {ReportForms[code].rogerShort : code \in DOMAIN ReportForms}

(* What VocabularyAssumption says of the words that stand for a report. *)
LEMMA ReportsAreApart ==
  ASSUME NEW code \in DOMAIN ReportForms, NEW w,
         \/ w = ReportForms[code].long \/ w = ReportForms[code].short
         \/ w = ReportForms[code].rogerLong \/ w = ReportForms[code].rogerShort
  PROVE  /\ w # "RRR" /\ w # "RR73" /\ w # "73" /\ w \notin DOMAIN GridIndex
         /\ w # Unresolved /\ \A call \in Callsigns : Bracket[call] # w
<1> DEFINE Forms(form) == {ReportForms[c][form] : c \in DOMAIN ReportForms}
           all == Forms("long") \union Forms("short") \union Forms("rogerLong") \union Forms("rogerShort")
<1>1. w \in all
  OBVIOUS
<1>2. /\ all \intersect ({"RRR", "RR73", "73"} \union DOMAIN GridIndex) = {}
      /\ ({Bracket[call] : call \in Callsigns} \union {Unresolved}) \intersect all = {}
  BY VocabularyAssumption
<1> HIDE DEF all
<1> QED BY <1>1, <1>2

(* A report with an R in front is no report without one. *)
LEMMA RogerIsApart ==
  ASSUME NEW c \in DOMAIN ReportForms, NEW d \in DOMAIN ReportForms
  PROVE  /\ ReportForms[c].long # ReportForms[d].rogerLong
         /\ ReportForms[c].short # ReportForms[d].rogerShort
<1> DEFINE Forms(form) == {ReportForms[e][form] : e \in DOMAIN ReportForms}
<1>1. (Forms("long") \union Forms("short")) \intersect (Forms("rogerLong") \union Forms("rogerShort")) = {}
  BY VocabularyAssumption
<1>2. /\ ReportForms[c].long \in Forms("long") /\ ReportForms[c].short \in Forms("short")
      /\ ReportForms[d].rogerLong \in Forms("rogerLong")
      /\ ReportForms[d].rogerShort \in Forms("rogerShort")
  OBVIOUS
<1> HIDE DEF Forms
<1> QED BY <1>1, <1>2

(* A payload never looks like a hash. *)
LEMMA PayloadWordsAreWords ==
  /\ PayloadWord \subseteq Word /\ Unresolved \notin PayloadWord
  /\ \A call \in Callsigns : Bracket[call] \notin PayloadWord
<1>1. {"R", "RRR", "RR73", "73"} \union DOMAIN GridIndex \subseteq Word
  BY CodecAssumption
<1>2. \A code \in DOMAIN ReportForms :
        /\ ReportForms[code].long \in Word /\ ReportForms[code].short \in Word
        /\ ReportForms[code].rogerLong \in Word /\ ReportForms[code].rogerShort \in Word
  BY CodecAssumption
<1>3. PayloadWord \subseteq Word
  BY <1>1, <1>2 DEF PayloadWord
<1>4. ASSUME NEW w \in PayloadWord
      PROVE  w # Unresolved /\ \A call \in Callsigns : Bracket[call] # w
  <2>1. CASE w \in {"R", "RRR", "RR73", "73"} \union DOMAIN GridIndex
    BY <2>1, VocabularyAssumption
  <2>2. CASE \E code \in DOMAIN ReportForms :
               \/ w = ReportForms[code].long \/ w = ReportForms[code].short
               \/ w = ReportForms[code].rogerLong \/ w = ReportForms[code].rogerShort
    BY <2>2, ReportsAreApart
  <2> QED BY <2>1, <2>2 DEF PayloadWord
<1> QED BY <1>3, <1>4

(* What unpack77_with_hash shows of a payload. *)
LEMMA PayloadsAreWords ==
  ASSUME NEW bits \in PackedFt8Bits, bits.i3 \in {1, 2, 4}
  PROVE  UnpackPayload(bits) \in Seq(PayloadWord)
<1>0. {<<>>, <<"RRR">>, <<"RR73">>, <<"73">>} \subseteq Seq(PayloadWord)
  <2>1. "RRR" \in PayloadWord /\ "RR73" \in PayloadWord /\ "73" \in PayloadWord
    BY DEF PayloadWord
  <2> QED BY <2>1
<1>1. CASE bits.i3 = 4
  <2>1. bits.code \in 0..3
    BY <1>1 DEF PackedFt8Bits
  <2>2. UnpackPayload(bits) = <<<<>>, <<"RRR">>, <<"RR73">>, <<"73">>>>[bits.code + 1]
    BY <1>1, <2>1 DEF UnpackPayload
  <2>3. UnpackPayload(bits) \in {<<>>, <<"RRR">>, <<"RR73">>, <<"73">>}
    BY <2>1, <2>2
  <2> QED BY <1>0, <2>3
<1>2. CASE bits.i3 # 4
  <2>1. /\ bits.roger \in BOOLEAN
        /\ bits.code \in 1..MaxGrid + 4 \union {MaxGrid + c : c \in DOMAIN ReportForms}
    BY <1>2 DEF PackedFt8Bits
  <2>2. MaxGrid \in Nat /\ "R" \in PayloadWord /\ bits.code \in Int
    <3>1. MaxGrid \in Nat /\ DOMAIN ReportForms \subseteq Nat
      BY CodecAssumption
    <3>2. "R" \in PayloadWord
      BY DEF PayloadWord
    <3> QED BY <2>1, <3>1, <3>2
  <2>3. CASE bits.code <= MaxGrid
    <3>1. PICK grid \in DOMAIN GridIndex :
               UnpackPayload(bits) = (IF bits.roger THEN <<"R">> ELSE <<>>) \o <<grid>>
      <4>1. bits.code \in 1..MaxGrid
        BY <2>1, <2>2, <2>3, CodecAssumption
      <4>2. \E grid \in DOMAIN GridIndex : GridIndex[grid] = bits.code
        BY <4>1, CodecAssumption
      <4> QED BY <1>2, <2>3, <4>2 DEF UnpackPayload
    <3>2. grid \in PayloadWord
      BY DEF PayloadWord
    <3> QED BY <2>2, <3>1, <3>2
  <2>4. CASE bits.code > MaxGrid /\ bits.code - MaxGrid <= 4
    <3>1. bits.code - MaxGrid \in 1..4
      BY <2>2, <2>4
    <3>2. UnpackPayload(bits) = <<<<>>, <<"RRR">>, <<"RR73">>, <<"73">>>>[bits.code - MaxGrid]
      <4>1. ~(bits.code <= MaxGrid) /\ bits.code - MaxGrid <= 4
        BY <2>2, <2>4
      <4> QED BY <1>2, <4>1 DEF UnpackPayload
    <3>3. UnpackPayload(bits) \in {<<>>, <<"RRR">>, <<"RR73">>, <<"73">>}
      BY <3>1, <3>2
    <3> QED BY <1>0, <3>3
  <2>5. CASE bits.code > MaxGrid /\ bits.code - MaxGrid > 4
    <3>1. PICK c \in DOMAIN ReportForms : bits.code = MaxGrid + c
      BY <2>1, <2>2, <2>5
    <3>2. c \in Nat /\ bits.code - MaxGrid = c
      BY <2>2, <3>1, CodecAssumption
    <3>3. UnpackPayload(bits) = IF bits.roger THEN <<ReportForms[c].rogerShort>>
                                ELSE <<ReportForms[c].short>>
      <4>1. ~(bits.code <= MaxGrid) /\ ~(bits.code - MaxGrid <= 4)
        BY <2>2, <2>5
      <4> QED BY <1>2, <3>2, <4>1 DEF UnpackPayload
    <3>4. ReportForms[c].rogerShort \in PayloadWord /\ ReportForms[c].short \in PayloadWord
      BY DEF PayloadWord
    <3> QED BY <3>3, <3>4
  <2> QED BY <2>1, <2>2, <2>3, <2>4, <2>5, CodecAssumption
<1> QED BY <1>1, <1>2

(* What a call field is shown as where the hashes of table are known. *)
Shown(field, table) ==
  CASE ~field.hashed -> field.call
    [] field.hashed /\ field.call \in table -> Bracket[field.call]
    [] OTHER -> Unresolved

(* What unpack77_with_hash shows of a message, *)
LEMMA UnpackedAreShown ==
  ASSUME NEW bits \in PackedFt8Bits, NEW table, bits.i3 \in {1, 2, 4}
  PROVE  Unpack77(bits, table) =
           IF None \in {bits.calls[1].call, bits.calls[2].call} THEN None
           ELSE <<Shown(bits.calls[1], table), Shown(bits.calls[2], table)>> \o UnpackPayload(bits)
BY DEF Unpack77, Shown

(* and of a call that is there. *)
LEMMA ShownIsWord ==
  ASSUME NEW field \in CallField, field.call # None, NEW table
  PROVE  Shown(field, table) \in Word
<1>1. CASE field.hashed
  BY <1>1, CodecAssumption DEF CallField, Shown
<1>2. CASE ~field.hashed
  <2>1. field.call \in Standard \union Callsigns \union {"DE"}
    BY <1>2 DEF CallField
  <2> QED BY <1>2, <2>1, CodecAssumption DEF Shown
<1> QED BY <1>1, <1>2

(* Two calls and a payload. *)
LEMMA CallsAndPayload ==
  ASSUME NEW a \in Word, NEW b \in Word, NEW p \in Seq(Word)
  PROVE  LET t == <<a, b>> \o p
         IN  /\ t \in Seq(Word) /\ Len(t) = Len(p) + 2 /\ DOMAIN t = 1..Len(p) + 2
             /\ t[1] = a /\ t[2] = b /\ \A n \in 1..Len(p) : t[n + 2] = p[n]
<1> DEFINE pair == <<a, b>>
           t == pair \o p
<1>1. pair \in Seq(Word) /\ Len(pair) = 2 /\ pair[1] = a /\ pair[2] = b /\ Len(p) \in Nat
  OBVIOUS
<1> HIDE DEF pair
<1>2. /\ t \in Seq(Word) /\ Len(t) = 2 + Len(p)
      /\ \A i \in 1..2 + Len(p) : t[i] = IF i <= 2 THEN pair[i] ELSE p[i - 2]
  <2>1. /\ t \in Seq(Word) /\ Len(t) = Len(pair) + Len(p)
        /\ \A i \in 1..Len(pair) + Len(p) :
             t[i] = IF i <= Len(pair) THEN pair[i] ELSE p[i - Len(pair)]
    BY <1>1, ConcatProperties
  <2> HIDE DEF t
  <2> QED BY <1>1, <2>1
<1> HIDE DEF t
<1>3. DOMAIN t = 1..Len(p) + 2
  BY <1>1, <1>2, SeqDomain
<1>4. t[1] = a /\ t[2] = b
  BY <1>1, <1>2
<1>5. ASSUME NEW n \in 1..Len(p)
      PROVE  t[n + 2] = p[n]
  <2>1. n + 2 \in 1..2 + Len(p) /\ ~(n + 2 <= 2) /\ n + 2 - 2 = n
    BY <1>1
  <2> QED BY <1>2, <2>1
<1> QED BY <1>1, <1>2, <1>3, <1>4, <1>5 DEF t, pair

(* Bits that unpack are a phrase. *)
LEMMA UnpackedAreWords ==
  ASSUME NEW bits \in PackedFt8Bits, NEW table
  PROVE  Unpack77(bits, table) = None \/ Unpack77(bits, table) \in Phrase
<1>1. CASE bits.i3 \notin {1, 2, 4}
  BY <1>1 DEF PackedFt8Bits, Unpack77, Phrase
<1>2. CASE bits.i3 \in {1, 2, 4} /\ None \notin {bits.calls[1].call, bits.calls[2].call}
  <2> DEFINE a == Shown(bits.calls[1], table)
             b == Shown(bits.calls[2], table)
             p == UnpackPayload(bits)
  <2>1. bits.calls[1] \in CallField /\ bits.calls[2] \in CallField
    BY <1>2 DEF PackedFt8Bits
  <2>2. a \in Word /\ b \in Word
    BY <1>2, <2>1, ShownIsWord
  <2>3. p \in Seq(Word)
    <3>1. \A s \in Seq(PayloadWord) : s \in Seq(Word)
      BY PayloadWordsAreWords
    <3> QED BY <1>2, <3>1, PayloadsAreWords
  <2>4. Unpack77(bits, table) = <<a, b>> \o p
    BY <1>2, UnpackedAreShown
  <2> HIDE DEF a, b, p
  <2>5. <<a, b>> \o p \in Seq(Word) /\ Len(<<a, b>> \o p) = Len(p) + 2
    BY <2>2, <2>3, CallsAndPayload
  <2>6. <<a, b>> \o p # <<>>
    BY <2>3, <2>5, LenProperties, EmptySeq
  <2> QED BY <2>4, <2>5, <2>6 DEF Phrase
<1>3. CASE bits.i3 \in {1, 2, 4} /\ None \in {bits.calls[1].call, bits.calls[2].call}
  BY <1>3 DEF Unpack77
<1> QED BY <1>1, <1>2, <1>3

(* NormalizeStandardReport leaves a phrase a phrase. *)
LEMMA NormalizedAreWords ==
  ASSUME NEW words \in Phrase
  PROVE  NormalizeStandardReport(words) \in Phrase
<1> DEFINE short == {code \in DOMAIN ReportForms :
                       Len(words) >= 3 /\ words[3] = ReportForms[code].short}
           rogerShort == {code \in DOMAIN ReportForms :
                       Len(words) >= 3 /\ words[3] = ReportForms[code].rogerShort}
           s == CHOOSE c \in short : TRUE
           r == CHOOSE c \in rogerShort : TRUE
<1>1. NormalizeStandardReport(words) =
        CASE short # {} -> <<words[1], words[2], ReportForms[s].long>>
          [] rogerShort # {} -> <<words[1], words[2], ReportForms[r].rogerLong>>
          [] OTHER -> words
  BY DEF NormalizeStandardReport
<1>2. \A c \in DOMAIN ReportForms : ReportForms[c].long \in Word /\ ReportForms[c].rogerLong \in Word
  BY CodecAssumption
<1>3. ASSUME NEW c \in DOMAIN ReportForms, Len(words) >= 3
      PROVE  /\ <<words[1], words[2], ReportForms[c].long>> \in Phrase
             /\ <<words[1], words[2], ReportForms[c].rogerLong>> \in Phrase
  <2>1. words[1] \in Word /\ words[2] \in Word
    BY <1>3, SeqDomain DEF Phrase
  <2> QED BY <1>2, <2>1, TripleIsPhrase
<1>4. CASE short # {}
  <2>1. s \in short
    BY <1>4
  <2>2. \/ NormalizeStandardReport(words) = <<words[1], words[2], ReportForms[s].long>>
        \/ /\ NormalizeStandardReport(words) = <<words[1], words[2], ReportForms[r].rogerLong>>
           /\ rogerShort # {}
    BY <1>1, <1>4
  <2>3. rogerShort # {} => r \in rogerShort
    OBVIOUS
  <2> HIDE DEF s, r
  <2> QED BY <1>3, <2>1, <2>2, <2>3
<1>5. CASE short = {} /\ rogerShort # {}
  <2>1. r \in rogerShort
    BY <1>5
  <2>2. NormalizeStandardReport(words) = <<words[1], words[2], ReportForms[r].rogerLong>>
    BY <1>1, <1>5
  <2> HIDE DEF s, r
  <2> QED BY <1>3, <2>1, <2>2
<1>6. CASE short = {} /\ rogerShort = {}
  BY <1>1, <1>6
<1> QED BY <1>4, <1>5, <1>6

(* None is no number, no code word, and no callsign to parse. *)
LEMMA NoneIsNothing ==
  /\ None \notin Int /\ ValidCallsign(None)
  /\ None \notin DOMAIN ClassToStr /\ None \notin DOMAIN StrToClass /\ None \notin DOMAIN StrToFault
BY CodecAssumption, ArgumentsAssumption

(* The outcomes without identities are messages their constructors allow. *)
LEMMA OutcomesAreMessages ==
  ASSUME NEW words \in Phrase,
         NEW kind \in {"unresolved_hash", "unsupported", "ambiguous", "free_text"}
  PROVE  Outcome(kind, words) \in Ft8Message
<1>1. TextId(words) \in Nat /\ TextId(words) > 0
  BY TextIdIsPositive DEF Phrase
<1>2. ValidCallsign(None) /\ kind # "resolved" /\ None # 1
      /\ (kind \in Detailed <=> kind # "free_text")
  BY NoneIsNothing DEF Detailed
<1>0. kind \in ToSet(Kinds)
  BY DEF ToSet, Kinds
<1> HIDE DEF Ft8Message
<1> DEFINE m == Outcome(kind, words)
<1>3. m = [kind |-> kind, text |-> TextId(words), class |-> None, sender |-> None,
           recipient |-> None, detail |-> IF kind = "free_text" THEN None ELSE 1]
  BY DEF Outcome
<1>4. ValidMessage(m)
  BY <1>1, <1>2, <1>3 DEF ValidMessage, ValidText, Detailed
<1> HIDE DEF m
<1>5. m.kind \in Detailed <=> m.detail # None
  BY <1>2, <1>3
<1>6. m \in [kind : ToSet(Kinds), text : Nat, class : DOMAIN ClassToStr \union {None},
          sender : STRING \union {None}, recipient : STRING \union {None},
          detail : Nat \union {None}]
  BY <1>0, <1>1, <1>2, <1>3
<1> QED BY <1>2, <1>3, <1>4, <1>5, <1>6 DEF m, Ft8Message

(* A word without its brackets is a callsign or the word. *)
LEMMA UnbracketedIsText ==
  ASSUME NEW word
  PROVE  Unbracketed(word) \in Callsigns \union {word}
BY DEF Unbracketed

(* So is a resolved one, if it names a recipient where its class has one. *)
LEMMA ResolvedIsMessage ==
  ASSUME NEW words \in Phrase, NEW sender \in Word, NEW recipient \in Word \union {None},
         NEW class \in DOMAIN ClassToStr, (class # "GeneralCall") = (recipient # None)
  PROVE  Resolved(words, sender, recipient, class) \in Ft8Message
<1> DEFINE callers == {Unbracketed(sender)} \union ({Unbracketed(recipient)} \ {None})
           s == Unbracketed(sender)
           r == Unbracketed(recipient)
           m == [kind |-> "resolved", text |-> TextId(words), class |-> class, detail |-> None,
                 sender |-> s, recipient |-> r]
<1>1. CASE ~(callers \subseteq Callsigns)
  BY <1>1, OutcomesAreMessages DEF Resolved
<1>2. CASE callers \subseteq Callsigns
  <2>1. TextId(words) \in Nat /\ TextId(words) > 0
    BY TextIdIsPositive DEF Phrase
  <2>2. None \notin Callsigns /\ Callsigns \subseteq STRING
    BY WordsAreTexts
  <2>3. s \in Callsigns /\ r \in Callsigns \union {None}
    BY <1>2
  <2>4. r = None <=> recipient = None
    <3>1. recipient = None => r = None
      <4>1. \A call \in Callsigns : Bracket[call] # None
        BY CodecAssumption, WordsAreTexts
      <4> QED BY <4>1 DEF Unbracketed
    <3>2. r \in Callsigns \union {recipient}
      BY UnbracketedIsText
    <3> QED BY <2>2, <3>1, <3>2
  <2>5. ValidCallsign(s) /\ ValidCallsign(r)
    <3>1. ValidCallsign(None)
      BY NoneIsNothing
    <3> QED BY <2>3, <3>1, ArgumentsAssumption
  <2> HIDE DEF s, r
  <2>6. ValidMessage(m)
    BY <2>1, <2>4, <2>5 DEF ValidMessage, ValidText, Detailed
  <2>7. class # None
    BY NoneIsNothing
  <2>8. m.kind \notin Detailed /\ "resolved" \in ToSet(Kinds)
    BY DEF Detailed, ToSet, Kinds
  <2>9. m \in [kind : ToSet(Kinds), text : Nat, class : DOMAIN ClassToStr \union {None},
          sender : STRING \union {None}, recipient : STRING \union {None},
          detail : Nat \union {None}]
    BY <2>1, <2>2, <2>3, <2>8
  <2>10. s # None
    BY <2>2, <2>3
  <2> HIDE DEF m
  <2>11. m.kind = "resolved" /\ m.class = class /\ m.detail = None /\ m.sender = s
    BY DEF m
  <2>12. m \in Ft8Message
    BY <2>6, <2>7, <2>8, <2>9, <2>10, <2>11 DEF Ft8Message
  <2> QED BY <1>2, <2>12 DEF Resolved, m, s, r
<1> QED BY <1>1, <1>2

(* The bits and the payload name directed classes only. *)
LEMMA ClassesAreDirected ==
  ASSUME NEW bits \in PackedFt8Bits, NEW payload
  PROVE  /\ DirectedClassFromBits(bits) # None =>
              DirectedClassFromBits(bits) \in DOMAIN ClassToStr \ {"GeneralCall"}
         /\ ClassifyPayload(payload) # None =>
              ClassifyPayload(payload) \in DOMAIN ClassToStr \ {"GeneralCall"}
<1> DEFINE classes == {"DirectedGrid", "SignalReport", "RogerSignalReport", "Roger", "Ending73",
                       "EndingRr73"}
<1>1. classes = DOMAIN ClassToStr \ {"GeneralCall"}
  BY DEF ClassToStr
<1>2. ClassifyPayload(payload) \in classes \union {None}
  BY DEF ClassifyPayload
<1>3. DirectedClassFromBits(bits) \in classes \union {None}
  <2>1. CASE bits.i3 = 4
    <3>1. bits.code \in 0..3
      BY <2>1 DEF PackedFt8Bits
    <3>2. bits.code # 0 => <<"Roger", "EndingRr73", "Ending73">>[bits.code] \in classes
      BY <3>1
    <3> QED BY <2>1, <3>2 DEF DirectedClassFromBits
  <2>2. CASE bits.i3 # 4
    BY <2>2 DEF DirectedClassFromBits
  <2> QED BY <2>1, <2>2
<1> QED BY <1>1, <1>2, <1>3

(* ClassifySupported: a message, whatever the words. *)
LEMMA SupportedAreMessages ==
  ASSUME NEW words \in Phrase, NEW bits \in PackedFt8Bits
  PROVE  ClassifySupported(words, DirectedClassFromBits(bits)) \in Ft8Message
<1> DEFINE bitClass == DirectedClassFromBits(bits)
           general == words[1] = "CQ" /\ (Len(words) = 2 \/ (Len(words) = 3 /\ IsGrid(words[3])))
           class == IF bitClass # None THEN bitClass ELSE ClassifyPayload(words[3])
<1>1. class # None => class \in DOMAIN ClassToStr \ {"GeneralCall"}
  BY ClassesAreDirected
<1>2. /\ Len(words) \in {2, 3} => words[1] \in Word /\ words[2] \in Word
      /\ words \in Seq(Word)
  BY SeqDomain DEF Phrase
<1>3. None \notin Word /\ "GeneralCall" \in DOMAIN ClassToStr
  BY WordsAreTexts DEF ClassToStr
<1>4. Outcome("unsupported", words) \in Ft8Message
  BY OutcomesAreMessages
<1>5. ClassifySupported(words, bitClass) =
        CASE general -> Resolved(words, words[2], None, "GeneralCall")
          [] ~general /\ Len(words) = 3 ->
               IF class # None THEN Resolved(words, words[1], words[2], class)
               ELSE Outcome("unsupported", words)
          [] OTHER -> Outcome("unsupported", words)
  BY DEF ClassifySupported
<1>6. general => Resolved(words, words[2], None, "GeneralCall") \in Ft8Message
  BY <1>2, <1>3, ResolvedIsMessage
<1>7. Len(words) = 3 /\ class # None => Resolved(words, words[1], words[2], class) \in Ft8Message
  <2> HIDE DEF class
  <2> QED BY <1>1, <1>2, <1>3, ResolvedIsMessage
<1> HIDE DEF class, general
<1> QED BY <1>4, <1>5, <1>6, <1>7

(* ClassifyBits: a message, or bits that cannot be unpacked. *)
LEMMA ClassifiedAreMessages ==
  ASSUME NEW bits \in PackedFt8Bits, ClassifyBits(bits) # None
  PROVE  ClassifyBits(bits) \in Ft8Message
<1> DEFINE decoded == Unpack77(bits, Known)
           words == NormalizeStandardReport(decoded)
           typed == bits.i3 \in {1, 2, 4}
<1>1. ClassifyBits(bits) =
        CASE decoded = None /\ (typed \/ (bits.i3 = 0 /\ bits.n3 = 0)) -> None
          [] decoded = None /\ ~typed /\ (bits.i3 # 0 \/ bits.n3 # 0) ->
               Outcome("unsupported", <<"UNSUPPORTED">>)
          [] decoded # None /\ bits.i3 = 0 /\ bits.n3 = 0 -> Outcome("free_text", decoded)
          [] decoded # None /\ ~typed /\ (bits.i3 # 0 \/ bits.n3 # 0) -> Outcome("unsupported", decoded)
          [] decoded # None /\ typed /\ Unresolved \in ToSet(words) ->
               Outcome("unresolved_hash", words)
          [] OTHER -> ClassifySupported(words, DirectedClassFromBits(bits))
  BY DEF ClassifyBits
<1>2. Outcome("unsupported", <<"UNSUPPORTED">>) \in Ft8Message
  <2>1. "UNSUPPORTED" \in Word
    BY CodecAssumption
  <2>2. <<"UNSUPPORTED">> \in Phrase
    BY <2>1, EmptySeq DEF Phrase
  <2> QED BY <2>2, OutcomesAreMessages
<1>3. CASE decoded = None
  <2> HIDE DEF decoded, words
  <2>1. typed \/ (bits.i3 = 0 /\ bits.n3 = 0) \/ (~typed /\ (bits.i3 # 0 \/ bits.n3 # 0))
    OBVIOUS
  <2> QED BY <1>1, <1>2, <1>3, <2>1
<1>4. CASE decoded # None
  <2>1. decoded \in Phrase
    BY <1>4, UnpackedAreWords
  <2>2. words \in Phrase
    BY <2>1, NormalizedAreWords
  <2> HIDE DEF decoded, words
  <2>3. /\ Outcome("free_text", decoded) \in Ft8Message /\ Outcome("unsupported", decoded) \in Ft8Message
        /\ Outcome("unresolved_hash", words) \in Ft8Message
        /\ ClassifySupported(words, DirectedClassFromBits(bits)) \in Ft8Message
    BY <2>1, <2>2, OutcomesAreMessages, SupportedAreMessages
  <2> QED BY <1>1, <1>4, <2>3
<1> QED BY <1>3, <1>4

(* Rounded metadata is an integer. *)
LEMMA RoundedIsWhole ==
  ASSUME NEW halves \in Int
  PROVE  Rounded(halves) \in Int
<1>1. (halves + 1) \div 2 \in Int /\ (1 - halves) \div 2 \in Int
  OBVIOUS
<1> QED BY <1>1 DEF Rounded

(* The results of a window before equal ones are merged. *)
Owned(b) == [i \in DOMAIN b.heard |-> OwnedDecode(b.heard[i])]

(* They are decodes as their constructors leave them. *)
LEMMA OwnedAreDecodes ==
  ASSUME NEW b \in PcmBuffer, \A i \in DOMAIN b.heard : Decodable(b.heard[i])
  PROVE  Owned(b) \in Seq(Ft8Decode)
<1>2. /\ Len(b.heard) \in Nat /\ DOMAIN b.heard = 1..Len(b.heard)
      /\ \A i \in DOMAIN b.heard :
           b.heard[i] \in [offset : Int \union {None}, snr : Int \union {None}, bits : PackedFt8Bits]
  BY SeqDomain DEF PcmBuffer
<1>3. ASSUME NEW i \in DOMAIN b.heard
      PROVE  OwnedDecode(b.heard[i]) \in Ft8Decode
  <2> DEFINE c == b.heard[i]
  <2>1. c.offset \in Int /\ c.snr \in Int /\ c.bits \in PackedFt8Bits /\ ClassifyBits(c.bits) # None
    BY <1>2 DEF Decodable
  <2> HIDE DEF c
  <2>2. Rounded(c.offset) \in Int /\ Rounded(c.snr + SnrCalibration) \in Int
    <3>1. c.snr + SnrCalibration \in Int
      BY <2>1, CodecAssumption
    <3> QED BY <2>1, <3>1, RoundedIsWhole
  <2>3. ClassifyBits(c.bits) \in Ft8Message
    BY <2>1, ClassifiedAreMessages
  <2> QED BY <2>2, <2>3 DEF OwnedDecode, Ft8Decode, c
<1>4. Owned(b) \in [1..Len(b.heard) -> Ft8Decode]
  BY <1>2, <1>3 DEF Owned
<1> QED BY <1>2, <1>4, SeqDef

(* A window that decodes is a sequence of decodes, all as their            *)
(* constructors leave them.                                                *)
LEMMA DecodedAreDecodes ==
  ASSUME NEW b \in PcmBuffer, DecodeWindow(b) # None
  PROVE  DecodeWindow(b) \in Seq(Ft8Decode)
<1>1. /\ \A i \in DOMAIN b.heard : Decodable(b.heard[i])
      /\ DecodeWindow(b) = Sorted(Merged(Owned(b)))
  BY DEF DecodeWindow, Owned
<1>2. Owned(b) \in Seq(Ft8Decode)
  BY <1>1, OwnedAreDecodes
<1> QED BY <1>1, <1>2, MergedIsTyped, SortedIsSorted

(* The payload codes of PackedFt8Bits. *)
PayloadCodes == 1..MaxGrid + 4 \union {MaxGrid + code : code \in DOMAIN ReportForms}

(* The call fields the library writes are ones it reads. *)
LEMMA CallFieldsArePacked ==
  /\ \A call \in Standard \union Callsigns : PlainCall(call) \in CallField
  /\ \A call \in Callsigns : HashedCall(call) \in CallField
  /\ PlainCall("CQ") \in CallField
<1>1. "CQ" \in Standard
  BY CodecAssumption
<1> QED BY <1>1 DEF PlainCall, HashedCall, CallField

(* A call word packs to call fields, if it is standard or names a          *)
(* callsign.                                                               *)
LEMMA FieldsArePacked ==
  ASSUME NEW word, word \in Standard \/ Unbracketed(word) \in Callsigns
  PROVE  Fields(word) \subseteq CallField
<1>1. word \notin Standard => Base[Unbracketed(word)] \in Standard
  BY CodecAssumption
<1> QED BY <1>1, CallFieldsArePacked DEF Fields

(* The endings have codes 1 to 3. *)
LEMMA EndingIsCode ==
  ASSUME NEW payload
  PROVE  Ending(payload) \in 0..3
BY DEF Ending

(* Fields and a payload code make a message of type 1, *)
LEMMA Type1IsPacked ==
  ASSUME NEW f \in CallField, NEW s \in CallField, NEW roger \in BOOLEAN,
         NEW code \in PayloadCodes
  PROVE  Type1(<<f, s>>, roger, code) \in PackedFt8Bits
<1>1. <<f, s>> \in CallField \X CallField
  OBVIOUS
<1> QED BY <1>1 DEF Type1, PackedFt8Bits, PayloadCodes

(* fields and an ending one of type 4. *)
LEMMA Type4IsPacked ==
  ASSUME NEW f \in CallField, NEW s \in CallField, NEW cq \in BOOLEAN, NEW code \in 0..3
  PROVE  Type4(<<f, s>>, cq, code) \in PackedFt8Bits
<1>1. <<f, s>> \in CallField \X CallField
  OBVIOUS
<1> QED BY <1>1 DEF Type4, PackedFt8Bits

(* A payload packs to the roger bit and a payload code. *)
LEMMA PayloadIsPacked ==
  ASSUME NEW payload, NEW p \in Payload(payload)
  PROVE  p[1] \in BOOLEAN /\ p[2] \in PayloadCodes
<1>1. MaxGrid \in Nat
  BY CodecAssumption
<1>0. /\ 1..MaxGrid + 4 \subseteq PayloadCodes
      /\ \A c \in DOMAIN ReportForms : MaxGrid + c \in PayloadCodes
  BY DEF PayloadCodes
<1>2. CASE Ending(payload) # 0
  <2>1. p = <<FALSE, MaxGrid + 1 + Ending(payload)>>
    BY <1>2 DEF Payload
  <2>2. MaxGrid + 1 + Ending(payload) \in 1..MaxGrid + 4
    BY <1>1, EndingIsCode
  <2> QED BY <1>0, <2>1, <2>2
<1>3. CASE Ending(payload) = 0 /\ IsGrid(payload)
  <2>1. p = <<FALSE, GridIndex[payload]>>
    BY <1>3 DEF Payload
  <2>2. GridIndex[payload] \in 1..MaxGrid
    BY <1>3, CodecAssumption DEF IsGrid
  <2>3. GridIndex[payload] \in 1..MaxGrid + 4
    BY <1>1, <2>2
  <2> QED BY <1>0, <2>1, <2>3
<1>4. CASE Ending(payload) = 0 /\ ~IsGrid(payload)
  <2>1. PICK c \in DOMAIN ReportForms : p = <<FALSE, MaxGrid + c>> \/ p = <<TRUE, MaxGrid + c>>
    BY <1>4 DEF Payload
  <2>2. CASE p = <<FALSE, MaxGrid + c>>
    BY <1>0, <2>2
  <2>3. CASE p = <<TRUE, MaxGrid + c>>
    BY <1>0, <2>3
  <2> QED BY <2>1, <2>2, <2>3
<1> QED BY <1>2, <1>3, <1>4

(* What pack77 returns can be read, *)
LEMMA Pack77IsPacked ==
  ASSUME NEW first, NEW second, NEW payload,
         Fields(first) \subseteq CallField, Fields(second) \subseteq CallField
  PROVE  Pack77(first, second, payload) \subseteq PackedFt8Bits \union {None}
<1> SUFFICES ASSUME NEW bits \in Pack77(first, second, payload), bits # None
             PROVE  bits \in PackedFt8Bits
  OBVIOUS
<1> DEFINE no == FALSE
<1>0. no \in BOOLEAN
  OBVIOUS
<1>1. \/ \E f \in Fields(first), s \in Fields(second), p \in Payload(payload) :
           bits = Type1(<<f, s>>, p[1], p[2])
      \/ \E f \in Fields(first), s \in Fields(second) :
           bits = Type4(<<f, s>>, no, Ending(payload))
  <2> DEFINE A == {Type1(<<f, s>>, p[1], p[2]) :
                     f \in Fields(first), s \in Fields(second), p \in Payload(payload)}
             B == {Type4(<<f, s>>, no, Ending(payload)) : f \in Fields(first), s \in Fields(second)}
  <2>1. bits \in A \/ bits \in B
    <3>1. Pack77(first, second, payload) =
            A \union (IF {first, second} \subseteq Standard THEN {} ELSE {None} \union B)
      BY DEF Pack77
    <3> HIDE DEF A, B
    <3> QED BY <3>1
  <2> HIDE DEF no
  <2>2. bits \in A => \E f \in Fields(first), s \in Fields(second), p \in Payload(payload) :
                        bits = Type1(<<f, s>>, p[1], p[2])
    OBVIOUS
  <2>3. bits \in B => \E f \in Fields(first), s \in Fields(second) :
                        bits = Type4(<<f, s>>, no, Ending(payload))
    OBVIOUS
  <2> HIDE DEF A, B
  <2> QED BY <2>1, <2>2, <2>3
<1> HIDE DEF no
<1>2. CASE \E f \in Fields(first), s \in Fields(second), p \in Payload(payload) :
             bits = Type1(<<f, s>>, p[1], p[2])
  <2>1. PICK f \in Fields(first), s \in Fields(second), p \in Payload(payload) :
             bits = Type1(<<f, s>>, p[1], p[2])
    BY <1>2
  <2>2. p[1] \in BOOLEAN /\ p[2] \in PayloadCodes
    BY PayloadIsPacked
  <2>3. f \in CallField /\ s \in CallField
    OBVIOUS
  <2> QED BY <2>1, <2>2, <2>3, Type1IsPacked
<1>3. CASE \E f \in Fields(first), s \in Fields(second) :
             bits = Type4(<<f, s>>, no, Ending(payload))
  <2>1. Ending(payload) \in 0..3
    BY EndingIsCode
  <2> QED BY <1>0, <1>3, <2>1, Type4IsPacked
<1> QED BY <1>1, <1>2, <1>3

(* and so can what pack77_type1 *)
LEMMA Pack77Type1IsPacked ==
  ASSUME NEW first, NEW second, NEW grid, IsGrid(grid),
         Fields(first) \subseteq CallField, Fields(second) \subseteq CallField
  PROVE  Pack77Type1(first, second, grid) \subseteq PackedFt8Bits
<1>1. GridIndex[grid] \in 1..MaxGrid /\ MaxGrid \in Nat
  BY CodecAssumption DEF IsGrid
<1>2. GridIndex[grid] \in PayloadCodes
  BY <1>1 DEF PayloadCodes
<1> DEFINE no == FALSE
           A == {Type1(<<f, s>>, no, GridIndex[grid]) : f \in Fields(first), s \in Fields(second)}
<1>3. Pack77Type1(first, second, grid) = A
  BY DEF Pack77Type1
<1>4. no \in BOOLEAN
  OBVIOUS
<1> HIDE DEF no
<1>5. \A f \in Fields(first), s \in Fields(second) :
        Type1(<<f, s>>, no, GridIndex[grid]) \in PackedFt8Bits
  BY <1>2, <1>4, Type1IsPacked
<1>6. A \subseteq PackedFt8Bits
  <2>1. ASSUME NEW bits \in A
        PROVE  \E f \in Fields(first), s \in Fields(second) :
                 bits = Type1(<<f, s>>, no, GridIndex[grid])
    OBVIOUS
  <2> HIDE DEF A
  <2> QED BY <1>5, <2>1
<1> QED BY <1>3, <1>6

(* and pack77_type4 return, *)
LEMMA Pack77Type4IsPacked ==
  ASSUME NEW sender
  PROVE  Pack77Type4(sender) \subseteq PackedFt8Bits \union {None}
<1>1. sender \in Callsigns => Type4(<<PlainCall("CQ"), PlainCall(sender)>>, TRUE, 0) \in PackedFt8Bits
  <2> SUFFICES ASSUME sender \in Callsigns
               PROVE  Type4(<<PlainCall("CQ"), PlainCall(sender)>>, TRUE, 0) \in PackedFt8Bits
    OBVIOUS
  <2>1. PlainCall("CQ") \in CallField /\ PlainCall(sender) \in CallField
    BY CallFieldsArePacked
  <2>2. \A cq \in BOOLEAN : Type4(<<PlainCall("CQ"), PlainCall(sender)>>, cq, 0) \in PackedFt8Bits
    BY <2>1, Type4IsPacked
  <2> QED BY <2>2, Zenon
<1> QED BY <1>1 DEF Pack77Type4

(* whichever of them encode calls: each arm has checked the callsigns. *)
LEMMA PackedIsPacked ==
  ASSUME NEW request \in WaveformRequest
  PROVE  Packed(request.message) \subseteq PackedFt8Bits \union {None}
<1> DEFINE m == request.message
           words == m.words
           general == m.class = "GeneralCall" /\ Len(words) \in 2..3 /\ words[1] = "CQ"
                        /\ Unbracketed(words[2]) = m.sender
           directed == m.class # "GeneralCall" /\ Len(words) = 3 /\ Unbracketed(words[1]) = m.sender
                        /\ Unbracketed(words[2]) = m.recipient /\ PayloadMatches(m.class, words[3])
<1>1. /\ words \in Seq(Word) /\ m.sender \in Callsigns /\ m.recipient \in Callsigns \union {None}
  <2>1. request.message \in OwnedMessage
    BY DEF WaveformRequest
  <2> QED BY <2>1 DEF OwnedMessage
<1>2. general => Fields(words[2]) \subseteq CallField /\ Fields("CQ") \subseteq CallField
  BY <1>1, FieldsArePacked, CodecAssumption
<1>3. directed => Fields(words[1]) \subseteq CallField /\ Fields(words[2]) \subseteq CallField
  <2> SUFFICES ASSUME directed
               PROVE  Fields(words[1]) \subseteq CallField /\ Fields(words[2]) \subseteq CallField
    OBVIOUS
  <2>1. words[2] \in Word
    BY <1>1, SeqDomain
  <2>2. Unbracketed(words[2]) # None
    BY <2>1, UnbracketedIsText, WordsAreTexts
  <2>3. Unbracketed(words[1]) \in Callsigns /\ Unbracketed(words[2]) \in Callsigns
    BY <1>1, <2>2
  <2> QED BY <2>3, FieldsArePacked
<1>4. Packed(m) =
        CASE general /\ Len(words) = 2 /\ Base[m.sender] # m.sender -> Pack77Type4(words[2])
          [] general /\ Len(words) = 3 /\ IsGrid(words[3]) -> Pack77("CQ", words[2], words[3])
          [] directed /\ m.class = "DirectedGrid" -> Pack77Type1(words[1], words[2], words[3])
          [] directed /\ m.class # "DirectedGrid" -> Pack77(words[1], words[2], words[3])
          [] OTHER -> {None}
  BY DEF Packed
<1>5. directed /\ m.class = "DirectedGrid" => IsGrid(words[3])
  BY DEF PayloadMatches
<1>6. Pack77Type4(words[2]) \subseteq PackedFt8Bits \union {None}
  BY Pack77Type4IsPacked
<1>7. general => Pack77("CQ", words[2], words[3]) \subseteq PackedFt8Bits \union {None}
  BY <1>2, Pack77IsPacked
<1>8. directed => Pack77(words[1], words[2], words[3]) \subseteq PackedFt8Bits \union {None}
  BY <1>3, Pack77IsPacked
<1>9. directed /\ m.class = "DirectedGrid" =>
        Pack77Type1(words[1], words[2], words[3]) \subseteq PackedFt8Bits
  BY <1>3, <1>5, Pack77Type1IsPacked
<1> HIDE DEF general, directed
<1> QED BY <1>4, <1>6, <1>7, <1>8, <1>9

(* A synthesized window is one the decoder can be given. *)
LEMMA SynthesizedIsHeard ==
  ASSUME NEW request \in WaveformRequest, NEW b \in Synthesize(request), b # None
  PROVE  b \in PcmBuffer
<1> DEFINE Heard(frames, start, bits) ==
             [frames |-> frames, heard |-> <<[offset |-> 2 * start, snr |-> 0, bits |-> bits]>>]
<1>1. PICK bits \in Encode(request.message) :
           \/ bits # None /\ b = Heard(FrameSamples, 0, bits)
           \/ bits # None /\ request.start # None /\ b = Heard(SlotSamples, request.start, bits)
  BY DEF Synthesize
<1>2. bits \in PackedFt8Bits \/ bits = None
  <2>1. bits \in Packed(request.message) \union {None}
    BY DEF Encode
  <2> QED BY <2>1, PackedIsPacked
<1>3. request.start # None => request.start \in Nat
  BY DEF WaveformRequest
<1>4. ASSUME NEW frames \in Nat, NEW start \in Nat, bits # None
      PROVE  Heard(frames, start, bits) \in PcmBuffer
  <2> DEFINE c == [offset |-> 2 * start, snr |-> 0, bits |-> bits]
  <2>1. c \in [offset : Int \union {None}, snr : Int \union {None}, bits : PackedFt8Bits]
    BY <1>2, <1>4
  <2> HIDE DEF c
  <2>2. <<c>> \in Seq([offset : Int \union {None}, snr : Int \union {None}, bits : PackedFt8Bits])
    BY <2>1
  <2>3. Heard(frames, start, bits) = [frames |-> frames, heard |-> <<c>>]
    BY DEF c
  <2> HIDE DEF Heard
  <2> QED BY <2>2, <2>3 DEF PcmBuffer
<1>5. FrameSamples \in Nat /\ SlotSamples \in Nat
  BY CodecAssumption
<1> HIDE DEF Heard
<1> QED BY <1>1, <1>3, <1>4, <1>5

(* Rows with distinct indices, in the order of their indices. *)
Indexed(decodes) ==
  /\ IsFiniteSet(decodes) /\ \A d \in decodes : d.index \in Int
  /\ \A d, e \in decodes : d.index = e.index => d = e

(* The rows before an index. *)
Below(S, index) == {d \in S : d.index < index}

(* ORDER BY decode_index returns every row once, by index. *)
LEMMA IndexOrderEnumerates ==
  ASSUME NEW S, Indexed(S)
  PROVE  LET raw == InIndexOrder(S)
         IN  /\ Cardinality(S) \in Nat
             /\ DOMAIN raw = 1..Cardinality(S)
             /\ \A i \in DOMAIN raw : raw[i] \in S
             /\ \A i \in DOMAIN raw : Cardinality(Below(S, raw[i].index)) = i - 1
             /\ \A d \in S : \E i \in DOMAIN raw : raw[i] = d
             /\ \A i, j \in DOMAIN raw : i < j => raw[i].index < raw[j].index
<1> DEFINE N == Cardinality(S)
           Before == [d \in S |-> {e \in S : e.index < d.index}]
           raw == InIndexOrder(S)
<1>1. /\ Orders(S, Before)
      /\ \A d, e \in S : d \in Before[e] <=> d.index < e.index
  BY DEF Indexed, Orders
<1>2. /\ DOMAIN raw = 1..N
      /\ \A i \in 1..N : raw[i] = CHOOSE d \in S : Cardinality({e \in S : e.index < d.index}) = i - 1
  BY DEF InIndexOrder, InOrder
<1>3. \A d \in S : Before[d] = {e \in S : e.index < d.index}
  OBVIOUS
<1>4. Enumerates(raw, S, Before)
  <2> HIDE DEF Before, raw
  <2> SUFFICES ASSUME NEW n \in 1..N, \E d \in S : Cardinality(Before[d]) = n - 1
               PROVE  raw[n] \in S /\ Cardinality(Before[raw[n]]) = n - 1
    BY DEF Enumerates
  <2>1. \E d \in S : Cardinality({e \in S : e.index < d.index}) = n - 1
    BY <1>3
  <2>2. raw[n] \in S /\ Cardinality({e \in S : e.index < raw[n].index}) = n - 1
    BY <1>2, <2>1
  <2> QED BY <1>3, <2>2
<1> HIDE DEF Before, raw
<1>5. /\ N \in Nat
      /\ \A i \in 1..N : raw[i] \in S /\ Cardinality(Before[raw[i]]) = i - 1
      /\ \A d \in S : \E i \in 1..N : raw[i] = d
      /\ \A i, j \in 1..N : i < j <=> raw[i] \in Before[raw[j]]
  BY <1>1, <1>4, OrderEnumerates
<1>6. \A d \in S : Before[d] = Below(S, d.index)
  BY <1>3 DEF Below
<1> QED BY <1>1, <1>2, <1>5, <1>6 DEF raw

(* Code words that are read and written again are the same words. *)
LEMMA WordsAreInverse ==
  /\ \A s \in DOMAIN StrToPlatform : PlatformToStr[StrToPlatform[s]] = s
  /\ \A s \in DOMAIN StrToFormat : FormatToStr[StrToFormat[s]] = s
  /\ \A s \in DOMAIN StrToClass : ClassToStr[StrToClass[s]] = s
  /\ \A s \in DOMAIN StrToFault :
       StrToFault[s] \in DOMAIN FaultToStr /\ FaultToStr[StrToFault[s]] = s
<1>1. \A s \in DOMAIN StrToPlatform : PlatformToStr[StrToPlatform[s]] = s
  BY DEF StrToPlatform, PlatformToStr
<1>2. \A s \in DOMAIN StrToFormat : FormatToStr[StrToFormat[s]] = s
  BY DEF StrToFormat, FormatToStr
<1>3. \A s \in DOMAIN StrToClass : ClassToStr[StrToClass[s]] = s
  BY DEF StrToClass, ClassToStr
<1>4. \A s \in DOMAIN StrToFault :
       StrToFault[s] \in DOMAIN FaultToStr /\ FaultToStr[StrToFault[s]] = s
  BY DEF StrToFault, FaultToStr
<1> QED BY <1>1, <1>2, <1>3, <1>4

(* A row that has the columns of its tables. *)
WholeClock(c) ==
  c = [state |-> c.state, kind |-> c.kind, value |-> c.value,
       progress |-> c.progress, required |-> c.required, age |-> c.age]
WholeDecode(d) ==
  d = [index |-> d.index, offset |-> d.offset, snr |-> d.snr,
       message |-> [kind |-> d.message.kind, text |-> d.message.text, detail |-> d.message.detail,
                    class |-> d.message.class, sender |-> d.message.sender,
                    recipient |-> d.message.recipient]]
Whole(t) ==
  /\ t = [slot |-> t.slot, captureUtc |-> t.captureUtc, count |-> t.count,
          platform |-> t.platform, format |-> t.format, recorded |-> t.recorded,
          drift |-> t.drift, clock |-> t.clock, decodes |-> t.decodes]
  /\ WholeClock(t.clock) /\ t.clock.value \in I64 \union {None}
  /\ \A d \in t.decodes : WholeDecode(d)

(* Clock columns that are read and written again are the same columns, *)
LEMMA ClockReadsBack ==
  ASSUME NEW c, WholeClock(c), c.value \in I64 \union {None},
         CheckClock(c), ReconstructsClock(c)
  PROVE  ClockColumns(ReconstructClock(c)) = c
<1>1. CASE c.state = "healthy"
  BY <1>1 DEF WholeClock, CheckClock, ReconstructsClock, ClockColumns, ReconstructClock
<1>2. CASE c.state # "healthy"
  <2>1. c.state = "unhealthy" /\ c.kind \in DOMAIN StrToFault
    BY <1>2 DEF CheckClock
  <2>2. ReconstructFault(c) \in ClockFault
    <3> DEFINE kind == StrToFault[c.kind]
    <3>1. /\ kind \in DOMAIN FaultToStr /\ c.value \in I64 \union {None}
          /\ (kind \in Signed \union Unsigned) = (c.value # None)
          /\ kind \in Unsigned => c.value >= 0
      BY <1>2, <2>1, WordsAreInverse DEF ReconstructsClock, ReconstructsFault
    <3>2. kind \in Unsigned => c.value \in U64
      BY <3>1, ColumnsAssumption DEF I64, U64
    <3>3. ReconstructFault(c) = [kind |-> kind, value |-> c.value]
      BY DEF ReconstructFault
    <3> HIDE DEF kind
    <3> QED BY <3>1, <3>2, <3>3 DEF ClockFault
  <2>3. ReconstructFault(c) # None
    BY <2>2, ArgumentsAssumption
  <2>4. /\ FaultToStr[ReconstructFault(c).kind] = c.kind
        /\ ReconstructFault(c).value = c.value
    BY <2>1, WordsAreInverse DEF ReconstructFault
  <2>5. ReconstructClock(c) = [fault |-> ReconstructFault(c), progress |-> c.progress,
                               required |-> c.required, age |-> c.age]
    BY <1>2 DEF ReconstructClock
  <2> DEFINE f == ReconstructFault(c)
  <2> HIDE DEF f
  <2> QED BY <2>1, <2>3, <2>4, <2>5 DEF ClockColumns, WholeClock
<1> QED BY <1>1, <1>2

(* and so are those of a decode. *)
LEMMA DecodeReadsBack ==
  ASSUME NEW d, WholeDecode(d), CheckDecode(d)
  PROVE  DecodeColumns(d.index, [offset |-> d.offset, snr |-> d.snr,
                                 message |-> ReconstructMessage(d.message)]) = d
<1> DEFINE m == d.message
           wholeMessage == [kind |-> m.kind, text |-> m.text, detail |-> m.detail,
                            class |-> m.class, sender |-> m.sender, recipient |-> m.recipient]
<1>1. MessageColumns(ReconstructMessage(m)) = wholeMessage
  <2>1. CASE m.kind = "resolved"
    <3>1. m.class \in DOMAIN StrToClass /\ m.detail = None
      BY <2>1 DEF CheckDecode, Detailed
    <3>2. ClassToStr[StrToClass[m.class]] = m.class
      BY <3>1, WordsAreInverse
    <3> QED BY <2>1, <3>1, <3>2 DEF MessageColumns, ReconstructMessage, Detailed
  <2>2. CASE m.kind \in Detailed
    BY <2>2 DEF CheckDecode, MessageColumns, ReconstructMessage, Detailed
  <2>3. CASE m.kind = "free_text"
    BY <2>3 DEF CheckDecode, MessageColumns, ReconstructMessage, Detailed
  <2> QED BY <2>1, <2>2, <2>3 DEF CheckDecode
<1> QED BY <1>1 DEF DecodeColumns, WholeDecode

(* The CHECKs and the primary key give decodes distinct indices. *)
LEMMA ChecksIndex ==
  ASSUME NEW t, Checks(t)
  PROVE  Indexed(t.decodes)
<1>1. \A d \in t.decodes : d.index \in 0..MaxDecodes - 1
  BY DEF Checks, CheckDecode
<1>2. \A d, e \in t.decodes : d.index = e.index => d = e
  BY DEF Checks
<1> DEFINE f == [d \in t.decodes |-> d.index]
<1>3. f \in Injection(t.decodes, 0..MaxDecodes - 1)
  BY <1>1, <1>2 DEF Injection, IsInjective
<1>4. IsFiniteSet(0..MaxDecodes - 1)
  BY ColumnsAssumption, FS_Interval
<1>5. IsFiniteSet(t.decodes)
  BY <1>3, <1>4, FS_Injection
<1> QED BY <1>1, <1>2, <1>5, ColumnsAssumption DEF Indexed

(* The decodes of a window, read and written again, are the same rows, *)
LEMMA DecodesReadBack ==
  ASSUME NEW t, Checks(t), Whole(t), ReadsDecodes(InIndexOrder(t.decodes))
  PROVE  LET read == Sorted(Reconstructed(InIndexOrder(t.decodes)))
         IN  {DecodeColumns(i - 1, read[i]) : i \in DOMAIN read} = t.decodes
<1> DEFINE raw == InIndexOrder(t.decodes)
           read == Reconstructed(raw)
<1>1. Sorted(read) = read /\ \A i \in DOMAIN raw : raw[i].index = i - 1
  BY DEF ReadsDecodes
<1>2. /\ \A i \in DOMAIN raw : raw[i] \in t.decodes
      /\ \A d \in t.decodes : \E i \in DOMAIN raw : raw[i] = d
  BY ChecksIndex, IndexOrderEnumerates
<1>3. DOMAIN read = DOMAIN raw
  BY DEF Reconstructed
<1>4. \A i \in DOMAIN raw : DecodeColumns(i - 1, read[i]) = raw[i]
  <2> SUFFICES ASSUME NEW i \in DOMAIN raw PROVE DecodeColumns(i - 1, read[i]) = raw[i]
    OBVIOUS
  <2> DEFINE d == raw[i]
  <2>1. d \in t.decodes /\ d.index = i - 1
    BY <1>1, <1>2
  <2>2. WholeDecode(d) /\ CheckDecode(d)
    BY <2>1 DEF Whole, Checks
  <2>3. read[i] = [offset |-> d.offset, snr |-> d.snr, message |-> ReconstructMessage(d.message)]
    BY DEF Reconstructed
  <2> HIDE DEF d, read
  <2> QED BY <2>1, <2>2, <2>3, DecodeReadsBack DEF d
<1> HIDE DEF read, raw
<1>5. {DecodeColumns(i - 1, read[i]) : i \in DOMAIN read} = {raw[i] : i \in DOMAIN raw}
  BY <1>3, <1>4
<1>6. {raw[i] : i \in DOMAIN raw} = t.decodes
  BY <1>2
<1> QED BY <1>1, <1>5, <1>6 DEF read, raw

(* and so is the window, if it can be read. *)
LEMMA RowReadsBack ==
  ASSUME NEW t, Checks(t), Whole(t), Reconstruct(t) # None
  PROVE  Columns(Reconstruct(t)) = t
<1> DEFINE raw == InIndexOrder(t.decodes)
           a == [slot |-> t.slot, captureUtc |-> t.captureUtc, count |-> t.count,
                 platform |-> StrToPlatform[t.platform], format |-> StrToFormat[t.format],
                 recorded |-> t.recorded, drift |-> t.drift,
                 clock |-> ReconstructClock(t.clock), decodes |-> Reconstructed(raw)]
           r == [a EXCEPT !.decodes = Sorted(a.decodes)]
<1>1. /\ Reconstruct(t) = r
      /\ t.platform \in DOMAIN StrToPlatform /\ t.format \in DOMAIN StrToFormat
      /\ ReconstructsClock(t.clock) /\ ReadsDecodes(raw)
  BY DEF Reconstruct, New
<1>2. ClockColumns(r.clock) = t.clock
  <2>1. r.clock = ReconstructClock(t.clock)
    OBVIOUS
  <2> HIDE DEF r
  <2> QED BY <1>1, <2>1, ClockReadsBack DEF Checks, Whole
<1>3. {DecodeColumns(i - 1, r.decodes[i]) : i \in DOMAIN r.decodes} = t.decodes
  <2>1. r.decodes = Sorted(Reconstructed(raw))
    OBVIOUS
  <2> HIDE DEF r
  <2> QED BY <1>1, <2>1, DecodesReadBack
<1>4. PlatformToStr[r.platform] = t.platform /\ FormatToStr[r.format] = t.format
  BY <1>1, WordsAreInverse
<1>5. /\ r.slot = t.slot /\ r.captureUtc = t.captureUtc /\ r.count = t.count
      /\ r.recorded = t.recorded /\ r.drift = t.drift
  OBVIOUS
<1> HIDE DEF r
<1> QED BY <1>1, <1>2, <1>3, <1>4, <1>5 DEF Columns, Whole

(* Rows that are found have the columns of their tables. *)
LEMMA FoundAreWhole ==
  ASSUME NEW t \in WindowRow
  PROVE  Whole(t)
<1>1. t \in WindowRow
  OBVIOUS
<1>2. WholeClock(t.clock) /\ t.clock.value \in I64 \union {None}
  BY <1>1 DEF WindowRow, ClockRow, WholeClock
<1>3. \A d \in t.decodes : WholeDecode(d)
  BY <1>1 DEF WindowRow, DecodeRow, MessageRow, WholeDecode
<1> QED BY <1>1, <1>2, <1>3 DEF WindowRow, Whole

(* Classes and kinds of fault that are written and read again are the      *)
(* same,                                                                   *)
LEMMA ClassWordsAreInverse ==
  /\ \A c \in DOMAIN ClassToStr : ClassToStr[c] \in DOMAIN StrToClass /\ StrToClass[ClassToStr[c]] = c
  /\ \A c \in DOMAIN ClassToStr : ClassToStr[c] = "general_call" <=> c = "GeneralCall"
  /\ \A k \in DOMAIN FaultToStr : FaultToStr[k] \in DOMAIN StrToFault /\ StrToFault[FaultToStr[k]] = k
<1>1. \A c \in DOMAIN ClassToStr : ClassToStr[c] \in DOMAIN StrToClass /\ StrToClass[ClassToStr[c]] = c
  BY DEF ClassToStr, StrToClass
<1>2. \A c \in DOMAIN ClassToStr : ClassToStr[c] = "general_call" <=> c = "GeneralCall"
  BY DEF ClassToStr
<1>3. \A k \in DOMAIN FaultToStr : FaultToStr[k] \in DOMAIN StrToFault /\ StrToFault[FaultToStr[k]] = k
  BY DEF FaultToStr, StrToFault
<1> QED BY <1>1, <1>2, <1>3

(* and so are platforms and formats. *)
LEMMA DeviceWordsAreInverse ==
  /\ \A p \in DOMAIN PlatformToStr :
       PlatformToStr[p] \in DOMAIN StrToPlatform /\ StrToPlatform[PlatformToStr[p]] = p
  /\ \A f \in DOMAIN FormatToStr :
       FormatToStr[f] \in DOMAIN StrToFormat /\ StrToFormat[FormatToStr[f]] = f
<1>1. \A p \in DOMAIN PlatformToStr :
        PlatformToStr[p] \in DOMAIN StrToPlatform /\ StrToPlatform[PlatformToStr[p]] = p
  BY DEF PlatformToStr, StrToPlatform
<1>2. \A f \in DOMAIN FormatToStr :
        FormatToStr[f] \in DOMAIN StrToFormat /\ StrToFormat[FormatToStr[f]] = f
  BY DEF FormatToStr, StrToFormat
<1> QED BY <1>1, <1>2

(* A clock that new accepts: within the CHECKs, and read back. *)
LEMMA ClockIsStored ==
  ASSUME NEW clock \in ClockHealth, ValidClock(clock)
  PROVE  /\ CheckClock(ClockColumns(clock)) /\ ReconstructsClock(ClockColumns(clock))
         /\ ReconstructClock(ClockColumns(clock)) = clock
<1> DEFINE c == ClockColumns(clock)
<1>1. clock.age \in 0..MaxAge /\ MaxRequired \in Nat
  BY ColumnsAssumption DEF ValidClock, ClockHealth, U64
<1>2. CASE clock.fault = None
  <2>1. clock = [fault |-> None, progress |-> 0, required |-> 0, age |-> clock.age]
    BY <1>2, ArgumentsAssumption DEF ClockHealth
  <2>2. c = [state |-> "healthy", kind |-> None, value |-> None,
             progress |-> 0, required |-> 0, age |-> clock.age]
    BY <1>2 DEF ClockColumns
  <2> HIDE DEF c
  <2>3. ReconstructClock(c) = clock
    BY <2>1, <2>2 DEF ReconstructClock
  <2>4. CheckClock(c)
    BY <1>1, <2>2 DEF CheckClock
  <2>5. ReconstructsClock(c)
    BY <2>2, <2>3 DEF ReconstructsClock
  <2> QED BY <2>3, <2>4, <2>5 DEF c
<1>3. CASE clock.fault # None
  <2> DEFINE f == clock.fault
  <2>1. /\ clock = [fault |-> f, progress |-> clock.progress, required |-> clock.required,
                    age |-> clock.age]
        /\ f \in ClockFault /\ clock.progress \in Nat /\ clock.required \in 2..MaxRequired
        /\ clock.progress < clock.required
    BY <1>3 DEF ClockHealth, ValidClock
  <2>2. /\ f = [kind |-> f.kind, value |-> f.value] /\ f.kind \in DOMAIN FaultToStr
        /\ (f.kind \in Signed \union Unsigned) = (f.value # None)
        /\ f.kind \in Unsigned => f.value \in Int /\ f.value >= 0
    <3>1. f.kind \in Signed => f.value \in I64
      BY <2>1 DEF ClockFault, Signed, Unsigned
    <3>2. f.kind \in Unsigned => f.value \in U64
      BY <2>1 DEF ClockFault, Signed, Unsigned
    <3>3. f.kind \notin Signed \union Unsigned => f.value = None
      BY <2>1 DEF ClockFault
    <3>4. f = [kind |-> f.kind, value |-> f.value] /\ f.kind \in DOMAIN FaultToStr
      BY <2>1 DEF ClockFault, FaultToStr, Signed, Unsigned
    <3>5. None \notin I64 /\ None \notin U64 /\ \A n \in U64 : n \in Int /\ n >= 0
      BY NoneIsNothing, ColumnsAssumption DEF I64, U64
    <3> HIDE DEF f
    <3> QED BY <3>1, <3>2, <3>3, <3>4, <3>5
  <2>3. c = [state |-> "unhealthy", kind |-> FaultToStr[f.kind], value |-> f.value,
             progress |-> clock.progress, required |-> clock.required, age |-> clock.age]
    BY <1>3 DEF ClockColumns
  <2>4. /\ FaultToStr[f.kind] \in DOMAIN StrToFault /\ StrToFault[FaultToStr[f.kind]] = f.kind
        /\ FaultToStr[f.kind] # None
    BY <2>2, ClassWordsAreInverse, NoneIsNothing
  <2> HIDE DEF c, f
  <2>5. ReconstructFault(c) = f
    BY <2>2, <2>3, <2>4 DEF ReconstructFault
  <2>6. ReconstructClock(c) = clock
    BY <2>1, <2>3, <2>5 DEF ReconstructClock
  <2>7. CheckClock(c)
    <3>1. c.progress \in 0..MaxRequired /\ c.required \in 0..MaxRequired /\ c.age \in 0..MaxAge
      BY <1>1, <2>1, <2>3
    <3>2. (c.kind # None /\ StrToFault[c.kind] \in Signed \union Unsigned) = (c.value # None)
      BY <2>2, <2>3, <2>4
    <3> QED BY <2>1, <2>3, <2>4, <3>1, <3>2 DEF CheckClock
  <2>8. ReconstructsFault(c)
    BY <2>2, <2>3, <2>4 DEF ReconstructsFault
  <2>9. ReconstructsClock(c)
    BY <2>3, <2>6, <2>8 DEF ReconstructsClock
  <2> QED BY <2>6, <2>7, <2>9 DEF c
<1> QED BY <1>2, <1>3

(* A decode that new accepts: within the CHECKs, and read back. *)
LEMMA DecodeIsStored ==
  ASSUME NEW decode \in Ft8Decode, ValidDecodeMetadata(decode), NEW index \in 0..MaxDecodes - 1
  PROVE  LET d == DecodeColumns(index, decode)
         IN  /\ CheckDecode(d) /\ d.index = index
             /\ ValidMessage(ReconstructMessage(d.message))
             /\ [offset |-> d.offset, snr |-> d.snr, message |-> ReconstructMessage(d.message)]
                  = decode
<1> DEFINE m == decode.message
           d == DecodeColumns(index, decode)
           c == MessageColumns(m)
<1>1. /\ m \in Ft8Message /\ decode = [offset |-> decode.offset, snr |-> decode.snr, message |-> m]
  BY DEF Ft8Decode
<1>2. d = [index |-> index, offset |-> decode.offset, snr |-> decode.snr, message |-> c]
  BY DEF DecodeColumns
<1> HIDE DEF d, m
<1>3. /\ m = [kind |-> m.kind, text |-> m.text, class |-> m.class, sender |-> m.sender,
              recipient |-> m.recipient, detail |-> m.detail]
      /\ m.kind \in {"resolved", "free_text"} \union Detailed
      /\ ValidMessage(m)
      /\ m.kind = "resolved" => /\ m.class \in DOMAIN ClassToStr /\ m.sender # None
                                /\ (m.class # "GeneralCall") = (m.recipient # None)
      /\ m.kind # "resolved" => m.class = None /\ m.sender = None /\ m.recipient = None
      /\ m.kind \in Detailed <=> m.detail # None
  <2>1. m.kind \in ToSet(Kinds)
    BY <1>1 DEF Ft8Message
  <2>2. m.kind \in {"resolved", "free_text"} \union Detailed
    BY <2>1 DEF ToSet, Kinds, Detailed
  <2> QED BY <1>1, <2>2 DEF Ft8Message, ValidMessage
<1>4. /\ m.kind = "resolved" => /\ ClassToStr[m.class] \in DOMAIN StrToClass
                                /\ StrToClass[ClassToStr[m.class]] = m.class
                                /\ ClassToStr[m.class] # None
                                /\ ClassToStr[m.class] = "general_call" <=> m.class = "GeneralCall"
  BY <1>3, ClassWordsAreInverse, NoneIsNothing
<1>5. c = [kind |-> m.kind, text |-> m.text,
           detail |-> IF m.kind \in Detailed THEN m.detail ELSE None,
           class |-> IF m.kind = "resolved" THEN ClassToStr[m.class] ELSE None,
           sender |-> IF m.kind = "resolved" THEN m.sender ELSE None,
           recipient |-> IF m.kind = "resolved" THEN m.recipient ELSE None]
  BY DEF MessageColumns
<1> HIDE DEF c
<1>6. "resolved" \notin Detailed /\ "free_text" \notin Detailed
  BY DEF Detailed
<1>7. ReconstructMessage(c) = m
  BY <1>3, <1>4, <1>5, <1>6 DEF ReconstructMessage
<1>8. /\ d.index \in 0..MaxDecodes - 1 /\ d.offset \in -MaxOffset..MaxOffset
      /\ d.snr \in -MaxSnr..MaxSnr
  BY <1>2 DEF ValidDecodeMetadata
<1>9. \/ c.kind = "resolved" /\ c.detail = None /\ c.class # None /\ c.sender # None
      \/ c.kind \in Detailed /\ c.detail # None
            /\ c.class = None /\ c.sender = None /\ c.recipient = None
      \/ c.kind = "free_text" /\ c.detail = None
            /\ c.class = None /\ c.sender = None /\ c.recipient = None
  BY <1>3, <1>4, <1>5, <1>6
<1>10. c.class # None =>
         c.class \in DOMAIN StrToClass /\ (c.class = "general_call") = (c.recipient = None)
  BY <1>3, <1>4, <1>5
<1>11. CheckDecode(d)
  BY <1>2, <1>8, <1>9, <1>10 DEF CheckDecode
<1> QED BY <1>1, <1>2, <1>3, <1>7, <1>11 DEF d

(* The rows of a record's decodes are in the order of the record. *)
LEMMA ColumnsInOrder ==
  ASSUME NEW n \in Nat, NEW col, \A i \in 1..n : col[i].index = i - 1,
         NEW S, S = {col[i] : i \in 1..n}
  PROVE  /\ DOMAIN InIndexOrder(S) = 1..n
         /\ \A i \in 1..n : InIndexOrder(S)[i] = col[i]
<1> DEFINE raw == InIndexOrder(S)
           f == [i \in 1..n |-> col[i]]
<1>1. f \in Bijection(1..n, S)
  <2>1. f \in [1..n -> S] /\ \A d \in S : \E i \in 1..n : f[i] = d
    OBVIOUS
  <2>2. \A i, j \in 1..n : f[i] = f[j] => i = j
    OBVIOUS
  <2> HIDE DEF f
  <2> QED BY <2>1, <2>2 DEF Bijection, Injection, Surjection, IsInjective
<1>2. IsFiniteSet(1..n) /\ Cardinality(1..n) = n
  BY FS_Interval
<1>3. IsFiniteSet(S) /\ Cardinality(S) = n
  <2> HIDE DEF f
  <2> QED BY <1>1, <1>2, FS_Bijection DEF ExistsBijection
<1>4. Indexed(S)
  <2>1. \A d \in S : d.index \in Int
    OBVIOUS
  <2>2. \A d, e \in S : d.index = e.index => d = e
    OBVIOUS
  <2> QED BY <1>3, <2>1, <2>2 DEF Indexed
<1>5. /\ DOMAIN raw = 1..n
      /\ \A i \in 1..n : raw[i] \in S /\ Cardinality(Below(S, raw[i].index)) = i - 1
  <2>1. /\ DOMAIN raw = 1..Cardinality(S)
        /\ \A i \in DOMAIN raw : raw[i] \in S
        /\ \A i \in DOMAIN raw : Cardinality(Below(S, raw[i].index)) = i - 1
    BY <1>4, IndexOrderEnumerates
  <2> HIDE DEF raw
  <2> QED BY <1>3, <2>1
<1>6. ASSUME NEW k \in 1..n
      PROVE  Cardinality(Below(S, col[k].index)) = k - 1
  <2> DEFINE T == Below(S, k - 1)
             g == [i \in 1..k - 1 |-> col[i]]
  <2>1. g \in [1..k - 1 -> T] /\ \A d \in T : \E i \in 1..k - 1 : g[i] = d
    BY DEF Below
  <2>2. \A i, j \in 1..k - 1 : g[i] = g[j] => i = j
    OBVIOUS
  <2>3. g \in Bijection(1..k - 1, T)
    <3> HIDE DEF g, T
    <3> QED BY <2>1, <2>2 DEF Bijection, Injection, Surjection, IsInjective
  <2>4. IsFiniteSet(1..k - 1) /\ Cardinality(1..k - 1) = k - 1
    BY FS_Interval
  <2>5. Cardinality(T) = k - 1
    <3> HIDE DEF g, T
    <3> QED BY <2>3, <2>4, FS_Bijection DEF ExistsBijection
  <2> QED BY <2>5
<1>7. ASSUME NEW i \in 1..n
      PROVE  raw[i] = col[i]
  <2>1. PICK k \in 1..n : raw[i] = col[k]
    BY <1>5
  <2>2. Cardinality(Below(S, col[k].index)) = i - 1
    <3> HIDE DEF raw
    <3> QED BY <1>5, <2>1
  <2>3. k - 1 = i - 1
    <3> HIDE DEF raw
    <3> QED BY <1>6, <2>2
  <2> QED BY <2>1, <2>3
<1> QED BY <1>5, <1>7

(* What New accepts and the integer columns can hold is within the CHECKs, *)
(* and is read back as it was.                                             *)
LEMMA AcceptedIsStored ==
  ASSUME NEW a \in ReceiveArguments, New(a) # None
  PROVE  /\ Checks(Columns(New(a))) /\ Reconstruct(Columns(New(a))) = New(a)
         /\ New(a).clock \in ClockHealth
         /\ ValidSummary(MapReceiveRecord(New(a)))
<1> DEFINE r == New(a)
           t == Columns(r)
           n == Len(r.decodes)
           raw == InIndexOrder(t.decodes)
           col == [i \in 1..n |-> DecodeColumns(i - 1, r.decodes[i])]
<1>1. Accepts(a) /\ r = [a EXCEPT !.decodes = Sorted(a.decodes)]
  BY DEF New
<1>2. /\ a = [slot |-> a.slot, captureUtc |-> a.captureUtc, count |-> a.count,
              platform |-> a.platform, format |-> a.format, recorded |-> a.recorded,
              drift |-> a.drift, clock |-> a.clock, decodes |-> a.decodes]
      /\ a.slot \in 0..MaxI64 /\ a.slot % SlotMillis = 0 /\ a.captureUtc \in Nat
      /\ a.count \in U64 /\ a.platform \in DOMAIN PlatformToStr /\ a.format \in DOMAIN FormatToStr
      /\ a.recorded \in I64 /\ a.drift \in Int /\ a.clock \in ClockHealth
      /\ a.decodes \in Seq(Ft8Decode)
  BY DEF ReceiveArguments
<1>3. /\ r.slot = a.slot /\ r.captureUtc = a.captureUtc /\ r.count = a.count
      /\ r.platform = a.platform /\ r.format = a.format /\ r.recorded = a.recorded
      /\ r.drift = a.drift /\ r.clock = a.clock /\ r.decodes = Sorted(a.decodes)
      /\ r = [slot |-> r.slot, captureUtc |-> r.captureUtc, count |-> r.count,
              platform |-> r.platform, format |-> r.format, recorded |-> r.recorded,
              drift |-> r.drift, clock |-> r.clock, decodes |-> r.decodes]
  <2> HIDE DEF r
  <2> QED BY <1>1, <1>2
<1> HIDE DEF r
<1>4. /\ r.decodes \in Seq(Ft8Decode) /\ n = Len(a.decodes) /\ n \in Nat /\ n <= MaxDecodes
      /\ DOMAIN r.decodes = 1..n
      /\ Sorted(r.decodes) = r.decodes
      /\ \A i \in 1..n : r.decodes[i] \in Ft8Decode /\ ValidDecodeMetadata(r.decodes[i])
  <2>1. /\ r.decodes \in Seq(Ft8Decode) /\ n = Len(a.decodes)
        /\ Sorted(r.decodes) = r.decodes
        /\ \A i \in DOMAIN r.decodes : \E j \in DOMAIN a.decodes : r.decodes[i] = a.decodes[j]
    BY <1>2, <1>3, SortedIsSorted
  <2>2. DOMAIN r.decodes = 1..n /\ n \in Nat /\ \A i \in 1..n : r.decodes[i] \in Ft8Decode
    BY <2>1, SeqDomain
  <2>3. n <= MaxDecodes /\ \A j \in DOMAIN a.decodes : ValidDecodeMetadata(a.decodes[j])
    BY <1>1, <2>1 DEF Accepts
  <2> QED BY <2>1, <2>2, <2>3
<1>5. ASSUME NEW i \in 1..n
      PROVE  /\ CheckDecode(col[i]) /\ col[i].index = i - 1
             /\ ValidMessage(ReconstructMessage(col[i].message))
             /\ [offset |-> col[i].offset, snr |-> col[i].snr,
                 message |-> ReconstructMessage(col[i].message)] = r.decodes[i]
  <2>1. i - 1 \in 0..MaxDecodes - 1
    BY <1>4, ColumnsAssumption
  <2>2. r.decodes[i] \in Ft8Decode /\ ValidDecodeMetadata(r.decodes[i])
    BY <1>4
  <2>3. col[i] = DecodeColumns(i - 1, r.decodes[i])
    OBVIOUS
  <2> HIDE DEF col
  <2> QED BY <2>1, <2>2, <2>3, DecodeIsStored
<1>6. /\ t = [slot |-> r.slot, captureUtc |-> r.captureUtc, count |-> r.count,
              platform |-> PlatformToStr[r.platform], format |-> FormatToStr[r.format],
              recorded |-> r.recorded, drift |-> r.drift, clock |-> ClockColumns(r.clock),
              decodes |-> {col[i] : i \in 1..n}]
  BY <1>4 DEF Columns
<1> HIDE DEF t, col, n
<1>7. DOMAIN raw = 1..n /\ \A i \in 1..n : raw[i] = col[i]
  <2>1. t.decodes = {col[i] : i \in 1..n}
    BY <1>6
  <2>2. n \in Nat /\ \A i \in 1..n : col[i].index = i - 1
    BY <1>4, <1>5
  <2> QED BY <2>1, <2>2, ColumnsInOrder
<1> HIDE DEF raw
<1>8. Reconstructed(raw) = r.decodes
  <2>1. r.decodes = [i \in 1..n |-> r.decodes[i]]
    BY <1>4
  <2> QED BY <1>5, <1>7, <2>1 DEF Reconstructed
<1>9. ReadsDecodes(raw)
  BY <1>4, <1>5, <1>7, <1>8 DEF ReadsDecodes
<1>10. /\ CheckClock(t.clock) /\ ReconstructsClock(t.clock) /\ ReconstructClock(t.clock) = r.clock
  BY <1>1, <1>2, <1>3, <1>6, ClockIsStored DEF Accepts
<1>11. /\ t.platform \in DOMAIN StrToPlatform /\ StrToPlatform[t.platform] = r.platform
       /\ t.format \in DOMAIN StrToFormat /\ StrToFormat[t.format] = r.format
  BY <1>2, <1>3, <1>6, DeviceWordsAreInverse
<1>12. /\ t.slot = r.slot /\ t.slot >= 0 /\ t.slot % SlotMillis = 0
       /\ t.captureUtc = r.captureUtc /\ t.captureUtc >= 0
       /\ t.count = r.count /\ t.count >= 0 /\ t.recorded = r.recorded /\ t.recorded >= 0
       /\ t.drift = r.drift /\ t.drift \in -MaxDrift..MaxDrift
  <2>1. a.recorded >= 0 /\ a.drift \in -MaxDrift..MaxDrift
    BY <1>1 DEF Accepts
  <2>2. a.count >= 0
    BY <1>2, ColumnsAssumption DEF U64
  <2> QED BY <1>2, <1>3, <1>6, <2>1, <2>2
<1>13. Checks(t)
  <2>0. t.decodes = {col[i] : i \in 1..n}
    BY <1>6
  <2>1. \A d \in t.decodes : CheckDecode(d)
    BY <1>5, <2>0
  <2>3. \A i \in 1..n : col[i].index = i - 1
    BY <1>5
  <2>2. ASSUME NEW d \in t.decodes, NEW e \in t.decodes, d.index = e.index
        PROVE  d = e
    <3>1. PICK i \in 1..n, j \in 1..n : d = col[i] /\ e = col[j]
      BY <2>0
    <3>2. i - 1 = j - 1
      BY <2>2, <2>3, <3>1
    <3> QED BY <3>1, <3>2
  <2> QED BY <1>10, <1>11, <1>12, <2>1, <2>2 DEF Checks, CheckWindow
<1>14. Accepts(r)
  <2>1. a.decodes = <<>> => r.decodes = <<>>
    BY <1>2, <1>4, EmptySeq DEF n
  <2> QED BY <1>1, <1>3, <1>4, <2>1 DEF Accepts, n
<1>15. New(r) = r
  <2>1. [r EXCEPT !.decodes = Sorted(r.decodes)] = r
    BY <1>3, <1>4
  <2> QED BY <1>14, <2>1 DEF New
<1>16. Reconstruct(t) = r
  <2>1. [slot |-> t.slot, captureUtc |-> t.captureUtc, count |-> t.count,
         platform |-> StrToPlatform[t.platform], format |-> StrToFormat[t.format],
         recorded |-> t.recorded, drift |-> t.drift,
         clock |-> ReconstructClock(t.clock), decodes |-> Reconstructed(raw)] = r
    BY <1>3, <1>8, <1>10, <1>11, <1>12
  <2> QED BY <1>9, <1>10, <1>11, <1>12, <1>15, <2>1 DEF Reconstruct, raw
<1>17. ValidSummary(MapReceiveRecord(r))
  <2> DEFINE public == [i \in 1..n |-> MapDecode(r.decodes[i])]
             T == {MapDecode(r.decodes[i]) : i \in 1..n}
  <2>1. MapReceiveRecord(r).decodes = public
    BY <1>4 DEF MapReceiveRecord
  <2>2. public \in [1..n -> T]
    OBVIOUS
  <2>3. public \in Seq(T) /\ DOMAIN public = 1..n
    <3> HIDE DEF T, public
    <3> QED BY <1>4, <2>2, SeqDef
  <2> HIDE DEF T, public
  <2>4. Len(public) = n
    BY <1>4, <2>3, LenProperties
  <2>5. n <= MaxSummary
    BY <1>4, ColumnsAssumption
  <2> QED BY <2>1, <2>4, <2>5 DEF ValidSummary
<1>18. r.clock \in ClockHealth
  BY <1>2, <1>3
<1> QED BY <1>13, <1>16, <1>17, <1>18 DEF r, t

-----------------------------------------------------------------------------
(* Where the window is: what it was given is typed as long as something is *)
(* made of it, what was built is what New made of it, what is stored is    *)
(* its columns, and what is found holds to the CHECKs.                     *)
Ended == {"read", "unreadable", "existing", "collision"}
ColumnsInv ==
  /\ phase = "composed" => sent \in WaveformRequest
  /\ phase = "heard" => buffer \in PcmBuffer
  /\ phase \in {"given", "built", "stored"} => given \in ReceiveArguments
  /\ phase \in {"built", "stored"} => record = New(given) /\ New(given) # None
  /\ phase = "stored" => row = Columns(record) /\ published = MapReceiveRecord(record)
  /\ phase = "found" => given = None /\ row \in WindowRow /\ Checks(row)
  /\ phase \notin Ended => loaded = None
  /\ RetryFindsItsRecord /\ AcceptedIsStorable /\ ReadIsFaithful

(* A record has as many decodes as a window may have, and counters that    *)
(* are unsigned,                                                           *)
Sized(r) == Len(r.decodes) \in 0..MaxDecodes /\ r.count \in U64

LEMMA BuiltIsSized ==
  ASSUME NEW a \in ReceiveArguments, New(a) # None
  PROVE  /\ Sized(New(a))
         /\ Fits(New(a)) =>
              LET t == Columns(New(a)) IN {t.count, t.recorded, t.clock.age} \subseteq I64
<1> DEFINE r == New(a)
<1>1. Accepts(a) /\ r = [a EXCEPT !.decodes = Sorted(a.decodes)]
  BY DEF New
<1>2. /\ r.decodes = Sorted(a.decodes) /\ r.count = a.count /\ r.recorded = a.recorded
      /\ r.clock = a.clock /\ a.decodes \in Seq(Ft8Decode) /\ a.count \in U64 /\ a.recorded \in I64
      /\ a.clock \in ClockHealth
  <2> HIDE DEF r
  <2> QED BY <1>1 DEF ReceiveArguments
<1> HIDE DEF r
<1>3. Len(r.decodes) = Len(a.decodes) /\ Len(a.decodes) \in Nat /\ Len(a.decodes) <= MaxDecodes
  BY <1>1, <1>2, SortedIsSorted, SeqDomain DEF Accepts
<1>4. Sized(r)
  BY <1>2, <1>3, ColumnsAssumption DEF Sized
<1>5. ASSUME Fits(r)
      PROVE  /\ Columns(r).count \in I64 /\ Columns(r).recorded \in I64
             /\ Columns(r).clock.age \in I64
  <2>1. r.clock.age \in U64
    BY <1>2 DEF ClockHealth
  <2>2. r.count <= MaxI64 /\ r.clock.age <= MaxI64
    BY <1>5 DEF Fits, Wide
  <2>3. r.count \in I64 /\ r.clock.age \in I64
    BY <1>2, <2>1, <2>2, ColumnsAssumption DEF U64, I64
  <2>4. /\ Columns(r).count = r.count /\ Columns(r).recorded = r.recorded
        /\ Columns(r).clock = ClockColumns(r.clock)
    BY DEF Columns
  <2>5. ClockColumns(r.clock).age = r.clock.age
    BY DEF ClockColumns
  <2> QED BY <1>2, <2>3, <2>4, <2>5
<1> QED BY <1>4, <1>5 DEF r

(* whether it was built or read. *)
LEMMA FoundIsSized ==
  ASSUME NEW t \in WindowRow, Checks(t), Reconstruct(t) # None
  PROVE  Sized(Reconstruct(t))
<1> DEFINE raw == InIndexOrder(t.decodes)
           read == Reconstructed(raw)
           a == [slot |-> t.slot, captureUtc |-> t.captureUtc, count |-> t.count,
                 platform |-> StrToPlatform[t.platform], format |-> StrToFormat[t.format],
                 recorded |-> t.recorded, drift |-> t.drift,
                 clock |-> ReconstructClock(t.clock), decodes |-> read]
           r == Reconstruct(t)
<1>1. /\ Accepts(a) /\ r = [a EXCEPT !.decodes = Sorted(a.decodes)] /\ t.count >= 0
      /\ Sorted(read) = read
  BY DEF Reconstruct, New, ReadsDecodes
<1>2. r.decodes = read /\ r.count = t.count /\ Len(read) <= MaxDecodes
  <2> HIDE DEF r, read
  <2> QED BY <1>1 DEF Accepts
<1>3. r.count \in U64
  <2>1. t.count \in I64
    BY DEF WindowRow
  <2> HIDE DEF r
  <2> QED BY <1>1, <1>2, <2>1, ColumnsAssumption DEF I64, U64
<1>4. Len(read) \in Nat
  <2>1. Cardinality(t.decodes) \in Nat /\ DOMAIN raw = 1..Cardinality(t.decodes)
    BY ChecksIndex, IndexOrderEnumerates
  <2> DEFINE N == Cardinality(t.decodes)
             T == {read[i] : i \in 1..N}
  <2>2. DOMAIN read = 1..N /\ read = [i \in DOMAIN read |-> read[i]]
    BY <2>1 DEF Reconstructed
  <2> HIDE DEF read
  <2>3. read \in [1..N -> T]
    BY <2>2
  <2> HIDE DEF T
  <2>4. read \in Seq(T)
    BY <2>1, <2>3, SeqDef
  <2> QED BY <2>4, LenProperties
<1> HIDE DEF r, read
<1> QED BY <1>2, <1>3, <1>4, ColumnsAssumption DEF Sized, r

(* Every behaviour starts at a stage, with nothing read. *)
LEMMA ColumnsStart == ColumnsInit => ColumnsInv
<1> SUFFICES ASSUME ColumnsInit PROVE ColumnsInv
  OBVIOUS
<1>1. phase = "composed" => sent \in WaveformRequest
  BY ArgumentsAssumption DEF ColumnsInit
<1>2. phase = "heard" => buffer \in PcmBuffer
  BY ArgumentsAssumption DEF ColumnsInit
<1>3. phase = "given" => given \in ReceiveArguments
  BY ArgumentsAssumption DEF ColumnsInit
<1>4. phase = "found" => given = None /\ row \in WindowRow /\ Checks(row)
  BY RowsAssumption DEF ColumnsInit
<1>5. /\ loaded = None /\ published = None
      /\ phase \in {"composed", "heard", "given", "found"}
  BY DEF ColumnsInit
<1> QED BY <1>1, <1>2, <1>3, <1>4, <1>5 DEF ColumnsInv, RetryFindsItsRecord, AcceptedIsStorable,
      ReadIsFaithful

(* What Read and Retry find. *)
LEMMA LoadedIsRecord ==
  ASSUME ColumnsInv, phase \in {"stored", "found"}
  PROVE  /\ phase = "stored" =>
              /\ Reconstruct(row) = record /\ record # None /\ record = New(given)
              /\ Columns(record) = row /\ published = MapReceiveRecord(record)
         /\ phase = "found" =>
              given = None /\ (Reconstruct(row) # None => Columns(Reconstruct(row)) = row)
         /\ Reconstruct(row) # None => Sized(Reconstruct(row))
<1>1. CASE phase = "stored"
  <2>1. /\ given \in ReceiveArguments /\ New(given) # None /\ record = New(given)
        /\ row = Columns(record) /\ published = MapReceiveRecord(record)
    BY <1>1 DEF ColumnsInv
  <2>2. Reconstruct(Columns(New(given))) = New(given)
    BY <2>1, AcceptedIsStored
  <2>3. Sized(New(given))
    BY <2>1, BuiltIsSized
  <2> QED BY <1>1, <2>1, <2>2, <2>3
<1>2. CASE phase = "found"
  <2>1. given = None /\ Checks(row) /\ row \in WindowRow
    BY <1>2 DEF ColumnsInv
  <2>2. Whole(row)
    BY <2>1, FoundAreWhole
  <2> QED BY <1>2, <2>1, <2>2, RowReadsBack, FoundIsSized
<1> QED BY <1>1, <1>2

(* Every stage hands over what the next one takes. *)
LEMMA ColumnsStep == ColumnsInv /\ [ColumnsNext]_columnVars => ColumnsInv'
<1> SUFFICES ASSUME ColumnsInv, [ColumnsNext]_columnVars PROVE ColumnsInv'
  OBVIOUS
<1> USE DEF RetryFindsItsRecord, AcceptedIsStorable, ReadIsFaithful
<1>1. CASE Transmit
  <2>1. /\ sent \in WaveformRequest /\ buffer' \in Synthesize(sent) /\ loaded = None
        /\ phase' = IF buffer' = None THEN "unsendable" ELSE "heard"
        /\ UNCHANGED <<given, record, row, loaded, published>>
    BY <1>1 DEF ColumnsInv, Transmit, Ended
  <2>2. phase' = "heard" => buffer' \in PcmBuffer
    BY <2>1, SynthesizedIsHeard
  <2> QED BY <2>1, <2>2 DEF ColumnsInv, Ended
<1>2. CASE Decode
  <2>1. /\ buffer \in PcmBuffer /\ loaded = None
        /\ phase' = IF DecodeWindow(buffer) = None THEN "undecodable" ELSE "given"
        /\ phase' = "given" => given' = [Surroundings EXCEPT !.decodes = DecodeWindow(buffer)]
        /\ UNCHANGED <<record, row, loaded, published>>
    BY <1>2 DEF ColumnsInv, Decode, Ended
  <2>2. phase' = "given" => given' \in ReceiveArguments
    <3>1. Surroundings \in ReceiveArguments
      BY ArgumentsAssumption
    <3>2. phase' = "given" => DecodeWindow(buffer) \in Seq(Ft8Decode)
      BY <2>1, DecodedAreDecodes
    <3> QED BY <2>1, <3>1, <3>2 DEF ReceiveArguments
  <2> QED BY <2>1, <2>2 DEF ColumnsInv, Ended
<1>3. CASE DecodeRefused
  BY <1>3 DEF ColumnsInv, DecodeRefused, Ended
<1>4. CASE Construct
  <2>1. /\ given \in ReceiveArguments /\ loaded = None /\ record' = New(given)
        /\ phase' = IF New(given) = None THEN "invalid" ELSE "built"
        /\ UNCHANGED <<given, row, loaded, published>>
    BY <1>4 DEF ColumnsInv, Construct, Ended
  <2> QED BY <2>1 DEF ColumnsInv, Ended
<1>5. CASE Insert
  <2>1. /\ given \in ReceiveArguments /\ record = New(given) /\ New(given) # None /\ loaded = None
        /\ UNCHANGED <<given, record, loaded>>
    BY <1>5 DEF ColumnsInv, Insert, Ended
  <2>2. Checks(Columns(record)) /\ ValidSummary(MapReceiveRecord(record))
    BY <2>1, AcceptedIsStored
  <2>3. /\ phase' \in {"too_wide", "stored"}
        /\ phase' = "stored" => row' = Columns(record) /\ published' = MapReceiveRecord(record)
        /\ phase' # "stored" => published' = published
    BY <1>5, <2>2 DEF Insert
  <2> QED BY <2>1, <2>2, <2>3 DEF ColumnsInv, Ended
<1>6. CASE Read
  <2>1. /\ phase \in {"stored", "found"} /\ loaded' = Reconstruct(row)
        /\ phase' = IF loaded' = None THEN "unreadable" ELSE "read"
        /\ UNCHANGED <<given, record, row, published>>
    BY <1>6 DEF Read
  <2> QED BY <2>1, LoadedIsRecord DEF ColumnsInv, Ended
<1>7. CASE Retry
  <2>1. /\ phase = "stored" /\ loaded' = Reconstruct(row)
        /\ UNCHANGED <<given, record, row, published>>
    BY <1>7 DEF Retry
  <2>2. /\ Reconstruct(row) = record /\ record # None /\ record = New(given)
        /\ Columns(record) = row /\ published = MapReceiveRecord(record)
    BY <2>1, LoadedIsRecord
  <2>3. phase' = "existing"
    BY <1>7, <2>1, <2>2 DEF Retry
  <2> QED BY <2>1, <2>2, <2>3 DEF ColumnsInv, Ended
<1>8. CASE UNCHANGED columnVars
  BY <1>8 DEF ColumnsInv, columnVars
<1> QED BY <1>1, <1>2, <1>3, <1>4, <1>5, <1>6, <1>7, <1>8 DEF ColumnsNext

(* A record never holds more than MAX_STORED_DECODES_PER_WINDOW decodes,   *)
(* built or read back, and no INTEGER column more than an i64.             *)
THEOREM ColumnsTyped == ColumnsSpec => []ColumnsTypeOK
<1> DEFINE Phases == {"composed", "unsendable", "heard", "undecodable", "refused", "given", "built",
                      "invalid", "stored", "too_wide", "constraint", "found", "read", "unreadable",
                      "existing", "collision"}
           Narrow(t) == {t.count, t.recorded, t.clock.age} \subseteq I64
           Typed == /\ phase \in Phases
                    /\ record # None => Sized(record)
                    /\ loaded # None => Sized(loaded)
                    /\ row # None => Narrow(row)
<1>1. ColumnsTypeOK <=> Typed
  BY DEF ColumnsTypeOK, Sized
<1>2. ColumnsInit => Typed
  <2> SUFFICES ASSUME ColumnsInit PROVE Typed
    OBVIOUS
  <2>1. /\ phase \in {"composed", "heard", "given", "found"} /\ record = None /\ loaded = None
        /\ row # None => row \in WindowRow
    BY RowsAssumption DEF ColumnsInit
  <2>2. row # None => Narrow(row)
    BY <2>1 DEF WindowRow, ClockRow
  <2> HIDE DEF Narrow
  <2> QED BY <2>1, <2>2
<1>3. ColumnsInv /\ Typed /\ [ColumnsNext]_columnVars => Typed'
  <2> SUFFICES ASSUME ColumnsInv, Typed, [ColumnsNext]_columnVars PROVE Typed'
    OBVIOUS
  <2> HIDE DEF Narrow
  <2>1. CASE Transmit
    BY <2>1 DEF Transmit
  <2>2. CASE Decode
    BY <2>2 DEF Decode
  <2>3. CASE DecodeRefused
    BY <2>3 DEF DecodeRefused
  <2>4. CASE Construct
    <3>1. New(given) # None => Sized(New(given))
      BY <2>4, BuiltIsSized DEF ColumnsInv, Construct
    <3> QED BY <2>4, <3>1 DEF Construct
  <2>5. CASE Insert
    <3>1. Fits(record) => Narrow(Columns(record))
      BY <2>5, BuiltIsSized DEF ColumnsInv, Insert, Narrow
    <3> QED BY <2>5, <3>1 DEF Insert
  <2>6. CASE Read \/ Retry
    <3>1. Reconstruct(row) # None => Sized(Reconstruct(row))
      BY <2>6, LoadedIsRecord DEF Read, Retry
    <3> QED BY <2>6, <3>1 DEF Read, Retry
  <2>7. CASE UNCHANGED columnVars
    BY <2>7 DEF columnVars
  <2> QED BY <2>1, <2>2, <2>3, <2>4, <2>5, <2>6, <2>7 DEF ColumnsNext
<1> HIDE DEF Typed
<1> QED BY <1>1, <1>2, <1>3, ColumnsStart, ColumnsStep, PTL DEF ColumnsSpec

(* Whatever a vocabulary, a decoder and the tables hold: a record that was *)
(* stored reads back as itself, and a retry of the call that stored it     *)
(* neither collides nor fails (storage/src/receive.rs record_receive,      *)
(* reconstruct_receive).                                                   *)
THEOREM RetriesFindTheirRecord == ColumnsSpec => []RetryFindsItsRecord
<1>1. ColumnsInv => RetryFindsItsRecord
  BY DEF ColumnsInv
<1> QED BY <1>1, ColumnsStart, ColumnsStep, PTL DEF ColumnsSpec

(* What ReceiveRecord::new accepts never fails a CHECK of                  *)
(* migrations/0002_phase2_receive.sql, and its summary is within the       *)
(* bounds of the wire.                                                     *)
THEOREM AcceptedAreStorable == ColumnsSpec => []AcceptedIsStorable
<1>1. ColumnsInv => AcceptedIsStorable
  BY DEF ColumnsInv
<1> QED BY <1>1, ColumnsStart, ColumnsStep, PTL DEF ColumnsSpec

(* No row, whoever wrote it, is presented as a record that would be        *)
(* written otherwise (storage/src/receive.rs reconstruct_receive).         *)
THEOREM ReadsAreFaithful == ColumnsSpec => []ReadIsFaithful
<1>1. ColumnsInv => ReadIsFaithful
  BY DEF ColumnsInv
<1> QED BY <1>1, ColumnsStart, ColumnsStep, PTL DEF ColumnsSpec

-----------------------------------------------------------------------------
(* Places that are told apart cannot be put into fewer. *)
LEMMA NoneIsDropped ==
  ASSUME NEW n \in Nat, NEW m \in Nat, NEW f \in [1..n -> 1..m],
         \A i, j \in 1..n : f[i] = f[j] => i = j
  PROVE  n <= m
<1> SUFFICES ASSUME m < n PROVE FALSE
  OBVIOUS
<1>1. /\ IsFiniteSet(1..n) /\ Cardinality(1..n) = n
      /\ IsFiniteSet(1..m) /\ Cardinality(1..m) = m
  BY FS_Interval
<1>2. \E i, j \in 1..n : i # j /\ f[i] = f[j]
  BY <1>1, FS_PigeonHole
<1> QED BY <1>2

(* The decodes of a sequence are in the order of their keys. *)
Ascends(s) == \A i, j \in DOMAIN s : i < j => ~Precedes(KeyAt(s, j), KeyAt(s, i))

(* Sorting puts them in that order, and leaves them what they are. *)
LEMMA SortedAscends ==
  ASSUME NEW s \in Seq(Ft8Decode), Distinct(s)
  PROVE  Distinct(Sorted(s)) /\ Ascends(Sorted(s)) /\ ToSet(Sorted(s)) = ToSet(s)
<1>1. PICK order \in [DOMAIN s -> DOMAIN s] :
           /\ Sorted(s) = [n \in DOMAIN s |-> s[order[n]]]
           /\ \A i \in DOMAIN s : \E n \in DOMAIN s : order[n] = i
           /\ \A n, m \in DOMAIN s : n < m <=> Earlier(s, order[n], order[m])
  BY SortingOrder
<1> DEFINE t == Sorted(s)
<1>2. DOMAIN t = DOMAIN s /\ \A n \in DOMAIN s : t[n] = s[order[n]]
  BY <1>1
<1> HIDE DEF t
<1>3. DOMAIN s \subseteq Int
  BY SeqDomain
<1>4. Distinct(t)
  <2> SUFFICES ASSUME NEW n \in DOMAIN s, NEW m \in DOMAIN s, t[n] = t[m] PROVE n = m
    BY <1>2 DEF Distinct
  <2>1. order[n] = order[m]
    BY <1>2 DEF Distinct
  <2>2. ~(n < m) /\ ~(m < n)
    BY <1>1, <2>1, EarlierIsTotal
  <2> QED BY <1>3, <2>2
<1>5. Ascends(t)
  <2> SUFFICES ASSUME NEW n \in DOMAIN s, NEW m \in DOMAIN s, n < m,
                      Precedes(KeyAt(t, m), KeyAt(t, n))
               PROVE  FALSE
    BY <1>2 DEF Ascends
  <2>1. KeyAt(t, n) = KeyAt(s, order[n]) /\ KeyAt(t, m) = KeyAt(s, order[m])
    BY <1>2 DEF KeyAt
  <2>2. Earlier(s, order[n], order[m]) /\ Earlier(s, order[m], order[n])
    BY <1>1, <2>1 DEF Earlier
  <2> QED BY <2>2, EarlierIsTotal
<1>6. ToSet(t) = ToSet(s)
  BY <1>1, <1>2 DEF ToSet
<1> QED BY <1>4, <1>5, <1>6 DEF t

(* Two orders of the same decodes by key have the same keys: where the one *)
(* were behind the other, what the other has before would not all be there *)
(* in the one.                                                             *)
LEMMA KeysAreNotBehind ==
  ASSUME NEW t \in Seq(Ft8Decode), NEW u \in Seq(Ft8Decode), Distinct(t), Distinct(u),
         Ascends(t), Ascends(u), ToSet(t) = ToSet(u)
  PROVE  /\ Len(t) <= Len(u)
         /\ \A n \in DOMAIN t \cap DOMAIN u : ~Precedes(KeyAt(t, n), KeyAt(u, n))
<1>1. /\ DOMAIN t = 1..Len(t) /\ DOMAIN u = 1..Len(u) /\ Len(t) \in Nat /\ Len(u) \in Nat
  BY SeqDomain
<1> DEFINE f == [i \in DOMAIN t |-> CHOOSE k \in DOMAIN u : u[k] = t[i]]
<1>2. \A i \in DOMAIN t : f[i] \in DOMAIN u /\ u[f[i]] = t[i]
  BY DEF ToSet
<1>3. \A i, j \in DOMAIN t : f[i] = f[j] => i = j
  BY <1>2 DEF Distinct
<1>4. Len(t) <= Len(u)
  <2>1. f \in [1..Len(t) -> 1..Len(u)]
    BY <1>1, <1>2
  <2> HIDE DEF f
  <2> QED BY <1>1, <1>3, <2>1, NoneIsDropped
<1>5. ASSUME NEW n \in DOMAIN t \cap DOMAIN u, Precedes(KeyAt(t, n), KeyAt(u, n))
      PROVE  FALSE
  <2>1. ASSUME NEW i \in 1..n
        PROVE  i \in DOMAIN t /\ f[i] \in 1..n - 1
    <3>1. i \in DOMAIN t /\ n \in Int /\ i <= n /\ f[i] \in Nat \ {0}
      BY <1>1, <1>2
    <3>2. KeyAt(u, f[i]) = KeyAt(t, i)
      BY <1>2, <3>1 DEF KeyAt
    <3> DEFINE a == KeyAt(t, i)
               b == KeyAt(t, n)
               c == KeyAt(u, n)
    <3>3. a \in [1..4 -> Int] /\ b \in [1..4 -> Int] /\ c \in [1..4 -> Int]
      BY <3>1, KeysAreKeys
    <3>4. ~Precedes(b, a)
      <4>1. CASE i = n
        BY <3>3, <4>1, KeysAreOrdered
      <4>2. CASE i < n
        BY <3>1, <4>2 DEF Ascends
      <4> QED BY <3>1, <4>1, <4>2
    <3>5. Precedes(a, c)
      <4> HIDE DEF a, b, c
      <4>1. a = b \/ Precedes(a, b)
        BY <3>3, <3>4, KeysAreOrdered
      <4>2. Precedes(b, c)
        BY <1>5 DEF b, c
      <4> QED BY <3>3, <4>1, <4>2, KeysAreOrdered
    <3>6. ~Precedes(c, c)
      BY <3>3, KeysAreOrdered
    <3>7. ~(n < f[i]) /\ n # f[i]
      BY <1>2, <3>1, <3>2, <3>5, <3>6 DEF Ascends
    <3> QED BY <3>1, <3>7
  <2> DEFINE g == [i \in 1..n |-> f[i]]
  <2>2. g \in [1..n -> 1..n - 1]
    BY <2>1
  <2>3. \A i, j \in 1..n : g[i] = g[j] => i = j
    BY <1>3, <2>1
  <2>4. n \in Nat /\ n - 1 \in Nat
    BY <1>1
  <2> HIDE DEF f, g
  <2>5. n <= n - 1
    BY <2>2, <2>3, <2>4, NoneIsDropped
  <2> QED BY <2>4, <2>5
<1> QED BY <1>4, <1>5

(* So they have the same keys. *)
LEMMA KeysAgree ==
  ASSUME NEW t \in Seq(Ft8Decode), NEW u \in Seq(Ft8Decode), Distinct(t), Distinct(u),
         Ascends(t), Ascends(u), ToSet(t) = ToSet(u)
  PROVE  [i \in DOMAIN t |-> SortKey(t[i])] = [i \in DOMAIN u |-> SortKey(u[i])]
<1>1. DOMAIN t = 1..Len(t) /\ DOMAIN u = 1..Len(u) /\ Len(t) \in Nat /\ Len(u) \in Nat
  BY SeqDomain
<1>2. Len(t) <= Len(u) /\ Len(u) <= Len(t)
  BY KeysAreNotBehind
<1>3. DOMAIN t = DOMAIN u
  <2> DEFINE m == Len(t)
             n == Len(u)
  <2>1. m = n
    <3>1. m \in Nat /\ n \in Nat /\ m <= n /\ n <= m
      BY <1>1, <1>2
    <3> HIDE DEF m, n
    <3> QED BY <3>1
  <2> QED BY <1>1, <2>1
<1>4. ASSUME NEW n \in DOMAIN t
      PROVE  SortKey(t[n]) = SortKey(u[n])
  <2>1. ~Precedes(KeyAt(t, n), KeyAt(u, n)) /\ ~Precedes(KeyAt(u, n), KeyAt(t, n))
    BY <1>3, KeysAreNotBehind
  <2>2. KeyAt(t, n) \in [1..4 -> Int] /\ KeyAt(u, n) \in [1..4 -> Int]
    BY <1>3, KeysAreKeys
  <2>3. KeyAt(t, n) = KeyAt(u, n)
    BY <2>1, <2>2, KeysAreOrdered
  <2> QED BY <2>3 DEF KeyAt
<1> QED BY <1>3, <1>4

(* The same is heard in a window whose candidates come in another order. *)
LEMMA ReorderedIsHeard ==
  ASSUME NEW b \in PcmBuffer, NEW order \in Bijection(DOMAIN b.heard, DOMAIN b.heard)
  PROVE  LET c == Reordered(b, order)
         IN  /\ c \in PcmBuffer /\ c.frames = b.frames /\ DOMAIN c.heard = DOMAIN b.heard
             /\ ToSet(c.heard) = ToSet(b.heard)
<1> DEFINE Candidate == [offset : Int \union {None}, snr : Int \union {None}, bits : PackedFt8Bits]
           D == DOMAIN b.heard
           c == Reordered(b, order)
           heard == [i \in D |-> b.heard[order[i]]]
<1>1. /\ b \in [frames : Nat, heard : Seq(Candidate)] /\ b.heard \in Seq(Candidate)
      /\ Len(b.heard) \in Nat /\ D = 1..Len(b.heard)
      /\ \A i \in D : b.heard[i] \in Candidate
  <2>1. b \in [frames : Nat, heard : Seq(Candidate)]
    BY DEF PcmBuffer
  <2> HIDE DEF Candidate
  <2>2. b.heard \in Seq(Candidate)
    BY <2>1
  <2> QED BY <2>1, <2>2, SeqDomain
<1>2. order \in [D -> D] /\ \A i \in D : \E j \in D : order[j] = i
  BY DEF Bijection, Injection, Surjection
<1>3. c = [b EXCEPT !.heard = heard]
  BY DEF Reordered
<1> HIDE DEF Candidate, D, heard, c
<1>4. c.heard = heard /\ c.frames = b.frames /\ (heard \in Seq(Candidate) => c \in [frames : Nat, heard : Seq(Candidate)])
  BY <1>1, <1>3
<1>5. heard \in Seq(Candidate)
  <2>1. heard \in [1..Len(b.heard) -> Candidate]
    BY <1>1, <1>2 DEF heard
  <2> QED BY <1>1, <2>1, SeqDef
<1>6. ToSet(heard) = ToSet(b.heard) /\ DOMAIN heard = D
  BY <1>2 DEF ToSet, heard, D
<1> QED BY <1>4, <1>5, <1>6 DEF PcmBuffer, Candidate, c, D

(* The order decides neither whether a window decodes nor what into. *)
LEMMA OrderIsIrrelevant ==
  ASSUME NEW b \in PcmBuffer, NEW c \in PcmBuffer, c.frames = b.frames,
         DOMAIN c.heard = DOMAIN b.heard, ToSet(c.heard) = ToSet(b.heard)
  PROVE  LET t == DecodeWindow(b)
             u == DecodeWindow(c)
         IN  /\ t = None <=> u = None
             /\ t # None =>
                  /\ ToSet(u) = ToSet(t)
                  /\ [i \in DOMAIN u |-> SortKey(u[i])] = [i \in DOMAIN t |-> SortKey(t[i])]
<1> DEFINE t == DecodeWindow(b)
           u == DecodeWindow(c)
           Decodes(w) == \A i \in DOMAIN w.heard : Decodable(w.heard[i])
<1>1. Decodes(b) <=> Decodes(c)
  <2>1. \A w : Decodes(w) <=> \A x \in ToSet(w.heard) : Decodable(x)
    BY DEF ToSet
  <2> QED BY <2>1
<1>2. CASE b.frames # SlotSamples \/ ~Decodes(b)
  <2>1. t = None /\ u = None
    BY <1>1, <1>2 DEF DecodeWindow
  <2> QED BY <2>1
<1>3. CASE ~(b.frames # SlotSamples \/ ~Decodes(b))
  <2>1. /\ t = Sorted(Merged(Owned(b))) /\ u = Sorted(Merged(Owned(c)))
        /\ Owned(b) \in Seq(Ft8Decode) /\ Owned(c) \in Seq(Ft8Decode)
    BY <1>1, <1>3, OwnedAreDecodes DEF DecodeWindow, Owned
  <2>2. ToSet(Owned(b)) = ToSet(Owned(c))
    <3>1. /\ DOMAIN Owned(b) = DOMAIN b.heard /\ DOMAIN Owned(c) = DOMAIN b.heard
          /\ \A i \in DOMAIN b.heard :
               Owned(b)[i] = OwnedDecode(b.heard[i]) /\ Owned(c)[i] = OwnedDecode(c.heard[i])
      BY DEF Owned
    <3>2. /\ \A i \in DOMAIN b.heard : \E j \in DOMAIN b.heard : b.heard[i] = c.heard[j]
          /\ \A i \in DOMAIN b.heard : \E j \in DOMAIN b.heard : c.heard[i] = b.heard[j]
      BY DEF ToSet
    <3> QED BY <3>1, <3>2 DEF ToSet
  <2> HIDE DEF t, u
  <2>3. /\ Merged(Owned(b)) \in Seq(Ft8Decode) /\ Distinct(Merged(Owned(b)))
        /\ Merged(Owned(c)) \in Seq(Ft8Decode) /\ Distinct(Merged(Owned(c)))
        /\ ToSet(Merged(Owned(b))) = ToSet(Merged(Owned(c)))
    BY <2>1, <2>2, MergedIsTyped, MergedAreLoud
  <2>4. t \in Seq(Ft8Decode) /\ u \in Seq(Ft8Decode)
    BY <2>1, <2>3, SortedIsSorted
  <2>5. /\ Distinct(t) /\ Ascends(t) /\ Distinct(u) /\ Ascends(u)
        /\ ToSet(t) = ToSet(u)
    BY <2>1, <2>3, SortedAscends
  <2>6. t # None /\ u # None
    BY <2>4, ArgumentsAssumption
  <2> QED BY <2>4, <2>5, <2>6, KeysAgree DEF t, u
<1> QED BY <1>2, <1>3

(* What was decoded is the window that is still there; a window that did   *)
(* not decode would not.                                                   *)
HeardInv ==
  /\ phase = "composed" => buffer = None
  /\ phase \in {"composed", "heard"} => given = None
  /\ buffer # None /\ phase # "heard" =>
       /\ buffer \in PcmBuffer
       /\ phase = "undecodable" => DecodeWindow(buffer) = None
       /\ given # None => DecodeWindow(buffer) # None /\ given.decodes = DecodeWindow(buffer)

(* Only Decode looks at the window. *)
LEMMA HeardStep == ColumnsInv /\ HeardInv /\ [ColumnsNext]_columnVars => HeardInv'
<1> SUFFICES ASSUME ColumnsInv, HeardInv, [ColumnsNext]_columnVars PROVE HeardInv'
  OBVIOUS
<1>1. CASE Transmit
  BY <1>1 DEF HeardInv, Transmit
<1>2. CASE Decode
  <2>1. /\ buffer \in PcmBuffer /\ UNCHANGED buffer
        /\ phase' = IF DecodeWindow(buffer) = None THEN "undecodable" ELSE "given"
        /\ given' = IF phase' = "given" THEN [Surroundings EXCEPT !.decodes = DecodeWindow(buffer)]
                    ELSE None
    BY <1>2 DEF ColumnsInv, Decode
  <2>2. [Surroundings EXCEPT !.decodes = DecodeWindow(buffer)].decodes = DecodeWindow(buffer)
    BY ArgumentsAssumption DEF ReceiveArguments
  <2> QED BY <2>1, <2>2 DEF HeardInv
<1>3. CASE DecodeRefused
  BY <1>3 DEF HeardInv, DecodeRefused, ColumnsInv
<1>4. CASE Construct \/ Insert \/ Read \/ Retry
  <2>1. /\ UNCHANGED <<buffer, given>> /\ phase # "heard"
        /\ phase' \notin {"composed", "heard", "undecodable"}
    BY <1>4 DEF Construct, Insert, Read, Retry
  <2> QED BY <2>1 DEF HeardInv
<1>5. CASE UNCHANGED columnVars
  BY <1>5 DEF HeardInv, columnVars
<1> QED BY <1>1, <1>2, <1>3, <1>4, <1>5 DEF ColumnsNext

(* Whatever order the library reports its candidates in, the window fails  *)
(* or gives the same results with the same keys (offline_adapter.rs        *)
(* decode, sort_deterministically).                                        *)
THEOREM HeardInAnyOrder == ColumnsSpec => []HeardOrderKeepsResults
<1>1. ColumnsInit => HeardInv
  BY DEF ColumnsInit, HeardInv
<1>2. HeardInv => HeardOrderKeepsResults
  <2> SUFFICES ASSUME HeardInv, buffer # None, phase # "heard",
                      NEW order \in Bijection(DOMAIN buffer.heard, DOMAIN buffer.heard)
               PROVE  LET other == DecodeWindow(Reordered(buffer, order))
                          Keys(decodes) == [i \in DOMAIN decodes |-> SortKey(decodes[i])]
                      IN  /\ phase = "undecodable" => other = None
                          /\ given # None =>
                               /\ other # None
                               /\ ToSet(other) = ToSet(given.decodes)
                               /\ Keys(other) = Keys(given.decodes)
    BY DEF HeardOrderKeepsResults, Reordered
  <2> DEFINE c == Reordered(buffer, order)
  <2>1. /\ buffer \in PcmBuffer
        /\ phase = "undecodable" => DecodeWindow(buffer) = None
        /\ given # None => DecodeWindow(buffer) # None /\ given.decodes = DecodeWindow(buffer)
    BY DEF HeardInv
  <2>2. /\ c \in PcmBuffer /\ c.frames = buffer.frames /\ DOMAIN c.heard = DOMAIN buffer.heard
        /\ ToSet(c.heard) = ToSet(buffer.heard)
    BY <2>1, ReorderedIsHeard
  <2> HIDE DEF c
  <2>3. /\ DecodeWindow(buffer) = None <=> DecodeWindow(c) = None
        /\ DecodeWindow(buffer) # None =>
             /\ ToSet(DecodeWindow(c)) = ToSet(DecodeWindow(buffer))
             /\ [i \in DOMAIN DecodeWindow(c) |-> SortKey(DecodeWindow(c)[i])]
                  = [i \in DOMAIN DecodeWindow(buffer) |-> SortKey(DecodeWindow(buffer)[i])]
    BY <2>1, <2>2, OrderIsIrrelevant
  <2> QED BY <2>1, <2>3 DEF c
<1> QED BY <1>1, <1>2, ColumnsStart, ColumnsStep, HeardStep, PTL DEF ColumnsSpec

-----------------------------------------------------------------------------
(* A short report gets its zero back whatever the calls before it. *)
LEMMA NormalizedAlike ==
  ASSUME NEW p \in Seq(PayloadWord)
  PROVE  \E q \in Seq(PayloadWord) :
           /\ p = <<>> => q = <<>>
           /\ \A a, b \in Word : NormalizeStandardReport(<<a, b>> \o p) = <<a, b>> \o q
<1> DEFINE Short == {code \in DOMAIN ReportForms : Len(p) >= 1 /\ p[1] = ReportForms[code].short}
           RogerShort ==
             {code \in DOMAIN ReportForms : Len(p) >= 1 /\ p[1] = ReportForms[code].rogerShort}
           s == CHOOSE c \in Short : TRUE
           r == CHOOSE c \in RogerShort : TRUE
           q == CASE Short # {} -> <<ReportForms[s].long>>
                  [] Short = {} /\ RogerShort # {} -> <<ReportForms[r].rogerLong>>
                  [] OTHER -> p
<1>1. p \in Seq(Word) /\ Len(p) \in Nat
  <2>1. \A i \in 1..Len(p) : p[i] \in Word
    BY PayloadWordsAreWords, SeqDomain
  <2>2. Len(p) \in Nat /\ p \in [1..Len(p) -> Word]
    BY <2>1, SeqDomain
  <2> QED BY <2>2, SeqDef
<1>2. \A c \in DOMAIN ReportForms :
        /\ ReportForms[c].long \in PayloadWord /\ ReportForms[c].rogerLong \in PayloadWord
        /\ ReportForms[c].long \in Word /\ ReportForms[c].rogerLong \in Word
  BY PayloadWordsAreWords DEF PayloadWord
<1>3. ASSUME NEW a \in Word, NEW b \in Word
      PROVE  NormalizeStandardReport(<<a, b>> \o p) = <<a, b>> \o q
  <2> DEFINE t == <<a, b>> \o p
  <2>1. Len(t) = Len(p) + 2 /\ t[1] = a /\ t[2] = b /\ (Len(p) >= 1 => t[3] = p[1])
    <3>1. /\ Len(t) = Len(p) + 2 /\ t[1] = a /\ t[2] = b
          /\ \A n \in 1..Len(p) : t[n + 2] = p[n]
      BY <1>1, CallsAndPayload
    <3>2. Len(p) >= 1 => 1 \in 1..Len(p) /\ 1 + 2 = 3
      BY <1>1
    <3> QED BY <3>1, <3>2
  <2> HIDE DEF t
  <2>2. /\ Short = {code \in DOMAIN ReportForms : Len(t) >= 3 /\ t[3] = ReportForms[code].short}
        /\ RogerShort =
             {code \in DOMAIN ReportForms : Len(t) >= 3 /\ t[3] = ReportForms[code].rogerShort}
    BY <1>1, <2>1
  <2>3. NormalizeStandardReport(t) =
          CASE Short # {} -> <<t[1], t[2], ReportForms[s].long>>
            [] RogerShort # {} -> <<t[1], t[2], ReportForms[r].rogerLong>>
            [] OTHER -> t
    <3> DEFINE S == {code \in DOMAIN ReportForms : Len(t) >= 3 /\ t[3] = ReportForms[code].short}
               R == {code \in DOMAIN ReportForms :
                       Len(t) >= 3 /\ t[3] = ReportForms[code].rogerShort}
    <3>1. NormalizeStandardReport(t) =
            CASE S # {} -> <<t[1], t[2], ReportForms[CHOOSE c \in S : TRUE].long>>
              [] R # {} -> <<t[1], t[2], ReportForms[CHOOSE c \in R : TRUE].rogerLong>>
              [] OTHER -> t
      BY DEF NormalizeStandardReport
    <3> HIDE DEF S, R, Short, RogerShort
    <3>2. S = Short /\ R = RogerShort
      BY <2>2 DEF S, R
    <3> QED BY <3>1, <3>2
  <2> HIDE DEF Short, RogerShort, s, r
  <2>4. ASSUME NEW x \in Word
        PROVE  <<a, b>> \o <<x>> = <<a, b, x>>
    <3> DEFINE l == <<a, b>> \o <<x>>
               m == <<a, b, x>>
    <3>1. <<x>> \in Seq(Word) /\ Len(<<x>>) = 1 /\ <<x>>[1] = x
      OBVIOUS
    <3>2. /\ l \in Seq(Word) /\ Len(l) = 3 /\ l[1] = a /\ l[2] = b /\ l[3] = x
      <4>1. /\ l \in Seq(Word) /\ Len(l) = Len(<<x>>) + 2 /\ l[1] = a /\ l[2] = b
            /\ \A n \in 1..Len(<<x>>) : l[n + 2] = <<x>>[n]
        BY <3>1, CallsAndPayload
      <4> HIDE DEF l
      <4>2. 1 \in 1..Len(<<x>>) /\ 1 + 2 = 3 /\ Len(<<x>>) + 2 = 3
        BY <3>1
      <4> QED BY <3>1, <4>1, <4>2
    <3>3. m \in Seq(Word) /\ Len(m) = 3 /\ m[1] = a /\ m[2] = b /\ m[3] = x
      OBVIOUS
    <3> HIDE DEF l, m
    <3>4. \A n \in 1..3 : l[n] = m[n]
      BY <3>2, <3>3
    <3>5. l = m
      BY <3>2, <3>3, <3>4, SeqEqual
    <3> QED BY <3>5 DEF l, m
  <2>5. Short # {} => s \in DOMAIN ReportForms
    BY DEF s, Short
  <2>6. RogerShort # {} => r \in DOMAIN ReportForms
    BY DEF r, RogerShort
  <2>7. CASE Short # {}
    <3>1. q = <<ReportForms[s].long>> /\ ReportForms[s].long \in Word
      BY <1>2, <2>5, <2>7
    <3>2. RogerShort = {}
      BY <2>7, RogerIsApart DEF Short, RogerShort
    <3>3. NormalizeStandardReport(t) = <<a, b, ReportForms[s].long>>
      BY <2>1, <2>3, <2>7, <3>2
    <3> QED BY <2>4, <3>1, <3>3 DEF t
  <2>8. CASE Short = {} /\ RogerShort # {}
    <3>1. q = <<ReportForms[r].rogerLong>> /\ ReportForms[r].rogerLong \in Word
      BY <1>2, <2>6, <2>8
    <3>2. NormalizeStandardReport(t) = <<a, b, ReportForms[r].rogerLong>>
      BY <2>1, <2>3, <2>8
    <3> QED BY <2>4, <3>1, <3>2 DEF t
  <2>9. CASE Short = {} /\ RogerShort = {}
    BY <2>3, <2>9 DEF t
  <2> QED BY <2>7, <2>8, <2>9 DEF t
<1>4. q \in Seq(PayloadWord)
  <2>1. \A x \in PayloadWord : <<x>> \in Seq(PayloadWord)
    OBVIOUS
  <2>2. (Short # {} => s \in DOMAIN ReportForms) /\ (RogerShort # {} => r \in DOMAIN ReportForms)
    OBVIOUS
  <2> HIDE DEF Short, RogerShort, s, r
  <2> QED BY <1>2, <2>1, <2>2
<1>5. p = <<>> => q = <<>>
  <2> SUFFICES ASSUME p = <<>> PROVE q = <<>>
    OBVIOUS
  <2>1. ~(Len(p) >= 1)
    BY EmptySeq
  <2>2. Short = {} /\ RogerShort = {}
    BY <2>1
  <2> HIDE DEF Short, RogerShort, s, r
  <2> QED BY <2>2
<1> HIDE DEF q
<1> QED BY <1>3, <1>4, <1>5

(* The hashes among words. *)
Hashes(words) == {call \in Callsigns : Bracket[call] \in ToSet(words)}

(* A word that names a call, sent with the table of its own identities,    *)
(* is shown to another station as itself or as an unknown hash.            *)
LEMMA CallIsShown ==
  ASSUME NEW field \in CallField, field.call # None, NEW own, NEW table,
         Shown(field, own) = "CQ" \/ Unbracketed(Shown(field, own)) \in Callsigns
  PROVE  /\ Shown(field, own) # Unresolved
         /\ IF \A call \in Callsigns : Bracket[call] = Shown(field, own) => call \in table
            THEN Shown(field, table) = Shown(field, own)
            ELSE Shown(field, table) = Unresolved
<1> DEFINE w == Shown(field, own)
           bracketed == {Bracket[call] : call \in Callsigns} \union {Unresolved}
<1>1. /\ \A call \in Callsigns : Bracket[call] # Unresolved
      /\ \A call, other \in Callsigns : Bracket[call] = Bracket[other] => call = other
      /\ bracketed \intersect (Callsigns \union Standard \union {"DE"}) = {}
  BY VocabularyAssumption
<1>2. "CQ" \in Standard
  BY CodecAssumption
<1>3. /\ Unresolved \in bracketed /\ \A call \in Callsigns : Bracket[call] \in bracketed
  OBVIOUS
<1> HIDE DEF bracketed
<1>4. CASE ~field.hashed
  <2>1. field.call \in Standard \union Callsigns \union {"DE"}
    BY <1>4 DEF CallField
  <2>2. w = field.call /\ Shown(field, table) = field.call
    BY <1>4 DEF Shown
  <2>3. \A call \in Callsigns : Bracket[call] # field.call
    BY <1>1, <1>3, <2>1
  <2>4. field.call # Unresolved
    BY <1>1, <1>3, <2>1
  <2> QED BY <2>2, <2>3, <2>4
<1>5. CASE field.hashed
  <2>1. field.call \in Callsigns
    BY <1>5 DEF CallField
  <2>2. Unbracketed(Unresolved) = Unresolved /\ Unresolved \notin Callsigns /\ Unresolved # "CQ"
    BY <1>1, <1>2, <1>3 DEF Unbracketed
  <2>3. field.call \in own /\ w = Bracket[field.call]
    BY <1>5, <2>2 DEF Shown
  <2>4. Shown(field, table) = IF field.call \in table THEN Bracket[field.call] ELSE Unresolved
    BY <1>5 DEF Shown
  <2>5. \A call \in Callsigns : Bracket[call] = w => call = field.call
    BY <1>1, <2>1, <2>3
  <2> HIDE DEF w
  <2>6. w # Unresolved
    BY <1>1, <2>1, <2>3
  <2> QED BY <2>1, <2>3, <2>4, <2>5, <2>6 DEF w
<1> QED BY <1>4, <1>5

(* So a message is shown as itself, if its hashes are known; otherwise     *)
(* with an unknown hash.                                                   *)
LEMMA TextIsShown ==
  ASSUME NEW bits \in PackedFt8Bits, bits.i3 \in {1, 2, 4}, NEW own, NEW words,
         Unpack77(bits, own) # None, NormalizeStandardReport(Unpack77(bits, own)) = words,
         words[1] = "CQ" \/ Unbracketed(words[1]) \in Callsigns, Unbracketed(words[2]) \in Callsigns
  PROVE  LET heard == NormalizeStandardReport(Unpack77(bits, Known))
         IN  /\ Unpack77(bits, Known) # None
             /\ UnpackPayload(bits) = <<>> => Len(words) = 2
             /\ Hashes(words) \subseteq Known => heard = words /\ Unresolved \notin ToSet(words)
             /\ ~(Hashes(words) \subseteq Known) => Unresolved \in ToSet(heard)
<1> DEFINE c == bits.calls[1]
           d == bits.calls[2]
           p == UnpackPayload(bits)
<1>1. /\ None \notin {c.call, d.call}
      /\ Unpack77(bits, own) = <<Shown(c, own), Shown(d, own)>> \o p
      /\ Unpack77(bits, Known) = <<Shown(c, Known), Shown(d, Known)>> \o p
  BY UnpackedAreShown
<1>2. c \in CallField /\ d \in CallField
  <2>1. bits.calls \in CallField \X CallField
    BY DEF PackedFt8Bits
  <2> QED BY <2>1
<1>3. p \in Seq(PayloadWord)
  BY PayloadsAreWords
<1> DEFINE a == Shown(c, own)
           b == Shown(d, own)
           x == Shown(c, Known)
           y == Shown(d, Known)
<1>4. a \in Word /\ b \in Word /\ x \in Word /\ y \in Word
  BY <1>1, <1>2, ShownIsWord
<1> HIDE DEF c, d, p
<1>5. PICK q \in Seq(PayloadWord) :
           /\ p = <<>> => q = <<>>
           /\ \A u, v \in Word : NormalizeStandardReport(<<u, v>> \o p) = <<u, v>> \o q
  BY <1>3, NormalizedAlike
<1>6. /\ words = <<a, b>> \o q /\ NormalizeStandardReport(Unpack77(bits, Known)) = <<x, y>> \o q
  BY <1>1, <1>4, <1>5
<1>7. q \in Seq(Word) /\ p \in Seq(Word)
  <2>1. \A z \in Seq(PayloadWord) : z \in Seq(Word)
    BY PayloadWordsAreWords
  <2> QED BY <1>3, <2>1
<1> HIDE DEF a, b, x, y
<1>8. /\ words \in Seq(Word) /\ Len(words) = Len(q) + 2 /\ DOMAIN words = 1..Len(q) + 2
      /\ words[1] = a /\ words[2] = b /\ \A n \in 1..Len(q) : words[n + 2] = q[n]
  BY <1>4, <1>6, <1>7, CallsAndPayload
<1>9. LET heard == NormalizeStandardReport(Unpack77(bits, Known))
      IN  DOMAIN heard = 1..Len(q) + 2 /\ heard[1] = x /\ heard[2] = y
  BY <1>4, <1>6, <1>7, CallsAndPayload
<1>10. Len(q) \in Nat /\ \A n \in 1..Len(q) : q[n] \in PayloadWord
  BY SeqDomain
<1>11. ToSet(words) \subseteq {a, b} \union PayloadWord /\ {a, b} \subseteq ToSet(words)
  <2>1. ASSUME NEW n \in 1..Len(q) + 2
        PROVE  words[n] \in {a, b} \union PayloadWord
    <3>1. n \in {1, 2} \/ (n - 2 \in 1..Len(q) /\ n - 2 + 2 = n)
      BY <1>10
    <3> QED BY <1>8, <1>10, <3>1
  <2>2. {1, 2} \subseteq DOMAIN words
    BY <1>8, <1>10
  <2> QED BY <1>8, <2>1, <2>2 DEF ToSet
<1>12. Hashes(words) = {call \in Callsigns : Bracket[call] \in {a, b}}
  BY <1>11, PayloadWordsAreWords DEF Hashes
<1>13. /\ a # Unresolved
       /\ IF \A call \in Callsigns : Bracket[call] = a => call \in Known THEN x = a ELSE x = Unresolved
  BY <1>1, <1>2, <1>8, CallIsShown DEF a, x
<1>14. /\ b # Unresolved
       /\ IF \A call \in Callsigns : Bracket[call] = b => call \in Known THEN y = b ELSE y = Unresolved
  BY <1>1, <1>2, <1>8, CallIsShown DEF b, y
<1>15. Unpack77(bits, Known) # None
  <2>1. <<x, y>> \o p \in Seq(Word)
    BY <1>4, <1>7, CallsAndPayload
  <2> QED BY <1>1, <2>1, CodecAssumption DEF x, y
<1>16. p = <<>> => Len(words) = 2
  <2>1. p = <<>> => q = <<>> /\ Len(q) = 0
    BY <1>5, EmptySeq
  <2> QED BY <1>8, <2>1
<1>17. ASSUME Hashes(words) \subseteq Known
       PROVE  NormalizeStandardReport(Unpack77(bits, Known)) = words /\ Unresolved \notin ToSet(words)
  <2>1. x = a /\ y = b
    BY <1>12, <1>13, <1>14, <1>17
  <2> QED BY <1>6, <1>11, <1>13, <1>14, <2>1, PayloadWordsAreWords
<1>18. ASSUME ~(Hashes(words) \subseteq Known)
       PROVE  Unresolved \in ToSet(NormalizeStandardReport(Unpack77(bits, Known)))
  <2>1. x = Unresolved \/ y = Unresolved
    BY <1>12, <1>13, <1>14, <1>18
  <2>2. 1 \in 1..Len(q) + 2 /\ 2 \in 1..Len(q) + 2
    BY <1>10
  <2> QED BY <1>9, <2>1, <2>2 DEF ToSet
<1> QED BY <1>15, <1>16, <1>17, <1>18 DEF p

(* What pack77 can write. *)
LEMMA Pack77Cases ==
  ASSUME NEW first, NEW second, NEW payload, NEW bits \in Pack77(first, second, payload),
         bits # None
  PROVE  \/ \E p \in Payload(payload) :
              bits.i3 = 1 /\ bits.roger = p[1] /\ bits.code = p[2]
         \/ bits.i3 = 4 /\ ~bits.cq /\ bits.code = Ending(payload)
<1> DEFINE no == FALSE
           A == {Type1(<<f, s>>, p[1], p[2]) :
                   f \in Fields(first), s \in Fields(second), p \in Payload(payload)}
           B == {Type4(<<f, s>>, no, Ending(payload)) : f \in Fields(first), s \in Fields(second)}
<1>1. bits \in A \/ bits \in B
  <2>1. Pack77(first, second, payload) =
          A \union (IF {first, second} \subseteq Standard THEN {} ELSE {None} \union B)
    BY DEF Pack77
  <2> HIDE DEF A, B
  <2> QED BY <2>1
<1>2. CASE bits \in A
  <2>1. PICK f \in Fields(first), s \in Fields(second), p \in Payload(payload) :
             bits = Type1(<<f, s>>, p[1], p[2])
    BY <1>2
  <2>2. bits.i3 = 1 /\ bits.roger = p[1] /\ bits.code = p[2]
    BY <2>1 DEF Type1
  <2> QED BY <2>2
<1>3. CASE bits \in B
  <2>1. PICK f \in Fields(first), s \in Fields(second) : bits = Type4(<<f, s>>, no, Ending(payload))
    <3> HIDE DEF no
    <3> QED BY <1>3
  <2>2. bits.i3 = 4 /\ ~bits.cq /\ bits.code = Ending(payload)
    BY <2>1 DEF Type4
  <2> QED BY <2>2
<1> HIDE DEF A, B
<1> QED BY <1>1, <1>2, <1>3

(* The payload code of a class tells the class, though RR73 is a grid as   *)
(* well as an ending: the library knows the endings first.                 *)
LEMMA PayloadTellsClass ==
  ASSUME NEW class \in DOMAIN ClassToStr, class # "DirectedGrid", NEW payload,
         PayloadMatches(class, payload), NEW p \in Payload(payload), NEW bits,
         bits.i3 = 1, bits.roger = p[1], bits.code = p[2]
  PROVE  DirectedClassFromBits(bits) = class
<1>1. MaxGrid \in Nat /\ \A c \in DOMAIN ReportForms : c \in Nat /\ c >= 5
  BY CodecAssumption
<1>2. CASE class \in {"Roger", "EndingRr73", "Ending73"}
  <2>1. Ending(payload) = CASE class = "Roger" -> 1 [] class = "EndingRr73" -> 2 [] OTHER -> 3
    BY <1>2 DEF PayloadMatches, Ending
  <2>2. Ending(payload) \in 1..3
    BY <1>2, <2>1
  <2>3. p = <<FALSE, MaxGrid + 1 + Ending(payload)>>
    <3>1. Ending(payload) # 0
      BY <2>2
    <3> QED BY <3>1 DEF Payload
  <2>4. ~bits.roger /\ bits.code = MaxGrid + 1 + Ending(payload)
    BY <2>3
  <2>5. bits.code > MaxGrid /\ bits.code - MaxGrid = 1 + Ending(payload)
    BY <1>1, <2>2, <2>4
  <2>6. class = CASE Ending(payload) = 1 -> "Roger" [] Ending(payload) = 2 -> "EndingRr73"
                  [] OTHER -> "Ending73"
    BY <1>2, <2>1
  <2> QED BY <1>1, <2>2, <2>4, <2>5, <2>6 DEF DirectedClassFromBits
<1>3. CASE class \in {"SignalReport", "RogerSignalReport"}
  <2>1. \E c \in DOMAIN ReportForms :
          IF class = "SignalReport" THEN payload = ReportForms[c].long
          ELSE payload = ReportForms[c].rogerLong
    BY <1>3 DEF PayloadMatches, IsReport, IsRogerReport
  <2>2. Ending(payload) = 0 /\ ~IsGrid(payload)
    BY <2>1, ReportsAreApart DEF Ending, IsGrid
  <2>3. \/ \E c \in DOMAIN ReportForms : payload = ReportForms[c].long /\ p = <<FALSE, MaxGrid + c>>
        \/ \E c \in DOMAIN ReportForms : payload = ReportForms[c].rogerLong /\ p = <<TRUE, MaxGrid + c>>
    BY <2>2 DEF Payload
  <2>4. CASE \E c \in DOMAIN ReportForms : payload = ReportForms[c].long /\ p = <<FALSE, MaxGrid + c>>
    <3>1. PICK c \in DOMAIN ReportForms : payload = ReportForms[c].long /\ p = <<FALSE, MaxGrid + c>>
      BY <2>4
    <3>2. class = "SignalReport"
      BY <1>3, <2>1, <3>1, RogerIsApart
    <3>3. ~bits.roger /\ bits.code = MaxGrid + c
      BY <3>1
    <3>4. bits.code > MaxGrid /\ bits.code - MaxGrid >= 5
      BY <1>1, <3>3
    <3> QED BY <1>1, <3>2, <3>3, <3>4 DEF DirectedClassFromBits
  <2>5. CASE \E c \in DOMAIN ReportForms : payload = ReportForms[c].rogerLong /\ p = <<TRUE, MaxGrid + c>>
    <3>1. PICK c \in DOMAIN ReportForms :
               payload = ReportForms[c].rogerLong /\ p = <<TRUE, MaxGrid + c>>
      BY <2>5
    <3>2. class = "RogerSignalReport"
      BY <1>3, <2>1, <3>1, RogerIsApart
    <3>3. bits.roger /\ bits.code = MaxGrid + c
      BY <3>1
    <3>4. bits.code > MaxGrid /\ bits.code - MaxGrid >= 5
      BY <1>1, <3>3
    <3> QED BY <1>1, <3>2, <3>3, <3>4 DEF DirectedClassFromBits
  <2> QED BY <2>3, <2>4, <2>5
<1>4. class \in {"Roger", "EndingRr73", "Ending73", "SignalReport", "RogerSignalReport"}
  BY DEF PayloadMatches
<1> QED BY <1>2, <1>3, <1>4

(* What is packed is a general call, or directed and of the class its bits *)
(* tell, unless the library left the payload out.                          *)
LEMMA PackedTellsClass ==
  ASSUME NEW m \in OwnedMessage, NEW bits \in Packed(m), bits # None
  PROVE  /\ bits.i3 \in {1, 2, 4}
         /\ \/ /\ m.class = "GeneralCall" /\ m.words[1] = "CQ"
               /\ Len(m.words) = 2 \/ (Len(m.words) = 3 /\ IsGrid(m.words[3]))
               /\ Unbracketed(m.words[2]) = m.sender
            \/ /\ m.class # "GeneralCall" /\ Len(m.words) = 3
               /\ Unbracketed(m.words[1]) = m.sender /\ Unbracketed(m.words[2]) = m.recipient
               /\ DirectedClassFromBits(bits) = m.class \/ UnpackPayload(bits) = <<>>
<1> DEFINE words == m.words
           general == m.class = "GeneralCall" /\ Len(words) \in 2..3 /\ words[1] = "CQ"
                        /\ Unbracketed(words[2]) = m.sender
           directed == m.class # "GeneralCall" /\ Len(words) = 3 /\ Unbracketed(words[1]) = m.sender
                        /\ Unbracketed(words[2]) = m.recipient /\ PayloadMatches(m.class, words[3])
<1>1. Packed(m) =
        CASE general /\ Len(words) = 2 /\ Base[m.sender] # m.sender -> Pack77Type4(words[2])
          [] general /\ Len(words) = 3 /\ IsGrid(words[3]) -> Pack77("CQ", words[2], words[3])
          [] directed /\ m.class = "DirectedGrid" -> Pack77Type1(words[1], words[2], words[3])
          [] directed /\ m.class # "DirectedGrid" -> Pack77(words[1], words[2], words[3])
          [] OTHER -> {None}
  BY DEF Packed
<1>2. m.class \in DOMAIN ClassToStr /\ MaxGrid \in Nat
  BY CodecAssumption DEF OwnedMessage
<1>3. ASSUME general, Len(words) = 2, bits \in Pack77Type4(words[2])
      PROVE  bits.i3 = 4
  BY <1>3 DEF Pack77Type4, Type4
<1>4. ASSUME NEW first, bits \in Pack77(first, words[2], words[3])
      PROVE  bits.i3 \in {1, 4}
  BY <1>4, Pack77Cases
<1>5. ASSUME directed, m.class = "DirectedGrid", bits \in Pack77Type1(words[1], words[2], words[3])
      PROVE  bits.i3 = 1 /\ DirectedClassFromBits(bits) = m.class
  <2>1. bits.i3 = 1 /\ bits.code = GridIndex[words[3]]
    BY <1>5 DEF Pack77Type1, Type1
  <2>2. GridIndex[words[3]] \in 1..MaxGrid
    BY <1>5, CodecAssumption DEF PayloadMatches, IsGrid
  <2>3. bits.code <= MaxGrid
    BY <1>2, <2>1, <2>2
  <2>4. ~(bits.code > MaxGrid) /\ bits.i3 # 4
    BY <1>2, <2>1, <2>2
  <2> QED BY <1>5, <2>1, <2>3, <2>4 DEF DirectedClassFromBits
<1>6. ASSUME directed, m.class # "DirectedGrid", bits \in Pack77(words[1], words[2], words[3])
      PROVE  DirectedClassFromBits(bits) = m.class \/ UnpackPayload(bits) = <<>>
  <2>1. CASE bits.i3 = 4 /\ ~bits.cq /\ bits.code = Ending(words[3])
    <3>0. bits.code = 0 => UnpackPayload(bits) = <<>>
      BY <2>1 DEF UnpackPayload
    <3> SUFFICES ASSUME bits.code # 0 PROVE DirectedClassFromBits(bits) = m.class
      BY <3>0
    <3>2. \/ m.class = "Roger" /\ words[3] = "RRR"
          \/ m.class = "EndingRr73" /\ words[3] = "RR73"
          \/ m.class = "Ending73" /\ words[3] = "73"
      <4>1. words[3] \in {"RRR", "RR73", "73"}
        BY <2>1 DEF Ending
      <4>2. ~IsReport(words[3]) /\ ~IsRogerReport(words[3])
        BY <4>1, ReportsAreApart DEF IsReport, IsRogerReport
      <4> QED BY <1>6, <4>2 DEF PayloadMatches
    <3>3. \/ m.class = "Roger" /\ bits.code = 1
          \/ m.class = "EndingRr73" /\ bits.code = 2
          \/ m.class = "Ending73" /\ bits.code = 3
      BY <2>1, <3>2 DEF Ending
    <3> QED BY <2>1, <3>3 DEF DirectedClassFromBits
  <2>2. CASE \E p \in Payload(words[3]) : bits.i3 = 1 /\ bits.roger = p[1] /\ bits.code = p[2]
    BY <1>2, <1>6, <2>2, PayloadTellsClass
  <2> QED BY <1>6, <2>1, <2>2, Pack77Cases
<1> HIDE DEF general, directed
<1>7. CASE general
  <2>1. ~directed
    BY <1>7 DEF general, directed
  <2>2. bits.i3 \in {1, 4} /\ (Len(words) = 2 \/ (Len(words) = 3 /\ IsGrid(words[3])))
    BY <1>1, <1>3, <1>4, <1>7, <2>1
  <2> QED BY <1>7, <2>2 DEF general
<1>8. CASE directed
  <2>1. ~general
    BY <1>8 DEF general, directed
  <2>2. /\ bits.i3 \in {1, 4}
        /\ DirectedClassFromBits(bits) = m.class \/ UnpackPayload(bits) = <<>>
    BY <1>1, <1>4, <1>5, <1>6, <1>8, <2>1
  <2> QED BY <1>8, <2>2 DEF directed
<1> QED BY <1>1, <1>7, <1>8

(* What the decoder makes of a message: the message, or, where one of its  *)
(* hashes is unknown, no message at all.                                   *)
IsReadAs(m, heard) ==
  /\ Hashes(m.words) \subseteq Known =>
       heard = [kind |-> "resolved", text |-> TextId(m.words), class |-> m.class,
                sender |-> m.sender, recipient |-> m.recipient, detail |-> None]
  /\ ~(Hashes(m.words) \subseteq Known) => heard.kind = "unresolved_hash"

LEMMA SupportedIsRead ==
  ASSUME NEW m \in OwnedMessage, NEW class,
         \/ /\ m.class = "GeneralCall" /\ m.words[1] = "CQ"
            /\ Len(m.words) = 2 \/ (Len(m.words) = 3 /\ IsGrid(m.words[3]))
            /\ Unbracketed(m.words[2]) = m.sender
         \/ /\ m.class # "GeneralCall" /\ Len(m.words) = 3
            /\ Unbracketed(m.words[1]) = m.sender /\ Unbracketed(m.words[2]) = m.recipient
            /\ class = m.class
  PROVE  ClassifySupported(m.words, class) =
           [kind |-> "resolved", text |-> TextId(m.words), class |-> m.class,
            sender |-> m.sender, recipient |-> m.recipient, detail |-> None]
<1> DEFINE words == m.words
           general == words[1] = "CQ" /\ (Len(words) = 2 \/ (Len(words) = 3 /\ IsGrid(words[3])))
           chosen == IF class # None THEN class ELSE ClassifyPayload(words[3])
           read == [kind |-> "resolved", text |-> TextId(words), class |-> m.class,
                    sender |-> m.sender, recipient |-> m.recipient, detail |-> None]
<1>1. /\ m.sender \in Callsigns /\ m.recipient \in Callsigns \union {None}
      /\ m.class \in DOMAIN ClassToStr /\ (m.class # "GeneralCall") = (m.recipient # None)
  BY DEF OwnedMessage
<1>2. /\ None \notin DOMAIN ClassToStr /\ None \notin Callsigns
      /\ \A call \in Callsigns : Bracket[call] # None
  <2>1. \A call \in Callsigns : Bracket[call] \in Word
    BY CodecAssumption
  <2> QED BY <2>1, NoneIsNothing, WordsAreTexts
<1>3. ClassifySupported(words, class) =
        CASE general -> Resolved(words, words[2], None, "GeneralCall")
          [] ~general /\ Len(words) = 3 ->
               IF chosen # None THEN Resolved(words, words[1], words[2], chosen)
               ELSE Outcome("unsupported", words)
          [] OTHER -> Outcome("unsupported", words)
  BY DEF ClassifySupported
<1>4. CASE m.class = "GeneralCall"
  <2>1. general /\ Unbracketed(words[2]) = m.sender /\ m.recipient = None
    BY <1>1, <1>4
  <2>2. Unbracketed(None) = None
    BY <1>2 DEF Unbracketed
  <2>3. Resolved(words, words[2], None, "GeneralCall") = read
    BY <1>1, <1>2, <1>4, <2>1, <2>2 DEF Resolved
  <2> HIDE DEF general
  <2> QED BY <1>3, <2>1, <2>3
<1>5. CASE m.class # "GeneralCall"
  <2>1. /\ Len(words) = 3 /\ chosen = m.class /\ chosen # None
        /\ Unbracketed(words[1]) = m.sender /\ Unbracketed(words[2]) = m.recipient
        /\ m.recipient \in Callsigns
    BY <1>1, <1>2, <1>5
  <2>2. words[1] # "CQ"
    <3>1. "CQ" \notin Callsigns /\ "CQ" \in Standard
      BY VocabularyAssumption, CodecAssumption
    <3>2. \A call \in Callsigns : Bracket[call] # "CQ"
      BY <3>1, VocabularyAssumption
    <3>3. Unbracketed("CQ") = "CQ"
      BY <3>2 DEF Unbracketed
    <3> QED BY <1>1, <2>1, <3>1, <3>3
  <2>3. ~general
    BY <2>2
  <2> HIDE DEF general, chosen
  <2>4. Resolved(words, words[1], words[2], chosen) = read
    BY <1>1, <2>1 DEF Resolved
  <2> QED BY <1>3, <2>1, <2>3, <2>4
<1> QED BY <1>4, <1>5

(* The round trip of encode: the bits read back as the very text, so any   *)
(* station reads the message, or sees that a hash is unknown.              *)
LEMMA EncodedIsRead ==
  ASSUME NEW request \in WaveformRequest, NEW bits \in Encode(request.message), bits # None
  PROVE  /\ bits \in PackedFt8Bits /\ ClassifyBits(bits) # None
         /\ IsReadAs(request.message, ClassifyBits(bits))
<1> DEFINE m == request.message
           own == {m.sender, m.recipient} \ {None}
           heard == NormalizeStandardReport(Unpack77(bits, Known))
<1>1. /\ bits \in Packed(m) /\ Unpack77(bits, own) # None
      /\ NormalizeStandardReport(Unpack77(bits, own)) = m.words
  BY DEF Encode
<1>2. bits \in PackedFt8Bits /\ m \in OwnedMessage
  BY <1>1, PackedIsPacked DEF WaveformRequest
<1>3. /\ m.sender \in Callsigns /\ m.recipient \in Callsigns \union {None}
      /\ m.class # "GeneralCall" => m.recipient \in Callsigns
  BY <1>2 DEF OwnedMessage
<1> HIDE DEF m, own
<1>4. /\ bits.i3 \in {1, 2, 4}
      /\ \/ /\ m.class = "GeneralCall" /\ m.words[1] = "CQ"
            /\ Len(m.words) = 2 \/ (Len(m.words) = 3 /\ IsGrid(m.words[3]))
            /\ Unbracketed(m.words[2]) = m.sender
         \/ /\ m.class # "GeneralCall" /\ Len(m.words) = 3
            /\ Unbracketed(m.words[1]) = m.sender /\ Unbracketed(m.words[2]) = m.recipient
            /\ DirectedClassFromBits(bits) = m.class \/ UnpackPayload(bits) = <<>>
  BY <1>1, <1>2, PackedTellsClass
<1>5. /\ Unpack77(bits, Known) # None
      /\ UnpackPayload(bits) = <<>> => Len(m.words) = 2
      /\ Hashes(m.words) \subseteq Known => heard = m.words /\ Unresolved \notin ToSet(m.words)
      /\ ~(Hashes(m.words) \subseteq Known) => Unresolved \in ToSet(heard)
  BY <1>1, <1>2, <1>3, <1>4, TextIsShown
<1>6. ClassifyBits(bits) =
        IF Unresolved \in ToSet(heard) THEN Outcome("unresolved_hash", heard)
        ELSE ClassifySupported(heard, DirectedClassFromBits(bits))
  <2>1. bits.i3 # 0
    BY <1>4
  <2> QED BY <1>4, <1>5, <2>1 DEF ClassifyBits
<1>7. heard \in Phrase
  <2>1. Unpack77(bits, Known) \in Phrase
    BY <1>2, <1>5, UnpackedAreWords
  <2> QED BY <2>1, NormalizedAreWords
<1> HIDE DEF heard
<1>8. CASE Hashes(m.words) \subseteq Known
  <2>1. ClassifyBits(bits) = ClassifySupported(m.words, DirectedClassFromBits(bits))
    BY <1>5, <1>6, <1>8
  <2>2. ClassifyBits(bits) =
          [kind |-> "resolved", text |-> TextId(m.words), class |-> m.class,
           sender |-> m.sender, recipient |-> m.recipient, detail |-> None]
    BY <1>2, <1>4, <1>5, <2>1, SupportedIsRead
  <2>3. ClassifyBits(bits) \in Ft8Message
    BY <1>2, <1>5, <1>7, <1>8, <2>1, SupportedAreMessages
  <2>4. ClassifyBits(bits) # None
    BY <2>3, ArgumentsAssumption
  <2> QED BY <1>2, <1>8, <2>2, <2>4 DEF IsReadAs, m
<1>9. CASE ~(Hashes(m.words) \subseteq Known)
  <2>1. ClassifyBits(bits) = Outcome("unresolved_hash", heard)
    BY <1>5, <1>6, <1>9
  <2>2. ClassifyBits(bits) \in Ft8Message
    BY <1>7, <2>1, OutcomesAreMessages
  <2>3. ClassifyBits(bits) # None
    BY <2>2, ArgumentsAssumption
  <2>4. ClassifyBits(bits).kind = "unresolved_hash"
    BY <2>1 DEF Outcome
  <2> QED BY <1>2, <1>9, <2>3, <2>4 DEF IsReadAs, m
<1> QED BY <1>8, <1>9

(* A window in which one thing is heard has one result.                    *)
LEMMA HeardAlone ==
  ASSUME NEW b \in PcmBuffer, NEW c, b.heard = <<c>>, Decodable(c), b.frames = SlotSamples
  PROVE  /\ DecodeWindow(b) # None /\ Len(DecodeWindow(b)) = 1
         /\ DecodeWindow(b)[1] = OwnedDecode(c)
<1> DEFINE o == Owned(b)
           t == Merged(o)
<1>1. DOMAIN b.heard = {1} /\ b.heard[1] = c
  OBVIOUS
<1>2. DecodeWindow(b) = Sorted(t) /\ o \in Seq(Ft8Decode)
  <2>1. \A i \in DOMAIN b.heard : Decodable(b.heard[i])
    BY <1>1
  <2> QED BY <2>1, OwnedAreDecodes DEF DecodeWindow, Owned
<1>3. DOMAIN o = {1} /\ o[1] = OwnedDecode(c)
  BY <1>1 DEF Owned
<1> HIDE DEF o
<1>4. ToSet(o) = {OwnedDecode(c)}
  BY <1>3 DEF ToSet
<1>5. OwnedDecode(c) \in Ft8Decode
  <2>1. \A i \in DOMAIN o : o[i] \in Ft8Decode
    BY <1>2, SeqDomain
  <2> QED BY <1>3, <2>1
<1>6. Loud(ToSet(o)) = {OwnedDecode(c)}
  <2>1. OwnedDecode(c).snr \in Int
    BY <1>5 DEF Ft8Decode
  <2> QED BY <1>4, <2>1 DEF Loud
<1>7. /\ t \in Seq(Ft8Decode) /\ Distinct(t) /\ ToSet(t) = {OwnedDecode(c)}
  BY <1>2, <1>6, MergedIsTyped, MergedAreLoud
<1> HIDE DEF t
<1>8. Len(t) = 1 /\ DOMAIN t = {1} /\ t[1] = OwnedDecode(c)
  <2>1. Len(t) \in Nat /\ DOMAIN t = 1..Len(t) /\ \A i \in DOMAIN t : t[i] = OwnedDecode(c)
    BY <1>7, SeqDomain DEF ToSet
  <2>2. \E i \in DOMAIN t : TRUE
    BY <1>7 DEF ToSet
  <2>3. \A i, j \in DOMAIN t : i = j
    BY <1>7, <2>1 DEF Distinct
  <2>4. Len(t) = 1
    <3>1. Len(t) >= 1
      BY <2>1, <2>2
    <3>2. Len(t) >= 2 => 1 \in DOMAIN t /\ 2 \in DOMAIN t
      BY <2>1
    <3> QED BY <2>1, <2>3, <3>1, <3>2
  <2> QED BY <2>1, <2>4
<1>9. /\ Sorted(t) \in Seq(Ft8Decode) /\ Len(Sorted(t)) = 1
      /\ Sorted(t)[1] = OwnedDecode(c)
  <2>1. /\ Sorted(t) \in Seq(Ft8Decode) /\ Len(Sorted(t)) = Len(t)
        /\ \A n \in DOMAIN Sorted(t) : \E i \in DOMAIN t : Sorted(t)[n] = t[i]
    BY <1>7, SortedIsSorted
  <2>2. 1 \in DOMAIN Sorted(t)
    BY <1>8, <2>1, SeqDomain
  <2> QED BY <1>8, <2>1, <2>2
<1> QED BY <1>2, <1>9, ArgumentsAssumption

-----------------------------------------------------------------------------
(* What is sent is heard alone, where it was put: the decoder agrees if    *)
(* the window is a slot, and makes a decode within the bounds of it.       *)
LEMMA SynthesizedIsRead ==
  ASSUME NEW request \in WaveformRequest, NEW b \in Synthesize(request), b # None
  PROVE  /\ b \in PcmBuffer
         /\ request.start # None => b.frames = SlotSamples
         /\ b.frames = SlotSamples =>
              /\ DecodeWindow(b) # None /\ Len(DecodeWindow(b)) = 1
              /\ IsReadAs(request.message, DecodeWindow(b)[1].message)
              /\ request.start # None => ValidDecodeMetadata(DecodeWindow(b)[1])
<1> DEFINE Heard(frames, start, bits) ==
             [frames |-> frames, heard |-> <<[offset |-> 2 * start, snr |-> 0, bits |-> bits]>>]
           start == IF request.start = None THEN 0 ELSE request.start
<1>1. PICK bits \in Encode(request.message) :
           /\ bits # None
           /\ \/ request.start = None /\ b = Heard(FrameSamples, 0, bits)
              \/ /\ request.start # None /\ request.start + FrameSamples <= SlotSamples
                 /\ b = Heard(SlotSamples, request.start, bits)
  BY DEF Synthesize
<1>2. /\ bits \in PackedFt8Bits /\ ClassifyBits(bits) # None
      /\ IsReadAs(request.message, ClassifyBits(bits))
  BY <1>1, EncodedIsRead
<1>3. b \in PcmBuffer
  BY SynthesizedIsHeard
<1>4. start \in Nat /\ SnrCalibration \in Int /\ FrameSamples \in Nat /\ SlotSamples \in Nat
  BY CodecAssumption DEF WaveformRequest
<1> DEFINE c == [offset |-> 2 * start, snr |-> 0, bits |-> bits]
<1>5. b.heard = <<c>> /\ (request.start # None => b.frames = SlotSamples)
  BY <1>1
<1>6. Decodable(c)
  <2>1. 2 * start # None /\ 0 # None
    BY <1>4, NoneIsNothing
  <2> QED BY <1>2, <2>1 DEF Decodable
<1>7. /\ OwnedDecode(c).offset = Rounded(2 * start) /\ OwnedDecode(c).snr = Rounded(SnrCalibration)
      /\ OwnedDecode(c).message = ClassifyBits(bits)
  BY <1>4 DEF OwnedDecode
<1>8. request.start # None => ValidDecodeMetadata(OwnedDecode(c))
  <2> SUFFICES ASSUME request.start # None PROVE ValidDecodeMetadata(OwnedDecode(c))
    OBVIOUS
  <2>1. start + FrameSamples <= SlotSamples
    BY <1>1
  <2>2. MaxOffset \in Nat /\ MaxSnr \in Nat
    BY ColumnsAssumption
  <2>3. start \in -MaxOffset..MaxOffset
    BY <1>4, <2>1, <2>2, SurroundingsAssumption
  <2> HIDE DEF start
  <2>4. Rounded(2 * start) = start
    BY <1>4 DEF Rounded
  <2> HIDE DEF c
  <2> QED BY <1>7, <2>3, <2>4, SurroundingsAssumption DEF ValidDecodeMetadata
<1> HIDE DEF c, Heard, start
<1>9. b.frames = SlotSamples =>
        /\ DecodeWindow(b) # None /\ Len(DecodeWindow(b)) = 1
        /\ DecodeWindow(b)[1] = OwnedDecode(c)
  BY <1>3, <1>5, <1>6, HeardAlone
<1> QED BY <1>2, <1>3, <1>5, <1>7, <1>8, <1>9

(* Nothing is lost between the message and the record: the window holds    *)
(* what was synthesized, what is given is what was decoded there, and what *)
(* is read is what was built of it.                                        *)
SentInv ==
  sent # None =>
    /\ phase # "found" /\ sent \in WaveformRequest
    /\ phase \notin {"composed", "unsendable"} => buffer # None /\ buffer \in Synthesize(sent)
    /\ phase \in {"given", "built", "stored", "invalid"} => given # None
    /\ loaded # None => given # None
    /\ phase = "invalid" => New(given) = None
    /\ given # None =>
         /\ phase \notin {"composed", "unsendable"}
         /\ given = [Surroundings EXCEPT !.decodes = DecodeWindow(buffer)]
    /\ loaded # None => loaded = New(given)

LEMMA SentStep ==
  ColumnsInv /\ HeardInv /\ SentInv /\ [ColumnsNext]_columnVars => SentInv'
<1> SUFFICES ASSUME ColumnsInv, HeardInv, SentInv, [ColumnsNext]_columnVars PROVE SentInv'
  OBVIOUS
<1>1. CASE Transmit
  <2>1. /\ given = None /\ loaded = None
    BY <1>1 DEF Transmit, HeardInv, ColumnsInv, Ended
  <2> QED BY <1>1, <2>1 DEF SentInv, Transmit
<1>2. CASE Decode
  <2>1. loaded = None
    BY <1>2 DEF Decode, ColumnsInv, Ended
  <2>2. given' # None => phase' = "given"
    BY <1>2 DEF Decode
  <2>3. DecodeWindow(buffer) # None => [Surroundings EXCEPT !.decodes = DecodeWindow(buffer)] # None
    <3>1. DecodeWindow(buffer) # None => DecodeWindow(buffer) \in Seq(Ft8Decode)
      BY <1>2, DecodedAreDecodes DEF ColumnsInv, Decode
    <3>2. DecodeWindow(buffer) # None =>
            [Surroundings EXCEPT !.decodes = DecodeWindow(buffer)] \in ReceiveArguments
      BY <3>1, ArgumentsAssumption DEF ReceiveArguments
    <3> QED BY <3>2, ArgumentsAssumption
  <2> QED BY <1>2, <2>1, <2>2, <2>3 DEF SentInv, Decode
<1>3. CASE DecodeRefused
  <2>1. given = None /\ loaded = None
    BY <1>3 DEF DecodeRefused, HeardInv, ColumnsInv, Ended
  <2> QED BY <1>3, <2>1 DEF SentInv, DecodeRefused
<1>4. CASE Construct
  <2>1. loaded = None
    BY <1>4 DEF Construct, ColumnsInv, Ended
  <2> QED BY <1>4, <2>1 DEF SentInv, Construct
<1>5. CASE Insert
  <2>1. loaded = None
    BY <1>5 DEF Insert, ColumnsInv, Ended
  <2>2. phase' \in {"too_wide", "stored", "constraint"}
    BY <1>5 DEF Insert
  <2> QED BY <1>5, <2>1, <2>2 DEF SentInv, Insert
<1>6. CASE Read \/ Retry
  <2>1. /\ phase \in {"stored", "found"} /\ loaded' = Reconstruct(row)
        /\ UNCHANGED <<sent, buffer, given, record>> /\ phase' \in Ended
    BY <1>6 DEF Read, Retry, Ended
  <2>2. phase = "stored" => Reconstruct(row) = New(given)
    BY <2>1, LoadedIsRecord
  <2> QED BY <2>1, <2>2 DEF SentInv, Ended
<1>7. CASE UNCHANGED columnVars
  BY <1>7 DEF SentInv, columnVars
<1> QED BY <1>1, <1>2, <1>3, <1>4, <1>5, <1>6, <1>7 DEF ColumnsNext

(* What the codec agrees to encode is what the other end reads from its    *)
(* history, and in a slot it always gets there (offline_adapter.rs         *)
(* encode_owned, synthesize, classify_bits, decode).                       *)
THEOREM SentIsRead == ColumnsSpec => []SentIsHeard
<1>1. ColumnsInit => SentInv /\ HeardInv
  <2> SUFFICES ASSUME ColumnsInit PROVE SentInv /\ HeardInv
    OBVIOUS
  <2>1. HeardInv
    BY DEF ColumnsInit, HeardInv
  <2>2. sent # None => phase = "composed" /\ sent \in WaveformRequest /\ given = None /\ loaded = None
    BY ArgumentsAssumption DEF ColumnsInit
  <2> QED BY <2>1, <2>2 DEF SentInv
<1>2. HeardInv /\ SentInv => SentIsHeard
  <2> SUFFICES ASSUME HeardInv, SentInv, sent # None PROVE SentIsHeard
    BY DEF SentIsHeard
  <2> DEFINE decodes == DecodeWindow(buffer)
  <2>1. ASSUME phase \notin {"composed", "unsendable"}
        PROVE  /\ buffer \in PcmBuffer
               /\ sent.start # None => buffer.frames = SlotSamples
               /\ buffer.frames = SlotSamples =>
                    /\ decodes # None /\ Len(decodes) = 1
                    /\ IsReadAs(sent.message, decodes[1].message)
                    /\ sent.start # None => ValidDecodeMetadata(decodes[1])
    BY <2>1, SynthesizedIsRead DEF SentInv
  <2>2. ASSUME given # None
        PROVE  /\ phase \notin {"composed", "unsendable"} /\ buffer.frames = SlotSamples
               /\ decodes \in Seq(Ft8Decode) /\ Sorted(decodes) = decodes
               /\ given = [Surroundings EXCEPT !.decodes = decodes] /\ given.decodes = decodes
               /\ Accepts(given) => New(given) = given
    <3>1. /\ phase \notin {"composed", "unsendable"} /\ buffer # None
          /\ given = [Surroundings EXCEPT !.decodes = decodes]
      BY <2>2 DEF SentInv
    <3>2. phase # "heard" /\ decodes # None
      BY <2>2, <3>1 DEF HeardInv
    <3>3. buffer.frames = SlotSamples
      BY <3>2 DEF DecodeWindow
    <3>4. /\ Surroundings \in ReceiveArguments /\ decodes \in Seq(Ft8Decode)
      BY <2>1, <3>1, <3>2, DecodedAreDecodes, ArgumentsAssumption
    <3>5. Sorted(decodes) = decodes
      <4>1. buffer \in PcmBuffer
        BY <2>1, <3>1
      <4>2. decodes = Sorted(Merged(Owned(buffer))) /\ Owned(buffer) \in Seq(Ft8Decode)
        BY <3>2, <4>1, OwnedAreDecodes DEF DecodeWindow, Owned
      <4>3. Merged(Owned(buffer)) \in Seq(Ft8Decode)
        BY <4>2, MergedIsTyped
      <4> QED BY <4>2, <4>3, SortedIsSorted
    <3> HIDE DEF decodes
    <3>6. given.decodes = decodes
      BY <3>1, <3>4 DEF ReceiveArguments
    <3>7. [given EXCEPT !.decodes = decodes] = given
      BY <3>1, <3>4 DEF ReceiveArguments
    <3> QED BY <3>1, <3>3, <3>4, <3>5, <3>6, <3>7 DEF New
  <2> HIDE DEF decodes
  <2>3. ASSUME sent.start # None
        PROVE  phase \notin {"undecodable", "invalid"}
    <3>1. CASE phase = "undecodable"
      <4>1. decodes # None /\ buffer # None
        BY <2>1, <2>3, <3>1 DEF SentInv
      <4> QED BY <3>1, <4>1 DEF HeardInv, decodes
    <3>2. CASE phase = "invalid"
      <4>1. given # None /\ New(given) = None
        BY <3>2 DEF SentInv
      <4>2. /\ decodes \in Seq(Ft8Decode) /\ Len(decodes) = 1 /\ ValidDecodeMetadata(decodes[1])
            /\ given = [Surroundings EXCEPT !.decodes = decodes] /\ given.decodes = decodes
            /\ Accepts(given) => New(given) = given
        BY <2>1, <2>2, <2>3, <4>1
      <4>3. Accepts(given)
        <5> DEFINE empty == [Surroundings EXCEPT !.decodes = <<>>]
        <5>1. Accepts(empty) /\ Surroundings.clock.fault = None /\ 1 <= MaxDecodes
          BY SurroundingsAssumption, ColumnsAssumption
        <5>2. /\ given.captureUtc = empty.captureUtc /\ given.slot = empty.slot
              /\ given.recorded = empty.recorded /\ given.drift = empty.drift
              /\ given.clock = empty.clock /\ given.clock = Surroundings.clock
          BY <4>2, ArgumentsAssumption DEF ReceiveArguments
        <5>3. DOMAIN decodes = {1}
          BY <4>2, SeqDomain
        <5> HIDE DEF empty
        <5> QED BY <4>2, <5>1, <5>2, <5>3 DEF Accepts
      <4>4. given \in ReceiveArguments
        BY <4>2, ArgumentsAssumption DEF ReceiveArguments
      <4> QED BY <4>1, <4>2, <4>3, <4>4, ArgumentsAssumption
    <3> QED BY <3>1, <3>2
  <2>4. ASSUME loaded # None
        PROVE  Len(loaded.decodes) = 1 /\ IsReadAs(sent.message, loaded.decodes[1].message)
    <3>1. given # None /\ loaded = New(given)
      BY <2>4 DEF SentInv
    <3>2. loaded.decodes = decodes
      <4>1. Accepts(given)
        BY <2>4, <3>1 DEF New
      <4> QED BY <2>2, <3>1, <4>1
    <3> QED BY <2>1, <2>2, <3>1, <3>2
  <2> QED BY <2>3, <2>4 DEF SentIsHeard, IsReadAs, Hashes
<1> QED BY <1>1, <1>2, ColumnsStart, ColumnsStep, HeardStep, SentStep, PTL DEF ColumnsSpec
=============================================================================
