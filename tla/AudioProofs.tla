----------------------------- MODULE AudioProofs -----------------------------
(***************************************************************************)
(* The safety properties of the two signal paths of crates/audio.  First   *)
(* Spectrum: RowsAreWhole, ResetIsMarked and PushIsBounded for every       *)
(* configuration SpectrumConfig::new accepts and any number of             *)
(* generations, slots and rows.  The samples pending are always one run    *)
(* that ends where the next chunk must begin, so a row is a part of one    *)
(* slot, and what is left of a slot when its last chunk has been pushed is *)
(* too short for another row.  Then ReceiveTimeline: WindowsAreWhole,      *)
(* SlotsAreAccounted and SlotsIncrease, for every rate, batch size, delay, *)
(* jitter and fault that TimelineAssumption allows.  The slot in progress  *)
(* always holds the samples of its ticks since the anchor, and a new       *)
(* anchor is later than the newest slot published.                         *)
(***************************************************************************)
EXTENDS Spectrum, ReceiveTimeline, SequenceTheorems, TLAPS

-----------------------------------------------------------------------------
(* The spectrum. *)

Samples == [gen : 1..MaxGen, slot : Nat, offset : Nat]

(* n consecutive samples. *)
Run(gen, slot, start, n) == [k \in 1..n |-> Sample(gen, slot, start + k - 1)]

Cursor == [gen : 1..MaxGen, slot : Nat, next : 0..SlotSamples]
Row ==
  [seq : Nat, gen : 1..MaxGen, slot : Nat, start : Nat, reason : Reason \union {"None"},
   samples : Seq(Samples)]

Types ==
  /\ chunk \in Chunk \union {NoChunk} /\ cursor \in Cursor \union {NoCursor}
  /\ pendingStart \in Nat /\ nextSeq \in Nat /\ produced \in Nat
  /\ rows \in Seq(Row) /\ Len(rows) <= WaterfallRows
  /\ reason \in Reason \union {"None"}
  /\ mark \in [seq : Int, reason : Reason \union {"None"}]

(* Where the samples taken so far end: after the chunk of this push, or    *)
(* where the push before left the cursor.                                  *)
Place ==
  IF chunk = NoChunk THEN cursor
  ELSE [gen |-> chunk.gen, slot |-> chunk.slot, next |-> chunk.start + chunk.count]

(* What is pending leads up to it. *)
Held ==
  /\ Place = NoCursor => pending = <<>>
  /\ Place # NoCursor =>
       /\ pendingStart <= Place.next
       /\ pending = Run(Place.gen, Place.slot, pendingStart, Place.next - pendingStart)

(* Each row a push produces takes a hop from the samples it began with. *)
Short ==
  /\ chunk = NoChunk => Len(pending) < FftSize
  /\ chunk # NoChunk => Len(pending) + produced * Hop < FftSize + MaxChunk

Whole(row) ==
  /\ row.samples = Run(row.gen, row.slot, row.start, FftSize)
  /\ row.start + FftSize <= SlotSamples

(* A row at this place continues the row prev. *)
Follows(slot, start, prev) ==
  \/ slot = prev.slot /\ start = prev.start + Hop
  \/ slot = prev.slot + 1 /\ start = 0 /\ prev.start + Hop + FftSize > SlotSamples

Continues(row, prev) ==
  row.seq = prev.seq + 1 /\ row.gen = prev.gen /\ Follows(row.slot, row.start, prev)

Waterfall ==
  /\ \A i \in 1..Len(rows) : Whole(rows[i])
  /\ \A i \in 2..Len(rows) : Continues(rows[i], rows[i - 1])

(* The next row will continue the last. *)
Linked ==
  rows # <<>> =>
    /\ Place # NoCursor /\ nextSeq = rows[Len(rows)].seq + 1 /\ Place.gen = rows[Len(rows)].gen
    /\ Follows(Place.slot, pendingStart, rows[Len(rows)])

(* The reason pending belongs to the next row. *)
Marks ==
  /\ mark.seq <= nextSeq
  /\ reason = IF nextSeq = mark.seq THEN mark.reason ELSE "None"
  /\ \A i \in 1..Len(rows) :
       rows[i].reason = IF rows[i].seq = mark.seq THEN mark.reason ELSE "None"

SpectrumInv == Types /\ Held /\ Short /\ Waterfall /\ Linked /\ Marks

-----------------------------------------------------------------------------
(* Facts about runs, sequences and the row bound. *)

LEMMA RunIsSeq ==
  ASSUME NEW gen \in 1..MaxGen, NEW slot \in Nat, NEW start \in Nat, NEW n \in Nat
  PROVE  Run(gen, slot, start, n) \in Seq(Samples) /\ Len(Run(gen, slot, start, n)) = n
<1>1. \A k \in 1..n : Sample(gen, slot, start + k - 1) \in Samples
  BY SpectrumAssumption DEF Sample, Samples
<1>2. Run(gen, slot, start, n) \in [1..n -> Samples]
  BY <1>1 DEF Run
<1> HIDE DEF Run
<1> QED BY <1>2, IsASeq, LenProperties

(* A row joins the retained ones, which lose their oldest at capacity. *)
LEMMA RowJoins ==
  ASSUME Types, NEW row \in Row
  PROVE  LET new == Append(Evict, row)
         IN  /\ new \in Seq(Row) /\ Len(new) \in 1..WaterfallRows /\ new[Len(new)] = row
             /\ \E d \in {0, 1} : /\ Len(new) - 1 + d = Len(rows)
                                  /\ \A i \in 1..Len(new) - 1 : new[i] = rows[i + d]
<1>1. /\ rows \in Seq(Row) /\ Len(rows) \in Nat /\ Len(rows) <= WaterfallRows
      /\ WaterfallRows \in Nat /\ WaterfallRows >= 1
  BY SpectrumAssumption, LenProperties DEF Types
<1>2. PICK d \in {0, 1} : /\ Evict \in Seq(Row) /\ Len(Evict) + d = Len(rows)
                          /\ Len(Evict) < WaterfallRows
                          /\ \A i \in 1..Len(Evict) : Evict[i] = rows[i + d]
  <2>1. CASE Len(rows) = WaterfallRows
    <3>1. Evict = Tail(rows) /\ rows # <<>>
      BY <1>1, <2>1 DEF Evict
    <3>2. /\ Tail(rows) \in Seq(Row) /\ Len(Tail(rows)) = Len(rows) - 1
          /\ \A i \in 1..Len(Tail(rows)) : Tail(rows)[i] = rows[i + 1]
      BY <1>1, <3>1, HeadTailProperties
    <3> QED BY <1>1, <2>1, <3>1, <3>2
  <2>2. CASE Len(rows) # WaterfallRows
    BY <1>1, <2>2 DEF Evict
  <2> QED BY <2>1, <2>2
<1>3. /\ Append(Evict, row) \in Seq(Row) /\ Len(Append(Evict, row)) = Len(Evict) + 1
      /\ \A i \in 1..Len(Evict) : Append(Evict, row)[i] = Evict[i]
      /\ Append(Evict, row)[Len(Evict) + 1] = row
  BY <1>2, AppendProperties
<1>4. Len(Evict) \in Nat
  BY <1>2, LenProperties
<1> DEFINE new == Append(Evict, row)
<1>5. /\ new \in Seq(Row) /\ Len(new) = Len(Evict) + 1 /\ new[Len(Evict) + 1] = row
      /\ \A i \in 1..Len(Evict) : new[i] = Evict[i]
  BY <1>3
<1> HIDE DEF new
<1>6. Len(new) - 1 + d = Len(rows) /\ \A i \in 1..Len(new) - 1 : new[i] = rows[i + d]
  BY <1>2, <1>4, <1>5
<1>7. Len(new) \in 1..WaterfallRows /\ new[Len(new)] = row
  BY <1>1, <1>2, <1>4, <1>5
<1>8. \E e \in {0, 1} : /\ Len(new) - 1 + e = Len(rows)
                        /\ \A i \in 1..Len(new) - 1 : new[i] = rows[i + e]
  BY <1>6
<1> QED BY <1>5, <1>7, <1>8 DEF new

(* produced hops leave room for another row of this push. *)
LEMMA HopsFit ==
  ASSUME NEW n \in Nat, n * Hop < MaxChunk
  PROVE  n < MaxRowsPerPush
<1> DEFINE q == (MaxChunk + Hop - 1) \div Hop
<1>1. /\ Hop \in Nat \ {0} /\ MaxChunk \in Nat \ {0} /\ MaxRowsPerPush \in Nat
      /\ MaxChunk + Hop - 1 \in Nat /\ q <= MaxRowsPerPush
  BY SpectrumAssumption
<1>2. q \in Nat /\ Hop * q + Hop > MaxChunk + Hop - 1
  BY <1>1
<1> HIDE DEF q
<1>3. ASSUME n >= q PROVE FALSE
  <2>1. Hop * n >= Hop * q
    BY <1>1, <1>2, <1>3
  <2> QED BY <1>1, <1>2, <2>1
<1> QED BY <1>1, <1>2, <1>3

-----------------------------------------------------------------------------
(* The steps. *)

LEMMA SizesArePositive ==
  /\ FftSize \in Nat \ {0} /\ Hop \in Nat \ {0} /\ Hop <= FftSize
  /\ SlotSamples \in Nat \ {0} /\ MaxChunk \in Nat \ {0} /\ WaterfallRows \in Nat \ {0}
BY SpectrumAssumption

(* A chunk lies in one slot; it and its place are real. *)
LEMMA ChunkIsReal ==
  ASSUME NEW c \in Chunk
  PROVE  /\ c # NoChunk /\ c.gen \in 1..MaxGen /\ c.slot \in Nat /\ c.start \in Nat
         /\ c.count \in 1..MaxChunk /\ c.start + c.count <= SlotSamples
         /\ c.disc \in {"None", "ClockHealthLost"}
         /\ LET place == [gen |-> c.gen, slot |-> c.slot, next |-> c.start + c.count]
            IN  place \in Cursor /\ place # NoCursor
<1>1. /\ c.gen \in 1..MaxGen /\ c.slot \in 0..MaxSlots - 1 /\ c.start \in 0..SlotSamples - 1
      /\ c.count \in 1..MaxChunk /\ c.start + c.count <= SlotSamples
      /\ c.disc \in {"None", "ClockHealthLost"}
  BY DEF Chunk
<1>2. c # NoChunk
  BY <1>1 DEF NoChunk
<1>3. c.slot \in Nat /\ c.start \in Nat /\ c.start + c.count \in 0..SlotSamples
  <2>1. MaxSlots \in Nat /\ MaxChunk \in Nat /\ SlotSamples \in Nat
    BY SpectrumAssumption
  <2> QED BY <1>1, <2>1
<1>4. LET place == [gen |-> c.gen, slot |-> c.slot, next |-> c.start + c.count]
      IN  place \in Cursor /\ place # NoCursor
  BY <1>1, <1>3 DEF Cursor, NoCursor
<1> QED BY <1>1, <1>2, <1>3, <1>4

LEMMA SpectrumInit == Init => SpectrumInv
<1> SUFFICES ASSUME Init PROVE SpectrumInv
  OBVIOUS
<1>1. Types
  BY SizesArePositive DEF Init, Types, NoChunk, NoCursor, Reason
<1>2. Held /\ Short /\ Linked
  BY SizesArePositive DEF Init, Held, Short, Linked, Place, NoChunk, NoCursor
<1>3. Waterfall /\ Marks
  BY DEF Init, Waterfall, Marks
<1> QED BY <1>1, <1>2, <1>3 DEF SpectrumInv

LEMMA ResetStep ==
  ASSUME SpectrumInv, NEW why \in Reason, Reset(why)
  PROVE  SpectrumInv'
<1>1. /\ chunk' = NoChunk /\ cursor' = NoCursor /\ pending' = <<>> /\ rows' = <<>>
      /\ reason' = why /\ mark' = [seq |-> nextSeq, reason |-> why]
      /\ UNCHANGED <<pendingStart, nextSeq, produced>>
  BY DEF Reset, Become, ResetState, Marked
<1>2. Types'
  BY <1>1, SizesArePositive DEF SpectrumInv, Types, NoChunk, NoCursor, Chunk, Cursor, Row, Reason
<1>3. Held' /\ Short' /\ Linked'
  BY <1>1, SizesArePositive DEF Held, Short, Linked, Place, NoChunk, NoCursor
<1>4. Waterfall' /\ Marks'
  BY <1>1 DEF SpectrumInv, Types, Waterfall, Marks
<1> QED BY <1>2, <1>3, <1>4 DEF SpectrumInv

LEMMA PushStep ==
  ASSUME SpectrumInv, NEW c \in Chunk, Push(c)
  PROVE  SpectrumInv'
<1> DEFINE place == [gen |-> c.gen, slot |-> c.slot, next |-> c.start + c.count]
<1>a. /\ c # NoChunk /\ c.gen \in 1..MaxGen /\ c.slot \in Nat /\ c.start \in Nat
      /\ c.count \in 1..MaxChunk /\ c.start + c.count <= SlotSamples
      /\ c.disc \in {"None", "ClockHealthLost"} /\ place \in Cursor /\ place # NoCursor
  BY ChunkIsReal
<1>b. chunk = NoChunk /\ Place = cursor /\ chunk' = c /\ Place' = place /\ produced' = 0
  BY <1>a DEF Push, Place, RowsAtStart, NoChunk
<1>c. Types /\ Held /\ Short /\ Waterfall /\ Linked /\ Marks
  BY DEF SpectrumInv
<1>d. pending' = Overlap(c) \o Run(c.gen, c.slot, c.start, c.count)
  BY DEF Push, Run
<1>e. /\ pendingStart' = IF Overlap(c) = <<>> THEN c.start ELSE pendingStart
      /\ nextSeq' = nextSeq
  BY DEF Push
<1>f. \/ Break(c) # "None" /\ rows' = <<>> /\ reason' = Break(c)
         /\ mark' = [seq |-> nextSeq, reason |-> Break(c)]
      \/ Break(c) = "None" /\ UNCHANGED <<rows, reason, mark>>
  BY DEF Push, ResetState, Marked
<1>g. Break(c) \in Reason \union {"None"}
  BY <1>a DEF Break, Reason
<1>h. place.gen = c.gen /\ place.slot = c.slot /\ place.next = c.start + c.count
  OBVIOUS
<1>i. /\ pendingStart \in Nat /\ nextSeq \in Nat /\ cursor \in Cursor \union {NoCursor}
  BY <1>c DEF Types
<1> HIDE DEF place
(* Samples are kept only where the chunk continues them. *)
<1>1. ASSUME Overlap(c) # <<>>
      PROVE  /\ Overlap(c) = pending /\ cursor # NoCursor
             /\ cursor.gen = c.gen /\ cursor.slot = c.slot /\ cursor.next = c.start
  <2>1. Overlap(c) = pending /\ (cursor = NoCursor \/ Contiguous(c))
    BY <1>1 DEF Overlap
  <2>2. cursor # NoCursor
    BY <1>1, <1>b, <1>c, <2>1 DEF Held
  <2> QED BY <2>1, <2>2 DEF Contiguous
<1>2. cursor # NoCursor =>
        /\ cursor.gen \in 1..MaxGen /\ cursor.slot \in Nat /\ cursor.next \in 0..SlotSamples
        /\ pendingStart <= cursor.next
        /\ pending = Run(cursor.gen, cursor.slot, pendingStart, cursor.next - pendingStart)
        /\ Len(pending) = cursor.next - pendingStart /\ Len(pending) < FftSize
  <2> HAVE cursor # NoCursor
  <2>1. cursor.gen \in 1..MaxGen /\ cursor.slot \in Nat /\ cursor.next \in 0..SlotSamples
    BY <1>i DEF Cursor
  <2>2. /\ pendingStart <= cursor.next
        /\ pending = Run(cursor.gen, cursor.slot, pendingStart, cursor.next - pendingStart)
    BY <1>b, <1>c DEF Held
  <2>3. cursor.next - pendingStart \in Nat
    BY <1>i, <2>1, <2>2
  <2>4. Len(pending) = cursor.next - pendingStart
    BY <1>i, <2>1, <2>2, <2>3, RunIsSeq
  <2>5. Len(pending) < FftSize
    BY <1>b, <1>c DEF Short
  <2> QED BY <2>1, <2>2, <2>4, <2>5
<1>3. /\ pendingStart' \in Nat /\ pendingStart' <= place.next
      /\ pending' = Run(c.gen, c.slot, pendingStart', place.next - pendingStart')
      /\ Len(pending') < FftSize + MaxChunk
  <2>1. CASE Overlap(c) = <<>>
    <3>1. pendingStart' = c.start /\ place.next - c.start = c.count /\ c.count \in Nat
      BY <1>a, <1>e, <1>h, <2>1
    <3> DEFINE new == Run(c.gen, c.slot, c.start, c.count)
    <3>2. new \in Seq(Samples) /\ Len(new) = c.count
      <4>1. c.gen \in 1..MaxGen /\ c.slot \in Nat /\ c.start \in Nat /\ c.count \in Nat
        BY <1>a
      <4> QED BY <4>1, RunIsSeq
    <3> HIDE DEF new
    <3>3. pending' = new
      BY <1>d, <2>1, <3>2, ConcatEmptySeq DEF new
    <3> QED BY <1>a, <1>h, <3>1, <3>2, <3>3, SizesArePositive DEF new
  <2>2. CASE Overlap(c) # <<>>
    <3> DEFINE n == c.start - pendingStart
    <3>1. /\ cursor # NoCursor /\ cursor.gen = c.gen /\ cursor.slot = c.slot
          /\ cursor.next = c.start /\ Overlap(c) = pending /\ pendingStart' = pendingStart
      BY <1>1, <1>e, <2>2
    <3>2. /\ n \in Nat /\ c.count \in Nat /\ pendingStart + n = c.start
          /\ n + c.count = place.next - pendingStart /\ pendingStart <= place.next
          /\ n < FftSize /\ pending = Run(c.gen, c.slot, pendingStart, n)
      BY <1>2, <1>a, <1>h, <1>i, <3>1
    <3> HIDE DEF n
    <3>3. /\ c.gen \in 1..MaxGen /\ c.slot \in Nat /\ c.count \in Nat /\ n \in Nat
          /\ c.start \in Nat /\ n + c.count \in Nat
      BY <1>a, <3>2
    <3>4. pending' = Run(c.gen, c.slot, pendingStart, place.next - pendingStart)
      <4> DEFINE b == Run(c.gen, c.slot, c.start, c.count)
                 w == Run(c.gen, c.slot, pendingStart, n + c.count)
      <4>1. pending' = pending \o b
        BY <1>d, <3>1
      <4>2. pending \in Seq(Samples) /\ Len(pending) = n
        <5>1. \A k, l \in Nat :
                LET r == Run(c.gen, c.slot, k, l) IN r \in Seq(Samples) /\ Len(r) = l
          BY <3>3, RunIsSeq
        <5>2. pendingStart \in Nat /\ n \in Nat /\ pending = Run(c.gen, c.slot, pendingStart, n)
          BY <1>i, <3>2
        <5> HIDE DEF b, w
        <5> QED BY ONLY <5>1, <5>2
      <4>3. b \in Seq(Samples) /\ Len(b) = c.count /\ w \in Seq(Samples) /\ Len(w) = n + c.count
        <5>1. b \in Seq(Samples) /\ Len(b) = c.count
          BY <3>3, RunIsSeq
        <5>2. \A k, l \in Nat :
                LET r == Run(c.gen, c.slot, k, l) IN r \in Seq(Samples) /\ Len(r) = l
          BY <3>3, RunIsSeq
        <5>3. w \in Seq(Samples) /\ Len(w) = n + c.count
          BY <1>i, <3>3, <5>2
        <5> QED BY <5>1, <5>3
      <4>4. \A i \in 1..n : pending[i] = w[i]
        BY <3>2, <3>3 DEF Run
      <4>5. \A i \in 1..n + c.count : i > n => b[i - n] = w[i]
        <5> TAKE i \in 1..n + c.count
        <5> HAVE i > n
        <5>1. i - n \in 1..c.count /\ c.start + (i - n) - 1 = pendingStart + i - 1
          BY <1>i, <3>2, <3>3
        <5> QED BY <5>1 DEF Run
      <4> HIDE DEF b, w
      <4>6. /\ pending \o b \in Seq(Samples) /\ Len(pending \o b) = Len(pending) + Len(b)
            /\ \A i \in 1..Len(pending) + Len(b) :
                 (pending \o b)[i] = IF i <= Len(pending) THEN pending[i] ELSE b[i - Len(pending)]
        BY <4>2, <4>3, ConcatProperties
      <4>7. pending \o b = w
        <5> DEFINE u == pending \o b
        <5>1. u \in Seq(Samples) /\ Len(u) = n + c.count
          BY <4>2, <4>3, <4>6
        <5>2. \A i \in 1..n + c.count : u[i] = IF i <= n THEN pending[i] ELSE b[i - n]
          BY <4>2, <4>3, <4>6
        <5> HIDE DEF u
        <5>3. \A i \in 1..n + c.count : u[i] = w[i]
          BY <3>3, <4>4, <4>5, <5>2
        <5>4. u = w
          BY <4>3, <5>1, <5>3, SeqEqual
        <5> QED BY <5>4 DEF u
      <4>8. n + c.count = place.next - pendingStart
        BY <3>2
      <4> QED BY <4>1, <4>7, <4>8 DEF w
    <3>5. n + c.count \in Nat
      BY <3>2
    <3>6. Len(pending') = n + c.count
      <4>1. \A k, l \in Nat : Len(Run(c.gen, c.slot, k, l)) = l
        BY <3>3, RunIsSeq
      <4>2. pendingStart \in Nat /\ n + c.count \in Nat
        BY <1>i, <3>5
      <4>3. pending' = Run(c.gen, c.slot, pendingStart, n + c.count)
        BY <3>2, <3>4
      <4> QED BY ONLY <4>1, <4>2, <4>3
    <3> QED BY <1>a, <1>i, <3>1, <3>2, <3>4, <3>6, SizesArePositive
  <2> QED BY <2>1, <2>2
<1>4. Types'
  <2>1. chunk' \in Chunk' /\ pendingStart' \in Nat /\ nextSeq' \in Nat /\ produced' \in Nat
    BY <1>b, <1>3, <1>e, <1>i DEF Chunk
  <2>2. cursor' = cursor \/ cursor' = NoCursor
    BY DEF Push, ResetState
  <2>3. cursor' \in Cursor' \union {NoCursor'}
    BY <1>i, <2>2 DEF Cursor, NoCursor
  <2>4. rows' \in Seq(Row) /\ Len(rows') <= WaterfallRows /\ reason' \in Reason \union {"None"}
    <3>1. <<>> \in Seq(Row) /\ Len(<<>>) = 0
      OBVIOUS
    <3>2. /\ rows \in Seq(Row) /\ Len(rows) <= WaterfallRows
          /\ reason \in Reason \union {"None"}
      BY <1>c DEF Types
    <3>3. (rows' = <<>> /\ reason' = Break(c)) \/ (rows' = rows /\ reason' = reason)
      BY <1>f
    <3>4. rows' \in Seq(Row) /\ reason' \in Reason \union {"None"}
      BY <1>g, <3>1, <3>2, <3>3, Zenon
    <3> QED BY <3>1, <3>2, <3>3, <3>4, SizesArePositive
  <2>5. mark' \in [seq : Int, reason : Reason \union {"None"}]
    BY <1>c, <1>f, <1>g, <1>i DEF Types, Reason
  <2> QED BY <2>1, <2>3, <2>4, <2>5 DEF Types
<1>5. Held' /\ Short'
  <2>1. Place' # NoCursor' /\ chunk' # NoChunk'
    BY <1>a, <1>b DEF NoCursor, NoChunk
  <2>2. 0 * Hop = 0 /\ Len(pending') \in Nat
    <3>1. place.next - pendingStart' \in Nat
      BY <1>3, <1>h, <1>a
    <3> QED BY <1>3, <1>a, <3>1, RunIsSeq, SizesArePositive
  <2>3. Held'
    BY <1>3, <1>b, <1>h, <2>1 DEF Held, Run, Sample
  <2>4. Short'
    BY <1>3, <1>b, <2>1, <2>2 DEF Short
  <2> QED BY <2>3, <2>4
<1>6. Waterfall'
  BY <1>c, <1>f DEF Waterfall, Whole, Continues, Follows, Run, Sample
<1>7. Linked'
  <2> SUFFICES ASSUME rows' # <<>>
               PROVE  /\ Place' # NoCursor' /\ nextSeq' = rows'[Len(rows')].seq + 1
                      /\ Place'.gen = rows'[Len(rows')].gen
                      /\ Follows(place.slot, pendingStart', rows[Len(rows)])
    BY <1>b, <1>f DEF Linked, Follows
  <2> DEFINE prev == rows[Len(rows)]
  <2>1. Break(c) = "None" /\ rows' = rows /\ rows # <<>>
    BY <1>f
  <2>2. /\ cursor # NoCursor /\ nextSeq = prev.seq + 1 /\ cursor.gen = prev.gen
        /\ Follows(cursor.slot, pendingStart, prev)
    BY <1>b, <1>c, <2>1 DEF Linked
  <2>3. cursor.gen = c.gen /\ (Contiguous(c) \/ NextSlot(c))
    BY <2>1, <2>2 DEF Break
  <2>4. Follows(c.slot, pendingStart', prev)
    <3>1. CASE Contiguous(c)
      <4>1. Overlap(c) = pending /\ cursor.slot = c.slot /\ cursor.next = c.start
        BY <2>1, <3>1 DEF Overlap, Contiguous
      <4>2. pendingStart' = pendingStart
        <5>1. CASE pending = <<>>
          <6>1. c.start - pendingStart = 0
            BY <1>2, <2>2, <4>1, <5>1
          <6> QED BY <1>a, <1>e, <1>i, <4>1, <5>1, <6>1
        <5> QED BY <1>e, <4>1, <5>1
      <4> QED BY <2>2, <4>1, <4>2
    <3>2. CASE ~Contiguous(c)
      <4>1. /\ cursor.next = SlotSamples /\ c.start = 0 /\ c.slot = cursor.slot + 1
            /\ Overlap(c) = <<>> /\ pendingStart' = 0
        BY <1>e, <2>2, <2>3, <3>2 DEF NextSlot, Overlap
      <4>2. SlotSamples - pendingStart < FftSize
        BY <1>2, <2>2, <4>1
      <4>3. prev \in Row /\ Len(rows) \in 1..Len(rows)
        BY <1>c, <2>1, LenProperties, ElementOfSeq DEF Types
      <4>4. prev.start + FftSize <= SlotSamples /\ prev.start \in Nat /\ prev.slot \in Nat
        BY <1>c, <4>3 DEF Waterfall, Whole, Row
      <4>5. cursor.slot = prev.slot /\ pendingStart = prev.start + Hop
        BY <2>2, <4>2, <4>4, SizesArePositive DEF Follows
      <4> HIDE DEF prev
      <4>6. prev.start + Hop + FftSize > SlotSamples
        BY <4>2, <4>4, <4>5, SizesArePositive
      <4> QED BY <4>1, <4>5, <4>6 DEF Follows
    <3> QED BY <3>1, <3>2
  <2>5. Place' # NoCursor'
    BY <1>a, <1>b DEF NoCursor
  <2> QED BY <1>b, <1>e, <1>h, <2>1, <2>2, <2>3, <2>4, <2>5
<1>8. Marks'
  BY <1>c, <1>e, <1>f, <1>i DEF Marks, Types
<1> QED BY <1>4, <1>5, <1>6, <1>7, <1>8 DEF SpectrumInv

LEMMA ProduceRowStep ==
  ASSUME SpectrumInv, ProduceRow
  PROVE  SpectrumInv'
<1> DEFINE n == Len(pending)
           row == [seq |-> nextSeq, gen |-> chunk.gen, slot |-> chunk.slot,
                   start |-> pendingStart, reason |-> reason, samples |-> SubSeq(pending, 1, FftSize)]
<1>a. Types /\ Held /\ Short /\ Waterfall /\ Linked /\ Marks
  BY DEF SpectrumInv
<1>b. /\ chunk \in Chunk /\ chunk # NoChunk /\ n >= FftSize
      /\ pendingStart \in Nat /\ nextSeq \in Nat /\ produced \in Nat
      /\ reason \in Reason \union {"None"}
  BY <1>a DEF Types, ProduceRow
<1>c. /\ rows' = Append(Evict, row) /\ nextSeq' = nextSeq + 1 /\ reason' = "None"
      /\ pending' = SubSeq(pending, Hop + 1, n) /\ pendingStart' = pendingStart + Hop
      /\ produced' = produced + 1 /\ UNCHANGED <<cursor, chunk, mark>>
  BY DEF ProduceRow
<1>d. /\ chunk.gen \in 1..MaxGen /\ chunk.slot \in Nat /\ chunk.start \in Nat
      /\ chunk.count \in Nat /\ chunk.start + chunk.count <= SlotSamples
      /\ Place = [gen |-> chunk.gen, slot |-> chunk.slot, next |-> chunk.start + chunk.count]
      /\ Place # NoCursor /\ Place' = Place
  BY <1>b, <1>c, ChunkIsReal DEF Place, NoChunk
<1>e. Place.gen = chunk.gen /\ Place.slot = chunk.slot /\ Place.next \in 0..SlotSamples
  BY <1>d, SizesArePositive
<1>f. /\ pendingStart <= Place.next
      /\ pending = Run(chunk.gen, chunk.slot, pendingStart, Place.next - pendingStart)
  BY <1>a, <1>d, <1>e DEF Held
<1>g. /\ n \in Nat /\ n = Place.next - pendingStart
      /\ pending = Run(chunk.gen, chunk.slot, pendingStart, n) /\ pending \in Seq(Samples)
  <2>1. Place.next - pendingStart \in Nat
    BY <1>b, <1>e, <1>f
  <2> DEFINE m == Place.next - pendingStart
  <2>2. m \in Nat /\ pending = Run(chunk.gen, chunk.slot, pendingStart, m)
    BY <1>f, <2>1
  <2>3. chunk.gen \in 1..MaxGen /\ chunk.slot \in Nat /\ pendingStart \in Nat
    BY <1>b, <1>d
  <2> HIDE DEF m
  <2>4. n = m /\ pending \in Seq(Samples)
    BY <2>2, <2>3, RunIsSeq
  <2> QED BY <2>2, <2>4 DEF m
<1> HIDE DEF n
(* The row is the head of what is pending, and leaves the rest. *)
<1>h. \A k, l \in Nat :
        LET r == Run(chunk.gen, chunk.slot, k, l) IN r \in Seq(Samples) /\ Len(r) = l
  <2>1. chunk.gen \in 1..MaxGen /\ chunk.slot \in Nat
    BY <1>d
  <2> QED BY <2>1, RunIsSeq
<1>1. /\ SubSeq(pending, 1, FftSize) = Run(chunk.gen, chunk.slot, pendingStart, FftSize)
      /\ SubSeq(pending, 1, FftSize) \in Seq(Samples)
  <2> DEFINE s == SubSeq(pending, 1, FftSize)
             t == Run(chunk.gen, chunk.slot, pendingStart, FftSize)
  <2>1. t \in Seq(Samples) /\ Len(t) = FftSize
    BY <1>b, <1>h, SizesArePositive
  <2>2. /\ s \in Seq(Samples) /\ Len(s) = FftSize
        /\ \A i \in 1..FftSize : s[i] = pending[i]
    <3>1. /\ pending \in Seq(Samples) /\ 1 \in 1..n + 1 /\ FftSize \in 1 - 1..n /\ 1 <= FftSize
          /\ FftSize - 1 + 1 = FftSize /\ \A i \in 1..FftSize : 1 + i - 1 = i
      BY <1>b, <1>g, SizesArePositive
    <3> QED BY <3>1, SubSeqProperties DEF n
  <2>3. \A i \in 1..FftSize : pending[i] = t[i]
    BY <1>b, <1>g, SizesArePositive DEF Run
  <2> HIDE DEF s, t
  <2>4. s = t
    BY <2>1, <2>2, <2>3, SeqEqual
  <2> QED BY <2>2, <2>4 DEF s, t
<1>2. pending' = Run(chunk.gen, chunk.slot, pendingStart + Hop, n - Hop)
  <2> DEFINE s == SubSeq(pending, Hop + 1, n)
             t == Run(chunk.gen, chunk.slot, pendingStart + Hop, n - Hop)
  <2>0. n - Hop \in Nat /\ pendingStart + Hop \in Nat
    BY <1>b, <1>g, SizesArePositive
  <2>1. t \in Seq(Samples) /\ Len(t) = n - Hop
    BY <1>h, <2>0
  <2>2. /\ s \in Seq(Samples) /\ Len(s) = n - Hop
        /\ \A i \in 1..n - Hop : s[i] = pending[Hop + i]
    <3>1. /\ pending \in Seq(Samples) /\ Hop + 1 \in 1..n + 1 /\ n \in (Hop + 1) - 1..n
          /\ n - (Hop + 1) + 1 = n - Hop /\ \A i \in 1..n - Hop : (Hop + 1) + i - 1 = Hop + i
          /\ IF Hop + 1 <= n THEN TRUE ELSE n - Hop = 0
      BY <1>b, <1>g, SizesArePositive
    <3> QED BY <3>1, SubSeqProperties DEF n
  <2>3. \A i \in 1..n - Hop : pending[Hop + i] = t[i]
    <3> TAKE i \in 1..n - Hop
    <3>1. Hop + i \in 1..n /\ pendingStart + (Hop + i) - 1 = pendingStart + Hop + i - 1
      BY <1>b, <1>g, SizesArePositive
    <3> QED BY <1>g, <3>1 DEF Run
  <2> HIDE DEF s, t
  <2>4. s = t
    BY <2>1, <2>2, <2>3, SeqEqual
  <2> QED BY <1>c, <2>4 DEF s, t
<1>3. /\ row \in Row /\ row.seq = nextSeq /\ row.gen = chunk.gen /\ row.slot = chunk.slot
      /\ row.start = pendingStart /\ row.reason = reason
      /\ row.samples = Run(chunk.gen, chunk.slot, pendingStart, FftSize)
  <2>1. /\ row.seq = nextSeq /\ row.gen = chunk.gen /\ row.slot = chunk.slot
        /\ row.start = pendingStart /\ row.reason = reason
        /\ row.samples = SubSeq(pending, 1, FftSize)
    OBVIOUS
  <2>2. row \in Row
    BY <1>1, <1>b, <1>d DEF Row
  <2> QED BY <1>1, <2>1, <2>2
<1>4. pendingStart + FftSize <= SlotSamples
  BY <1>b, <1>e, <1>f, <1>g, SizesArePositive
<1>5. Whole(row)
  BY <1>3, <1>4 DEF Whole
<1> HIDE DEF row
<1>6. /\ rows' \in Seq(Row) /\ Len(rows') \in 1..WaterfallRows /\ rows'[Len(rows')] = row
      /\ \E d \in {0, 1} : /\ Len(rows') - 1 + d = Len(rows)
                           /\ \A i \in 1..Len(rows') - 1 : rows'[i] = rows[i + d]
  BY <1>3, <1>a, <1>c, RowJoins
<1>7. PICK d \in {0, 1} : /\ Len(rows') - 1 + d = Len(rows)
                          /\ \A i \in 1..Len(rows') - 1 : rows'[i] = rows[i + d]
  BY <1>6
<1>8. Len(rows) \in Nat /\ Len(rows') \in Nat /\ Len(rows') >= 1
  BY <1>6, <1>a, LenProperties DEF Types
<1>9. Types'
  <2>1. chunk' \in Chunk \union {NoChunk} /\ cursor' \in Cursor \union {NoCursor}
    BY <1>a, <1>c DEF Types
  <2>2. pendingStart' \in Nat /\ nextSeq' \in Nat /\ produced' \in Nat
    BY <1>b, <1>c, SizesArePositive
  <2>3. reason' \in Reason \union {"None"} /\ mark' \in [seq : Int, reason : Reason \union {"None"}]
    BY <1>a, <1>c DEF Types
  <2>4. Len(rows') <= WaterfallRows
    BY <1>6, SizesArePositive
  <2> QED BY <1>6, <2>1, <2>2, <2>3, <2>4 DEF Types
<1>10. Held' /\ Short'
  <2>1. pendingStart' <= Place'.next /\ n - Hop = Place'.next - pendingStart' /\ n - Hop \in Nat
    <3>1. Place'.next = Place.next /\ pendingStart' = pendingStart + Hop
      BY <1>c, <1>d
    <3>2. /\ n \in Nat /\ n = Place.next - pendingStart /\ n >= FftSize /\ Place.next \in Nat
          /\ pendingStart \in Nat
      BY <1>b, <1>e, <1>g
    <3> QED BY <3>1, <3>2, SizesArePositive
  <2>2. Place'.gen = chunk.gen /\ Place'.slot = chunk.slot /\ Place' # NoCursor
    BY <1>d, <1>e
  <2>3. pending' = Run(Place'.gen, Place'.slot, pendingStart', Place'.next - pendingStart')
    BY <1>2, <1>c, <2>1, <2>2
  <2>4. Held'
    BY <2>1, <2>2, <2>3 DEF Held, NoCursor
  <2>5. Len(pending') = n - Hop
    BY <1>2, <1>b, <1>d, <2>1, RunIsSeq, SizesArePositive
  <2>6. n + produced * Hop < FftSize + MaxChunk
    BY <1>a, <1>b DEF Short, n
  <2>7. n - Hop + (produced + 1) * Hop = n + produced * Hop
    BY <1>b, <1>g, SizesArePositive
  <2>8. Short'
    BY <1>b, <1>c, <2>5, <2>6, <2>7 DEF Short, NoChunk
  <2> QED BY <2>4, <2>8
<1>11. Waterfall'
  <2>1. \A i \in 1..Len(rows') : Whole(rows'[i])
    <3> TAKE i \in 1..Len(rows')
    <3>1. CASE i = Len(rows')
      BY <1>5, <1>6, <3>1
    <3>2. CASE i # Len(rows')
      <4>1. i \in 1..Len(rows') - 1 /\ i + d \in 1..Len(rows)
        BY <1>7, <1>8, <3>2
      <4> QED BY <1>7, <1>a, <4>1 DEF Waterfall
    <3> QED BY <3>1, <3>2
  <2>2. \A i \in 2..Len(rows') : Continues(rows'[i], rows'[i - 1])
    <3> TAKE i \in 2..Len(rows')
    <3>1. CASE i = Len(rows')
      <4>1. rows'[i - 1] = rows[Len(rows)] /\ Len(rows) >= 1
        <5>1. i - 1 \in 1..Len(rows') - 1 /\ i - 1 + d = Len(rows)
          BY <1>7, <1>8, <3>1
        <5> QED BY <1>7, <1>8, <5>1
      <4>2. /\ nextSeq = rows[Len(rows)].seq + 1 /\ Place.gen = rows[Len(rows)].gen
            /\ Follows(Place.slot, pendingStart, rows[Len(rows)])
        BY <1>a, <4>1 DEF Linked
      <4> QED BY <1>3, <1>6, <1>e, <3>1, <4>1, <4>2 DEF Continues
    <3>2. CASE i # Len(rows')
      <4>1. /\ i \in 1..Len(rows') - 1 /\ i - 1 \in 1..Len(rows') - 1
            /\ i + d \in 2..Len(rows) /\ i - 1 + d = i + d - 1
        BY <1>7, <1>8, <3>2
      <4>2. rows'[i] = rows[i + d] /\ rows'[i - 1] = rows[i + d - 1]
        BY <1>7, <4>1
      <4> QED BY <1>a, <4>1, <4>2 DEF Waterfall
    <3> QED BY <3>1, <3>2
  <2>3. \A a, b : (Whole(a) => Whole(a)') /\ (Continues(a, b) => Continues(a, b)')
    BY DEF Whole, Continues, Follows, Run, Sample
  <2>4. \A i, a, b : i \in 1..Len(rows') /\ a = rows'[i] => Whole(a)'
    BY <2>1, <2>3
  <2>5. \A i, a, b : i \in 2..Len(rows') /\ a = rows'[i] /\ b = rows'[i - 1] => Continues(a, b)'
    BY <2>2, <2>3
  <2> QED BY <2>4, <2>5 DEF Waterfall
<1>12. Linked'
  <2>1. Place'.slot = row.slot /\ Place'.gen = row.gen /\ nextSeq' = row.seq + 1
    BY <1>3, <1>c, <1>d, <1>e
  <2>2. Follows(Place'.slot, pendingStart', row)
    BY <1>3, <1>c, <2>1 DEF Follows
  <2> QED BY <1>6, <1>d, <2>1, <2>2 DEF Linked, NoCursor, Follows
<1>13. Marks'
  <2>1. mark.seq \in Int /\ mark.seq <= nextSeq /\ mark' = mark
        /\ reason = IF nextSeq = mark.seq THEN mark.reason ELSE "None"
    BY <1>a, <1>c DEF Marks, Types
  <2>2. mark'.seq <= nextSeq' /\ nextSeq' # mark'.seq
    BY <1>b, <1>c, <2>1
  <2>3. \A i \in 1..Len(rows') :
          rows'[i].reason = IF rows'[i].seq = mark.seq THEN mark.reason ELSE "None"
    <3> TAKE i \in 1..Len(rows')
    <3>1. CASE i = Len(rows')
      BY <1>3, <1>6, <2>1, <3>1
    <3>2. CASE i # Len(rows')
      <4>1. i \in 1..Len(rows') - 1 /\ i + d \in 1..Len(rows)
        BY <1>7, <1>8, <3>2
      <4> QED BY <1>7, <1>a, <4>1 DEF Marks
    <3> QED BY <3>1, <3>2
  <2> QED BY <1>c, <2>1, <2>2, <2>3 DEF Marks
<1> QED BY <1>9, <1>10, <1>11, <1>12, <1>13 DEF SpectrumInv

LEMMA PushedStep ==
  ASSUME SpectrumInv, Pushed
  PROVE  SpectrumInv'
<1>1. /\ chunk \in Chunk /\ chunk # NoChunk /\ chunk' = NoChunk
      /\ cursor' = [gen |-> chunk.gen, slot |-> chunk.slot, next |-> chunk.start + chunk.count]
      /\ Len(pending) < FftSize
      /\ UNCHANGED <<pending, pendingStart, rows, reason, nextSeq, produced, mark>>
  BY DEF SpectrumInv, Types, Pushed
<1>2. cursor' \in Cursor /\ Place' = Place
  BY <1>1, ChunkIsReal DEF Place, NoChunk
<1>3. Types'
  BY <1>1, <1>2 DEF SpectrumInv, Types, Cursor, NoChunk, Row, Samples, Reason
<1>4. Held' /\ Short'
  BY <1>1, <1>2 DEF SpectrumInv, Held, Short, NoCursor, NoChunk, Run, Sample
<1>5. Waterfall' /\ Linked' /\ Marks'
  BY <1>1, <1>2
  DEF SpectrumInv, Waterfall, Whole, Continues, Follows, Linked, Marks, NoCursor, Run, Sample
<1> QED BY <1>3, <1>4, <1>5 DEF SpectrumInv

(* Neither a snapshot nor a stutter touches what the invariant is about. *)
LEMMA QuietStep ==
  ASSUME SpectrumInv,
         UNCHANGED <<cursor, pending, pendingStart, rows, reason, nextSeq, chunk, produced, mark>>
  PROVE  SpectrumInv'
<1>1. Place' = Place
  BY DEF Place, NoChunk
<1>2. Types'
  BY DEF SpectrumInv, Types, Chunk, Cursor, NoChunk, NoCursor, Row, Samples, Reason
<1>3. Held' /\ Short'
  BY <1>1 DEF SpectrumInv, Held, Short, NoCursor, NoChunk, Run, Sample
<1>4. Waterfall' /\ Linked' /\ Marks'
  BY <1>1
  DEF SpectrumInv, Waterfall, Whole, Continues, Follows, Linked, Marks, NoCursor, Run, Sample
<1> QED BY <1>2, <1>3, <1>4 DEF SpectrumInv

LEMMA SpectrumStep == SpectrumInv /\ [Next]_vars => SpectrumInv'
<1> SUFFICES ASSUME SpectrumInv, [Next]_vars PROVE SpectrumInv'
  OBVIOUS
<1>1. ASSUME NEW c \in Chunk, Push(c) PROVE SpectrumInv'
  BY <1>1, PushStep
<1>2. CASE ProduceRow
  BY <1>2, ProduceRowStep
<1>3. CASE Pushed
  BY <1>3, PushedStep
<1>4. CASE TakeSnapshot \/ UNCHANGED vars
  BY <1>4, QuietStep DEF TakeSnapshot, vars
<1>5. ASSUME NEW why \in {"StreamGenerationChanged", "TimelineDiscontinuity"}, Reset(why)
      PROVE  SpectrumInv'
  BY <1>5, ResetStep DEF Reason
<1> QED BY <1>1, <1>2, <1>3, <1>4, <1>5 DEF Next

(* The inductive invariant of the spectrum model: what is pending is one   *)
(* run of samples that ends where the next chunk must begin, and the next  *)
(* row will continue the last one retained.                                *)
THEOREM SpectrumInvariant == Spec => []SpectrumInv
<1>1. Init => SpectrumInv
  BY SpectrumInit
<1>2. SpectrumInv /\ [Next]_vars => SpectrumInv'
  BY SpectrumStep
<1> QED BY <1>1, <1>2, PTL DEF Spec

(* Every row (spectrum.rs produce_row) is FftSize consecutive samples of   *)
(* one stream and slot, and the retained rows are one unbroken run, for    *)
(* every FFT size, hop, slot length and number of retained rows.           *)
THEOREM WholeRows == Spec => []RowsAreWhole
<1>1. ASSUME SpectrumInv PROVE RowsAreWhole
  <2>1. rows \in Seq(Row) /\ DOMAIN rows = 1..Len(rows) /\ Len(rows) <= WaterfallRows
    BY <1>1, LenProperties DEF SpectrumInv, Types
  <2>2. \A i \in DOMAIN rows :
          /\ rows[i].samples =
               [k \in 1..FftSize |-> Sample(rows[i].gen, rows[i].slot, rows[i].start + k - 1)]
          /\ rows[i].start + FftSize <= SlotSamples
    BY <1>1, <2>1 DEF SpectrumInv, Waterfall, Whole, Run
  <2>3. \A i \in 2..Len(rows) : Continues(rows[i], rows[i - 1])
    BY <1>1 DEF SpectrumInv, Waterfall
  <2> QED BY <2>1, <2>2, <2>3 DEF RowsAreWhole, Continues, Follows
<1> QED BY <1>1, SpectrumInvariant, PTL

(* The first row after a reset, and no other, carries the reason of the    *)
(* last reset (spectrum.rs reset, produce_row).                            *)
THEOREM ResetReasons == Spec => []ResetIsMarked
<1>1. ASSUME SpectrumInv PROVE ResetIsMarked
  <2>1. DOMAIN rows = 1..Len(rows)
    BY <1>1, LenProperties DEF SpectrumInv, Types
  <2> QED BY <1>1, <2>1 DEF SpectrumInv, Marks, ResetIsMarked
<1> QED BY <1>1, SpectrumInvariant, PTL

(* The check of SpectrumConfig::new is enough for push never to meet the   *)
(* bound on rows while a row is still due.                                 *)
THEOREM PushHasRoom == Spec => []PushIsBounded
<1>1. ASSUME SpectrumInv PROVE PushIsBounded
  <2> SUFFICES ASSUME chunk # NoChunk, Len(pending) >= FftSize PROVE produced < MaxRowsPerPush
    BY DEF PushIsBounded
  <2>1. produced \in Nat /\ Len(pending) + produced * Hop < FftSize + MaxChunk
    BY <1>1 DEF SpectrumInv, Types, Short
  <2>2. Len(pending) \in Nat
    <3>1. /\ chunk \in Chunk /\ pendingStart \in Nat
          /\ Place = [gen |-> chunk.gen, slot |-> chunk.slot, next |-> chunk.start + chunk.count]
      BY <1>1 DEF SpectrumInv, Types, Place
    <3>2. /\ Place # NoCursor /\ Place.gen \in 1..MaxGen /\ Place.slot \in Nat /\ Place.next \in Nat
      BY <3>1, ChunkIsReal DEF Cursor
    <3>3. /\ Place.next - pendingStart \in Nat
          /\ pending = Run(Place.gen, Place.slot, pendingStart, Place.next - pendingStart)
      BY <1>1, <3>1, <3>2 DEF SpectrumInv, Held
    <3> QED BY <3>1, <3>2, <3>3, RunIsSeq
  <2>3. produced * Hop \in Nat
    BY <2>1, SizesArePositive
  <2>4. produced * Hop < MaxChunk
    BY <2>1, <2>2, <2>3, SizesArePositive
  <2> QED BY <2>1, <2>4, HopsFit
<1> QED BY <1>1, SpectrumInvariant, PTL

-----------------------------------------------------------------------------
(* The FT8 receive timeline. *)

Pair == Nat \X Nat
Anchors == [pos : Nat, utc : Nat, mono : Nat]
Progress == [slot : Nat, samples : Seq(Pair)]
Resamplers ==
  [nextTick : Nat, prev : Nat \union {NoPosition}, active : Progress \union {NoSlot}]
Timelines ==
  [expected : Nat \union {NoPosition}, lastPos : Int, lastMono : Int,
   anchor : Anchors \union {NoAnchor}, rs : Resamplers \union {NoResampler},
   incomplete : Nat, late : Nat]
Batches ==
  [first : Nat, frames : Nat \ {0}, utc : Nat, mono : Nat,
   mark : {"None", "Overflow", "StreamRestart"}, own : BOOLEAN]
Works ==
  [nextTick : Nat, prev : Nat \union {NoPosition}, active : Progress \union {NoSlot},
   windows : Seq(Progress), incomplete : Nat, begun : Nat, failed : BOOLEAN]
Pushes == [tl : Timelines, batch : Batches, at : Nat, position : Nat, work : Works]

InProgress(active) == IF active = NoSlot THEN 0 ELSE 1

(* The first tick of a slot that this run of batches can fill. *)
FirstTick(anchor, slot) ==
  IF slot < AnchorTick(anchor) THEN AnchorTick(anchor) ELSE slot

(* Between two output ticks: the slot in progress holds the samples of its *)
(* ticks since the anchor, or the next tick begins a slot.                 *)
Joined(anchor, tick, active) ==
  /\ AnchorTick(anchor) <= tick
  /\ active = NoSlot => tick = AnchorTick(anchor) \/ SlotOf(tick) = tick
  /\ active # NoSlot =>
       /\ AnchorTick(anchor) < tick /\ active.slot = SlotOf(tick - 1)
       /\ Len(active.samples) = tick - FirstTick(anchor, active.slot)
       /\ Len(active.samples) < TicksPerSlot
       /\ \A k \in 1..Len(active.samples) :
            Bracketed(anchor, FirstTick(anchor, active.slot) + k - 1, active.samples[k])

(* The earliest slot that can still be published under the anchor starts   *)
(* here.                                                                   *)
Start(anchor, r) ==
  IF r.active = NoSlot THEN r.nextTick ELSE FirstTick(anchor, r.active.slot)

(* The anchor's own slot begins before the stream's monotonic origin: no   *)
(* sample is ever taken under this anchor.                                 *)
Stuck(anchor, tick, active) ==
  /\ tick = AnchorTick(anchor) /\ active = NoSlot
  /\ SlotMapping(anchor, SlotOf(tick)).mono < 0

(* A source frame is not after the next tick. *)
NotAfter(anchor, frame, tick) ==
  (frame - anchor.pos) * OutRate <= (tick - AnchorTick(anchor)) * SrcRate

(* Between two pushes. *)
AtRest(t) ==
  /\ t \in Timelines
  /\ t.anchor = NoAnchor <=> t.rs = NoResampler
  /\ t.rs # NoResampler =>
       /\ Joined(t.anchor, t.rs.nextTick, t.rs.active)
       /\ \/ Stuck(t.anchor, t.rs.nextTick, t.rs.active)
          \/ /\ t.expected # NoPosition /\ t.rs.prev = t.expected - 1
             /\ t.rs.prev \in Nat /\ t.anchor.pos <= t.rs.prev
             /\ NotAfter(t.anchor, t.rs.prev, t.rs.nextTick)

PreviousOf(p) == IF p.work.prev = NoPosition THEN p.position ELSE p.work.prev

(* Within a push, where it can take the next sample. *)
Proceeds(p) ==
  /\ PreviousOf(p) \in {p.position, p.position - 1} /\ p.tl.anchor.pos <= PreviousOf(p)
  /\ p.batch.first < p.position => p.work.prev = p.position - 1
  /\ NotAfter(p.tl.anchor, PreviousOf(p), p.work.nextTick)

(* Within a push, its windows and counters, where `before` slots were in    *)
(* progress when it began.                                                 *)
Tallied(anchor, work, before) ==
  /\ work.nextTick = AnchorTick(anchor) => work.windows = <<>> /\ work.incomplete = 0
  /\ \A i \in 1..Len(work.windows) : WholeWindow(anchor, work.windows[i])
  /\ work.begun + before
       = Len(work.windows) + work.incomplete + InProgress(work.active)

Underway(p) ==
  /\ p \in Pushes /\ p.tl.anchor # NoAnchor
  /\ p.tl.anchor.pos <= p.batch.first /\ p.batch.first <= p.position
  /\ p.position <= p.batch.first + p.batch.frames
  /\ Joined(p.tl.anchor, p.work.nextTick, p.work.active)
  /\ p.work.failed => Stuck(p.tl.anchor, p.work.nextTick, p.work.active)
  /\ ~p.work.failed =>
       \/ p.position = p.batch.first /\ Stuck(p.tl.anchor, p.work.nextTick, p.work.active)
       \/ Proceeds(p)
  /\ Tallied(p.tl.anchor, p.work, InProgress(p.tl.rs.active))

TimelineInv ==
  /\ AtRest(tl)
  /\ push # NoPush => Underway(push) /\ push.tl = Anchored(tl, push.batch)
  /\ dev \in Nat /\ now \in Nat /\ origin \in Nat /\ shift \in Int
  /\ opened \in Nat /\ windows \in Nat
  /\ last.windows \in Seq(Progress)
  /\ WindowsAreWhole /\ SlotsAreAccounted

LEMMA TimelineRates ==
  /\ SrcRate \in Nat \ {0} /\ OutRate \in Nat \ {0} /\ SlotMillis \in Nat \ {0}
  /\ TicksPerSlot \in Nat \ {0}
<1>1. SrcRate \in Nat \ {0} /\ OutRate \in Nat \ {0} /\ SlotMillis \in Nat \ {0}
  BY TimelineAssumption
<1>2. OutRate * SlotMillis \in Nat /\ OutRate * SlotMillis > 0
  BY <1>1
<1> QED BY <1>1, <1>2 DEF TicksPerSlot

(* A quotient that leaves a remainder smaller than the divisor is the one. *)
LEMMA QuotientIsUnique ==
  ASSUME NEW n \in Nat, NEW d \in Nat \ {0}, NEW q \in Nat,
         q * d <= n, n < q * d + d
  PROVE  n \div d = q
<1> DEFINE p == n \div d
           r == n % d
<1>1. p \in Nat /\ r \in Nat /\ r < d
  OBVIOUS
<1>2. n = p * d + r
  OBVIOUS
<1>0. p = n \div d
  OBVIOUS
<1> HIDE DEF p, r
<1>3. (q - p) * d <= r /\ r < (q - p) * d + d
  BY <1>1, <1>2
<1>4. CASE q - p >= 1
  <2>1. (q - p) * d >= d
    BY <1>1, <1>4
  <2>2. (q - p) * d \in Int
    BY <1>1
  <2> QED BY <1>1, <1>3, <2>1, <2>2
<1>5. CASE q - p <= -1
  <2>1. (q - p) * d <= -d
    BY <1>1, <1>5
  <2>2. (q - p) * d \in Int
    BY <1>1
  <2> QED BY <1>1, <1>3, <2>1, <2>2
<1>6. CASE q - p = 0
  BY <1>0, <1>1, <1>6
<1> QED BY <1>1, <1>4, <1>5, <1>6

(* What a truncated quotient says of the product. *)
LEMMA QuotientBounds ==
  ASSUME NEW x \in Nat, NEW d \in Nat \ {0}, NEW m \in Int
  PROVE  /\ x \div d \in Nat
         /\ m <= x \div d => m * d <= x
         /\ m > x \div d => x < m * d
<1> DEFINE p == x \div d
           r == x % d
<1>1. p \in Nat /\ r \in Nat /\ r < d
  OBVIOUS
<1>2. x = p * d + r
  OBVIOUS
<1>3. p * d \in Nat /\ m * d \in Int
  BY <1>1
<1>4. p = x \div d
  OBVIOUS
<1> HIDE DEF p, r
<1>5. m <= p => m * d <= p * d
  BY <1>1
<1>6. m >= p + 1 => m * d >= p * d + d
  <2>1. m >= p + 1 => m * d >= (p + 1) * d
    BY <1>1
  <2>2. (p + 1) * d = p * d + d
    BY <1>1
  <2> QED BY <2>1, <2>2
<1>7. m <= p => m * d <= x
  BY <1>1, <1>2, <1>3, <1>5
<1>8. m > p => x < m * d
  BY <1>1, <1>2, <1>3, <1>6
<1> QED BY <1>1, <1>4, <1>7, <1>8

(* A tick lies in its slot, whose start is a slot's own start. *)
LEMMA SlotBounds ==
  ASSUME NEW n \in Nat
  PROVE  /\ n \div TicksPerSlot \in Nat /\ SlotOf(n) \in Nat
         /\ SlotOf(n) <= n /\ n < SlotOf(n) + TicksPerSlot
<1> DEFINE p == n \div TicksPerSlot
           r == n % TicksPerSlot
<1>1. TicksPerSlot \in Nat \ {0}
  BY TimelineRates
<1>2. p \in Nat /\ r \in Nat /\ r < TicksPerSlot /\ n = p * TicksPerSlot + r
  BY <1>1
<1>3. SlotOf(n) = p * TicksPerSlot
  BY DEF SlotOf
<1>4. p = n \div TicksPerSlot
  OBVIOUS
<1> HIDE DEF p, r
<1>5. p * TicksPerSlot \in Nat
  BY <1>1, <1>2
<1> QED BY <1>1, <1>2, <1>3, <1>4, <1>5

(* The slot of a tick between a slot's start and its end is that slot. *)
LEMMA SlotIsUnique ==
  ASSUME NEW n \in Nat, NEW q \in Nat,
         q * TicksPerSlot <= n, n < q * TicksPerSlot + TicksPerSlot
  PROVE  SlotOf(n) = q * TicksPerSlot
<1>1. TicksPerSlot \in Nat \ {0}
  BY TimelineRates
<1>2. n \div TicksPerSlot = q
  BY <1>1, QuotientIsUnique
<1> QED BY <1>2 DEF SlotOf

(* Where the slot changes from one tick to the next, a slot starts. *)
LEMMA SlotChanges ==
  ASSUME NEW n \in Nat \ {0}, SlotOf(n - 1) # SlotOf(n)
  PROVE  SlotOf(n) = n
<1> DEFINE p == n \div TicksPerSlot
<1>1. p \in Nat /\ SlotOf(n) = p * TicksPerSlot /\ TicksPerSlot \in Nat \ {0}
  BY SlotBounds, TimelineRates DEF SlotOf
<1>2. SlotOf(n) <= n /\ n < SlotOf(n) + TicksPerSlot
  BY SlotBounds
<1> HIDE DEF p
<1>3. p * TicksPerSlot \in Nat
  BY <1>1
<1>4. CASE p * TicksPerSlot <= n - 1
  <2>1. n - 1 \in Nat /\ n - 1 < p * TicksPerSlot + TicksPerSlot
    BY <1>1, <1>2, <1>3
  <2>2. SlotOf(n - 1) = p * TicksPerSlot
    BY <1>1, <1>4, <2>1, SlotIsUnique
  <2> QED BY <1>1, <2>2
<1> QED BY <1>1, <1>2, <1>3, <1>4

(* The tick after a slot's last one starts a slot. *)
LEMMA SlotEnds ==
  ASSUME NEW n \in Nat, n + 1 = SlotOf(n) + TicksPerSlot
  PROVE  SlotOf(n + 1) = n + 1
<1> DEFINE p == n \div TicksPerSlot
<1>1. p \in Nat /\ SlotOf(n) = p * TicksPerSlot /\ TicksPerSlot \in Nat \ {0}
  BY SlotBounds, TimelineRates DEF SlotOf
<1> HIDE DEF p
<1>2. (p + 1) * TicksPerSlot = p * TicksPerSlot + TicksPerSlot
  BY <1>1
<1>3. p * TicksPerSlot \in Nat /\ p + 1 \in Nat /\ (p + 1) * TicksPerSlot \in Nat
  BY <1>1
<1>4. (p + 1) * TicksPerSlot = n + 1
  BY <1>1, <1>2
<1>5. (p + 1) * TicksPerSlot <= n + 1 /\ n + 1 < (p + 1) * TicksPerSlot + TicksPerSlot
  BY <1>1, <1>3, <1>4
<1>6. SlotOf(n + 1) = (p + 1) * TicksPerSlot
  BY <1>3, <1>5, SlotIsUnique
<1> QED BY <1>4, <1>6

LEMMA AnchorTickType ==
  ASSUME NEW a \in Anchors
  PROVE  AnchorTick(a) \in Nat
<1>1. a.utc \in Nat /\ OutRate \in Nat
  BY TimelineRates DEF Anchors
<1> QED BY <1>1 DEF AnchorTick

(* Only a slot that begins before the anchor is mapped before the stream's *)
(* monotonic origin.                                                       *)
LEMMA MappingFails ==
  ASSUME NEW a \in Anchors, NEW slot \in Nat, SlotMapping(a, slot).mono < 0
  PROVE  slot < AnchorTick(a)
<1> DEFINE q == slot \div OutRate
<1>1. a.utc \in Nat /\ a.mono \in Nat /\ OutRate \in Nat \ {0}
  BY TimelineRates DEF Anchors
<1>2. SlotMapping(a, slot).mono \in {a.mono, a.mono + q - a.utc}
  BY DEF SlotMapping
<1>3. q \in Nat /\ (a.utc > q => slot < a.utc * OutRate)
  BY <1>1, QuotientBounds
<1> HIDE DEF q
<1>4. a.utc > q
  BY <1>1, <1>2, <1>3
<1> QED BY <1>3, <1>4 DEF AnchorTick

(* A slot about to begin starts where this run of batches can fill it. *)
LEMMA FirstOfSlot ==
  ASSUME NEW a \in Anchors, NEW n \in Nat, AnchorTick(a) <= n,
         n = AnchorTick(a) \/ SlotOf(n) = n
  PROVE  FirstTick(a, SlotOf(n)) = n
<1>1. SlotOf(n) \in Nat /\ SlotOf(n) <= n /\ AnchorTick(a) \in Nat
  BY SlotBounds, AnchorTickType
<1> QED BY <1>1 DEF FirstTick

LEMMA FirstTickType ==
  ASSUME NEW a \in Anchors, NEW slot \in Nat
  PROVE  /\ FirstTick(a, slot) \in Nat
         /\ slot <= FirstTick(a, slot) /\ AnchorTick(a) <= FirstTick(a, slot)
         /\ FirstTick(a, slot) \in {slot, AnchorTick(a)}
<1>1. AnchorTick(a) \in Nat
  BY AnchorTickType
<1> QED BY <1>1 DEF FirstTick

(* Where the tick's slot is not the one in progress, a slot may begin. *)
LEMMA FreshBegins ==
  ASSUME NEW a \in Anchors, NEW n \in Nat, NEW active \in Progress \union {NoSlot},
         Joined(a, n, active), active.slot # SlotOf(n)
  PROVE  n = AnchorTick(a) \/ SlotOf(n) = n
<1>1. CASE active = NoSlot
  BY <1>1 DEF Joined
<1>2. CASE active # NoSlot
  <2>1. AnchorTick(a) < n /\ active.slot = SlotOf(n - 1)
    BY <1>2 DEF Joined
  <2>2. n \in Nat \ {0}
    BY <2>1, AnchorTickType
  <2> QED BY <2>1, <2>2, SlotChanges
<1> QED BY <1>1, <1>2

(* The samples of the tick's slot once the tick's own has joined them. *)
SamplesWith(n, active, sample) ==
  IF active.slot # SlotOf(n) THEN <<sample>> ELSE Append(active.samples, sample)

LEMMA SamplesJoin ==
  ASSUME NEW a \in Anchors, NEW n \in Nat, NEW active \in Progress \union {NoSlot},
         NEW sample \in Pair, Joined(a, n, active), Bracketed(a, n, sample)
  PROVE  LET f == FirstTick(a, SlotOf(n))
             samples == SamplesWith(n, active, sample)
         IN  /\ samples \in Seq(Pair)
             /\ Len(samples) = n + 1 - f
             /\ \A k \in 1..Len(samples) : Bracketed(a, f + k - 1, samples[k])
<1> DEFINE f == FirstTick(a, SlotOf(n))
           samples == SamplesWith(n, active, sample)
<1>1. AnchorTick(a) <= n /\ SlotOf(n) \in Nat
  BY SlotBounds DEF Joined
<1>2. f \in Nat
  BY <1>1, FirstTickType
<1>3. CASE active.slot # SlotOf(n)
  <2>1. f = n
    BY <1>1, <1>3, FreshBegins, FirstOfSlot
  <2>2. samples = <<sample>>
    BY <1>3 DEF SamplesWith
  <2> HIDE DEF f, samples
  <2>3. samples \in Seq(Pair) /\ Len(samples) = 1 /\ samples[1] = sample
    BY <2>2
  <2>4. \A k \in 1..Len(samples) : Bracketed(a, f + k - 1, samples[k])
    <3> SUFFICES ASSUME NEW k \in 1..Len(samples)
                 PROVE  Bracketed(a, f + k - 1, samples[k])
      OBVIOUS
    <3>1. k = 1
      BY <2>3
    <3>2. f + k - 1 = n
      BY <2>1, <3>1
    <3> QED BY <2>3, <3>1, <3>2
  <2>5. Len(samples) = n + 1 - f
    BY <2>1, <2>3
  <2> QED BY <2>3, <2>4, <2>5 DEF f, samples
<1>4. CASE active.slot = SlotOf(n)
  <2>1. active # NoSlot
    BY <1>1, <1>4 DEF NoSlot
  <2>2. active \in Progress /\ active.samples \in Seq(Pair)
    BY <2>1 DEF Progress
  <2>3. /\ Len(active.samples) = n - f
        /\ \A k \in 1..Len(active.samples) : Bracketed(a, f + k - 1, active.samples[k])
    BY <1>4, <2>1 DEF Joined
  <2>4. samples = Append(active.samples, sample)
    BY <1>4 DEF SamplesWith
  <2> HIDE DEF f, samples
  <2>5. /\ samples \in Seq(Pair) /\ Len(samples) = Len(active.samples) + 1
        /\ \A k \in 1..Len(active.samples) : samples[k] = active.samples[k]
        /\ samples[Len(active.samples) + 1] = sample
    BY <2>2, <2>4, AppendProperties
  <2>6. Len(active.samples) \in Nat
    BY <2>2, LenProperties
  <2>7. Len(samples) = n + 1 - f
    BY <1>2, <2>3, <2>5
  <2>8. \A k \in 1..Len(samples) : Bracketed(a, f + k - 1, samples[k])
    <3> SUFFICES ASSUME NEW k \in 1..Len(samples)
                 PROVE  Bracketed(a, f + k - 1, samples[k])
      OBVIOUS
    <3>1. CASE k \in 1..Len(active.samples)
      BY <2>3, <2>5, <3>1
    <3>2. CASE k = Len(active.samples) + 1
      <4>1. f + k - 1 = n
        BY <1>2, <2>3, <2>6, <3>2
      <4>2. samples[k] = sample
        BY <2>5, <3>2
      <4> QED BY <4>1, <4>2
    <3>3. k \in 1..Len(active.samples) \/ k = Len(active.samples) + 1
      BY <2>5, <2>6
    <3> QED BY <3>1, <3>2, <3>3
  <2> QED BY <2>5, <2>7, <2>8 DEF f, samples
<1> QED BY <1>3, <1>4

(* The tick's own slot is not before the one that can still be published.  *)
LEMMA StartAdvances ==
  ASSUME NEW a \in Anchors, NEW r, r.nextTick \in Nat,
         r.active \in Progress \union {NoSlot}, Joined(a, r.nextTick, r.active)
  PROVE  /\ Start(a, r) <= FirstTick(a, SlotOf(r.nextTick))
         /\ AnchorTick(a) <= Start(a, r) /\ Start(a, r) \in Nat
<1> DEFINE n == r.nextTick
           active == r.active
<1>1. /\ n \in Nat /\ SlotOf(n) \in Nat /\ AnchorTick(a) \in Nat
      /\ AnchorTick(a) <= n
  BY AnchorTickType, SlotBounds DEF Joined
<1>2. CASE active = NoSlot
  <2>1. Start(a, r) = n /\ FirstTick(a, SlotOf(n)) = n
    BY <1>1, <1>2, FirstOfSlot DEF Joined, Start
  <2> QED BY <1>1, <2>1
<1>3. CASE active # NoSlot
  <2> DEFINE f == FirstTick(a, active.slot)
             l == Len(active.samples)
  <2>1. active.slot \in Nat /\ l \in Nat
    BY <1>3, LenProperties DEF Progress
  <2>2. Start(a, r) = f /\ f \in Nat /\ AnchorTick(a) <= f
    BY <1>3, <2>1, FirstTickType DEF Start
  <2>3. CASE active.slot = SlotOf(n)
    BY <2>2, <2>3
  <2>4. CASE active.slot # SlotOf(n)
    <3>1. FirstTick(a, SlotOf(n)) = n
      BY <1>1, <2>4, FreshBegins, FirstOfSlot
    <3>2. l = n - f
      BY <1>3 DEF Joined
    <3> HIDE DEF f, l, n
    <3>3. f <= n
      BY <1>1, <2>1, <2>2, <3>2
    <3> QED BY <2>2, <3>1, <3>3 DEF n
  <2> QED BY <2>3, <2>4
<1> QED BY <1>2, <1>3

(* push_output fails to map a new slot, publishes the slot its sample      *)
(* completes, or keeps the slot in progress.                               *)
LEMMA OutputCases ==
  ASSUME NEW a \in Anchors, NEW w \in Works, NEW sample \in Pair
  PROVE  LET slot == SlotOf(w.nextTick)
             fresh == w.active.slot # slot
             samples == SamplesWith(w.nextTick, w.active, sample)
             given == IF fresh /\ w.active # NoSlot THEN w.incomplete + 1 ELSE w.incomplete
             begun == IF fresh THEN w.begun + 1 ELSE w.begun
             w2 == PushOutput(a, w, sample)
         IN  \/ /\ fresh /\ SlotMapping(a, slot).mono < 0
                /\ w2 = [w EXCEPT !.active = NoSlot, !.failed = TRUE]
             \/ /\ Len(samples) = TicksPerSlot
                /\ w2 = [w EXCEPT !.active = NoSlot, !.begun = begun, !.nextTick = @ + 1,
                          !.incomplete = given,
                          !.windows = Append(@, [slot |-> slot, samples |-> samples])]
             \/ /\ Len(samples) # TicksPerSlot
                /\ w2 = [w EXCEPT !.active = [slot |-> slot, samples |-> samples],
                          !.begun = begun, !.nextTick = @ + 1, !.incomplete = given]
BY DEF PushOutput, SamplesWith

(* The step publishes no slot, or one that can still be published.         *)
InOrder(a, w, w2) ==
  \/ w2.windows = w.windows /\ Start(a, w) <= Start(a, w2)
  \/ \E window \in Progress :
       /\ w2.windows = Append(w.windows, window)
       /\ Start(a, w) <= window.slot /\ window.slot < Start(a, w2)
       /\ window.slot + TicksPerSlot - 1 = w.nextTick

(* What push_output keeps of a push that has not failed. *)
Taken(a, w, w2, before) ==
  /\ w2 \in Works /\ w2.prev = w.prev
  /\ Joined(a, w2.nextTick, w2.active)
  /\ Tallied(a, w2, before)
  /\ InOrder(a, w, w2)
  /\ IF w2.failed THEN Stuck(a, w2.nextTick, w2.active)
     ELSE w2.nextTick = w.nextTick + 1

LEMMA OutputFails ==
  ASSUME NEW a \in Anchors, NEW w \in Works, NEW before \in {0, 1},
         Joined(a, w.nextTick, w.active), Tallied(a, w, before),
         w.active.slot # SlotOf(w.nextTick),
         SlotMapping(a, SlotOf(w.nextTick)).mono < 0
  PROVE  Taken(a, w, [w EXCEPT !.active = NoSlot, !.failed = TRUE], before)
<1> DEFINE n == w.nextTick
           w2 == [w EXCEPT !.active = NoSlot, !.failed = TRUE]
<1>1. n \in Nat /\ AnchorTick(a) \in Nat /\ AnchorTick(a) <= n /\ SlotOf(n) \in Nat
  BY SlotBounds, AnchorTickType DEF Works, Joined
<1>2. SlotOf(n) < AnchorTick(a)
  BY <1>1, MappingFails
<1>3. w.active \in Progress \union {NoSlot}
  BY DEF Works
<1>4. n = AnchorTick(a)
  BY <1>1, <1>2, <1>3, FreshBegins
<1>5. w.active = NoSlot
  BY <1>1, <1>4 DEF Joined
<1>6. /\ w2 \in Works /\ w2.prev = w.prev /\ w2.nextTick = n /\ w2.active = w.active
      /\ w2.windows = w.windows /\ w2.incomplete = w.incomplete /\ w2.begun = w.begun
      /\ w2.failed
  BY <1>5 DEF Works
<1> HIDE DEF w2
<1>7. Joined(a, w2.nextTick, w2.active)
  BY <1>6
<1>8. Tallied(a, w2, before)
  BY <1>6 DEF Tallied
<1>9. Stuck(a, w2.nextTick, w2.active)
  BY <1>4, <1>5, <1>6 DEF Stuck
<1>10. Start(a, w) = n /\ Start(a, w2) = n
  BY <1>5, <1>6 DEF Start
<1>11. InOrder(a, w, w2)
  BY <1>1, <1>6, <1>10 DEF InOrder
<1> QED BY <1>6, <1>7, <1>8, <1>9, <1>11 DEF Taken, w2

(* The counters of a push that goes on to the next tick. *)
LEMMA OutputCounts ==
  ASSUME NEW w \in Works, NEW fresh \in BOOLEAN,
         ~fresh => w.active # NoSlot
  PROVE  LET given == IF fresh /\ w.active # NoSlot THEN w.incomplete + 1 ELSE w.incomplete
             begun == IF fresh THEN w.begun + 1 ELSE w.begun
         IN  /\ given \in Nat /\ begun \in Nat
             /\ begun - given = w.begun - w.incomplete + 1 - InProgress(w.active)
<1>1. w.incomplete \in Nat /\ w.begun \in Nat
  BY DEF Works
<1> QED BY <1>1 DEF InProgress

(* A slot whose samples are not all there yet is the one in progress. *)
LEMMA JoinedNext ==
  ASSUME NEW a \in Anchors, NEW n \in Nat, NEW active \in Progress,
         AnchorTick(a) <= n, active.slot = SlotOf(n),
         Len(active.samples) = n + 1 - FirstTick(a, active.slot),
         Len(active.samples) < TicksPerSlot,
         \A k \in 1..Len(active.samples) :
           Bracketed(a, FirstTick(a, active.slot) + k - 1, active.samples[k])
  PROVE  Joined(a, n + 1, active)
<1> DEFINE m == n + 1
<1>1. AnchorTick(a) \in Nat
  BY AnchorTickType
<1>2. AnchorTick(a) <= m /\ AnchorTick(a) < m /\ m - 1 = n /\ m = n + 1
  BY <1>1
<1>3. active # NoSlot
  BY DEF Progress, NoSlot
<1> DEFINE f == FirstTick(a, active.slot)
<1>6. Len(active.samples) = n + 1 - f
  OBVIOUS
<1>7. active.slot \in Nat /\ f \in Nat /\ m \in Nat
  BY FirstTickType DEF Progress
<1> HIDE DEF m, f
<1>8. Len(active.samples) = m - f /\ active.slot = SlotOf(m - 1)
  BY <1>2, <1>6, <1>7
<1>4. Len(active.samples) = m - FirstTick(a, active.slot) /\ active.slot = SlotOf(m - 1)
  BY <1>8 DEF f
<1>5. Joined(a, m, active)
  BY <1>2, <1>3, <1>4 DEF Joined
<1> QED BY <1>5 DEF m

LEMMA OutputPart ==
  ASSUME NEW a \in Anchors, NEW w \in Works, NEW before \in {0, 1}, NEW w2 \in Works,
         NEW slot, slot = SlotOf(w.nextTick),
         NEW samples \in Seq(Pair), NEW begun \in Nat, NEW given \in Nat,
         Joined(a, w.nextTick, w.active), Tallied(a, w, before), ~w.failed,
         begun - given = w.begun - w.incomplete + 1 - InProgress(w.active),
         Len(samples) # TicksPerSlot,
         Len(samples) = w.nextTick + 1 - FirstTick(a, slot),
         \A k \in 1..Len(samples) : Bracketed(a, FirstTick(a, slot) + k - 1, samples[k]),
         w2.prev = w.prev, w2.nextTick = w.nextTick + 1,
         w2.active = [slot |-> slot, samples |-> samples], w2.windows = w.windows,
         w2.incomplete = given, w2.begun = begun, w2.failed = w.failed
  PROVE  Taken(a, w, w2, before)
<1> DEFINE n == w.nextTick
           active == w2.active
<1>1. n \in Nat /\ AnchorTick(a) \in Nat /\ AnchorTick(a) <= n
  BY AnchorTickType DEF Works, Joined
<1>2. slot \in Nat /\ slot <= n /\ n < slot + TicksPerSlot /\ TicksPerSlot \in Nat
  BY <1>1, SlotBounds, TimelineRates
<1>3. /\ FirstTick(a, slot) \in Nat /\ slot <= FirstTick(a, slot)
  BY <1>2, FirstTickType
<1>4. active \in Progress /\ active.slot = slot /\ active.samples = samples /\ active # NoSlot
  BY <1>2 DEF Progress, NoSlot
<1> HIDE DEF active
<1>5. w.windows \in Seq(Progress) /\ Len(w.windows) \in Nat
      /\ w.incomplete \in Nat /\ w.begun \in Nat
  BY LenProperties DEF Works
<1>6. active = w2.active
  BY DEF active
<1>7. Joined(a, w2.nextTick, w2.active)
  <2>1. Len(samples) \in Nat
    BY LenProperties
  <2> DEFINE f == FirstTick(a, slot)
             l == Len(samples)
  <2>2. l = n + 1 - f /\ l # TicksPerSlot /\ l \in Nat /\ f \in Nat /\ slot <= f
    BY <1>3, <2>1
  <2> HIDE DEF n, f, l
  <2>4. l < TicksPerSlot
    BY <1>1, <1>2, <2>2
  <2>5. Len(samples) < TicksPerSlot /\ Len(samples) = n + 1 - FirstTick(a, slot)
    BY <2>2, <2>4 DEF f, l
  <2>3. Joined(a, n + 1, active)
    BY <1>1, <1>2, <1>4, <2>5, JoinedNext DEF n
  <2> QED BY <1>6, <2>3 DEF n
<1>8. Tallied(a, w2, before)
  <2>1. n + 1 # AnchorTick(a)
    BY <1>1
  <2> DEFINE b == w.begun
             i == w.incomplete
             l == Len(w.windows)
             j == InProgress(w.active)
  <2>2. b + before = l + i + j /\ begun - given = b - i + 1 - j
    BY DEF Tallied
  <2>3. b \in Int /\ i \in Int /\ l \in Int /\ j \in Int /\ before \in Int
    BY <1>5 DEF InProgress
  <2>4. l = Len(w.windows) /\ InProgress(active) = 1
    BY <1>4 DEF InProgress
  <2> HIDE DEF b, i, l, j
  <2>5. begun + before = l + given + 1
    BY <2>2, <2>3, SMTT(60)
  <2> QED BY <1>6, <2>1, <2>4, <2>5 DEF Tallied
<1>9. InOrder(a, w, w2)
  <2>1. Start(a, w2) = FirstTick(a, slot)
    BY <1>4, <1>6 DEF Start
  <2>2. Start(a, w) <= FirstTick(a, slot)
    BY <1>1, StartAdvances DEF Works
  <2> QED BY <2>1, <2>2 DEF InOrder
<1> QED BY <1>7, <1>8, <1>9 DEF Taken

(* A slot of as many samples as it has ticks was filled from its start. *)
LEMMA FilledFromStart ==
  ASSUME NEW a \in Anchors, NEW n \in Nat, NEW l \in Nat,
         l = n + 1 - FirstTick(a, SlotOf(n)), l = TicksPerSlot
  PROVE  /\ FirstTick(a, SlotOf(n)) = SlotOf(n) /\ n + 1 = SlotOf(n) + TicksPerSlot
         /\ SlotOf(n) < n + 1 /\ SlotOf(n) + TicksPerSlot - 1 = n
<1> DEFINE slot == SlotOf(n)
           f == FirstTick(a, SlotOf(n))
<1>1. slot \in Nat /\ slot <= n /\ n < slot + TicksPerSlot /\ TicksPerSlot \in Nat
  BY SlotBounds, TimelineRates
<1>2. f \in Nat /\ slot <= f
  BY <1>1, FirstTickType
<1>3. l = n + 1 - f
  OBVIOUS
<1> HIDE DEF slot, f
<1>4. /\ f = slot /\ n + 1 = slot + TicksPerSlot
      /\ slot < n + 1 /\ slot + TicksPerSlot - 1 = n
  BY <1>1, <1>2, <1>3
<1> QED BY <1>4 DEF slot, f

(* Appending a whole window keeps all of them whole. *)
LEMMA WindowsAppend ==
  ASSUME NEW a, NEW published \in Seq(Progress), NEW window \in Progress,
         \A i \in 1..Len(published) : WholeWindow(a, published[i]),
         WholeWindow(a, window)
  PROVE  \A i \in 1..Len(Append(published, window)) :
           WholeWindow(a, Append(published, window)[i])
<1> DEFINE longer == Append(published, window)
<1>1. /\ Len(longer) = Len(published) + 1 /\ Len(published) \in Nat
      /\ \A i \in 1..Len(published) : longer[i] = published[i]
      /\ longer[Len(published) + 1] = window
  BY AppendProperties, LenProperties
<1> HIDE DEF longer
<1>2. SUFFICES ASSUME NEW i \in 1..Len(longer)
               PROVE  WholeWindow(a, longer[i])
  BY DEF longer
<1>3. i \in 1..Len(published) \/ i = Len(published) + 1
  BY <1>1
<1> QED BY <1>1, <1>3

LEMMA OutputWhole ==
  ASSUME NEW a \in Anchors, NEW w \in Works, NEW before \in {0, 1}, NEW w2 \in Works,
         NEW slot, slot = SlotOf(w.nextTick),
         NEW samples \in Seq(Pair), NEW begun \in Nat, NEW given \in Nat,
         Joined(a, w.nextTick, w.active), Tallied(a, w, before), ~w.failed,
         begun - given = w.begun - w.incomplete + 1 - InProgress(w.active),
         Len(samples) = TicksPerSlot,
         Len(samples) = w.nextTick + 1 - FirstTick(a, slot),
         \A k \in 1..Len(samples) : Bracketed(a, FirstTick(a, slot) + k - 1, samples[k]),
         w2.prev = w.prev, w2.nextTick = w.nextTick + 1, w2.active = NoSlot,
         w2.windows = Append(w.windows, [slot |-> slot, samples |-> samples]),
         w2.incomplete = given, w2.begun = begun, w2.failed = w.failed
  PROVE  Taken(a, w, w2, before)
<1> DEFINE n == w.nextTick
           window == [slot |-> slot, samples |-> samples]
<1>1. n \in Nat /\ AnchorTick(a) \in Nat /\ AnchorTick(a) <= n
  BY AnchorTickType DEF Works, Joined
<1>2. slot \in Nat
  BY <1>1, SlotBounds
<1>3. /\ FirstTick(a, slot) = slot /\ n + 1 = slot + TicksPerSlot
      /\ slot < n + 1 /\ slot + TicksPerSlot - 1 = n
  BY <1>1, LenProperties, FilledFromStart
<1>4. window \in Progress /\ window.slot = slot /\ window.samples = samples
  BY <1>2 DEF Progress
<1>5. WholeWindow(a, window)
  BY <1>3, <1>4, TimelineRates DEF WholeWindow
<1>6. /\ w.windows \in Seq(Progress) /\ Len(w.windows) \in Nat
      /\ Len(w2.windows) = Len(w.windows) + 1
      /\ w.incomplete \in Nat /\ w.begun \in Nat
  BY <1>4, LenProperties, AppendProperties DEF Works
<1>7. Joined(a, w2.nextTick, w2.active)
  <2> DEFINE m == n + 1
  <2>1. AnchorTick(a) <= m /\ w2.nextTick = m
    BY <1>1
  <2>2. SlotOf(m) = m
    BY <1>1, <1>3, SlotEnds
  <2> HIDE DEF m
  <2> QED BY <2>1, <2>2 DEF Joined
<1>8. Tallied(a, w2, before)
  <2>1. n + 1 # AnchorTick(a)
    BY <1>1
  <2> DEFINE b == w.begun
             i == w.incomplete
             l == Len(w.windows)
             j == InProgress(w.active)
  <2>2. b + before = l + i + j /\ begun - given = b - i + 1 - j
    BY DEF Tallied
  <2>3. b \in Int /\ i \in Int /\ l \in Int /\ j \in Int /\ before \in Int
    BY <1>6 DEF InProgress
  <2>4. l + 1 = Len(w2.windows) /\ InProgress(w2.active) = 0
    BY <1>6 DEF InProgress
  <2> HIDE DEF b, i, l, j
  <2>5. begun + before = (l + 1) + given + 0
    BY <2>2, <2>3
  <2>6. w2.begun + before = Len(w2.windows) + w2.incomplete + InProgress(w2.active)
    BY <2>4, <2>5
  <2>7. \A k \in 1..Len(w.windows) : WholeWindow(a, w.windows[k])
    BY DEF Tallied
  <2>8. \A k \in 1..Len(w2.windows) : WholeWindow(a, w2.windows[k])
    BY <1>4, <1>5, <1>6, <2>7, WindowsAppend
  <2>9. w2.nextTick # AnchorTick(a)
    BY <2>1
  <2> HIDE DEF window
  <2> QED BY <2>6, <2>8, <2>9 DEF Tallied
<1>9. InOrder(a, w, w2)
  <2>1. Start(a, w2) = n + 1
    BY DEF Start
  <2>2. Start(a, w) <= FirstTick(a, slot)
    BY <1>1, StartAdvances DEF Works
  <2> HIDE DEF window
  <2>4. w2.windows = Append(w.windows, window)
    BY DEF window
  <2>5. Start(a, w) <= window.slot /\ window.slot < Start(a, w2)
    BY <1>3, <1>4, <2>1, <2>2
  <2>6. window.slot + TicksPerSlot - 1 = w.nextTick
    BY <1>3, <1>4
  <2> QED BY <1>4, <2>4, <2>5, <2>6 DEF InOrder
<1> QED BY <1>7, <1>8, <1>9 DEF Taken

(* push_output keeps what it must of every push that has not failed. *)
LEMMA OutputTaken ==
  ASSUME NEW a \in Anchors, NEW w \in Works, NEW sample \in Pair, NEW before \in {0, 1},
         Joined(a, w.nextTick, w.active), Tallied(a, w, before), ~w.failed,
         Bracketed(a, w.nextTick, sample)
  PROVE  Taken(a, w, PushOutput(a, w, sample), before)
<1> DEFINE n == w.nextTick
           slot == SlotOf(n)
           fresh == w.active.slot # slot
           samples == SamplesWith(n, w.active, sample)
           given == IF fresh /\ w.active # NoSlot THEN w.incomplete + 1 ELSE w.incomplete
           begun == IF fresh THEN w.begun + 1 ELSE w.begun
           w2 == PushOutput(a, w, sample)
<1>1. n \in Nat /\ w.active \in Progress \union {NoSlot} /\ slot \in Nat
      /\ w.windows \in Seq(Progress)
  BY SlotBounds DEF Works
<1>2. /\ samples \in Seq(Pair)
      /\ Len(samples) = n + 1 - FirstTick(a, slot)
      /\ \A k \in 1..Len(samples) : Bracketed(a, FirstTick(a, slot) + k - 1, samples[k])
  BY <1>1, SamplesJoin
<1>3. ~fresh => w.active # NoSlot
  BY <1>1 DEF NoSlot
<1>4. given \in Nat /\ begun \in Nat
  BY <1>3, OutputCounts
<1>11. begun - given = w.begun - w.incomplete + 1 - InProgress(w.active)
  BY <1>3, OutputCounts
<1>5. \/ /\ fresh /\ SlotMapping(a, slot).mono < 0
         /\ w2 = [w EXCEPT !.active = NoSlot, !.failed = TRUE]
      \/ /\ Len(samples) = TicksPerSlot
         /\ w2 = [w EXCEPT !.active = NoSlot, !.begun = begun, !.nextTick = @ + 1,
                           !.incomplete = given,
                           !.windows = Append(@, [slot |-> slot, samples |-> samples])]
      \/ /\ Len(samples) # TicksPerSlot
         /\ w2 = [w EXCEPT !.active = [slot |-> slot, samples |-> samples],
                           !.begun = begun, !.nextTick = @ + 1, !.incomplete = given]
  BY OutputCases
<1>6. [slot |-> slot, samples |-> samples] \in Progress
  BY <1>1, <1>2 DEF Progress
<1>7. Append(w.windows, [slot |-> slot, samples |-> samples]) \in Seq(Progress)
  BY <1>1, <1>6, AppendProperties
<1> DEFINE m == w.nextTick + 1
<1>12. m \in Nat
  BY <1>1
<1> HIDE DEF given, begun, samples, w2
<1>8. CASE /\ fresh /\ SlotMapping(a, slot).mono < 0
           /\ w2 = [w EXCEPT !.active = NoSlot, !.failed = TRUE]
  BY <1>8, OutputFails DEF w2
<1>9. CASE /\ Len(samples) = TicksPerSlot
           /\ w2 = [w EXCEPT !.active = NoSlot, !.begun = begun, !.nextTick = @ + 1,
                             !.incomplete = given,
                             !.windows = Append(@, [slot |-> slot, samples |-> samples])]
  <2> DEFINE published == Append(w.windows, [slot |-> slot, samples |-> samples])
  <2>1. w2 = [w EXCEPT !.active = NoSlot, !.begun = begun, !.nextTick = m,
                       !.incomplete = given, !.windows = published]
    BY <1>9
  <2>2. published \in Seq(Progress)
    BY <1>7
  <2> HIDE DEF published, m
  <2>3. /\ w2 \in Works /\ w2.prev = w.prev /\ w2.nextTick = m
        /\ w2.active = NoSlot /\ w2.windows = published /\ w2.incomplete = given
        /\ w2.begun = begun /\ w2.failed = w.failed
    BY <1>4, <1>12, <2>1, <2>2 DEF Works
  <2>4. Taken(a, w, w2, before)
    BY <1>2, <1>4, <1>9, <1>11, <2>3, OutputWhole DEF published, m
  <2> QED BY <2>4 DEF w2
<1>10. CASE /\ Len(samples) # TicksPerSlot
            /\ w2 = [w EXCEPT !.active = [slot |-> slot, samples |-> samples],
                              !.begun = begun, !.nextTick = @ + 1, !.incomplete = given]
  <2> DEFINE active == [slot |-> slot, samples |-> samples]
  <2>1. w2 = [w EXCEPT !.active = active, !.begun = begun, !.nextTick = m,
                       !.incomplete = given]
    BY <1>10
  <2>2. active \in Progress \union {NoSlot}
    BY <1>6
  <2> HIDE DEF active, m
  <2>3. /\ w2 \in Works /\ w2.prev = w.prev /\ w2.nextTick = m
        /\ w2.active = active /\ w2.windows = w.windows /\ w2.incomplete = given
        /\ w2.begun = begun /\ w2.failed = w.failed
    BY <1>4, <1>12, <2>1, <2>2 DEF Works
  <2>4. w2.active = [slot |-> slot, samples |-> samples] /\ Len(samples) # TicksPerSlot
    BY <1>10, <2>3 DEF active
  <2>5. Taken(a, w, w2, before)
    BY <1>2, <1>4, <1>11, <2>3, <2>4, OutputPart DEF m
  <2> QED BY <2>5 DEF w2
<1> QED BY <1>5, <1>8, <1>9, <1>10

(* The last tick due by a frame is the last one not after it. *)
LEMMA DueBounds ==
  ASSUME NEW a \in Anchors, NEW position \in Nat, NEW tick \in Nat,
         a.pos <= position
  PROVE  /\ AnchorTick(a) <= DueTick(a, position)
         /\ tick <= DueTick(a, position) =>
              (tick - AnchorTick(a)) * SrcRate <= (position - a.pos) * OutRate
         /\ tick > DueTick(a, position) => NotAfter(a, position, tick)
<1> DEFINE x == (position - a.pos) * OutRate
           m == tick - AnchorTick(a)
           q == x \div SrcRate
<1>1. a.pos \in Nat /\ AnchorTick(a) \in Nat /\ OutRate \in Nat \ {0} /\ SrcRate \in Nat \ {0}
  BY AnchorTickType, TimelineRates DEF Anchors
<1>2. position - a.pos \in Nat
  BY <1>1
<1>3. x \in Nat /\ m \in Int
  BY <1>1, <1>2
<1>4. DueTick(a, position) = AnchorTick(a) + q
  BY DEF DueTick
<1>5. NotAfter(a, position, tick) <=> x <= m * SrcRate
  BY DEF NotAfter
<1> HIDE DEF x
<1>6. q \in Nat /\ (m <= q => m * SrcRate <= x) /\ (m > q => x < m * SrcRate)
  BY <1>1, <1>3, QuotientBounds
<1>7. m * SrcRate \in Int
  BY <1>1, <1>3
<1>8. m = tick - AnchorTick(a)
  OBVIOUS
<1> HIDE DEF m, q
<1>9. /\ AnchorTick(a) <= AnchorTick(a) + q
      /\ tick <= AnchorTick(a) + q => m <= q
      /\ tick > AnchorTick(a) + q => m > q
  BY <1>1, <1>3, <1>6, <1>8
<1>10. /\ tick <= AnchorTick(a) + q => m * SrcRate <= x
       /\ tick > AnchorTick(a) + q => x <= m * SrcRate
  BY <1>3, <1>6, <1>7, <1>9
<1> QED BY <1>4, <1>5, <1>9, <1>10 DEF x, m

LEMMA NotAfterNext ==
  ASSUME NEW a \in Anchors, NEW frame \in Nat, NEW n \in Nat, NotAfter(a, frame, n)
  PROVE  NotAfter(a, frame, n + 1)
<1> DEFINE x == (frame - a.pos) * OutRate
           m == n - AnchorTick(a)
           tick == n + 1
<1>1. x <= m * SrcRate
  BY DEF NotAfter
<1>2. /\ AnchorTick(a) \in Nat /\ SrcRate \in Nat /\ OutRate \in Nat /\ a.pos \in Nat
  BY AnchorTickType, TimelineRates DEF Anchors
<1>3. x \in Int /\ m \in Int /\ tick - AnchorTick(a) = m + 1
  BY <1>2
<1> HIDE DEF m
<1>4. (m + 1) * SrcRate = m * SrcRate + SrcRate /\ m * SrcRate \in Int
  BY <1>2, <1>3
<1> HIDE DEF tick
<1>5. NotAfter(a, frame, tick) <=> x <= (tick - AnchorTick(a)) * SrcRate
  BY DEF NotAfter
<1> HIDE DEF x
<1>6. NotAfter(a, frame, tick)
  BY <1>1, <1>2, <1>3, <1>4, <1>5
<1> QED BY <1>6 DEF tick

LEMMA PreviousType ==
  ASSUME NEW p \in Pushes
  PROVE  /\ PreviousOf(p) \in Nat /\ p.position \in Nat /\ p.work \in Works
         /\ p.tl \in Timelines /\ p.batch \in Batches /\ p.at \in Nat
         /\ p.work.nextTick \in Nat
         /\ InProgress(p.tl.rs.active) \in {0, 1}
BY DEF Pushes, Works, PreviousOf, InProgress, NoPosition

(* A step of the resampler that takes an output tick. *)
LEMMA OutputTickStep ==
  ASSUME NEW p, Underway(p), ~p.work.failed,
         p.work.nextTick <= DueTick(p.tl.anchor, p.position),
         NEW p2, p2 = [p EXCEPT !.work =
           PushOutput(p.tl.anchor, [p.work EXCEPT !.prev = PreviousOf(p)],
                      <<PreviousOf(p), p.position>>)]
  PROVE  /\ Underway(p2) /\ p2.tl = p.tl /\ p2.batch = p.batch
         /\ p2.position = p.position /\ p2.at = p.at
         /\ InOrder(p.tl.anchor, p.work, p2.work)
<1> DEFINE a == p.tl.anchor
           n == p.work.nextTick
           w == [p.work EXCEPT !.prev = PreviousOf(p)]
           sample == <<PreviousOf(p), p.position>>
           w2 == PushOutput(a, w, sample)
           before == InProgress(p.tl.rs.active)
<1>1. /\ p \in Pushes /\ a \in Anchors /\ a.pos \in Nat /\ a.pos <= p.position
      /\ p.position \in Nat /\ p.work \in Works /\ n \in Nat
      /\ before \in {0, 1} /\ PreviousOf(p) \in Nat /\ PreviousOf(p) # NoPosition
  <2>1. p \in Pushes /\ a # NoAnchor
    BY DEF Underway
  <2>2. a \in Anchors
    BY <2>1 DEF Pushes, Timelines
  <2>3. p.batch.first \in Nat /\ a.pos \in Nat
    BY <2>1, <2>2, PreviousType DEF Batches, Anchors
  <2>4. a.pos <= p.batch.first /\ p.batch.first <= p.position
    BY DEF Underway
  <2>5. /\ p.position \in Nat /\ p.work \in Works /\ n \in Nat /\ before \in {0, 1}
        /\ PreviousOf(p) \in Nat
    BY <2>1, PreviousType
  <2>6. a.pos <= p.position
    BY <2>3, <2>4, <2>5
  <2> QED BY <2>1, <2>2, <2>3, <2>5, <2>6 DEF NoPosition
<1>2. /\ w \in Works /\ w.nextTick = n /\ w.active = p.work.active
      /\ w.windows = p.work.windows /\ w.incomplete = p.work.incomplete
      /\ w.begun = p.work.begun /\ ~w.failed /\ w.prev = PreviousOf(p)
  BY <1>1 DEF Works
<1>3. sample \in Pair /\ sample[1] = PreviousOf(p) /\ sample[2] = p.position
  BY <1>1 DEF Pair
<1>4. /\ p2.tl = p.tl /\ p2.batch = p.batch /\ p2.work = w2
      /\ p2.position = p.position /\ p2.at = p.at
      /\ w2 \in Works => p2 \in Pushes
  BY <1>1 DEF Pushes
<1> HIDE DEF w, sample, w2
<1>5. Joined(a, w.nextTick, w.active) /\ Tallied(a, w, before)
  BY <1>2 DEF Underway, Tallied
<1>6. Taken(a, w, w2, before)
      /\ (w2.failed \/ Proceeds(p))
  <2>1. CASE Stuck(a, n, p.work.active)
    <3>1. w.active = NoSlot /\ SlotMapping(a, SlotOf(n)).mono < 0
      BY <1>2, <2>1 DEF Stuck
    <3>2. SlotOf(n) \in Nat
      BY <1>1, SlotBounds
    <3>3. w.active.slot # SlotOf(n)
      BY <3>1, <3>2 DEF NoSlot
    <3>4. w2 = [w EXCEPT !.active = NoSlot, !.failed = TRUE]
      BY <1>2, <3>1, <3>3 DEF PushOutput, w2
    <3>5. w2.failed
      BY <1>2, <3>4 DEF Works
    <3> QED BY <1>1, <1>2, <1>5, <3>1, <3>3, <3>4, <3>5, OutputFails
  <2>2. CASE ~Stuck(a, n, p.work.active)
    <3>1. Proceeds(p)
      BY <2>2 DEF Underway
    <3>2. (n - AnchorTick(a)) * SrcRate <= (p.position - a.pos) * OutRate
      BY <1>1, DueBounds
    <3>3. Bracketed(a, n, sample)
      <4>1. (PreviousOf(p) - a.pos) * OutRate <= (n - AnchorTick(a)) * SrcRate
        BY <3>1 DEF Proceeds, NotAfter
      <4>2. p.position - PreviousOf(p) \in {0, 1}
        BY <1>1, <3>1 DEF Proceeds
      <4> QED BY <1>3, <3>2, <4>1, <4>2 DEF Bracketed
    <3> QED BY <1>1, <1>2, <1>3, <1>5, <3>1, <3>3, OutputTaken DEF w2
  <2> QED BY <2>1, <2>2
<1>7. /\ p2 \in Pushes /\ Joined(a, w2.nextTick, w2.active) /\ Tallied(a, w2, before)
      /\ w2.failed => Stuck(a, w2.nextTick, w2.active)
  BY <1>4, <1>6 DEF Taken
<1>8. ASSUME ~w2.failed PROVE Proceeds(p2)
  <2>1. Proceeds(p) /\ w2.nextTick = n + 1 /\ w2.prev = PreviousOf(p)
    BY <1>2, <1>6, <1>8 DEF Taken
  <2>2. PreviousOf(p2) = PreviousOf(p)
    BY <1>1, <1>4, <2>1 DEF PreviousOf
  <2>3. p.batch.first < p.position => w2.prev = p.position - 1
    <3>1. p.batch.first \in Nat
      BY <1>1, PreviousType DEF Batches
    <3>2. p.batch.first < p.position => p.work.prev = p.position - 1 /\ p.work.prev # NoPosition
      BY <1>1, <2>1, <3>1 DEF Proceeds, NoPosition
    <3> QED BY <2>1, <3>2 DEF PreviousOf
  <2>4. NotAfter(a, PreviousOf(p), n + 1)
    BY <1>1, <2>1, NotAfterNext DEF Proceeds
  <2> QED BY <1>4, <2>1, <2>2, <2>3, <2>4 DEF Proceeds
<1>9. InOrder(a, p.work, w2)
  BY <1>2, <1>6 DEF Taken, InOrder, Start
<1> QED BY <1>4, <1>7, <1>8, <1>9 DEF Underway

(* A step of the resampler that is done with a frame. *)
LEMMA FrameDoneStep ==
  ASSUME NEW p, Underway(p), ~p.work.failed,
         p.position < p.batch.first + p.batch.frames,
         p.work.nextTick > DueTick(p.tl.anchor, p.position),
         NEW p2, p2 = [p EXCEPT !.position = @ + 1, !.work.prev = p.position]
  PROVE  /\ Underway(p2) /\ p2.tl = p.tl /\ p2.batch = p.batch /\ p2.at = p.at
         /\ p2.position = p.position + 1
         /\ p2.work.windows = p.work.windows
         /\ Start(p.tl.anchor, p2.work) = Start(p.tl.anchor, p.work)
<1> DEFINE a == p.tl.anchor
           n == p.work.nextTick
           next == p.position + 1
<1>1. p \in Pushes /\ a \in Anchors
  BY DEF Underway, Pushes, Timelines
<1>2. /\ a.pos \in Nat /\ p.position \in Nat /\ p.work \in Works /\ n \in Nat
      /\ p.batch.first \in Nat /\ p.batch.frames \in Nat /\ AnchorTick(a) \in Nat
  BY <1>1, PreviousType, AnchorTickType DEF Anchors, Batches
<1>3. a.pos <= p.batch.first /\ p.batch.first <= p.position /\ a.pos <= p.position
  BY <1>2 DEF Underway
<1>4. next \in Nat
  BY <1>2
<1>5. /\ p2 \in Pushes /\ p2.tl = p.tl /\ p2.batch = p.batch /\ p2.position = next /\ p2.at = p.at
      /\ p2.work = [p.work EXCEPT !.prev = p.position]
  BY <1>1, <1>2, <1>4 DEF Pushes, Works
<1>6. /\ p2.work.nextTick = n /\ p2.work.active = p.work.active
      /\ p2.work.windows = p.work.windows /\ p2.work.incomplete = p.work.incomplete
      /\ p2.work.begun = p.work.begun /\ ~p2.work.failed /\ p2.work.prev = p.position
  BY <1>2, <1>5 DEF Works
<1>7. NotAfter(a, p.position, n) /\ AnchorTick(a) <= DueTick(a, p.position)
  BY <1>1, <1>2, <1>3, DueBounds
<1>8. /\ p.batch.first <= next /\ next <= p.batch.first + p.batch.frames
      /\ p.position = next - 1 /\ p.position # NoPosition
  BY <1>2, <1>3 DEF NoPosition
<1> HIDE DEF next
<1>9. PreviousOf(p2) = p.position
  BY <1>6, <1>8 DEF PreviousOf
<1>10. Proceeds(p2)
  BY <1>3, <1>5, <1>6, <1>7, <1>8, <1>9 DEF Proceeds
<1>11. Joined(a, n, p2.work.active) /\ Tallied(a, p2.work, InProgress(p.tl.rs.active))
  BY <1>6 DEF Underway, Tallied
<1> QED BY <1>3, <1>5, <1>6, <1>8, <1>10, <1>11 DEF Underway, Start, next

(* A timeline that keeps no anchor and no resampler is at rest. *)
LEMMA EmptyAtRest ==
  ASSUME NEW t \in Timelines, t.anchor = NoAnchor, t.rs = NoResampler
  PROVE  AtRest(t)
BY DEF AtRest

(* What a timeline has counted and begun. *)
Counted(t) == t.incomplete + InProgress(t.rs.active)

LEMMA InvalidateStep ==
  ASSUME NEW t \in Timelines
  PROVE  /\ Invalidate(t) \in Timelines
         /\ Invalidate(t).anchor = NoAnchor /\ Invalidate(t).rs = NoResampler
         /\ Counted(Invalidate(t)) = Counted(t)
<1>1. t.incomplete \in Nat /\ t.incomplete + 1 \in Nat
  BY DEF Timelines
<1>2. /\ Invalidate(t) \in Timelines
      /\ Invalidate(t).anchor = NoAnchor /\ Invalidate(t).rs = NoResampler
      /\ Invalidate(t).incomplete = IF t.rs.active = NoSlot THEN t.incomplete
                                    ELSE t.incomplete + 1
  BY <1>1 DEF Timelines, Invalidate
<1>3. InProgress(NoResampler.active) = 0
  BY DEF NoResampler, InProgress
<1> QED BY <1>1, <1>2, <1>3 DEF Counted, InProgress

LEMMA AdvanceStep ==
  ASSUME NEW t \in Timelines, NEW b \in Batches
  PROVE  /\ Advance(t, b) \in Timelines
         /\ Advance(t, b).anchor = t.anchor /\ Advance(t, b).rs = t.rs
         /\ Advance(t, b).expected = b.first + b.frames
         /\ Advance(t, b).incomplete = t.incomplete
         /\ Counted(Advance(t, b)) = Counted(t)
<1>1. b.first + b.frames \in Nat /\ b.first \in Int /\ b.mono \in Int
  BY DEF Batches
<1>2. /\ Advance(t, b) \in Timelines
      /\ Advance(t, b).anchor = t.anchor /\ Advance(t, b).rs = t.rs
      /\ Advance(t, b).expected = b.first + b.frames
      /\ Advance(t, b).incomplete = t.incomplete
  BY <1>1 DEF Timelines, Advance
<1> QED BY <1>2 DEF Counted

LEMMA RejectStep ==
  ASSUME NEW t \in Timelines, NEW b \in Batches, NEW error
  PROVE  /\ AtRest(Reject(t, error).tl) /\ Counted(Reject(t, error).tl) = Counted(t)
         /\ AtRest(RejectPast(t, b, error).tl)
         /\ Counted(RejectPast(t, b, error).tl) = Counted(t)
         /\ Reject(t, error).tl.anchor = NoAnchor
         /\ RejectPast(t, b, error).tl.anchor = NoAnchor
<1> DEFINE i == Invalidate(t)
           j == Advance(i, b)
<1>1. /\ i \in Timelines /\ i.anchor = NoAnchor /\ i.rs = NoResampler
      /\ Counted(i) = Counted(t)
  BY InvalidateStep
<1> HIDE DEF i
<1>2. /\ j \in Timelines /\ j.anchor = NoAnchor /\ j.rs = NoResampler
      /\ Counted(j) = Counted(t)
  BY <1>1, AdvanceStep
<1> HIDE DEF j
<1>3. AtRest(i) /\ AtRest(j)
  BY <1>1, <1>2, EmptyAtRest
<1>4. Reject(t, error).tl = i
  BY DEF Reject, Answer, i
<1>5. RejectPast(t, b, error).tl = j
  BY DEF RejectPast, Answer, i, j
<1> QED BY <1>1, <1>2, <1>3, <1>4, <1>5

(* A batch that is refused leaves the timeline at rest, every slot begun   *)
(* counted; one that is accepted follows the batches before it.            *)
LEMMA CheckedStep ==
  ASSUME NEW t, AtRest(t), NEW b \in Batches, NEW at \in Int,
         NEW answer, answer = Checked(t, b, at)
  PROVE  \/ AtRest(answer.tl) /\ Counted(answer.tl) = Counted(t)
            /\ answer.error # "None" /\ (answer.tl.anchor = NoAnchor \/ answer.tl = t)
         \/ /\ answer.error = "None" /\ answer.tl = Anchored(t, b)
            /\ t.expected \in {NoPosition, b.first}
            /\ t.anchor # NoAnchor => t.anchor.pos <= b.first
            /\ ~(Lateness(b, at) > MaxLateness)
<1> DEFINE Refused == AtRest(answer.tl) /\ Counted(answer.tl) = Counted(t)
                      /\ answer.error # "None"
                      /\ (answer.tl.anchor = NoAnchor \/ answer.tl = t)
           late == [t EXCEPT !.late = @ + 1]
<1>1. t \in Timelines
  BY DEF AtRest
<1>2. late \in Timelines /\ Counted(late) = Counted(t)
  <2>1. t.late + 1 \in Nat
    BY <1>1 DEF Timelines
  <2> QED BY <1>1, <2>1 DEF Timelines, Counted
<1>3. \A error : Reject(t, error).error = error
  BY DEF Reject, Answer
<1>4. \A x, error : RejectPast(x, b, error).error = error
  BY DEF RejectPast, Answer
<1> HIDE DEF late
<1>5. CASE ~b.own
  <2>1. answer = Answer(t, "StreamGenerationChanged")
    BY <1>5 DEF Checked
  <2>2. answer.tl = t /\ answer.error # "None"
    BY <2>1 DEF Answer
  <2> QED BY <2>2
<1>6. CASE b.own /\ Lateness(b, at) > MaxLateness
  <2>1. answer = RejectPast(late, b, "LateData")
    BY <1>6 DEF Checked, late
  <2> QED BY <2>1, <1>2, <1>4, RejectStep
<1> DEFINE ok1 == b.own /\ ~(Lateness(b, at) > MaxLateness)
<1>7. CASE ok1 /\ PositionError(t, b) = "Gap"
  <2>1. answer = RejectPast(t, b, "Gap")
    BY <1>7 DEF Checked
  <2> QED BY <2>1, <1>1, <1>4, RejectStep
<1>8. CASE ok1 /\ PositionError(t, b) \notin {"Gap", "None"}
  <2>1. answer = Reject(t, PositionError(t, b))
    BY <1>8 DEF Checked
  <2> QED BY <2>1, <1>1, <1>3, <1>8, RejectStep
<1> DEFINE ok2 == ok1 /\ PositionError(t, b) = "None"
           marked == b.mark # "None" /\ ~(t.expected = NoPosition /\ b.mark = "StreamRestart")
<1>9. CASE ok2 /\ marked
  <2>1. answer = RejectPast(t, b, "Discontinuity")
    BY <1>9 DEF Checked
  <2> QED BY <2>1, <1>1, <1>4, RejectStep
<1>10. CASE ok2 /\ ~marked /\ t.anchor # NoAnchor /\ MappingError(t, b) # "None"
  <2>1. answer = RejectPast(t, b, MappingError(t, b))
    BY <1>10 DEF Checked
  <2> QED BY <2>1, <1>1, <1>4, <1>10, RejectStep
<1>11. CASE ok2 /\ ~marked /\ ~(t.anchor # NoAnchor /\ MappingError(t, b) # "None")
  <2>1. answer = Answer(Anchored(t, b), "None")
    BY <1>11 DEF Checked
  <2>2. answer.error = "None" /\ answer.tl = Anchored(t, b)
    BY <2>1 DEF Answer
  <2>3. t.expected \in {NoPosition, b.first}
    BY <1>11 DEF PositionError
  <2>4. ASSUME t.anchor # NoAnchor PROVE t.anchor.pos <= b.first
    <3>1. MappingError(t, b) = "None"
      BY <1>11, <2>4
    <3>2. ~(b.first < t.anchor.pos)
      BY <3>1 DEF MappingError
    <3>3. t.anchor.pos \in Nat /\ b.first \in Nat
      BY <1>1, <2>4 DEF Timelines, Anchors, Batches
    <3> QED BY <3>2, <3>3
  <2> QED BY <1>11, <2>2, <2>3, <2>4
<1> QED BY <1>5, <1>6, <1>7, <1>8, <1>9, <1>10, <1>11

LEMMA AnchoredStep ==
  ASSUME NEW t \in Timelines, NEW b \in Batches, NEW t2, t2 = Anchored(t, b)
  PROVE  /\ t2 \in Timelines /\ t2.anchor \in Anchors /\ t2.anchor # NoAnchor
         /\ t2.rs = t.rs /\ t2.incomplete = t.incomplete /\ t2.expected = t.expected
         /\ t.anchor # NoAnchor => t2.anchor = t.anchor
         /\ t.anchor = NoAnchor => t2.anchor.pos = b.first
<1> DEFINE anchor == [pos |-> b.first, utc |-> b.utc, mono |-> b.mono]
<1>1. anchor \in Anchors /\ anchor.pos = b.first
  BY DEF Batches, Anchors
<1>2. \A a \in Anchors : a # NoAnchor
  BY DEF Anchors, NoAnchor
<1> HIDE DEF anchor
<1>3. CASE t.anchor = NoAnchor
  <2>1. t2 = [t EXCEPT !.anchor = anchor]
    BY <1>3 DEF Anchored, anchor
  <2> QED BY <1>1, <1>2, <1>3, <2>1 DEF Timelines
<1>4. CASE t.anchor # NoAnchor
  BY <1>2, <1>4 DEF Anchored, Timelines
<1> QED BY <1>3, <1>4

(* The resampler takes up an accepted batch. *)
LEMMA BeginStep ==
  ASSUME NEW t, AtRest(t), NEW b \in Batches, NEW at \in Nat,
         t.expected \in {NoPosition, b.first},
         t.anchor # NoAnchor => t.anchor.pos <= b.first,
         NEW t2, t2 = Anchored(t, b), NEW p, p = Begin(t2, b, at)
  PROVE  Underway(p) /\ p.tl = t2 /\ p.batch = b
<1> DEFINE a == t2.anchor
           rs == IF t2.rs = NoResampler
                 THEN [NoResampler EXCEPT !.nextTick = AnchorTick(a)] ELSE t2.rs
           work == [nextTick |-> rs.nextTick, prev |-> rs.prev, active |-> rs.active,
                    windows |-> <<>>, incomplete |-> 0, begun |-> 0, failed |-> FALSE]
<1>1. t \in Timelines
  BY DEF AtRest
<1>2. /\ t2 \in Timelines /\ a \in Anchors /\ a # NoAnchor /\ t2.rs = t.rs
      /\ t.anchor # NoAnchor => a = t.anchor
      /\ t.anchor = NoAnchor => a.pos = b.first
  BY <1>1, AnchoredStep
<1>3. AnchorTick(a) \in Nat /\ b.first \in Nat /\ b.frames \in Nat \ {0} /\ a.pos \in Nat
  BY <1>2, AnchorTickType DEF Batches, Anchors
<1>4. /\ p = [tl |-> t2, batch |-> b, at |-> at, position |-> b.first, work |-> work]
      /\ p.tl = t2 /\ p.batch = b /\ p.position = b.first /\ p.work = work /\ p.at = at
  BY DEF Begin
<1>5. /\ work.nextTick = rs.nextTick /\ work.prev = rs.prev /\ work.active = rs.active
      /\ work.windows = <<>> /\ work.incomplete = 0 /\ work.begun = 0 /\ ~work.failed
  OBVIOUS
<1>6. /\ rs.nextTick \in Nat /\ rs.prev \in Nat \union {NoPosition}
      /\ rs.active \in Progress \union {NoSlot} /\ rs.active = t2.rs.active
  <2>1. CASE t2.rs = NoResampler
    BY <1>3, <2>1 DEF NoResampler
  <2>2. CASE t2.rs # NoResampler
    <3>1. t2.rs \in Resamplers /\ rs = t2.rs
      BY <1>2, <2>2 DEF Timelines
    <3> QED BY <3>1 DEF Resamplers
  <2> QED BY <2>1, <2>2
<1>7. work \in Works
  <2>1. <<>> \in Seq(Progress)
    OBVIOUS
  <2> HIDE DEF rs
  <2> QED BY <1>6, <2>1 DEF Works
<1>8. p \in Pushes
  <2> HIDE DEF work, rs
  <2> QED BY <1>2, <1>3, <1>4, <1>7 DEF Pushes
<1>9. a.pos <= b.first
  BY <1>2, <1>3
<1>10. /\ Joined(a, rs.nextTick, rs.active)
       /\ Stuck(a, rs.nextTick, rs.active) \/ Proceeds(p)
  <2>1. CASE t.anchor = NoAnchor
    <3>1. t2.rs = NoResampler
      BY <1>2, <2>1 DEF AtRest
    <3>2. rs.nextTick = AnchorTick(a) /\ rs.active = NoSlot /\ rs.prev = NoPosition
      BY <3>1 DEF NoResampler
    <3> HIDE DEF rs, work
    <3>3. Joined(a, rs.nextTick, rs.active)
      BY <1>3, <3>2 DEF Joined
    <3>4. PreviousOf(p) = b.first
      BY <1>4, <1>5, <3>2 DEF PreviousOf
    <3>5. NotAfter(a, b.first, AnchorTick(a))
      <4>1. a.pos = b.first
        BY <1>2, <2>1
      <4>2. b.first - a.pos = 0 /\ AnchorTick(a) - AnchorTick(a) = 0
        BY <1>3, <4>1
      <4>3. 0 * OutRate <= 0 * SrcRate
        BY TimelineRates
      <4> QED BY <4>2, <4>3 DEF NotAfter
    <3>6. Proceeds(p)
      BY <1>2, <1>3, <1>4, <1>5, <1>9, <3>2, <3>4, <3>5 DEF Proceeds
    <3> QED BY <3>3, <3>6
  <2>2. CASE t.anchor # NoAnchor
    <3>1. a = t.anchor /\ t2.rs = t.rs /\ t.rs # NoResampler /\ rs = t.rs
      BY <1>2, <2>2 DEF AtRest
    <3> HIDE DEF rs, work
    <3>2. Joined(a, rs.nextTick, rs.active)
      BY <3>1 DEF AtRest
    <3>3. ASSUME ~Stuck(a, rs.nextTick, rs.active)
          PROVE  Proceeds(p)
      <4>1. /\ t.expected # NoPosition /\ rs.prev = t.expected - 1 /\ rs.prev \in Nat
            /\ a.pos <= rs.prev /\ NotAfter(a, rs.prev, rs.nextTick)
        BY <3>1, <3>3 DEF AtRest
      <4>2. rs.prev = b.first - 1 /\ rs.prev # NoPosition
        BY <4>1 DEF NoPosition
      <4>3. PreviousOf(p) = b.first - 1
        BY <1>4, <1>5, <4>2 DEF PreviousOf
      <4> QED BY <1>3, <1>4, <1>5, <4>1, <4>2, <4>3 DEF Proceeds
    <3> QED BY <3>2, <3>3
  <2> QED BY <2>1, <2>2
<1>11. Tallied(a, work, InProgress(t2.rs.active))
  <2>1. InProgress(rs.active) \in {0, 1} /\ InProgress(t2.rs.active) = InProgress(rs.active)
    BY <1>6 DEF InProgress
  <2>2. Len(<<>>) = 0
    OBVIOUS
  <2> HIDE DEF work, rs
  <2> QED BY <1>5, <2>1, <2>2 DEF Tallied
<1> HIDE DEF work, rs
<1> QED BY <1>2, <1>3, <1>4, <1>5, <1>8, <1>9, <1>10, <1>11 DEF Underway

(* The end of a push leaves the timeline at rest. *)
LEMMA ReturnStep ==
  ASSUME NEW p, Underway(p),
         NEW t, t = [p.tl EXCEPT !.rs = [nextTick |-> p.work.nextTick, prev |-> p.work.prev,
                                         active |-> p.work.active]]
  PROVE  /\ p.work.failed =>
              AtRest(t) /\ Counted(t) = Counted(p.tl) + p.work.begun
         /\ ~p.work.failed /\ p.position >= p.batch.first + p.batch.frames =>
              \A t2 : t2 = Advance([t EXCEPT !.incomplete = @ + p.work.incomplete], p.batch) =>
                /\ AtRest(t2) /\ t2.anchor = p.tl.anchor
                /\ Counted(t2) + Len(p.work.windows) = Counted(p.tl) + p.work.begun
<1> DEFINE a == p.tl.anchor
           w == p.work
           rs == [nextTick |-> w.nextTick, prev |-> w.prev, active |-> w.active]
<1>1. /\ p \in Pushes /\ a # NoAnchor /\ a \in Anchors
      /\ w \in Works /\ p.batch \in Batches /\ p.tl \in Timelines
  BY DEF Underway, Pushes, Timelines
<1>2. /\ w.nextTick \in Nat /\ w.prev \in Nat \union {NoPosition}
      /\ w.active \in Progress \union {NoSlot}
      /\ w.windows \in Seq(Progress) /\ w.incomplete \in Nat /\ w.begun \in Nat
      /\ p.position \in Nat /\ p.batch.first \in Nat /\ p.batch.frames \in Nat \ {0}
      /\ a.pos \in Nat /\ p.tl.incomplete \in Nat
  BY <1>1 DEF Works, Pushes, Batches, Anchors, Timelines
<1>3. /\ rs \in Resamplers /\ rs # NoResampler /\ rs.nextTick = w.nextTick
      /\ rs.prev = w.prev /\ rs.active = w.active
  BY <1>2 DEF Resamplers, NoResampler
<1> HIDE DEF rs
<1>4. /\ t \in Timelines /\ t.rs = rs /\ t.anchor = a /\ t.incomplete = p.tl.incomplete
      /\ t.expected = p.tl.expected
  BY <1>1, <1>3 DEF Timelines, rs
<1> DEFINE l == Len(w.windows)
           i == w.incomplete
           j == InProgress(w.active)
           before == InProgress(p.tl.rs.active)
<1>5. /\ w.begun + before = l + i + j
      /\ l \in Nat /\ i \in Nat /\ j \in Nat /\ before \in Nat
  <2>1. w.begun + before = l + i + j
    BY DEF Underway, Tallied
  <2>2. l \in Nat /\ i \in Nat /\ j \in Nat /\ before \in Nat
    BY <1>2, LenProperties DEF InProgress
  <2> QED BY <2>1, <2>2
<1>6. Joined(a, rs.nextTick, rs.active)
  BY <1>3 DEF Underway
<1>7. ASSUME w.failed
      PROVE  AtRest(t) /\ Counted(t) = Counted(p.tl) + w.begun
  <2>1. Stuck(a, rs.nextTick, rs.active)
    BY <1>3, <1>7 DEF Underway
  <2>2. AtRest(t)
    BY <1>1, <1>3, <1>4, <1>6, <2>1 DEF AtRest
  <2>3. w.windows = <<>> /\ i = 0
    BY <1>3, <2>1 DEF Stuck, Underway, Tallied
  <2>4. l = 0
    BY <2>3
  <2>5. Counted(t) = p.tl.incomplete + j /\ Counted(p.tl) = p.tl.incomplete + before
    BY <1>3, <1>4 DEF Counted
  <2> DEFINE c == p.tl.incomplete
             g == w.begun
  <2>6. c \in Nat /\ g \in Nat /\ g + before = l + i + j
    BY <1>2, <1>5
  <2> HIDE DEF l, i, j, before, c, g
  <2>7. c + j = c + before + g
    BY <1>5, <2>3, <2>4, <2>6
  <2> QED BY <2>2, <2>5, <2>7 DEF c, g
<1>8. ASSUME ~w.failed, p.position >= p.batch.first + p.batch.frames,
             NEW t2, t2 = Advance([t EXCEPT !.incomplete = @ + w.incomplete], p.batch)
      PROVE  /\ AtRest(t2) /\ t2.anchor = a
             /\ Counted(t2) + Len(w.windows) = Counted(p.tl) + w.begun
  <2> DEFINE t1 == [t EXCEPT !.incomplete = @ + w.incomplete]
  <2>1. /\ t1 \in Timelines /\ t1.rs = rs /\ t1.anchor = a
        /\ t1.incomplete = p.tl.incomplete + i
    <3>1. t.incomplete + w.incomplete \in Nat /\ t.incomplete + w.incomplete = p.tl.incomplete + i
      BY <1>2, <1>4
    <3> QED BY <1>4, <3>1 DEF Timelines
  <2>2. t2 = Advance(t1, p.batch)
    BY <1>8
  <2> HIDE DEF t1
  <2>3. /\ t2 \in Timelines /\ t2.rs = rs /\ t2.anchor = a
        /\ t2.expected = p.batch.first + p.batch.frames
        /\ t2.incomplete = p.tl.incomplete + i
    BY <1>1, <2>1, <2>2, AdvanceStep
  <2>4. p.position = p.batch.first + p.batch.frames /\ p.batch.first < p.position
    <3>1. p.position <= p.batch.first + p.batch.frames
      BY DEF Underway
    <3>2. p.position >= p.batch.first + p.batch.frames
      BY <1>8
    <3>3. p.position \in Nat /\ p.batch.first \in Nat /\ p.batch.frames \in Nat \ {0}
      BY <1>2
    <3> QED BY <3>1, <3>2, <3>3
  <2>5. Proceeds(p)
    BY <1>2, <1>8, <2>4 DEF Underway
  <2>6. w.prev = p.position - 1 /\ w.prev \in Nat
    BY <1>2, <2>4, <2>5 DEF Proceeds
  <2>7. PreviousOf(p) = w.prev
    BY <2>6 DEF PreviousOf, NoPosition
  <2>8. /\ t2.expected # NoPosition /\ rs.prev = t2.expected - 1
        /\ a.pos <= rs.prev /\ NotAfter(a, rs.prev, rs.nextTick)
    BY <1>2, <1>3, <2>3, <2>4, <2>5, <2>6, <2>7 DEF Proceeds, NoPosition
  <2>9. AtRest(t2)
    BY <1>1, <1>3, <1>6, <2>3, <2>6, <2>8 DEF AtRest
  <2>10. Counted(t2) = p.tl.incomplete + i + j /\ Counted(p.tl) = p.tl.incomplete + before
    BY <1>3, <2>3 DEF Counted
  <2> DEFINE c == p.tl.incomplete
             g == w.begun
  <2>11. c \in Nat /\ g \in Nat /\ g + before = l + i + j
         /\ l \in Nat /\ i \in Nat /\ j \in Nat /\ before \in Nat
    BY <1>2, <1>5
  <2> HIDE DEF l, i, j, before, c, g
  <2>12. c + i + j + l = c + before + g
    BY <2>11
  <2> QED BY <2>3, <2>9, <2>10, <2>12 DEF l, c, g
<1> QED BY <1>7, <1>8

LEMMA AccountedIsCounted ==
  ASSUME NEW t \in Timelines, NEW begun \in Nat, NEW published \in Nat
  PROVE  begun = published + t.incomplete + (IF t.rs.active = NoSlot THEN 0 ELSE 1)
           <=> begun = published + Counted(t)
<1>1. t.incomplete \in Nat
  BY DEF Timelines
<1> QED BY <1>1 DEF Counted, InProgress

(* The outside of the timeline. *)
World ==
  /\ dev \in Nat /\ now \in Nat /\ origin \in Nat /\ shift \in Int
  /\ opened \in Nat /\ windows \in Nat

LEMMA CapturedType ==
  ASSUME World, NEW first \in Nat
  PROVE  CapturedAt(first) \in Nat
<1>1. SrcRate \in Nat \ {0} /\ origin \in Nat
  BY TimelineRates DEF World
<1>2. first \div SrcRate \in Nat
  BY <1>1, QuotientBounds
<1> QED BY <1>1, <1>2 DEF CapturedAt

(* The callback's readings make a batch. *)
LEMMA ReadingType ==
  ASSUME World, NEW first \in Nat, NEW frames \in Nat \ {0}, NEW jitter \in Int,
         NEW m \in {"None", "Overflow", "StreamRestart"}
  PROVE  Reading(first, frames, jitter, m) \in Batches
<1> DEFINE mono == CapturedAt(first) - origin + jitter
           utc == StartUtc + CapturedAt(first) + shift + jitter
<1>1. CapturedAt(first) \in Nat /\ origin \in Nat /\ shift \in Int /\ StartUtc \in Nat
  BY CapturedType, TimelineAssumption DEF World
<1>2. mono \in Int /\ utc \in Int
  BY <1>1
<1> HIDE DEF mono, utc
<1>3. (IF utc < 0 THEN 0 ELSE utc) \in Nat /\ (IF mono < 0 THEN 0 ELSE mono) \in Nat
  BY <1>2
<1>4. Reading(first, frames, jitter, m) =
        [first |-> first, frames |-> frames, utc |-> IF utc < 0 THEN 0 ELSE utc,
         mono |-> IF mono < 0 THEN 0 ELSE mono, mark |-> m, own |-> TRUE]
  BY DEF Reading, Batch, utc, mono
<1> QED BY <1>3, <1>4 DEF Batches

(* One push: it is refused, or the resampler takes it up. *)
LEMMA DeliverStep ==
  ASSUME TimelineInv, NEW batch \in Batches, NEW delay \in Nat, Deliver(batch, delay),
         dev' \in Nat
  PROVE  TimelineInv'
<1> DEFINE complete == CapturedAt(batch.first + batch.frames)
           at == (IF now > complete THEN now ELSE complete) + delay
           answer == Checked(tl, batch, at)
<1>1. World /\ AtRest(tl) /\ tl \in Timelines
  BY DEF TimelineInv, World, AtRest
<1>2. batch.first + batch.frames \in Nat
  BY DEF Batches
<1>3. at \in Nat
  BY <1>1, <1>2, CapturedType DEF World
<1>4. push = NoPush
  BY DEF Deliver
<1>5. CASE answer.error = "None"
  <2>1. /\ push' = Begin(answer.tl, batch, at)
        /\ UNCHANGED <<tl, last, now, origin, shift, stepped, opened, windows, newest>>
    BY <1>5 DEF Deliver
  <2>2. /\ answer.tl = Anchored(tl, batch) /\ tl.expected \in {NoPosition, batch.first}
        /\ tl.anchor # NoAnchor => tl.anchor.pos <= batch.first
    <3> HIDE DEF at
    <3>1. at \in Int
      BY <1>3
    <3> QED BY <1>1, <1>5, <3>1, CheckedStep
  <2> HIDE DEF answer, at
  <2>3. Underway(push') /\ push'.tl = Anchored(tl, batch) /\ push'.batch = batch
    BY <1>1, <1>3, <2>1, <2>2, BeginStep
  <2> QED BY <2>1, <2>3 DEF TimelineInv, WindowsAreWhole, SlotsAreAccounted
<1>6. CASE answer.error # "None"
  <2>1. /\ tl' = answer.tl /\ Answered(batch, at, answer.error, <<>>)
        /\ UNCHANGED <<push, opened>>
    BY <1>6 DEF Deliver
  <2>2. AtRest(answer.tl) /\ Counted(answer.tl) = Counted(tl)
    <3> HIDE DEF at
    <3>1. at \in Int
      BY <1>3
    <3> QED BY <1>1, <1>6, <3>1, CheckedStep
  <2> HIDE DEF answer, at
  <2>3. /\ last'.windows = <<>> /\ now' = at /\ windows' = windows + Len(<<>>)
        /\ origin' = origin /\ shift' = shift
    BY <2>1 DEF Answered
  <2>4. Len(<<>>) = 0 /\ windows \in Nat /\ opened \in Nat
    BY <1>1 DEF World
  <2>5. windows' = windows
    BY <2>3, <2>4
  <2>6. tl' \in Timelines /\ AtRest(tl') /\ Counted(tl') = Counted(tl)
    BY <2>1, <2>2 DEF AtRest
  <2>7. SlotsAreAccounted'
    <3>1. opened = windows + Counted(tl)
      BY <1>1, <2>4, AccountedIsCounted DEF TimelineInv, SlotsAreAccounted
    <3>2. opened' = windows' + Counted(tl') /\ opened' \in Nat /\ windows' \in Nat
      BY <2>1, <2>4, <2>5, <2>6, <3>1
    <3> QED BY <2>6, <3>2, AccountedIsCounted DEF SlotsAreAccounted
  <2>8. WindowsAreWhole' /\ last'.windows \in Seq(Progress)
    BY <2>3, <2>4 DEF WindowsAreWhole
  <2>9. push' = NoPush
    BY <1>4, <2>1
  <2>10. dev' \in Nat /\ now' \in Nat /\ origin' \in Nat /\ shift' \in Int
         /\ opened' \in Nat /\ windows' \in Nat
    BY <1>1, <1>3, <2>1, <2>3, <2>4, <2>5 DEF World
  <2> QED BY <2>6, <2>7, <2>8, <2>9, <2>10 DEF TimelineInv
<1> QED BY <1>5, <1>6

LEMMA ReturnsStep ==
  ASSUME TimelineInv, PushReturns
  PROVE  TimelineInv'
<1> DEFINE w == push.work
           t == [push.tl EXCEPT !.rs = [nextTick |-> w.nextTick, prev |-> w.prev,
                                        active |-> w.active]]
           t2 == Advance([t EXCEPT !.incomplete = @ + w.incomplete], push.batch)
<1>1. /\ Underway(push) /\ push.tl = Anchored(tl, push.batch)
      /\ World /\ tl \in Timelines
  BY DEF TimelineInv, PushReturns, AtRest, World
<1>2. /\ push \in Pushes /\ push.batch \in Batches /\ w \in Works /\ push.at \in Nat
      /\ push.position \in Nat
  BY <1>1, PreviousType DEF Underway
<1>3. w.windows \in Seq(Progress) /\ Len(w.windows) \in Nat /\ w.begun \in Nat
      /\ push.batch.first \in Nat /\ push.batch.frames \in Nat
  BY <1>2, LenProperties DEF Works, Batches
<1>4. Counted(push.tl) = Counted(tl)
  BY <1>1, <1>2, AnchoredStep DEF Counted
<1>5. opened = windows + Counted(tl) /\ opened \in Nat /\ windows \in Nat
  BY <1>1, AccountedIsCounted DEF World, TimelineInv, SlotsAreAccounted
<1>6. /\ push' = NoPush /\ opened' = opened + w.begun /\ UNCHANGED dev
      /\ IF w.failed
         THEN tl' = t /\ Answered(push.batch, push.at, "ArithmeticOverflow", <<>>)
         ELSE tl' = t2 /\ Answered(push.batch, push.at, "None", w.windows)
  BY DEF PushReturns
<1>7. CASE w.failed
  <2>1. tl' = t /\ Answered(push.batch, push.at, "ArithmeticOverflow", <<>>)
    BY <1>6, <1>7
  <2>2. AtRest(t) /\ Counted(t) = Counted(push.tl) + w.begun
    BY <1>1, <1>7, ReturnStep
  <2> HIDE DEF t, t2
  <2>3. /\ last'.windows = <<>> /\ now' = push.at /\ windows' = windows + Len(<<>>)
        /\ origin' = origin /\ shift' = shift
    BY <2>1 DEF Answered
  <2>4. Len(<<>>) = 0
    OBVIOUS
  <2>5. tl' \in Timelines /\ AtRest(tl') /\ Counted(tl') = Counted(tl) + w.begun
    BY <1>4, <2>1, <2>2 DEF AtRest
  <2>6. Counted(tl) \in Int
    BY <1>1 DEF Counted, Timelines, InProgress
  <2>7. windows' = windows /\ opened' = windows' + Counted(tl')
        /\ opened' \in Nat /\ windows' \in Nat
    BY <1>3, <1>5, <1>6, <2>3, <2>4, <2>5, <2>6
  <2>8. SlotsAreAccounted'
    BY <2>5, <2>7, AccountedIsCounted DEF SlotsAreAccounted
  <2>9. WindowsAreWhole' /\ last'.windows \in Seq(Progress)
    BY <2>3, <2>4 DEF WindowsAreWhole
  <2>10. dev' \in Nat /\ now' \in Nat /\ origin' \in Nat /\ shift' \in Int
    BY <1>1, <1>2, <1>6, <2>3 DEF World
  <2> QED BY <1>6, <2>5, <2>7, <2>8, <2>9, <2>10 DEF TimelineInv
<1>8. CASE ~w.failed
  <2>1. tl' = t2 /\ Answered(push.batch, push.at, "None", w.windows)
    BY <1>6, <1>8
  <2>2. push.position >= push.batch.first + push.batch.frames
    <3>1. ~(push.position < push.batch.first + push.batch.frames)
      BY <1>8 DEF PushReturns, Resampling
    <3> QED BY <1>2, <1>3, <3>1
  <2>3. /\ AtRest(t2) /\ t2.anchor = push.tl.anchor
        /\ Counted(t2) + Len(w.windows) = Counted(push.tl) + w.begun
    BY <1>1, <1>8, <2>2, ReturnStep
  <2> HIDE DEF t, t2
  <2>4. /\ last'.windows = w.windows /\ now' = push.at
        /\ windows' = windows + Len(w.windows) /\ origin' = origin /\ shift' = shift
    BY <2>1 DEF Answered
  <2>5. /\ tl' \in Timelines /\ AtRest(tl') /\ tl'.anchor = push.tl.anchor
        /\ Counted(tl') + Len(w.windows) = Counted(tl) + w.begun
    BY <1>4, <2>1, <2>3 DEF AtRest
  <2>6. Counted(tl) \in Int /\ Counted(tl') \in Int
    BY <1>1, <2>5 DEF Counted, Timelines, InProgress
  <2>7. opened' = windows' + Counted(tl') /\ opened' \in Nat /\ windows' \in Nat
    <3> DEFINE c == Counted(tl)
               d == Counted(tl')
               l == Len(w.windows)
               g == w.begun
    <3>1. /\ c \in Int /\ d \in Int /\ l \in Nat /\ g \in Nat
          /\ opened \in Nat /\ windows \in Nat
          /\ d + l = c + g /\ opened = windows + c
          /\ opened' = opened + g /\ windows' = windows + l
      BY <1>3, <1>5, <1>6, <2>4, <2>5, <2>6
    <3> HIDE DEF c, d, l, g
    <3>2. opened' = windows' + d /\ opened' \in Nat /\ windows' \in Nat
      BY <3>1
    <3> QED BY <3>2 DEF d
  <2>8. SlotsAreAccounted'
    BY <2>5, <2>7, AccountedIsCounted DEF SlotsAreAccounted
  <2>9. WindowsAreWhole' /\ last'.windows \in Seq(Progress)
    <3>1. \A i \in 1..Len(w.windows) : WholeWindow(push.tl.anchor, w.windows[i])
      BY <1>1 DEF Underway, Tallied
    <3>2. \A i \in 1..Len(last'.windows) : WholeWindow(tl'.anchor, last'.windows[i])
      BY <2>4, <2>5, <3>1
    <3> QED BY <1>3, <2>4, <3>2 DEF WindowsAreWhole
  <2>10. dev' \in Nat /\ now' \in Nat /\ origin' \in Nat /\ shift' \in Int
    BY <1>1, <1>2, <1>6, <2>4 DEF World
  <2> QED BY <1>6, <2>5, <2>7, <2>8, <2>9, <2>10 DEF TimelineInv
<1> QED BY <1>7, <1>8

LEMMA ResamplingStep ==
  ASSUME TimelineInv, OutputTick \/ FrameDone
  PROVE  TimelineInv'
<1>1. /\ Underway(push) /\ push.tl = Anchored(tl, push.batch) /\ ~push.work.failed
      /\ push.position < push.batch.first + push.batch.frames /\ Previous = PreviousOf(push)
  BY DEF OutputTick, FrameDone, Resampling, TimelineInv, Previous, PreviousOf
<1>2. Underway(push') /\ push'.tl = push.tl /\ push'.batch = push.batch
  <2>1. CASE OutputTick
    BY <1>1, <2>1, OutputTickStep DEF OutputTick
  <2>2. CASE FrameDone
    BY <1>1, <2>2, FrameDoneStep DEF FrameDone
  <2> QED BY <2>1, <2>2
<1>3. UNCHANGED <<tl, last, dev, now, origin, shift, stepped, strays, opened, windows, newest>>
  BY DEF OutputTick, FrameDone, Outside
<1> QED BY <1>1, <1>2, <1>3 DEF TimelineInv, WindowsAreWhole, SlotsAreAccounted

LEMMA TimelineStart == TimelineInit => TimelineInv
<1> SUFFICES ASSUME TimelineInit PROVE TimelineInv
  OBVIOUS
<1>1. AtRest(tl)
  BY DEF TimelineInit, NewTimeline, AtRest, Timelines, NoPosition
<1>2. last.windows = <<>> /\ Len(<<>>) = 0
  BY DEF TimelineInit
<1>3. WindowsAreWhole /\ last.windows \in Seq(Progress)
  BY <1>2 DEF WindowsAreWhole
<1>4. SlotsAreAccounted
  BY DEF TimelineInit, NewTimeline, NoResampler, SlotsAreAccounted
<1>5. dev \in Nat /\ now \in Nat /\ origin \in Nat /\ shift \in Int
      /\ opened \in Nat /\ windows \in Nat /\ push = NoPush
  BY TimelineAssumption DEF TimelineInit
<1> QED BY <1>1, <1>3, <1>4, <1>5 DEF TimelineInv

LEMMA TimelineStep == TimelineInv /\ [TimelineNext]_timelineVars => TimelineInv'
<1> SUFFICES ASSUME TimelineInv, [TimelineNext]_timelineVars PROVE TimelineInv'
  OBVIOUS
<1>1. World
  BY DEF TimelineInv, World
<1>2. /\ Sizes \subseteq Nat \ {0} /\ Delays \subseteq Nat /\ Jitters \subseteq Int
      /\ UtcSteps \subseteq Int
  BY TimelineAssumption
<1>3. dev \in Nat /\ 0 \in Nat /\ 0 \in Int /\ 1 \in Nat \ {0}
  BY <1>1 DEF World
<1>4. CASE OutputTick \/ FrameDone
  BY <1>4, ResamplingStep
<1>5. CASE PushReturns
  BY <1>5, ReturnsStep
<1>6. ASSUME NEW frames \in Sizes, NEW jitter \in Jitters, NEW delay \in Delays,
             NextFrames(frames, jitter, delay)
      PROVE  TimelineInv'
  <2> DEFINE m == IF dev = 0 THEN "StreamRestart" ELSE "None"
             b == Reading(dev, frames, jitter, m)
  <2>1. b \in Batches
    BY <1>1, <1>2, <1>3, ReadingType
  <2>2. Deliver(b, delay) /\ dev' = dev + frames
    BY <1>6 DEF NextFrames
  <2>3. dev' \in Nat
    BY <1>2, <1>3, <2>2
  <2> HIDE DEF b
  <2> QED BY <1>2, <2>1, <2>2, <2>3, DeliverStep
<1>7. ASSUME NEW lost \in 1..2, NEW frames \in Sizes, NEW m \in {"None", "Overflow"},
             LoseFrames(lost, frames, m)
      PROVE  TimelineInv'
  <2> DEFINE first == dev + lost
             b == Reading(first, frames, 0, m)
  <2>1. first \in Nat
    BY <1>3
  <2>2. Deliver(b, 0) /\ dev' = first + frames
    BY <1>7 DEF LoseFrames
  <2> HIDE DEF first
  <2>3. b \in Batches
    BY <1>1, <1>2, <1>3, <2>1, ReadingType
  <2>4. dev' \in Nat
    BY <1>2, <2>1, <2>2
  <2> HIDE DEF b
  <2> QED BY <1>3, <2>2, <2>3, <2>4, DeliverStep
<1>8. ASSUME NEW first \in 0..dev, NEW frames \in Sizes, NEW delay \in Delays,
             RepeatFrames(first, frames, delay)
      PROVE  TimelineInv'
  <2> DEFINE b == Reading(first, frames, 0, "None")
  <2>1. first \in Nat
    BY <1>3
  <2>2. b \in Batches
    BY <1>1, <1>2, <1>3, <2>1, ReadingType
  <2>3. Deliver(b, delay) /\ dev' \in Nat
    BY <1>3, <1>8 DEF RepeatFrames
  <2> HIDE DEF b
  <2> QED BY <1>2, <2>2, <2>3, DeliverStep
<1>9. CASE StaleStream
  <2> DEFINE r == Reading(0, 1, 0, "None")
             b == [r EXCEPT !.own = FALSE]
  <2>1. r \in Batches
    BY <1>1, <1>3, ReadingType
  <2>2. Deliver(b, 0) /\ dev' \in Nat
    BY <1>3, <1>9 DEF StaleStream
  <2> HIDE DEF r
  <2>3. b \in Batches
    BY <2>1 DEF Batches
  <2> HIDE DEF b
  <2> QED BY <1>3, <2>2, <2>3, DeliverStep
<1>10. ASSUME NEW step \in UtcSteps, StepUtc(step)
       PROVE  TimelineInv'
  <2>1. /\ push = NoPush /\ shift' = shift + step
        /\ UNCHANGED <<tl, push, last, dev, now, origin, opened, windows, newest>>
    BY <1>10 DEF StepUtc
  <2>2. shift' \in Int
    BY <1>1, <1>2, <2>1 DEF World
  <2> QED BY <2>1, <2>2 DEF TimelineInv, WindowsAreWhole, SlotsAreAccounted
<1>11. CASE UNCHANGED timelineVars
  BY <1>11 DEF timelineVars, TimelineInv, WindowsAreWhole, SlotsAreAccounted
<1> QED BY <1>4, <1>5, <1>6, <1>7, <1>8, <1>9, <1>10, <1>11 DEF TimelineNext

(* Between pushes and at every step of push, the slot in progress holds    *)
(* exactly the samples of its ticks since the anchor, and every slot begun *)
(* is published, given up or in progress (push, push_sample, push_output,  *)
(* invalidate_active).                                                     *)
THEOREM TimelineInvariant == TimelineSpec => []TimelineInv
<1>1. TimelineInit => TimelineInv
  BY TimelineStart
<1>2. TimelineInv /\ [TimelineNext]_timelineVars => TimelineInv'
  BY TimelineStep
<1> QED BY <1>1, <1>2, PTL DEF TimelineSpec

(* Every published window has one sample for each tick of its slot, each   *)
(* interpolated between neighbouring frames around the tick: no lost frame *)
(* is bridged, whatever is lost, repeated or re-timed (push, push_output). *)
THEOREM TimelineWindowsAreWhole == TimelineSpec => []WindowsAreWhole
<1>1. TimelineInv => WindowsAreWhole
  BY DEF TimelineInv
<1> QED BY <1>1, TimelineInvariant, PTL

(* Every slot the timeline begins is published, counted as incomplete or   *)
(* in progress (push, invalidate_active).                                  *)
THEOREM TimelineSlotsAreAccounted == TimelineSpec => []SlotsAreAccounted
<1>1. TimelineInv => SlotsAreAccounted
  BY DEF TimelineInv
<1> QED BY <1>1, TimelineInvariant, PTL

-----------------------------------------------------------------------------
(* Published slots increase: while the system's UTC is not stepped back, a *)
(* new anchor is always after the newest slot published.                   *)

Jitter == Jitters \union {0}

(* A tick is not after a source frame. *)
NotBefore(anchor, tick, frame) ==
  (tick - AnchorTick(anchor)) * SrcRate <= (frame - anchor.pos) * OutRate

(* How far UTC may run ahead of the process time, `steps` of UTC later.    *)
Ahead(steps, jitter) ==
  IF StartUtc + steps + jitter < 0 THEN 0 ELSE StartUtc + steps + jitter

Timely(anchor, steps) ==
  \E j \in Jitter : anchor.utc <= CapturedAt(anchor.pos) + Ahead(steps, j)

(* The slot that begins at a tick is over by the time `at`.                *)
OverBy(tick, at, steps) ==
  \E j \in Jitter : tick + TicksPerSlot <= OutRate * (at + Ahead(steps, j) + 1)

(* The newest slot published once the push ends as it stands.              *)
Latest(work, published) ==
  IF work.windows = <<>> THEN published ELSE work.windows[Len(work.windows)].slot

Ordered(p, published, steps) ==
  /\ Timely(p.tl.anchor, steps)
  /\ Latest(p.work, published) < Start(p.tl.anchor, p.work)
  /\ \A i \in 1..Len(p.work.windows) :
       /\ published < p.work.windows[i].slot
       /\ NotBefore(p.tl.anchor, p.work.windows[i].slot + TicksPerSlot - 1, p.position)

OrderInv ==
  /\ newest \in Int /\ stepped \in BOOLEAN
  /\ push # NoPush =>
       now <= push.at /\ CapturedAt(push.batch.first + push.batch.frames) <= push.at
  /\ ~stepped =>
       /\ 0 <= shift
       /\ 0 <= newest => OverBy(newest, now, shift)
       /\ tl.anchor # NoAnchor => Timely(tl.anchor, shift) /\ newest < Start(tl.anchor, tl.rs)
       /\ push # NoPush => Ordered(push, newest, shift)

LEMMA AheadType ==
  ASSUME NEW s \in Int, NEW j \in Jitter
  PROVE  /\ j \in Int /\ Ahead(s, j) \in Nat /\ StartUtc \in Nat
         /\ Ahead(s, j) \in {0, StartUtc + s + j} /\ StartUtc + s + j <= Ahead(s, j)
<1>1. j \in Int /\ StartUtc \in Nat
  BY TimelineAssumption DEF Jitter
<1> DEFINE x == StartUtc + s + j
<1>2. x \in Int
  BY <1>1
<1>3. Ahead(s, j) = IF x < 0 THEN 0 ELSE x
  BY DEF Ahead
<1>4. x = StartUtc + s + j
  OBVIOUS
<1> HIDE DEF x
<1> QED BY <1>1, <1>2, <1>3, <1>4

LEMMA AheadGrows ==
  ASSUME NEW s \in Int, NEW u \in Int, s <= u, NEW j \in Jitter
  PROVE  Ahead(s, j) <= Ahead(u, j)
<1>1. j \in Int /\ StartUtc \in Nat
  BY AheadType
<1>2. StartUtc + s + j \in Int /\ StartUtc + u + j \in Int /\ StartUtc + s + j <= StartUtc + u + j
  BY <1>1
<1> QED BY <1>2 DEF Ahead

(* Products keep the order of their factors. *)
LEMMA ProductGrows ==
  ASSUME NEW x \in Int, NEW y \in Int, NEW n \in Nat
  PROVE  /\ x * n \in Int /\ y * n \in Int
         /\ x <= y => x * n <= y * n
         /\ x <= y => n * x <= n * y
OBVIOUS

LEMMA ProductReflects ==
  ASSUME NEW x \in Int, NEW y \in Int, NEW n \in Nat \ {0}, x * n < y * n
  PROVE  x < y
<1>1. SUFFICES ASSUME y <= x PROVE FALSE
  OBVIOUS
<1>2. y * n <= x * n /\ x * n \in Int /\ y * n \in Int
  BY <1>1, ProductGrows
<1> QED BY <1>2

(* A slot whose last tick is not after a frame that has been captured is   *)
(* over.                                                                   *)
LEMMA PublishedIsOver ==
  ASSUME World, NEW a \in Anchors, NEW s \in Int, Timely(a, s),
         NEW tick \in Nat, NEW position \in Nat, NEW end \in Nat,
         position <= end, NotBefore(a, tick + TicksPerSlot - 1, position),
         NEW at \in Nat, CapturedAt(end) <= at
  PROVE  OverBy(tick, at, s)
<1>1. PICK j \in Jitter : a.utc <= CapturedAt(a.pos) + Ahead(s, j)
  BY DEF Timely
<1> DEFINE h == Ahead(s, j)
           c == a.pos \div SrcRate
           e == end \div SrcRate
           x == tick + TicksPerSlot - 1
           z == origin + h
<1>2. /\ SrcRate \in Nat \ {0} /\ OutRate \in Nat \ {0} /\ TicksPerSlot \in Nat \ {0}
      /\ origin \in Nat /\ a.pos \in Nat /\ a.utc \in Nat /\ h \in Nat
  BY TimelineRates, AheadType DEF World, Anchors
<1>3. /\ c \in Nat /\ c * SrcRate <= a.pos
      /\ e \in Nat /\ end < (e + 1) * SrcRate
  <2>1. c \in Nat /\ e \in Nat
    BY <1>2, QuotientBounds
  <2>2. c \in Int /\ e + 1 \in Int /\ e + 1 > e
    BY <2>1
  <2>3. c * SrcRate <= a.pos
    BY <1>2, <2>2, QuotientBounds
  <2>4. end < (e + 1) * SrcRate
    BY <1>2, <2>2, QuotientBounds
  <2> QED BY <2>1, <2>3, <2>4
<1>4. CapturedAt(a.pos) = origin + c /\ CapturedAt(end) = origin + e
  BY DEF CapturedAt
<1>5. x \in Nat /\ z \in Nat /\ tick + TicksPerSlot = x + 1 /\ z = origin + h
  BY <1>2
<1>6. (x - a.utc * OutRate) * SrcRate <= (position - a.pos) * OutRate
  BY DEF NotBefore, AnchorTick
<1> HIDE DEF c, e, x, z, h
<1>7. a.utc <= z + c /\ origin + e <= at
  BY <1>1, <1>2, <1>3, <1>4, <1>5 DEF h
<1>8. a.utc * SrcRate <= z * SrcRate + a.pos
  <2>1. a.utc * SrcRate <= (z + c) * SrcRate
    BY <1>2, <1>3, <1>5, <1>7, ProductGrows
  <2>2. (z + c) * SrcRate = z * SrcRate + c * SrcRate
    BY <1>2, <1>3, <1>5
  <2>3. z * SrcRate \in Int /\ c * SrcRate \in Int /\ a.utc * SrcRate \in Int
    BY <1>2, <1>3, <1>5
  <2> QED BY <1>2, <1>3, <2>1, <2>2, <2>3
<1>9. z * SrcRate + position < (z + e + 1) * SrcRate
  <2>1. (z + e + 1) * SrcRate = z * SrcRate + (e + 1) * SrcRate
    BY <1>2, <1>3, <1>5
  <2>2. z * SrcRate \in Int /\ (e + 1) * SrcRate \in Int
    BY <1>2, <1>3, <1>5
  <2> QED BY <1>3, <2>1, <2>2
<1>10. x * SrcRate < ((z + e + 1) * OutRate) * SrcRate
  <2> DEFINE u == a.utc * SrcRate
             v == z * SrcRate
             w == (z + e + 1) * SrcRate
             d == position - a.pos
  <2>1. /\ u \in Int /\ v \in Int /\ w \in Int /\ d \in Int /\ x * SrcRate \in Int
        /\ u <= v + a.pos /\ v + position < w /\ position = d + a.pos
    BY <1>2, <1>3, <1>5, <1>8, <1>9
  <2>2. (x - a.utc * OutRate) * SrcRate = x * SrcRate - u * OutRate
    BY <1>2, <1>5
  <2>3. x * SrcRate - u * OutRate <= d * OutRate
    BY <1>6, <2>2
  <2>4. ((z + e + 1) * OutRate) * SrcRate = w * OutRate
    BY <1>2, <1>3, <1>5
  <2> HIDE DEF u, v, w, d
  <2>5. u + d <= w - 1
    BY <1>2, <2>1
  <2>6. (u + d) * OutRate <= (w - 1) * OutRate
    BY <1>2, <2>1, <2>5, ProductGrows
  <2>7. /\ (u + d) * OutRate = u * OutRate + d * OutRate
        /\ (w - 1) * OutRate = w * OutRate - OutRate
        /\ u * OutRate \in Int /\ d * OutRate \in Int /\ w * OutRate \in Int
    BY <1>2, <2>1
  <2> DEFINE xs == x * SrcRate
             uo == u * OutRate
             do == d * OutRate
             wo == w * OutRate
  <2>8. /\ xs \in Int /\ uo \in Int /\ do \in Int /\ wo \in Int
        /\ xs - uo <= do /\ uo + do <= wo - OutRate
    BY <2>1, <2>3, <2>6, <2>7
  <2> HIDE DEF xs, uo, do, wo
  <2>9. xs < wo
    BY <1>2, <2>8
  <2> QED BY <2>4, <2>9 DEF xs, wo
<1>11. x < (z + e + 1) * OutRate
  <2>1. (z + e + 1) * OutRate \in Int
    BY <1>2, <1>3, <1>5
  <2> QED BY <1>2, <1>5, <1>10, <2>1, ProductReflects
<1>12. (z + e + 1) * OutRate <= OutRate * (at + h + 1)
  <2>1. z + e + 1 <= at + h + 1
    BY <1>2, <1>3, <1>5, <1>7
  <2>2. (z + e + 1) * OutRate <= (at + h + 1) * OutRate
    BY <1>2, <1>3, <1>5, <2>1, ProductGrows
  <2>3. (at + h + 1) * OutRate = OutRate * (at + h + 1)
    BY <1>2
  <2> QED BY <2>2, <2>3
<1>13. tick + TicksPerSlot <= OutRate * (at + h + 1)
  <2>1. (z + e + 1) * OutRate \in Int /\ OutRate * (at + h + 1) \in Int
    BY <1>2, <1>3, <1>5
  <2> QED BY <1>5, <1>11, <1>12, <2>1
<1> QED BY <1>13 DEF OverBy, h

(* The callback's readings: jitter moves both clocks, neither below zero.  *)
Reads(b) ==
  \E j \in Jitter :
    /\ b.mono = IF CapturedAt(b.first) - origin + j < 0 THEN 0
                ELSE CapturedAt(b.first) - origin + j
    /\ b.utc = IF StartUtc + CapturedAt(b.first) + shift + j < 0 THEN 0
               ELSE StartUtc + CapturedAt(b.first) + shift + j

LEMMA ReadingReads ==
  ASSUME World, NEW first \in Nat, NEW frames \in Nat \ {0}, NEW jitter \in Jitter,
         NEW m \in {"None", "Overflow", "StreamRestart"}
  PROVE  Reads(Reading(first, frames, jitter, m))
<1> DEFINE b == Reading(first, frames, jitter, m)
<1>1. /\ b.first = first
      /\ b.mono = IF CapturedAt(first) - origin + jitter < 0 THEN 0
                  ELSE CapturedAt(first) - origin + jitter
      /\ b.utc = IF StartUtc + CapturedAt(first) + shift + jitter < 0 THEN 0
                 ELSE StartUtc + CapturedAt(first) + shift + jitter
  BY DEF Reading, Batch
<1> HIDE DEF b
<1>2. Reads(b)
  BY <1>1 DEF Reads
<1> QED BY <1>2 DEF b

(* A batch that is not late reads a UTC no whole slot behind the newest    *)
(* one published: the time that lateness, jitter and the frames within a   *)
(* tick of the clock can take together is shorter than a slot.             *)
LEMMA PromptReading ==
  ASSUME NEW su \in Nat, NEW s \in Nat, NEW captured \in Nat, NEW o \in Nat,
         o <= captured, NEW j \in Int, NEW k \in Int, NEW from \in Nat, NEW at \in Nat,
         from <= at, NEW late \in Nat, NEW slot \in Nat,
         late + k - j + 1 < slot, late + k + 1 < slot, late - j + 1 < slot,
         late + 1 < slot, NEW mono, NEW utc, NEW ahead,
         mono = IF captured - o + j < 0 THEN 0 ELSE captured - o + j,
         utc = IF su + captured + s + j < 0 THEN 0 ELSE su + captured + s + j,
         ahead = IF su + s + k < 0 THEN 0 ELSE su + s + k,
         at <= mono + late
  PROVE  from + ahead + 1 - slot < utc
<1>1. CASE captured - o + j < 0
  <2>1. mono = 0 /\ from <= late
    BY <1>1
  <2>2. su + s + j <= utc /\ 0 <= utc /\ utc \in Int
    OBVIOUS
  <2> QED BY <2>1, <2>2
<1>2. CASE captured - o + j >= 0
  <2>1. from <= captured - o + j + late
    BY <1>2
  <2>2. su + captured + s + j <= utc /\ utc \in Int
    OBVIOUS
  <2> QED BY <2>1, <2>2
<1> QED BY <1>1, <1>2

LEMMA NewAnchorIsLater ==
  ASSUME World, 0 <= shift, NEW b \in Batches, Reads(b), NEW at \in Nat, now <= at,
         ~(Lateness(b, at) > MaxLateness), NEW tick \in Nat, OverBy(tick, now, shift)
  PROVE  tick < b.utc * OutRate
<1>1. PICK j \in Jitter :
        /\ b.mono = IF CapturedAt(b.first) - origin + j < 0 THEN 0
                    ELSE CapturedAt(b.first) - origin + j
        /\ b.utc = IF StartUtc + CapturedAt(b.first) + shift + j < 0 THEN 0
                   ELSE StartUtc + CapturedAt(b.first) + shift + j
  BY DEF Reads
<1>2. PICK k \in Jitter : tick + TicksPerSlot <= OutRate * (now + Ahead(shift, k) + 1)
  BY DEF OverBy
<1> DEFINE captured == CapturedAt(b.first)
           ahead == Ahead(shift, k)
<1>3. /\ captured \in Nat /\ origin \in Nat /\ now \in Nat /\ shift \in Nat
      /\ b.mono \in Nat /\ b.utc \in Nat
  BY CapturedType DEF World, Batches
<1>4. origin <= captured
  <2>1. SrcRate \in Nat \ {0} /\ b.first \in Nat
    BY TimelineRates DEF Batches
  <2>2. b.first \div SrcRate \in Nat
    BY <2>1, QuotientBounds
  <2> QED BY <1>3, <2>2 DEF CapturedAt
<1>5. /\ j \in Int /\ k \in Int /\ StartUtc \in Nat /\ MaxLateness \in Nat
      /\ SlotMillis \in Nat /\ OutRate \in Nat \ {0}
  BY AheadType, TimelineRates, TimelineAssumption
<1>6. /\ MaxLateness + k - j + 1 < SlotMillis
      /\ MaxLateness + k - 0 + 1 < SlotMillis
      /\ MaxLateness + 0 - j + 1 < SlotMillis
      /\ MaxLateness + 0 - 0 + 1 < SlotMillis
  <2>1. 0 \in Jitter
    BY DEF Jitter
  <2> QED BY <2>1, TimelineAssumption DEF Jitter
<1>7. /\ MaxLateness + k + 1 < SlotMillis /\ MaxLateness - j + 1 < SlotMillis
      /\ MaxLateness + 1 < SlotMillis
  BY <1>5, <1>6
<1>8. at <= b.mono + MaxLateness
  BY <1>3, <1>5 DEF Lateness
<1>9. ahead = IF StartUtc + shift + k < 0 THEN 0 ELSE StartUtc + shift + k
  BY DEF Ahead
<1>10. ahead \in Nat
  BY <1>3, AheadType
<1> HIDE DEF captured, ahead
<1>11. now + ahead + 1 - SlotMillis < b.utc
  BY <1>1, <1>3, <1>4, <1>5, <1>6, <1>7, <1>8, <1>9, PromptReading DEF captured
<1>12. OutRate * (now + ahead + 1) - OutRate * SlotMillis < b.utc * OutRate
  <2> DEFINE x == now + ahead + 1
  <2>1. x \in Int /\ x - SlotMillis < b.utc
    BY <1>3, <1>5, <1>10, <1>11
  <2> HIDE DEF x
  <2>2. x - SlotMillis <= b.utc - 1
    BY <1>3, <1>5, <2>1
  <2>3. (x - SlotMillis) * OutRate <= (b.utc - 1) * OutRate
    BY <1>3, <1>5, <2>1, <2>2, ProductGrows
  <2>4. /\ (x - SlotMillis) * OutRate = OutRate * x - OutRate * SlotMillis
        /\ (b.utc - 1) * OutRate = b.utc * OutRate - OutRate
        /\ OutRate * x \in Int /\ OutRate * SlotMillis \in Int /\ b.utc * OutRate \in Int
    BY <1>3, <1>5, <2>1
  <2>5. OutRate * x - OutRate * SlotMillis < b.utc * OutRate
    BY <1>5, <2>3, <2>4
  <2> QED BY <2>5 DEF x
<1>13. /\ OutRate * (now + ahead + 1) \in Int /\ OutRate * SlotMillis \in Int
       /\ b.utc * OutRate \in Int
  BY <1>3, <1>5, <1>10
<1>14. tick + OutRate * SlotMillis <= OutRate * (now + ahead + 1)
  BY <1>2 DEF TicksPerSlot, ahead
<1> QED BY <1>12, <1>13, <1>14

(* What the order of a push needs of its state. *)
LEMMA UnderwayType ==
  ASSUME NEW p, Underway(p)
  PROVE  /\ p.tl.anchor \in Anchors /\ p.work \in Works /\ p.position \in Nat
         /\ p.work.windows \in Seq(Progress) /\ Len(p.work.windows) \in Nat
         /\ Start(p.tl.anchor, p.work) \in Nat
         /\ p.batch \in Batches /\ p.at \in Nat /\ p.tl \in Timelines
         /\ p.tl.anchor.pos \in Nat /\ p.tl.anchor.pos <= p.position
<1>1. /\ p \in Pushes /\ p.tl.anchor \in Anchors /\ p.batch \in Batches
      /\ Joined(p.tl.anchor, p.work.nextTick, p.work.active)
  BY DEF Underway, Pushes, Timelines
<1>2. p.work \in Works /\ p.position \in Nat /\ p.at \in Nat /\ p.tl \in Timelines
  BY <1>1, PreviousType
<1>3. /\ p.work.nextTick \in Nat /\ p.work.active \in Progress \union {NoSlot}
      /\ p.work.windows \in Seq(Progress)
  BY <1>2 DEF Works
<1>4. Start(p.tl.anchor, p.work) \in Nat
  BY <1>1, <1>3, StartAdvances
<1>5. p.tl.anchor.pos \in Nat /\ p.batch.first \in Nat
  BY <1>1 DEF Anchors, Batches
<1>6. p.tl.anchor.pos <= p.batch.first /\ p.batch.first <= p.position
  BY DEF Underway
<1>7. p.tl.anchor.pos <= p.position
  BY <1>2, <1>5, <1>6
<1> QED BY <1>1, <1>2, <1>3, <1>4, <1>5, <1>7, LenProperties

LEMMA LatestType ==
  ASSUME NEW w, w.windows \in Seq(Progress), NEW published \in Int
  PROVE  /\ Latest(w, published) \in Int
         /\ w.windows # <<>> =>
              /\ Len(w.windows) \in 1..Len(w.windows)
              /\ w.windows[Len(w.windows)] \in Progress
              /\ Latest(w, published) = w.windows[Len(w.windows)].slot
<1>1. CASE w.windows = <<>>
  BY <1>1 DEF Latest
<1>2. CASE w.windows # <<>>
  <2>1. Len(w.windows) \in Nat \ {0}
    BY <1>2, EmptySeq
  <2>2. Len(w.windows) \in 1..Len(w.windows)
    BY <2>1
  <2>3. w.windows[Len(w.windows)] \in Progress
    BY <2>2, ElementOfSeq
  <2> QED BY <1>2, <2>2, <2>3 DEF Latest, Progress
<1> QED BY <1>1, <1>2

(* An output tick keeps the order of what a push publishes. *)
LEMMA OrderedOutput ==
  ASSUME NEW p, Underway(p), NEW p2, Underway(p2), NEW published \in Int, NEW s,
         Ordered(p, published, s), p2.tl = p.tl, p2.position = p.position,
         p.work.nextTick <= DueTick(p.tl.anchor, p.position),
         InOrder(p.tl.anchor, p.work, p2.work)
  PROVE  Ordered(p2, published, s)
<1> DEFINE a == p.tl.anchor
           w == p.work
           w2 == p2.work
<1>1. /\ a \in Anchors /\ w \in Works /\ p.position \in Nat /\ a.pos <= p.position
      /\ w.windows \in Seq(Progress) /\ Len(w.windows) \in Nat
      /\ Start(a, w) \in Nat /\ Start(a, w2) \in Nat
  BY UnderwayType
<1>2. /\ Latest(w, published) \in Int /\ Latest(w, published) < Start(a, w)
      /\ Timely(a, s)
      /\ \A i \in 1..Len(w.windows) :
           /\ published < w.windows[i].slot
           /\ NotBefore(a, w.windows[i].slot + TicksPerSlot - 1, p.position)
  BY <1>1, LatestType DEF Ordered
<1>3. published <= Latest(w, published)
  <2>1. CASE w.windows = <<>>
    BY <2>1 DEF Latest
  <2>2. CASE w.windows # <<>>
    <3>1. /\ Len(w.windows) \in 1..Len(w.windows)
          /\ Latest(w, published) = w.windows[Len(w.windows)].slot
      BY <1>1, <2>2, LatestType
    <3>2. published < Latest(w, published)
      BY <1>2, <3>1
    <3> QED BY <1>2, <3>2
  <2> QED BY <2>1, <2>2
<1>4. CASE w2.windows = w.windows /\ Start(a, w) <= Start(a, w2)
  <2>1. Latest(w2, published) = Latest(w, published)
    BY <1>4 DEF Latest
  <2>2. Latest(w2, published) < Start(a, w2)
    BY <1>1, <1>2, <1>4, <2>1
  <2> QED BY <1>2, <1>4, <2>2 DEF Ordered
<1>5. ASSUME NEW window \in Progress, w2.windows = Append(w.windows, window),
             Start(a, w) <= window.slot, window.slot < Start(a, w2),
             window.slot + TicksPerSlot - 1 = w.nextTick
      PROVE  Ordered(p2, published, s)
  <2>1. /\ Len(w2.windows) = Len(w.windows) + 1 /\ w2.windows # <<>>
        /\ \A i \in 1..Len(w.windows) : w2.windows[i] = w.windows[i]
        /\ w2.windows[Len(w.windows) + 1] = window
    BY <1>1, <1>5, AppendProperties
  <2>2. Latest(w2, published) = window.slot
    BY <2>1 DEF Latest
  <2>3. window.slot \in Nat
    BY DEF Progress
  <2>4. published < window.slot
    BY <1>1, <1>2, <1>3, <1>5, <2>3
  <2>5. w.nextTick \in Nat
    BY <1>1 DEF Works
  <2>6. NotBefore(a, w.nextTick, p.position)
    BY <1>1, <2>5, DueBounds DEF NotBefore
  <2>7. \A i \in 1..Len(w2.windows) :
          /\ published < w2.windows[i].slot
          /\ NotBefore(a, w2.windows[i].slot + TicksPerSlot - 1, p.position)
    <3> SUFFICES ASSUME NEW i \in 1..Len(w2.windows)
                 PROVE  /\ published < w2.windows[i].slot
                        /\ NotBefore(a, w2.windows[i].slot + TicksPerSlot - 1, p.position)
      OBVIOUS
    <3>1. CASE i \in 1..Len(w.windows)
      BY <1>2, <2>1, <3>1
    <3>2. CASE i = Len(w.windows) + 1
      <4>1. w2.windows[i] = window
        BY <2>1, <3>2
      <4>2. w2.windows[i].slot + TicksPerSlot - 1 = w.nextTick
        BY <1>5, <4>1
      <4> QED BY <2>4, <2>6, <4>1, <4>2
    <3>3. i \in 1..Len(w.windows) \/ i = Len(w.windows) + 1
      BY <1>1, <2>1
    <3> QED BY <3>1, <3>2, <3>3
  <2> QED BY <1>2, <1>5, <2>2, <2>7 DEF Ordered
<1> QED BY <1>4, <1>5 DEF InOrder

(* So does the end of a frame. *)
LEMMA OrderedFrame ==
  ASSUME NEW p, Underway(p), NEW p2, NEW published \in Int, NEW s,
         Ordered(p, published, s), p2.tl = p.tl, p2.position = p.position + 1,
         p2.work.windows = p.work.windows,
         Start(p.tl.anchor, p2.work) = Start(p.tl.anchor, p.work)
  PROVE  Ordered(p2, published, s)
<1> DEFINE a == p.tl.anchor
           position == p2.position
<1>1. /\ a \in Anchors /\ p.position \in Nat /\ a.pos \in Nat
      /\ p.work.windows \in Seq(Progress) /\ OutRate \in Nat
  BY UnderwayType, TimelineRates
<1>2. ASSUME NEW x \in Int, NotBefore(a, x, p.position)
      PROVE  NotBefore(a, x, p2.position)
  <2>1. p.position - a.pos \in Int /\ p2.position - a.pos \in Int
        /\ p.position - a.pos <= p2.position - a.pos
    BY <1>1
  <2> DEFINE u == (p.position - a.pos) * OutRate
             v == (p2.position - a.pos) * OutRate
             y == (x - AnchorTick(a)) * SrcRate
  <2>2. u <= v /\ u \in Int /\ v \in Int
    BY <1>1, <2>1, ProductGrows
  <2>3. AnchorTick(a) \in Int /\ SrcRate \in Int
    BY <1>1, AnchorTickType, TimelineRates
  <2>4. y \in Int /\ y <= u
    BY <1>2, <2>3 DEF NotBefore
  <2>5. NotBefore(a, x, p2.position) <=> y <= v
    BY DEF NotBefore
  <2> HIDE DEF u, v, y
  <2> QED BY <2>2, <2>4, <2>5
<1>3. ASSUME NEW i \in 1..Len(p.work.windows)
      PROVE  p.work.windows[i].slot + TicksPerSlot - 1 \in Int
  <2>1. p.work.windows[i] \in Progress
    BY <1>1, ElementOfSeq
  <2> QED BY <2>1, TimelineRates DEF Progress
<1> QED BY <1>2, <1>3 DEF Ordered, Latest

(* A slot that is over stays over. *)
LEMMA OverGrows ==
  ASSUME NEW tick \in Nat, NEW at \in Nat, NEW at2 \in Nat, at <= at2,
         NEW s \in Int, NEW u \in Int, s <= u, OverBy(tick, at, s)
  PROVE  OverBy(tick, at2, u)
<1>1. PICK j \in Jitter : tick + TicksPerSlot <= OutRate * (at + Ahead(s, j) + 1)
  BY DEF OverBy
<1> DEFINE x == at + Ahead(s, j) + 1
           y == at2 + Ahead(u, j) + 1
<1>2. Ahead(s, j) \in Nat /\ Ahead(u, j) \in Nat /\ Ahead(s, j) <= Ahead(u, j)
  BY AheadType, AheadGrows
<1>3. x \in Nat /\ y \in Nat /\ x <= y /\ OutRate \in Nat /\ TicksPerSlot \in Nat
  BY <1>2, TimelineRates
<1>4. tick + TicksPerSlot <= OutRate * x
  BY <1>1
<1> HIDE DEF x, y
<1>5. OutRate * x <= OutRate * y /\ OutRate * x \in Int /\ OutRate * y \in Int
  BY <1>3, ProductGrows
<1>6. tick + TicksPerSlot <= OutRate * y
  BY <1>3, <1>4, <1>5
<1> QED BY <1>6 DEF OverBy, y

LEMMA TimelyGrows ==
  ASSUME World, NEW a \in Anchors, NEW s \in Int, NEW u \in Int, s <= u, Timely(a, s)
  PROVE  Timely(a, u)
<1>1. PICK j \in Jitter : a.utc <= CapturedAt(a.pos) + Ahead(s, j)
  BY DEF Timely
<1>2. Ahead(s, j) \in Nat /\ Ahead(u, j) \in Nat /\ Ahead(s, j) <= Ahead(u, j)
  BY AheadType, AheadGrows
<1>3. a.utc \in Nat /\ CapturedAt(a.pos) \in Nat
  BY CapturedType DEF Anchors
<1>4. a.utc <= CapturedAt(a.pos) + Ahead(u, j)
  BY <1>1, <1>2, <1>3
<1> QED BY <1>4 DEF Timely

(* The anchor taken from a reading is timely. *)
LEMMA ReadingIsTimely ==
  ASSUME World, NEW b \in Batches, Reads(b), NEW a \in Anchors, a.pos = b.first,
         a.utc = b.utc
  PROVE  Timely(a, shift)
<1>1. PICK j \in Jitter :
        b.utc = IF StartUtc + CapturedAt(b.first) + shift + j < 0 THEN 0
                ELSE StartUtc + CapturedAt(b.first) + shift + j
  BY DEF Reads
<1> DEFINE captured == CapturedAt(b.first)
           ahead == Ahead(shift, j)
           x == StartUtc + shift + j
<1>2. captured \in Nat /\ shift \in Int /\ j \in Int /\ StartUtc \in Nat
  BY CapturedType, AheadType DEF World, Batches
<1>3. ahead \in Nat /\ StartUtc + shift + j <= ahead
  BY <1>2, AheadType
<1>4. b.utc = IF StartUtc + captured + shift + j < 0 THEN 0
              ELSE StartUtc + captured + shift + j
  BY <1>1
<1> HIDE DEF captured, ahead
<1>5. b.utc <= captured + ahead
  BY <1>2, <1>3, <1>4
<1> QED BY <1>5 DEF Timely, captured, ahead

(* The push a batch begins, and the timeline a push leaves. *)
LEMMA BeginState ==
  ASSUME NEW t, AtRest(t), NEW b, NEW at, NEW p, p = Begin(Anchored(t, b), b, at)
  PROVE  /\ p.tl = Anchored(t, b) /\ p.batch = b /\ p.at = at /\ p.work.windows = <<>>
         /\ t.anchor = NoAnchor =>
              /\ p.work.nextTick = AnchorTick(p.tl.anchor) /\ p.work.active = NoSlot
              /\ p.tl.anchor = [pos |-> b.first, utc |-> b.utc, mono |-> b.mono]
         /\ t.anchor # NoAnchor =>
              /\ p.work.nextTick = t.rs.nextTick /\ p.work.active = t.rs.active
              /\ p.tl.anchor = t.anchor
<1> DEFINE t2 == Anchored(t, b)
           rs == IF t2.rs = NoResampler
                 THEN [NoResampler EXCEPT !.nextTick = AnchorTick(t2.anchor)] ELSE t2.rs
<1>1. /\ p.tl = t2 /\ p.batch = b /\ p.at = at /\ p.work.windows = <<>>
      /\ p.work.nextTick = rs.nextTick /\ p.work.active = rs.active
  BY DEF Begin
<1>2. CASE t.anchor = NoAnchor
  <2> DEFINE a == [pos |-> b.first, utc |-> b.utc, mono |-> b.mono]
  <2>1. t2 = [t EXCEPT !.anchor = a] /\ t \in Timelines /\ t.rs = NoResampler
    BY <1>2 DEF Anchored, AtRest
  <2> HIDE DEF a, t2
  <2>2. t2.anchor = a /\ t2.rs = NoResampler
    BY <2>1 DEF Timelines
  <2>3. rs.nextTick = AnchorTick(t2.anchor) /\ rs.active = NoSlot
    BY <2>2 DEF NoResampler
  <2> HIDE DEF rs
  <2> QED BY <1>1, <1>2, <2>2, <2>3 DEF a, t2
<1>3. CASE t.anchor # NoAnchor
  <2>1. t2 = t /\ t.rs # NoResampler
    BY <1>3 DEF Anchored, AtRest
  <2>2. rs = t.rs
    BY <2>1
  <2> HIDE DEF rs
  <2> QED BY <1>1, <1>3, <2>1, <2>2
<1> QED BY <1>2, <1>3

LEMMA ReturnState ==
  ASSUME TimelineInv, PushReturns
  PROVE  /\ tl'.anchor = push.tl.anchor /\ push' = NoPush
         /\ tl'.rs.nextTick = push.work.nextTick /\ tl'.rs.active = push.work.active
         /\ now' = push.at /\ UNCHANGED <<shift, stepped, origin>>
         /\ last'.windows = IF push.work.failed THEN <<>> ELSE push.work.windows
         /\ newest' = Latest([windows |-> last'.windows], newest)
<1> DEFINE rs == [nextTick |-> push.work.nextTick, prev |-> push.work.prev,
                  active |-> push.work.active]
           t == [push.tl EXCEPT !.rs = rs]
           t2 == [t EXCEPT !.incomplete = @ + push.work.incomplete]
           t3 == Advance(t2, push.batch)
<1>1. push.tl \in Timelines
  BY UnderwayType DEF TimelineInv, PushReturns
<1>2. rs.nextTick = push.work.nextTick /\ rs.active = push.work.active
  OBVIOUS
<1>3. /\ push' = NoPush
      /\ IF push.work.failed
         THEN tl' = t /\ Answered(push.batch, push.at, "ArithmeticOverflow", <<>>)
         ELSE tl' = t3 /\ Answered(push.batch, push.at, "None", push.work.windows)
  BY DEF PushReturns
<1> HIDE DEF rs
<1>4. t.anchor = push.tl.anchor /\ t.rs = rs
  BY <1>1 DEF Timelines
<1>5. t3.anchor = push.tl.anchor /\ t3.rs = rs
  BY <1>1 DEF Timelines, Advance
<1> HIDE DEF t, t2, t3
<1>6. CASE push.work.failed
  <2>1. tl' = t /\ Answered(push.batch, push.at, "ArithmeticOverflow", <<>>)
    BY <1>3, <1>6
  <2>2. /\ last'.windows = <<>> /\ newest' = newest /\ now' = push.at
        /\ UNCHANGED <<shift, stepped, origin>>
    BY <2>1 DEF Answered
  <2> QED BY <1>2, <1>3, <1>4, <1>6, <2>1, <2>2 DEF Latest
<1>7. CASE ~push.work.failed
  <2>1. tl' = t3 /\ Answered(push.batch, push.at, "None", push.work.windows)
    BY <1>3, <1>7
  <2>2. /\ last'.windows = push.work.windows /\ now' = push.at
        /\ newest' = IF last'.windows = <<>> THEN newest
                     ELSE last'.windows[Len(last'.windows)].slot
        /\ UNCHANGED <<shift, stepped, origin>>
    BY <2>1 DEF Answered
  <2> QED BY <1>2, <1>3, <1>5, <1>7, <2>1, <2>2 DEF Latest
<1> QED BY <1>6, <1>7

(* A push that begins is ordered: its anchor is the one that the batches   *)
(* before it follow, or is later than every slot published.                *)
LEMMA BeginOrder ==
  ASSUME TimelineInv, OrderInv, ~stepped, NEW b \in Batches, Reads(b), NEW at \in Nat,
         now <= at, ~(Lateness(b, at) > MaxLateness),
         NEW p, Underway(p), p = Begin(Anchored(tl, b), b, at)
  PROVE  Ordered(p, newest, shift)
<1> DEFINE a == p.tl.anchor
<1>1. World /\ AtRest(tl)
  BY DEF TimelineInv, World
<1>2. /\ p.tl = Anchored(tl, b) /\ p.work.windows = <<>>
      /\ tl.anchor = NoAnchor =>
           /\ p.work.nextTick = AnchorTick(a) /\ p.work.active = NoSlot
           /\ a = [pos |-> b.first, utc |-> b.utc, mono |-> b.mono]
      /\ tl.anchor # NoAnchor =>
           /\ p.work.nextTick = tl.rs.nextTick /\ p.work.active = tl.rs.active
           /\ a = tl.anchor
  BY <1>1, BeginState
<1>3. a \in Anchors /\ newest \in Int /\ 0 <= shift /\ shift \in Int /\ now \in Nat
  BY <1>1, UnderwayType DEF OrderInv, World
<1> HIDE DEF a
<1>4. Timely(a, shift) /\ newest < Start(a, p.work)
  <2>1. CASE tl.anchor = NoAnchor
    <3>1. a.pos = b.first /\ a.utc = b.utc
      BY <1>2, <2>1
    <3>2. Timely(a, shift)
      BY <1>1, <1>3, <3>1, ReadingIsTimely
    <3>3. Start(a, p.work) = AnchorTick(a)
      BY <1>2, <2>1 DEF Start
    <3>4. newest < AnchorTick(a)
      <4>1. CASE newest < 0
        <5>1. AnchorTick(a) \in Nat
          BY <1>3, AnchorTickType
        <5> QED BY <1>3, <4>1, <5>1
      <4>2. CASE 0 <= newest
        <5>1. newest \in Nat /\ OverBy(newest, now, shift)
          BY <1>3, <4>2 DEF OrderInv
        <5>2. newest < b.utc * OutRate
          BY <1>1, <1>3, <5>1, NewAnchorIsLater
        <5> QED BY <3>1, <5>2 DEF AnchorTick
      <4> QED BY <1>3, <4>1, <4>2
    <3> QED BY <3>2, <3>3, <3>4
  <2>2. CASE tl.anchor # NoAnchor
    <3>1. Timely(a, shift) /\ newest < Start(a, tl.rs)
      BY <1>2, <2>2 DEF OrderInv
    <3>2. Start(a, p.work) = Start(a, tl.rs)
      BY <1>2, <2>2 DEF Start
    <3> QED BY <3>1, <3>2
  <2> QED BY <2>1, <2>2
<1>5. Latest(p.work, newest) = newest /\ Len(p.work.windows) = 0
  BY <1>2 DEF Latest
<1>6. \A i \in 1..Len(p.work.windows) :
        /\ newest < p.work.windows[i].slot
        /\ NotBefore(a, p.work.windows[i].slot + TicksPerSlot - 1, p.position)
  BY <1>5
<1> QED BY <1>4, <1>5, <1>6 DEF Ordered, a

LEMMA DeliverOrder ==
  ASSUME TimelineInv, OrderInv, NEW b \in Batches, Reads(b), NEW delay \in Nat,
         Deliver(b, delay)
  PROVE  OrderInv'
<1> DEFINE complete == CapturedAt(b.first + b.frames)
           at == (IF now > complete THEN now ELSE complete) + delay
           answer == Checked(tl, b, at)
<1>1. World /\ AtRest(tl) /\ tl \in Timelines
  BY DEF TimelineInv, World, AtRest
<1>2. b.first + b.frames \in Nat
  BY DEF Batches
<1>3. at \in Nat /\ now <= at /\ complete <= at
  <2>1. complete \in Nat /\ now \in Nat
    BY <1>1, <1>2, CapturedType DEF World
  <2> HIDE DEF complete
  <2> QED BY <2>1
<1>4. newest \in Int /\ stepped \in BOOLEAN /\ shift \in Int /\ now \in Nat
  BY <1>1 DEF OrderInv, World
<1>5. CASE answer.error = "None"
  <2>1. /\ push' = Begin(answer.tl, b, at)
        /\ UNCHANGED <<tl, now, origin, shift, stepped, newest>>
    BY <1>5 DEF Deliver
  <2>2. /\ answer.tl = Anchored(tl, b) /\ tl.expected \in {NoPosition, b.first}
        /\ tl.anchor # NoAnchor => tl.anchor.pos <= b.first
        /\ ~(Lateness(b, at) > MaxLateness)
    <3> HIDE DEF at
    <3>1. at \in Int
      BY <1>3
    <3> QED BY <1>1, <1>5, <3>1, CheckedStep
  <2>3. complete = CapturedAt(b.first + b.frames)
    OBVIOUS
  <2> HIDE DEF answer, at, complete
  <2>4. Underway(push') /\ push'.batch = b
    BY <1>1, <1>3, <2>1, <2>2, BeginStep
  <2>5. push'.at = at
    BY <2>1 DEF Begin
  <2>6. ASSUME ~stepped PROVE Ordered(push', newest, shift)
    BY <1>3, <2>1, <2>2, <2>4, <2>6, BeginOrder
  <2>7. CapturedAt(b.first + b.frames)' = complete
    BY <2>1, <2>3 DEF CapturedAt
  <2>8. (now <= push.at /\ CapturedAt(push.batch.first + push.batch.frames) <= push.at)'
    BY <1>3, <2>1, <2>3, <2>4, <2>5 DEF CapturedAt
  <2>9. ASSUME ~stepped PROVE (Ordered(push, newest, shift))'
    BY <2>1, <2>6, <2>9 DEF Ordered, Timely, CapturedAt
  <2>10. ASSUME tl.anchor # NoAnchor, ~stepped
         PROVE  (Timely(tl.anchor, shift))'
    BY <2>1, <2>10 DEF OrderInv, Timely, CapturedAt
  <2> QED BY <2>1, <2>8, <2>9, <2>10 DEF OrderInv
<1>6. CASE answer.error # "None"
  <2>1. /\ tl' = answer.tl /\ Answered(b, at, answer.error, <<>>) /\ push' = push
        /\ push = NoPush
    BY <1>6 DEF Deliver
  <2>2. answer.tl.anchor = NoAnchor \/ answer.tl = tl
    <3> HIDE DEF at
    <3>1. at \in Int
      BY <1>3
    <3> QED BY <1>1, <1>6, <3>1, CheckedStep
  <2> HIDE DEF answer, at
  <2>3. now' = at /\ newest' = newest /\ UNCHANGED <<shift, stepped, origin>>
    BY <2>1 DEF Answered
  <2>4. ASSUME ~stepped, 0 <= newest PROVE OverBy(newest, at, shift)
    <3>1. newest \in Nat /\ OverBy(newest, now, shift) /\ shift <= shift
      BY <1>4, <2>4 DEF OrderInv
    <3> QED BY <1>3, <1>4, <3>1, OverGrows
  <2>5. ASSUME tl'.anchor # NoAnchor, ~stepped
        PROVE  (Timely(tl.anchor, shift) /\ newest < Start(tl.anchor, tl.rs))'
    <3>1. tl' = tl
      BY <2>1, <2>2, <2>5
    <3> QED BY <2>3, <2>5, <3>1 DEF OrderInv, Timely, CapturedAt
  <2>6. (0 <= newest => OverBy(newest, now, shift))' \/ stepped
    BY <2>3, <2>4 DEF OverBy
  <2> QED BY <1>4, <2>1, <2>3, <2>5, <2>6 DEF OrderInv
<1> QED BY <1>5, <1>6

(* The end of a push: what it publishes is over. *)
LEMMA ReturnsOrder ==
  ASSUME TimelineInv, OrderInv, PushReturns
  PROVE  OrderInv'
<1> DEFINE a == push.tl.anchor
           w == push.work
           end == push.batch.first + push.batch.frames
<1>1. /\ World /\ Underway(push) /\ push # NoPush
      /\ newest \in Int /\ stepped \in BOOLEAN /\ shift \in Int /\ now \in Nat
  BY DEF TimelineInv, OrderInv, World, PushReturns
<1>2. /\ a \in Anchors /\ w \in Works /\ push.position \in Nat /\ push.at \in Nat
      /\ w.windows \in Seq(Progress) /\ Len(w.windows) \in Nat /\ push.batch \in Batches
  BY <1>1, UnderwayType
<1>3. /\ tl'.anchor = a /\ push' = NoPush
      /\ tl'.rs.nextTick = w.nextTick /\ tl'.rs.active = w.active
      /\ now' = push.at /\ UNCHANGED <<shift, stepped, origin>>
      /\ last'.windows = IF w.failed THEN <<>> ELSE w.windows
      /\ newest' = Latest([windows |-> last'.windows], newest)
  BY ReturnState
<1>4. end \in Nat /\ now <= push.at /\ CapturedAt(end) <= push.at
      /\ push.position <= end
  BY <1>1, <1>2 DEF Batches, OrderInv, Underway
<1>5. newest' = Latest(w, newest)
  <2>1. w.failed => w.windows = <<>>
    BY <1>1 DEF Underway, Stuck, Tallied
  <2>2. last'.windows = w.windows
    BY <1>3, <2>1
  <2> QED BY <1>3, <2>2 DEF Latest
<1>6. newest' \in Int
  BY <1>1, <1>2, <1>5, LatestType
<1>7. Start(tl'.anchor, tl'.rs) = Start(a, w)
  BY <1>3 DEF Start
<1> HIDE DEF end
<1>8. ASSUME ~stepped
      PROVE  /\ (Timely(tl.anchor, shift) /\ newest < Start(tl.anchor, tl.rs))'
             /\ 0 <= newest' => OverBy(newest', push.at, shift)
  <2>1. Ordered(push, newest, shift)
    BY <1>1, <1>8 DEF OrderInv
  <2>2. Timely(a, shift) /\ newest' < Start(tl'.anchor, tl'.rs)
    BY <1>5, <1>7, <2>1 DEF Ordered
  <2>3. (Timely(tl.anchor, shift))'
    BY <1>3, <2>2 DEF Timely, CapturedAt
  <2>4. ASSUME 0 <= newest' PROVE OverBy(newest', push.at, shift)
    <3>1. CASE w.windows = <<>>
      <4>1. newest' = newest
        BY <1>5, <3>1 DEF Latest
      <4>2. newest \in Nat /\ OverBy(newest, now, shift) /\ shift <= shift
        BY <1>1, <1>8, <2>4, <4>1 DEF OrderInv
      <4> QED BY <1>1, <1>2, <1>4, <4>1, <4>2, OverGrows
    <3>2. CASE w.windows # <<>>
      <4> DEFINE n == Len(w.windows)
                 x == w.windows[n].slot
      <4>1. n \in 1..n /\ w.windows[n] \in Progress /\ newest' = x
        BY <1>1, <1>2, <1>5, <3>2, LatestType
      <4>2. x \in Nat
        BY <4>1 DEF Progress
      <4>3. NotBefore(a, x + TicksPerSlot - 1, push.position)
        BY <2>1, <4>1 DEF Ordered
      <4> HIDE DEF n, x
      <4>4. OverBy(x, push.at, shift)
        BY <1>1, <1>2, <1>4, <2>2, <4>2, <4>3, PublishedIsOver
      <4> QED BY <4>1, <4>4
    <3> QED BY <3>1, <3>2
  <2> QED BY <2>2, <2>3, <2>4
<1>9. (0 <= newest => OverBy(newest, now, shift))' \/ stepped
  BY <1>3, <1>8 DEF OverBy
<1> QED BY <1>1, <1>3, <1>6, <1>8, <1>9 DEF OrderInv

LEMMA ResamplingOrder ==
  ASSUME TimelineInv, OrderInv, OutputTick \/ FrameDone
  PROVE  OrderInv'
<1>1. /\ Underway(push) /\ push # NoPush /\ ~push.work.failed
      /\ push.position < push.batch.first + push.batch.frames /\ Previous = PreviousOf(push)
      /\ newest \in Int
  BY DEF OutputTick, FrameDone, Resampling, TimelineInv, Previous, PreviousOf, OrderInv
<1>2. UNCHANGED <<tl, dev, now, origin, shift, stepped, newest>>
  BY DEF OutputTick, FrameDone, Outside
<1>3. /\ push'.tl = push.tl /\ push'.batch = push.batch /\ push'.at = push.at
      /\ Ordered(push, newest, shift) => Ordered(push', newest, shift)
  <2>1. CASE OutputTick
    <3>1. /\ push.work.nextTick <= DueTick(push.tl.anchor, push.position)
          /\ Underway(push') /\ push'.tl = push.tl /\ push'.batch = push.batch
          /\ push'.position = push.position /\ push'.at = push.at
          /\ InOrder(push.tl.anchor, push.work, push'.work)
      BY <1>1, <2>1, OutputTickStep DEF OutputTick
    <3> QED BY <1>1, <3>1, OrderedOutput
  <2>2. CASE FrameDone
    <3>1. /\ push'.tl = push.tl /\ push'.batch = push.batch /\ push'.at = push.at
          /\ push'.position = push.position + 1
          /\ push'.work.windows = push.work.windows
          /\ Start(push.tl.anchor, push'.work) = Start(push.tl.anchor, push.work)
      BY <1>1, <2>2, FrameDoneStep DEF FrameDone
    <3> QED BY <1>1, <3>1, OrderedFrame
  <2> QED BY <2>1, <2>2
<1>4. ASSUME ~stepped PROVE (Ordered(push, newest, shift))'
  <2>1. Ordered(push', newest, shift)
    BY <1>1, <1>3, <1>4 DEF OrderInv
  <2> QED BY <1>2, <2>1 DEF Ordered, Timely, CapturedAt
<1>5. ASSUME ~stepped, 0 <= newest PROVE (OverBy(newest, now, shift))'
  BY <1>2, <1>5 DEF OrderInv, OverBy
<1>6. ASSUME ~stepped, tl.anchor # NoAnchor
      PROVE  (Timely(tl.anchor, shift) /\ newest < Start(tl.anchor, tl.rs))'
  BY <1>2, <1>6 DEF OrderInv, Timely, CapturedAt
<1> QED BY <1>1, <1>2, <1>3, <1>4, <1>5, <1>6 DEF OrderInv, CapturedAt

(* The system's UTC is stepped between two pushes. *)
LEMMA StepUtcOrder ==
  ASSUME TimelineInv, OrderInv, NEW step \in UtcSteps, StepUtc(step)
  PROVE  OrderInv'
<1>1. /\ push = NoPush /\ shift' = shift + step /\ stepped' = (stepped \/ step < 0)
      /\ UNCHANGED <<tl, push, now, origin, newest>>
  BY DEF StepUtc
<1>2. /\ World /\ shift \in Int /\ step \in Int /\ now \in Nat /\ newest \in Int
      /\ tl \in Timelines /\ shift' \in Int /\ stepped \in BOOLEAN
  BY <1>1, TimelineAssumption DEF TimelineInv, World, OrderInv, AtRest
<1>3. stepped' \in BOOLEAN
  BY <1>1, <1>2
<1>4. ASSUME ~stepped' PROVE ~stepped /\ shift <= shift' /\ 0 <= shift /\ 0 <= shift'
  <2>1. ~stepped /\ ~(step < 0)
    BY <1>1, <1>4
  <2>2. 0 <= shift
    BY <2>1 DEF OrderInv
  <2> QED BY <1>1, <1>2, <2>1, <2>2
<1>5. ASSUME ~stepped', 0 <= newest PROVE (OverBy(newest, now, shift))'
  <2>1. newest \in Nat /\ OverBy(newest, now, shift) /\ now <= now
    BY <1>2, <1>4, <1>5 DEF OrderInv
  <2>2. OverBy(newest, now, shift')
    BY <1>2, <1>4, <1>5, <2>1, OverGrows
  <2> QED BY <1>1, <2>2 DEF OverBy
<1>6. ASSUME ~stepped', tl.anchor # NoAnchor
      PROVE  (Timely(tl.anchor, shift) /\ newest < Start(tl.anchor, tl.rs))'
  <2>1. Timely(tl.anchor, shift) /\ newest < Start(tl.anchor, tl.rs)
    BY <1>4, <1>6 DEF OrderInv
  <2>2. tl.anchor \in Anchors
    BY <1>2, <1>6 DEF Timelines
  <2>3. Timely(tl.anchor, shift')
    BY <1>2, <1>4, <1>6, <2>1, <2>2, TimelyGrows
  <2> QED BY <1>1, <2>1, <2>3 DEF Timely, CapturedAt
<1> QED BY <1>1, <1>2, <1>3, <1>4, <1>5, <1>6 DEF OrderInv

LEMMA OrderStart == TimelineInit => OrderInv
<1> SUFFICES ASSUME TimelineInit PROVE OrderInv
  OBVIOUS
<1>1. newest = -1 /\ shift = 0 /\ push = NoPush
  BY DEF TimelineInit
<1>2. tl.anchor = NoAnchor
  BY DEF TimelineInit, NewTimeline
<1>3. stepped \in BOOLEAN
  BY DEF TimelineInit
<1>4. newest \in Int /\ 0 <= shift /\ ~(0 <= newest)
  BY <1>1
<1> QED BY <1>1, <1>2, <1>3, <1>4 DEF OrderInv

LEMMA OrderStep ==
  TimelineInv /\ OrderInv /\ [TimelineNext]_timelineVars => OrderInv'
<1> SUFFICES ASSUME TimelineInv, OrderInv, [TimelineNext]_timelineVars PROVE OrderInv'
  OBVIOUS
<1>1. World
  BY DEF TimelineInv, World
<1>2. /\ Sizes \subseteq Nat \ {0} /\ Delays \subseteq Nat /\ Jitters \subseteq Jitter
      /\ 0 \in Jitter
  BY TimelineAssumption DEF Jitter
<1>3. dev \in Nat /\ 0 \in Nat /\ 0 \in Int /\ 1 \in Nat \ {0} /\ Jitter \subseteq Int
  BY <1>1, AheadType DEF World
<1>4. CASE OutputTick \/ FrameDone
  BY <1>4, ResamplingOrder
<1>5. CASE PushReturns
  BY <1>5, ReturnsOrder
<1>6. ASSUME NEW frames \in Sizes, NEW jitter \in Jitters, NEW delay \in Delays,
             NextFrames(frames, jitter, delay)
      PROVE  OrderInv'
  <2> DEFINE m == IF dev = 0 THEN "StreamRestart" ELSE "None"
             b == Reading(dev, frames, jitter, m)
  <2>1. b \in Batches
    BY <1>1, <1>2, <1>3, ReadingType
  <2>2. Reads(b)
    BY <1>1, <1>2, <1>3, ReadingReads
  <2>3. Deliver(b, delay)
    BY <1>6 DEF NextFrames
  <2> HIDE DEF b
  <2> QED BY <1>2, <2>1, <2>2, <2>3, DeliverOrder
<1>7. ASSUME NEW lost \in 1..2, NEW frames \in Sizes, NEW m \in {"None", "Overflow"},
             LoseFrames(lost, frames, m)
      PROVE  OrderInv'
  <2> DEFINE first == dev + lost
             b == Reading(first, frames, 0, m)
  <2>1. first \in Nat
    BY <1>3
  <2>2. Deliver(b, 0)
    BY <1>7 DEF LoseFrames
  <2> HIDE DEF first
  <2>3. b \in Batches
    BY <1>1, <1>2, <1>3, <2>1, ReadingType
  <2>4. Reads(b)
    BY <1>1, <1>2, <1>3, <2>1, ReadingReads
  <2> HIDE DEF b
  <2> QED BY <1>3, <2>2, <2>3, <2>4, DeliverOrder
<1>8. ASSUME NEW first \in 0..dev, NEW frames \in Sizes, NEW delay \in Delays,
             RepeatFrames(first, frames, delay)
      PROVE  OrderInv'
  <2> DEFINE b == Reading(first, frames, 0, "None")
  <2>1. first \in Nat
    BY <1>3
  <2>2. b \in Batches
    BY <1>1, <1>2, <1>3, <2>1, ReadingType
  <2>3. Reads(b)
    BY <1>1, <1>2, <1>3, <2>1, ReadingReads
  <2>4. Deliver(b, delay)
    BY <1>8 DEF RepeatFrames
  <2> HIDE DEF b
  <2> QED BY <1>2, <2>2, <2>3, <2>4, DeliverOrder
<1>9. CASE StaleStream
  <2> DEFINE r == Reading(0, 1, 0, "None")
             b == [r EXCEPT !.own = FALSE]
  <2>1. r \in Batches
    BY <1>1, <1>3, ReadingType
  <2>2. Reads(r)
    BY <1>1, <1>2, <1>3, ReadingReads
  <2>3. Deliver(b, 0)
    BY <1>9 DEF StaleStream
  <2> HIDE DEF r
  <2>4. b \in Batches /\ b.first = r.first /\ b.mono = r.mono /\ b.utc = r.utc
    BY <2>1 DEF Batches
  <2>5. Reads(b)
    BY <2>2, <2>4 DEF Reads
  <2> HIDE DEF b
  <2> QED BY <1>3, <2>3, <2>4, <2>5, DeliverOrder
<1>10. ASSUME NEW step \in UtcSteps, StepUtc(step)
       PROVE  OrderInv'
  BY <1>10, StepUtcOrder
<1>11. CASE UNCHANGED timelineVars
  BY <1>11 DEF timelineVars, OrderInv, Ordered, Timely, OverBy, CapturedAt
<1> QED BY <1>4, <1>5, <1>6, <1>7, <1>8, <1>9, <1>10, <1>11 DEF TimelineNext

(* What a push publishes is later than every slot published before it. *)
LEMMA OrderAction ==
  TimelineInv /\ OrderInv /\ [TimelineNext]_timelineVars
    => [\A i \in 1..Len(last'.windows) : ~stepped => last'.windows[i].slot > newest]_last
<1> SUFFICES ASSUME TimelineInv, OrderInv, [TimelineNext]_timelineVars, last' # last,
                    NEW i \in 1..Len(last'.windows), ~stepped
             PROVE  last'.windows[i].slot > newest
  OBVIOUS
<1>1. Len(<<>>) = 0
  OBVIOUS
<1>2. ASSUME NEW b, NEW delay, Deliver(b, delay) PROVE FALSE
  <2> DEFINE complete == CapturedAt(b.first + b.frames)
             at == (IF now > complete THEN now ELSE complete) + delay
             answer == Checked(tl, b, at)
  <2>1. CASE answer.error = "None"
    <3>1. UNCHANGED last
      BY <1>2, <2>1 DEF Deliver
    <3> QED BY <3>1
  <2>2. CASE answer.error # "None"
    <3>1. Answered(b, at, answer.error, <<>>)
      BY <1>2, <2>2 DEF Deliver
    <3> HIDE DEF at, answer
    <3>2. last'.windows = <<>>
      BY <3>1 DEF Answered
    <3> QED BY <1>1, <3>2
  <2> QED BY <2>1, <2>2
<1>3. CASE OutputTick \/ FrameDone
  BY <1>3 DEF OutputTick, FrameDone
<1>4. CASE PushReturns
  <2>1. /\ last'.windows = IF push.work.failed THEN <<>> ELSE push.work.windows
        /\ push # NoPush /\ newest \in Int /\ Underway(push)
    BY <1>4, ReturnState DEF PushReturns, OrderInv, TimelineInv
  <2>2. CASE push.work.failed
    BY <1>1, <2>1, <2>2
  <2>3. CASE ~push.work.failed
    <3>1. last'.windows = push.work.windows
      BY <2>1, <2>3
    <3>2. newest < push.work.windows[i].slot
      BY <2>1, <3>1 DEF OrderInv, Ordered
    <3>3. push.work.windows[i].slot \in Nat
      <4>1. push.work.windows \in Seq(Progress)
        BY <2>1, UnderwayType
      <4>2. push.work.windows[i] \in Progress
        BY <3>1, <4>1, ElementOfSeq
      <4> QED BY <4>2 DEF Progress
    <3> QED BY <2>1, <3>1, <3>2, <3>3
  <2> QED BY <2>2, <2>3
<1>5. ASSUME NEW step, StepUtc(step) PROVE FALSE
  BY <1>5 DEF StepUtc
<1>6. CASE UNCHANGED timelineVars
  BY <1>6 DEF timelineVars
<1>7. CASE \E frames \in Sizes, jitter \in Jitters, delay \in Delays :
             NextFrames(frames, jitter, delay)
  BY <1>2, <1>7 DEF NextFrames
<1>8. CASE \E lost \in 1..2, frames \in Sizes, m \in {"None", "Overflow"} :
             LoseFrames(lost, frames, m)
  BY <1>2, <1>8 DEF LoseFrames
<1>9. CASE \E first \in 0..dev, frames \in Sizes, delay \in Delays :
             RepeatFrames(first, frames, delay)
  BY <1>2, <1>9 DEF RepeatFrames
<1>10. CASE StaleStream
  BY <1>2, <1>10 DEF StaleStream
<1> QED BY <1>3, <1>4, <1>5, <1>6, <1>7, <1>8, <1>9, <1>10 DEF TimelineNext

(* As long as the system's UTC is not stepped back, published slots only   *)
(* increase: no batch repeated late brings a whole old slot out again      *)
(* (push, advance_expected, invalidate_active).                            *)
THEOREM TimelineSlotsIncrease == TimelineSpec => SlotsIncrease
<1>1. TimelineInit => TimelineInv /\ OrderInv
  BY TimelineStart, OrderStart
<1>2. TimelineInv /\ OrderInv /\ [TimelineNext]_timelineVars
        => (TimelineInv /\ OrderInv)'
  BY TimelineStep, OrderStep
<1>3. TimelineInv /\ OrderInv /\ [TimelineNext]_timelineVars
        => [\A i \in 1..Len(last'.windows) : ~stepped => last'.windows[i].slot > newest]_last
  BY OrderAction
<1> QED BY <1>1, <1>2, <1>3, PTL DEF TimelineSpec, SlotsIncrease
=============================================================================
