---------------------------- MODULE TxBridge_proof ----------------------------
(***************************************************************************)
(* Proofs about the transmit bridge for every ring size, threshold, gap    *)
(* and frame length.                                                       *)
(***************************************************************************)
EXTENDS TxBridge, FiniteSetTheorems, SequenceTheorems, TLAPS

\* The ring never fills beyond the threshold of net_tx_ready, and the pointer
\* difference counts its occupied slots.
Bounded == Occ <= Threshold /\ Cardinality(Occupied) = Occ

\* The reader only works while a complete frame is stored.
ReaderFed == draining => LastSlots # {}

\* The k-th slot behind a write pointer.
Back(w, k) == IF k <= w THEN w - k ELSE w + Depth - k

\* The newest curLen words are the writer's unfinished frame, and the word in
\* front of them, if there is one, ends the frame before.
TailIsUnfinished ==
    /\ curLen <= Occ
    /\ \A k \in 1 .. curLen : ~fifo[Back(wptr, k)].last
    /\ curLen < Occ => fifo[Back(wptr, curLen + 1)].last

\* The gap counter and the time TXEN has been low make up the gap.
GapAccount == ~draining => low + gap >= Gap

\* A demo frame that is being sent has bytes left.
DemoInside == demoSending => demoIdx < DemoLen

IInv ==
    /\ TypeOK
    /\ Bounded
    /\ CountIsFrames
    /\ ReaderFed
    /\ TailIsUnfinished
    /\ GapAccount
    /\ DemoInside

-------------------------------------------------------------------------------
(***************************************************************************)
(* The ring.                                                               *)
(***************************************************************************)

\* The distance of two slots is a slot number.
LEMMA DistType ==
    ASSUME NEW r \in Slots, NEW w \in Slots
    PROVE  Dist(r, w) \in Slots
BY SizesAssumption DEF Dist, Slots

\* Advancing a pointer stays in the ring.
LEMMA IncType ==
    ASSUME NEW x \in Slots
    PROVE  Inc(x) \in Slots
BY SizesAssumption DEF Inc, Slots

\* Writing occupies the slot of the write pointer, if the ring is not full.
LEMMA PushSlot ==
    ASSUME NEW r \in Slots, NEW w \in Slots, Dist(r, w) < Depth - 1
    PROVE  /\ w \notin Between(r, w)
           /\ Between(r, Inc(w)) = Between(r, w) \cup {w}
           /\ Dist(r, Inc(w)) = Dist(r, w) + 1
BY SizesAssumption DEF Dist, Slots, Between, Inc

\* Reading frees the slot of the read pointer, if the ring is not empty.
LEMMA PopSlot ==
    ASSUME NEW r \in Slots, NEW w \in Slots, r # w
    PROVE  /\ r \in Between(r, w)
           /\ Between(Inc(r), w) = Between(r, w) \ {r}
           /\ Dist(Inc(r), w) = Dist(r, w) - 1
BY SizesAssumption DEF Dist, Slots, Between, Inc

\* The occupied slots are finitely many, at most as many as the distance says.
LEMMA BetweenFinite ==
    ASSUME NEW r \in Slots, NEW w \in Slots
    PROVE  IsFiniteSet(Between(r, w))
<1>1. IsFiniteSet(Slots)
  BY FS_Interval, SizesAssumption DEF Slots
<1>2. Between(r, w) \subseteq Slots
  BY DEF Between
<1> QED
  BY <1>1, <1>2, FS_Subset

-------------------------------------------------------------------------------
(***************************************************************************)
(* What a clock does to the ring: `Left` is what the reader leaves.        *)
(***************************************************************************)
Left     == IF draining THEN Occupied \ {rptr} ELSE Occupied
LeftEnds == IF draining THEN LastSlots \ {rptr} ELSE LastSlots

\* A reader at work is not at the write pointer.
LEMMA ReaderBehindWriter ==
    ASSUME TypeOK, ReaderFed, draining
    PROVE  rptr # wptr /\ Occ > 0
BY SizesAssumption DEF TypeOK, ReaderFed, LastSlots, Occupied, Occ, Between, Dist, Slots

\* The occupied slots after a clock.
LEMMA ClockOccupied ==
    ASSUME IInv, NEW in \in Offers, NEW tick \in BOOLEAN, Clock(in, tick)
    PROVE  /\ wptr \notin Occupied
           /\ Pushed(in) => wptr \notin Left
           /\ Occupied' = IF Pushed(in) THEN Left \cup {wptr} ELSE Left
           /\ Occ' = Occ + (IF Pushed(in) THEN 1 ELSE 0) - (IF draining THEN 1 ELSE 0)
           /\ Occ' <= Threshold
<1> USE DEF IInv
<1>1. rptr \in Slots /\ wptr \in Slots /\ Inc(rptr) \in Slots /\ Inc(wptr) \in Slots
  BY IncType DEF TypeOK
<1>2. wptr \notin Occupied
  BY <1>1 DEF Occupied, Between, Slots
<1>3. wptr' = IF Pushed(in) THEN Inc(wptr) ELSE wptr
  BY DEF Clock, WritePort
<1>4. rptr' = IF draining THEN Inc(rptr) ELSE rptr
  BY DEF Clock, Emit, Hold
<1>5. Occ \in Nat /\ Occ <= Threshold /\ Threshold < Depth /\ Threshold \in Nat /\ Depth \in Nat
  BY <1>1, DistType, SizesAssumption DEF Bounded, Occ, Slots
<1>6. CASE draining
  <2>1. /\ Between(Inc(rptr), wptr) = Occupied \ {rptr}
        /\ Dist(Inc(rptr), wptr) = Occ - 1
    BY <1>1, <1>6, PopSlot, ReaderBehindWriter DEF Occupied, Occ
  <2>2. Dist(Inc(rptr), wptr) < Depth - 1
    BY <2>1, <1>5
  <2>3. /\ Between(Inc(rptr), Inc(wptr)) = (Occupied \ {rptr}) \cup {wptr}
        /\ Dist(Inc(rptr), Inc(wptr)) = Occ
    BY <2>1, <2>2, <1>1, <1>5, PushSlot
  <2>4. Occupied' = Between(Inc(rptr), wptr') /\ Occ' = Dist(Inc(rptr), wptr')
    BY <1>4, <1>6 DEF Occupied, Occ
  <2>5. CASE Pushed(in)
    <3>1. Occupied' = Left \cup {wptr} /\ Occ' = Occ
      BY <1>3, <1>6, <2>3, <2>4, <2>5 DEF Left
    <3> QED
      BY <3>1, <1>2, <1>5, <1>6, <2>5 DEF Left
  <2>6. CASE ~Pushed(in)
    <3>1. Occupied' = Left /\ Occ' = Occ - 1
      BY <1>3, <1>6, <2>1, <2>4, <2>6 DEF Left
    <3> QED
      BY <3>1, <1>2, <1>5, <1>6, <2>6 DEF Left
  <2> QED
    BY <2>5, <2>6
<1>7. CASE ~draining
  <2>1. CASE Pushed(in)
    <3>1. Occ < Threshold
      BY <2>1 DEF Pushed, Ready
    <3>2. Occ < Depth - 1
      BY <3>1, <1>5
    <3>3. /\ Between(rptr, Inc(wptr)) = Occupied \cup {wptr}
          /\ Dist(rptr, Inc(wptr)) = Occ + 1
      BY <3>2, <1>1, PushSlot DEF Occupied, Occ
    <3> QED
      BY <1>2, <1>3, <1>4, <1>5, <1>7, <2>1, <3>1, <3>3 DEF Occupied, Occ, Left
  <2>2. CASE ~Pushed(in)
    BY <1>2, <1>3, <1>4, <1>5, <1>7, <2>2 DEF Occupied, Occ, Left
  <2> QED
    BY <2>1, <2>2
<1> QED
  BY <1>6, <1>7

\* The frame ends stored after a clock.
LEMMA ClockEnds ==
    ASSUME IInv, NEW in \in Offers, NEW tick \in BOOLEAN, Clock(in, tick)
    PROVE  /\ LastSlots' = IF PushLast(in) THEN LeftEnds \cup {wptr} ELSE LeftEnds
           /\ wptr \notin LeftEnds
           /\ draining => (rptr \in LastSlots <=> fifo[rptr].last)
<1>1. /\ wptr \notin Occupied
      /\ Occupied' = IF Pushed(in) THEN Left \cup {wptr} ELSE Left
  BY ClockOccupied
<1>2. fifo' = IF Pushed(in) THEN [fifo EXCEPT ![wptr] = in] ELSE fifo
  BY DEF Clock, WritePort
<1>3. fifo \in [Slots -> Word] /\ wptr \in Slots /\ rptr \in Slots
  BY DEF IInv, TypeOK
<1>4. \A s \in Left : s # wptr /\ fifo'[s] = fifo[s]
  BY <1>1, <1>2, <1>3 DEF Left, Occupied, Between
<1>5. {s \in Left : fifo[s].last} = LeftEnds
  BY DEF Left, LeftEnds, LastSlots
<1>6. draining => rptr \in Occupied
  BY <1>3, PopSlot, ReaderBehindWriter DEF Occupied, IInv
<1>7. Pushed(in) => fifo'[wptr] = in
  BY <1>2, <1>3
<1>8. wptr \notin LeftEnds
  BY <1>1 DEF LeftEnds, LastSlots
<1>9. draining => (rptr \in LastSlots <=> fifo[rptr].last)
  BY <1>6 DEF LastSlots
<1>10. CASE Pushed(in)
  <2>1. LastSlots' = {s \in Left \cup {wptr} : fifo'[s].last}
    BY <1>1, <1>10 DEF LastSlots
  <2>2. LastSlots' = {s \in Left : fifo[s].last} \cup (IF in.last THEN {wptr} ELSE {})
    BY <2>1, <1>4, <1>7, <1>10
  <2> QED
    BY <2>2, <1>5, <1>8, <1>9, <1>10 DEF PushLast
<1>11. CASE ~Pushed(in)
  <2>1. LastSlots' = {s \in Left : fifo'[s].last}
    BY <1>1, <1>11 DEF LastSlots
  <2>2. LastSlots' = {s \in Left : fifo[s].last}
    BY <2>1, <1>4
  <2> QED
    BY <2>2, <1>5, <1>8, <1>9, <1>11 DEF PushLast
<1> QED
  BY <1>10, <1>11

-------------------------------------------------------------------------------
(***************************************************************************)
(* The inductive invariant.                                                *)
(***************************************************************************)

\* The registers start inside their widths with an empty ring.
LEMMA InitIInv == Init => IInv
<1> SUFFICES ASSUME Init PROVE IInv
  OBVIOUS
<1>1. TypeOK
  <2>1. /\ fifo \in [Slots -> Word]
        /\ draining \in BOOLEAN /\ ipEnable \in BOOLEAN /\ demoSending \in BOOLEAN
    BY DEF Init
  <2>2. /\ wptr \in Slots /\ rptr \in Slots /\ frameCnt \in Slots
        /\ gap \in 0 .. Gap /\ low \in 0 .. Gap
        /\ demoIdx \in 0 .. DemoLen
        /\ curLen \in 0 .. MaxFrame - 1
    BY SizesAssumption DEF Init, Slots
  <2> QED
    BY <2>1, <2>2 DEF TypeOK
<1>2. Occ = 0 /\ Occupied = {} /\ LastSlots = {}
  BY SizesAssumption DEF Init, Occ, Dist, Occupied, Between, LastSlots, Slots
<1>3. Bounded /\ CountIsFrames
  BY <1>2, FS_EmptySet, SizesAssumption DEF Init, Bounded, CountIsFrames
<1>4. ReaderFed /\ TailIsUnfinished /\ GapAccount /\ DemoInside
  BY <1>2, SizesAssumption DEF Init, ReaderFed, TailIsUnfinished, GapAccount, DemoInside
<1> QED
  BY <1>1, <1>3, <1>4 DEF IInv

\* A reset empties the ring, whatever is stored in it.
LEMMA ResetIInv ==
    ASSUME IInv, Reset
    PROVE  IInv'
<1>1. TypeOK'
  <2>1. (/\ fifo \in [Slots -> Word]
         /\ draining \in BOOLEAN /\ ipEnable \in BOOLEAN /\ demoSending \in BOOLEAN)'
    BY DEF IInv, TypeOK, Reset
  <2>2. (/\ wptr \in Slots /\ rptr \in Slots /\ frameCnt \in Slots
         /\ gap \in 0 .. Gap /\ low \in 0 .. Gap
         /\ demoIdx \in 0 .. DemoLen
         /\ curLen \in 0 .. MaxFrame - 1)'
    BY SizesAssumption DEF Reset, Slots
  <2> QED
    BY <2>1, <2>2 DEF TypeOK
<1>2. (Occ = 0 /\ Occupied = {} /\ LastSlots = {})'
  BY SizesAssumption DEF Reset, Occ, Dist, Occupied, Between, LastSlots, Slots
<1>3. (Bounded /\ CountIsFrames)'
  BY <1>2, FS_EmptySet, SizesAssumption DEF Reset, Bounded, CountIsFrames
<1>4. (ReaderFed /\ TailIsUnfinished /\ GapAccount /\ DemoInside)'
  BY <1>2, SizesAssumption DEF Reset, ReaderFed, TailIsUnfinished, GapAccount, DemoInside
<1> QED
  BY <1>1, <1>3, <1>4 DEF IInv

\* A clock keeps the registers in their widths: the counter neither wraps above
\* the ring size nor below zero.
LEMMA ClockType ==
    ASSUME IInv, NEW in \in Offers, NEW tick \in BOOLEAN, Clock(in, tick)
    PROVE  TypeOK'
<1> USE DEF IInv
<1>1. fifo' \in [Slots -> Word] /\ wptr' \in Slots /\ curLen' \in 0 .. MaxFrame - 1
  <2>1. in # NoWord => in \in Word
    BY DEF Offers
  <2>2. CASE Pushed(in)
    <3>1. in \in Word /\ in # NoWord
      BY <2>1, <2>2 DEF Pushed
    <3>2. fifo' \in [Slots -> Word] /\ wptr' \in Slots
      BY <2>2, <3>1, IncType DEF Clock, WritePort, TypeOK
    <3>3. curLen' \in 0 .. MaxFrame - 1
      BY <2>2, <3>1, SizesAssumption DEF Clock, WritePort, TypeOK, Word
    <3> QED
      BY <3>2, <3>3
  <2>3. CASE ~Pushed(in)
    BY <2>3 DEF Clock, WritePort, TypeOK
  <2> QED
    BY <2>2, <2>3
<1>2. rptr' \in Slots
  BY IncType DEF Clock, Emit, Hold, TypeOK
<1>3. draining' \in BOOLEAN
  BY DEF Clock, Emit, Hold, TypeOK
<1>4. gap' \in 0 .. Gap /\ low' \in 0 .. Gap
  <2>1. CASE Emit
    <3>1. (gap' = Gap \/ gap' = gap) /\ low' = 0
      BY <2>1 DEF Emit
    <3> QED
      BY <3>1, SizesAssumption DEF TypeOK
  <2>2. CASE Hold
    BY <2>2, SizesAssumption DEF Hold, TypeOK
  <2> QED
    BY <2>1, <2>2 DEF Clock
<1>5. frameCnt' \in Slots
  <2>1. frameCnt' = Inc(frameCnt) \/ frameCnt' = Dec(frameCnt) \/ frameCnt' = frameCnt
    BY DEF Clock, FrameCount
  <2> QED
    BY <2>1, SizesAssumption DEF TypeOK, Slots, Inc, Dec
<1>6. demoSending' \in BOOLEAN
  BY DEF Clock, DemoPort, TypeOK
<1>7. demoIdx' \in 0 .. DemoLen
  <2>1. demoIdx' = 0 \/ demoIdx' = demoIdx \/ (demoSending /\ demoIdx' = demoIdx + 1)
    BY DEF Clock, DemoPort
  <2> QED
    BY <2>1, SizesAssumption DEF TypeOK, DemoInside
<1> QED
  BY <1>1, <1>2, <1>3, <1>4, <1>5, <1>6, <1>7 DEF TypeOK, Clock

\* The counter follows the ends in the ring.
LEMMA ClockCount ==
    ASSUME IInv, NEW in \in Offers, NEW tick \in BOOLEAN, Clock(in, tick)
    PROVE  CountIsFrames' /\ ReaderFed'
<1> DEFINE n == Cardinality(LastSlots)
<1>1. /\ IsFiniteSet(LastSlots) /\ n \in Nat /\ n <= Occ
      /\ IsFiniteSet(LeftEnds)
  <2>1. IsFiniteSet(Occupied)
    BY BetweenFinite DEF IInv, TypeOK, Occupied
  <2>2. LastSlots \subseteq Occupied /\ LeftEnds \subseteq Occupied
    BY DEF LastSlots, LeftEnds
  <2> QED
    BY <2>1, <2>2, FS_Subset, FS_CardinalityType DEF IInv, Bounded
<1>2. n = frameCnt /\ Occ \in Nat
  BY DistType DEF IInv, CountIsFrames, TypeOK, Occ, Slots
<1>3. Cardinality(LeftEnds) = IF EmitLast THEN n - 1 ELSE n
  <2>1. draining => (rptr \in LastSlots <=> fifo[rptr].last)
    BY ClockEnds
  <2> QED
    BY <2>1, <1>1, FS_RemoveElement DEF LeftEnds, EmitLast
<1>4. EmitLast => n > 0
  <2>1. EmitLast => LastSlots # {}
    BY DEF EmitLast, IInv, ReaderFed
  <2> QED
    BY <2>1, <1>1, FS_EmptySet
<1>5. Cardinality(LastSlots') = Cardinality(LeftEnds) + (IF PushLast(in) THEN 1 ELSE 0)
  BY ClockEnds, <1>1, <1>3, FS_AddElement
<1>6. PushLast(in) => n < Depth - 1
  BY <1>1, <1>2, SizesAssumption DEF PushLast, Pushed, Ready
<1>7. frameCnt' = n + (IF PushLast(in) THEN 1 ELSE 0) - (IF EmitLast THEN 1 ELSE 0)
  <2>1. frameCnt' = CASE PushLast(in) /\ ~EmitLast -> Inc(frameCnt)
                     [] ~PushLast(in) /\ EmitLast -> Dec(frameCnt)
                     [] OTHER -> frameCnt
    BY DEF Clock, FrameCount
  <2>2. CASE PushLast(in) /\ ~EmitLast
    BY <2>1, <2>2, <1>1, <1>2, <1>6 DEF Inc
  <2>3. CASE ~PushLast(in) /\ EmitLast
    BY <2>1, <2>3, <1>1, <1>2, <1>4 DEF Dec
  <2>4. CASE (PushLast(in) /\ EmitLast) \/ (~PushLast(in) /\ ~EmitLast)
    BY <2>1, <2>4, <1>1, <1>2
  <2> QED
    BY <2>2, <2>3, <2>4
<1>8. CountIsFrames'
  <2>1. frameCnt' = Cardinality(LastSlots')
    BY <1>1, <1>3, <1>5, <1>7
  <2> QED
    BY <2>1 DEF CountIsFrames
<1>9. ReaderFed'
  <2> SUFFICES ASSUME draining'
               PROVE  LastSlots' # {}
    BY DEF ReaderFed
  <2>1. CASE draining /\ fifo[rptr].last
    <3>1. frameCnt # 1
      BY <2>1 DEF Clock, Emit, Hold
    <3>2. Cardinality(LeftEnds) > 0
      BY <3>1, <2>1, <1>1, <1>2, <1>3, <1>4 DEF EmitLast
    <3>3. LeftEnds # {}
      BY <3>2, <1>1, FS_EmptySet
    <3> QED
      BY <3>3, ClockEnds
  <2>2. CASE draining /\ ~fifo[rptr].last
    <3>1. LeftEnds = LastSlots /\ LastSlots # {}
      BY <2>2, ClockEnds DEF LeftEnds, IInv, ReaderFed
    <3> QED
      BY <3>1, ClockEnds
  <2>3. CASE ~draining
    <3>1. frameCnt > 0
      BY <2>3 DEF Clock, Emit, Hold
    <3>2. LastSlots # {}
      BY <3>1, <1>1, <1>2, FS_EmptySet
    <3> QED
      BY <3>2, <2>3, ClockEnds DEF LeftEnds
  <2> QED
    BY <2>1, <2>2, <2>3
<1> QED
  BY <1>8, <1>9

\* While a frame end is stored, the unfinished frame is not all there is.
LEMMA UnfinishedBehindEnd ==
    ASSUME IInv, LastSlots # {}
    PROVE  curLen < Occ
<1>1. PICK s \in Occupied : fifo[s].last
  BY DEF LastSlots
<1> DEFINE k == IF s < wptr THEN wptr - s ELSE wptr + Depth - s
<1>2. k \in 1 .. Occ /\ Back(wptr, k) = s
  BY <1>1, SizesAssumption
  DEF IInv, TypeOK, Occupied, Between, Occ, Dist, Back, Slots
<1>3. ~(k \in 1 .. curLen)
  BY <1>1, <1>2 DEF IInv, TailIsUnfinished
<1>4. Occ \in Nat /\ curLen \in Nat /\ curLen <= Occ
  BY DistType, SizesAssumption DEF IInv, TypeOK, TailIsUnfinished, Occ, Slots
<1> QED
  BY <1>2, <1>3, <1>4

\* Behind the write pointer there is the unfinished frame, and then an end.
LEMMA ClockTail ==
    ASSUME IInv, NEW in \in Offers, NEW tick \in BOOLEAN, Clock(in, tick)
    PROVE  TailIsUnfinished'
<1>1. /\ Occ' = Occ + (IF Pushed(in) THEN 1 ELSE 0) - (IF draining THEN 1 ELSE 0)
      /\ Occ \in Nat /\ Occ < Depth /\ Depth \in Nat
      /\ curLen \in Nat /\ wptr \in Slots
      /\ draining => curLen < Occ
      /\ curLen <= Occ
  <2>1. Occ' = Occ + (IF Pushed(in) THEN 1 ELSE 0) - (IF draining THEN 1 ELSE 0)
    BY ClockOccupied
  <2>2. Occ \in Nat /\ Occ < Depth /\ Depth \in Nat
    BY DistType, SizesAssumption DEF IInv, TypeOK, Occ, Slots
  <2>3. curLen \in Nat /\ wptr \in Slots /\ curLen <= Occ
    BY SizesAssumption DEF IInv, TypeOK, TailIsUnfinished
  <2>4. draining => curLen < Occ
    BY UnfinishedBehindEnd DEF IInv, ReaderFed
  <2> QED
    BY <2>1, <2>2, <2>3, <2>4
<1>2. CASE Pushed(in)
  <2>1. /\ fifo' = [fifo EXCEPT ![wptr] = in]
        /\ wptr' = Inc(wptr)
        /\ curLen' = IF in.last THEN 0 ELSE curLen + 1
    BY <1>2 DEF Clock, WritePort
  <2>2. fifo'[wptr] = in
    BY <1>1, <2>1 DEF IInv, TypeOK
  <2>3. Back(wptr', 1) = wptr
    BY <1>1, <2>1, SizesAssumption DEF Back, Inc, Slots
  <2>4. \A k \in 1 .. Depth - 1 :
          /\ Back(wptr', k + 1) = Back(wptr, k)
          /\ Back(wptr, k) \in Slots /\ Back(wptr, k) # wptr
    BY <1>1, <2>1, SizesAssumption DEF Back, Inc, Slots
  <2>5. \A k \in 1 .. Depth - 1 : fifo'[Back(wptr, k)] = fifo[Back(wptr, k)]
    BY <2>1, <2>4 DEF IInv, TypeOK
  <2>6. CASE in.last
    BY <2>6, <1>1, <1>2, <2>1, <2>2, <2>3 DEF TailIsUnfinished
  <2>7. CASE ~in.last
    <3>1. curLen' = curLen + 1 /\ curLen' <= Occ'
      BY <2>7, <2>1, <1>1, <1>2
    <3>2. ASSUME NEW k \in 1 .. curLen'
          PROVE  ~fifo'[Back(wptr', k)].last
      <4>1. CASE k = 1
        BY <4>1, <2>2, <2>3, <2>7
      <4>2. CASE k # 1
        <5>1. k - 1 \in 1 .. curLen /\ k - 1 \in 1 .. Depth - 1 /\ (k - 1) + 1 = k
          BY <4>2, <3>1, <1>1
        <5>2. Back(wptr', k) = Back(wptr, k - 1)
          BY <5>1, <2>4
        <5> QED
          BY <5>1, <5>2, <2>5 DEF IInv, TailIsUnfinished
      <4> QED
        BY <4>1, <4>2
    <3>3. ASSUME curLen' < Occ'
          PROVE  fifo'[Back(wptr', curLen' + 1)].last
      <4>1. curLen < Occ /\ curLen + 1 \in 1 .. Depth - 1
        BY <3>1, <3>3, <1>1, <1>2
      <4>2. Back(wptr', curLen' + 1) = Back(wptr, curLen + 1)
        BY <4>1, <3>1, <2>4
      <4> QED
        BY <4>1, <4>2, <2>5 DEF IInv, TailIsUnfinished
    <3> QED
      BY <3>1, <3>2, <3>3 DEF TailIsUnfinished
  <2> QED
    BY <2>6, <2>7
<1>3. CASE ~Pushed(in)
  <2>1. UNCHANGED <<fifo, wptr, curLen>>
    BY <1>3 DEF Clock, WritePort
  <2> QED
    BY <2>1, <1>1, <1>3 DEF IInv, TailIsUnfinished
<1> QED
  BY <1>2, <1>3

\* A clock keeps the account of the gap.
LEMMA ClockGap ==
    ASSUME IInv, NEW in \in Offers, NEW tick \in BOOLEAN, Clock(in, tick)
    PROVE  GapAccount'
<1>1. gap \in Nat /\ low \in Nat /\ Gap \in Nat
  BY SizesAssumption DEF IInv, TypeOK
<1>2. CASE Emit
  <2>1. (draining' \/ gap' = Gap) /\ low' = 0
    BY <1>2 DEF Emit, IInv, TypeOK
  <2> QED
    BY <2>1, <1>1 DEF GapAccount
<1>3. CASE Hold
  <2>1. low + gap >= Gap
    BY <1>3 DEF Hold, IInv, GapAccount
  <2>2. low' + gap' >= Gap
    BY <2>1, <1>1, <1>3 DEF Hold
  <2> QED
    BY <2>2 DEF GapAccount
<1> QED
  BY <1>2, <1>3 DEF Clock

\* The demo generator stops behind its last byte.
LEMMA ClockDemo ==
    ASSUME IInv, NEW in \in Offers, NEW tick \in BOOLEAN, Clock(in, tick)
    PROVE  DemoInside'
<1>1. demoIdx \in Nat /\ DemoLen \in Nat /\ 0 < DemoLen /\ (demoSending => demoIdx < DemoLen)
  BY SizesAssumption DEF IInv, TypeOK, DemoInside
<1>2. \/ demoIdx' = 0
      \/ demoSending' /\ demoSending /\ demoIdx # DemoLen - 1 /\ demoIdx' = demoIdx + 1
      \/ ~demoSending'
  BY DEF Clock, DemoPort, IInv, TypeOK
<1> QED
  BY <1>1, <1>2 DEF DemoInside

\* Every step keeps the inductive invariant.
LEMMA NextIInv == IInv /\ [Next]_vars => IInv'
<1> SUFFICES ASSUME IInv, [Next]_vars
             PROVE  IInv'
  OBVIOUS
<1>1. ASSUME NEW in \in Offers, NEW tick \in BOOLEAN, Clock(in, tick)
      PROVE  IInv'
  <2>1. TypeOK'
    BY <1>1, ClockType
  <2>2. Bounded'
    <3>1. Occ' <= Threshold
      BY <1>1, ClockOccupied
    <3>2. Cardinality(Occupied') = Occ'
      <4>1. /\ wptr \notin Left \/ ~Pushed(in)
            /\ Occupied' = IF Pushed(in) THEN Left \cup {wptr} ELSE Left
            /\ Occ' = Occ + (IF Pushed(in) THEN 1 ELSE 0) - (IF draining THEN 1 ELSE 0)
        BY <1>1, ClockOccupied
      <4>2. IsFiniteSet(Occupied) /\ Cardinality(Occupied) = Occ /\ Occ \in Nat
        BY BetweenFinite, DistType DEF IInv, TypeOK, Bounded, Occupied, Occ, Slots
      <4>3. draining => rptr \in Occupied
        BY PopSlot, ReaderBehindWriter DEF IInv, TypeOK, Occupied
      <4>4. /\ IsFiniteSet(Left)
            /\ Cardinality(Left) = Occ - (IF draining THEN 1 ELSE 0)
        BY <4>2, <4>3, FS_RemoveElement DEF Left
      <4>5. CASE Pushed(in)
        <5>1. Cardinality(Left \cup {wptr}) = Cardinality(Left) + 1
          BY <4>1, <4>4, <4>5, FS_AddElement
        <5> QED
          BY <5>1, <4>1, <4>2, <4>4, <4>5
      <4>6. CASE ~Pushed(in)
        BY <4>1, <4>2, <4>4, <4>6
      <4> QED
        BY <4>5, <4>6
    <3> QED
      BY <3>1, <3>2 DEF Bounded
  <2>3. CountIsFrames' /\ ReaderFed'
    BY <1>1, ClockCount
  <2>4. TailIsUnfinished'
    BY <1>1, ClockTail
  <2>5. GapAccount'
    BY <1>1, ClockGap
  <2>6. DemoInside'
    BY <1>1, ClockDemo
  <2> QED
    BY <2>1, <2>2, <2>3, <2>4, <2>5, <2>6 DEF IInv
<1>2. CASE Reset
  BY <1>2, ResetIInv
<1>3. CASE UNCHANGED vars
  BY <1>3 DEF vars, IInv, TypeOK, Bounded, CountIsFrames, ReaderFed, TailIsUnfinished,
     GapAccount, DemoInside, Occ, Occupied, LastSlots
<1> QED
  BY <1>1, <1>2, <1>3 DEF Next, Tick

\* The inductive invariant holds in every state.
LEMMA Invariance == Spec => []IInv
<1> QED
  BY InitIInv, NextIInv, PTL DEF Spec

-------------------------------------------------------------------------------
(***************************************************************************)
(* What follows from it.                                                   *)
(***************************************************************************)

\* The registers of the bridge stay in their widths: neither pointer nor counter
\* ever leaves the ring's range.
THEOREM TypeCorrect == Spec => []TypeOK
<1>1. IInv => TypeOK
  BY DEF IInv
<1> QED
  BY <1>1, Invariance, PTL

\* tx_frame_cnt always is the number of complete frames stored in tx_fifo,
\* whatever is pushed and emitted in the same cycle.
THEOREM FrameCountCorrect == Spec => []CountIsFrames
<1>1. IInv => CountIsFrames
  BY DEF IInv
<1> QED
  BY <1>1, Invariance, PTL

\* The gate on net_tx_ready cannot close while nothing is left to drain: with
\* frames no longer than the threshold, a full ring holds a complete frame.
THEOREM NeverStalls == Spec => []NoStall
<1>1. IInv => NoStall
  <2> SUFFICES ASSUME IInv, Occ >= Threshold, ~(frameCnt > 0)
               PROVE  FALSE
    BY DEF NoStall
  <2>1. curLen \in Nat /\ MaxFrame \in Nat /\ curLen < MaxFrame
    BY SizesAssumption DEF IInv, TypeOK
  <2>2. curLen < Threshold /\ curLen < Occ
    <3>1. Occ \in Nat /\ Threshold \in Nat /\ MaxFrame <= Threshold
      BY DistType, SizesAssumption DEF IInv, TypeOK, Occ, Slots
    <3> QED
      BY <2>1, <3>1
  <2>3. fifo[Back(wptr, curLen + 1)].last
    BY <2>2 DEF IInv, TailIsUnfinished
  <2>4. curLen + 1 \in 1 .. Occ
    BY <2>1, <2>2, DistType DEF IInv, TypeOK, Occ, Slots
  <2>5. \A k \in 1 .. Occ : Back(wptr, k) \in Occupied
    BY SizesAssumption DEF IInv, TypeOK, Occ, Occupied, Between, Dist, Back, Slots
  <2>6. LastSlots # {}
    BY <2>3, <2>4, <2>5 DEF LastSlots
  <2>7. Cardinality(LastSlots) # 0
    <3>1. IsFiniteSet(Occupied)
      BY BetweenFinite DEF IInv, TypeOK, Occupied
    <3>2. IsFiniteSet(LastSlots)
      BY <3>1, FS_Subset DEF LastSlots
    <3> QED
      BY <2>6, <3>2, FS_EmptySet
  <2> QED
    BY <2>7 DEF IInv, CountIsFrames, TypeOK, Slots
<1> QED
  BY <1>1, Invariance, PTL

\* TXEN never rises before the inter-frame gap is over.
THEOREM GapKept == Spec => GapBeforeStart
<1>1. IInv /\ [Next]_vars => [~draining /\ draining' => low >= Gap]_vars
  <2> SUFFICES ASSUME IInv, Next, ~draining, draining'
               PROVE  low >= Gap
    OBVIOUS
  <2>1. ~Reset
    BY DEF Reset
  <2>2. Hold
    BY <2>1 DEF Next, Tick, Clock, Emit
  <2>3. gap = 0
    BY <2>2 DEF Hold
  <2> QED
    BY <2>3, SizesAssumption DEF IInv, GapAccount, TypeOK
<1> QED
  BY <1>1, Invariance, PTL DEF Spec, GapBeforeStart

-------------------------------------------------------------------------------
(***************************************************************************)
(* The ring implements the queue of frames.                                *)
(***************************************************************************)

\* The sizes of the ring and its contents.
LEMMA RingSizes ==
    ASSUME IInv
    PROVE  /\ rptr \in Slots /\ wptr \in Slots /\ fifo \in [Slots -> Word]
           /\ Occ \in Nat /\ Occ <= Threshold /\ Occ < Depth
           /\ Depth \in Nat /\ Threshold \in Nat
<1>1. rptr \in Slots /\ wptr \in Slots /\ fifo \in [Slots -> Word]
  BY DEF IInv, TypeOK
<1>2. Occ \in Nat /\ Occ < Depth /\ Depth \in Nat /\ Threshold \in Nat
  BY <1>1, DistType, SizesAssumption DEF Occ, Slots
<1>3. Occ <= Threshold
  BY DEF IInv, Bounded
<1> QED
  BY <1>1, <1>2, <1>3

\* The words that arrive at the queue in a clock.
Arriving(in) == IF Pushed(in) THEN <<in>> ELSE <<>>

\* Walking from the read pointer stays between the pointers, reaches every
\* occupied slot, and ends at the write pointer.
LEMMA SlotWalk ==
    ASSUME NEW r \in Slots, NEW w \in Slots
    PROVE  /\ \A i \in 1 .. Dist(r, w) : Slot(r, i) \in Between(r, w)
           /\ \A s \in Between(r, w) : \E i \in 1 .. Dist(r, w) : Slot(r, i) = s
           /\ Slot(r, Dist(r, w) + 1) = w
           /\ \A i \in 1 .. Depth - 1 : Slot(Inc(r), i) = Slot(r, i + 1)
<1>1. \A i \in 1 .. Dist(r, w) : Slot(r, i) \in Between(r, w)
  BY SizesAssumption DEF Slots, Slot, Dist, Between
<1>2. ASSUME NEW s \in Between(r, w)
      PROVE  \E i \in 1 .. Dist(r, w) : Slot(r, i) = s
  <2> DEFINE i == IF r <= s THEN s - r + 1 ELSE s + Depth - r + 1
  <2>1. i \in 1 .. Dist(r, w) /\ Slot(r, i) = s
    BY SizesAssumption DEF Slots, Slot, Dist, Between
  <2> QED
    BY <2>1
<1>3. Slot(r, Dist(r, w) + 1) = w
  BY SizesAssumption DEF Slots, Slot, Dist
<1>4. \A i \in 1 .. Depth - 1 : Slot(Inc(r), i) = Slot(r, i + 1)
  BY SizesAssumption DEF Slots, Slot, Inc
<1> QED
  BY <1>1, <1>2, <1>3, <1>4

\* The contents are a sequence of words, and hold a frame if the ring does.
LEMMA ContentsType ==
    IInv => /\ Contents \in Seq(Word)
            /\ Len(Contents) = Occ
            /\ Occ \in Nat
            /\ LastSlots # {} => Queue!HoldsFrame(Contents)
<1> SUFFICES ASSUME IInv
             PROVE  /\ Contents \in Seq(Word)
                    /\ Len(Contents) = Occ
                    /\ Occ \in Nat
                    /\ LastSlots # {} => Queue!HoldsFrame(Contents)
  OBVIOUS
<1>1. rptr \in Slots /\ wptr \in Slots /\ fifo \in [Slots -> Word] /\ Occ \in Nat
  BY DistType, SizesAssumption DEF IInv, TypeOK, Occ, Slots
<1>2. \A i \in 1 .. Occ : fifo[Slot(rptr, i)] \in Word
  BY <1>1, SlotWalk DEF Occ, Between
<1>3. Contents \in Seq(Word) /\ Len(Contents) = Occ /\ DOMAIN Contents = 1 .. Occ
  BY <1>1, <1>2 DEF Contents
<1>4. ASSUME LastSlots # {}
      PROVE  Queue!HoldsFrame(Contents)
  <2>1. PICK s \in Occupied : fifo[s].last
    BY <1>4 DEF LastSlots
  <2>2. PICK i \in 1 .. Occ : Slot(rptr, i) = s
    BY <1>1, SlotWalk DEF Occupied, Occ
  <2>3. Contents[i].last
    BY <2>1, <2>2 DEF Contents
  <2> QED
    BY <1>3, <2>3 DEF Queue!HoldsFrame
<1> QED
  BY <1>1, <1>3, <1>4

\* A clock moves the contents like the queue.
LEMMA ClockContents ==
    ASSUME IInv, NEW in \in Offers, NEW tick \in BOOLEAN, Clock(in, tick)
    PROVE  /\ Contents' = (IF draining THEN Tail(Contents) ELSE Contents) \o Arriving(in)
           /\ draining => Contents # <<>> /\ Head(Contents) = fifo[rptr]
           /\ Len(Contents) + Len(Arriving(in)) <= Threshold
<1>1. /\ rptr \in Slots /\ wptr \in Slots /\ fifo \in [Slots -> Word]
      /\ Occ \in Nat /\ Occ <= Threshold /\ Occ < Depth /\ Depth \in Nat /\ Threshold \in Nat
  BY RingSizes
<1>2. Contents \in Seq(Word) /\ Len(Contents) = Occ
  BY ContentsType
<1>3. Arriving(in) \in Seq(Word) /\ Len(Arriving(in)) = IF Pushed(in) THEN 1 ELSE 0
  <2>1. Pushed(in) => in \in Word
    BY DEF Pushed, Offers
  <2> QED
    BY <2>1 DEF Arriving
<1>4. Occ' = Occ + Len(Arriving(in)) - (IF draining THEN 1 ELSE 0)
  BY <1>1, <1>3, ClockOccupied
<1>5. Len(Contents) + Len(Arriving(in)) <= Threshold
  BY <1>1, <1>2, <1>3 DEF Pushed, Ready
<1>6. draining => Occ > 0
  BY ReaderBehindWriter DEF IInv
<1>7. draining => Contents # <<>> /\ Head(Contents) = fifo[rptr]
  <2>1. Slot(rptr, 1) = rptr
    BY <1>1, SizesAssumption DEF Slot, Slots
  <2> QED
    BY <1>1, <1>2, <1>6, <2>1 DEF Contents
<1>8. /\ fifo' = IF Pushed(in) THEN [fifo EXCEPT ![wptr] = in] ELSE fifo
      /\ rptr' = IF draining THEN Inc(rptr) ELSE rptr
  BY DEF Clock, WritePort, Emit, Hold
<1>9. /\ \A i \in 1 .. Occ : Slot(rptr, i) \in Slots /\ Slot(rptr, i) # wptr
      /\ Slot(rptr, Occ + 1) = wptr
      /\ \A i \in 1 .. Depth - 1 : Slot(Inc(rptr), i) = Slot(rptr, i + 1)
  <2>1. wptr \notin Occupied
    BY ClockOccupied
  <2> QED
    BY <2>1, <1>1, SlotWalk DEF Occupied, Occ, Between
<1> DEFINE Rest == IF draining THEN Tail(Contents) ELSE Contents
           Skip == IF draining THEN 1 ELSE 0
<1>10. /\ Rest \in Seq(Word) /\ Len(Rest) = Occ - Skip
       /\ \A i \in 1 .. Len(Rest) : Rest[i] = fifo[Slot(rptr, i + Skip)]
  <2>1. CASE draining
    <3>1. Tail(Contents) \in Seq(Word) /\ Len(Tail(Contents)) = Occ - 1
      BY <1>1, <1>2, <1>6, <2>1
    <3>2. \A i \in 1 .. Occ - 1 : Tail(Contents)[i] = Contents[i + 1]
      BY <1>1, <1>2, <1>6, <2>1
    <3>3. \A i \in 1 .. Occ - 1 : Contents[i + 1] = fifo[Slot(rptr, i + 1)]
      BY <1>1 DEF Contents
    <3> QED
      BY <2>1, <3>1, <3>2, <3>3
  <2>2. CASE ~draining
    <3>1. \A i \in 1 .. Occ : Contents[i] = fifo[Slot(rptr, i)]
      BY DEF Contents
    <3> QED
      BY <1>1, <1>2, <2>2, <3>1
  <2> QED
    BY <2>1, <2>2
<1> HIDE DEF Rest, Skip
<1>11. Skip \in {0, 1}
  BY DEF Skip
<1>12. Occ' = Len(Rest) + Len(Arriving(in)) /\ Len(Rest) \in Nat /\ Len(Arriving(in)) \in {0, 1}
  BY <1>1, <1>3, <1>4, <1>10 DEF Skip
<1>13. ASSUME NEW i \in 1 .. Occ'
       PROVE  fifo'[Slot(rptr', i)] = (Rest \o Arriving(in))[i]
  <2>1. Slot(rptr', i) = Slot(rptr, i + Skip)
    BY <1>1, <1>3, <1>4, <1>6, <1>8, <1>9 DEF Skip
  <2>2. CASE i <= Len(Rest)
    <3>1. i + Skip \in 1 .. Occ /\ i \in 1 .. Len(Rest)
      BY <2>2, <1>1, <1>10, <1>11, <1>12
    <3>2. fifo'[Slot(rptr, i + Skip)] = fifo[Slot(rptr, i + Skip)]
      BY <3>1, <1>1, <1>8, <1>9
    <3>3. (Rest \o Arriving(in))[i] = Rest[i]
      BY <3>1, <1>3, <1>10
    <3> QED
      BY <2>1, <3>1, <3>2, <3>3, <1>10
  <2>3. CASE i > Len(Rest)
    <3>1. Pushed(in) /\ i = Len(Rest) + 1 /\ i + Skip = Occ + 1
      BY <2>3, <1>1, <1>3, <1>10, <1>11, <1>12
    <3>2. fifo'[wptr] = in
      BY <3>1, <1>1, <1>8
    <3>3. (Rest \o Arriving(in))[i] = Arriving(in)[1]
      BY <3>1, <1>3, <1>10, <1>12
    <3>4. Arriving(in)[1] = in
      BY <3>1 DEF Arriving
    <3> QED
      BY <2>1, <3>1, <3>2, <3>3, <3>4, <1>9
  <2> QED
    BY <2>2, <2>3, <1>12
<1>14. /\ Rest \o Arriving(in) \in Seq(Word)
       /\ Len(Rest \o Arriving(in)) = Occ'
  BY <1>3, <1>10, <1>12, ConcatProperties
<1>15. Contents' = [i \in 1 .. Occ' |-> fifo'[Slot(rptr', i)]]
  BY DEF Contents
<1>16. Contents' = Rest \o Arriving(in)
  <2>1. Rest \o Arriving(in) \in [1 .. Occ' -> Word]
    BY <1>14, LenProperties
  <2> QED
    BY <1>13, <1>15, <2>1
<1> QED
  BY <1>5, <1>7, <1>16 DEF Rest

\* The ring, its pointers and its counter implement the queue of frames: what
\* wrapper_1g.v sends is what the IP pushed, frame after frame, each in one piece.
THEOREM BridgeImplementsQueue == Spec => ImplementsFrameQueue
<1>1. Init => Queue!Init
  <2> SUFFICES ASSUME Init
               PROVE  Queue!Init
    OBVIOUS
  <2>1. Occ = 0
    BY SizesAssumption DEF Init, Occ, Dist
  <2>2. Contents = <<>>
    BY <2>1 DEF Contents
  <2> QED
    BY <2>2 DEF Init, Queue!Init
<1>2. IInv /\ IInv' /\ [Next]_vars => [Queue!Next]_(Queue!vars)
  <2> SUFFICES ASSUME IInv, IInv', [Next]_vars
               PROVE  [Queue!Next]_(Queue!vars)
    OBVIOUS
  <2>1. ASSUME NEW in \in Offers, NEW tick \in BOOLEAN, Clock(in, tick)
        PROVE  Queue!Next
    <3>1. Arriving(in) \in Queue!Arrivals
      BY DEF Arriving, Queue!Arrivals, Pushed, Offers
    <3>2. Len(Contents) + Len(Arriving(in)) <= Threshold
      BY <2>1, ClockContents
    <3>3. CASE draining
      <4>1. /\ Contents' = Tail(Contents) \o Arriving(in)
            /\ Contents # <<>> /\ Head(Contents) = fifo[rptr]
        BY <2>1, <3>3, ClockContents
      <4>2. draining' \/ Head(Contents).last
        BY <2>1, <3>3, <4>1 DEF Clock, Emit, Hold
      <4>3. draining' => Queue!HoldsFrame(Contents')
        <5>1. (IInv => (LastSlots # {} => Queue!HoldsFrame(Contents)))'
          BY ContentsType, PTL
        <5> QED
          BY <5>1 DEF IInv, ReaderFed
      <4>4. draining' \in BOOLEAN
        BY DEF IInv, TypeOK
      <4>5. Queue!Send(Arriving(in))
        BY <3>3, <4>1, <4>2, <4>3, <4>4 DEF Queue!Send
      <4> QED
        BY <3>1, <3>2, <4>5 DEF Queue!Next
    <3>4. CASE ~draining
      <4>1. Contents' = Contents \o Arriving(in)
        BY <2>1, <3>4, ClockContents
      <4>2. draining' => LastSlots # {}
        <5>1. draining' => frameCnt > 0
          BY <2>1, <3>4 DEF Clock, Emit, Hold
        <5>2. frameCnt > 0 => LastSlots # {}
          BY FS_EmptySet DEF IInv, CountIsFrames
        <5> QED
          BY <5>1, <5>2
      <4>3. draining' => Queue!HoldsFrame(Contents)
        BY <4>2, ContentsType
      <4>4. draining' \in BOOLEAN /\ draining = FALSE
        BY <3>4 DEF IInv, TypeOK
      <4>5. Queue!Pause(Arriving(in))
        BY <4>1, <4>3, <4>4 DEF Queue!Pause
      <4> QED
        BY <3>1, <3>2, <4>5 DEF Queue!Next
    <3> QED
      BY <3>3, <3>4
  <2>2. CASE Reset
    <3>1. Occ' = 0
      BY <2>2, SizesAssumption DEF Reset, Occ, Dist
    <3>2. Contents' = <<>>
      BY <3>1 DEF Contents
    <3>3. Queue!Clear
      BY <2>2, <3>2 DEF Reset, Queue!Clear
    <3> QED
      BY <3>3 DEF Queue!Next
  <2>3. CASE UNCHANGED vars
    <3>1. Contents' = Contents /\ draining' = draining
      BY <2>3 DEF vars, Contents, Occ
    <3> QED
      BY <3>1 DEF Queue!vars
  <2> QED
    BY <2>1, <2>2, <2>3 DEF Next, Tick
<1> QED
  BY <1>1, <1>2, Invariance, PTL DEF Spec, ImplementsFrameQueue, Queue!Spec
===============================================================================
