----------------------------- MODULE RxPath_proof ------------------------------
(***************************************************************************)
(* Proofs about the receive path: sizes, and the alignment of frame_fifo   *)
(* to the frames, for every set of frames, every size of ring, FIFO and    *)
(* staging buffer, and any loss; and, as long as nothing is dropped, the   *)
(* delivery of every frame for the board, once, in order, word for word.   *)
(***************************************************************************)
EXTENDS RxPath, FiniteSetTheorems, TLAPS

IsSeq(s) == \E S : s \in Seq(S)

States == {"idle", "preamble", "header", "vlan", "payload"}

\* The static variables of mac_rx_process are a record of these fields.
Shape(m) == m = [state |-> m.state, cnt |-> m.cnt, dst |-> m.dst, eth |-> m.eth,
                 skip |-> m.skip, word |-> m.word, nwords |-> m.nwords]

\* Fields in their ranges; in front of the payload nothing has been collected.
MacOK(m) ==
    /\ Shape(m)
    /\ m.state \in States /\ m.cnt \in 0 .. CntMod - 1 /\ m.skip \in 0 .. 2
    /\ IsSeq(m.word) /\ Len(m.word) < Word
    /\ m.nwords \in Nat
    /\ m.state \in {"preamble", "header", "vlan"} => m.nwords = 0 /\ m.word = <<>>

IInv ==
    /\ MacOK(mac)
    /\ IsSeq(ring) /\ Len(ring) <= Threshold
    /\ IsSeq(fifo) /\ Len(fifo) <= FifoDepth
    /\ FifoAligned

-------------------------------------------------------------------------------
\* Sequences of whatever values.
LEMMA EmptySeq == IsSeq(<<>>) /\ Len(<<>>) = 0
<1>1. <<>> \in Seq({})
  OBVIOUS
<1> QED
  BY <1>1 DEF IsSeq

LEMMA AppendSeq ==
    ASSUME NEW s, IsSeq(s), NEW e
    PROVE  IsSeq(Append(s, e)) /\ Len(Append(s, e)) = Len(s) + 1 /\ Len(s) \in Nat
<1>1. PICK S : s \in Seq(S)
  BY DEF IsSeq
<1>2. s \in Seq(S \cup {e})
  BY <1>1
<1>3. Append(s, e) \in Seq(S \cup {e}) /\ Len(Append(s, e)) = Len(s) + 1 /\ Len(s) \in Nat
  BY <1>2
<1> QED
  BY <1>3 DEF IsSeq

LEMMA TailSeq ==
    ASSUME NEW s, IsSeq(s), s # <<>>
    PROVE  IsSeq(Tail(s)) /\ Len(Tail(s)) = Len(s) - 1 /\ Len(s) \in Nat
<1>1. PICK S : s \in Seq(S)
  BY DEF IsSeq
<1>2. Tail(s) \in Seq(S) /\ Len(Tail(s)) = Len(s) - 1 /\ Len(s) \in Nat
  BY <1>1
<1> QED
  BY <1>2 DEF IsSeq

\* What is left behind a whole sequence is nothing.
LEMMA RestSeq ==
    ASSUME NEW s, IsSeq(s)
    PROVE  SubSeq(s, Len(s) + 1, Len(s)) = <<>>
<1>1. PICK S : s \in Seq(S)
  BY DEF IsSeq
<1> QED
  BY <1>1

-------------------------------------------------------------------------------
\* One byte through the states in front of the payload.
LEMMA IdleFacts ==
    ASSUME NEW m, NEW b
    PROVE  MacOK(InIdle(m, b)) /\ InIdle(m, b).state \in {"idle", "preamble"}
<1>1. MacOK(Idle) /\ Idle.state = "idle"
  BY EmptySeq, RxAssumption DEF Idle, MacOK, Shape, States
<1>2. MacOK([Idle EXCEPT !.state = "preamble", !.cnt = 1])
  <2> DEFINE none == <<>>
             q1   == [Idle EXCEPT !.state = "preamble"]
             q2   == [q1 EXCEPT !.cnt = 1]
  <2>1. IsSeq(none) /\ Len(none) = 0 /\ none = <<>>
    BY EmptySeq
  <2>2. Idle = [state |-> "idle", cnt |-> 0, dst |-> none, eth |-> none, skip |-> 0,
               word |-> none, nwords |-> 0]
    BY DEF Idle
  <2>3. [Idle EXCEPT !.state = "preamble", !.cnt = 1] = q2
    OBVIOUS
  <2> HIDE DEF none
  <2>4. q1 = [state |-> "preamble", cnt |-> 0, dst |-> none, eth |-> none, skip |-> 0,
              word |-> none, nwords |-> 0]
    BY <2>2
  <2> HIDE DEF q1
  <2>5. q2 = [state |-> "preamble", cnt |-> 1, dst |-> none, eth |-> none, skip |-> 0,
              word |-> none, nwords |-> 0]
    BY <2>4
  <2> HIDE DEF q2
  <2>6. MacOK(q2)
    BY <2>1, <2>5, RxAssumption DEF MacOK, Shape, States
  <2> QED
    BY <2>3, <2>6
<1>3. [Idle EXCEPT !.state = "preamble", !.cnt = 1].state = "preamble"
  BY DEF Idle
<1> QED
  BY <1>1, <1>2, <1>3 DEF InIdle

LEMMA PreambleFacts ==
    ASSUME NEW m, MacOK(m), m.state = "preamble", NEW b
    PROVE  MacOK(InPreamble(m, b)) /\ InPreamble(m, b).state \in {"idle", "preamble", "header"}
<1> DEFINE cnt == Inc(m.cnt)
<1>1. cnt \in 0 .. CntMod - 1 /\ 0 \in 0 .. CntMod - 1
  BY RxAssumption DEF MacOK, Inc
<1>2. m = [state |-> m.state, cnt |-> m.cnt, dst |-> m.dst, eth |-> m.eth,
           skip |-> m.skip, word |-> m.word, nwords |-> m.nwords]
  BY DEF MacOK, Shape
<1> HIDE DEF cnt
<1> DEFINE r1 == [m EXCEPT !.state = "header", !.cnt = 0]
           r2 == [m EXCEPT !.state = "idle", !.cnt = cnt]
           r3 == [m EXCEPT !.cnt = cnt]
<1>3. InPreamble(m, b) \in {r1, r2, r3}
  BY DEF InPreamble, cnt
<1>4. MacOK(r1) /\ r1.state = "header"
  <2>1. r1 = [state |-> "header", cnt |-> 0, dst |-> m.dst, eth |-> m.eth,
             skip |-> m.skip, word |-> m.word, nwords |-> m.nwords]
    <3> DEFINE q1 == [m EXCEPT !.state = "header"]
             q2 == [q1 EXCEPT !.cnt = 0]
    <3>1. r1 = q2
      OBVIOUS
    <3> HIDE DEF r1
    <3>2. q1 = [state |-> "header", cnt |-> m.cnt, dst |-> m.dst, eth |-> m.eth,
                skip |-> m.skip, word |-> m.word, nwords |-> m.nwords]
      BY <1>2
    <3> HIDE DEF q1
    <3>3. q2 = [state |-> "header", cnt |-> 0, dst |-> m.dst, eth |-> m.eth,
                skip |-> m.skip, word |-> m.word, nwords |-> m.nwords]
      BY <3>2
    <3> HIDE DEF q2
    <3> QED
      BY <3>1, <3>3
  <2> HIDE DEF r1
  <2> QED
    BY <2>1, <1>1 DEF MacOK, Shape, States
<1>5. MacOK(r2) /\ r2.state = "idle"
  <2>1. r2 = [state |-> "idle", cnt |-> cnt, dst |-> m.dst, eth |-> m.eth,
             skip |-> m.skip, word |-> m.word, nwords |-> m.nwords]
    <3> DEFINE q1 == [m EXCEPT !.state = "idle"]
             q2 == [q1 EXCEPT !.cnt = cnt]
    <3>1. r2 = q2
      OBVIOUS
    <3> HIDE DEF r2
    <3>2. q1 = [state |-> "idle", cnt |-> m.cnt, dst |-> m.dst, eth |-> m.eth,
                skip |-> m.skip, word |-> m.word, nwords |-> m.nwords]
      BY <1>2
    <3> HIDE DEF q1
    <3>3. q2 = [state |-> "idle", cnt |-> cnt, dst |-> m.dst, eth |-> m.eth,
                skip |-> m.skip, word |-> m.word, nwords |-> m.nwords]
      BY <3>2
    <3> HIDE DEF q2
    <3> QED
      BY <3>1, <3>3
  <2> HIDE DEF r2
  <2> QED
    BY <2>1, <1>1 DEF MacOK, Shape, States
<1>6. MacOK(r3) /\ r3.state = "preamble"
  BY <1>1, <1>2 DEF MacOK, Shape, States
<1> HIDE DEF r1, r2, r3
<1> QED
  BY <1>3, <1>4, <1>5, <1>6

LEMMA HeaderFacts ==
    ASSUME NEW m, MacOK(m), m.state = "header", NEW b
    PROVE  /\ MacOK(InHeader(m, b))
           /\ InHeader(m, b).nwords = 0
<1> DEFINE cnt  == Inc(m.cnt)
           dst  == Shift(m.dst, b.data, Addr)
           one  == <<b.data>>
           type == Append(m.eth, b.data)
           next == IF m.dst = Repeat("us", Addr) THEN "payload" ELSE "idle"
<1>1. cnt \in 0 .. CntMod - 1 /\ 0 \in 0 .. CntMod - 1
  BY RxAssumption DEF MacOK, Inc
<1>2. m = [state |-> m.state, cnt |-> m.cnt, dst |-> m.dst, eth |-> m.eth,
           skip |-> m.skip, word |-> m.word, nwords |-> m.nwords]
  BY DEF MacOK, Shape
<1>3. next \in States
  BY DEF States
<1> DEFINE r1 == [m EXCEPT !.dst = dst, !.cnt = cnt]
           r2 == [m EXCEPT !.cnt = cnt]
           r3 == [m EXCEPT !.eth = one, !.cnt = cnt]
           r4 == [m EXCEPT !.state = "vlan", !.cnt = 0, !.skip = 2, !.eth = type]
           r5 == [m EXCEPT !.state = next, !.cnt = 0, !.eth = type]
<1>4. InHeader(m, b) \in {r1, r2, r3, r4, r5}
  BY DEF InHeader
<1> HIDE DEF cnt, dst, one, type, next
<1>5. MacOK(r1) /\ r1.nwords = 0
  <2>1. r1 = [state |-> m.state, cnt |-> cnt, dst |-> dst, eth |-> m.eth,
             skip |-> m.skip, word |-> m.word, nwords |-> m.nwords]
    <3> DEFINE q1 == [m EXCEPT !.dst = dst]
             q2 == [q1 EXCEPT !.cnt = cnt]
    <3>1. r1 = q2
      OBVIOUS
    <3> HIDE DEF r1
    <3>2. q1 = [state |-> m.state, cnt |-> m.cnt, dst |-> dst, eth |-> m.eth,
                skip |-> m.skip, word |-> m.word, nwords |-> m.nwords]
      BY <1>2
    <3> HIDE DEF q1
    <3>3. q2 = [state |-> m.state, cnt |-> cnt, dst |-> dst, eth |-> m.eth,
                skip |-> m.skip, word |-> m.word, nwords |-> m.nwords]
      BY <3>2
    <3> HIDE DEF q2
    <3> QED
      BY <3>1, <3>3
  <2> HIDE DEF r1
  <2> QED
    BY <2>1, <1>1 DEF MacOK, Shape, States
<1>6. MacOK(r2) /\ r2.nwords = 0
  BY <1>1, <1>2 DEF MacOK, Shape, States
<1>7. MacOK(r3) /\ r3.nwords = 0
  <2>1. r3 = [state |-> m.state, cnt |-> cnt, dst |-> m.dst, eth |-> one,
             skip |-> m.skip, word |-> m.word, nwords |-> m.nwords]
    <3> DEFINE q1 == [m EXCEPT !.eth = one]
             q2 == [q1 EXCEPT !.cnt = cnt]
    <3>1. r3 = q2
      OBVIOUS
    <3> HIDE DEF r3
    <3>2. q1 = [state |-> m.state, cnt |-> m.cnt, dst |-> m.dst, eth |-> one,
                skip |-> m.skip, word |-> m.word, nwords |-> m.nwords]
      BY <1>2
    <3> HIDE DEF q1
    <3>3. q2 = [state |-> m.state, cnt |-> cnt, dst |-> m.dst, eth |-> one,
                skip |-> m.skip, word |-> m.word, nwords |-> m.nwords]
      BY <3>2
    <3> HIDE DEF q2
    <3> QED
      BY <3>1, <3>3
  <2> HIDE DEF r3
  <2> QED
    BY <2>1, <1>1 DEF MacOK, Shape, States
<1>8. MacOK(r4) /\ r4.nwords = 0
  <2>1. r4 = [state |-> "vlan", cnt |-> 0, dst |-> m.dst, eth |-> type,
             skip |-> 2, word |-> m.word, nwords |-> m.nwords]
    <3> DEFINE q1 == [m EXCEPT !.state = "vlan"]
             q2 == [q1 EXCEPT !.cnt = 0]
             q3 == [q2 EXCEPT !.skip = 2]
             q4 == [q3 EXCEPT !.eth = type]
    <3>1. r4 = q4
      OBVIOUS
    <3> HIDE DEF r4
    <3>2. q1 = [state |-> "vlan", cnt |-> m.cnt, dst |-> m.dst, eth |-> m.eth,
                skip |-> m.skip, word |-> m.word, nwords |-> m.nwords]
      BY <1>2
    <3> HIDE DEF q1
    <3>3. q2 = [state |-> "vlan", cnt |-> 0, dst |-> m.dst, eth |-> m.eth,
                skip |-> m.skip, word |-> m.word, nwords |-> m.nwords]
      BY <3>2
    <3> HIDE DEF q2
    <3>4. q3 = [state |-> "vlan", cnt |-> 0, dst |-> m.dst, eth |-> m.eth,
                skip |-> 2, word |-> m.word, nwords |-> m.nwords]
      BY <3>3
    <3> HIDE DEF q3
    <3>5. q4 = [state |-> "vlan", cnt |-> 0, dst |-> m.dst, eth |-> type,
                skip |-> 2, word |-> m.word, nwords |-> m.nwords]
      BY <3>4
    <3> HIDE DEF q4
    <3> QED
      BY <3>1, <3>5
  <2> HIDE DEF r4
  <2> QED
    BY <2>1, <1>1 DEF MacOK, Shape, States
<1>9. MacOK(r5) /\ r5.nwords = 0
  <2>1. r5 = [state |-> next, cnt |-> 0, dst |-> m.dst, eth |-> type,
             skip |-> m.skip, word |-> m.word, nwords |-> m.nwords]
    <3> DEFINE q1 == [m EXCEPT !.state = next]
             q2 == [q1 EXCEPT !.cnt = 0]
             q3 == [q2 EXCEPT !.eth = type]
    <3>1. r5 = q3
      OBVIOUS
    <3> HIDE DEF r5
    <3>2. q1 = [state |-> next, cnt |-> m.cnt, dst |-> m.dst, eth |-> m.eth,
                skip |-> m.skip, word |-> m.word, nwords |-> m.nwords]
      BY <1>2
    <3> HIDE DEF q1
    <3>3. q2 = [state |-> next, cnt |-> 0, dst |-> m.dst, eth |-> m.eth,
                skip |-> m.skip, word |-> m.word, nwords |-> m.nwords]
      BY <3>2
    <3> HIDE DEF q2
    <3>4. q3 = [state |-> next, cnt |-> 0, dst |-> m.dst, eth |-> type,
                skip |-> m.skip, word |-> m.word, nwords |-> m.nwords]
      BY <3>3
    <3> HIDE DEF q3
    <3> QED
      BY <3>1, <3>4
  <2> HIDE DEF r5
  <2> QED
    BY <2>1, <1>1, <1>3 DEF MacOK, Shape, States
<1> HIDE DEF r1, r2, r3, r4, r5
<1> QED
  BY <1>4, <1>5, <1>6, <1>7, <1>8, <1>9

LEMMA VlanFacts ==
    ASSUME NEW m, MacOK(m), m.state = "vlan", NEW b
    PROVE  MacOK(InVlan(m, b)) /\ InVlan(m, b).state \in {"vlan", "header"}
<1>1. m = [state |-> m.state, cnt |-> m.cnt, dst |-> m.dst, eth |-> m.eth,
           skip |-> m.skip, word |-> m.word, nwords |-> m.nwords]
  BY DEF MacOK, Shape
<1> DEFINE cnt  == 2 * Addr
           less == m.skip - 1
           none == <<>>
           r1 == [m EXCEPT !.skip = less]
           r2 == [m EXCEPT !.skip = 0, !.state = "header", !.cnt = cnt, !.eth = none]
<1>2. cnt \in 0 .. CntMod - 1 /\ (m.skip > 1 => less \in 0 .. 2)
  BY RxAssumption DEF MacOK
<1>3. InVlan(m, b) = IF m.skip > 1 THEN r1 ELSE r2
  BY DEF InVlan
<1> HIDE DEF cnt, less, none
<1>4. m.skip > 1 => MacOK(r1) /\ r1.state = "vlan"
  BY <1>1, <1>2 DEF MacOK, Shape, States
<1>5. MacOK(r2) /\ r2.state = "header"
  <2>1. r2 = [state |-> "header", cnt |-> cnt, dst |-> m.dst, eth |-> none,
             skip |-> 0, word |-> m.word, nwords |-> m.nwords]
    <3> DEFINE q1 == [m EXCEPT !.skip = 0]
             q2 == [q1 EXCEPT !.state = "header"]
             q3 == [q2 EXCEPT !.cnt = cnt]
             q4 == [q3 EXCEPT !.eth = none]
    <3>1. r2 = q4
      OBVIOUS
    <3> HIDE DEF r2
    <3>2. q1 = [state |-> m.state, cnt |-> m.cnt, dst |-> m.dst, eth |-> m.eth,
                skip |-> 0, word |-> m.word, nwords |-> m.nwords]
      BY <1>1
    <3> HIDE DEF q1
    <3>3. q2 = [state |-> "header", cnt |-> m.cnt, dst |-> m.dst, eth |-> m.eth,
                skip |-> 0, word |-> m.word, nwords |-> m.nwords]
      BY <3>2
    <3> HIDE DEF q2
    <3>4. q3 = [state |-> "header", cnt |-> cnt, dst |-> m.dst, eth |-> m.eth,
                skip |-> 0, word |-> m.word, nwords |-> m.nwords]
      BY <3>3
    <3> HIDE DEF q3
    <3>5. q4 = [state |-> "header", cnt |-> cnt, dst |-> m.dst, eth |-> none,
                skip |-> 0, word |-> m.word, nwords |-> m.nwords]
      BY <3>4
    <3> HIDE DEF q4
    <3> QED
      BY <3>1, <3>5
  <2> HIDE DEF r2
  <2> QED
    BY <2>1, <1>2 DEF MacOK, Shape, States
<1> HIDE DEF r1, r2
<1> QED
  BY <1>3, <1>4, <1>5

\* One byte of the payload: a word is counted when it is written.
LEMMA PayloadFacts ==
    ASSUME NEW m, MacOK(m), m.state = "payload", NEW b
    PROVE  /\ MacOK(InPayload(m, b))
           /\ InPayload(m, b).state = IF Ends(m, b) THEN "idle" ELSE "payload"
           /\ InPayload(m, b).nwords = IF Writes(m, b) THEN m.nwords + 1 ELSE m.nwords
           /\ Ends(m, b) => Writes(m, b)
<1> DEFINE n    == m.nwords + 1
           next == IF b.last THEN "idle" ELSE m.state
           more == Append(m.word, b)
           none == <<>>
           r1 == [m EXCEPT !.word = none, !.nwords = n, !.state = next]
           r2 == [m EXCEPT !.word = more]
<1>1. m = [state |-> m.state, cnt |-> m.cnt, dst |-> m.dst, eth |-> m.eth,
           skip |-> m.skip, word |-> m.word, nwords |-> m.nwords]
  BY DEF MacOK, Shape
<1>2. InPayload(m, b) = IF Writes(m, b) THEN r1 ELSE r2
  BY DEF InPayload
<1>3. n \in Nat /\ next \in {"idle", "payload"} 
      /\ IsSeq(none) /\ Len(none) < Word /\ none = <<>>
  BY EmptySeq, RxAssumption DEF MacOK
<1>4. ~Writes(m, b) => IsSeq(more) /\ Len(more) < Word
  BY AppendSeq, RxAssumption DEF MacOK, Writes
<1>5. /\ Ends(m, b) => Writes(m, b) /\ next = "idle"
      /\ ~Ends(m, b) => next = "payload"
  BY DEF Ends, Writes
<1> HIDE DEF n, next, more, none
<1>6. MacOK(r1) /\ r1.state = next /\ r1.nwords = n
  <2>1. r1 = [state |-> next, cnt |-> m.cnt, dst |-> m.dst, eth |-> m.eth,
             skip |-> m.skip, word |-> none, nwords |-> n]
    <3> DEFINE q1 == [m EXCEPT !.word = none]
             q2 == [q1 EXCEPT !.nwords = n]
             q3 == [q2 EXCEPT !.state = next]
    <3>1. r1 = q3
      OBVIOUS
    <3> HIDE DEF r1
    <3>2. q1 = [state |-> m.state, cnt |-> m.cnt, dst |-> m.dst, eth |-> m.eth,
                skip |-> m.skip, word |-> none, nwords |-> m.nwords]
      BY <1>1
    <3> HIDE DEF q1
    <3>3. q2 = [state |-> m.state, cnt |-> m.cnt, dst |-> m.dst, eth |-> m.eth,
                skip |-> m.skip, word |-> none, nwords |-> n]
      BY <3>2
    <3> HIDE DEF q2
    <3>4. q3 = [state |-> next, cnt |-> m.cnt, dst |-> m.dst, eth |-> m.eth,
                skip |-> m.skip, word |-> none, nwords |-> n]
      BY <3>3
    <3> HIDE DEF q3
    <3> QED
      BY <3>1, <3>4
  <2> HIDE DEF r1
  <2> QED
    BY <2>1, <1>3 DEF MacOK, Shape, States
<1>7. ~Writes(m, b) => MacOK(r2) /\ r2.state = "payload" /\ r2.nwords = m.nwords
  BY <1>1, <1>4 DEF MacOK, Shape, States
<1> HIDE DEF r1, r2
<1> QED
  BY <1>2, <1>5, <1>6, <1>7 DEF n

-------------------------------------------------------------------------------
LEMMA InitHolds == Init => IInv
<1> SUFFICES ASSUME Init PROVE IInv
  OBVIOUS
<1>1. MacOK(Idle) /\ Idle.state = "idle"
  BY EmptySeq, RxAssumption DEF Idle, MacOK, Shape, States
<1> QED
  BY <1>1, EmptySeq, RxAssumption DEF Init, IInv, FifoAligned

\* What a pass leaves in the FIFO: nothing behind a frame, else one word more or
\* as much as before.
LEMMA PassFacts ==
    ASSUME IInv, Pass
    PROVE  MacOK(mac') /\ IsSeq(fifo') /\ Len(fifo') <= FifoDepth /\ FifoAligned'
<1> DEFINE b == Head(ring)
           w == Filled(Append(mac.word, b))
           words == IF Writes(mac, b) THEN Append(fifo, w) ELSE fifo
<1>1. mac' = MacRx(mac, b) /\ Stage(mac', Ends(mac, b), words) /\ ~Blocked /\ ring # <<>>
  BY DEF Pass
<1> HIDE DEF w
<1>2. MacOK(mac) /\ IsSeq(fifo) /\ Len(fifo) \in Nat /\ Len(fifo) <= FifoDepth
  BY AppendSeq DEF IInv
<1>3. Writes(mac, b) => Len(fifo) < FifoDepth
  BY <1>1, <1>2, RxAssumption DEF Blocked
<1>4. IsSeq(words) /\ Len(words) <= FifoDepth /\ Len(words) \in Nat
      /\ Len(words) = IF Writes(mac, b) THEN Len(fifo) + 1 ELSE Len(fifo)
  BY <1>2, <1>3, AppendSeq, RxAssumption
<1>5. CASE mac.state # "payload"
  <2>1. ~Writes(mac, b) /\ ~Ends(mac, b)
    BY <1>5 DEF Writes, Ends
  <2>2. Len(fifo) = 0 /\ fifo' = fifo
    BY <1>1, <1>5, <2>1 DEF IInv, FifoAligned, Stage
  <2>3. MacOK(mac') /\ (mac'.state = "payload" => mac'.nwords = 0)
    <3>1. CASE mac.state = "idle"
      BY <1>1, <3>1, IdleFacts DEF MacRx
    <3>2. CASE mac.state = "preamble"
      BY <1>1, <1>2, <3>2, PreambleFacts DEF MacRx
    <3>3. CASE mac.state = "header"
      BY <1>1, <1>2, <3>3, HeaderFacts DEF MacRx
    <3>4. CASE mac.state = "vlan"
      BY <1>1, <1>2, <3>4, VlanFacts DEF MacRx
    <3> QED
      BY <1>2, <1>5, <3>1, <3>2, <3>3, <3>4 DEF MacOK, States
  <2> QED
    BY <1>2, <2>2, <2>3 DEF FifoAligned
<1>6. CASE mac.state = "payload"
  <2>1. mac' = InPayload(mac, b)
    BY <1>1, <1>6 DEF MacRx
  <2>2. /\ MacOK(mac')
        /\ mac'.state = IF Ends(mac, b) THEN "idle" ELSE "payload"
        /\ mac'.nwords = IF Writes(mac, b) THEN mac.nwords + 1 ELSE mac.nwords
        /\ Ends(mac, b) => Writes(mac, b)
    BY <1>2, <1>6, <2>1, PayloadFacts
  <2>3. Len(words) = mac'.nwords
    BY <1>4, <1>6, <2>2 DEF IInv, FifoAligned
  <2> HIDE DEF words, b
  <2>4. CASE ~Ends(mac, b)
    <3>1. fifo' = words
      BY <1>1, <2>4 DEF Stage
    <3> QED
      BY <1>4, <2>2, <2>3, <2>4, <3>1 DEF FifoAligned
  <2>5. CASE Ends(mac, b)
    <3>1. fifo' = SubSeq(words, mac'.nwords + 1, Len(words))
      BY <1>1, <2>5 DEF Stage
    <3>2. fifo' = <<>>
      BY <1>4, <2>3, <3>1, RestSeq
    <3> QED
      BY <2>2, <2>5, <3>2, EmptySeq, RxAssumption DEF FifoAligned
  <2> QED
    BY <2>4, <2>5
<1> QED
  BY <1>5, <1>6

LEMMA StepHolds == IInv /\ [Next]_vars => IInv'
<1> SUFFICES ASSUME IInv, [Next]_vars PROVE IInv'
  OBVIOUS
<1>1. CASE \E f \in Frames : Begin(f)
  <2>1. ring' = ring /\ mac' = mac /\ fifo' = fifo
    BY <1>1 DEF Begin
  <2> QED
    BY <2>1 DEF IInv, FifoAligned
<1>2. CASE Receive
  <2>1. mac' = mac /\ fifo' = fifo
    BY <1>2 DEF Receive
  <2>2. IsSeq(ring') /\ Len(ring') <= Threshold
    <3>1. PICK b : Push(b)
      BY <1>2 DEF Receive
    <3>2. CASE Len(ring) < Threshold
      <4>1. ring' = Append(ring, b)
        BY <3>1, <3>2 DEF Push
      <4> QED
        BY <3>2, <4>1, AppendSeq, RxAssumption DEF IInv
    <3>3. CASE ~(Len(ring) < Threshold)
      BY <3>1, <3>3 DEF Push, IInv
    <3> QED
      BY <3>2, <3>3
  <2> QED
    BY <2>1, <2>2 DEF IInv, FifoAligned
<1>3. CASE Pass
  <2>1. ring' = Tail(ring) /\ ring # <<>>
    BY <1>3 DEF Pass
  <2>2. IsSeq(ring') /\ Len(ring') <= Threshold
    BY <2>1, TailSeq, RxAssumption DEF IInv
  <2> QED
    BY <1>3, <2>2, PassFacts DEF IInv
<1>4. CASE Reset
  <2>1. ring' = <<>> /\ mac' = Idle /\ fifo' = <<>>
    BY <1>4 DEF Reset
  <2>2. MacOK(Idle) /\ Idle.state = "idle"
    BY EmptySeq, RxAssumption DEF Idle, MacOK, Shape, States
  <2> QED
    BY <2>1, <2>2, EmptySeq, RxAssumption DEF IInv, FifoAligned
<1>5. CASE UNCHANGED vars
  BY <1>5 DEF vars, IInv, FifoAligned
<1> QED
  BY <1>1, <1>2, <1>3, <1>4, <1>5 DEF Next

\* Ring, FIFO and counters of the receive path keep their sizes (wrapper_1g.v:284,
\* mac_rx_process).
THEOREM TypeCorrect == Spec => []TypeOK
<1>1. IInv => TypeOK
  BY DEF IInv, TypeOK, MacOK, States
<1> QED
  BY InitHolds, StepHolds, <1>1, PTL DEF Spec

\* Whatever is lost, cut short, fused or filtered, the staging loop of udp_echo.cpp
\* finds exactly the words of its frame in the FIFO.
THEOREM FifoStaysAligned == Spec => []FifoAligned
<1>1. IInv => FifoAligned
  BY DEF IInv
<1> QED
  BY InitHolds, StepHolds, <1>1, PTL DEF Spec

-------------------------------------------------------------------------------
(***************************************************************************)
(* Delivery.  Frames for somebody else contain no byte of a preamble: in   *)
(* their payload mac_rx_process looks for one.                             *)
(*                                                                         *)
(* s is what was sent, a how much of the last frame has passed, r the      *)
(* ring, m the MAC, q the FIFO; the MAC has read frame k up to byte j.     *)
(***************************************************************************)
CleanWire ==
    /\ Preamble > 1 /\ BufWords > 0
    /\ \A f \in Frames : f.dst = "them" => \A i \in 1 .. Len(f.payload) : f.payload[i] # "55"

Size(s, n)  == Len(OnWire[s[n]])
On(s, n, i) == [data |-> OnWire[s[n]][i], last |-> i = Size(s, n), frame |-> n, nth |-> i]

\* Where the first type begins, and the payload.
TypeAt       == Preamble + 2 * Addr
PayloadAt(f) == TypeAt + 4 * f.tags + 2

\* The stream of all bytes: what comes behind byte j of frame k, and which is the last.
Over(s, k, j)          == k = 0 \/ j = Size(s, k)
Follows(s, k, j, n, i) == \/ ~Over(s, k, j) /\ n = k /\ i = j + 1
                          \/ Over(s, k, j) /\ n = k + 1 /\ i = 1
LastIs(s, a, k, j)     == \/ k = Len(s) /\ j = a
                          \/ Over(s, k, j) /\ k + 1 = Len(s) /\ a = 0
IsByte(s, b)           == \E n \in 1 .. Len(s) : \E i \in 1 .. Size(s, n) : b = On(s, n, i)

\* The ring holds the stream behind byte j of frame k.
Stored(s, a, r, k, j) ==
    /\ \A i \in 1 .. Len(r) : IsByte(s, r[i])
    /\ r = <<>> => LastIs(s, a, k, j)
    /\ r # <<>> => /\ Follows(s, k, j, r[1].frame, r[1].nth)
                   /\ LastIs(s, a, r[Len(r)].frame, r[Len(r)].nth)
    /\ \A i \in 1 .. Len(r) - 1 : Follows(s, r[i].frame, r[i].nth, r[i + 1].frame, r[i + 1].nth)

\* The MAC behind byte j of frame f.
InPre(m, j)     == m.state = "preamble" /\ j < Preamble /\ m.cnt = j /\ m.dst = <<>>
InAddr(m, f, j) == /\ m.state = "header" /\ m.cnt < 2 * Addr /\ j = Preamble + m.cnt
                   /\ m.dst = Repeat(f.dst, IF m.cnt < Addr THEN m.cnt ELSE Addr)
AtType(m, f, j, t)  == m.state = "header" /\ m.cnt = 2 * Addr /\ j = TypeAt + 4 * t
MidType(m, f, j, t) == /\ m.state = "header" /\ m.cnt = 2 * Addr + 1 /\ j = TypeAt + 4 * t + 1
                       /\ m.eth = <<IF t < f.tags THEN "tpid" ELSE "ip">>
InTag(m, f, j, t)   == /\ m.state = "vlan" /\ t < f.tags
                       /\ m.skip \in {1, 2} /\ j + m.skip = TypeAt + 4 * t + 4
InType(m, f, j)     == /\ m.dst = Repeat(f.dst, Addr)
                       /\ \E t \in 0 .. f.tags : AtType(m, f, j, t) \/ MidType(m, f, j, t) \/ InTag(m, f, j, t)

\* Its payload: full words in the FIFO, the rest in the MAC.
WordOf(s, k, x)  == [i \in 1 .. Word |-> On(s, k, PayloadAt(s[k]) + ((x - 1) * Word + i))]
Taking(s, m, q, k, j) ==
    /\ m.state = "payload" /\ s[k].dst = "us" /\ m.eth = <<"ip", "ip">>
    /\ j < Size(s, k) /\ j = PayloadAt(s[k]) + (m.nwords * Word + Len(m.word))
    /\ \A i \in 1 .. Len(m.word) : m.word[i] = On(s, k, PayloadAt(s[k]) + (m.nwords * Word + i))
    /\ Len(q) = m.nwords /\ \A x \in 1 .. m.nwords : q[x] = WordOf(s, k, x)

\* It looks for a preamble: a frame is over, or it is for somebody else.
Looking(s, m, k, j) ==
    m.state = "idle" /\ (Over(s, k, j) \/ (s[k].dst = "them" /\ j >= PayloadAt(s[k])))

Place(s, m, q, k, j) ==
    \/ Looking(s, m, k, j)
    \/ k > 0 /\ (InPre(m, j) \/ InAddr(m, s[k], j) \/ InType(m, s[k], j) \/ Taking(s, m, q, k, j))

\* What the layers have been handed: the frames for the board that are over.
Mine(s, n)              == {i \in 1 .. n : s[i].dst = "us"}
HandedAll(s, h, d, k, j) ==
    h = Cardinality(d) /\ d = Mine(s, IF Over(s, k, j) THEN k ELSE k - 1)

Position(s, k, j) == k \in 0 .. Len(s) /\ j \in Nat /\ IF k = 0 THEN j = 0 ELSE j \in 1 .. Size(s, k)

InStep(s, a, r, m, q, h, d) ==
    \E k, j \in Nat : /\ Position(s, k, j) /\ Stored(s, a, r, k, j)
                      /\ Place(s, m, q, k, j) /\ HandedAll(s, h, d, k, j)

WireOK(s, a) == s \in Seq(Frames) /\ a \in Nat /\ IF s = <<>> THEN a = 0 ELSE a <= Size(s, Len(s))

DInv ==
    /\ WireOK(sent, at) /\ drops \in Nat /\ resets \in Nat
    /\ Undisturbed => InStep(sent, at, ring, mac, fifo, handed, delivered)

-------------------------------------------------------------------------------
\* The bytes of a frame on the wire.
Prefix(u, w) == Len(u) <= Len(w) /\ \A i \in 1 .. Len(u) : w[i] = u[i]

LEMMA Joined ==
    ASSUME NEW u \in Seq(Values), NEW v \in Seq(Values)
    PROVE  /\ u \o v \in Seq(Values) /\ Len(u \o v) = Len(u) + Len(v)
           /\ Prefix(u, u \o v)
           /\ \A i \in 1 .. Len(v) : (u \o v)[Len(u) + i] = v[i]
<1>1. u \o v \in Seq(Values) /\ Len(u \o v) = Len(u) + Len(v) /\ Len(u) \in Nat /\ Len(v) \in Nat
  OBVIOUS
<1>2. \A i \in 1 .. Len(u) : (u \o v)[i] = u[i]
  OBVIOUS
<1>3. ASSUME NEW i \in 1 .. Len(v) PROVE (u \o v)[Len(u) + i] = v[i]
  OBVIOUS
<1>4. Prefix(u, u \o v)
  BY <1>1, <1>2 DEF Prefix
<1> QED
  BY <1>1, <1>3, <1>4

\* What is behind u in x stays there if x is extended.
Holds(w, n, v) == \A i \in 1 .. Len(v) : w[n + i] = v[i]

LEMMA Extended ==
    ASSUME NEW u \in Seq(Values), NEW v \in Seq(Values), NEW x, x = u \o v, NEW y, Prefix(x, y)
    PROVE  /\ x \in Seq(Values) /\ Len(x) = Len(u) + Len(v)
           /\ Prefix(u, y) /\ Holds(y, Len(u), v)
<1>1. /\ x \in Seq(Values) /\ Len(x) = Len(u) + Len(v) /\ Len(u) \in Nat /\ Len(v) \in Nat
      /\ \A i \in 1 .. Len(u) : x[i] = u[i]
      /\ \A i \in 1 .. Len(v) : x[Len(u) + i] = v[i]
  BY Joined DEF Prefix
<1>2. Len(x) <= Len(y) /\ \A i \in 1 .. Len(x) : y[i] = x[i]
  BY DEF Prefix
<1>3. ASSUME NEW i \in 1 .. Len(u) PROVE y[i] = u[i]
  <2>1. i \in 1 .. Len(x)
    BY <1>1
  <2> QED
    BY <1>1, <1>2, <2>1
<1>4. ASSUME NEW i \in 1 .. Len(v) PROVE y[Len(u) + i] = v[i]
  <2>1. Len(u) + i \in 1 .. Len(x)
    BY <1>1
  <2> QED
    BY <1>1, <1>2, <2>1
<1>5. Len(u) <= Len(y)
  BY <1>1, <1>2
<1> QED
  BY <1>1, <1>3, <1>4, <1>5 DEF Prefix, Holds

LEMMA RepeatFacts ==
    ASSUME NEW v \in Values, NEW n \in Nat
    PROVE  /\ Repeat(v, n) \in Seq(Values) /\ Len(Repeat(v, n)) = n
           /\ \A i \in 1 .. n : Repeat(v, n)[i] = v
  BY DEF Repeat

\* The bytes of frame f on the wire are those of w.
FrontIs(f, w) ==
    /\ Holds(w, 0, Repeat("55", Preamble - 1)) /\ w[Preamble] = "D5"
    /\ Holds(w, Preamble, Repeat(f.dst, Addr))
    /\ Holds(w, TypeAt, [i \in 1 .. 4 * f.tags |-> Tag[((i - 1) % 4) + 1]])
    /\ Holds(w, TypeAt + 4 * f.tags, <<"ip", "ip">>)

LEMMA FrameShape ==
    ASSUME NEW f \in Frames
    PROVE  /\ f.dst \in {"us", "them"} /\ f.tags \in Nat /\ f.payload \in Seq(Values)
           /\ Len(f.payload) \in Nat /\ Len(f.payload) > 0
           /\ TypeAt \in Nat /\ PayloadAt(f) \in Nat /\ PayloadAt(f) > TypeAt
<1>1. /\ f.dst \in {"us", "them"} /\ f.tags \in Nat /\ f.payload \in Seq(Values) /\ f.payload # <<>>
      /\ Preamble \in Nat /\ Addr \in Nat
  BY RxAssumption
<1>2. Len(f.payload) \in Nat /\ Len(f.payload) > 0
  BY <1>1
<1>3. TypeAt \in Nat
  BY <1>1 DEF TypeAt
<1> HIDE DEF TypeAt
<1>4. PayloadAt(f) \in Nat /\ PayloadAt(f) > TypeAt
  BY <1>1, <1>3 DEF PayloadAt
<1> QED
  BY <1>1, <1>2, <1>3, <1>4

LEMMA WireParts ==
    ASSUME NEW f \in Frames
    PROVE  /\ OnWire[f] \in Seq(Values) /\ Len(Front(f)) = PayloadAt(f)
           /\ Len(OnWire[f]) = PayloadAt(f) + Len(f.payload)
           /\ FrontIs(f, OnWire[f]) /\ Holds(OnWire[f], PayloadAt(f), f.payload)
<1> DEFINE a1 == Repeat("55", Preamble - 1)
           b1 == <<"D5">>
           a2 == a1 \o b1
           b2 == Repeat(f.dst, Addr)
           a3 == a2 \o b2
           b3 == Repeat("them", Addr)
           a4 == a3 \o b3
           b4 == [i \in 1 .. 4 * f.tags |-> Tag[((i - 1) % 4) + 1]]
           a5 == a4 \o b4
           b5 == <<"ip", "ip">>
           a6 == a5 \o b5
           b6 == f.payload
           a7 == a6 \o b6
<1>1. /\ f.dst \in Values /\ f.tags \in Nat /\ b6 \in Seq(Values) /\ Len(b6) \in Nat
      /\ Preamble \in Nat \ {0} /\ Addr \in Nat /\ 4 * f.tags \in Nat
  <2>1. f.dst \in {"us", "them"} /\ f.tags \in Nat /\ f.payload \in Seq(Values) /\ Len(f.payload) \in Nat
    BY FrameShape
  <2> QED
    BY <2>1, RxAssumption DEF Values
<1>2. Front(f) = a6 /\ OnWire[f] = a7
  BY DEF Front, OnWire
<1>3. a1 \in Seq(Values) /\ Len(a1) = Preamble - 1 /\ b1 \in Seq(Values) /\ Len(b1) = 1
  <2>1. Preamble - 1 \in Nat /\ "55" \in Values /\ "D5" \in Values
    BY <1>1 DEF Values
  <2> QED
    BY <2>1, RepeatFacts
<1>4. b2 \in Seq(Values) /\ Len(b2) = Addr /\ b3 \in Seq(Values) /\ Len(b3) = Addr
  <2>1. "them" \in Values
    BY DEF Values
  <2> QED
    BY <1>1, <2>1, RepeatFacts
<1>5. b4 \in Seq(Values) /\ Len(b4) = 4 * f.tags
  <2>1. ASSUME NEW i \in 1 .. 4 * f.tags PROVE Tag[((i - 1) % 4) + 1] \in Values
    <3>1. ((i - 1) % 4) + 1 \in 1 .. 4
      BY <1>1
    <3>2. \A x \in 1 .. 4 : Tag[x] \in Values
      BY DEF Tag, Values
    <3> QED
      BY <3>1, <3>2
  <2> QED
    BY <1>1, <2>1
<1>6. b5 \in Seq(Values) /\ Len(b5) = 2
  BY DEF Values
<1> HIDE DEF a1, a2, a3, a4, a5, a6, a7, b1, b2, b3, b4, b5, b6
<1>7. a2 \in Seq(Values) /\ Len(a2) = Len(a1) + Len(b1)
  BY <1>3, Joined DEF a2
<1>8. a3 \in Seq(Values) /\ Len(a3) = Len(a2) + Len(b2)
  BY <1>4, <1>7, Joined DEF a3
<1>9. a4 \in Seq(Values) /\ Len(a4) = Len(a3) + Len(b3)
  BY <1>4, <1>8, Joined DEF a4
<1>10. a5 \in Seq(Values) /\ Len(a5) = Len(a4) + Len(b4)
  BY <1>5, <1>9, Joined DEF a5
<1>11. a6 \in Seq(Values) /\ Len(a6) = Len(a5) + Len(b5)
  BY <1>6, <1>10, Joined DEF a6
<1>12. a7 \in Seq(Values) /\ Len(a7) = Len(a6) + Len(b6) /\ Prefix(a6, a7)
  BY <1>1, <1>11, Joined DEF a7
<1>13. Holds(a7, Len(a6), b6)
  BY <1>1, <1>11, Joined DEF a7, Holds
<1>14. Prefix(a5, a7) /\ Holds(a7, Len(a5), b5)
  BY <1>6, <1>10, <1>12, Extended DEF a6
<1>15. Prefix(a4, a7) /\ Holds(a7, Len(a4), b4)
  BY <1>5, <1>9, <1>14, Extended DEF a5
<1>16. Prefix(a3, a7)
  BY <1>4, <1>8, <1>15, Extended DEF a4
<1>17. Prefix(a2, a7) /\ Holds(a7, Len(a2), b2)
  BY <1>4, <1>7, <1>16, Extended DEF a3
<1>18. Prefix(a1, a7) /\ Holds(a7, Len(a1), b1)
  BY <1>3, <1>17, Extended DEF a2
<1>19. /\ Len(a2) = Preamble /\ Len(a4) = TypeAt /\ Len(a5) = TypeAt + 4 * f.tags
       /\ Len(a6) = PayloadAt(f)
  <2> DEFINE l == 4 * f.tags
  <2>1. /\ Len(a1) = Preamble - 1 /\ Len(b1) = 1 /\ Len(b2) = Addr /\ Len(b3) = Addr
        /\ Len(b4) = l /\ Len(b5) = 2 /\ l \in Nat
    BY <1>1, <1>3, <1>4, <1>5, <1>6
  <2> HIDE DEF l
  <2>2. Len(a2) = Preamble /\ Len(a3) = Preamble + Addr
    BY <1>1, <1>7, <1>8, <2>1
  <2>3. Len(a4) = TypeAt
    BY <1>1, <1>9, <2>1, <2>2 DEF TypeAt
  <2>4. Len(a5) = TypeAt + l /\ Len(a6) = TypeAt + l + 2
    BY <1>10, <1>11, <2>1, <2>3
  <2> QED
    BY <2>2, <2>3, <2>4 DEF PayloadAt, l
<1>20. Holds(a7, 0, a1)
  BY <1>1, <1>3, <1>18 DEF Prefix, Holds
<1>21. a7[Preamble] = "D5"
  <2>1. Len(a1) + 1 = Preamble /\ b1[1] = "D5" /\ 1 \in 1 .. Len(b1)
    BY <1>1, <1>3 DEF b1
  <2> QED
    BY <1>18, <2>1 DEF Holds
<1>22. FrontIs(f, a7)
  BY <1>14, <1>15, <1>17, <1>19, <1>20, <1>21 DEF FrontIs, a1, b2, b4, b5
<1> QED
  BY <1>2, <1>12, <1>13, <1>19, <1>22 DEF b6

LEMMA WireBytes ==
    ASSUME NEW f \in Frames
    PROVE  /\ \A i \in 1 .. Preamble - 1 : OnWire[f][i] = "55"
           /\ OnWire[f][Preamble] = "D5"
           /\ \A i \in 1 .. Addr : OnWire[f][Preamble + i] = f.dst
           /\ \A t \in 0 .. f.tags - 1 : /\ OnWire[f][TypeAt + 4 * t + 1] = "tpid"
                                         /\ OnWire[f][TypeAt + 4 * t + 2] = "tpid"
           /\ OnWire[f][TypeAt + 4 * f.tags + 1] = "ip"
           /\ OnWire[f][TypeAt + 4 * f.tags + 2] = "ip"
           /\ \A i \in 1 .. Len(f.payload) : OnWire[f][PayloadAt(f) + i] = f.payload[i]
<1> DEFINE w == OnWire[f]
           T == TypeAt
           tags == [i \in 1 .. 4 * f.tags |-> Tag[((i - 1) % 4) + 1]]
<1>1. FrontIs(f, w) /\ Holds(w, PayloadAt(f), f.payload)
  BY WireParts
<1>2. f.dst \in Values /\ f.tags \in Nat /\ T \in Nat /\ 4 * f.tags \in Nat
  BY FrameShape DEF Values
<1>3. Preamble \in Nat /\ Preamble - 1 \in Nat /\ Addr \in Nat /\ "55" \in Values
  BY RxAssumption DEF Values
<1> HIDE DEF w, T
<1>4. ASSUME NEW i \in 1 .. Preamble - 1 PROVE w[i] = "55"
  <2>1. Len(Repeat("55", Preamble - 1)) = Preamble - 1 /\ Repeat("55", Preamble - 1)[i] = "55"
    BY <1>3, RepeatFacts
  <2>2. 0 + i = i
    BY <1>3
  <2> QED
    BY <1>1, <2>1, <2>2 DEF FrontIs, Holds
<1>5. ASSUME NEW i \in 1 .. Addr PROVE w[Preamble + i] = f.dst
  <2>1. Len(Repeat(f.dst, Addr)) = Addr /\ Repeat(f.dst, Addr)[i] = f.dst
    BY <1>2, <1>3, RepeatFacts
  <2> QED
    BY <1>1, <2>1 DEF FrontIs, Holds
<1>6. ASSUME NEW t \in 0 .. f.tags - 1
      PROVE  w[T + 4 * t + 1] = "tpid" /\ w[T + 4 * t + 2] = "tpid"
  <2> DEFINE x == 4 * t + 1
             y == 4 * t + 2
  <2>1. t \in Nat /\ x \in 1 .. 4 * f.tags /\ y \in 1 .. 4 * f.tags
    BY <1>2
  <2>2. (x - 1) % 4 = 0 /\ (y - 1) % 4 = 1 /\ T + 4 * t + 1 = T + x /\ T + 4 * t + 2 = T + y
    BY <1>2, <2>1
  <2> HIDE DEF x, y
  <2>3. Tag[0 + 1] = "tpid" /\ Tag[1 + 1] = "tpid"
    BY DEF Tag
  <2>4. tags[x] = "tpid" /\ tags[y] = "tpid"
    BY <2>1, <2>2, <2>3
  <2>5. Len(tags) = 4 * f.tags
    BY <1>2
  <2>6. Holds(w, T, tags)
    BY <1>1 DEF FrontIs, T
  <2> HIDE DEF tags
  <2>7. w[T + x] = tags[x] /\ w[T + y] = tags[y]
    BY <2>1, <2>5, <2>6 DEF Holds
  <2> QED
    BY <2>2, <2>4, <2>7
<1>7. w[T + 4 * f.tags + 1] = "ip" /\ w[T + 4 * f.tags + 2] = "ip"
  <2> DEFINE u == <<"ip", "ip">>
  <2>1. 1 \in 1 .. Len(u) /\ 2 \in 1 .. Len(u) /\ u[1] = "ip" /\ u[2] = "ip"
    OBVIOUS
  <2>2. Holds(w, T + 4 * f.tags, u)
    BY <1>1 DEF FrontIs, T
  <2> HIDE DEF u
  <2> QED
    BY <2>1, <2>2 DEF Holds
<1> QED
  BY <1>1, <1>4, <1>5, <1>6, <1>7 DEF FrontIs, Holds, w, T

LEMMA FrameSize ==
    ASSUME NEW s \in Seq(Frames), NEW k \in 1 .. Len(s)
    PROVE  /\ s[k] \in Frames /\ k \in Nat /\ k > 0
           /\ Size(s, k) \in Nat /\ Size(s, k) = PayloadAt(s[k]) + Len(s[k].payload)
           /\ Size(s, k) > PayloadAt(s[k]) /\ PayloadAt(s[k]) > TypeAt
           /\ PayloadAt(s[k]) \in Nat /\ TypeAt \in Nat
<1>1. s[k] \in Frames /\ k \in Nat /\ k > 0
  OBVIOUS
<1> QED
  BY <1>1, FrameShape, WireParts DEF Size

-------------------------------------------------------------------------------
(***************************************************************************)
(* The MAC takes one byte, b, behind byte j of a frame f.                  *)
(***************************************************************************)
LEMMA PreStep ==
    ASSUME NEW m, MacOK(m), NEW j \in Nat, InPre(m, j), NEW b,
           b.data = IF j + 1 = Preamble THEN "D5" ELSE "55", NEW f
    PROVE  \/ InPre(InPreamble(m, b), j + 1)
           \/ InAddr(InPreamble(m, b), f, j + 1)
<1> DEFINE cnt == Inc(m.cnt)
<1>1. m = [state |-> m.state, cnt |-> m.cnt, dst |-> m.dst, eth |-> m.eth,
           skip |-> m.skip, word |-> m.word, nwords |-> m.nwords]
  BY DEF MacOK, Shape
<1>2. m.cnt = j /\ j < Preamble /\ m.state = "preamble" /\ m.dst = <<>>
  BY DEF InPre
<1>3. cnt = j + 1
  BY <1>2, RxAssumption DEF Inc
<1> HIDE DEF cnt
<1>4. CASE j + 1 = Preamble
  <2> DEFINE r == [m EXCEPT !.state = "header", !.cnt = 0]
  <2>1. InPreamble(m, b) = r
    BY <1>3, <1>4, RxAssumption DEF InPreamble, cnt
  <2>2. r.state = "header" /\ r.cnt = 0 /\ r.dst = <<>>
    BY <1>1, <1>2
  <2> HIDE DEF r
  <2>3. Repeat(f.dst, 0) = <<>>
    BY DEF Repeat
  <2>4. InAddr(r, f, j + 1)
    BY <1>4, <2>2, <2>3, RxAssumption DEF InAddr
  <2> QED
    BY <2>1, <2>4
<1>5. CASE j + 1 # Preamble
  <2> DEFINE r == [m EXCEPT !.cnt = cnt]
  <2>1. InPreamble(m, b) = r
    BY <1>5 DEF InPreamble, cnt
  <2>2. r.state = "preamble" /\ r.cnt = cnt /\ r.dst = <<>>
    BY <1>1, <1>2
  <2> HIDE DEF r
  <2>3. InPre(r, j + 1)
    BY <1>2, <1>3, <1>5, <2>2, RxAssumption DEF InPre
  <2> QED
    BY <2>1, <2>3
<1> QED
  BY <1>4, <1>5

LEMMA ShiftFacts ==
    ASSUME NEW v, NEW n \in Nat, n < Addr
    PROVE  Shift(Repeat(v, n), v, Addr) = Repeat(v, n + 1)
<1> DEFINE a == Append(Repeat(v, n), v)
<1>1. Addr \in Nat
  BY RxAssumption
<1>2. a \in Seq({v}) /\ Len(a) = n + 1 /\ \A i \in 1 .. n + 1 : a[i] = v
  BY DEF Repeat
<1>3. Shift(Repeat(v, n), v, Addr) = SubSeq(a, 1, n + 1)
  BY <1>1, <1>2 DEF Shift
<1> HIDE DEF a
<1>4. SubSeq(a, 1, n + 1) = [i \in 1 .. n + 1 |-> v]
  BY <1>2
<1> QED
  BY <1>3, <1>4 DEF Repeat

LEMMA IncFacts ==
    ASSUME NEW n \in Nat, n + 1 < CntMod
    PROVE  Inc(n) = n + 1
  BY RxAssumption DEF Inc

LEMMA AddrStep ==
    ASSUME NEW f \in Frames, NEW m, MacOK(m), NEW j \in Nat, InAddr(m, f, j), NEW b,
           m.cnt < Addr => b.data = f.dst
    PROVE  \/ InAddr(InHeader(m, b), f, j + 1)
           \/ InType(InHeader(m, b), f, j + 1)
<1> DEFINE cnt == Inc(m.cnt)
           dst == Shift(m.dst, b.data, Addr)
           c   == m.cnt
<1>1. m = [state |-> m.state, cnt |-> m.cnt, dst |-> m.dst, eth |-> m.eth,
           skip |-> m.skip, word |-> m.word, nwords |-> m.nwords]
  BY DEF MacOK, Shape
<1>2. /\ m.state = "header" /\ c \in Nat /\ c < 2 * Addr /\ j = Preamble + c
      /\ m.dst = Repeat(f.dst, IF c < Addr THEN c ELSE Addr)
      /\ Addr \in Nat /\ Addr > 0 /\ Preamble \in Nat
  BY RxAssumption DEF InAddr, MacOK
<1>3. cnt = c + 1
  <2>1. c \in Nat /\ c + 1 < CntMod
    <3>1. CntMod \in Nat /\ CntMod > 2 * Addr
      BY RxAssumption
    <3>2. c \in Nat /\ c < 2 * Addr /\ Addr \in Nat
      BY <1>2
    <3> HIDE DEF c
    <3> QED
      BY ONLY <3>1, <3>2
  <2> QED
    BY <2>1, IncFacts
<1>4. c < Addr => dst = Repeat(f.dst, c + 1)
  BY <1>2, ShiftFacts
<1> HIDE DEF cnt, dst, c
<1>5. CASE c < Addr
  <2> DEFINE r == [m EXCEPT !.dst = dst, !.cnt = cnt]
  <2>1. InHeader(m, b) = r
    BY <1>2, <1>5 DEF InHeader, cnt, dst, c
  <2>2. r.state = "header" /\ r.cnt = cnt /\ r.dst = dst
    <3> DEFINE q == [m EXCEPT !.dst = dst]
    <3>1. r = [q EXCEPT !.cnt = cnt]
      OBVIOUS
    <3>2. q = [state |-> m.state, cnt |-> m.cnt, dst |-> dst, eth |-> m.eth,
               skip |-> m.skip, word |-> m.word, nwords |-> m.nwords]
      BY <1>1
    <3> HIDE DEF q, r
    <3> QED
      BY <1>2, <3>1, <3>2
  <2> HIDE DEF r
  <2>3. cnt < 2 * Addr /\ j + 1 = Preamble + cnt
    BY <1>2, <1>3, <1>5
  <2>4. dst = Repeat(f.dst, IF cnt < Addr THEN cnt ELSE Addr)
    <3>1. c + 1 = IF c + 1 < Addr THEN c + 1 ELSE Addr
      BY <1>2, <1>5
    <3> QED
      BY <1>3, <1>4, <1>5, <3>1
  <2>5. InAddr(r, f, j + 1)
    BY <2>2, <2>3, <2>4 DEF InAddr
  <2> QED
    BY <2>1, <2>5
<1>6. CASE ~(c < Addr)
  <2> DEFINE r == [m EXCEPT !.cnt = cnt]
  <2>1. InHeader(m, b) = r
    BY <1>2, <1>6 DEF InHeader, cnt, c
  <2>2. r.state = "header" /\ r.cnt = cnt /\ r.dst = Repeat(f.dst, Addr)
    BY <1>1, <1>2, <1>6
  <2> HIDE DEF r
  <2>3. CASE cnt < 2 * Addr
    <3>1. j + 1 = Preamble + cnt /\ ~(cnt < Addr)
      BY <1>2, <1>3, <1>6
    <3>2. InAddr(r, f, j + 1)
      BY <2>2, <2>3, <3>1 DEF InAddr
    <3> QED
      BY <2>1, <3>2
  <2>4. CASE ~(cnt < 2 * Addr)
    <3>1. cnt = 2 * Addr /\ j + 1 = TypeAt + 4 * 0
      BY <1>2, <1>3, <2>4 DEF TypeAt
    <3>2. 0 \in 0 .. f.tags
      BY FrameShape
    <3>3. AtType(r, f, j + 1, 0)
      BY <2>2, <3>1 DEF AtType
    <3>4. InType(r, f, j + 1)
      BY <2>2, <3>2, <3>3 DEF InType
    <3> QED
      BY <2>1, <3>4
  <2> QED
    BY <2>3, <2>4
<1> QED
  BY <1>5, <1>6

\* The payload begins, or what the MAC leaves.
Taken(m, f, j) == /\ m.state = "payload" /\ f.dst = "us" /\ m.eth = <<"ip", "ip">>
                  /\ m.word = <<>> /\ j = PayloadAt(f)
Left(m, f, j)  == m.state = "idle" /\ f.dst = "them" /\ j = PayloadAt(f)

LEMMA FirstOfType ==
    ASSUME NEW f \in Frames, NEW m, MacOK(m), NEW j \in Nat, m.dst = Repeat(f.dst, Addr),
           NEW t \in 0 .. f.tags, AtType(m, f, j, t), NEW b,
           b.data = IF t < f.tags THEN "tpid" ELSE "ip"
    PROVE  InType(InHeader(m, b), f, j + 1)
<1> DEFINE cnt == Inc(m.cnt)
           one == <<b.data>>
<1>1. m = [state |-> m.state, cnt |-> m.cnt, dst |-> m.dst, eth |-> m.eth,
           skip |-> m.skip, word |-> m.word, nwords |-> m.nwords]
  BY DEF MacOK, Shape
<1>2. m.state = "header" /\ m.cnt = 2 * Addr /\ j = TypeAt + 4 * t /\ Addr \in Nat /\ Addr > 0
  BY RxAssumption DEF AtType
<1>3. cnt = 2 * Addr + 1
  BY <1>2, RxAssumption DEF Inc
<1>4. one = <<IF t < f.tags THEN "tpid" ELSE "ip">>
  OBVIOUS
<1> DEFINE r == [m EXCEPT !.eth = one, !.cnt = cnt]
<1>5. InHeader(m, b) = r
  BY <1>2 DEF InHeader
<1> HIDE DEF cnt, one
<1>6. r.state = "header" /\ r.cnt = cnt /\ r.dst = m.dst /\ r.eth = one
  <2> DEFINE q == [m EXCEPT !.eth = one]
  <2>1. r = [q EXCEPT !.cnt = cnt]
    OBVIOUS
  <2>2. q = [state |-> m.state, cnt |-> m.cnt, dst |-> m.dst, eth |-> one,
             skip |-> m.skip, word |-> m.word, nwords |-> m.nwords]
    BY <1>1
  <2> HIDE DEF q, r
  <2> QED
    BY <1>2, <2>1, <2>2
<1> HIDE DEF r
<1>7. j + 1 = TypeAt + 4 * t + 1
  BY <1>2
<1>8. MidType(r, f, j + 1, t)
  BY <1>3, <1>4, <1>6, <1>7 DEF MidType
<1> QED
  BY <1>5, <1>6, <1>8 DEF InType

LEMMA SecondOfType ==
    ASSUME NEW f \in Frames, NEW m, MacOK(m), NEW j \in Nat, m.dst = Repeat(f.dst, Addr),
           NEW t \in 0 .. f.tags, MidType(m, f, j, t), NEW b,
           b.data = IF t < f.tags THEN "tpid" ELSE "ip"
    PROVE  LET n == InHeader(m, b)
           IN  InType(n, f, j + 1) \/ Taken(n, f, j + 1) \/ Left(n, f, j + 1)
<1> DEFINE type == Append(m.eth, b.data)
           next == IF m.dst = Repeat("us", Addr) THEN "payload" ELSE "idle"
<1>1. m = [state |-> m.state, cnt |-> m.cnt, dst |-> m.dst, eth |-> m.eth,
           skip |-> m.skip, word |-> m.word, nwords |-> m.nwords]
  BY DEF MacOK, Shape
<1>2. m.state = "header" /\ m.cnt = 2 * Addr + 1 /\ j = TypeAt + 4 * t + 1 /\ Addr \in Nat /\ Addr > 0
  BY RxAssumption DEF MidType
<1>3. type = IF t < f.tags THEN <<"tpid", "tpid">> ELSE <<"ip", "ip">>
  <2>1. m.eth = <<IF t < f.tags THEN "tpid" ELSE "ip">>
    BY DEF MidType
  <2> QED
    BY <2>1
<1>4. <<"ip", "ip">> # <<"tpid", "tpid">>
  OBVIOUS
<1>5. f.dst \in {"us", "them"} /\ f.tags \in Nat /\ TypeAt \in Nat
  BY FrameShape
<1>6. CASE t < f.tags
  <2> DEFINE r == [m EXCEPT !.state = "vlan", !.cnt = 0, !.skip = 2, !.eth = type]
  <2>1. InHeader(m, b) = r
    BY <1>2, <1>3, <1>6 DEF InHeader
  <2> HIDE DEF type
  <2>2. r.state = "vlan" /\ r.skip = 2 /\ r.dst = m.dst
    <3> DEFINE q1 == [m EXCEPT !.state = "vlan"]
               q2 == [q1 EXCEPT !.cnt = 0]
               q3 == [q2 EXCEPT !.skip = 2]
    <3>1. r = [q3 EXCEPT !.eth = type]
      OBVIOUS
    <3> HIDE DEF r
    <3>2. q1 = [state |-> "vlan", cnt |-> m.cnt, dst |-> m.dst, eth |-> m.eth,
                skip |-> m.skip, word |-> m.word, nwords |-> m.nwords]
      BY <1>1
    <3> HIDE DEF q1
    <3>3. q2 = [state |-> "vlan", cnt |-> 0, dst |-> m.dst, eth |-> m.eth,
                skip |-> m.skip, word |-> m.word, nwords |-> m.nwords]
      BY <3>2
    <3> HIDE DEF q2
    <3>4. q3 = [state |-> "vlan", cnt |-> 0, dst |-> m.dst, eth |-> m.eth,
                skip |-> 2, word |-> m.word, nwords |-> m.nwords]
      BY <3>3
    <3> HIDE DEF q3
    <3> QED
      BY <3>1, <3>4
  <2> HIDE DEF r
  <2>3. (j + 1) + 2 = TypeAt + 4 * t + 4
    BY <1>2, <1>5
  <2>4. InTag(r, f, j + 1, t)
    BY <1>6, <2>2, <2>3 DEF InTag
  <2> QED
    BY <2>1, <2>2, <2>4 DEF InType
<1>7. CASE ~(t < f.tags)
  <2> DEFINE r == [m EXCEPT !.state = next, !.cnt = 0, !.eth = type]
  <2>1. InHeader(m, b) = r
    BY <1>2, <1>3, <1>4, <1>7 DEF InHeader
  <2>2. next = IF f.dst = "us" THEN "payload" ELSE "idle"
    <3>1. CASE f.dst = "us"
      BY <3>1
    <3>2. CASE f.dst = "them"
      <4>1. Repeat("them", Addr)[1] = "them" /\ Repeat("us", Addr)[1] = "us"
        BY <1>2 DEF Repeat
      <4> QED
        BY <3>2, <4>1
    <3> QED
      BY <1>5, <3>1, <3>2
  <2> HIDE DEF type, next
  <2>3. r.state = next /\ r.eth = type /\ r.word = <<>>
    <3> DEFINE q1 == [m EXCEPT !.state = next]
               q2 == [q1 EXCEPT !.cnt = 0]
    <3>1. r = [q2 EXCEPT !.eth = type]
      OBVIOUS
    <3> HIDE DEF r
    <3>2. q1 = [state |-> next, cnt |-> m.cnt, dst |-> m.dst, eth |-> m.eth,
                skip |-> m.skip, word |-> m.word, nwords |-> m.nwords]
      BY <1>1
    <3> HIDE DEF q1
    <3>3. q2 = [state |-> next, cnt |-> 0, dst |-> m.dst, eth |-> m.eth,
                skip |-> m.skip, word |-> m.word, nwords |-> m.nwords]
      BY <3>2
    <3> HIDE DEF q2
    <3>4. m.word = <<>>
      BY <1>2 DEF MacOK
    <3> QED
      BY <3>1, <3>3, <3>4
  <2> HIDE DEF r
  <2>4. j + 1 = PayloadAt(f)
    BY <1>2, <1>5, <1>7 DEF PayloadAt
  <2>5. Taken(r, f, j + 1) \/ Left(r, f, j + 1)
    BY <1>3, <1>5, <1>7, <2>2, <2>3, <2>4 DEF Taken, Left
  <2> QED
    BY <2>1, <2>5
<1> QED
  BY <1>6, <1>7

LEMMA TagStep ==
    ASSUME NEW f \in Frames, NEW m, MacOK(m), NEW j \in Nat, m.dst = Repeat(f.dst, Addr),
           NEW t \in 0 .. f.tags, InTag(m, f, j, t), NEW b
    PROVE  InType(InVlan(m, b), f, j + 1)
<1>1. m = [state |-> m.state, cnt |-> m.cnt, dst |-> m.dst, eth |-> m.eth,
           skip |-> m.skip, word |-> m.word, nwords |-> m.nwords]
  BY DEF MacOK, Shape
<1>2. m.state = "vlan" /\ t < f.tags /\ m.skip \in {1, 2} /\ j + m.skip = TypeAt + 4 * t + 4
  BY DEF InTag
<1>3. f.tags \in Nat /\ TypeAt \in Nat
  BY FrameShape
<1>4. CASE m.skip = 2
  <2> DEFINE r == [m EXCEPT !.skip = 1]
  <2>1. InVlan(m, b) = r
    BY <1>4 DEF InVlan
  <2>2. r.state = "vlan" /\ r.skip = 1 /\ r.dst = m.dst
    BY <1>1, <1>2
  <2> HIDE DEF r
  <2>3. (j + 1) + 1 = TypeAt + 4 * t + 4
    BY <1>2, <1>3, <1>4
  <2>4. InTag(r, f, j + 1, t)
    BY <1>2, <2>2, <2>3 DEF InTag
  <2> QED
    BY <2>1, <2>2, <2>4 DEF InType
<1>5. CASE m.skip = 1
  <2> DEFINE cnt  == 2 * Addr
             none == <<>>
             r == [m EXCEPT !.skip = 0, !.state = "header", !.cnt = cnt, !.eth = none]
  <2>1. InVlan(m, b) = r
    BY <1>5 DEF InVlan
  <2> HIDE DEF cnt, none
  <2>2. r.state = "header" /\ r.cnt = cnt /\ r.dst = m.dst
    <3> DEFINE q1 == [m EXCEPT !.skip = 0]
               q2 == [q1 EXCEPT !.state = "header"]
               q3 == [q2 EXCEPT !.cnt = cnt]
    <3>1. r = [q3 EXCEPT !.eth = none]
      OBVIOUS
    <3> HIDE DEF r
    <3>2. q1 = [state |-> m.state, cnt |-> m.cnt, dst |-> m.dst, eth |-> m.eth,
                skip |-> 0, word |-> m.word, nwords |-> m.nwords]
      BY <1>1
    <3> HIDE DEF q1
    <3>3. q2 = [state |-> "header", cnt |-> m.cnt, dst |-> m.dst, eth |-> m.eth,
                skip |-> 0, word |-> m.word, nwords |-> m.nwords]
      BY <3>2
    <3> HIDE DEF q2
    <3>4. q3 = [state |-> "header", cnt |-> cnt, dst |-> m.dst, eth |-> m.eth,
                skip |-> 0, word |-> m.word, nwords |-> m.nwords]
      BY <3>3
    <3> HIDE DEF q3
    <3> QED
      BY <3>1, <3>4
  <2> HIDE DEF r
  <2>3. j + 1 = TypeAt + 4 * (t + 1) /\ t + 1 \in 0 .. f.tags
    BY <1>2, <1>3, <1>5
  <2>4. AtType(r, f, j + 1, t + 1)
    BY <2>2, <2>3 DEF AtType, cnt
  <2> QED
    BY <2>1, <2>2, <2>3, <2>4 DEF InType
<1> QED
  BY <1>2, <1>4, <1>5

-------------------------------------------------------------------------------
(***************************************************************************)
(* Words: len bytes are n full words and r more bytes.                     *)
(***************************************************************************)
LEMMA QuotientIs ==
    ASSUME NEW W \in Nat, W > 0, NEW n \in Nat, NEW x \in Nat, n * W <= x, x < n * W + W
    PROVE  x \div W = n
<1> DEFINE d == x \div W
<1>1. d \in Nat /\ d * W <= x /\ x < d * W + W
  BY SMT
<1> HIDE DEF d
<1>2. (d + 1) * W = d * W + W /\ (n + 1) * W = n * W + W /\ d * W \in Nat /\ n * W \in Nat
  BY <1>1
<1>3. ASSUME d < n PROVE FALSE
  <2>1. (d + 1) * W <= n * W
    <3>1. d + 1 <= n
      BY <1>1, <1>3
    <3>2. PICK e \in Nat : n = (d + 1) + e
      <4>1. n - (d + 1) \in Nat /\ n = (d + 1) + (n - (d + 1))
        BY <1>1, <3>1
      <4> QED
        BY <4>1
    <3>3. n * W = (d + 1) * W + e * W /\ e * W \in Nat
      BY <1>1, <3>2
    <3> QED
      BY <1>1, <1>2, <3>3
  <2> QED
    BY <1>1, <1>2, <2>1
<1>4. ASSUME n < d PROVE FALSE
  <2>1. (n + 1) * W <= d * W
    <3>1. n + 1 <= d
      BY <1>1, <1>4
    <3>2. PICK e \in Nat : d = (n + 1) + e
      <4>1. d - (n + 1) \in Nat /\ d = (n + 1) + (d - (n + 1))
        BY <1>1, <3>1
      <4> QED
        BY <4>1
    <3>3. d * W = (n + 1) * W + e * W /\ e * W \in Nat
      BY <1>1, <3>2
    <3> QED
      BY <1>1, <1>2, <3>3
  <2> QED
    BY <1>1, <1>2, <2>1
<1>5. d = n
  BY <1>1, <1>3, <1>4
<1> QED
  BY <1>5 DEF d

LEMMA WordCount ==
    ASSUME NEW n \in Nat, NEW r \in 1 .. Word, NEW len \in Nat, len = n * Word + r
    PROVE  /\ (len + Word - 1) \div Word = n + 1
           /\ \A x \in 1 .. n, i \in 1 .. Word : (x - 1) * Word + i <= len
           /\ \A i \in 1 .. Word : ((n + 1) - 1) * Word + i <= len <=> i <= r
<1>1. Word \in Nat /\ Word > 0 /\ r \in Nat /\ r > 0 /\ r <= Word
  BY RxAssumption
<1> DEFINE a == n * Word
<1>2. a \in Nat /\ (n + 1) * Word = a + Word /\ (n + 1) - 1 = n
  BY <1>1
<1>3. (len + Word - 1) \div Word = n + 1
  <2> DEFINE x == len + Word - 1
  <2>1. x \in Nat /\ (n + 1) * Word <= x /\ x < (n + 1) * Word + Word
    <3> HIDE DEF a
    <3>1. len = a + r
      BY DEF a
    <3>2. x \in Nat /\ a + Word <= x /\ x < (a + Word) + Word
      BY <1>1, <1>2, <3>1
    <3> QED
      BY <1>2, <3>2
  <2> HIDE DEF x
  <2>2. x \div Word = n + 1
    BY <1>1, <2>1, QuotientIs
  <2> QED
    BY <2>2 DEF x
<1>4. ASSUME NEW x \in 1 .. n, NEW i \in 1 .. Word PROVE (x - 1) * Word + i <= len
  <2>1. PICK e \in Nat : n = x + e
    <3>1. n - x \in Nat /\ n = x + (n - x)
      OBVIOUS
    <3> QED
      BY <3>1
  <2>2. a = x * Word + e * Word /\ x * Word = (x - 1) * Word + Word /\ e * Word \in Nat
        /\ x * Word \in Nat /\ (x - 1) * Word \in Nat
    BY <1>1, <2>1
  <2> QED
    BY <1>1, <1>2, <2>2
<1>5. ASSUME NEW i \in 1 .. Word PROVE ((n + 1) - 1) * Word + i <= len <=> i <= r
  <2>1. ((n + 1) - 1) * Word = a /\ len = a + r
    BY <1>2
  <2> HIDE DEF a
  <2> QED
    BY <1>1, <1>2, <2>1
<1> QED
  BY <1>3, <1>4, <1>5

\* Every positive length is such a one.
LEMMA WordsOf ==
    ASSUME NEW len \in Nat, len > 0
    PROVE  \E n \in Nat, r \in 1 .. Word : len = n * Word + r
<1>1. Word \in Nat /\ Word > 0
  BY RxAssumption
<1> DEFINE n == (len - 1) \div Word
           r == (len - 1) - n * Word + 1
<1>2. n \in Nat /\ n * Word <= len - 1 /\ len - 1 < n * Word + Word
  BY <1>1, SMT
<1>3. n * Word \in Nat
  BY <1>1, <1>2
<1> HIDE DEF n
<1>4. r \in 1 .. Word /\ len = n * Word + r
  BY <1>1, <1>2, <1>3
<1> QED
  BY <1>2, <1>4

Least(a, b) == IF a < b THEN a ELSE b

LEMMA DueFacts ==
    ASSUME sent \in Seq(Frames), NEW k \in 1 .. Len(sent), NEW n \in Nat, NEW r \in 1 .. Word,
           Len(sent[k].payload) = n * Word + r
    PROVE  Due(k) = [x \in 1 .. Least(n + 1, BufWords) |->
                       IF x <= n THEN WordOf(sent, k, x)
                       ELSE [i \in 1 .. Word |-> IF i <= r THEN On(sent, k, PayloadAt(sent[k]) + (n * Word + i))
                                                 ELSE Zero]]
<1> DEFINE front == Len(Front(sent[k]))
           len   == Len(sent[k].payload)
           P     == PayloadAt(sent[k])
           count == (len + Word - 1) \div Word
           L     == Least(n + 1, BufWords)
<1>1. /\ sent[k] \in Frames /\ P \in Nat /\ len \in Nat /\ front = P
      /\ Word \in Nat /\ BufWords \in Nat
  BY FrameSize, FrameShape, WireParts, RxAssumption
<1>2. /\ count = n + 1
      /\ \A x \in 1 .. n, i \in 1 .. Word : (x - 1) * Word + i <= len
      /\ \A i \in 1 .. Word : ((n + 1) - 1) * Word + i <= len <=> i <= r
  BY <1>1, WordCount
<1>3. \A i : Byte(k, i) = On(sent, k, i)
  BY DEF Byte, On, Size
<1>4. Due(k) = [x \in 1 .. L |-> [i \in 1 .. Word |-> IF (x - 1) * Word + i <= len
                                                     THEN Byte(k, front + (x - 1) * Word + i) ELSE Zero]]
  BY <1>2 DEF Due, Least
<1>5. L \in Nat /\ L <= n + 1
  BY <1>1 DEF Least
<1> HIDE DEF front, len, P, count, L
<1>6. ASSUME NEW x \in 1 .. L, NEW i \in 1 .. Word
      PROVE  /\ front + (x - 1) * Word + i = P + ((x - 1) * Word + i)
             /\ x \in 1 .. n \/ x = n + 1
             /\ (n + 1) - 1 = n
  <2>1. x - 1 \in Nat /\ (x - 1) * Word \in Nat
    BY <1>1, <1>5
  <2> QED
    BY <1>1, <1>5, <2>1
<1>7. ASSUME NEW x \in 1 .. L, NEW i \in 1 .. Word
      PROVE  (IF (x - 1) * Word + i <= len THEN Byte(k, front + (x - 1) * Word + i) ELSE Zero)
               = IF x <= n THEN On(sent, k, P + ((x - 1) * Word + i))
                 ELSE IF i <= r THEN On(sent, k, P + (n * Word + i)) ELSE Zero
  <2>1. CASE x \in 1 .. n
    BY <1>2, <1>3, <1>6, <2>1
  <2>2. CASE x = n + 1
    <3>1. ~(x <= n) /\ x - 1 = n
      BY <2>2
    <3> QED
      BY <1>2, <1>3, <1>6, <2>2, <3>1
  <2> QED
    BY <1>6, <2>1, <2>2
<1>8. ASSUME NEW x \in 1 .. L
      PROVE  [i \in 1 .. Word |-> IF (x - 1) * Word + i <= len
                                    THEN Byte(k, front + (x - 1) * Word + i) ELSE Zero]
               = IF x <= n THEN WordOf(sent, k, x)
                 ELSE [i \in 1 .. Word |-> IF i <= r THEN On(sent, k, P + (n * Word + i)) ELSE Zero]
  BY <1>7 DEF WordOf, P
<1> QED
  BY <1>4, <1>8 DEF L, P

\* Words of different frames are told apart by their first byte.
LEMMA DueDiffers ==
    ASSUME CleanWire, sent \in Seq(Frames), NEW k \in 1 .. Len(sent), NEW l \in 1 .. Len(sent),
           Due(k) = Due(l)
    PROVE  k = l
<1>1. ASSUME NEW a \in 1 .. Len(sent) PROVE Due(a)[1][1].frame = a
  <2>1. Len(sent[a].payload) \in Nat /\ Len(sent[a].payload) > 0
    BY FrameSize, FrameShape
  <2>2. PICK n \in Nat, r \in 1 .. Word : Len(sent[a].payload) = n * Word + r
    BY <2>1, WordsOf
  <2>3. BufWords \in Nat /\ BufWords > 0 /\ Word \in Nat /\ Word > 0 /\ 1 <= r
    BY RxAssumption DEF CleanWire
  <2>4. 1 \in 1 .. Least(n + 1, BufWords) /\ 1 \in 1 .. Word
    BY <2>3 DEF Least
  <2> DEFINE e == [i \in 1 .. Word |-> IF i <= r THEN On(sent, a, PayloadAt(sent[a]) + (n * Word + i)) ELSE Zero]
  <2>5. Due(a) = [x \in 1 .. Least(n + 1, BufWords) |-> IF x <= n THEN WordOf(sent, a, x) ELSE e]
    BY <2>2, DueFacts
  <2>6. WordOf(sent, a, 1)[1].frame = a
    BY <2>4 DEF WordOf, On
  <2>7. e[1].frame = a
    BY <2>3, <2>4 DEF On
  <2> HIDE DEF e
  <2>8. Due(a)[1] = IF 1 <= n THEN WordOf(sent, a, 1) ELSE e
    BY <2>4, <2>5
  <2> QED
    BY <2>6, <2>7, <2>8
<1> QED
  BY <1>1

LEMMA FilledFacts ==
    ASSUME NEW w, IsSeq(w), Len(w) < Word, NEW b
    PROVE  Filled(Append(w, b)) = [i \in 1 .. Word |-> IF i <= Len(w) THEN w[i]
                                                      ELSE IF i = Len(w) + 1 THEN b ELSE Zero]
<1>1. PICK S : w \in Seq(S)
  BY DEF IsSeq
<1> DEFINE T == S \cup {b, Zero}
           v == Append(w, b)
           l == Len(w)
           z == Repeat(Zero, Word - (l + 1))
<1>2. Word \in Nat /\ l \in Nat /\ l < Word
  BY <1>1, RxAssumption
<1>3. w \in Seq(T)
  BY <1>1
<1>4. b \in T /\ Zero \in T
  OBVIOUS
<1> HIDE DEF T
<1>5. /\ v \in Seq(T) /\ Len(v) = l + 1 /\ v[l + 1] = b
      /\ \A i \in 1 .. l : v[i] = w[i]
  BY <1>2, <1>3, <1>4
<1>6. z \in Seq(T) /\ Len(z) = Word - (l + 1) /\ \A i \in 1 .. Word - (l + 1) : z[i] = Zero
  BY <1>2, <1>4 DEF Repeat
<1>7. Filled(v) = v \o z
  BY <1>5 DEF Filled
<1> HIDE DEF v, z, l
<1> DEFINE g == v \o z
<1>8. g \in Seq(T) /\ Len(g) = Word /\ \A i \in 1 .. l + 1 : g[i] = v[i]
  BY <1>2, <1>5, <1>6
<1>9. ASSUME NEW i \in 1 .. Word, i > l + 1 PROVE g[i] = Zero
  <2>1. i - (l + 1) \in 1 .. Word - (l + 1)
    BY <1>2, <1>9
  <2>2. g[i] = z[i - (l + 1)]
    BY <1>2, <1>5, <1>6, <1>9
  <2> QED
    BY <1>6, <2>1, <2>2
<1> HIDE DEF g
<1>10. g = [i \in 1 .. Word |-> g[i]]
  BY <1>8
<1>11. ASSUME NEW i \in 1 .. Word
       PROVE  g[i] = IF i <= l THEN w[i] ELSE IF i = l + 1 THEN b ELSE Zero
  <2>1. CASE i <= l
    <3>1. i \in 1 .. l /\ i \in 1 .. l + 1
      BY <1>2, <2>1
    <3> QED
      BY <1>5, <1>8, <2>1, <3>1
  <2>2. CASE i = l + 1
    <3>1. i \in 1 .. l + 1 /\ ~(i <= l)
      BY <1>2, <2>2
    <3> QED
      BY <1>5, <1>8, <2>2, <3>1
  <2>3. CASE i > l + 1
    <3>1. ~(i <= l) /\ i # l + 1
      BY <1>2, <2>3
    <3> QED
      BY <1>9, <2>3, <3>1
  <2>4. i <= l \/ i = l + 1 \/ i > l + 1
    BY <1>2
  <2> QED
    BY <2>1, <2>2, <2>3, <2>4
<1> QED
  BY <1>7, <1>10, <1>11 DEF g, v, l

LEMMA BeginningOf ==
    ASSUME NEW q, IsSeq(q), NEW n \in Nat, n <= Len(q)
    PROVE  SubSeq(q, 1, n) = [x \in 1 .. n |-> q[x]]
<1>1. PICK S : q \in Seq(S)
  BY DEF IsSeq
<1> QED
  BY <1>1

-------------------------------------------------------------------------------
\* The MAC takes byte b of the payload of frame k.
WordsAfter(m, q, b) == IF Writes(m, b) THEN Append(q, Filled(Append(m.word, b))) ELSE q

LEMMA TakingFacts ==
    ASSUME NEW s \in Seq(Frames), NEW k \in 1 .. Len(s), NEW m, MacOK(m), NEW q, NEW j \in Nat,
           Taking(s, m, q, k, j)
    PROVE  LET n == m.nwords
               l == Len(m.word)
               P == PayloadAt(s[k])
           IN  /\ n \in Nat /\ l \in Nat /\ l < Word /\ Word \in Nat /\ P \in Nat /\ n * Word \in Nat
               /\ j = P + (n * Word + l) /\ j + 1 = P + (n * Word + (l + 1))
               /\ (n + 1) * Word = n * Word + Word
               /\ Len(s[k].payload) = Size(s, k) - P /\ Size(s, k) \in Nat
               /\ IsSeq(m.word)
<1>1. IsSeq(m.word) /\ m.nwords \in Nat /\ Len(m.word) < Word /\ Word \in Nat
  BY RxAssumption DEF MacOK
<1>2. Len(m.word) \in Nat
  BY <1>1, AppendSeq
<1>3. /\ s[k] \in Frames /\ Size(s, k) \in Nat /\ PayloadAt(s[k]) \in Nat
      /\ Size(s, k) = PayloadAt(s[k]) + Len(s[k].payload)
  BY FrameSize
<1>4. Len(s[k].payload) \in Nat
  BY <1>3, FrameShape
<1>5. m.nwords * Word \in Nat /\ (m.nwords + 1) * Word = m.nwords * Word + Word
  BY <1>1
<1>6. j = PayloadAt(s[k]) + (m.nwords * Word + Len(m.word))
  BY DEF Taking
<1>7. j + 1 = PayloadAt(s[k]) + (m.nwords * Word + (Len(m.word) + 1))
  BY <1>2, <1>3, <1>5, <1>6
<1>8. Len(s[k].payload) = Size(s, k) - PayloadAt(s[k])
  BY <1>3, <1>4
<1> QED
  BY <1>1, <1>2, <1>3, <1>5, <1>6, <1>7, <1>8

LEMMA WordIsFull ==
    ASSUME NEW s \in Seq(Frames), NEW k \in 1 .. Len(s), NEW m, MacOK(m), NEW q, NEW j \in Nat,
           Taking(s, m, q, k, j), NEW b, b = On(s, k, j + 1)
    PROVE  Filled(Append(m.word, b))
             = [i \in 1 .. Word |-> IF i <= Len(m.word) + 1
                                      THEN On(s, k, PayloadAt(s[k]) + (m.nwords * Word + i)) ELSE Zero]
<1> DEFINE n == m.nwords
           l == Len(m.word)
           P == PayloadAt(s[k])
           v == m.word
<1>1. /\ l \in Nat /\ l < Word /\ Word \in Nat /\ IsSeq(v) /\ j + 1 = P + (n * Word + (l + 1))
  BY TakingFacts
<1>2. \A i \in 1 .. l : v[i] = On(s, k, P + (n * Word + i))
  BY DEF Taking
<1>3. Filled(Append(v, b)) = [i \in 1 .. Word |-> IF i <= l THEN v[i]
                                                 ELSE IF i = l + 1 THEN b ELSE Zero]
  BY <1>1, FilledFacts
<1> HIDE DEF n, l, P, v
<1>4. ASSUME NEW i \in 1 .. Word
      PROVE  (IF i <= l THEN v[i] ELSE IF i = l + 1 THEN b ELSE Zero)
               = IF i <= l + 1 THEN On(s, k, P + (n * Word + i)) ELSE Zero
  <2>1. CASE i <= l
    <3>1. i \in 1 .. l /\ i <= l + 1
      BY <1>1, <2>1
    <3> QED
      BY <1>2, <2>1, <3>1
  <2>2. CASE i = l + 1
    <3>1. ~(i <= l) /\ i <= l + 1
      BY <1>1, <2>2
    <3> QED
      BY <1>1, <2>2, <3>1
  <2>3. CASE i > l + 1
    <3>1. ~(i <= l) /\ i # l + 1 /\ ~(i <= l + 1)
      BY <1>1, <2>3
    <3> QED
      BY <3>1
  <2>4. i <= l \/ i = l + 1 \/ i > l + 1
    BY <1>1
  <2> QED
    BY <2>1, <2>2, <2>3, <2>4
<1> QED
  BY <1>3, <1>4 DEF n, l, P, v

LEMMA TakingMore ==
    ASSUME NEW s \in Seq(Frames), NEW k \in 1 .. Len(s), NEW m, MacOK(m), NEW q, IsSeq(q),
           NEW j \in Nat, Taking(s, m, q, k, j), NEW b, b = On(s, k, j + 1), j + 1 < Size(s, k)
    PROVE  Taking(s, InPayload(m, b), WordsAfter(m, q, b), k, j + 1)
<1> DEFINE n == m.nwords
           P == PayloadAt(s[k])
           v == m.word
           l == Len(v)
           e == Filled(Append(v, b))
           u == Append(v, b)
<1>1. /\ n \in Nat /\ l \in Nat /\ l < Word /\ Word \in Nat /\ P \in Nat /\ n * Word \in Nat
      /\ j + 1 = P + (n * Word + (l + 1)) /\ (n + 1) * Word = n * Word + Word /\ IsSeq(v)
      /\ Size(s, k) \in Nat
  BY TakingFacts
<1>2. m = [state |-> m.state, cnt |-> m.cnt, dst |-> m.dst, eth |-> m.eth,
           skip |-> m.skip, word |-> m.word, nwords |-> m.nwords]
  BY DEF MacOK, Shape
<1>3. /\ m.state = "payload" /\ s[k].dst = "us" /\ m.eth = <<"ip", "ip">>
      /\ \A i \in 1 .. l : v[i] = On(s, k, P + (n * Word + i))
      /\ Len(q) = n /\ \A x \in 1 .. n : q[x] = WordOf(s, k, x)
  BY DEF Taking
<1>4. ~b.last
  <2>1. j + 1 # Size(s, k)
    BY <1>1
  <2> QED
    BY <2>1 DEF On
<1>5. Writes(m, b) <=> l + 1 = Word
  BY <1>3, <1>4 DEF Writes
<1>6. e = [i \in 1 .. Word |-> IF i <= l + 1 THEN On(s, k, P + (n * Word + i)) ELSE Zero]
  BY WordIsFull
<1>7. CASE l + 1 = Word
  <2> DEFINE none == <<>>
             n1 == n + 1
             r  == [m EXCEPT !.word = none, !.nwords = n1, !.state = m.state]
             q2 == Append(q, e)
  <2>1. InPayload(m, b) = r /\ WordsAfter(m, q, b) = q2
    BY <1>4, <1>5, <1>7 DEF InPayload, WordsAfter
  <2> HIDE DEF none, n1, e, v, n, l, P
  <2>2. r.state = "payload" /\ r.eth = <<"ip", "ip">> /\ r.word = none /\ r.nwords = n1
    <3> DEFINE c1 == [m EXCEPT !.word = none]
               c2 == [c1 EXCEPT !.nwords = n1]
    <3>1. r = [c2 EXCEPT !.state = m.state]
      OBVIOUS
    <3> HIDE DEF r
    <3>2. c1 = [state |-> m.state, cnt |-> m.cnt, dst |-> m.dst, eth |-> m.eth,
                skip |-> m.skip, word |-> none, nwords |-> m.nwords]
      BY <1>2
    <3> HIDE DEF c1
    <3>3. c2 = [state |-> m.state, cnt |-> m.cnt, dst |-> m.dst, eth |-> m.eth,
                skip |-> m.skip, word |-> none, nwords |-> n1]
      BY <3>2
    <3> HIDE DEF c2
    <3> QED
      BY <1>3, <3>1, <3>3
  <2> HIDE DEF r
  <2>3. Len(none) = 0 /\ \A i \in 1 .. Len(none) : FALSE
    BY DEF none
  <2>4. j + 1 = P + (n1 * Word + Len(none))
    BY <1>1, <1>7, <2>3 DEF n1
  <2>5. e = WordOf(s, k, n1)
    <3>1. ASSUME NEW i \in 1 .. Word
          PROVE  (IF i <= l + 1 THEN On(s, k, P + (n * Word + i)) ELSE Zero)
                   = On(s, k, P + ((n1 - 1) * Word + i))
      <4>1. n1 - 1 = n /\ i <= l + 1
        BY <1>1, <1>7 DEF n1
      <4> QED
        BY <4>1
    <3> QED
      BY <1>6, <3>1 DEF WordOf, P
  <2>6. Len(q2) = n1 /\ \A x \in 1 .. n1 : q2[x] = WordOf(s, k, x)
    <3>1. PICK S : q \in Seq(S)
      BY DEF IsSeq
    <3>2. q \in Seq(S \cup {e})
      BY <3>1
    <3>3. Len(q2) = n + 1 /\ q2[n + 1] = e /\ \A x \in 1 .. n : q2[x] = q[x]
      BY <1>1, <1>3, <3>2
    <3> HIDE DEF q2
    <3>4. \A x \in 1 .. n1 : x \in 1 .. n \/ x = n + 1
      BY <1>1 DEF n1
    <3> QED
      BY <1>3, <2>5, <3>3, <3>4 DEF n1
  <2> HIDE DEF q2
  <2>7. Taking(s, r, q2, k, j + 1)
    BY <1>3, <2>2, <2>3, <2>4, <2>6 DEF Taking, P
  <2> QED
    BY <2>1, <2>7
<1>8. CASE l + 1 # Word
  <2> DEFINE r == [m EXCEPT !.word = u]
  <2>1. InPayload(m, b) = r /\ WordsAfter(m, q, b) = q
    BY <1>5, <1>8 DEF InPayload, WordsAfter
  <2>2. Len(u) = l + 1 /\ \A i \in 1 .. l + 1 : u[i] = On(s, k, P + (n * Word + i))
    <3>1. PICK S : v \in Seq(S)
      BY <1>1 DEF IsSeq
    <3>2. v \in Seq(S \cup {b}) /\ b \in S \cup {b}
      BY <3>1
    <3> HIDE DEF v
    <3>3. Len(u) = l + 1 /\ u[l + 1] = b /\ \A i \in 1 .. l : u[i] = v[i]
      BY <1>1, <3>2
    <3> HIDE DEF u, v, l, n, P
    <3>4. \A i \in 1 .. l + 1 : i \in 1 .. l \/ i = l + 1
      BY <1>1
    <3> QED
      BY <1>1, <1>3, <3>3, <3>4
  <2> HIDE DEF u
  <2>3. r.state = "payload" /\ r.eth = <<"ip", "ip">> /\ r.word = u /\ r.nwords = n
    BY <1>2, <1>3
  <2> HIDE DEF r, v, l, n
  <2>4. j + 1 = P + (n * Word + Len(u))
    BY <1>1, <2>2
  <2>5. Taking(s, r, q, k, j + 1)
    BY <1>3, <2>2, <2>3, <2>4 DEF Taking, P
  <2> QED
    BY <2>1, <2>5
<1> QED
  BY <1>7, <1>8

LEMMA TakingEnds ==
    ASSUME CleanWire, sent \in Seq(Frames), NEW k \in 1 .. Len(sent), NEW m, MacOK(m), NEW q, IsSeq(q),
           NEW j \in Nat, Taking(sent, m, q, k, j), NEW b, b = On(sent, k, j + 1), j + 1 = Size(sent, k)
    PROVE  LET r == InPayload(m, b)
           IN  /\ Ends(m, b) /\ r.state = "idle" /\ r.eth = <<"ip", "ip">>
               /\ SubSeq(WordsAfter(m, q, b), 1, Least(r.nwords, BufWords)) = Due(k)
<1> DEFINE n == m.nwords
           P == PayloadAt(sent[k])
           v == m.word
           l == Len(v)
           e == Filled(Append(v, b))
<1>1. /\ n \in Nat /\ l \in Nat /\ l < Word /\ Word \in Nat /\ P \in Nat /\ n * Word \in Nat
      /\ j + 1 = P + (n * Word + (l + 1)) /\ Len(sent[k].payload) = Size(sent, k) - P
  BY TakingFacts
<1>2. m = [state |-> m.state, cnt |-> m.cnt, dst |-> m.dst, eth |-> m.eth,
           skip |-> m.skip, word |-> m.word, nwords |-> m.nwords]
  BY DEF MacOK, Shape
<1>3. /\ m.state = "payload" /\ m.eth = <<"ip", "ip">>
      /\ Len(q) = n /\ \A x \in 1 .. n : q[x] = WordOf(sent, k, x)
  BY DEF Taking
<1>4. b.last
  BY DEF On
<1>5. Writes(m, b) /\ Ends(m, b)
  BY <1>3, <1>4 DEF Writes, Ends
<1>6. e = [i \in 1 .. Word |-> IF i <= l + 1 THEN On(sent, k, P + (n * Word + i)) ELSE Zero]
  BY WordIsFull
<1> DEFINE none == <<>>
           n1 == n + 1
           r  == [m EXCEPT !.word = none, !.nwords = n1, !.state = "idle"]
           q2 == Append(q, e)
<1>7. InPayload(m, b) = r /\ WordsAfter(m, q, b) = q2
  BY <1>4, <1>5 DEF InPayload, WordsAfter
<1> HIDE DEF none, n1, e
<1>8. r.state = "idle" /\ r.eth = <<"ip", "ip">> /\ r.nwords = n1
  <2> DEFINE c1 == [m EXCEPT !.word = none]
             c2 == [c1 EXCEPT !.nwords = n1]
  <2>1. r = [c2 EXCEPT !.state = "idle"]
    OBVIOUS
  <2> HIDE DEF r
  <2>2. c1 = [state |-> m.state, cnt |-> m.cnt, dst |-> m.dst, eth |-> m.eth,
              skip |-> m.skip, word |-> none, nwords |-> m.nwords]
    BY <1>2
  <2> HIDE DEF c1
  <2>3. c2 = [state |-> m.state, cnt |-> m.cnt, dst |-> m.dst, eth |-> m.eth,
              skip |-> m.skip, word |-> none, nwords |-> n1]
    BY <2>2
  <2> HIDE DEF c2
  <2> QED
    BY <1>3, <2>1, <2>3
<1> HIDE DEF r, v, l, n, P
<1>9. /\ IsSeq(q2) /\ Len(q2) = n1 /\ q2[n1] = e
      /\ \A x \in 1 .. n : q2[x] = WordOf(sent, k, x)
  <2>1. PICK S : q \in Seq(S)
    BY DEF IsSeq
  <2>2. q \in Seq(S \cup {e}) /\ e \in S \cup {e}
    BY <2>1
  <2>3. q2 \in Seq(S \cup {e}) /\ Len(q2) = n + 1 /\ q2[n + 1] = e /\ \A x \in 1 .. n : q2[x] = q[x]
    BY <1>1, <1>3, <2>2
  <2> HIDE DEF q2
  <2> QED
    BY <1>3, <2>3 DEF n1, IsSeq
<1> HIDE DEF q2
<1>10. Len(sent[k].payload) = n * Word + (l + 1) /\ l + 1 \in 1 .. Word
  BY <1>1
<1> DEFINE L == Least(n + 1, BufWords)
<1>11. L \in Nat /\ L <= n + 1
  BY <1>1, RxAssumption DEF Least
<1>12. Due(k) = [x \in 1 .. L |-> IF x <= n THEN WordOf(sent, k, x) ELSE e]
  <2> DEFINE c == l + 1
             z == [i \in 1 .. Word |-> IF i <= c THEN On(sent, k, PayloadAt(sent[k]) + (n * Word + i)) ELSE Zero]
  <2>1. e = z
    BY <1>6 DEF P
  <2>2. c \in 1 .. Word /\ Len(sent[k].payload) = n * Word + c
    BY <1>10
  <2> HIDE DEF c
  <2>3. Due(k) = [x \in 1 .. L |-> IF x <= n THEN WordOf(sent, k, x) ELSE z]
    <3>1. sent \in Seq(Frames) /\ k \in 1 .. Len(sent) /\ n \in Nat
      BY <1>1
    <3> QED
      BY ONLY <2>2, <3>1, DueFacts
  <2> HIDE DEF z
  <2> QED
    BY <2>1, <2>3
<1> HIDE DEF L
<1>13. SubSeq(q2, 1, L) = [x \in 1 .. L |-> q2[x]]
  BY <1>9, <1>11, BeginningOf DEF n1
<1>14. ASSUME NEW x \in 1 .. L PROVE q2[x] = IF x <= n THEN WordOf(sent, k, x) ELSE e
  <2>1. CASE x <= n
    <3>1. x \in 1 .. n
      BY <1>1, <1>11, <2>1
    <3> QED
      BY <1>9, <2>1, <3>1
  <2>2. CASE ~(x <= n)
    <3>1. x = n1
      BY <1>1, <1>11, <2>2 DEF n1
    <3> QED
      BY <1>9, <2>2, <3>1
  <2> QED
    BY <2>1, <2>2
<1>15. SubSeq(q2, 1, L) = Due(k)
  BY <1>12, <1>13, <1>14
<1> QED
  BY <1>5, <1>7, <1>8, <1>15 DEF L, n1

\* The next byte of the stream.
Reads(s, m, q, n, i, b) == /\ Place(s, MacRx(m, b), WordsAfter(m, q, b), n, i) /\ ~Ends(m, b)
                           /\ Over(s, n, i) => s[n].dst = "them"

LEMMA LookingStep ==
    ASSUME CleanWire, NEW s \in Seq(Frames), NEW k, NEW j, Position(s, k, j), NEW m, MacOK(m),
           Looking(s, m, k, j), NEW q, NEW n \in 1 .. Len(s), NEW i \in 1 .. Size(s, n),
           Follows(s, k, j, n, i), NEW b, b = On(s, n, i)
    PROVE  Reads(s, m, q, n, i, b)
<1>1. m.state = "idle" /\ (Over(s, k, j) \/ (s[k].dst = "them" /\ j >= PayloadAt(s[k])))
  BY DEF Looking
<1>2. ~Ends(m, b) /\ WordsAfter(m, q, b) = q /\ MacRx(m, b) = InIdle(m, b)
  BY <1>1 DEF Ends, Writes, WordsAfter, MacRx
<1>3. /\ s[n] \in Frames /\ n > 0 /\ Size(s, n) \in Nat /\ PayloadAt(s[n]) \in Nat
      /\ Size(s, n) = PayloadAt(s[n]) + Len(s[n].payload)
      /\ Size(s, n) > PayloadAt(s[n]) /\ PayloadAt(s[n]) > TypeAt /\ TypeAt \in Nat
  BY FrameSize
<1>4. b.data = OnWire[s[n]][i]
  BY DEF On
<1>5. CASE Over(s, k, j)
  <2>1. n = k + 1 /\ i = 1
    BY <1>5 DEF Follows
  <2>2. Preamble \in Nat /\ Preamble > 1 /\ 1 \in 1 .. Preamble - 1 /\ TypeAt >= Preamble
    BY RxAssumption DEF CleanWire, TypeAt
  <2>3. b.data = "55"
    BY <1>3, <1>4, <2>1, <2>2, WireBytes
  <2>4. InPre(InIdle(m, b), 1)
    BY <2>2, <2>3 DEF InIdle, InPre, Idle
  <2>5. ~Over(s, n, i)
    BY <1>3, <2>1, <2>2 DEF Over
  <2> QED
    BY <1>2, <1>3, <2>1, <2>4, <2>5 DEF Reads, Place
<1>6. CASE ~Over(s, k, j)
  <2>1. n = k /\ i = j + 1
    BY <1>6 DEF Follows
  <2>2. s[n].dst = "them" /\ j >= PayloadAt(s[n]) /\ j \in Nat
    BY <1>1, <1>6, <2>1 DEF Position
  <2> DEFINE P == PayloadAt(s[n])
             p == s[n].payload
             x == i - P
  <2>3. Len(p) \in Nat
    BY <1>3, FrameShape
  <2>4. x \in 1 .. Len(p) /\ P + x = i /\ i >= P
    BY <1>3, <2>1, <2>2, <2>3
  <2>5. OnWire[s[n]][P + x] = p[x]
    BY <1>3, <2>4, WireBytes
  <2>6. p[x] # "55"
    BY <1>3, <2>2, <2>4 DEF CleanWire
  <2>7. InIdle(m, b) = Idle
    BY <1>4, <2>4, <2>5, <2>6 DEF InIdle
  <2>8. Looking(s, Idle, n, i)
    BY <2>2, <2>4 DEF Looking, Idle
  <2> QED
    BY <1>2, <2>2, <2>7, <2>8 DEF Reads, Place
<1> QED
  BY <1>5, <1>6

LEMMA FrontStep ==
    ASSUME CleanWire, NEW s \in Seq(Frames), NEW k \in 1 .. Len(s), NEW j \in Nat, NEW m, MacOK(m),
           InPre(m, j) \/ InAddr(m, s[k], j) \/ InType(m, s[k], j),
           NEW q, Len(q) = 0, NEW b, b = On(s, k, j + 1)
    PROVE  Reads(s, m, q, k, j + 1, b) /\ j < Size(s, k)
<1> DEFINE f == s[k]
           T == TypeAt
           P == PayloadAt(f)
           w == OnWire[f]
<1>1. /\ f \in Frames /\ k > 0 /\ Size(s, k) \in Nat /\ P \in Nat
      /\ Size(s, k) = P + Len(f.payload) /\ Size(s, k) > P /\ P > T /\ T \in Nat
  BY FrameSize
<1>2. f.tags \in Nat /\ f.dst \in {"us", "them"} /\ Preamble \in Nat /\ Addr \in Nat /\ Addr > 0
      /\ P = T + 4 * f.tags + 2 /\ T = Preamble + 2 * Addr /\ Preamble > 1
  BY <1>1, FrameShape, RxAssumption DEF PayloadAt, TypeAt, CleanWire
<1>3. b.data = w[j + 1]
  BY DEF On
<1>4. m.state \in {"preamble", "header", "vlan"} /\ m.cnt \in Nat
  BY DEF InPre, InAddr, InType, AtType, MidType, InTag, MacOK
<1>5. /\ ~Ends(m, b) /\ WordsAfter(m, q, b) = q
      /\ m.state = "preamble" => MacRx(m, b) = InPreamble(m, b)
      /\ m.state = "header" => MacRx(m, b) = InHeader(m, b)
      /\ m.state = "vlan" => MacRx(m, b) = InVlan(m, b)
  BY <1>4 DEF Ends, Writes, WordsAfter, MacRx
<1> HIDE DEF f, T, P, w
<1>6. ASSUME j < P - 1,
             \/ InPre(MacRx(m, b), j + 1) \/ InAddr(MacRx(m, b), f, j + 1)
             \/ InType(MacRx(m, b), f, j + 1)
      PROVE  Reads(s, m, q, k, j + 1, b) /\ j < Size(s, k)
  <2>1. ~Over(s, k, j + 1) /\ j < Size(s, k)
    BY <1>1, <1>6 DEF Over
  <2> QED
    BY <1>1, <1>5, <1>6, <2>1 DEF Reads, Place, f
<1>7. CASE InPre(m, j)
  <2>1. m.state = "preamble" /\ j < Preamble
    BY <1>7 DEF InPre
  <2>2. j < P - 1
    BY <1>1, <1>2, <2>1
  <2>3. b.data = IF j + 1 = Preamble THEN "D5" ELSE "55"
    <3>1. CASE j + 1 = Preamble
      BY <1>1, <1>3, <3>1, WireBytes DEF w
    <3>2. CASE j + 1 # Preamble
      <4>1. j + 1 \in 1 .. Preamble - 1
        BY <1>2, <2>1, <3>2
      <4> QED
        BY <1>1, <1>3, <3>2, <4>1, WireBytes DEF w
    <3> QED
      BY <3>1, <3>2
  <2>4. InPre(InPreamble(m, b), j + 1) \/ InAddr(InPreamble(m, b), f, j + 1)
    BY <1>7, <2>3, PreStep
  <2> QED
    BY <1>5, <1>6, <2>1, <2>2, <2>4
<1>8. CASE InAddr(m, f, j)
  <2>1. m.state = "header" /\ m.cnt < 2 * Addr /\ j = Preamble + m.cnt
    BY <1>8 DEF InAddr
  <2>2. j < P - 1
    BY <1>1, <1>2, <1>4, <2>1
  <2>3. ASSUME m.cnt < Addr PROVE b.data = f.dst
    <3>1. m.cnt + 1 \in 1 .. Addr /\ j + 1 = Preamble + (m.cnt + 1)
      <4> DEFINE c == m.cnt
      <4>1. c \in Nat /\ Addr \in Nat /\ Preamble \in Nat /\ c < Addr /\ j = Preamble + c
        BY <1>2, <1>4, <2>1, <2>3
      <4> HIDE DEF c
      <4>2. c + 1 \in 1 .. Addr /\ j + 1 = Preamble + (c + 1)
        BY ONLY <4>1
      <4> QED
        BY <4>2 DEF c
    <3> QED
      BY <1>1, <1>3, <3>1, WireBytes DEF w
  <2>4. InAddr(InHeader(m, b), f, j + 1) \/ InType(InHeader(m, b), f, j + 1)
    BY <1>1, <1>8, <2>3, AddrStep
  <2> QED
    BY <1>5, <1>6, <2>1, <2>2, <2>4
<1>9. CASE InType(m, f, j)
  <2>1. m.dst = Repeat(f.dst, Addr)
    BY <1>9 DEF InType
  <2>2. PICK t \in 0 .. f.tags : AtType(m, f, j, t) \/ MidType(m, f, j, t) \/ InTag(m, f, j, t)
    BY <1>9 DEF InType
  <2>3. /\ t < f.tags => w[T + 4 * t + 1] = "tpid" /\ w[T + 4 * t + 2] = "tpid"
        /\ ~(t < f.tags) => w[T + 4 * t + 1] = "ip" /\ w[T + 4 * t + 2] = "ip"
    <3>1. t < f.tags => t \in 0 .. f.tags - 1
      BY <1>2
    <3>2. ~(t < f.tags) => t = f.tags
      BY <1>2
    <3>3. /\ \A x \in 0 .. f.tags - 1 : w[T + 4 * x + 1] = "tpid" /\ w[T + 4 * x + 2] = "tpid"
          /\ w[T + 4 * f.tags + 1] = "ip" /\ w[T + 4 * f.tags + 2] = "ip"
      BY <1>1, WireBytes DEF w, T
    <3> HIDE DEF w, T
    <3>4. CASE t < f.tags
      BY <3>1, <3>3, <3>4
    <3>5. CASE ~(t < f.tags)
      BY <3>2, <3>3, <3>5
    <3> QED
      BY <3>4, <3>5
  <2>4. CASE AtType(m, f, j, t)
    <3>1. m.state = "header" /\ j = T + 4 * t
      BY <2>4 DEF AtType, T
    <3>2. b.data = IF t < f.tags THEN "tpid" ELSE "ip"
      BY <1>3, <2>3, <3>1
    <3>3. InType(InHeader(m, b), f, j + 1)
      BY <1>1, <2>1, <2>4, <3>2, FirstOfType
    <3>4. j < P - 1
      BY <1>1, <1>2, <3>1
    <3> QED
      BY <1>5, <1>6, <3>1, <3>3, <3>4
  <2>5. CASE MidType(m, f, j, t)
    <3>1. m.state = "header" /\ j = T + 4 * t + 1 /\ j + 1 = T + 4 * t + 2
      BY <1>1, <2>5 DEF MidType, T
    <3>2. b.data = IF t < f.tags THEN "tpid" ELSE "ip"
      BY <1>3, <2>3, <3>1
    <3> DEFINE n == InHeader(m, b)
    <3>3. InType(n, f, j + 1) \/ Taken(n, f, j + 1) \/ Left(n, f, j + 1)
      BY <1>1, <2>1, <2>5, <3>2, SecondOfType
    <3>4. MacRx(m, b) = n /\ n.nwords = 0
      BY <1>5, <3>1, HeaderFacts
    <3> HIDE DEF n
    <3>5. CASE InType(n, f, j + 1) /\ j < P - 1
      BY <1>6, <3>4, <3>5
    <3>6. CASE Taken(n, f, j + 1)
      <4>1. /\ n.state = "payload" /\ f.dst = "us" /\ n.eth = <<"ip", "ip">>
            /\ n.word = <<>> /\ j + 1 = P
        BY <3>6 DEF Taken, P
      <4>2. j + 1 < Size(s, k) /\ j + 1 = P + (n.nwords * Word + Len(n.word)) /\ Len(n.word) = 0
        <5>1. Len(n.word) = 0 /\ 0 * Word = 0
          BY <4>1, RxAssumption
        <5> QED
          BY <1>1, <3>4, <4>1, <5>1
      <4>3. Taking(s, n, q, k, j + 1)
        BY <3>4, <4>1, <4>2 DEF Taking, f, P
      <4>4. ~Over(s, k, j + 1) /\ j < Size(s, k)
        BY <1>1, <4>2 DEF Over
      <4> QED
        BY <1>1, <1>5, <3>4, <4>3, <4>4 DEF Reads, Place
    <3>7. CASE Left(n, f, j + 1)
      <4>1. n.state = "idle" /\ f.dst = "them" /\ j + 1 = P
        BY <3>7 DEF Left, P
      <4>2. Looking(s, n, k, j + 1) /\ j < Size(s, k)
        BY <1>1, <4>1 DEF Looking, f, P
      <4> QED
        BY <1>5, <3>4, <4>1, <4>2 DEF Reads, Place, f
    <3>8. j < P - 1 \/ ~InType(n, f, j + 1)
      <4>1. j <= P - 1
        BY <1>1, <1>2, <3>1
      <4>2. CASE j = P - 1
        <5>1. j + 1 = P
          BY <1>1, <4>2
        <5>2. ASSUME InType(n, f, P) PROVE FALSE
          <6>1. PICK x \in 0 .. f.tags : AtType(n, f, P, x) \/ MidType(n, f, P, x) \/ InTag(n, f, P, x)
            BY <5>2 DEF InType
          <6> DEFINE g == f.tags
                     z == n.skip
          <6>2. \/ P = T + 4 * x \/ P = T + 4 * x + 1
                \/ x < g /\ z \in {1, 2} /\ P + z = T + 4 * x + 4
            BY <6>1 DEF AtType, MidType, InTag, T
          <6>3. g \in Nat /\ x \in 0 .. g /\ T \in Nat /\ P = T + 4 * g + 2
            BY <1>1, <1>2
          <6> HIDE DEF g, z
          <6> QED
            BY ONLY <6>2, <6>3
        <5> QED
          BY <5>1, <5>2
      <4> QED
        BY <1>1, <4>1, <4>2
    <3> QED
      BY <3>3, <3>5, <3>6, <3>7, <3>8
  <2>6. CASE InTag(m, f, j, t)
    <3>1. m.state = "vlan" /\ t < f.tags /\ m.skip \in {1, 2} /\ j + m.skip = T + 4 * t + 4
      BY <2>6 DEF InTag, T
    <3>2. InType(InVlan(m, b), f, j + 1)
      BY <1>1, <2>1, <2>6, TagStep
    <3>3. j < P - 1
      <4> DEFINE g == f.tags
                 z == m.skip
      <4>1. /\ g \in Nat /\ t \in 0 .. g /\ T \in Nat /\ P = T + 4 * g + 2 /\ j \in Nat
            /\ t < g /\ z \in {1, 2} /\ j + z = T + 4 * t + 4
        BY <1>1, <1>2, <3>1
      <4> HIDE DEF g, z
      <4> QED
        BY ONLY <4>1
    <3> QED
      BY <1>5, <1>6, <3>1, <3>2, <3>3
  <2> QED
    BY <2>2, <2>4, <2>5, <2>6
<1> QED
  BY <1>7, <1>8, <1>9 DEF f

\* Where the MAC stands, the next byte is read, or it ends a frame for the board.
LEMMA PlaceStep ==
    ASSUME CleanWire, NEW s \in Seq(Frames), NEW k \in Nat, NEW j \in Nat, Position(s, k, j),
           NEW m, MacOK(m), NEW q, IsSeq(q), m.state # "payload" => Len(q) = 0, Place(s, m, q, k, j),
           NEW n \in 1 .. Len(s), NEW i \in 1 .. Size(s, n), Follows(s, k, j, n, i), NEW b, b = On(s, n, i)
    PROVE  \/ Reads(s, m, q, n, i, b)
           \/ Taking(s, m, q, k, j) /\ n = k /\ i = j + 1 /\ i = Size(s, k)
<1>1. CASE Looking(s, m, k, j)
  BY <1>1, LookingStep
<1>2. CASE k > 0 /\ Taking(s, m, q, k, j)
  <2>1. k \in 1 .. Len(s)
    BY <1>2 DEF Position
  <2>2. j < Size(s, k) /\ Size(s, k) \in Nat
    BY <1>2, <2>1, FrameSize DEF Taking
  <2>3. n = k /\ i = j + 1
    BY <1>2, <2>2 DEF Follows, Over
  <2>4. CASE j + 1 < Size(s, k)
    <3>1. Taking(s, InPayload(m, b), WordsAfter(m, q, b), k, j + 1)
      BY <1>2, <2>1, <2>3, <2>4, TakingMore
    <3>2. m.state = "payload"
      BY <1>2 DEF Taking
    <3>3. MacRx(m, b) = InPayload(m, b) /\ ~Over(s, k, j + 1)
      BY <1>2, <2>2, <2>4, <3>2 DEF MacRx, Over
    <3>4. ~Ends(m, b)
      <4>1. i # Size(s, n)
        BY <2>2, <2>3, <2>4
      <4> QED
        BY <4>1 DEF Ends, On
    <3> QED
      BY <1>2, <2>3, <3>1, <3>3, <3>4 DEF Reads, Place
  <2>5. CASE ~(j + 1 < Size(s, k))
    BY <1>2, <2>2, <2>3, <2>5
  <2> QED
    BY <2>4, <2>5
<1>3. CASE k > 0 /\ (InPre(m, j) \/ InAddr(m, s[k], j) \/ InType(m, s[k], j))
  <2>1. k \in 1 .. Len(s)
    BY <1>3 DEF Position
  <2>2. m.state # "payload"
    BY <1>3 DEF InPre, InAddr, InType, AtType, MidType, InTag
  <2> DEFINE c == On(s, k, j + 1)
  <2>3. Reads(s, m, q, k, j + 1, c) /\ j < Size(s, k)
    BY <1>3, <2>1, <2>2, FrontStep
  <2>4. Size(s, k) \in Nat
    BY <2>1, FrameSize
  <2>5. n = k /\ i = j + 1
    BY <1>3, <2>3, <2>4 DEF Follows, Over
  <2> QED
    BY <2>3, <2>5
<1> QED
  BY <1>1, <1>2, <1>3 DEF Place

-------------------------------------------------------------------------------
\* The frames for the board.
LEMMA MineFacts ==
    ASSUME NEW s, NEW n \in Nat, n > 0
    PROVE  /\ s[n].dst # "us" => Mine(s, n) = Mine(s, n - 1)
           /\ s[n].dst = "us" => /\ Mine(s, n) = Mine(s, n - 1) \cup {n}
                                 /\ Cardinality(Mine(s, n)) = Cardinality(Mine(s, n - 1)) + 1
<1>1. \A i : i \in 1 .. n <=> i \in 1 .. n - 1 \/ i = n
  OBVIOUS
<1>2. s[n].dst # "us" => Mine(s, n) = Mine(s, n - 1)
  BY <1>1 DEF Mine
<1>3. s[n].dst = "us" => Mine(s, n) = Mine(s, n - 1) \cup {n}
  BY <1>1 DEF Mine
<1>4. IsFiniteSet(Mine(s, n - 1))
  <2>1. IsFiniteSet(1 .. n - 1)
    BY FS_Interval
  <2>2. Mine(s, n - 1) \subseteq 1 .. n - 1
    BY DEF Mine
  <2> QED
    BY <2>1, <2>2, FS_Subset
<1>5. n \notin Mine(s, n - 1)
  BY DEF Mine
<1>6. Cardinality(Mine(s, n - 1) \cup {n}) = Cardinality(Mine(s, n - 1)) + 1
  BY <1>4, <1>5, FS_AddElement
<1> QED
  BY <1>2, <1>3, <1>6

\* The stream in the ring: its first byte is read, the next of the wire enters.
LEMMA StoredTail ==
    ASSUME NEW s, NEW a, NEW r, IsSeq(r), r # <<>>, NEW k, NEW j, Stored(s, a, r, k, j)
    PROVE  Stored(s, a, Tail(r), r[1].frame, r[1].nth)
<1> DEFINE t == Tail(r)
<1>1. PICK S : r \in Seq(S)
  BY DEF IsSeq
<1>2. /\ Len(r) \in Nat /\ Len(r) > 0 /\ t \in Seq(S) /\ Len(t) = Len(r) - 1
      /\ \A i \in 1 .. Len(t) : t[i] = r[i + 1]
  BY <1>1
<1> HIDE DEF t
<1>3. ASSUME NEW i \in 1 .. Len(t) PROVE IsByte(s, t[i])
  <2>1. i + 1 \in 1 .. Len(r)
    BY <1>2
  <2> QED
    BY <1>2, <2>1 DEF Stored
<1>4. CASE t = <<>>
  <2>1. Len(t) = 0 /\ Len(r) = 1
    BY <1>2, <1>4
  <2>2. LastIs(s, a, r[1].frame, r[1].nth)
    BY <2>1 DEF Stored
  <2>3. \A i \in 1 .. Len(t) - 1 : FALSE
    BY <2>1
  <2>4. Stored(s, a, t, r[1].frame, r[1].nth)
    BY <1>3, <1>4, <2>2, <2>3 DEF Stored
  <2> QED
    BY <2>4 DEF t
<1>5. CASE t # <<>>
  <2>1. Len(t) > 0 /\ 1 \in 1 .. Len(t) /\ Len(t) \in 1 .. Len(t) /\ 1 \in 1 .. Len(r) - 1
    BY <1>2, <1>5
  <2>2. t[1] = r[1 + 1] /\ t[Len(t)] = r[Len(r)]
    <3>1. Len(t) + 1 = Len(r)
      BY <1>2
    <3> QED
      BY <1>2, <2>1, <3>1
  <2>3. Follows(s, r[1].frame, r[1].nth, t[1].frame, t[1].nth)
    BY <2>1, <2>2 DEF Stored
  <2>4. LastIs(s, a, t[Len(t)].frame, t[Len(t)].nth)
    BY <2>2 DEF Stored
  <2>5. ASSUME NEW i \in 1 .. Len(t) - 1
        PROVE  Follows(s, t[i].frame, t[i].nth, t[i + 1].frame, t[i + 1].nth)
    <3>1. i + 1 \in 1 .. Len(r) - 1 /\ i \in 1 .. Len(t) /\ i + 1 \in 1 .. Len(t)
      BY <1>2
    <3>2. t[i] = r[i + 1] /\ t[i + 1] = r[(i + 1) + 1]
      BY <1>2, <3>1
    <3> QED
      BY <3>1, <3>2 DEF Stored
  <2> QED
    BY <1>3, <1>5, <2>3, <2>4, <2>5 DEF Stored, t
<1> QED
  BY <1>4, <1>5

LEMMA LastFollows ==
    ASSUME NEW s, NEW a \in Nat, Len(s) \in Nat, Len(s) > 0, NEW k, NEW j, LastIs(s, a, k, j),
           Size(s, Len(s)) \in Nat, a < Size(s, Len(s))
    PROVE  Follows(s, k, j, Len(s), a + 1)
<1>1. CASE k = Len(s) /\ j = a
  BY <1>1 DEF Follows, Over
<1>2. CASE Over(s, k, j) /\ k + 1 = Len(s) /\ a = 0
  BY <1>2 DEF Follows
<1> QED
  BY <1>1, <1>2 DEF LastIs

LEMMA StoredAppend ==
    ASSUME NEW s \in Seq(Frames), Len(s) > 0, NEW a \in Nat, a < Size(s, Len(s)), NEW r, IsSeq(r),
           NEW k, NEW j, Stored(s, a, r, k, j), NEW b, b = On(s, Len(s), a + 1)
    PROVE  Stored(s, a + 1, Append(r, b), k, j)
<1> DEFINE n == Len(s)
           u == Append(r, b)
           l == Len(r)
<1>1. n \in 1 .. Len(s) /\ Size(s, n) \in Nat
  <2>1. n \in 1 .. Len(s)
    OBVIOUS
  <2> QED
    BY <2>1, FrameSize
<1>2. PICK S : r \in Seq(S)
  BY DEF IsSeq
<1>3. r \in Seq(S \cup {b}) /\ b \in S \cup {b}
  BY <1>2
<1>4. /\ l \in Nat /\ Len(u) = l + 1 /\ u[l + 1] = b /\ u # <<>>
      /\ \A i \in 1 .. l : u[i] = r[i]
  BY <1>3
<1> HIDE DEF n, u, l
<1>5. IsByte(s, b) /\ b.frame = n /\ b.nth = a + 1
  <2>1. a + 1 \in 1 .. Size(s, n)
    BY <1>1 DEF n
  <2> QED
    BY <1>1, <2>1 DEF IsByte, On, n
<1>6. ASSUME NEW i \in 1 .. l + 1 PROVE IsByte(s, u[i])
  <2>1. i \in 1 .. l \/ i = l + 1
    BY <1>4
  <2> QED
    BY <1>4, <1>5, <2>1 DEF Stored, l
<1>7. LastIs(s, a + 1, b.frame, b.nth)
  BY <1>5 DEF LastIs, n
<1>8. ASSUME NEW x, NEW y, LastIs(s, a, x, y) PROVE Follows(s, x, y, b.frame, b.nth)
  BY <1>1, <1>5, <1>8, LastFollows DEF n
<1>9. Follows(s, k, j, u[1].frame, u[1].nth)
  <2>1. CASE r = <<>>
    <3>1. l = 0 /\ u[1] = b
      BY <1>4, <2>1 DEF l
    <3>2. LastIs(s, a, k, j)
      BY <2>1 DEF Stored
    <3> QED
      BY <1>8, <3>1, <3>2
  <2>2. CASE r # <<>>
    <3>1. 1 \in 1 .. l
      BY <1>2, <2>2 DEF l
    <3>2. u[1] = r[1]
      BY <1>4, <3>1
    <3> QED
      BY <2>2, <3>2 DEF Stored
  <2> QED
    BY <2>1, <2>2
<1>10. ASSUME NEW i \in 1 .. l PROVE Follows(s, u[i].frame, u[i].nth, u[i + 1].frame, u[i + 1].nth)
  <2>1. CASE i = l
    <3>1. r # <<>>
      BY <1>2, <1>4, <2>1 DEF l
    <3>2. LastIs(s, a, r[l].frame, r[l].nth)
      BY <3>1 DEF Stored, l
    <3>3. u[i] = r[l] /\ u[i + 1] = b
      BY <1>4, <2>1
    <3> QED
      BY <1>8, <3>2, <3>3
  <2>2. CASE i # l
    <3>1. i \in 1 .. l - 1 /\ i + 1 \in 1 .. l
      BY <1>4, <2>2
    <3>2. u[i] = r[i] /\ u[i + 1] = r[i + 1]
      BY <1>4, <3>1
    <3> QED
      BY <3>1, <3>2 DEF Stored, l
  <2> QED
    BY <2>1, <2>2
<1>11. (l + 1) - 1 = l /\ u[Len(u)] = b
  BY <1>4
<1> QED
  BY <1>4, <1>6, <1>7, <1>9, <1>10, <1>11 DEF Stored, u

\* A frame begins: what was sent before stays what it was.
LEMMA BeginKeeps ==
    ASSUME NEW s \in Seq(Frames), NEW f \in Frames, NEW a \in Nat,
           IF s = <<>> THEN a = 0 ELSE a = Size(s, Len(s)),
           NEW r, IsSeq(r), NEW m, NEW q, NEW h, NEW d, InStep(s, a, r, m, q, h, d)
    PROVE  InStep(Append(s, f), 0, r, m, q, h, d)
<1> DEFINE t == Append(s, f)
           N == Len(s)
<1>1. N \in Nat /\ Len(t) = N + 1 /\ \A n \in 1 .. N : t[n] = s[n]
  OBVIOUS
<1>2. PICK k \in Nat, j \in Nat : /\ Position(s, k, j) /\ Stored(s, a, r, k, j)
                                  /\ Place(s, m, q, k, j) /\ HandedAll(s, h, d, k, j)
  BY DEF InStep
<1>3. k \in 0 .. N
  BY <1>2 DEF Position
<1>4. N > 0 => a > 0
  <2> SUFFICES ASSUME N > 0 PROVE a > 0
    OBVIOUS
  <2>1. N \in 1 .. Len(s) /\ s # <<>>
    BY <1>1
  <2> QED
    BY <2>1, FrameSize
<1>5. s = <<>> <=> N = 0
  OBVIOUS
<1> HIDE DEF t, N
<1>6. \A n \in 1 .. N : Size(t, n) = Size(s, n) /\ (\A i : On(t, n, i) = On(s, n, i))
  BY <1>1 DEF Size, On
<1>7. \A n \in 0 .. N : \A i : Over(t, n, i) <=> Over(s, n, i)
  <2>1. \A n \in 0 .. N : n = 0 \/ n \in 1 .. N
    BY <1>1
  <2> QED
    BY <1>6, <2>1 DEF Over
<1>8. \A n \in 0 .. N : \A i, x, y : Follows(s, n, i, x, y) => Follows(t, n, i, x, y)
  BY <1>7 DEF Follows
<1>9. ASSUME NEW n \in 0 .. N, NEW i, LastIs(s, a, n, i) PROVE LastIs(t, 0, n, i)
  <2>1. CASE n = N /\ i = a
    <3>1. Over(s, n, i)
      BY <1>5, <2>1 DEF Over, N
    <3> QED
      BY <1>1, <1>7, <2>1, <3>1 DEF LastIs
  <2>2. CASE n + 1 = N /\ a = 0
    BY <1>1, <1>4, <2>2
  <2> QED
    BY <1>9, <2>1, <2>2 DEF LastIs, N
<1>10. ASSUME NEW b, IsByte(s, b) PROVE IsByte(t, b) /\ b.frame \in 0 .. N
  <2>1. PICK n \in 1 .. N : \E i \in 1 .. Size(s, n) : b = On(s, n, i)
    BY <1>10 DEF IsByte, N
  <2>2. n \in 1 .. Len(t) /\ b.frame = n /\ \E i \in 1 .. Size(t, n) : b = On(t, n, i)
    BY <1>1, <1>6, <2>1 DEF On
  <2> QED
    BY <1>1, <2>1, <2>2 DEF IsByte
<1>11. Stored(t, 0, r, k, j)
  <2>1. \A i \in 1 .. Len(r) : IsByte(t, r[i]) /\ r[i].frame \in 0 .. N
    BY <1>2, <1>10 DEF Stored
  <2>2. r = <<>> => LastIs(t, 0, k, j)
    BY <1>2, <1>3, <1>9 DEF Stored
  <2>3. Len(r) \in Nat /\ (r # <<>> => Len(r) \in 1 .. Len(r))
    <3>1. PICK S : r \in Seq(S)
      BY DEF IsSeq
    <3> QED
      BY <3>1
  <2>4. r # <<>> => Follows(t, k, j, r[1].frame, r[1].nth)
    BY <1>2, <1>3, <1>8 DEF Stored
  <2>5. r # <<>> => LastIs(t, 0, r[Len(r)].frame, r[Len(r)].nth)
    BY <1>2, <1>9, <2>1, <2>3 DEF Stored
  <2>6. ASSUME NEW i \in 1 .. Len(r) - 1
        PROVE  Follows(t, r[i].frame, r[i].nth, r[i + 1].frame, r[i + 1].nth)
    <3>1. i \in 1 .. Len(r)
      BY <2>3
    <3>2. Follows(s, r[i].frame, r[i].nth, r[i + 1].frame, r[i + 1].nth)
      BY <1>2 DEF Stored
    <3> QED
      BY <1>8, <2>1, <3>1, <3>2
  <2> QED
    BY <2>1, <2>2, <2>4, <2>5, <2>6 DEF Stored
<1>12. Position(t, k, j)
  <2>1. k > 0 => k \in 1 .. N
    BY <1>1, <1>3
  <2> QED
    BY <1>1, <1>2, <1>3, <1>6, <2>1 DEF Position
<1>13. Place(t, m, q, k, j)
  <2>1. Over(t, k, j) <=> Over(s, k, j)
    BY <1>3, <1>7
  <2>2. CASE k = 0
    BY <1>2, <2>1, <2>2 DEF Place, Looking, Over
  <2>3. CASE k > 0
    <3>1. k \in 1 .. N
      BY <1>1, <1>3, <2>3
    <3>2. t[k] = s[k] /\ Size(t, k) = Size(s, k) /\ \A i : On(t, k, i) = On(s, k, i)
      BY <1>1, <1>6, <3>1
    <3>3. Looking(s, m, k, j) => Looking(t, m, k, j)
      BY <2>1, <3>2 DEF Looking
    <3>4. \A x : WordOf(t, k, x) = WordOf(s, k, x)
      BY <3>2 DEF WordOf
    <3>5. Taking(s, m, q, k, j) => Taking(t, m, q, k, j)
      BY <3>2, <3>4 DEF Taking
    <3> QED
      BY <1>2, <3>2, <3>3, <3>5 DEF Place
  <2> QED
    BY <1>2, <2>2, <2>3
<1>14. HandedAll(t, h, d, k, j)
  <2> DEFINE n == IF Over(s, k, j) THEN k ELSE k - 1
  <2>1. \A i \in 1 .. n : i \in 1 .. N
    BY <1>1, <1>3
  <2>2. h = Cardinality(d) /\ d = Mine(s, n)
    BY <1>2 DEF HandedAll
  <2> HIDE DEF n
  <2>3. Mine(t, n) = Mine(s, n)
    BY <1>1, <2>1 DEF Mine
  <2>4. n = IF Over(t, k, j) THEN k ELSE k - 1
    BY <1>3, <1>7 DEF n
  <2> QED
    BY <2>2, <2>3, <2>4 DEF HandedAll
<1> QED
  BY <1>11, <1>12, <1>13, <1>14 DEF InStep, t

-------------------------------------------------------------------------------
\* A pass that reads a byte.
LEMMA PassDelivers ==
    ASSUME CleanWire, IInv, DInv, Undisturbed, Pass
    PROVE  InStep(sent, at, ring', mac', fifo', handed', delivered')
<1> DEFINE s == sent
           b == ring[1]
           words == WordsAfter(mac, fifo, b)
           L == Least(mac'.nwords, BufWords)
<1>1. s \in Seq(Frames) /\ at \in Nat
  BY DEF DInv, WireOK
<1>2. /\ ring # <<>> /\ ring' = Tail(ring) /\ mac' = MacRx(mac, b)
      /\ Stage(mac', Ends(mac, b), words)
  BY DEF Pass, WordsAfter
<1>3. MacOK(mac) /\ IsSeq(fifo) /\ IsSeq(ring) /\ (mac.state # "payload" => Len(fifo) = 0)
  BY DEF IInv, FifoAligned
<1>4. PICK k \in Nat, j \in Nat : /\ Position(s, k, j) /\ Stored(s, at, ring, k, j)
                                  /\ Place(s, mac, fifo, k, j) /\ HandedAll(s, handed, delivered, k, j)
  BY DEF DInv, InStep
<1> HIDE DEF s, b
<1>5. PICK n \in 1 .. Len(s) : \E i \in 1 .. Size(s, n) : b = On(s, n, i)
  <2>1. 1 \in 1 .. Len(ring)
    <3>1. PICK S : ring \in Seq(S)
      BY <1>3 DEF IsSeq
    <3> QED
      BY <1>2, <3>1
  <2> QED
    BY <1>4, <2>1 DEF Stored, IsByte, b
<1>6. PICK i \in 1 .. Size(s, n) : b = On(s, n, i)
  BY <1>5
<1>7. b.frame = n /\ b.nth = i
  BY <1>6 DEF On
<1>8. Follows(s, k, j, n, i)
  BY <1>2, <1>4, <1>7 DEF Stored, b
<1>9. Stored(s, at, ring', n, i)
  BY <1>2, <1>3, <1>4, <1>7, StoredTail DEF b
<1>10. n \in Nat /\ n > 0 /\ Size(s, n) \in Nat /\ i \in Nat
  BY <1>1, FrameSize
<1>11. Position(s, n, i)
  BY <1>10 DEF Position
<1>12. CASE Reads(s, mac, fifo, n, i, b)
  <2>1. Place(s, mac', words, n, i) /\ ~Ends(mac, b) /\ (Over(s, n, i) => s[n].dst = "them")
    BY <1>2, <1>12 DEF Reads
  <2>2. fifo' = words /\ handed' = handed /\ delivered' = delivered
    BY <1>2, <2>1 DEF Stage
  <2>3. HandedAll(s, handed, delivered, n, i)
    <3> DEFINE x == IF Over(s, k, j) THEN k ELSE k - 1
               y == IF Over(s, n, i) THEN n ELSE n - 1
    <3>1. handed = Cardinality(delivered) /\ delivered = Mine(s, x)
      BY <1>4 DEF HandedAll
    <3>2. x = n - 1
      BY <1>8, <1>10 DEF Follows
    <3>3. Mine(s, y) = Mine(s, n - 1)
      <4>1. CASE Over(s, n, i)
        BY <1>10, <2>1, <4>1, MineFacts
      <4>2. CASE ~Over(s, n, i)
        BY <4>2
      <4> QED
        BY <4>1, <4>2
    <3> HIDE DEF x
    <3>4. handed = Cardinality(delivered) /\ delivered = Mine(s, y)
      BY <3>1, <3>2, <3>3
    <3> QED
      BY <3>4 DEF HandedAll
  <2> QED
    BY <1>9, <1>10, <1>11, <2>1, <2>2, <2>3 DEF InStep, s
<1>13. CASE Taking(s, mac, fifo, k, j) /\ n = k /\ i = j + 1 /\ i = Size(s, k)
  <2>1. mac.state = "payload" /\ s[k].dst = "us"
    BY <1>13 DEF Taking
  <2>2. mac' = InPayload(mac, b)
    BY <1>2, <2>1 DEF MacRx
  <2>3. /\ Ends(mac, b) /\ mac'.state = "idle" /\ mac'.eth = <<"ip", "ip">>
        /\ SubSeq(words, 1, L) = Due(k)
    BY <1>1, <1>3, <1>6, <1>13, <2>2, TakingEnds DEF s
  <2> HIDE DEF words, L
  <2>4. /\ handed' = handed + 1
        /\ delivered' = delivered \cup {x \in 1 .. Len(s) : /\ s[x].dst = "us" /\ mac'.eth = <<"ip", "ip">>
                                                            /\ SubSeq(words, 1, L) = Due(x)}
    BY <1>2, <2>3 DEF Stage, ForUs, L, Least, s
  <2>5. \A x \in 1 .. Len(s) : Due(k) = Due(x) <=> x = k
    BY <1>1, <1>13, DueDiffers DEF s
  <2>6. delivered' = delivered \cup {k}
    BY <1>13, <2>1, <2>3, <2>4, <2>5
  <2>7. ~Over(s, k, j) /\ Over(s, n, i)
    BY <1>10, <1>13 DEF Over, Taking
  <2>8. handed = Cardinality(delivered) /\ delivered = Mine(s, k - 1)
    BY <1>4, <2>7 DEF HandedAll
  <2>9. HandedAll(s, handed', delivered', n, i)
    <3>1. /\ Mine(s, n) = Mine(s, n - 1) \cup {n}
          /\ Cardinality(Mine(s, n)) = Cardinality(Mine(s, n - 1)) + 1
      BY <1>10, <1>13, <2>1, MineFacts
    <3>2. delivered' = Mine(s, n)
      BY <1>13, <2>6, <2>8, <3>1
    <3>3. handed' = Cardinality(delivered')
      BY <1>13, <2>4, <2>8, <3>1, <3>2
    <3> QED
      BY <2>7, <3>2, <3>3 DEF HandedAll
  <2>10. Place(s, mac', fifo', n, i)
    BY <2>3, <2>7 DEF Place, Looking
  <2> QED
    BY <1>9, <1>10, <1>11, <2>9, <2>10 DEF InStep, s
<1> QED
  BY <1>1, <1>3, <1>4, <1>6, <1>8, <1>12, <1>13, PlaceStep

LEMMA ReceiveDelivers ==
    ASSUME IInv, DInv, Receive
    PROVE  DInv'
<1> DEFINE n == Len(sent)
           b == Byte(n, at + 1)
<1>1. sent' = sent /\ at' = at + 1 /\ Push(b) /\ mac' = mac /\ fifo' = fifo
      /\ resets' = resets /\ handed' = handed /\ delivered' = delivered
  BY DEF Receive
<1>2. sent \in Seq(Frames) /\ at \in Nat /\ drops \in Nat /\ resets \in Nat
  BY DEF DInv, WireOK
<1>3. sent # <<>> /\ at # Size(sent, n) /\ at <= Size(sent, n)
  BY DEF Receive, Quiet, DInv, WireOK, Size
<1>4. n \in 1 .. Len(sent) /\ n > 0 /\ n \in Nat
  BY <1>2, <1>3
<1>5. Size(sent, n) \in Nat
  BY <1>2, <1>4, FrameSize
<1>6. at + 1 \in Nat /\ at < Size(sent, n) /\ at + 1 <= Size(sent, n)
  BY <1>2, <1>3, <1>5
<1>7. b = On(sent, n, at + 1)
  BY DEF Byte, On, Size
<1>8. drops' = drops + 1 \/ (drops' = drops /\ ring' = Append(ring, b))
  BY <1>1 DEF Push
<1>9. WireOK(sent', at') /\ drops' \in Nat /\ resets' \in Nat
  BY <1>1, <1>2, <1>3, <1>6, <1>8 DEF WireOK
<1> HIDE DEF n, b
<1>10. ASSUME Undisturbed' PROVE InStep(sent', at', ring', mac', fifo', handed', delivered')
  <2>1. drops' = 0 /\ resets' = 0
    BY <1>10 DEF Undisturbed
  <2>2. Undisturbed /\ ring' = Append(ring, b)
    BY <1>1, <1>2, <1>8, <2>1 DEF Undisturbed
  <2>3. PICK k \in Nat, j \in Nat : /\ Position(sent, k, j) /\ Stored(sent, at, ring, k, j)
                                    /\ Place(sent, mac, fifo, k, j)
                                    /\ HandedAll(sent, handed, delivered, k, j)
    BY <2>2 DEF DInv, InStep
  <2>4. Stored(sent, at + 1, Append(ring, b), k, j)
    BY <1>2, <1>4, <1>6, <1>7, <2>3, StoredAppend DEF IInv, n
  <2> QED
    BY <1>1, <2>2, <2>3, <2>4 DEF InStep
<1> QED
  BY <1>9, <1>10 DEF DInv

LEMMA BeginDelivers ==
    ASSUME IInv, DInv, NEW f \in Frames, Begin(f)
    PROVE  DInv'
<1>1. /\ Quiet /\ sent' = Append(sent, f) /\ at' = 0
      /\ ring' = ring /\ mac' = mac /\ fifo' = fifo
      /\ drops' = drops /\ resets' = resets /\ handed' = handed /\ delivered' = delivered
  BY DEF Begin
<1>2. sent \in Seq(Frames) /\ at \in Nat /\ drops \in Nat /\ resets \in Nat
  BY DEF DInv, WireOK
<1>3. IF sent = <<>> THEN at = 0 ELSE at = Size(sent, Len(sent))
  BY <1>1 DEF Quiet, DInv, WireOK, Size
<1>4. WireOK(sent', at')
  <2> DEFINE t == Append(sent, f)
  <2>1. t \in Seq(Frames) /\ t # <<>> /\ Len(t) \in 1 .. Len(t)
    BY <1>2
  <2> HIDE DEF t
  <2>2. Size(t, Len(t)) \in Nat
    BY <2>1, FrameSize
  <2>3. WireOK(t, 0)
    BY <2>1, <2>2 DEF WireOK
  <2> QED
    BY <1>1, <2>3 DEF t
<1>5. ASSUME Undisturbed' PROVE InStep(sent', at', ring', mac', fifo', handed', delivered')
  <2>1. Undisturbed
    BY <1>1, <1>5 DEF Undisturbed
  <2>2. InStep(sent, at, ring, mac, fifo, handed, delivered)
    BY <2>1 DEF DInv
  <2>3. InStep(Append(sent, f), 0, ring, mac, fifo, handed, delivered)
    BY <1>2, <1>3, <2>2, BeginKeeps DEF IInv
  <2> QED
    BY <1>1, <2>3
<1> QED
  BY <1>1, <1>2, <1>4, <1>5 DEF DInv

LEMMA InitDelivers == Init => DInv
<1> SUFFICES ASSUME Init PROVE DInv
  OBVIOUS
<1>1. /\ sent = <<>> /\ at = 0 /\ ring = <<>> /\ mac = Idle /\ drops = 0 /\ resets = 0
      /\ handed = 0 /\ delivered = {}
  BY DEF Init
<1>2. WireOK(sent, at)
  BY <1>1 DEF WireOK
<1>3. Position(sent, 0, 0) /\ Over(sent, 0, 0)
  BY <1>1 DEF Position, Over
<1>4. Stored(sent, at, ring, 0, 0)
  BY <1>1, <1>3 DEF Stored, LastIs
<1>5. Place(sent, mac, fifo, 0, 0)
  BY <1>1, <1>3 DEF Place, Looking, Idle
<1>6. HandedAll(sent, handed, delivered, 0, 0)
  <2>1. Mine(sent, 0) = {} /\ Cardinality({}) = 0
    BY FS_EmptySet DEF Mine
  <2> QED
    BY <1>1, <1>3, <2>1 DEF HandedAll
<1>7. InStep(sent, at, ring, mac, fifo, handed, delivered)
  BY <1>3, <1>4, <1>5, <1>6 DEF InStep
<1> QED
  BY <1>1, <1>2, <1>7 DEF DInv

LEMMA StepDelivers ==
    ASSUME CleanWire, IInv, DInv, [Next]_vars
    PROVE  DInv'
<1>1. CASE \E f \in Frames : Begin(f)
  BY <1>1, BeginDelivers
<1>2. CASE Receive
  BY <1>2, ReceiveDelivers
<1>3. CASE Pass
  <2>1. sent' = sent /\ at' = at /\ drops' = drops /\ resets' = resets
    BY <1>3 DEF Pass
  <2>2. Undisturbed => InStep(sent, at, ring', mac', fifo', handed', delivered')
    BY <1>3, PassDelivers
  <2> QED
    BY <2>1, <2>2 DEF DInv, Undisturbed
<1>4. CASE Reset
  <2>1. sent' = sent /\ at' = at /\ drops' = drops /\ resets' = resets + 1
    BY <1>4 DEF Reset
  <2>2. resets \in Nat
    BY DEF DInv
  <2>3. resets' \in Nat /\ resets' # 0
    BY <2>1, <2>2
  <2> QED
    BY <2>1, <2>3 DEF DInv, Undisturbed
<1>5. CASE UNCHANGED vars
  <2>1. /\ sent' = sent /\ at' = at /\ ring' = ring /\ mac' = mac /\ fifo' = fifo
        /\ drops' = drops /\ resets' = resets /\ handed' = handed /\ delivered' = delivered
    BY <1>5 DEF vars
  <2> QED
    BY <2>1 DEF DInv, Undisturbed
<1> QED
  BY <1>1, <1>2, <1>3, <1>4, <1>5 DEF Next

\* As long as no byte is dropped and nobody presses reset, the layers are handed the
\* frames for the board in the order of the wire, each once and word for word, behind
\* any number of tags and next to any other frames, provided those contain no byte of
\* a preamble (mac_rx_process, and the staging loop of udp_echo.cpp).
THEOREM DeliveredInOrder ==
    ASSUME CleanWire
    PROVE  Spec => []HandedInOrder
<1>1. Init => IInv /\ DInv
  BY InitHolds, InitDelivers
<1>2. IInv /\ DInv /\ [Next]_vars => IInv' /\ DInv'
  BY StepHolds, StepDelivers
<1>3. IInv /\ DInv => HandedInOrder
  <2> SUFFICES ASSUME DInv, Undisturbed
               PROVE  /\ handed = Cardinality(delivered)
                      /\ \E n \in 0 .. Len(sent) : delivered = {k \in 1 .. n : ForUs(k)}
    BY DEF HandedInOrder
  <2>1. PICK k \in Nat, j \in Nat : Position(sent, k, j) /\ HandedAll(sent, handed, delivered, k, j)
    BY DEF DInv, InStep
  <2> DEFINE n == IF Over(sent, k, j) THEN k ELSE k - 1
  <2>2. handed = Cardinality(delivered) /\ delivered = Mine(sent, n)
    BY <2>1 DEF HandedAll
  <2>3. n \in 0 .. Len(sent)
    <3>1. k \in 0 .. Len(sent) /\ (k = 0 => Over(sent, k, j)) /\ sent \in Seq(Frames)
      BY <2>1 DEF Position, Over, DInv, WireOK
    <3> QED
      BY <3>1
  <2> HIDE DEF n
  <2> QED
    BY <2>2, <2>3 DEF Mine, ForUs
<1> QED
  BY <1>1, <1>2, <1>3, PTL DEF Spec

===============================================================================
