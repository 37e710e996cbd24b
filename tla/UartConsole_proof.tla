-------------------------- MODULE UartConsole_proof --------------------------
(***************************************************************************)
(* Proofs about the UART console, for any number of bits, any length of a  *)
(* cell, any commands and answers.  Receiver, transmitter and the two      *)
(* sides of the terminal are related by the cycles each has spent in its   *)
(* byte; the answer and the matcher by what was received.                  *)
(***************************************************************************)
EXTENDS UartConsole, SequenceTheorems, TLAPS

\* Cycles of a cell, and how far the receiver and the transmitter are in a byte: the cell
\* is known from the number, which is incremented in the middle of it.
Cell        == Div + 1
Cells(side) == IF side.cnt > Half THEN side.num - 1 ELSE side.num
Time(side)  == Cells(side) * Cell + side.cnt

Texts      == Seq(Bytes)
RxType     == [active : BOOLEAN, cnt : 0 .. Div, num : Nat, byte : Bytes]
TxType     == [active : BOOLEAN, cnt : 0 .. Div, num : Nat, byte : Bytes, out : {0, 1}]
EchoType   == [byte : Bytes, set : BOOLEAN]
HostType   == [cycle : 0 .. FrameCycles, byte : Bytes, aligned : BOOLEAN,
               heard : {"no", "right", "wrong"}]
ScreenType == [cycle : 0 .. FrameCycles, byte : Bytes, sure : BOOLEAN, ok : BOOLEAN]
AnswerType == [for : Texts, text : Texts, taken : Texts]

Typing ==
    /\ prev \in {0, 1} /\ rx \in RxType /\ tx \in TxType
    /\ pending \in EchoType /\ resp \in Texts /\ cmd \in Texts
    /\ host \in HostType /\ screen \in ScreenType
    /\ sending \in Bytes /\ line \in Texts /\ answer \in AnswerType /\ resets \in Nat

\* The number of a cell and its counter go together.
RxOK == rx.active => rx.num <= StopCell /\ (rx.cnt > Half => rx.num >= 1)
TxShape ==
    /\ tx.active => /\ tx.num <= StopCell + 1 /\ (tx.cnt > Half => tx.num >= 1)
                    /\ tx.num = StopCell + 1 => tx.cnt > Half
    /\ tx.out = IF tx.active /\ tx.num \in 1 .. StopCell
                  THEN IF tx.num = 1 THEN 0 ELSE tx.byte[tx.num - 1]
                  ELSE 1
TxOK == TxShape /\ (tx.active => tx.byte = sending)

\* A receiver that was waiting for the byte follows it cycle by cycle until its stop
\* cell is sampled.
HostOK ==
    /\ host.cycle = 0 => prev = 1 /\ (host.aligned => host.heard = "right")
    /\ resets = 0 => host.aligned /\ (host.cycle = 0 => ~rx.active)
    /\ host.cycle > 0 /\ host.aligned =>
         /\ rx.active => /\ host.cycle = Time(rx) + 1 /\ host.heard = "no"
                         /\ \A i \in 1 .. Bits : i < rx.num => rx.byte[i] = host.byte[i]
         /\ ~rx.active => host.heard = "right" /\ host.cycle > StopCell * Cell + Half + 1

\* The screen's receiver follows the transmitter half a cell behind.  At the end of a
\* byte the transmitter may have gone on to the next, but has not driven its start
\* cell.  After a reset nothing is driven before the screen is through with the byte
\* the reset cut short, because the byte to echo takes as long to arrive.
Follows ==
    /\ tx.active /\ tx.num >= 1 /\ Time(tx) = screen.cycle + Half
    /\ \A i \in 1 .. Bits : i * Cell + Half + 1 < screen.cycle => screen.byte[i] = sending[i]
Ahead ==
    /\ screen.cycle + Half >= (StopCell + 1) * Cell
    /\ tx.active => tx.num = 0 /\ tx.cnt + (StopCell + 1) * Cell < screen.cycle + Half
CutShort ==
    \/ /\ ~tx.active /\ ~pending.set /\ resp = <<>>
       /\ rx.active => Time(rx) + 3 <= screen.cycle
    \/ tx.active /\ tx.num = 0 /\ tx.cnt + StopCell * Cell + Half + 4 <= screen.cycle
ScreenOK ==
    /\ screen.ok /\ screen.cycle # 1
    /\ screen.cycle = 0 /\ tx.active /\ tx.num >= 1 => tx.num = 1 /\ tx.cnt = Half + 1
    /\ screen.cycle > 0 /\ screen.sure => Follows \/ Ahead
    /\ screen.cycle > 0 /\ ~screen.sure => CutShort

\* The matcher has a part of a command that the line ends with, all of the line if that
\* is itself such a part.
LineOK ==
    /\ \E k \in 0 .. Len(line) : cmd = SubSeq(line, k + 1, Len(line))
    /\ line \in Partial => cmd = line

IInv ==
    /\ Typing /\ RxOK /\ TxOK /\ HostOK /\ ScreenOK /\ LineOK
    /\ AnswerIntact /\ CommandAnswered

-------------------------------------------------------------------------------
\* Products of the length of a cell.
LEMMA CellFacts ==
    /\ Cell \in Nat /\ Cell > 1 /\ Cell = Div + 1 /\ Div \in Nat /\ Half < Div /\ Half \in Nat
    /\ StopCell \in Nat /\ StopCell = Bits + 1 /\ StopCell > 1
    /\ FrameCycles = (StopCell + 1) * Cell
    /\ \A n \in Nat : n * Cell \in Nat /\ (n + 1) * Cell = n * Cell + Cell
    /\ \A m, n \in Nat : m <= n => m * Cell <= n * Cell
<1>1. /\ Cell \in Nat /\ Cell > 1 /\ Cell = Div + 1 /\ Div \in Nat /\ Half < Div /\ Half \in Nat
      /\ StopCell \in Nat /\ StopCell = Bits + 1 /\ StopCell > 1
  BY ConsoleAssumption DEF Cell, StopCell
<1>2. FrameCycles = (StopCell + 1) * Cell
  BY ConsoleAssumption DEF FrameCycles, Cell, StopCell
<1>3. ASSUME NEW n \in Nat PROVE n * Cell \in Nat /\ (n + 1) * Cell = n * Cell + Cell
  BY <1>1
<1>4. ASSUME NEW m \in Nat, NEW n \in Nat, m <= n PROVE m * Cell <= n * Cell
  BY <1>1, <1>4
<1> QED
  BY <1>1, <1>2, <1>3, <1>4

\* The cell of a cycle.
LEMMA CellOfFacts ==
    ASSUME NEW q \in Nat, NEW r \in 0 .. Div
    PROVE  CellOf(q * Cell + r + 1) = q /\ (q * Cell + r) % Cell = r
<1>1. Cell \in Nat /\ Cell > 1 /\ Cell = Div + 1 /\ Div \in Nat
  BY CellFacts
<1>2. r \in Nat /\ r < Cell
  BY <1>1
<1>3. q * Cell \in Nat
  BY <1>1
<1>4. (q * Cell + r) \div Cell = q /\ (q * Cell + r) % Cell = r
  <2> DEFINE a == q * Cell + r
             k == a \div Cell
             m == a % Cell
  <2>1. a \in Nat
    BY <1>2, <1>3
  <2>2. k \in Nat /\ m \in Nat /\ m < Cell /\ a = k * Cell + m
    <3> HIDE DEF a
    <3> QED
      BY <1>1, <2>1
  <2>3. q * Cell + r = k * Cell + m
    BY <2>2
  <2> HIDE DEF a, k, m
  <2>4. k = q
    <3>1. CASE k + 1 <= q
      <4>1. (k + 1) * Cell = k * Cell + Cell /\ (k + 1) * Cell <= q * Cell
        BY ONLY <1>1, <2>2, <3>1, q \in Nat, CellFacts
      <4> QED
        BY <1>1, <1>2, <1>3, <2>2, <2>3, <4>1
    <3>2. CASE q + 1 <= k
      <4>1. (q + 1) * Cell = q * Cell + Cell /\ (q + 1) * Cell <= k * Cell
        BY ONLY <1>1, <2>2, <3>2, q \in Nat, CellFacts
      <4> QED
        BY <1>1, <1>2, <1>3, <2>2, <2>3, <4>1
    <3> QED
      BY <2>2, <3>1, <3>2
  <2>5. m = r
    BY <1>1, <1>2, <1>3, <2>2, <2>3, <2>4
  <2> QED
    BY <2>4, <2>5 DEF k, m, a
<1>5. (q * Cell + r + 1) - 1 = q * Cell + r
  BY <1>2, <1>3
<1> QED
  BY <1>1, <1>4, <1>5 DEF CellOf

\* The time of a side that runs and whose number goes with its counter.
LEMMA TimeFacts ==
    ASSUME NEW s, s.cnt \in 0 .. Div, s.num \in Nat, s.cnt > Half => s.num >= 1
    PROVE  /\ Cells(s) \in Nat /\ Time(s) \in Nat /\ Time(s) = Cells(s) * Cell + s.cnt
           /\ Cells(s) = IF s.cnt > Half THEN s.num - 1 ELSE s.num
           /\ CellOf(Time(s) + 1) = Cells(s) /\ Time(s) % Cell = s.cnt
<1>1. Cells(s) \in Nat /\ s.cnt \in Nat
  BY CellFacts DEF Cells
<1>2. Cells(s) * Cell \in Nat
  BY <1>1, CellFacts
<1>3. Time(s) \in Nat /\ Time(s) = Cells(s) * Cell + s.cnt
  BY <1>1, <1>2 DEF Time
<1>4. CellOf(Cells(s) * Cell + s.cnt + 1) = Cells(s) /\ (Cells(s) * Cell + s.cnt) % Cell = s.cnt
  BY <1>1, CellOfFacts
<1>5. Cells(s) = IF s.cnt > Half THEN s.num - 1 ELSE s.num
  BY DEF Cells
<1> QED
  BY <1>1, <1>3, <1>4, <1>5

\* A cycle of a side that increments its number in the middle of a cell.
LEMMA TickFacts ==
    ASSUME NEW s, s.cnt \in 0 .. Div, s.num \in Nat, s.cnt > Half => s.num >= 1,
           NEW t, t.cnt = NextCnt(s.cnt), t.num = IF s.cnt = Half THEN s.num + 1 ELSE s.num
    PROVE  /\ t.cnt \in 0 .. Div /\ t.num \in Nat /\ (t.cnt > Half => t.num >= 1)
           /\ Time(t) = Time(s) + 1
<1>1. Div \in Nat /\ Half \in Nat /\ Half < Div /\ Cell = Div + 1
  BY CellFacts
<1>2. t.cnt \in 0 .. Div /\ t.num \in Nat /\ (t.cnt > Half => t.num >= 1)
  BY <1>1 DEF NextCnt
<1>3. CASE s.cnt = Div
  <2>1. Cells(t) = s.num /\ t.cnt = 0 /\ Cells(s) = s.num - 1 /\ s.num - 1 \in Nat
    BY <1>1, <1>3 DEF Cells, NextCnt
  <2>2. ((s.num - 1) + 1) * Cell = (s.num - 1) * Cell + Cell /\ (s.num - 1) * Cell \in Nat
    BY <2>1, CellFacts
  <2>3. (s.num - 1) + 1 = s.num
    BY <2>1
  <2>4. Time(t) = s.num * Cell /\ Time(s) = (s.num - 1) * Cell + Div
    <3>1. s.num * Cell \in Nat
      BY CellFacts
    <3> QED
      BY <1>3, <2>1, <3>1 DEF Time
  <2>5. Time(t) = (s.num - 1) * Cell + Cell
    BY <2>2, <2>3, <2>4
  <2> QED
    BY <1>1, <1>2, <2>2, <2>4, <2>5
<1>4. CASE s.cnt # Div
  <2>1. Cells(t) = Cells(s) /\ t.cnt = s.cnt + 1 /\ Cells(s) \in Nat
    BY <1>1, <1>4 DEF Cells, NextCnt
  <2>2. Cells(s) * Cell \in Nat
    BY <2>1, CellFacts
  <2> QED
    BY <1>2, <2>1, <2>2 DEF Time
<1> QED
  BY <1>3, <1>4

-------------------------------------------------------------------------------
\* The receiver: idle, started by a falling edge, done with a byte, or one cycle further.
LEMMA ReceiveFacts ==
    ASSUME Typing, RxOK, NEW level \in {0, 1}, Receive(level)
    PROVE  /\ prev' = level /\ rx' \in RxType /\ RxOK'
           /\ ~rx.active /\ ~(prev = 1 /\ level = 0) => rx' = rx
           /\ ~rx.active /\ prev = 1 /\ level = 0 => rx'.active /\ Time(rx') = 0 /\ rx'.num = 0
           /\ Complete => ~rx'.active
           /\ rx.active /\ ~Complete =>
                /\ rx'.active /\ Time(rx') = Time(rx) + 1
                /\ rx'.num = IF rx.cnt = Half THEN rx.num + 1 ELSE rx.num
                /\ rx'.byte = IF rx.cnt = Half /\ rx.num \in 1 .. Bits
                                THEN [rx.byte EXCEPT ![rx.num] = level] ELSE rx.byte
<1>1. rx \in RxType /\ prev' = level
  BY DEF Typing, Receive, RxType
<1>2. /\ Half \in Nat /\ Half < Div /\ Div \in Nat /\ StopCell \in Nat /\ Bits \in Nat
      /\ StopCell = Bits + 1
  BY CellFacts, ConsoleAssumption
<1>3. NextCnt(rx.cnt) \in 0 .. Div
  BY <1>1, <1>2 DEF NextCnt, RxType
<1>4. TRUE \in BOOLEAN /\ FALSE \in BOOLEAN
  OBVIOUS
<1>5. CASE ~rx.active /\ ~(prev = 1 /\ level = 0)
  <2>1. rx' = rx
    BY <1>5 DEF Receive, Complete
  <2> QED
    BY <1>1, <1>5, <2>1 DEF RxOK, Complete
<1>6. CASE ~rx.active /\ prev = 1 /\ level = 0
  <2>1. rx' = [RxIdle EXCEPT !.active = TRUE]
    BY <1>6 DEF Receive, Complete
  <2>2. RxIdle \in RxType
    <3>1. Zero \in Bytes
      BY DEF Zero, Bytes
    <3> QED
      BY <1>2, <3>1 DEF RxIdle, RxType
  <2>3. rx' \in RxType
    BY <1>4, <2>1, <2>2, Zenon DEF RxType
  <2>4. rx'.active /\ rx'.cnt = 0 /\ rx'.num = 0
    BY <2>1 DEF RxIdle
  <2>5. Time(rx') = 0
    BY <1>2, <2>4, CellFacts DEF Time, Cells
  <2>6. RxOK'
    BY <1>2, <2>4 DEF RxOK
  <2> QED
    BY <1>1, <1>6, <2>3, <2>4, <2>5, <2>6 DEF Complete
<1>7. CASE Complete
  <2>1. rx' = [rx EXCEPT !.active = FALSE, !.cnt = NextCnt(rx.cnt)]
    BY <1>7 DEF Receive, Complete
  <2>2. rx' \in RxType
    BY <1>1, <1>3, <1>4, <2>1, Zenon DEF RxType
  <2>3. ~rx'.active
    BY <1>1, <2>1 DEF RxType
  <2> QED
    BY <1>1, <1>7, <2>2, <2>3 DEF Complete, RxOK
<1>8. CASE rx.active /\ ~Complete
  <2> DEFINE num  == IF rx.cnt = Half THEN rx.num + 1 ELSE rx.num
             byte == IF rx.cnt = Half /\ rx.num \in 1 .. Bits
                       THEN [rx.byte EXCEPT ![rx.num] = level] ELSE rx.byte
  <2>1. byte \in Bytes
    BY <1>1 DEF Bytes, RxType
  <2>2. num \in Nat /\ num <= StopCell
    <3>1. rx.num \in Nat /\ rx.num <= StopCell /\ (rx.cnt = Half => rx.num # StopCell)
      BY <1>1, <1>8 DEF RxOK, Complete, RxType
    <3> QED
      BY <1>2, <3>1
  <2>3. /\ rx' \in RxType /\ rx'.active /\ rx'.cnt = NextCnt(rx.cnt)
        /\ rx'.num = num /\ rx'.byte = byte
    <3>1. CASE rx.cnt = Half
      <4>1. rx' = [Sample(level) EXCEPT !.cnt = NextCnt(@)]
        BY <1>8, <3>1 DEF Receive
      <4>2. Sample(level) = [rx EXCEPT !.byte = byte, !.num = num]
        BY <3>1 DEF Sample
      <4> HIDE DEF byte, num
      <4>3. Sample(level) \in RxType
        BY <1>1, <2>1, <2>2, <4>2, Zenon DEF RxType
      <4>4. /\ Sample(level).active = rx.active /\ Sample(level).cnt = rx.cnt
            /\ Sample(level).byte = byte /\ Sample(level).num = num
        BY <1>1, <4>2 DEF RxType
      <4> HIDE DEF Sample
      <4>5. rx' = [Sample(level) EXCEPT !.cnt = NextCnt(rx.cnt)]
        BY <4>1, <4>4
      <4>6. rx' \in RxType
        BY <1>3, <4>3, <4>5, Zenon DEF RxType
      <4>7. /\ rx'.active = Sample(level).active /\ rx'.cnt = NextCnt(rx.cnt)
            /\ rx'.byte = Sample(level).byte /\ rx'.num = Sample(level).num
        BY <4>3, <4>5 DEF RxType
      <4> QED
        BY <1>8, <4>4, <4>6, <4>7
    <3>2. CASE rx.cnt # Half
      <4>1. rx' = [rx EXCEPT !.cnt = NextCnt(rx.cnt)]
        BY <1>8, <3>2 DEF Receive, Complete
      <4>2. rx' \in RxType
        BY <1>1, <1>3, <4>1, Zenon DEF RxType
      <4>3. /\ rx'.active = rx.active /\ rx'.cnt = NextCnt(rx.cnt)
            /\ rx'.byte = rx.byte /\ rx'.num = rx.num
        BY <1>1, <4>1 DEF RxType
      <4> QED
        BY <1>8, <3>2, <4>2, <4>3
    <3> QED
      BY <3>1, <3>2
  <2> HIDE DEF byte
  <2>4. rx'.cnt = NextCnt(rx.cnt) /\ rx'.num = (IF rx.cnt = Half THEN rx.num + 1 ELSE rx.num)
    BY <2>3
  <2> HIDE DEF num
  <2>5. rx.cnt \in 0 .. Div /\ rx.num \in Nat /\ (rx.cnt > Half => rx.num >= 1)
    BY <1>1, <1>8 DEF RxOK, RxType
  <2>6. (rx'.cnt > Half => rx'.num >= 1) /\ Time(rx') = Time(rx) + 1
    BY <2>4, <2>5, TickFacts
  <2>7. RxOK'
    BY <2>2, <2>3, <2>6 DEF RxOK
  <2> QED
    BY <1>1, <1>8, <2>3, <2>6, <2>7 DEF num, byte
<1> QED
  BY <1>5, <1>6, <1>7, <1>8 DEF Complete

\* A busy transmitter: one cycle further, the next cell driven in the middle of the
\* counter's turn, or done with the byte at the end of the last turn.
LEMMA DriveFacts ==
    ASSUME Typing, TxShape, tx.active, NEW d, d = Drive
    PROVE  /\ d \in TxType /\ d.byte = tx.byte /\ d.cnt = NextCnt(tx.cnt)
           /\ d.num = (IF tx.cnt = Half THEN tx.num + 1 ELSE tx.num)
           /\ d.active <=> ~(tx.cnt = Div /\ tx.num = StopCell + 1)
           /\ d.out = IF tx.cnt = Half
                        THEN CASE tx.num = 0 -> 0
                               [] tx.num \in 1 .. Bits -> tx.byte[tx.num]
                               [] OTHER -> 1
                        ELSE tx.out
<1> DEFINE bit == CASE tx.num = 0 -> 0
                    [] tx.num \in 1 .. Bits -> tx.byte[tx.num]
                    [] OTHER -> 1
           num == IF tx.cnt = Half THEN tx.num + 1 ELSE tx.num
           out == IF tx.cnt = Half THEN bit ELSE tx.out
           driven == IF tx.cnt = Half
                       THEN [tx EXCEPT !.out = bit,
                                       !.num = IF tx.num <= StopCell THEN tx.num + 1 ELSE tx.num]
                       ELSE tx
<1>1. /\ Half \in Nat /\ Half < Div /\ Div \in Nat /\ StopCell \in Nat /\ Bits \in Nat
      /\ StopCell = Bits + 1
  BY CellFacts, ConsoleAssumption
<1>2. tx \in TxType /\ (tx.cnt = Half => tx.num <= StopCell)
  BY <1>1 DEF Typing, TxShape, TxType
<1>3. NextCnt(tx.cnt) \in 0 .. Div /\ 0 \in 0 .. Div /\ TRUE \in BOOLEAN /\ FALSE \in BOOLEAN
  BY <1>1, <1>2 DEF NextCnt, TxType
<1>4. bit \in {0, 1}
  <2>1. tx.num \in 1 .. Bits => tx.byte[tx.num] \in {0, 1}
    BY <1>2 DEF TxType, Bytes
  <2> QED
    BY <2>1
<1>5. num \in Nat
  BY <1>2 DEF TxType
<1>6. /\ driven \in TxType /\ driven.active = tx.active /\ driven.cnt = tx.cnt
      /\ driven.num = num /\ driven.byte = tx.byte /\ driven.out = out
  <2>1. CASE tx.cnt = Half
    <3>1. driven = [tx EXCEPT !.out = bit, !.num = num]
      BY <1>2, <2>1
    <3>2. out = bit
      BY <2>1
    <3> HIDE DEF bit, num, out, driven
    <3>3. driven \in TxType
      BY <1>2, <1>4, <1>5, <3>1, Zenon DEF TxType
    <3> QED
      BY <1>2, <3>1, <3>2, <3>3 DEF TxType
  <2>2. CASE tx.cnt # Half
    BY <1>2, <2>2
  <2> QED
    BY <2>1, <2>2
<1>7. d = IF tx.cnt = Div
            THEN [driven EXCEPT !.cnt = 0, !.active = driven.num # StopCell + 1]
            ELSE [driven EXCEPT !.cnt = NextCnt(driven.cnt)]
  BY DEF Drive
<1> HIDE DEF driven, num, bit, out
<1>8. CASE tx.cnt = Div
  <2>1. d = [driven EXCEPT !.cnt = 0, !.active = num # StopCell + 1]
    BY <1>6, <1>7, <1>8
  <2>2. num = tx.num
    BY <1>1, <1>8 DEF num
  <2>3. d \in TxType /\ (d.active <=> num # StopCell + 1)
    <3>1. CASE num = StopCell + 1
      <4>1. d = [driven EXCEPT !.cnt = 0, !.active = FALSE]
        BY <2>1, <3>1
      <4>2. d \in TxType
        BY <1>3, <1>6, <4>1, Zenon DEF TxType
      <4> QED
        BY <1>6, <3>1, <4>1, <4>2 DEF TxType
    <3>2. CASE num # StopCell + 1
      <4>1. d = [driven EXCEPT !.cnt = 0, !.active = TRUE]
        BY <2>1, <3>2
      <4>2. d \in TxType
        BY <1>3, <1>6, <4>1, Zenon DEF TxType
      <4> QED
        BY <1>6, <3>2, <4>1, <4>2 DEF TxType
    <3> QED
      BY <3>1, <3>2
  <2>4. d.cnt = 0 /\ d.num = driven.num /\ d.byte = driven.byte /\ d.out = driven.out
    BY <1>6, <2>1 DEF TxType
  <2>5. NextCnt(tx.cnt) = 0
    BY <1>8 DEF NextCnt
  <2> QED
    BY <1>6, <1>8, <2>2, <2>3, <2>4, <2>5 DEF num, out, bit
<1>9. CASE tx.cnt # Div
  <2>1. d = [driven EXCEPT !.cnt = NextCnt(tx.cnt)]
    BY <1>6, <1>7, <1>9
  <2>2. d \in TxType
    BY <1>3, <1>6, <2>1, Zenon DEF TxType
  <2>3. /\ d.active = driven.active /\ d.cnt = NextCnt(tx.cnt) /\ d.num = driven.num
        /\ d.byte = driven.byte /\ d.out = driven.out
    BY <1>6, <2>1 DEF TxType
  <2> QED
    BY <1>6, <1>9, <2>2, <2>3 DEF num, out, bit
<1> QED
  BY <1>8, <1>9

\* The transmitter: a cycle of its byte, or an idle one that takes the echo, else the next
\* byte of the answer.
LEMMA TransmitFacts ==
    ASSUME Typing, TxShape, NEW echo \in EchoType, NEW text \in Texts, Transmit(echo, text)
    PROVE  /\ tx' \in TxType /\ TxShape' /\ pending' \in EchoType /\ resp' \in Texts
           /\ tx.active =>
                /\ pending' = echo /\ resp' = text /\ tx'.byte = tx.byte
                /\ tx'.active <=> ~(tx.cnt = Div /\ tx.num = StopCell + 1)
                /\ Time(tx') = Time(tx) + 1
                /\ tx'.num = (IF tx.cnt = Half THEN tx.num + 1 ELSE tx.num)
                /\ tx'.cnt = NextCnt(tx.cnt)
           /\ ~tx.active /\ tx'.active => tx'.cnt = 0 /\ tx'.num = 0
           /\ ~tx.active /\ echo.set =>
                tx'.active /\ tx'.byte = echo.byte /\ pending' = None /\ resp' = text
           /\ ~tx.active /\ ~echo.set /\ text # <<>> =>
                tx'.active /\ tx'.byte = Head(text) /\ pending' = echo /\ resp' = Tail(text)
           /\ ~tx.active /\ ~echo.set /\ text = <<>> =>
                ~tx'.active /\ pending' = echo /\ resp' = text
<1>1. /\ Half \in Nat /\ Half < Div /\ Div \in Nat /\ StopCell \in Nat /\ Bits \in Nat
      /\ StopCell = Bits + 1
  BY CellFacts, ConsoleAssumption
<1>2. tx \in TxType /\ TRUE \in BOOLEAN /\ FALSE \in BOOLEAN
  BY DEF Typing
<1>3. Zero \in Bytes
  BY DEF Zero, Bytes
<1>4. TxIdle \in TxType
  BY <1>1, <1>3 DEF TxIdle, TxType
<1>5. None \in EchoType
  BY <1>3 DEF None, EchoType
<1>6. CASE tx.active
  <2>1. tx' = Drive /\ pending' = echo /\ resp' = text
    BY <1>6 DEF Transmit
  <2>2. PICK d : d = Drive
    OBVIOUS
  <2>3. /\ d \in TxType /\ d.byte = tx.byte /\ d.cnt = NextCnt(tx.cnt)
        /\ d.num = (IF tx.cnt = Half THEN tx.num + 1 ELSE tx.num)
        /\ d.active <=> ~(tx.cnt = Div /\ tx.num = StopCell + 1)
        /\ d.out = IF tx.cnt = Half
                     THEN CASE tx.num = 0 -> 0
                            [] tx.num \in 1 .. Bits -> tx.byte[tx.num]
                            [] OTHER -> 1
                     ELSE tx.out
    BY <1>6, <2>2, DriveFacts
  <2>4. tx' = d
    BY <2>1, <2>2
  <2>5. tx.cnt \in 0 .. Div /\ tx.num \in Nat /\ (tx.cnt > Half => tx.num >= 1)
    BY <1>2, <1>6 DEF TxShape, TxType
  <2>6. /\ d.cnt \in 0 .. Div /\ d.num \in Nat /\ (d.cnt > Half => d.num >= 1)
        /\ Time(d) = Time(tx) + 1
    BY <2>3, <2>5, TickFacts
  <2>7. d.active => d.num <= StopCell + 1 /\ (d.num = StopCell + 1 => d.cnt > Half)
    <3>1. tx.num <= StopCell + 1 /\ (tx.num = StopCell + 1 => tx.cnt > Half)
      BY <1>6 DEF TxShape
    <3>2. CASE tx.cnt = Half
      BY <1>1, <2>3, <2>5, <3>1, <3>2 DEF NextCnt
    <3>3. CASE tx.cnt = Div
      BY <1>1, <2>3, <2>5, <3>1, <3>3
    <3>4. CASE tx.cnt # Half /\ tx.cnt # Div
      BY <1>1, <2>3, <2>5, <3>1, <3>4 DEF NextCnt
    <3> QED
      BY <3>2, <3>3, <3>4
  <2>8. d.out = IF d.active /\ d.num \in 1 .. StopCell
                  THEN IF d.num = 1 THEN 0 ELSE d.byte[d.num - 1]
                  ELSE 1
    <3>1. /\ tx.num <= StopCell + 1 /\ (tx.num = StopCell + 1 => tx.cnt > Half)
          /\ tx.out = IF tx.num \in 1 .. StopCell
                        THEN IF tx.num = 1 THEN 0 ELSE tx.byte[tx.num - 1]
                        ELSE 1
      BY <1>6 DEF TxShape
    <3>2. CASE tx.cnt = Half
      <4>1. d.num = tx.num + 1 /\ d.num - 1 = tx.num /\ d.active
        BY <1>1, <2>3, <2>5, <3>2
      <4>2. tx.num = 0 \/ tx.num \in 1 .. Bits \/ tx.num = StopCell
        BY <1>1, <2>5, <3>1, <3>2
      <4>3. CASE tx.num = 0
        BY <1>1, <2>3, <3>2, <4>1, <4>3
      <4>4. CASE tx.num \in 1 .. Bits
        <5>1. d.out = tx.byte[tx.num]
          BY <2>3, <3>2, <4>4
        <5> QED
          BY <1>1, <2>3, <4>1, <4>4, <5>1
      <4>5. CASE tx.num = StopCell
        BY <1>1, <2>3, <3>2, <4>1, <4>5
      <4> QED
        BY <4>2, <4>3, <4>4, <4>5
    <3>3. CASE tx.cnt # Half /\ ~(tx.cnt = Div /\ tx.num = StopCell + 1)
      BY <2>3, <3>1, <3>3
    <3>4. CASE tx.cnt = Div /\ tx.num = StopCell + 1
      BY <1>1, <2>3, <3>1, <3>4
    <3> QED
      BY <1>1, <3>2, <3>3, <3>4
  <2>9. TxShape'
    BY <2>4, <2>6, <2>7, <2>8 DEF TxShape
  <2> QED
    BY <1>6, <2>1, <2>3, <2>4, <2>6, <2>9
<1>7. CASE ~tx.active /\ echo.set
  <2>1. /\ tx' = [TxIdle EXCEPT !.active = TRUE, !.byte = echo.byte]
        /\ pending' = None /\ resp' = text
    BY <1>7 DEF Transmit
  <2>2. echo.byte \in Bytes
    BY DEF EchoType
  <2>3. tx' \in TxType
    BY <1>2, <1>4, <2>1, <2>2, Zenon DEF TxType
  <2>4. tx'.active /\ tx'.cnt = 0 /\ tx'.num = 0 /\ tx'.byte = echo.byte /\ tx'.out = 1
    BY <2>1 DEF TxIdle
  <2>5. TxShape'
    BY <1>1, <2>4 DEF TxShape
  <2> QED
    BY <1>5, <1>7, <2>1, <2>3, <2>4, <2>5
<1>8. CASE ~tx.active /\ ~echo.set /\ text # <<>>
  <2>1. /\ tx' = [TxIdle EXCEPT !.active = TRUE, !.byte = Head(text)]
        /\ pending' = echo /\ resp' = Tail(text)
    BY <1>8 DEF Transmit
  <2>2. Head(text) \in Bytes /\ Tail(text) \in Texts
    BY <1>8 DEF Texts
  <2>3. tx' \in TxType
    BY <1>2, <1>4, <2>1, <2>2, Zenon DEF TxType
  <2>4. tx'.active /\ tx'.cnt = 0 /\ tx'.num = 0 /\ tx'.byte = Head(text) /\ tx'.out = 1
    BY <2>1 DEF TxIdle
  <2>5. TxShape'
    BY <1>1, <2>4 DEF TxShape
  <2> QED
    BY <1>8, <2>1, <2>2, <2>3, <2>4, <2>5
<1>9. CASE ~tx.active /\ ~echo.set /\ text = <<>>
  <2>1. tx' = [tx EXCEPT !.out = 1] /\ pending' = echo /\ resp' = text
    BY <1>9 DEF Transmit
  <2>2. 1 \in {0, 1}
    OBVIOUS
  <2>3. tx' \in TxType
    BY <1>2, <2>1, <2>2, Zenon DEF TxType
  <2>4. tx'.active = tx.active /\ tx'.out = 1
    BY <1>2, <2>1 DEF TxType
  <2>5. TxShape'
    BY <1>1, <1>9, <2>4 DEF TxShape
  <2> QED
    BY <1>9, <2>1, <2>3, <2>4, <2>5
<1> QED
  BY <1>6, <1>7, <1>8, <1>9

-------------------------------------------------------------------------------
\* Bytes with the same bits.
LEMMA SameBits ==
    ASSUME NEW a \in Bytes, NEW b \in Bytes, \A i \in 1 .. Bits : a[i] = b[i]
    PROVE  a = b
<1> DEFINE D == 1 .. Bits
           R == {0, 1}
<1>1. a \in [D -> R] /\ b \in [D -> R] /\ \A i \in D : a[i] = b[i]
  BY DEF Bytes
<1> HIDE DEF D, R
<1> QED
  BY ONLY <1>1

\* A cycle of a byte is a cell and a cycle of it; the last ones are those of the stop cell.
LEMMA FrameFacts ==
    ASSUME NEW c \in 1 .. FrameCycles
    PROVE  /\ \E q \in 0 .. StopCell, r \in 0 .. Div :
                 c = q * Cell + r + 1 /\ CellOf(c) = q /\ (c - 1) % Cell = r
           /\ c > StopCell * Cell => CellOf(c) = StopCell
<1>1. /\ Cell \in Nat /\ Cell > 1 /\ Cell = Div + 1 /\ Div \in Nat /\ StopCell \in Nat
      /\ FrameCycles = (StopCell + 1) * Cell /\ StopCell * Cell \in Nat
      /\ (StopCell + 1) * Cell = StopCell * Cell + Cell
  BY CellFacts
<1>2. c \in Nat /\ c >= 1 /\ c <= StopCell * Cell + Cell
  BY <1>1
<1> DEFINE a == c - 1
           q == a \div Cell
           r == a % Cell
<1>3. a \in Nat /\ c = a + 1 /\ a < StopCell * Cell + Cell
  BY <1>1, <1>2
<1>4. q \in Nat /\ r \in Nat /\ r < Cell /\ a = q * Cell + r
  <2>1. Cell \in Nat /\ Cell > 1 /\ a \in Nat
    BY <1>1, <1>3
  <2> HIDE DEF a
  <2> QED
    BY ONLY <2>1
<1> HIDE DEF a, q, r
<1>5. q <= StopCell
  <2>1. SUFFICES ASSUME q >= StopCell + 1 PROVE FALSE
    BY <1>1, <1>4
  <2>2. (StopCell + 1) * Cell <= q * Cell /\ q * Cell \in Nat
    BY ONLY <1>1, <1>4, <2>1, CellFacts
  <2> QED
    BY <1>1, <1>3, <1>4, <2>2
<1>6. c > StopCell * Cell => q = StopCell
  <2>1. SUFFICES ASSUME q + 1 <= StopCell, c > StopCell * Cell PROVE FALSE
    BY <1>1, <1>4, <1>5
  <2>2. (q + 1) * Cell <= StopCell * Cell /\ (q + 1) * Cell = q * Cell + Cell /\ q * Cell \in Nat
    BY ONLY <1>1, <1>4, <2>1, CellFacts
  <2> QED
    BY <1>1, <1>3, <1>4, <2>1, <2>2
<1>7. r \in 0 .. Div /\ q \in 0 .. StopCell
  BY <1>1, <1>4, <1>5
<1>8. CellOf(c) = q /\ (c - 1) % Cell = r /\ c = q * Cell + r + 1
  <2>1. c - 1 = a /\ Cell = Div + 1 /\ q = a \div Cell /\ r = a % Cell
    BY <1>1, <1>3 DEF q, r
  <2> QED
    BY <1>3, <1>4, <2>1 DEF CellOf
<1> QED
  BY <1>6, <1>7, <1>8

\* What the console sees of the line in a cycle.
Seen == IF host.cycle = 0 /\ host'.cycle = 1 THEN 0 ELSE Level(host)

LEMMA LevelFacts ==
    ASSUME Typing
    PROVE  /\ Level(host) \in {0, 1}
           /\ host.cycle = 0 => Level(host) = 1
           /\ host.cycle > StopCell * Cell => Level(host) = 1
           /\ host.cycle > 0 /\ CellOf(host.cycle) \in 1 .. Bits =>
                Level(host) = host.byte[CellOf(host.cycle)]
<1>1. /\ StopCell \in Nat /\ StopCell = Bits + 1 /\ Bits \in Nat /\ FrameCycles \in Nat
      /\ StopCell * Cell \in Nat
  BY CellFacts, ConsoleAssumption
<1>2. host.cycle \in 0 .. FrameCycles /\ host.byte \in Bytes
  BY DEF Typing, HostType
<1>3. CASE host.cycle = 0
  BY <1>1, <1>3 DEF Level
<1>4. CASE host.cycle > 0
  <2>1. host.cycle \in 1 .. FrameCycles
    BY <1>1, <1>2, <1>4
  <2>2. PICK q \in 0 .. StopCell : CellOf(host.cycle) = q
    BY <2>1, FrameFacts
  <2>3. host.cycle > StopCell * Cell => q = StopCell
    BY <2>1, <2>2, FrameFacts
  <2>4. CASE q = StopCell
    BY <1>1, <1>4, <2>2, <2>4 DEF Level
  <2>5. CASE q = 0
    BY <1>1, <1>4, <2>2, <2>3, <2>5 DEF Level
  <2>6. CASE q \in 1 .. Bits
    <3>1. Level(host) = host.byte[q]
      BY <1>1, <1>4, <2>2, <2>6 DEF Level
    <3>2. host.byte[q] \in {0, 1}
      BY <1>2, <2>6 DEF Bytes
    <3> QED
      BY <1>1, <1>4, <2>2, <2>3, <2>6, <3>1, <3>2
  <2> QED
    BY <1>1, <2>4, <2>5, <2>6
<1> QED
  BY <1>1, <1>2, <1>3, <1>4

\* The terminal begins a byte, is silent, or goes on.
LEMMA HostFacts ==
    ASSUME Typing, GoesOn \/ Silent \/ \E b \in Typed : Begins(b)
    PROVE  /\ host' \in HostType /\ Seen \in {0, 1}
           /\ \/ /\ host.cycle = 0 /\ host'.cycle = 1 /\ host'.heard = "no" /\ Seen = 0
                 /\ host'.aligned <=> ~rx.active
              \/ host.cycle = 0 /\ host' = host /\ Seen = 1
              \/ /\ host.cycle > 0 /\ host'.byte = host.byte /\ host'.aligned = host.aligned
                 /\ host'.cycle = IF host.cycle = FrameCycles THEN 0 ELSE host.cycle + 1
                 /\ host'.heard = IF ~Complete THEN host.heard
                                  ELSE IF rx.byte = host.byte /\ host.heard = "no"
                                         THEN "right" ELSE "wrong"
                 /\ Seen = Level(host)
<1>1. host \in HostType /\ rx \in RxType
  BY DEF Typing
<1>2. FrameCycles \in Nat /\ FrameCycles >= 2
  <2>1. /\ StopCell * Cell \in Nat /\ (StopCell + 1) * Cell = StopCell * Cell + Cell /\ Cell \in Nat
        /\ Cell > 1 /\ FrameCycles = (StopCell + 1) * Cell
    BY CellFacts
  <2> QED
    BY <2>1
<1>3. CASE \E b \in Typed : Begins(b)
  <2>1. PICK b \in Typed : Begins(b)
    BY <1>3
  <2>2. /\ host.cycle = 0
        /\ host' = [cycle |-> 1, byte |-> b, aligned |-> ~rx.active, heard |-> "no"]
    BY <2>1 DEF Begins
  <2>3. b \in Bytes
    BY ConsoleAssumption
  <2>4. /\ host'.cycle = 1 /\ host'.byte = b /\ host'.heard = "no"
        /\ host'.aligned <=> ~rx.active
    BY <2>2
  <2>5. host' \in HostType
    <3>1. PICK f \in BOOLEAN : f = ~rx.active
      OBVIOUS
    <3>2. host' = [cycle |-> 1, byte |-> b, aligned |-> f, heard |-> "no"]
      BY <2>2, <3>1
    <3> QED
      BY <1>2, <2>3, <3>2 DEF HostType
  <2> QED
    BY <2>2, <2>4, <2>5 DEF Seen
<1>4. CASE Silent
  BY <1>1, <1>4, LevelFacts DEF Silent, Seen
<1>5. CASE GoesOn
  <2> DEFINE next == IF host.cycle = FrameCycles THEN 0 ELSE host.cycle + 1
             fate == IF ~Complete THEN host.heard
                     ELSE IF rx.byte = host.byte /\ host.heard = "no" THEN "right" ELSE "wrong"
  <2>1. host.cycle > 0 /\ host' = [host EXCEPT !.cycle = next, !.heard = fate]
    BY <1>5 DEF GoesOn
  <2>2. next \in 0 .. FrameCycles /\ fate \in {"no", "right", "wrong"}
    BY <1>1, <1>2 DEF HostType
  <2> HIDE DEF next, fate
  <2>3. host' \in HostType
    BY <1>1, <2>1, <2>2, Zenon DEF HostType
  <2>4. /\ host'.cycle = next /\ host'.heard = fate /\ host'.byte = host.byte
        /\ host'.aligned = host.aligned
    BY <1>1, <2>1 DEF HostType
  <2>5. Seen = Level(host) /\ Level(host) \in {0, 1}
    BY <2>1, LevelFacts DEF Seen
  <2> QED
    BY <2>1, <2>3, <2>4, <2>5 DEF next, fate
<1> QED
  BY <1>3, <1>4, <1>5

\* The cycles a busy receiver has spent in a byte, at most until it samples the stop cell.
LEMMA ReceiverTime ==
    ASSUME Typing, RxOK, rx.active
    PROVE  /\ rx.cnt \in 0 .. Div /\ rx.num \in Nat /\ (rx.cnt > Half => rx.num >= 1)
           /\ Time(rx) \in Nat /\ Time(rx) <= StopCell * Cell + Half
           /\ Complete => Time(rx) = StopCell * Cell + Half
           /\ rx.cnt = Half => CellOf(Time(rx) + 1) = rx.num
<1>1. /\ rx.cnt \in 0 .. Div /\ rx.num \in Nat /\ (rx.cnt > Half => rx.num >= 1)
      /\ rx.num <= StopCell
  BY DEF Typing, RxType, RxOK
<1>2. /\ Cells(rx) \in Nat /\ Time(rx) \in Nat /\ Time(rx) = Cells(rx) * Cell + rx.cnt
      /\ Cells(rx) = (IF rx.cnt > Half THEN rx.num - 1 ELSE rx.num)
      /\ CellOf(Time(rx) + 1) = Cells(rx)
  BY <1>1, TimeFacts
<1>3. /\ Half \in Nat /\ Div \in Nat /\ Half < Div /\ Cell = Div + 1 /\ StopCell \in Nat
      /\ StopCell * Cell \in Nat
  BY CellFacts
<1>4. rx.cnt \in Nat /\ rx.cnt <= Div
  BY <1>1, <1>3
<1>5. Time(rx) <= StopCell * Cell + Half
  <2>1. CASE rx.cnt > Half
    <3>1. Cells(rx) + 1 <= StopCell
      BY <1>1, <1>2, <1>3, <2>1
    <3>2. /\ (Cells(rx) + 1) * Cell <= StopCell * Cell /\ Cells(rx) * Cell \in Nat
          /\ (Cells(rx) + 1) * Cell = Cells(rx) * Cell + Cell
      BY ONLY <1>2, <1>3, <3>1, CellFacts
    <3> QED
      BY <1>2, <1>3, <1>4, <3>2
  <2>2. CASE rx.cnt <= Half
    <3>1. Cells(rx) <= StopCell
      BY <1>1, <1>2, <1>3, <1>4, <2>2
    <3>2. Cells(rx) * Cell <= StopCell * Cell /\ Cells(rx) * Cell \in Nat
      BY ONLY <1>2, <1>3, <3>1, CellFacts
    <3> QED
      BY <1>2, <1>3, <1>4, <2>2, <3>2
  <2> QED
    BY <1>3, <1>4, <2>1, <2>2
<1>6. Complete => Time(rx) = StopCell * Cell + Half
  BY <1>2, <1>3 DEF Complete
<1>7. rx.cnt = Half => CellOf(Time(rx) + 1) = rx.num
  BY <1>2, <1>3
<1> QED
  BY <1>1, <1>2, <1>5, <1>6, <1>7

\* A receiver that is in the byte of the terminal cycle by cycle takes its bits.
LEMMA FollowStep ==
    ASSUME Typing, RxOK, HostOK, host.cycle > 0, host.aligned, rx.active,
           Receive(Level(host)), Level(host) \in {0, 1}
    PROVE  /\ host.cycle < FrameCycles /\ host.heard = "no" /\ host.cycle = Time(rx) + 1
           /\ Complete => rx.byte = host.byte
           /\ ~Complete => \A i \in 1 .. Bits : i < rx'.num => rx'.byte[i] = host.byte[i]
<1>1. /\ host.cycle = Time(rx) + 1 /\ host.heard = "no"
      /\ \A i \in 1 .. Bits : i < rx.num => rx.byte[i] = host.byte[i]
  BY DEF HostOK
<1>2. /\ rx.cnt \in 0 .. Div /\ rx.num \in Nat /\ Time(rx) \in Nat
      /\ Time(rx) <= StopCell * Cell + Half /\ (rx.cnt = Half => CellOf(host.cycle) = rx.num)
  BY <1>1, ReceiverTime
<1>3. /\ Half \in Nat /\ Div \in Nat /\ Half < Div /\ Cell = Div + 1 /\ StopCell \in Nat
      /\ StopCell * Cell \in Nat /\ (StopCell + 1) * Cell = StopCell * Cell + Cell
      /\ FrameCycles = (StopCell + 1) * Cell /\ Bits \in Nat /\ StopCell = Bits + 1
  BY CellFacts, ConsoleAssumption
<1>4. host.cycle < FrameCycles
  BY <1>1, <1>2, <1>3
<1>5. rx.byte \in Bytes /\ host.byte \in Bytes
  BY DEF Typing, RxType, HostType
<1>6. Complete => rx.byte = host.byte
  <2>1. SUFFICES ASSUME Complete PROVE rx.byte = host.byte
    OBVIOUS
  <2>2. rx.num = StopCell
    BY <2>1 DEF Complete
  <2>3. ASSUME NEW i \in 1 .. Bits PROVE rx.byte[i] = host.byte[i]
    <3>1. i < rx.num
      BY ONLY <1>3, <2>2, i \in 1 .. Bits
    <3> QED
      BY ONLY <1>1, <3>1, i \in 1 .. Bits
  <2> QED
    BY ONLY <1>5, <2>3, SameBits
<1>7. ASSUME ~Complete, NEW i \in 1 .. Bits, i < rx'.num PROVE rx'.byte[i] = host.byte[i]
  <2>1. /\ rx'.num = IF rx.cnt = Half THEN rx.num + 1 ELSE rx.num
        /\ rx'.byte = IF rx.cnt = Half /\ rx.num \in 1 .. Bits
                        THEN [rx.byte EXCEPT ![rx.num] = Level(host)] ELSE rx.byte
    BY <1>7, ReceiveFacts
  <2>2. CASE rx.cnt = Half /\ rx.num = i
    <3>1. Level(host) = host.byte[i]
      BY <1>2, <1>3, <1>1, <2>2, LevelFacts
    <3> QED
      BY <1>5, <2>1, <2>2, <3>1 DEF Bytes
  <2>3. CASE ~(rx.cnt = Half /\ rx.num = i)
    <3>1. i < rx.num
      BY <1>2, <1>7, <2>1, <2>3
    <3>2. rx'.byte[i] = rx.byte[i]
      BY <1>5, <2>1, <2>3 DEF Bytes
    <3> QED
      BY <1>1, <3>1, <3>2
  <2> QED
    BY <2>2, <2>3
<1> QED
  BY <1>1, <1>4, <1>6, <1>7

LEMMA HostStep ==
    ASSUME Typing, RxOK, HostOK, GoesOn \/ Silent \/ \E b \in Typed : Begins(b),
           Receive(Seen), UNCHANGED resets
    PROVE  HostOK'
<1>1. Seen \in {0, 1} /\ host' \in HostType
  BY HostFacts
<1>2. /\ prev' = Seen
      /\ ~rx.active /\ ~(prev = 1 /\ Seen = 0) => rx' = rx
      /\ ~rx.active /\ prev = 1 /\ Seen = 0 => rx'.active /\ Time(rx') = 0 /\ rx'.num = 0
      /\ Complete => ~rx'.active
      /\ rx.active /\ ~Complete => rx'.active /\ Time(rx') = Time(rx) + 1
  BY <1>1, ReceiveFacts
<1>3. /\ FrameCycles \in Nat /\ StopCell * Cell \in Nat /\ Half \in Nat /\ Cell \in Nat
      /\ FrameCycles = StopCell * Cell + Cell /\ Half + 1 < Cell
  BY CellFacts
<1>4. CASE /\ host.cycle = 0 /\ host'.cycle = 1 /\ host'.heard = "no" /\ Seen = 0
           /\ host'.aligned <=> ~rx.active
  <2>1. prev = 1 /\ (resets = 0 => ~rx.active)
    BY <1>4 DEF HostOK
  <2>2. CASE rx.active
    BY <1>4, <2>1, <2>2 DEF HostOK
  <2>3. CASE ~rx.active
    <3>1. rx'.active /\ Time(rx') = 0 /\ rx'.num = 0
      BY <1>2, <1>4, <2>1, <2>3
    <3>2. \A i \in 1 .. Bits : ~(i < 0)
      BY CellFacts
    <3>3. rx'.active => /\ host'.cycle = Time(rx') + 1 /\ host'.heard = "no"
                        /\ \A i \in 1 .. Bits : i < rx'.num => rx'.byte[i] = host'.byte[i]
      BY <1>4, <3>1, <3>2
    <3> QED
      BY <1>4, <2>3, <3>1, <3>3 DEF HostOK
  <2> QED
    BY <2>2, <2>3
<1>5. CASE host.cycle = 0 /\ host' = host /\ Seen = 1
  <2>1. prev' = 1 /\ (~rx.active => rx' = rx)
    BY <1>2, <1>5
  <2> QED
    BY <1>5, <2>1 DEF HostOK
<1>6. CASE /\ host.cycle > 0 /\ host'.byte = host.byte /\ host'.aligned = host.aligned
           /\ host'.cycle = IF host.cycle = FrameCycles THEN 0 ELSE host.cycle + 1
           /\ host'.heard = IF ~Complete THEN host.heard
                            ELSE IF rx.byte = host.byte /\ host.heard = "no"
                                   THEN "right" ELSE "wrong"
           /\ Seen = Level(host)
  <2>1. host.cycle \in 1 .. FrameCycles
    BY <1>3, <1>6 DEF Typing, HostType
  <2>2. host.cycle > StopCell * Cell => Seen = 1
    BY <1>6, LevelFacts
  <2>3. host'.cycle = 0 => prev' = 1
    <3>1. host'.cycle = 0 => host.cycle = FrameCycles
      BY <1>3, <1>6, <2>1
    <3> QED
      BY <1>2, <1>3, <2>2, <3>1
  <2>4. CASE ~host.aligned
    <3>1. resets # 0
      BY <2>4 DEF HostOK
    <3> QED
      BY <1>6, <2>3, <2>4, <3>1 DEF HostOK
  <2>5. CASE host.aligned /\ rx.active
    <3>1. /\ host.cycle < FrameCycles /\ host.heard = "no" /\ host.cycle = Time(rx) + 1
          /\ Complete => rx.byte = host.byte
          /\ ~Complete => \A i \in 1 .. Bits : i < rx'.num => rx'.byte[i] = host.byte[i]
      <4>1. Receive(Level(host)) /\ Level(host) \in {0, 1}
        BY <1>1, <1>6
      <4> QED
        BY <1>6, <2>5, <4>1, FollowStep
    <3>2. host'.cycle = host.cycle + 1 /\ host'.cycle > 0
      BY <1>3, <1>6, <2>1, <3>1
    <3>3. CASE Complete
      <4>1. host'.heard = "right" /\ ~rx'.active
        BY <1>2, <1>6, <3>1, <3>3
      <4>2. host'.cycle > StopCell * Cell + Half + 1
        BY <1>3, <2>5, <3>1, <3>2, <3>3, ReceiverTime
      <4> QED
        BY <1>6, <2>5, <3>2, <4>1, <4>2 DEF HostOK
    <3>4. CASE ~Complete
      <4>1. rx'.active /\ Time(rx') = Time(rx) + 1 /\ host'.heard = "no"
        BY <1>2, <1>6, <2>5, <3>1, <3>4
      <4>2. host'.cycle = Time(rx') + 1
        BY <3>1, <3>2, <4>1
      <4> QED
        BY <1>6, <2>5, <3>1, <3>2, <3>4, <4>1, <4>2 DEF HostOK
    <3> QED
      BY <3>3, <3>4
  <2>6. CASE host.aligned /\ ~rx.active
    <3>1. host.heard = "right" /\ host.cycle > StopCell * Cell + Half + 1
      BY <1>6, <2>6 DEF HostOK
    <3>2. Seen = 1
      BY <1>3, <2>1, <2>2, <3>1
    <3>3. rx' = rx /\ ~rx'.active /\ host'.heard = "right"
      BY <1>2, <1>6, <2>6, <3>1, <3>2 DEF Complete
    <3>4. host'.cycle > 0 => host'.cycle > StopCell * Cell + Half + 1
      BY <1>3, <1>6, <2>1, <3>1
    <3> QED
      BY <1>6, <2>3, <2>6, <3>3, <3>4 DEF HostOK
  <2> QED
    BY <2>4, <2>5, <2>6
<1> QED
  <2>1. \/ /\ host.cycle = 0 /\ host'.cycle = 1 /\ host'.heard = "no" /\ Seen = 0
           /\ host'.aligned <=> ~rx.active
        \/ host.cycle = 0 /\ host' = host /\ Seen = 1
        \/ /\ host.cycle > 0 /\ host'.byte = host.byte /\ host'.aligned = host.aligned
           /\ host'.cycle = IF host.cycle = FrameCycles THEN 0 ELSE host.cycle + 1
           /\ host'.heard = IF ~Complete THEN host.heard
                            ELSE IF rx.byte = host.byte /\ host.heard = "no"
                                   THEN "right" ELSE "wrong"
           /\ Seen = Level(host)
    BY HostFacts
  <2> QED
    BY <1>4, <1>5, <1>6, <2>1

-------------------------------------------------------------------------------
\* The receiver of the terminal starts with a low level and takes the bits of a byte.
Mid == (screen.cycle - 1) % Cell = Half

LEMMA WatchFacts ==
    ASSUME Typing, NEW out \in {0, 1}, NEW w, w = Watch(out)
    PROVE  /\ w \in ScreenType
           /\ screen.cycle = 0 /\ out = 0 => w.cycle = 2 /\ w.sure /\ w.ok = screen.ok
           /\ screen.cycle = 0 /\ out = 1 => w = screen
           /\ screen.cycle > 0 =>
                /\ w.cycle = IF screen.cycle = FrameCycles THEN 0 ELSE screen.cycle + 1
                /\ w.sure = screen.sure
                /\ CellOf(screen.cycle) \in 0 .. StopCell
                /\ CellOf(screen.cycle) <= Bits =>
                     /\ w.ok = screen.ok
                     /\ \A i \in 1 .. Bits : w.byte[i] = IF i = CellOf(screen.cycle) /\ Mid
                                                          THEN out ELSE screen.byte[i]
                /\ CellOf(screen.cycle) = StopCell =>
                     /\ w.byte = screen.byte
                     /\ w.ok <=> screen.ok /\ (screen.sure =>
                                    out = 1 /\ (Mid => screen.byte = sending))
<1> DEFINE cell == CellOf(screen.cycle)
           next == IF screen.cycle = FrameCycles THEN 0 ELSE screen.cycle + 1
<1>1. screen \in ScreenType
  BY DEF Typing
<1>2. /\ FrameCycles \in Nat /\ FrameCycles >= 2 /\ StopCell \in Nat /\ Bits \in Nat
      /\ StopCell = Bits + 1 /\ Cell = Div + 1
  <2>1. /\ StopCell * Cell \in Nat /\ (StopCell + 1) * Cell = StopCell * Cell + Cell /\ Cell \in Nat
        /\ Cell > 1 /\ FrameCycles = (StopCell + 1) * Cell
    BY CellFacts
  <2>2. FrameCycles \in Nat /\ FrameCycles >= 2
    BY ONLY <2>1
  <2>3. StopCell \in Nat /\ Bits \in Nat /\ StopCell = Bits + 1 /\ Cell = Div + 1
    BY CellFacts, ConsoleAssumption
  <2> QED
    BY <2>2, <2>3
<1>3. TRUE \in BOOLEAN /\ FALSE \in BOOLEAN
  OBVIOUS
<1>4. CASE screen.cycle = 0
  <2>1. w = IF out = 0 THEN [ScreenIdle EXCEPT !.cycle = 2, !.ok = screen.ok] ELSE screen
    BY <1>4 DEF Watch
  <2>2. CASE out = 0
    <3>1. w = [ScreenIdle EXCEPT !.cycle = 2, !.ok = screen.ok]
      BY <2>1, <2>2
    <3>2. ScreenIdle \in ScreenType
      <4>1. Zero \in Bytes
        BY DEF Zero, Bytes
      <4> QED
        BY <1>2, <4>1 DEF ScreenIdle, ScreenType
    <3>3. screen.ok \in BOOLEAN /\ 2 \in 0 .. FrameCycles
      BY <1>1, <1>2 DEF ScreenType
    <3>4. w \in ScreenType
      BY <3>1, <3>2, <3>3, Zenon DEF ScreenType
    <3>5. w.cycle = 2 /\ w.sure /\ w.ok = screen.ok
      <4>1. w.cycle = 2 /\ w.ok = screen.ok
        BY <3>1, <3>2 DEF ScreenType
      <4>2. w.sure = ScreenIdle.sure
        BY <3>1, <3>2 DEF ScreenType
      <4>3. ScreenIdle.sure
        BY DEF ScreenIdle
      <4> QED
        BY <4>1, <4>2, <4>3
    <3> QED
      BY <1>4, <2>2, <3>4, <3>5
  <2>3. CASE out = 1
    BY <1>1, <1>4, <2>1, <2>3
  <2> QED
    BY <2>2, <2>3
<1>5. CASE screen.cycle > 0
  <2>1. screen.cycle \in 1 .. FrameCycles
    BY <1>1, <1>2, <1>5 DEF ScreenType
  <2>2. cell \in 0 .. StopCell
    BY <2>1, FrameFacts
  <2>3. next \in 0 .. FrameCycles
    BY <1>2, <2>1
  <2>4. CASE cell <= Bits
    <3> DEFINE byte == IF cell > 0 /\ Mid THEN [screen.byte EXCEPT ![cell] = out] ELSE screen.byte
    <3>1. w = [screen EXCEPT !.cycle = next, !.byte = byte]
      BY <1>2, <1>5, <2>4 DEF Watch, Mid
    <3>2. screen.byte \in Bytes
      BY <1>1 DEF ScreenType
    <3>3. byte \in Bytes
      BY <3>2 DEF Bytes
    <3>4. \A i \in 1 .. Bits : byte[i] = IF i = cell /\ Mid THEN out ELSE screen.byte[i]
      <4>1. CASE cell > 0 /\ Mid
        <5>1. byte = [screen.byte EXCEPT ![cell] = out]
          BY <4>1
        <5> HIDE DEF byte, cell, Mid
        <5> QED
          BY <3>2, <4>1, <5>1 DEF Bytes
      <4>2. CASE ~(cell > 0 /\ Mid)
        <5>1. byte = screen.byte
          BY <4>2
        <5>2. ASSUME NEW i \in 1 .. Bits PROVE ~(i = cell /\ Mid)
          BY <1>2, <4>2
        <5> HIDE DEF byte, cell, Mid
        <5> QED
          BY <5>1, <5>2
      <4> QED
        BY <4>1, <4>2
    <3> HIDE DEF byte, next
    <3>5. w \in ScreenType
      BY <1>1, <2>3, <3>1, <3>3, Zenon DEF ScreenType
    <3>6. w.cycle = next /\ w.byte = byte /\ w.sure = screen.sure /\ w.ok = screen.ok
      BY <1>1, <3>1 DEF ScreenType
    <3> QED
      BY <1>2, <1>5, <2>2, <2>4, <3>4, <3>5, <3>6 DEF next
  <2>5. CASE cell = StopCell
    <3>1. PICK ok \in BOOLEAN :
            ok <=> screen.ok /\ (screen.sure => out = 1 /\ (Mid => screen.byte = sending))
      BY <1>3, Zenon
    <3>2. w = [screen EXCEPT !.cycle = next, !.ok = ok]
      <4>1. w = [screen EXCEPT !.cycle = next,
                               !.ok = @ /\ (screen.sure =>
                                              out = 1 /\ (Mid => screen.byte = sending))]
        BY <1>2, <1>5, <2>5 DEF Watch, Mid
      <4>2. ok = (screen.ok /\ (screen.sure => out = 1 /\ (Mid => screen.byte = sending)))
        BY <3>1, Zenon
      <4> HIDE DEF next, Mid
      <4> QED
        BY <4>1, <4>2
    <3> HIDE DEF next
    <3>3. w \in ScreenType
      BY <1>1, <2>3, <3>2, Zenon DEF ScreenType
    <3>4. w.cycle = next /\ w.byte = screen.byte /\ w.sure = screen.sure /\ w.ok = ok
      BY <1>1, <3>2 DEF ScreenType
    <3> QED
      BY <1>2, <1>5, <2>2, <2>5, <3>1, <3>3, <3>4 DEF next
  <2> QED
    BY <1>2, <2>2, <2>4, <2>5
<1> QED
  BY <1>1, <1>4, <1>5 DEF ScreenType

\* The cycles a busy transmitter has spent in a byte.
LEMMA TransmitterTime ==
    ASSUME Typing, TxShape, tx.active
    PROVE  /\ tx.cnt \in 0 .. Div /\ tx.num \in Nat /\ (tx.cnt > Half => tx.num >= 1)
           /\ tx.num <= StopCell + 1
           /\ Time(tx) \in Nat /\ Time(tx) <= StopCell * Cell + Div
           /\ tx.cnt = Div /\ tx.num = StopCell + 1 => Time(tx) = StopCell * Cell + Div
           /\ tx.num = 1 /\ tx.cnt = Half + 1 => Time(tx) = Half + 1
<1>1. /\ tx.cnt \in 0 .. Div /\ tx.num \in Nat /\ (tx.cnt > Half => tx.num >= 1)
      /\ tx.num <= StopCell + 1 /\ (tx.num = StopCell + 1 => tx.cnt > Half)
  BY DEF Typing, TxType, TxShape
<1>2. /\ Cells(tx) \in Nat /\ Time(tx) \in Nat /\ Time(tx) = Cells(tx) * Cell + tx.cnt
      /\ Cells(tx) = (IF tx.cnt > Half THEN tx.num - 1 ELSE tx.num)
  BY <1>1, TimeFacts
<1>3. /\ Half \in Nat /\ Div \in Nat /\ Half < Div /\ Cell = Div + 1 /\ StopCell \in Nat
      /\ StopCell * Cell \in Nat
  BY CellFacts
<1>4. tx.cnt \in Nat /\ tx.cnt <= Div
  BY <1>1, <1>3
<1>5. Cells(tx) <= StopCell
  BY <1>1, <1>2, <1>3, <1>4
<1>6. Cells(tx) * Cell <= StopCell * Cell /\ Cells(tx) * Cell \in Nat
  BY ONLY <1>2, <1>3, <1>5, CellFacts
<1>7. Time(tx) <= StopCell * Cell + Div
  BY <1>2, <1>3, <1>4, <1>6
<1>8. tx.cnt = Div /\ tx.num = StopCell + 1 => Time(tx) = StopCell * Cell + Div
  <2>1. tx.cnt = Div /\ tx.num = StopCell + 1 => Cells(tx) = StopCell
    BY <1>2, <1>3
  <2> QED
    BY <1>2, <2>1
<1>9. tx.num = 1 /\ tx.cnt = Half + 1 => Time(tx) = Half + 1
  <2>1. tx.num = 1 /\ tx.cnt = Half + 1 => Cells(tx) = 0
    BY <1>2, <1>3
  <2> QED
    BY <1>2, <1>3, <2>1, CellFacts
<1> QED
  BY <1>1, <1>2, <1>7, <1>8, <1>9

\* The level in the cell that the screen's receiver is in.
LEMMA FollowsLevel ==
    ASSUME Typing, TxShape, screen.cycle > 0, Follows
    PROVE  /\ screen.cycle + Half <= StopCell * Cell + Div
           /\ CellOf(screen.cycle) = StopCell => tx.out = 1
           /\ CellOf(screen.cycle) \in 1 .. Bits => tx.out = tx.byte[CellOf(screen.cycle)]
<1>1. tx.active /\ tx.num >= 1 /\ Time(tx) = screen.cycle + Half
  BY DEF Follows
<1>2. /\ tx.cnt \in 0 .. Div /\ tx.num \in Nat /\ tx.num <= StopCell + 1
      /\ Time(tx) \in Nat /\ Time(tx) <= StopCell * Cell + Div
  BY <1>1, TransmitterTime
<1>3. /\ Half \in Nat /\ Div \in Nat /\ Half < Div /\ Cell = Div + 1 /\ StopCell \in Nat
      /\ StopCell = Bits + 1 /\ Bits \in Nat /\ Cell \in Nat
  BY CellFacts, ConsoleAssumption
<1>4. screen.cycle \in Nat
  BY CellFacts DEF Typing, ScreenType
<1>5. tx.cnt \in Nat /\ tx.cnt <= Div /\ tx.num - 1 \in Nat
  BY <1>1, <1>2, <1>3
<1>6. (tx.num - 1) * Cell \in Nat /\ tx.num * Cell = (tx.num - 1) * Cell + Cell
  <2>1. /\ (tx.num - 1) * Cell \in Nat
        /\ ((tx.num - 1) + 1) * Cell = (tx.num - 1) * Cell + Cell
    BY <1>5, CellFacts
  <2>2. (tx.num - 1) + 1 = tx.num
    BY <1>2
  <2> QED
    BY <2>1, <2>2
<1>7. CellOf(screen.cycle) = tx.num - 1
  <2> DEFINE r == IF tx.cnt > Half THEN tx.cnt - Half - 1 ELSE Div + tx.cnt - Half
  <2>1. r \in 0 .. Div
    BY <1>3, <1>5
  <2>2. Time(tx) = IF tx.cnt > Half THEN (tx.num - 1) * Cell + tx.cnt ELSE tx.num * Cell + tx.cnt
    BY DEF Time, Cells
  <2>3. screen.cycle = (tx.num - 1) * Cell + r + 1
    <3>1. CASE tx.cnt > Half
      BY <1>1, <1>3, <1>4, <1>5, <1>6, <2>2, <3>1
    <3>2. CASE ~(tx.cnt > Half)
      BY <1>1, <1>3, <1>4, <1>5, <1>6, <2>2, <3>2
    <3> QED
      BY <3>1, <3>2
  <2>4. CellOf((tx.num - 1) * Cell + r + 1) = tx.num - 1
    <3> HIDE DEF r
    <3> QED
      BY <1>5, <2>1, CellOfFacts
  <2> QED
    BY <2>3, <2>4
<1>8. tx.out = IF tx.num \in 1 .. StopCell
                 THEN IF tx.num = 1 THEN 0 ELSE tx.byte[tx.num - 1]
                 ELSE 1
  BY <1>1 DEF TxShape
<1>9. CellOf(screen.cycle) = StopCell => tx.out = 1
  BY <1>2, <1>3, <1>7, <1>8
<1>10. CellOf(screen.cycle) \in 1 .. Bits => tx.out = tx.byte[CellOf(screen.cycle)]
  BY <1>2, <1>3, <1>7, <1>8
<1> QED
  BY <1>1, <1>2, <1>9, <1>10

\* What the screen reads is ok, so far as it can tell.
LEMMA StopCellOK ==
    ASSUME Typing, TxOK, ScreenOK, screen.cycle > 0, screen.sure, CellOf(screen.cycle) = StopCell
    PROVE  tx.out = 1 /\ (Mid => screen.byte = sending)
<1>1. /\ Half \in Nat /\ Div \in Nat /\ 2 * Half < Div /\ Cell = Div + 1 /\ StopCell \in Nat
      /\ StopCell = Bits + 1 /\ Bits \in Nat /\ StopCell * Cell \in Nat
      /\ FrameCycles = StopCell * Cell + Cell
  BY CellFacts, ConsoleAssumption
<1>2. screen.cycle \in 1 .. FrameCycles /\ screen.byte \in Bytes /\ sending \in Bytes
  BY <1>1, CellFacts DEF Typing, ScreenType
<1>3. Mid => screen.cycle = StopCell * Cell + Half + 1
  BY <1>2, FrameFacts DEF Mid
<1>4. CASE Follows
  <2>1. tx.out = 1
    BY <1>4, FollowsLevel DEF TxOK
  <2>2. ASSUME Mid PROVE screen.byte = sending
    <3>1. ASSUME NEW i \in 1 .. Bits PROVE screen.byte[i] = sending[i]
      <4>1. i * Cell <= Bits * Cell /\ i * Cell \in Nat
        BY <1>1, CellFacts
      <4>2. Bits * Cell \in Nat /\ StopCell * Cell = Bits * Cell + Cell /\ Cell \in Nat /\ Cell > 0
        BY <1>1, CellFacts
      <4>3. i * Cell + Half + 1 < screen.cycle
        BY <1>1, <1>3, <2>2, <4>1, <4>2
      <4> QED
        BY <1>4, <4>3 DEF Follows
    <3> QED
      BY ONLY <1>2, <3>1, SameBits
  <2> QED
    BY <2>1, <2>2
<1>5. CASE Ahead
  <2>1. tx.out = 1
    BY <1>1, <1>5 DEF Ahead, TxOK, TxShape
  <2>2. ~Mid
    <3>1. screen.cycle + Half >= StopCell * Cell + Cell
      BY <1>1, <1>5, CellFacts DEF Ahead
    <3> QED
      BY <1>1, <1>2, <1>3, <3>1
  <2> QED
    BY <2>1, <2>2
<1> QED
  BY <1>4, <1>5 DEF ScreenOK

LEMMA WatchOK ==
    ASSUME Typing, TxOK, ScreenOK, NEW w, w = Watch(tx.out)
    PROVE  w.ok /\ w.cycle # 1
<1>1. tx.out \in {0, 1} /\ Bits \in Nat /\ StopCell = Bits + 1 /\ screen.cycle \in Nat
  BY CellFacts, ConsoleAssumption DEF Typing, TxType, ScreenType
<1>2. screen.ok /\ screen.cycle # 1
  BY DEF ScreenOK
<1>3. CASE screen.cycle = 0
  <2>1. tx.out = 0 => w.cycle = 2 /\ w.ok = screen.ok
    BY <1>1, <1>3, WatchFacts
  <2>2. tx.out = 1 => w = screen
    BY <1>1, <1>3, WatchFacts
  <2>3. CASE tx.out = 0
    <3>1. w.cycle = 2 /\ w.ok = screen.ok
      BY <2>1, <2>3
    <3> QED
      BY <1>2, <3>1
  <2>4. CASE tx.out = 1
    BY <1>2, <2>2, <2>4
  <2> QED
    BY <1>1, <2>3, <2>4
<1>4. CASE screen.cycle > 0
  <2>1. /\ w.cycle = IF screen.cycle = FrameCycles THEN 0 ELSE screen.cycle + 1
        /\ CellOf(screen.cycle) \in 0 .. StopCell
        /\ CellOf(screen.cycle) <= Bits => w.ok = screen.ok
        /\ CellOf(screen.cycle) = StopCell =>
             w.ok <=> screen.ok /\ (screen.sure => tx.out = 1 /\ (Mid => screen.byte = sending))
    BY <1>1, <1>4, WatchFacts
  <2>2. w.cycle # 1
    BY <1>1, <1>4, <2>1
  <2>3. w.ok
    <3>1. CASE CellOf(screen.cycle) <= Bits
      BY <1>2, <2>1, <3>1
    <3>2. CASE CellOf(screen.cycle) = StopCell
      BY <1>2, <1>4, <2>1, <3>2, StopCellOK
    <3> QED
      BY <1>1, <2>1, <3>1, <3>2
  <2> QED
    BY <2>2, <2>3
<1> QED
  BY <1>1, <1>3, <1>4

\* The byte to echo and the text to send that a cycle leaves.
Text == IF Complete THEN Load(rx.byte) ELSE resp

LEMMA LoadFacts ==
    ASSUME Typing
    PROVE  /\ Echo \in EchoType /\ Text \in Texts
           /\ ~tx.active /\ Complete => Echo.set
           /\ ~Complete => Echo = pending /\ Text = resp
<1>1. rx.byte \in Bytes /\ pending \in EchoType /\ resp \in Texts /\ cmd \in Texts
  BY DEF Typing, RxType
<1>2. [byte |-> rx.byte, set |-> TRUE] \in EchoType
  BY <1>1 DEF EchoType
<1>3. TextFor(cmd) \in Texts
  BY ConsoleAssumption DEF TextFor, Texts
<1> QED
  BY <1>1, <1>2, <1>3 DEF Echo, Text, Load

\* The screen that follows, reads on, or is through with the byte.
LEMMA FollowsStep ==
    ASSUME Typing, TxOK, screen.cycle > 0, screen.sure, Follows, NEW echo \in EchoType,
           NEW text \in Texts, Transmit(echo, text), screen' = Watch(tx.out), UNCHANGED sending
    PROVE  screen'.cycle > 0 /\ (Follows' \/ Ahead')
<1>1. /\ Half \in Nat /\ Div \in Nat /\ Half < Div /\ Cell = Div + 1 /\ StopCell \in Nat
      /\ StopCell = Bits + 1 /\ Bits \in Nat /\ StopCell * Cell \in Nat
      /\ FrameCycles = StopCell * Cell + Cell /\ (StopCell + 1) * Cell = StopCell * Cell + Cell
  BY CellFacts, ConsoleAssumption
<1>2. /\ tx.active /\ tx.num >= 1 /\ Time(tx) = screen.cycle + Half /\ tx.byte = sending
      /\ \A i \in 1 .. Bits : i * Cell + Half + 1 < screen.cycle => screen.byte[i] = sending[i]
  BY DEF Follows, TxOK
<1>3. TxShape /\ tx.out \in {0, 1} /\ screen.cycle \in 1 .. FrameCycles /\ tx.num \in Nat
  BY <1>1 DEF TxOK, Typing, TxType, ScreenType
<1>4. /\ screen.cycle + Half <= StopCell * Cell + Div
      /\ CellOf(screen.cycle) \in 1 .. Bits => tx.out = tx.byte[CellOf(screen.cycle)]
  BY <1>2, <1>3, FollowsLevel
<1>5. screen.cycle < FrameCycles
  BY <1>1, <1>3, <1>4
<1>6. /\ screen'.cycle = screen.cycle + 1 /\ CellOf(screen.cycle) \in 0 .. StopCell
      /\ CellOf(screen.cycle) <= Bits =>
           \A i \in 1 .. Bits : screen'.byte[i] = IF i = CellOf(screen.cycle) /\ Mid
                                                    THEN tx.out ELSE screen.byte[i]
      /\ CellOf(screen.cycle) = StopCell => screen'.byte = screen.byte
  <2>1. PICK w : w = Watch(tx.out)
    OBVIOUS
  <2>2. /\ w.cycle = IF screen.cycle = FrameCycles THEN 0 ELSE screen.cycle + 1
        /\ CellOf(screen.cycle) \in 0 .. StopCell
        /\ CellOf(screen.cycle) <= Bits =>
             \A i \in 1 .. Bits : w.byte[i] = IF i = CellOf(screen.cycle) /\ Mid
                                               THEN tx.out ELSE screen.byte[i]
        /\ CellOf(screen.cycle) = StopCell => w.byte = screen.byte
    BY <1>3, <2>1, WatchFacts
  <2>3. screen' = w
    BY <2>1
  <2>4. w.cycle = screen.cycle + 1
    BY <1>1, <1>3, <1>5, <2>2
  <2> QED
    BY <2>2, <2>3, <2>4
<1>7. /\ tx'.active <=> ~(tx.cnt = Div /\ tx.num = StopCell + 1)
      /\ Time(tx') = Time(tx) + 1
      /\ tx'.num = (IF tx.cnt = Half THEN tx.num + 1 ELSE tx.num)
  BY <1>2, <1>3, TransmitFacts
<1>8. screen'.cycle > 0
  BY <1>3, <1>6
<1>9. CASE tx'.active
  <2>1. tx'.num >= 1 /\ Time(tx') = screen'.cycle + Half
    BY <1>1, <1>2, <1>3, <1>6, <1>7
  <2>2. ASSUME NEW i \in 1 .. Bits, i * Cell + Half + 1 < screen'.cycle
        PROVE  screen'.byte[i] = sending[i]
    <3>1. i * Cell \in Nat /\ i \in Nat
      BY CellFacts
    <3>2. CASE i * Cell + Half + 1 < screen.cycle
      <4>1. screen.byte[i] = sending[i]
        BY <1>2, <3>2
      <4>2. CASE CellOf(screen.cycle) <= Bits
        <5>1. CASE i = CellOf(screen.cycle) /\ Mid
          BY <1>2, <1>4, <1>6, <4>2, <5>1
        <5>2. CASE ~(i = CellOf(screen.cycle) /\ Mid)
          BY <1>6, <4>1, <4>2, <5>2
        <5> QED
          BY <5>1, <5>2
      <4>3. CASE CellOf(screen.cycle) = StopCell
        BY <1>6, <4>1, <4>3
      <4> QED
        BY <1>1, <1>6, <4>2, <4>3
    <3>3. CASE ~(i * Cell + Half + 1 < screen.cycle)
      <4>1. screen.cycle = i * Cell + Half + 1
        BY <1>1, <1>3, <1>6, <2>2, <3>1, <3>3
      <4>2. CellOf(screen.cycle) = i /\ (i * Cell + Half) % Cell = Half
        <5>1. i \in Nat /\ Half \in 0 .. Div
          BY <1>1, <3>1
        <5>2. CellOf(i * Cell + Half + 1) = i /\ (i * Cell + Half) % Cell = Half
          BY <5>1, CellOfFacts
        <5> QED
          BY <4>1, <5>2
      <4>3. screen.cycle - 1 = i * Cell + Half
        BY <1>1, <3>1, <4>1
      <4>4. Mid
        BY <4>2, <4>3 DEF Mid
      <4>5. screen'.byte[i] = tx.out
        BY <1>1, <1>6, <4>2, <4>4
      <4> QED
        BY <1>2, <1>4, <4>2, <4>5
    <3> QED
      BY <3>2, <3>3
  <2> QED
    BY <1>8, <1>9, <2>1, <2>2 DEF Follows
<1>10. CASE ~tx'.active
  <2>1. Time(tx) = StopCell * Cell + Div
    BY <1>2, <1>3, <1>7, <1>10, TransmitterTime
  <2>2. screen'.cycle + Half >= StopCell * Cell + Cell
    BY <1>1, <1>2, <1>3, <1>6, <2>1
  <2> QED
    BY <1>1, <1>8, <1>10, <2>2 DEF Ahead
<1> QED
  BY <1>9, <1>10

\* A transmitter that is ahead does not drive the next byte before the screen is through.
LEMMA AheadStep ==
    ASSUME Typing, TxOK, screen.cycle > 0, screen.sure, Ahead, NEW echo \in EchoType,
           NEW text \in Texts, Transmit(echo, text), screen' = Watch(tx.out)
    PROVE  /\ screen'.cycle = 0 => (tx'.active => tx'.num = 0)
           /\ screen'.cycle > 0 => Ahead'
<1>1. /\ Half \in Nat /\ Div \in Nat /\ Half < Div /\ Cell = Div + 1 /\ StopCell \in Nat
      /\ FrameCycles \in Nat /\ FrameCycles = (StopCell + 1) * Cell
  BY CellFacts
<1>2. TxShape /\ tx.out \in {0, 1} /\ screen.cycle \in 1 .. FrameCycles /\ tx.cnt \in 0 .. Div
  BY <1>1 DEF TxOK, Typing, TxType, ScreenType
<1>3. screen'.cycle = IF screen.cycle = FrameCycles THEN 0 ELSE screen.cycle + 1
  BY <1>2, WatchFacts
<1>4. /\ screen.cycle + Half >= FrameCycles
      /\ tx.active => tx.num = 0 /\ tx.cnt + FrameCycles < screen.cycle + Half
  BY <1>1 DEF Ahead
<1>5. CASE tx.active
  <2>1. tx.cnt < Half
    BY <1>1, <1>2, <1>4, <1>5
  <2>2. tx'.num = 0 /\ tx'.cnt = NextCnt(tx.cnt)
    <3>1. /\ tx'.num = (IF tx.cnt = Half THEN tx.num + 1 ELSE tx.num)
          /\ tx'.cnt = NextCnt(tx.cnt)
      BY <1>2, <1>5, TransmitFacts
    <3> QED
      BY <1>1, <1>2, <1>4, <1>5, <2>1, <3>1
  <2>3. tx'.cnt = tx.cnt + 1
    BY <1>1, <1>2, <2>1, <2>2 DEF NextCnt
  <2>4. screen'.cycle > 0 => /\ screen'.cycle + Half >= FrameCycles
                             /\ tx'.cnt + FrameCycles < screen'.cycle + Half
    BY <1>1, <1>2, <1>3, <1>4, <1>5, <2>3
  <2> QED
    BY <1>1, <2>2, <2>4 DEF Ahead
<1>6. CASE ~tx.active
  <2>1. tx'.active => tx'.num = 0 /\ tx'.cnt = 0
    BY <1>2, <1>6, TransmitFacts
  <2>2. screen'.cycle > 0 => /\ screen'.cycle + Half >= FrameCycles
                             /\ 0 + FrameCycles < screen'.cycle + Half
    BY <1>1, <1>2, <1>3, <1>4
  <2> QED
    BY <1>1, <2>1, <2>2 DEF Ahead
<1> QED
  BY <1>5, <1>6

\* After a reset the byte to echo takes as long to arrive as the screen needs for the
\* rest of its byte.
LEMMA CutShortStep ==
    ASSUME Typing, RxOK, TxOK, screen.cycle > 1, CutShort, NEW level \in {0, 1}, Receive(level),
           Transmit(Echo, Text), screen' = Watch(tx.out)
    PROVE  /\ screen'.cycle = 0 /\ tx'.active /\ tx'.num >= 1 => tx'.num = 1 /\ tx'.cnt = Half + 1
           /\ screen'.cycle > 0 => CutShort'
<1>1. /\ Half \in Nat /\ Div \in Nat /\ Half < Div /\ Cell = Div + 1 /\ StopCell \in Nat
      /\ StopCell * Cell \in Nat /\ Div <= 2 * Half + 3
      /\ FrameCycles \in Nat /\ FrameCycles = StopCell * Cell + Cell
  BY CellFacts, ConsoleAssumption
<1>2. TxShape /\ tx.out \in {0, 1} /\ screen.cycle \in 1 .. FrameCycles /\ tx.cnt \in 0 .. Div
  BY <1>1 DEF TxOK, Typing, TxType, ScreenType
<1>3. screen'.cycle = IF screen.cycle = FrameCycles THEN 0 ELSE screen.cycle + 1
  BY <1>1, <1>2, WatchFacts
<1>4. /\ Echo \in EchoType /\ Text \in Texts
      /\ ~tx.active /\ Complete => Echo.set
      /\ ~Complete => Echo = pending /\ Text = resp
  BY LoadFacts
<1>5. CASE /\ ~tx.active /\ ~pending.set /\ resp = <<>>
           /\ rx.active => Time(rx) + 3 <= screen.cycle
  <2>1. CASE Complete
    <3>1. tx'.active /\ tx'.num = 0 /\ tx'.cnt = 0
      BY <1>2, <1>4, <1>5, <2>1, TransmitFacts
    <3>2. StopCell * Cell + Half + 3 <= screen.cycle
      <4>1. rx.active
        BY <2>1 DEF Complete
      <4>2. Time(rx) = StopCell * Cell + Half
        BY <2>1, <4>1, ReceiverTime
      <4> QED
        BY <1>5, <4>1, <4>2
    <3>3. screen'.cycle > 0 => 0 + StopCell * Cell + Half + 4 <= screen'.cycle
      BY <1>1, <1>2, <1>3, <3>2
    <3> QED
      BY <3>1, <3>3 DEF CutShort
  <2>2. CASE ~Complete
    <3>1. ~tx'.active /\ pending' = pending /\ resp' = <<>>
      BY <1>2, <1>4, <1>5, <2>2, TransmitFacts
    <3>2. screen'.cycle > 0 /\ rx'.active => Time(rx') + 3 <= screen'.cycle
      <4>1. CASE rx.active
        <5>1. Time(rx') = Time(rx) + 1 /\ Time(rx) \in Nat
          BY <2>2, <4>1, ReceiveFacts, ReceiverTime
        <5> QED
          BY <1>1, <1>2, <1>3, <1>5, <4>1, <5>1
      <4>2. CASE ~rx.active
        <5>1. rx'.active => Time(rx') = 0
          <6>1. CASE prev = 1 /\ level = 0
            BY <4>2, <6>1, ReceiveFacts
          <6>2. CASE ~(prev = 1 /\ level = 0)
            <7>1. rx' = rx
              BY <4>2, <6>2, ReceiveFacts
            <7> QED
              BY <4>2, <7>1
          <6> QED
            BY <6>1, <6>2
        <5>2. screen'.cycle > 0 => screen'.cycle >= 3
          BY <1>2, <1>3
        <5> QED
          BY <5>1, <5>2
      <4> QED
        BY <4>1, <4>2
    <3> QED
      BY <1>5, <3>1, <3>2 DEF CutShort
  <2> QED
    BY <2>1, <2>2
<1>6. CASE tx.active /\ tx.num = 0 /\ tx.cnt + StopCell * Cell + Half + 4 <= screen.cycle
  <2>1. /\ tx'.num = (IF tx.cnt = Half THEN tx.num + 1 ELSE tx.num)
        /\ tx'.cnt = NextCnt(tx.cnt)
        /\ tx'.active <=> ~(tx.cnt = Div /\ tx.num = StopCell + 1)
    BY <1>2, <1>4, <1>6, TransmitFacts
  <2>2. tx.cnt <= Half /\ (screen.cycle < FrameCycles => tx.cnt < Half)
    BY <1>1, <1>2, <1>6
  <2>3. tx'.active /\ tx'.cnt = tx.cnt + 1 /\ tx'.num = IF tx.cnt = Half THEN 1 ELSE 0
    BY <1>1, <1>2, <1>6, <2>1, <2>2 DEF NextCnt
  <2>4. CASE screen.cycle = FrameCycles
    BY <1>1, <1>2, <1>3, <2>3, <2>4
  <2>5. CASE screen.cycle < FrameCycles
    <3>1. screen'.cycle = screen.cycle + 1 /\ tx'.num = 0
      BY <1>1, <1>2, <1>3, <2>2, <2>3, <2>5
    <3>2. tx'.cnt + StopCell * Cell + Half + 4 <= screen'.cycle
      BY <1>1, <1>2, <1>6, <2>3, <3>1
    <3> QED
      BY <1>2, <2>3, <3>1, <3>2 DEF CutShort
  <2> QED
    BY <1>1, <1>2, <2>4, <2>5
<1> QED
  BY <1>5, <1>6 DEF CutShort

LEMMA ScreenStep ==
    ASSUME Typing, RxOK, TxOK, ScreenOK, NEW level \in {0, 1}, Receive(level),
           Transmit(Echo, Text), screen' = Watch(tx.out),
           sending' = IF ~tx.active /\ tx'.active THEN tx'.byte ELSE sending
    PROVE  ScreenOK'
<1>1. /\ Half \in Nat /\ Div \in Nat /\ Half < Div /\ Cell = Div + 1 /\ StopCell \in Nat
      /\ FrameCycles \in Nat /\ Bits \in Nat /\ StopCell = Bits + 1
  BY CellFacts, ConsoleAssumption
<1>2. /\ TxShape /\ tx.out \in {0, 1} /\ screen.cycle \in 0 .. FrameCycles /\ tx.cnt \in 0 .. Div
      /\ tx.num \in Nat
  BY <1>1 DEF TxOK, Typing, TxType, ScreenType
<1>3. Echo \in EchoType /\ Text \in Texts
  BY LoadFacts
<1>4. PICK w : w = Watch(tx.out)
  OBVIOUS
<1>5. screen' = w /\ w.ok /\ w.cycle # 1
  BY <1>4, WatchOK
<1>6. /\ tx.active => /\ tx'.active <=> ~(tx.cnt = Div /\ tx.num = StopCell + 1)
                      /\ Time(tx') = Time(tx) + 1
                      /\ tx'.num = (IF tx.cnt = Half THEN tx.num + 1 ELSE tx.num)
                      /\ tx'.cnt = NextCnt(tx.cnt)
      /\ ~tx.active /\ tx'.active => tx'.cnt = 0 /\ tx'.num = 0
  BY <1>2, <1>3, TransmitFacts
<1>7. CASE screen.cycle = 0
  <2>1. CASE tx.out = 0
    <3>1. tx.active /\ tx.num = 1 /\ tx.cnt = Half + 1
      BY <1>1, <1>2, <1>7, <2>1 DEF ScreenOK, TxShape
    <3>2. w.cycle = 2 /\ w.sure
      BY <1>2, <1>4, <1>7, <2>1, WatchFacts
    <3>3. Time(tx) = Half + 1
      BY <1>2, <3>1, TransmitterTime
    <3>4. tx'.active /\ Time(tx') = Half + 2 /\ tx'.num = 1
      BY <1>1, <1>6, <3>1, <3>3
    <3>5. ASSUME NEW i \in 1 .. Bits PROVE ~(i * Cell + Half + 1 < 2)
      <4>1. 1 * Cell <= i * Cell /\ i * Cell \in Nat /\ Cell > 1
        BY <1>1, CellFacts
      <4> QED
        BY <1>1, <4>1
    <3>6. Follows'
      BY <1>1, <1>5, <3>2, <3>4, <3>5 DEF Follows
    <3> QED
      BY <1>5, <3>2, <3>6 DEF ScreenOK
  <2>2. CASE tx.out = 1
    <3>1. screen' = screen
      BY <1>2, <1>4, <1>5, <1>7, <2>2, WatchFacts
    <3>2. tx'.active /\ tx'.num >= 1 => tx'.num = 1 /\ tx'.cnt = Half + 1
      <4>1. SUFFICES ASSUME tx'.active, tx'.num >= 1 PROVE tx'.num = 1 /\ tx'.cnt = Half + 1
        OBVIOUS
      <4>2. tx.active
        BY <1>6, <4>1
      <4>3. tx.num = 0
        <5>1. SUFFICES ASSUME tx.num >= 1 PROVE FALSE
          BY <1>2
        <5>2. tx.num = 1
          BY <1>7, <4>2, <5>1 DEF ScreenOK
        <5> QED
          BY <1>1, <2>2, <4>2, <5>2, <1>2 DEF TxShape
      <4> QED
        BY <1>1, <1>2, <1>6, <4>1, <4>2, <4>3 DEF NextCnt
    <3> QED
      BY <1>5, <1>7, <3>1, <3>2 DEF ScreenOK
  <2> QED
    BY <1>2, <2>1, <2>2
<1>8. CASE screen.cycle > 0
  <2>1. w.sure = screen.sure
    BY <1>2, <1>4, <1>8, WatchFacts
  <2>2. CASE screen.sure /\ Follows
    <3>1. UNCHANGED sending
      BY <2>2 DEF Follows
    <3>2. screen'.cycle > 0 /\ (Follows' \/ Ahead')
      BY <1>2, <1>3, <1>8, <2>2, <3>1, FollowsStep
    <3> QED
      BY <1>1, <1>5, <2>1, <2>2, <3>2 DEF ScreenOK
  <2>3. CASE screen.sure /\ Ahead
    <3>1. /\ screen'.cycle = 0 => (tx'.active => tx'.num = 0)
          /\ screen'.cycle > 0 => Ahead'
      BY <1>2, <1>3, <1>8, <2>3, AheadStep
    <3> QED
      BY <1>5, <2>1, <2>3, <3>1 DEF ScreenOK
  <2>4. CASE ~screen.sure
    <3>1. CutShort /\ screen.cycle > 1
      BY <1>2, <1>8, <2>4 DEF ScreenOK
    <3>2. /\ screen'.cycle = 0 /\ tx'.active /\ tx'.num >= 1 => tx'.num = 1 /\ tx'.cnt = Half + 1
          /\ screen'.cycle > 0 => CutShort'
      BY <1>2, <3>1, CutShortStep
    <3> QED
      BY <1>5, <2>1, <2>4, <3>2 DEF ScreenOK
  <2> QED
    BY <1>8, <2>2, <2>3, <2>4 DEF ScreenOK
<1> QED
  BY <1>2, <1>7, <1>8

-------------------------------------------------------------------------------
\* The end of a line is a suffix of it.
LEMMA RestIsSuffix ==
    ASSUME NEW s \in Texts, NEW k \in 0 .. Len(s)
    PROVE  IsSuffix(SubSeq(s, k + 1, Len(s)), s)
<1> DEFINE t == SubSeq(s, k + 1, Len(s))
           n == Len(s) - k
<1>1. Len(s) \in Nat /\ k \in Nat /\ n \in Nat /\ n <= Len(s)
  BY DEF Texts
<1>2. Len(t) = n /\ \A i \in 1 .. n : t[i] = s[k + i]
  BY <1>1 DEF Texts
<1> HIDE DEF t, n
<1>3. Len(Reverse(t)) = n /\ Len(Reverse(s)) = Len(s)
  BY <1>1, <1>2 DEF Reverse
<1>4. ASSUME NEW i \in 1 .. n PROVE Reverse(t)[i] = Reverse(s)[i]
  <2>1. i \in 1 .. Len(s) /\ n - i + 1 \in 1 .. n /\ k + (n - i + 1) = Len(s) - i + 1
    BY <1>1 DEF n
  <2>2. Reverse(t)[i] = t[n - i + 1] /\ Reverse(s)[i] = s[Len(s) - i + 1]
    BY <1>2, <2>1 DEF Reverse
  <2> QED
    BY <1>2, <2>1, <2>2
<1>5. SubSeq(Reverse(t), 1, n) = SubSeq(Reverse(s), 1, n)
  <2>1. /\ SubSeq(Reverse(t), 1, n) = [i \in 1 .. n |-> Reverse(t)[i]]
        /\ SubSeq(Reverse(s), 1, n) = [i \in 1 .. n |-> Reverse(s)[i]]
    BY <1>1
  <2> QED
    BY <1>4, <2>1
<1>6. IsPrefix(Reverse(t), Reverse(s))
  BY <1>1, <1>3, <1>5 DEF IsPrefix
<1> QED
  BY <1>6 DEF IsSuffix, t

\* The end of a line that grows by a byte grows by that byte.
LEMMA RestGrows ==
    ASSUME NEW s \in Seq(Bytes), NEW b \in Bytes, NEW k \in 0 .. Len(s)
    PROVE  SubSeq(Append(s, b), k + 1, Len(s) + 1) = Append(SubSeq(s, k + 1, Len(s)), b)
<1>1. k \in Nat /\ Len(s) \in Nat /\ k <= Len(s)
  OBVIOUS
<1>2. /\ Append(s, b) \in Seq(Bytes) /\ Len(Append(s, b)) = Len(s) + 1
      /\ Append(s, b)[Len(s) + 1] = b
      /\ \A i \in 1 .. Len(s) : Append(s, b)[i] = s[i]
  BY AppendProperties
<1> DEFINE n == Len(s) - k
           u == SubSeq(s, k + 1, Len(s))
           v == SubSeq(Append(s, b), k + 1, Len(s) + 1)
<1>3. u \in Seq(Bytes) /\ Len(u) = n /\ n \in Nat /\ \A i \in 1 .. n : u[i] = s[k + i]
  BY <1>1
<1>4. /\ v \in Seq(Bytes) /\ Len(v) = n + 1
      /\ \A i \in 1 .. n + 1 : v[i] = Append(s, b)[k + i]
  BY <1>1, <1>2
<1>5. k + (n + 1) = Len(s) + 1 /\ \A i \in 1 .. n : k + i \in 1 .. Len(s)
  BY <1>1
<1> HIDE DEF n, u, v
<1>6. v[n + 1] = b /\ \A i \in 1 .. n : v[i] = u[i]
  BY <1>2, <1>3, <1>4, <1>5
<1>7. v = Append(u, b)
  BY <1>3, <1>4, <1>6
<1> QED
  BY <1>7 DEF u, v

\* A part of a command is a text, and so is its beginning; a command is a part of itself.
LEMMA PartialFacts ==
    /\ <<>> \notin Commands /\ Commands \subseteq Partial
    /\ \A t \in Texts, b \in Bytes : Append(t, b) \in Partial => t \in Partial
<1>1. <<>> \notin Commands
  BY ConsoleAssumption
<1>2. ASSUME NEW c \in Commands PROVE c \in Partial
  <2>1. c \in Seq(Bytes)
    BY ConsoleAssumption
  <2>2. c = SubSeq(c, 1, Len(c)) /\ Len(c) \in 0 .. Len(c)
    BY <2>1
  <2>3. c \in Prefixes(c)
    BY <2>2 DEF Prefixes
  <2> QED
    BY <2>3 DEF Partial
<1>3. ASSUME NEW t \in Texts, NEW b \in Bytes, Append(t, b) \in Partial PROVE t \in Partial
  <2>0. PICK c \in Commands : Append(t, b) \in Prefixes(c)
    BY <1>3 DEF Partial
  <2>1. PICK l \in 0 .. Len(c) : Append(t, b) = SubSeq(c, 1, l)
    BY <2>0 DEF Prefixes
  <2>2. c \in Seq(Bytes) /\ t \in Seq(Bytes)
    BY ConsoleAssumption DEF Texts
  <2>3. Len(t) + 1 = l /\ l \in Nat /\ Len(t) \in Nat /\ l <= Len(c)
    <3>1. Len(Append(t, b)) = Len(t) + 1
      BY <2>2
    <3>2. Len(SubSeq(c, 1, l)) = l
      BY <2>2
    <3> QED
      BY <2>1, <2>2, <3>1, <3>2
  <2>4. ASSUME NEW i \in 1 .. Len(t) PROVE t[i] = c[i]
    <3>1. Append(t, b)[i] = t[i] /\ SubSeq(c, 1, l)[i] = c[i]
      BY <2>2, <2>3
    <3> QED
      BY <2>1, <3>1
  <2>5. t = SubSeq(c, 1, Len(t))
    <3>1. SubSeq(c, 1, Len(t)) = [i \in 1 .. Len(t) |-> c[i]]
      BY <2>2, <2>3
    <3>2. t = [i \in 1 .. Len(t) |-> t[i]]
      BY <2>2
    <3> QED
      BY <2>4, <3>1, <3>2
  <2>6. t \in Prefixes(c)
    <3>1. Len(t) \in 0 .. Len(c)
      BY <2>2, <2>3
    <3> QED
      BY <2>5, <3>1 DEF Prefixes
  <2> QED
    BY <2>6 DEF Partial
<1> QED
  BY <1>1, <1>2, <1>3

\* What a cycle does to the line and to the part of a command that was matched.
LEMMA LineStep ==
    ASSUME Typing, LineOK,
           cmd' = (IF ~Complete THEN cmd
                   ELSE IF rx.byte \in Enter THEN <<>> ELSE Match(cmd, rx.byte)),
           line' = CASE Complete /\ rx.byte \in Enter -> <<>>
                     [] Complete /\ ~(Complete /\ rx.byte \in Enter) -> Append(line, rx.byte)
                     [] ~Complete -> line
    PROVE  LineOK' /\ cmd' \in Texts /\ line' \in Texts
<1>1. line \in Seq(Bytes) /\ cmd \in Seq(Bytes) /\ rx.byte \in Bytes
  BY DEF Typing, Texts, RxType
<1>2. <<>> \in Seq(Bytes) /\ Append(cmd, rx.byte) \in Seq(Bytes)
  BY <1>1
<1>3. CASE ~Complete
  <2>1. cmd' = cmd /\ line' = line
    BY <1>3
  <2> QED
    BY <1>1, <2>1 DEF LineOK, Texts
<1>4. CASE Complete /\ rx.byte \in Enter
  <2>1. cmd' = <<>> /\ line' = <<>>
    BY <1>4
  <2>2. 0 \in 0 .. Len(<<>>) /\ SubSeq(<<>>, 0 + 1, Len(<<>>)) = <<>>
    OBVIOUS
  <2>3. \E j \in 0 .. Len(line') : cmd' = SubSeq(line', j + 1, Len(line'))
    BY <2>1, <2>2
  <2>4. cmd' \in Seq(Bytes) /\ line' \in Seq(Bytes)
    BY <1>2, <2>1, Zenon
  <2> QED
    BY <2>1, <2>3, <2>4 DEF LineOK, Texts
<1>5. CASE Complete /\ rx.byte \notin Enter
  <2> DEFINE b == rx.byte
  <2>1. cmd' = Match(cmd, b) /\ line' = Append(line, b)
    BY <1>5
  <2>2. line' \in Seq(Bytes) /\ Len(line') = Len(line) + 1
    BY <1>1, <2>1
  <2>3. PICK k \in 0 .. Len(line) : cmd = SubSeq(line, k + 1, Len(line))
    BY DEF LineOK
  <2>4. line' \in Partial => Append(cmd, b) = line'
    <3>1. line' \in Partial => line \in Partial
      BY <1>1, <2>1, PartialFacts DEF Texts
    <3> QED
      BY <2>1, <3>1 DEF LineOK
  <2>5. CASE Append(cmd, b) \in Partial
    <3>1. cmd' = Append(cmd, b)
      BY <2>1, <2>5 DEF Match
    <3>2. SubSeq(line', k + 1, Len(line')) = Append(cmd, b)
      BY <1>1, <2>1, <2>2, <2>3, RestGrows
    <3>3. k \in 0 .. Len(line')
      BY <1>1, <2>2
    <3>4. \E j \in 0 .. Len(line') : cmd' = SubSeq(line', j + 1, Len(line'))
      BY <3>1, <3>2, <3>3
    <3>5. cmd' \in Seq(Bytes)
      BY <1>2, <3>1, Zenon
    <3>6. line' \in Partial => cmd' = line'
      BY <2>4, <3>1
    <3> QED
      BY <2>2, <3>4, <3>5, <3>6 DEF LineOK, Texts
  <2>6. CASE Append(cmd, b) \notin Partial
    <3>1. cmd' = <<>>
      BY <2>1, <2>6 DEF Match
    <3>2. SubSeq(line', Len(line') + 1, Len(line')) = <<>> /\ Len(line') \in 0 .. Len(line')
      BY <2>2
    <3>3. \E j \in 0 .. Len(line') : cmd' = SubSeq(line', j + 1, Len(line'))
      BY <3>1, <3>2
    <3>4. cmd' \in Seq(Bytes)
      BY <1>2, <3>1, Zenon
    <3>5. line' \in Partial => cmd' = line'
      BY <2>4, <2>6
    <3> QED
      BY <2>2, <3>3, <3>4, <3>5 DEF LineOK, Texts
  <2> QED
    BY <2>5, <2>6
<1> QED
  BY <1>3, <1>4, <1>5

\* The first byte of what is left goes behind what was taken.
LEMMA MoveHead ==
    ASSUME NEW a \in Seq(Bytes), NEW s \in Seq(Bytes), s # <<>>
    PROVE  Append(a, Head(s)) \o Tail(s) = a \o s
<1> DEFINE h == Head(s)
           t == Tail(s)
<1>1. h \in Bytes /\ t \in Seq(Bytes) /\ <<h>> \in Seq(Bytes)
  <2>1. h \in Bytes /\ t \in Seq(Bytes)
    BY HeadTailProperties
  <2> HIDE DEF h, t
  <2> QED
    BY <2>1
<1>2. s = <<h>> \o t
  <2>1. Len(s) \in Nat /\ Len(s) >= 1
    BY EmptySeq
  <2>2. SubSeq(s, 1, Len(s)) = <<s[1]>> \o SubSeq(s, 1 + 1, Len(s))
    BY <2>1, SubSeqRecursiveFirst
  <2>3. SubSeq(s, 1, Len(s)) = s /\ t = SubSeq(s, 2, Len(s)) /\ h = s[1]
    BY SubSeqFull, TailIsSubSeq
  <2>4. 1 + 1 = 2
    OBVIOUS
  <2> HIDE DEF h, t
  <2> QED
    BY <2>2, <2>3, <2>4
<1>3. Append(a, h) = a \o <<h>>
  <2> HIDE DEF h
  <2> QED
    BY <1>1
<1>4. (a \o <<h>>) \o t = a \o (<<h>> \o t)
  <2> HIDE DEF h, t
  <2> QED
    BY <1>1, ConcatAssociative
<1> HIDE DEF h, t
<1>5. Append(a, h) \o t = a \o s
  BY <1>2, <1>3, <1>4
<1> QED
  BY <1>5 DEF h, t

\* What a cycle does to the answer and its history.
Entered == Complete /\ rx.byte \in Enter
Begun   == ~tx.active /\ tx'.active

LEMMA AnswerStep ==
    ASSUME Typing, TxShape, LineOK, AnswerIntact, CommandAnswered, Transmit(Echo, Text),
           answer' = CASE Entered /\ resp = <<>> ->
                            [for |-> line, text |-> Load(rx.byte), taken |-> <<>>]
                       [] Begun /\ ~Echo.set -> [answer EXCEPT !.taken = Append(@, tx'.byte)]
                       [] OTHER -> answer
    PROVE  AnswerIntact' /\ CommandAnswered' /\ answer' \in AnswerType
<1>1. /\ answer \in AnswerType /\ resp \in Texts /\ line \in Texts /\ cmd \in Texts
      /\ rx.byte \in Bytes /\ <<>> \in Texts
  BY DEF Typing, RxType, Texts
<1>2. answer.taken \in Seq(Bytes) /\ answer.for \in Texts /\ answer.text \in Texts
  BY <1>1 DEF AnswerType, Texts
<1>3. /\ Echo \in EchoType /\ Text \in Texts
      /\ ~tx.active /\ Complete => Echo.set
      /\ ~Complete => Text = resp
  BY LoadFacts
<1>4. /\ tx.active => resp' = Text
      /\ ~tx.active /\ Echo.set => resp' = Text
      /\ ~tx.active /\ ~Echo.set /\ Text # <<>> =>
           tx'.active /\ tx'.byte = Head(Text) /\ resp' = Tail(Text)
      /\ ~tx.active /\ ~Echo.set /\ Text = <<>> => ~tx'.active /\ resp' = Text
  BY <1>3, TransmitFacts
<1>5. CASE Entered /\ resp = <<>>
  <2>1. answer' = [for |-> line, text |-> Load(rx.byte), taken |-> <<>>]
    BY <1>3, <1>5 DEF Entered, Begun
  <2>2. Load(rx.byte) = TextFor(cmd) /\ Text = TextFor(cmd)
    BY <1>5 DEF Load, Text, Entered
  <2>3. resp' = TextFor(cmd) /\ TextFor(cmd) \in Seq(Bytes)
    BY <1>3, <1>4, <1>5, <2>2 DEF Entered, Texts
  <2>4. answer'.for = line /\ answer'.text = TextFor(cmd) /\ answer'.taken = <<>>
    BY <2>1, <2>2
  <2>5. <<>> \o TextFor(cmd) = TextFor(cmd)
    BY <2>3
  <2>6. AnswerIntact'
    BY <2>3, <2>4, <2>5 DEF AnswerIntact
  <2>7. answer' \in AnswerType
    <3>1. Load(rx.byte) \in Texts
      BY <2>2, <2>3 DEF Texts
    <3> QED
      BY <1>1, <2>1, <3>1 DEF AnswerType
  <2>8. line \in Commands => TextFor(cmd) = Response[line]
    BY PartialFacts DEF LineOK, TextFor
  <2>9. (\A c \in Commands : ~IsSuffix(c, line)) => TextFor(cmd) = Fallback
    <3>1. IsSuffix(cmd, line)
      BY <1>1, RestIsSuffix DEF LineOK
    <3> QED
      BY <3>1 DEF TextFor
  <2>10. CommandAnswered'
    BY <2>4, <2>8, <2>9 DEF CommandAnswered
  <2> QED
    BY <2>6, <2>7, <2>10
<1>6. CASE ~(Entered /\ resp = <<>>)
  <2>1. Text = resp
    BY <1>3, <1>6 DEF Text, Load, Entered
  <2>2. CASE Begun /\ ~Echo.set
    <3>1. answer' = [answer EXCEPT !.taken = Append(@, tx'.byte)]
      BY <1>6, <2>2
    <3>2. resp # <<>> /\ tx'.byte = Head(resp) /\ resp' = Tail(resp)
      BY <1>4, <2>1, <2>2 DEF Begun
    <3>3. Head(resp) \in Bytes /\ Append(answer.taken, Head(resp)) \in Texts
      BY <1>1, <1>2, <3>2 DEF Texts
    <3>4. /\ answer'.for = answer.for /\ answer'.text = answer.text
          /\ answer'.taken = Append(answer.taken, Head(resp))
      BY <1>1, <3>1, <3>2 DEF AnswerType
    <3>5. answer' \in AnswerType
      <4>1. answer' = [answer EXCEPT !.taken = Append(answer.taken, Head(resp))]
        BY <3>1, <3>2
      <4> QED
        BY <1>1, <3>3, <4>1, Zenon DEF AnswerType
    <3>6. Append(answer.taken, Head(resp)) \o Tail(resp) = answer.taken \o resp
      BY <1>1, <1>2, <3>2, MoveHead DEF Texts
    <3>7. AnswerIntact'
      BY <3>2, <3>4, <3>6 DEF AnswerIntact
    <3>8. answer # NoAnswer
      <4>1. SUFFICES ASSUME answer = NoAnswer PROVE FALSE
        OBVIOUS
      <4>2. answer.taken = <<>> /\ answer.text = <<>>
        BY <4>1 DEF NoAnswer
      <4>3. <<>> \o resp = resp /\ resp \in Seq(Bytes)
        BY <1>1 DEF Texts
      <4> QED
        BY <3>2, <4>2, <4>3 DEF AnswerIntact
    <3>9. CommandAnswered'
      BY <3>4, <3>8 DEF CommandAnswered
    <3> QED
      BY <3>5, <3>7, <3>9
  <2>3. CASE ~(Begun /\ ~Echo.set)
    <3>1. answer' = answer
      BY <1>6, <2>3
    <3>2. resp' = resp
      BY <1>4, <2>1, <2>3 DEF Begun
    <3> QED
      BY <1>1, <3>1, <3>2 DEF AnswerIntact, CommandAnswered
  <2> QED
    BY <2>2, <2>3
<1> QED
  BY <1>5, <1>6

-------------------------------------------------------------------------------
LEMMA InitHolds == Init => IInv
<1> SUFFICES ASSUME Init PROVE IInv
  OBVIOUS
<1>1. /\ prev = 1 /\ rx = RxIdle /\ pending = None /\ tx = TxIdle /\ resp = <<>> /\ cmd = <<>>
      /\ host = HostIdle /\ screen = ScreenIdle /\ sending = Zero
      /\ line = <<>> /\ answer = NoAnswer /\ resets = 0
  BY DEF Init
<1>2. Div \in Nat /\ FrameCycles \in Nat /\ StopCell \in Nat
  BY CellFacts
<1>3. Zero \in Bytes /\ <<>> \in Texts
  BY DEF Zero, Bytes, Texts
<1>4. RxIdle \in RxType /\ TxIdle \in TxType /\ None \in EchoType
  BY <1>2, <1>3 DEF RxIdle, TxIdle, None, RxType, TxType, EchoType
<1>5. HostIdle \in HostType /\ ScreenIdle \in ScreenType /\ NoAnswer \in AnswerType
  BY <1>2, <1>3 DEF HostIdle, ScreenIdle, NoAnswer, HostType, ScreenType, AnswerType
<1>6. Typing
  BY <1>1, <1>3, <1>4, <1>5 DEF Typing
<1>7. /\ ~rx.active /\ ~tx.active /\ tx.out = 1 /\ host.cycle = 0 /\ host.aligned
      /\ host.heard = "right" /\ screen.cycle = 0 /\ screen.ok
  BY <1>1 DEF RxIdle, TxIdle, HostIdle, ScreenIdle
<1>8. RxOK /\ TxOK /\ HostOK /\ ScreenOK
  BY <1>1, <1>7 DEF RxOK, TxOK, TxShape, HostOK, ScreenOK
<1>9. LineOK
  <2>1. 0 \in 0 .. Len(<<>>) /\ SubSeq(<<>>, 0 + 1, Len(<<>>)) = <<>>
    OBVIOUS
  <2> QED
    BY <1>1, <2>1 DEF LineOK
<1>10. AnswerIntact /\ CommandAnswered
  <2>1. answer.taken = <<>> /\ answer.text = <<>> /\ <<>> \o <<>> = <<>>
    BY <1>1 DEF NoAnswer
  <2> QED
    BY <1>1, <2>1 DEF AnswerIntact, CommandAnswered
<1> QED
  BY <1>6, <1>8, <1>9, <1>10 DEF IInv

LEMMA CycleHolds == IInv /\ Cycle => IInv'
<1> SUFFICES ASSUME IInv, Cycle PROVE IInv'
  OBVIOUS
<1>1. /\ Typing /\ RxOK /\ TxOK /\ TxShape /\ HostOK /\ ScreenOK /\ LineOK
      /\ AnswerIntact /\ CommandAnswered
  BY DEF IInv, TxOK
<1>2. /\ GoesOn \/ Silent \/ \E b \in Typed : Begins(b)
      /\ Receive(Seen) /\ Transmit(Echo, Text) /\ UNCHANGED resets
      /\ cmd' = (IF ~Complete THEN cmd
                 ELSE IF rx.byte \in Enter THEN <<>> ELSE Match(cmd, rx.byte))
  BY DEF Cycle, Call, Seen, Text
<1>3. /\ screen' = Watch(tx.out)
      /\ sending' = (IF ~tx.active /\ tx'.active THEN tx'.byte ELSE sending)
      /\ line' = CASE Complete /\ rx.byte \in Enter -> <<>>
                   [] Complete /\ ~(Complete /\ rx.byte \in Enter) -> Append(line, rx.byte)
                   [] ~Complete -> line
      /\ answer' = CASE Entered /\ resp = <<>> ->
                          [for |-> line, text |-> Load(rx.byte), taken |-> <<>>]
                     [] Begun /\ ~Echo.set -> [answer EXCEPT !.taken = Append(@, tx'.byte)]
                     [] OTHER -> answer
  BY DEF Cycle, Record, Entered, Begun
<1>4. Seen \in {0, 1} /\ host' \in HostType
  BY <1>1, <1>2, HostFacts
<1>5. Echo \in EchoType /\ Text \in Texts
  BY <1>1, LoadFacts
<1>6. prev' = Seen /\ rx' \in RxType /\ RxOK'
  BY <1>1, <1>2, <1>4, ReceiveFacts
<1>7. /\ tx' \in TxType /\ TxShape' /\ pending' \in EchoType /\ resp' \in Texts
      /\ tx.active => tx'.byte = tx.byte
  BY <1>1, <1>2, <1>5, TransmitFacts
<1>8. LineOK' /\ cmd' \in Texts /\ line' \in Texts
  BY <1>1, <1>2, <1>3, LineStep
<1>9. AnswerIntact' /\ CommandAnswered' /\ answer' \in AnswerType
  BY <1>1, <1>2, <1>3, AnswerStep
<1>10. screen' \in ScreenType
  <2>1. tx.out \in {0, 1}
    BY <1>1 DEF Typing, TxType
  <2> QED
    BY <1>1, <1>3, <2>1, WatchFacts
<1>11. sending' \in Bytes /\ (tx'.active => tx'.byte = sending')
  <2>1. tx'.byte \in Bytes /\ sending \in Bytes
    BY <1>1, <1>7 DEF Typing, TxType
  <2> QED
    BY <1>1, <1>3, <1>7, <2>1 DEF TxOK
<1>12. resets' = resets /\ resets \in Nat
  BY <1>1, <1>2 DEF Typing
<1>13. Typing'
  BY <1>4, <1>6, <1>7, <1>8, <1>9, <1>10, <1>11, <1>12 DEF Typing
<1>14. TxOK'
  BY <1>7, <1>11 DEF TxOK
<1>15. HostOK'
  BY <1>1, <1>2, HostStep
<1>16. ScreenOK'
  BY <1>1, <1>2, <1>3, <1>4, ScreenStep
<1> QED
  BY <1>6, <1>8, <1>9, <1>13, <1>14, <1>15, <1>16 DEF IInv

LEMMA ResetHolds == IInv /\ Reset => IInv'
<1> SUFFICES ASSUME IInv, Reset PROVE IInv'
  OBVIOUS
<1>1. Typing /\ TxOK /\ HostOK /\ ScreenOK
  BY DEF IInv
<1>2. /\ resets' = resets + 1 /\ prev' = 1 /\ rx' = RxIdle /\ pending' = None /\ tx' = TxIdle
      /\ resp' = <<>> /\ cmd' = <<>> /\ line' = <<>> /\ answer' = NoAnswer /\ sending' = sending
      /\ screen' = [Watch(tx.out) EXCEPT !.sure = FALSE]
  BY DEF Reset
<1>3. Div \in Nat /\ FrameCycles \in Nat /\ StopCell \in Nat
  BY CellFacts
<1>4. Zero \in Bytes /\ <<>> \in Texts
  BY DEF Zero, Bytes, Texts
<1>5. RxIdle \in RxType /\ TxIdle \in TxType /\ None \in EchoType /\ NoAnswer \in AnswerType
  BY <1>3, <1>4 DEF RxIdle, TxIdle, None, NoAnswer, RxType, TxType, EchoType, AnswerType
<1>6. host' \in HostType /\ (host'.cycle = 0 /\ host'.aligned => host'.heard = "right")
      /\ (host'.cycle > 0 => ~host'.aligned)
  <2>1. host \in HostType
    BY <1>1 DEF Typing
  <2>2. CASE host.cycle = 0
    BY <1>1, <2>1, <2>2 DEF Reset, HostOK, HostType
  <2>3. CASE host.cycle # 0
    <3> DEFINE next == IF host.cycle = FrameCycles THEN 0 ELSE host.cycle + 1
    <3>1. host' = [host EXCEPT !.cycle = next, !.aligned = FALSE]
      BY <2>3 DEF Reset
    <3>2. next \in 0 .. FrameCycles /\ FALSE \in BOOLEAN
      BY <1>3, <2>1 DEF HostType
    <3> HIDE DEF next
    <3>3. host' \in HostType
      BY <2>1, <3>1, <3>2, Zenon DEF HostType
    <3>4. ~host'.aligned
      BY <2>1, <3>1 DEF HostType
    <3> QED
      BY <3>3, <3>4
  <2> QED
    BY <2>2, <2>3
<1>7. screen' \in ScreenType /\ screen'.ok /\ screen'.cycle # 1 /\ ~screen'.sure
  <2>1. PICK w : w = Watch(tx.out)
    OBVIOUS
  <2>2. tx.out \in {0, 1} /\ FALSE \in BOOLEAN
    BY <1>1 DEF Typing, TxType
  <2>3. w \in ScreenType
    BY <1>1, <2>1, <2>2, WatchFacts
  <2>4. w.ok /\ w.cycle # 1
    BY <1>1, <2>1, WatchOK
  <2>5. screen' = [w EXCEPT !.sure = FALSE]
    BY <1>2, <2>1
  <2>6. screen' \in ScreenType
    BY <2>2, <2>3, <2>5, Zenon DEF ScreenType
  <2>7. screen'.ok = w.ok /\ screen'.cycle = w.cycle /\ ~screen'.sure
    BY <2>3, <2>5 DEF ScreenType
  <2> QED
    BY <2>4, <2>6, <2>7
<1>8. Typing'
  <2>1. resets' \in Nat /\ sending' \in Bytes /\ prev' \in {0, 1}
    BY <1>1, <1>2 DEF Typing
  <2> QED
    BY <1>2, <1>4, <1>5, <1>6, <1>7, <2>1 DEF Typing
<1>9. ~rx'.active /\ ~tx'.active /\ tx'.out = 1 /\ ~pending'.set
  BY <1>2 DEF RxIdle, TxIdle, None
<1>10. RxOK' /\ TxOK'
  BY <1>9 DEF RxOK, TxOK, TxShape
<1>11. HostOK'
  <2>1. resets' # 0
    BY <1>1, <1>2 DEF Typing
  <2> QED
    BY <1>2, <1>6, <2>1 DEF HostOK
<1>12. ScreenOK'
  BY <1>2, <1>7, <1>9 DEF ScreenOK, CutShort
<1>13. LineOK'
  <2>1. 0 \in 0 .. Len(<<>>) /\ SubSeq(<<>>, 0 + 1, Len(<<>>)) = <<>>
    OBVIOUS
  <2> QED
    BY <1>2, <2>1 DEF LineOK
<1>14. AnswerIntact' /\ CommandAnswered'
  <2>1. answer'.taken = <<>> /\ answer'.text = <<>> /\ <<>> \o <<>> = <<>>
    BY <1>2 DEF NoAnswer
  <2> QED
    BY <1>2, <2>1 DEF AnswerIntact, CommandAnswered
<1> QED
  BY <1>8, <1>10, <1>11, <1>12, <1>13, <1>14 DEF IInv

LEMMA Invariance == Spec => []IInv
<1>1. IInv /\ [Next]_vars => IInv'
  <2>1. IInv /\ UNCHANGED vars => IInv'
    BY DEF IInv, Typing, RxOK, TxOK, TxShape, HostOK, ScreenOK, Follows, Ahead, CutShort, LineOK,
           AnswerIntact, CommandAnswered, Time, Cells, vars
  <2> QED
    BY <2>1, CycleHolds, ResetHolds DEF Next
<1> QED
  BY <1>1, InitHolds, PTL DEF Spec

-------------------------------------------------------------------------------
\* A byte the receiver was waiting for is heard once and as it was typed, and it waits for
\* all of them unless a reset hits one: uart_console.cpp samples the middle of every cell
\* and is armed again before the stop cell is over.
THEOREM TypedIsHeard == Spec => []HeardAsTyped
<1>1. IInv => HeardAsTyped
  <2> SUFFICES ASSUME IInv PROVE HeardAsTyped
    OBVIOUS
  <2>1. HostOK
    BY DEF IInv
  <2>2. host.cycle \in Nat
    BY CellFacts DEF IInv, Typing, HostType
  <2>3. host.aligned => host.heard # "wrong" /\ (host.cycle = 0 => host.heard = "right")
    <3>1. CASE host.cycle = 0
      BY <2>1, <3>1 DEF HostOK
    <3>2. CASE host.cycle > 0
      BY <2>1, <3>2 DEF HostOK
    <3> QED
      BY <2>2, <3>1, <3>2
  <2> QED
    BY <2>1, <2>3 DEF HostOK, HeardAsTyped
<1> QED
  BY <1>1, Invariance, PTL

\* Bytes that follow each other without a pause, and those a reset cuts short, reach a
\* terminal that looks at the stop cell to its end with whole stop cells and their bits.
THEOREM SentIsRead == Spec => []ScreenReadsRight
<1>1. IInv => ScreenReadsRight
  BY DEF IInv, ScreenOK, ScreenReadsRight
<1> QED
  BY <1>1, Invariance, PTL

\* The answer that is being sent is the one that was loaded, to its end.
THEOREM AnswerIsWhole == Spec => []AnswerIntact
<1>1. IInv => AnswerIntact
  BY DEF IInv
<1> QED
  BY <1>1, Invariance, PTL

\* The matcher, which keeps only the part of a command it is in, answers a line that is a
\* command with the answer to it, and one that ends with none with the fallback.
THEOREM CommandIsAnswered == Spec => []CommandAnswered
<1>1. IInv => CommandAnswered
  BY DEF IInv
<1> QED
  BY <1>1, Invariance, PTL
===============================================================================
