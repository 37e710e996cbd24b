------------------------------- MODULE TxBridge -------------------------------
(***************************************************************************)
(* The transmit bridge of wrapper_1g.v, one step per gmii_clk cycle.       *)
(*                                                                         *)
(* The network IP writes words {last, data} into a ring; the reader waits  *)
(* until a complete frame is stored, then shifts one word per cycle to the *)
(* wire.  A demo generator shares the wire through a multiplexer that      *)
(* gives it priority.  Registers and ring are updated in parallel, so one  *)
(* step is the conjunction of the write port, the read port, the frame     *)
(* counter and the demo generator.                                         *)
(*                                                                         *)
(* Pointers and frame counter have the same width (11 bits for 2048 words) *)
(* and wrap at Depth.  `curLen` is the writer's side of the interface: how *)
(* much of its current frame mac_tx_process has already pushed.  `low` is  *)
(* a history variable: for how long TXEN has been low, up to Gap.          *)
(***************************************************************************)
EXTENDS Naturals, FiniteSets, Sequences

CONSTANTS Depth,      \* words in the ring (2048)
          Threshold,  \* occupancy at which net_tx_ready drops (1900)
          Gap,        \* inter-frame gap in cycles (12)
          MaxFrame,   \* longest frame mac_tx_process emits, in words
          DemoLen,    \* bytes of the demo frame (72)
          Data        \* byte values

ASSUME SizesAssumption ==
    /\ Depth \in Nat /\ Threshold \in Nat /\ Gap \in Nat
    /\ MaxFrame \in Nat /\ DemoLen \in Nat
    /\ 0 < MaxFrame /\ MaxFrame <= Threshold /\ Threshold < Depth
    /\ 0 < DemoLen
    /\ Data # {}

VARIABLES fifo,         \* tx_fifo
          wptr, rptr,   \* tx_wptr, tx_rptr
          frameCnt,     \* tx_frame_cnt
          draining,     \* tx_draining = e_txen
          gap,          \* tx_gap
          ipEnable,     \* ip_enable
          demoSending,  \* demo_sending
          demoIdx,      \* demo_idx
          curLen,       \* words of the writer's unfinished frame
          low           \* cycles TXEN has been low, saturating at Gap

vars == <<fifo, wptr, rptr, frameCnt, draining, gap, ipEnable,
          demoSending, demoIdx, curLen, low>>

Slots == 0 .. Depth - 1
Word  == [last : BOOLEAN, data : Data]

\* "No word offered in this cycle" (net_tx_valid low).
NoWord == [last |-> FALSE]
Offers == Word \cup {NoWord}

Inc(x) == IF x = Depth - 1 THEN 0 ELSE x + 1
Dec(x) == IF x = 0 THEN Depth - 1 ELSE x - 1

\* tx_occ, the pointer difference modulo the ring size, and the slots between the
\* two pointers.
Dist(r, w)    == IF r <= w THEN w - r ELSE w + Depth - r
Between(r, w) == {s \in Slots : IF r <= w THEN r <= s /\ s < w
                                          ELSE r <= s \/ s < w}
Occ      == Dist(rptr, wptr)
Occupied == Between(rptr, wptr)

\* The slots that hold the end of a complete frame.
LastSlots == {s \in Occupied : fifo[s].last}

Ready       == Occ < Threshold
Pushed(in)  == ipEnable /\ Ready /\ in # NoWord
PushLast(in) == Pushed(in) /\ in.last
EmitLast    == draining /\ fifo[rptr].last

-------------------------------------------------------------------------------
Init ==
    /\ fifo \in [Slots -> Word]
    /\ wptr = 0 /\ rptr = 0 /\ frameCnt = 0
    /\ draining = FALSE /\ gap = Gap
    /\ ipEnable = FALSE
    /\ demoSending = FALSE /\ demoIdx = 0
    /\ curLen = 0 /\ low = 0

\* The IP pushes a word; the writer closes a frame of MaxFrame words at the
\* latest, and an IP still held in reset is not listened to.
WritePort(in) ==
    /\ in # NoWord /\ curLen + 1 = MaxFrame => in.last
    /\ IF Pushed(in)
         THEN /\ fifo' = [fifo EXCEPT ![wptr] = in]
              /\ wptr' = Inc(wptr)
              /\ curLen' = IF in.last THEN 0 ELSE curLen + 1
         ELSE UNCHANGED <<fifo, wptr, curLen>>

\* Faults of the reader: the gap is not reloaded; the reader stops when the ring
\* runs empty instead of when it holds no further complete frame.
Emit_NoGap ==
    /\ draining
    /\ rptr' = Inc(rptr)
    /\ draining' = ~(fifo[rptr].last /\ frameCnt = 1)
    /\ low' = 0
    /\ UNCHANGED gap
Emit_UntilEmpty ==
    /\ draining
    /\ rptr' = Inc(rptr)
    /\ draining' = (Occ > 1)
    /\ gap' = IF Occ = 1 THEN Gap ELSE gap
    /\ low' = 0

\* The reader shifts a word out; it stops behind the only frame stored.
Emit ==
    /\ draining
    /\ rptr' = Inc(rptr)
    /\ IF fifo[rptr].last /\ frameCnt = 1
         THEN draining' = FALSE /\ gap' = Gap
         ELSE UNCHANGED <<draining, gap>>
    /\ low' = 0

\* Fault: one frame alone is not worth starting for.
Hold_WaitsForTwo ==
    /\ ~draining
    /\ gap' = IF gap > 0 THEN gap - 1 ELSE 0
    /\ draining' = (frameCnt > 1 /\ gap = 0)
    /\ low' = IF low < Gap THEN low + 1 ELSE low
    /\ UNCHANGED rptr

\* The reader counts the gap down and starts when a frame is complete.
Hold ==
    /\ ~draining
    /\ gap' = IF gap > 0 THEN gap - 1 ELSE 0
    /\ draining' = (frameCnt > 0 /\ gap = 0)
    /\ low' = IF low < Gap THEN low + 1 ELSE low
    /\ UNCHANGED rptr

\* Faults of the counter: an end pushed in the cycle another one leaves is counted
\* twice; an end pushed while the reader is at work is forgotten.
FrameCount_NoMerge(in) ==
    frameCnt' = CASE PushLast(in) -> Inc(frameCnt)
                  [] ~PushLast(in) /\ EmitLast -> Dec(frameCnt)
                  [] OTHER -> frameCnt
FrameCount_Forgets(in) ==
    frameCnt' = CASE PushLast(in) /\ ~draining -> Inc(frameCnt)
                  [] ~PushLast(in) /\ EmitLast -> Dec(frameCnt)
                  [] OTHER -> frameCnt
\* +1 on pushing, -1 on emitting the end of a frame, 0 on both at once.
FrameCount(in) ==
    frameCnt' = CASE PushLast(in) /\ ~EmitLast -> Inc(frameCnt)
                  [] ~PushLast(in) /\ EmitLast -> Dec(frameCnt)
                  [] OTHER -> frameCnt

\* Fault: the generator stops one byte late.
DemoPort_Late(tick) ==
    IF tick /\ ~draining /\ ~demoSending
      THEN demoSending' = TRUE /\ demoIdx' = 0
      ELSE IF demoSending
        THEN demoSending' = (demoIdx # DemoLen) /\ demoIdx' = demoIdx + 1
        ELSE UNCHANGED <<demoSending, demoIdx>>

\* The demo generator: `tick` is its one-second timer.
DemoPort(tick) ==
    IF tick /\ ~draining /\ ~demoSending
      THEN demoSending' = TRUE /\ demoIdx' = 0
      ELSE IF demoSending
        THEN /\ demoSending' = (demoIdx # DemoLen - 1)
             /\ demoIdx' = demoIdx + 1
        ELSE UNCHANGED <<demoSending, demoIdx>>

Clock(in, tick) ==
    /\ WritePort(in)
    /\ Emit \/ Hold
    /\ FrameCount(in)
    /\ DemoPort(tick)
    /\ ipEnable' = TRUE

\* reset_n: asynchronous, clears the registers and the IP, not the ring.
Reset ==
    /\ wptr' = 0 /\ rptr' = 0 /\ frameCnt' = 0
    /\ draining' = FALSE /\ gap' = Gap
    /\ ipEnable' = FALSE
    /\ demoSending' = FALSE /\ demoIdx' = 0
    /\ curLen' = 0 /\ low' = 0
    /\ UNCHANGED fifo

Tick == \E in \in Offers, tick \in BOOLEAN : Clock(in, tick)
Next == Tick \/ Reset

Spec == Init /\ [][Next]_vars

\* The clock is free running.
FairSpec == Spec /\ WF_vars(Tick)
-------------------------------------------------------------------------------
(***************************************************************************)
(* Properties.                                                             *)
(***************************************************************************)

\* The registers stay in their widths and the ring holds words.
TypeOK ==
    /\ fifo \in [Slots -> Word]
    /\ wptr \in Slots /\ rptr \in Slots /\ frameCnt \in Slots
    /\ draining \in BOOLEAN /\ ipEnable \in BOOLEAN /\ demoSending \in BOOLEAN
    /\ gap \in 0 .. Gap /\ low \in 0 .. Gap
    /\ demoIdx \in 0 .. DemoLen
    /\ curLen \in 0 .. MaxFrame - 1

\* tx_frame_cnt is the number of frame ends stored in the ring, although pushing
\* and emitting an end may fall into the same cycle and the counter has no more
\* bits than the pointers.
CountIsFrames == frameCnt = Cardinality(LastSlots)

\* A bridge that is full holds a complete frame, so it can always drain: the
\* gate on net_tx_ready never leaves the writer and the reader waiting for
\* each other.
NoStall == Occ >= Threshold => frameCnt > 0

\* Whenever TXEN rises it has been low for the inter-frame gap, also after a
\* reset and when the writer closes a frame in the cycle the reader stops.
GapBeforeStart == [][~draining /\ draining' => low >= Gap]_vars

\* A complete frame is on its way to the wire sooner or later.
FrameSent == (frameCnt > 0) ~> (draining \/ frameCnt = 0)

\* The ring, the pointers and the counter implement a queue of words that sends
\* whole frames, in order, word after word.
Slot(r, i) == IF r + i - 1 < Depth THEN r + i - 1 ELSE r + i - 1 - Depth
Contents == [i \in 1 .. Occ |-> fifo[Slot(rptr, i)]]
Queue    == INSTANCE FrameQueue
                WITH queue <- Contents, sending <- draining,
                     Capacity <- Threshold
ImplementsFrameQueue == Queue!Spec

\* wrapper_1g.v:30-33 and 311: behind the last byte of a frame "TXEN drops for a
\* proper inter-frame gap".
TxenDropsBehindFrame == [][EmitLast => ~draining']_vars
===============================================================================
