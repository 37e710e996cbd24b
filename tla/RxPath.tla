-------------------------------- MODULE RxPath --------------------------------
(***************************************************************************)
(* The receive path: the bytes of the wire enter the RX ring of            *)
(* wrapper_1g.v, a pass of udp_echo.cpp reads one of them through          *)
(* mac_rx_process (layer_mac.cpp), which filters by address, skips VLAN    *)
(* tags and pushes the payload, word by word, into frame_fifo; the pass    *)
(* that reads the last byte stages the words into frame_buf for the        *)
(* layers above.                                                           *)
(*                                                                         *)
(* Wire and passes run at their own pace.  Above the threshold the ring    *)
(* drops bytes, the one with the end mark among them.  A pass that finds   *)
(* frame_fifo full cannot finish its write; as nobody else empties the     *)
(* FIFO, it never will.                                                    *)
(*                                                                         *)
(* A byte carries its value, the end mark and, for the properties only,    *)
(* the number of its frame and its place in it.  The checksum is part of   *)
(* the payload: mac_rx_process neither checks nor removes it.              *)
(***************************************************************************)
EXTENDS Naturals, Sequences, FiniteSets

CONSTANTS Frames,      \* frames the wire may carry: [dst, tags, payload]
          MaxFrames,   \* how many of them
          Threshold,   \* occupancy from which the ring drops (3900)
          Preamble,    \* bytes of preamble and start delimiter (8)
          Addr,        \* bytes of an address (6)
          CntMod,      \* range of byte_cnt (256)
          Word,        \* bytes of a word (4)
          FifoDepth,   \* words of frame_fifo (512)
          BufWords,    \* FRAME_BUF_WORDS (400)
          MaxDrops,    \* bytes the ring drops, in the model
          MaxResets    \* resets, in the model

Values == {"55", "D5", "us", "them", "tpid", "tci", "ip", "x"}

ASSUME RxAssumption ==
    /\ \A f \in Frames : /\ f.dst \in {"us", "them"} /\ f.tags \in Nat
                         /\ f.payload \in Seq(Values) /\ f.payload # <<>>
    /\ MaxFrames \in Nat /\ Threshold \in Nat /\ MaxDrops \in Nat /\ MaxResets \in Nat
    /\ Preamble \in Nat \ {0} /\ Addr \in Nat \ {0} /\ Word \in Nat \ {0}
    /\ FifoDepth \in Nat \ {0} /\ BufWords \in Nat
    /\ CntMod \in Nat /\ CntMod > Preamble /\ CntMod > 2 * Addr + 2

VARIABLES sent,      \* frames begun on the wire
          at,        \* how many bytes of the last of them have passed
          ring,      \* rx_fifo between rx_rptr and rx_wptr
          mac,       \* the static variables of mac_rx_process
          fifo,      \* frame_fifo
          drops, resets,    \* bytes dropped, resets
          clean,     \* history: no byte of the current frame was lost so far
          whole,     \* history: numbers of the frames stored as they were sent
          handed,    \* history: how many frames the layers were handed
          delivered  \* history: numbers of those handed on as they were sent

vars == <<sent, at, ring, mac, fifo, drops, resets, clean, whole, handed, delivered>>

-------------------------------------------------------------------------------
(***************************************************************************)
(* The wire.                                                               *)
(***************************************************************************)
Repeat(v, n) == [i \in 1 .. n |-> v]
Tag          == <<"tpid", "tpid", "tci", "tci">>

\* The bytes of a frame in front of its payload, and all of them.
Front(f) == Repeat("55", Preamble - 1) \o <<"D5">>
            \o Repeat(f.dst, Addr) \o Repeat("them", Addr)
            \o [i \in 1 .. 4 * f.tags |-> Tag[((i - 1) % 4) + 1]]
            \o <<"ip", "ip">>
OnWire == [f \in Frames |-> Front(f) \o f.payload]

\* The i-th byte of frame n.
Byte(n, i) == [data |-> OnWire[sent[n]][i], last |-> i = Len(OnWire[sent[n]]),
               frame |-> n, nth |-> i]

\* A word that is not full is filled up with zeros.
Zero == [data |-> "x", last |-> FALSE, frame |-> 0, nth |-> 0]
Filled(w) == w \o Repeat(Zero, Word - Len(w))

\* What the layers are to get of frame n: the words of its payload, as far as
\* frame_buf holds them.
Due(n) ==
    LET front == Len(Front(sent[n]))
        len   == Len(sent[n].payload)
        count == (len + Word - 1) \div Word
    IN  [k \in 1 .. (IF count < BufWords THEN count ELSE BufWords) |->
           [i \in 1 .. Word |-> IF (k - 1) * Word + i <= len
                                  THEN Byte(n, front + (k - 1) * Word + i) ELSE Zero]]

ForUs(n) == sent[n].dst = "us"

-------------------------------------------------------------------------------
(***************************************************************************)
(* mac_rx_process: m is the state before the byte b, the result the state  *)
(* after it.  `out` is the word it writes, if any.                         *)
(***************************************************************************)
Idle == [state |-> "idle", cnt |-> 0, dst |-> <<>>, eth |-> <<>>, skip |-> 0,
         word |-> <<>>, nwords |-> 0]

Inc(n) == (n + 1) % CntMod

\* The last n of the bytes shifted into an accumulator.
Shift(acc, v, n) == LET a == Append(acc, v) IN SubSeq(a, IF Len(a) > n THEN Len(a) - n + 1 ELSE 1, Len(a))

\* MAC_RX_IDLE resets everything and looks for a preamble.
InIdle(m, b) == IF b.data = "55" THEN [Idle EXCEPT !.state = "preamble", !.cnt = 1] ELSE Idle

\* Fault: the delimiter is looked for at its usual place only.
InPreamble_Exact(m, b) ==
    LET cnt == Inc(m.cnt)
    IN  CASE b.data = "D5" /\ cnt = Preamble -> [m EXCEPT !.state = "header", !.cnt = 0]
          [] b.data # "55" /\ cnt < Preamble - 1 -> [m EXCEPT !.state = "idle", !.cnt = cnt]
          [] OTHER -> [m EXCEPT !.cnt = cnt]

\* MAC_RX_PREAMBLE: the delimiter may come late; behind the seventh byte only it
\* ends the state.
InPreamble(m, b) ==
    LET cnt == Inc(m.cnt)
    IN  CASE b.data = "D5" /\ cnt >= Preamble -> [m EXCEPT !.state = "header", !.cnt = 0]
          [] b.data # "55" /\ cnt < Preamble - 1 -> [m EXCEPT !.state = "idle", !.cnt = cnt]
          [] OTHER -> [m EXCEPT !.cnt = cnt]

\* Fault: the address is not looked at.
InHeader_TakesAll(m, b) ==
    CASE m.cnt < 2 * Addr -> [m EXCEPT !.cnt = Inc(@)]
      [] m.cnt = 2 * Addr -> [m EXCEPT !.eth = <<b.data>>, !.cnt = Inc(@)]
      [] OTHER ->
           LET type == Append(m.eth, b.data)
           IN  IF type = <<"tpid", "tpid">>
                 THEN [m EXCEPT !.state = "vlan", !.cnt = 0, !.skip = 2, !.eth = type]
                 ELSE [m EXCEPT !.state = "payload", !.cnt = 0, !.eth = type]

\* MAC_RX_HEADER: behind the type the frame is taken or left; a tag is skipped
\* first.  (byte_cnt is not read outside preamble and header.)
InHeader(m, b) ==
    CASE m.cnt < Addr -> [m EXCEPT !.dst = Shift(@, b.data, Addr), !.cnt = Inc(@)]
      [] m.cnt >= Addr /\ m.cnt < 2 * Addr -> [m EXCEPT !.cnt = Inc(@)]
      [] m.cnt = 2 * Addr -> [m EXCEPT !.eth = <<b.data>>, !.cnt = Inc(@)]
      [] OTHER ->
           LET type == Append(m.eth, b.data)
           IN  IF type = <<"tpid", "tpid">>
                 THEN [m EXCEPT !.state = "vlan", !.cnt = 0, !.skip = 2, !.eth = type]
                 ELSE [m EXCEPT !.state = IF m.dst = Repeat("us", Addr) THEN "payload" ELSE "idle",
                                !.cnt = 0, !.eth = type]

\* Fault: the type is read on from where the tag was found.
InVlan_KeepsCount(m, b) ==
    IF m.skip > 1 THEN [m EXCEPT !.skip = @ - 1]
    ELSE [m EXCEPT !.skip = 0, !.state = "header", !.eth = <<>>]

\* MAC_RX_VLAN: skips the tag, then reads a type again.
InVlan(m, b) ==
    IF m.skip > 1 THEN [m EXCEPT !.skip = @ - 1]
    ELSE [m EXCEPT !.skip = 0, !.state = "header", !.cnt = 2 * Addr, !.eth = <<>>]

\* MAC_RX_PAYLOAD: a word is written when it is full or the frame ends.
Writes(m, b) == m.state = "payload" /\ (Len(m.word) + 1 = Word \/ b.last)
InPayload(m, b) ==
    IF Writes(m, b)
      THEN [m EXCEPT !.word = <<>>, !.nwords = @ + 1,
                     !.state = IF b.last THEN "idle" ELSE @]
      ELSE [m EXCEPT !.word = Append(@, b)]

MacRx(m, b) ==
    CASE m.state = "idle"     -> InIdle(m, b)
      [] m.state = "preamble" -> InPreamble(m, b)
      [] m.state = "header"   -> InHeader(m, b)
      [] m.state = "vlan"     -> InVlan(m, b)
      [] m.state = "payload"  -> InPayload(m, b)

Ends(m, b) == m.state = "payload" /\ b.last

-------------------------------------------------------------------------------
Init ==
    /\ sent = <<>> /\ at = 0
    /\ ring = <<>> /\ mac = Idle /\ fifo = <<>>
    /\ drops = 0 /\ resets = 0
    /\ clean = TRUE /\ whole = {} /\ handed = 0 /\ delivered = {}

Quiet == IF sent = <<>> THEN TRUE ELSE at = Len(OnWire[sent[Len(sent)]])

\* A frame begins on the wire.
Begin(f) ==
    /\ Quiet /\ Len(sent) < MaxFrames
    /\ sent' = Append(sent, f) /\ at' = 0 /\ clean' = TRUE
    /\ UNCHANGED <<ring, mac, fifo, drops, resets, whole, handed, delivered>>

\* Fault: the gate of the ring is one slot too high.
Push_OneMore(b) ==
    IF Len(ring) <= Threshold THEN ring' = Append(ring, b) /\ UNCHANGED drops
    ELSE drops < MaxDrops /\ drops' = drops + 1 /\ UNCHANGED ring

\* rx_push: a ring above the threshold drops the byte.
Push(b) ==
    IF Len(ring) < Threshold THEN ring' = Append(ring, b) /\ UNCHANGED drops
    ELSE drops < MaxDrops /\ drops' = drops + 1 /\ UNCHANGED ring

\* A cycle in which the wire carries a byte.
Receive ==
    /\ ~Quiet
    /\ LET n == Len(sent)
           b == Byte(n, at + 1)
       IN  /\ Push(b)
           /\ clean' = (clean /\ drops' = drops)
           /\ whole' = IF b.last /\ clean' THEN whole \cup {n} ELSE whole
    /\ at' = at + 1
    /\ UNCHANGED <<sent, mac, fifo, resets, handed, delivered>>

\* Fault: the words that frame_buf cannot hold stay in the FIFO.
Stage_LeavesRest(m, valid, words) ==
    IF ~valid THEN fifo' = words /\ UNCHANGED <<handed, delivered>>
    ELSE LET n     == IF m.nwords < BufWords THEN m.nwords ELSE BufWords
             frame == SubSeq(words, 1, n)
         IN  /\ fifo' = SubSeq(words, n + 1, Len(words))
             /\ handed' = handed + 1
             /\ delivered' = delivered \cup
                    {k \in 1 .. Len(sent) : ForUs(k) /\ m.eth = <<"ip", "ip">> /\ frame = Due(k)}

\* The pass behind mac_rx_process: a complete frame is popped from the FIFO, all
\* its words, of which frame_buf takes the first ones.
Stage(m, valid, words) ==
    IF ~valid THEN fifo' = words /\ UNCHANGED <<handed, delivered>>
    ELSE LET n     == IF m.nwords < BufWords THEN m.nwords ELSE BufWords
             frame == SubSeq(words, 1, n)
         IN  /\ fifo' = SubSeq(words, m.nwords + 1, Len(words))
             /\ handed' = handed + 1
             /\ delivered' = delivered \cup
                    {k \in 1 .. Len(sent) : ForUs(k) /\ m.eth = <<"ip", "ip">> /\ frame = Due(k)}

\* The pass waits for room in the FIFO.
Blocked == ring # <<>> /\ Writes(mac, Head(ring)) /\ Len(fifo) = FifoDepth

\* A pass that reads a byte; without one it changes nothing here.
Pass ==
    /\ ring # <<>> /\ ~Blocked
    /\ LET b == Head(ring)
           words == IF Writes(mac, b) THEN Append(fifo, Filled(Append(mac.word, b))) ELSE fifo
       IN  /\ mac' = MacRx(mac, b)
           /\ Stage(mac', Ends(mac, b), words)
    /\ ring' = Tail(ring)
    /\ UNCHANGED <<sent, at, drops, resets, clean, whole>>

\* The reset button: the core is generated with a reset of all its state.  The wire
\* goes on.
Reset ==
    /\ resets < MaxResets /\ resets' = resets + 1
    /\ ring' = <<>> /\ mac' = Idle /\ fifo' = <<>>
    /\ clean' = (clean /\ at = 0)
    /\ whole' = {}
    /\ UNCHANGED <<sent, at, drops, handed, delivered>>

Next == (\E f \in Frames : Begin(f)) \/ Receive \/ Pass \/ Reset

Spec == Init /\ [][Next]_vars

\* Passes are free running.
FairSpec == Spec /\ WF_vars(Pass)

-------------------------------------------------------------------------------
(***************************************************************************)
(* Properties.                                                             *)
(***************************************************************************)

\* The ring keeps to its threshold, the FIFO to its depth, the counters to their
\* widths.
TypeOK ==
    /\ Len(ring) <= Threshold
    /\ mac.state \in {"idle", "preamble", "header", "vlan", "payload"}
    /\ mac.cnt \in 0 .. CntMod - 1 /\ mac.skip \in 0 .. 2 /\ Len(mac.word) < Word
    /\ Len(fifo) <= FifoDepth

\* udp_echo.cpp:141: "the FIFO stays aligned to frame boundaries": outside a payload
\* it is empty, and within one it holds the words of this frame only, although
\* frames are filtered, cut short, run into each other or exceed the staging
\* buffer.
FifoAligned == Len(fifo) = IF mac.state = "payload" THEN mac.nwords ELSE 0

Undisturbed == drops = 0 /\ resets = 0

\* As long as the ring has dropped nothing, the layers have been handed the payloads
\* of the frames addressed to the board, each as it was sent, each once and in the
\* order of the wire, whatever tags, lengths and other frames there were.
HandedInOrder ==
    Undisturbed =>
        /\ handed = Cardinality(delivered)
        /\ \E n \in 0 .. Len(sent) : delivered = {k \in 1 .. n : ForUs(k)}

\* As long as the ring has dropped nothing, each frame for the board is handed on.
NoneMissed ==
    \A n \in 1 .. MaxFrames :
        (Undisturbed /\ n \in whole /\ ForUs(n)) ~> (n \in delivered \/ ~Undisturbed)

\* No byte of a plain frame looks like a preamble.
Plain(n) == \A i \in 1 .. Len(sent[n].payload) : sent[n].payload[i] = "x"

\* After bytes were dropped, or a reset, the receiver is in step again with the
\* second frame that is stored whole at the latest: of two such frames in
\* succession the second is handed on as it was sent.
Resynchronises ==
    \A n \in 1 .. MaxFrames - 1 :
        (n \in whole /\ Plain(n) /\ n + 1 \in whole /\ ForUs(n + 1))
          ~> (n + 1 \in delivered \/ n + 1 \notin whole)

\* udp_echo.cpp:141-142: what is longer than frame_buf is drained.  The pass never
\* waits for itself.
NeverBlocked == ~Blocked
===============================================================================
