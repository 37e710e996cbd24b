------------------------------- MODULE TcpEcho --------------------------------
(***************************************************************************)
(* The TCP echo server of layer_tcp.cpp as the top-level pass of           *)
(* udp_echo.cpp drives it, between peers that open, use and close          *)
(* connections over a link that may lose frames.                           *)
(*                                                                         *)
(* One step of the board is one pass: the MAC transmitter moves on, a      *)
(* frame that has just been received is processed, and tcp_maintenance     *)
(* flushes one chunk of the echo queue when the pass began with an idle    *)
(* transmitter and nothing was built since.  The transmitter reads the     *)
(* segment from the shared region TX_UDP while later passes run; `mac` is  *)
(* the set of frames that may leave: the one it was started for and, once  *)
(* the region is rewritten under it, the new one or a mixture, which no    *)
(* peer accepts (Damaged).                                                 *)
(*                                                                         *)
(* The board's sequence numbers count from the initial one of the slot, a  *)
(* fixed function of the slot; a peer's count from its SYN.  A byte is     *)
(* named by the peer that sent it, that peer's connection and its place in *)
(* the stream.                                                             *)
(*                                                                         *)
(* Congestion window, round trip and retransmission timer are left out:    *)
(* nothing that is sent depends on them.  The window is never consulted,   *)
(* and the timers advance only when tcp_rx_process is called without a TCP *)
(* frame, which the pass never does.                                       *)
(***************************************************************************)
EXTENDS Naturals, Sequences, FiniteSets

CONSTANTS Peers,      \* (address, port) pairs that may connect
          NoPeer,     \* the identity of a slot never used
          Senders,    \* those that send data
          MaxConn,    \* MAX_TCP_CONN (3)
          SendBuf,    \* TCP_SEND_BUF = TCP_RX_PAYLOAD (576)
          Chunk,      \* TCP_TX_CHUNK (536)
          MaxSeg,     \* longest segment a peer sends
          Pipeline,   \* bytes a peer sends ahead of their echo in several segments
          MaxBytes,   \* bytes a peer sends on one connection
          Rounds,     \* connections a peer tries to open
          Losses,     \* frames the link may lose
          Retries     \* how often a peer repeats itself on one connection

ASSUME TcpAssumption ==
    /\ Senders \subseteq Peers /\ NoPeer \notin Peers
    /\ MaxConn \in Nat \ {0} /\ Chunk \in Nat \ {0} /\ SendBuf \in Nat
    /\ MaxSeg \in 1 .. SendBuf /\ Pipeline \in Nat
    /\ MaxBytes \in Nat /\ Rounds \in Nat /\ Losses \in Nat /\ Retries \in Nat

VARIABLES board,      \* the static variables of the board
          peer,       \* the state of each peer
          toBoard,    \* frames on their way from each peer
          toPeer,     \* frames on their way to each peer
          lost        \* frames lost so far

vars == <<board, peer, toBoard, toPeer, lost>>

Slots  == 0 .. MaxConn - 1
None   == MaxConn               \* tcp_find's "no slot" (-1)

States == {"FREE", "SYN_RCVD", "ESTABLISHED", "LAST_ACK"}

Byte(p, r, n) == [from |-> p, round |-> r, nth |-> n]
Stale         == [from |-> NoPeer, round |-> 0, nth |-> 0]

Segment(p, flags, seq, ack, data) ==
    [peer |-> p, flags |-> flags, seq |-> seq, ack |-> ack, data |-> data]
Damaged == Segment(NoPeer, {}, 0, 0, <<>>)

Init ==
    /\ board = [conn   |-> [c \in Slots |-> [state |-> "FREE", peer |-> NoPeer,
                                             seq |-> 0, peerSeq |-> 0]],
                bufs   |-> [c \in Slots |-> [i \in 1 .. SendBuf |-> Stale]],
                qLen   |-> 0, qOff |-> 0, qCid |-> 0,
                region |-> Damaged,
                txReq  |-> FALSE,
                mac    |-> {}]
    /\ peer = [p \in Peers |-> [state |-> "closed", round |-> 0, sent |-> 0,
                                got |-> <<>>, next |-> 0, tries |-> 0]]
    /\ toBoard = [p \in Peers |-> <<>>]
    /\ toPeer = [p \in Peers |-> <<>>]
    /\ lost = 0

-------------------------------------------------------------------------------
(***************************************************************************)
(* The board.  Each operator maps the static variables b to their values   *)
(* after the call.                                                         *)
(***************************************************************************)

\* Fault: a free slot in front of the peer's own is preferred.
Find_FreeFirst(b, p) ==
    LET ours == {c \in Slots : b.conn[c].state # "FREE" /\ b.conn[c].peer = p}
        free == {c \in Slots : b.conn[c].state = "FREE"}
        S    == IF free # {} THEN free ELSE ours
    IN  IF S = {} THEN None ELSE CHOOSE c \in S : \A d \in S : c <= d

\* tcp_find: the peer's slot, else the first free one.
Find(b, p) ==
    LET ours == {c \in Slots : b.conn[c].state # "FREE" /\ b.conn[c].peer = p}
        free == {c \in Slots : b.conn[c].state = "FREE"}
        S    == IF ours # {} THEN ours ELSE free
    IN  IF S = {} THEN None ELSE CHOOSE c \in S : \A d \in S : c <= d

\* Bytes of sequence space a segment takes.
Weight(flags, data) == Cardinality(flags \cap {"SYN", "FIN"}) + Len(data)

\* tcp_send: builds the segment in the shared region and posts the request,
\* whether or not the transmitter is reading the region.
Send(b, c, flags, data) ==
    LET seg == Segment(b.conn[c].peer, flags, b.conn[c].seq, b.conn[c].peerSeq, data)
    IN  [b EXCEPT !.conn[c].seq = @ + Weight(flags, data),
                  !.region = seg,
                  !.txReq = TRUE,
                  !.mac = IF @ = {} THEN {} ELSE @ \cup {seg, Damaged}]

\* Fault: an echo that finds the queue in use is not queued.
Queue_OnlyWhenEmpty(b, c, data) ==
    IF data = <<>> \/ b.qLen # b.qOff THEN b
    ELSE [b EXCEPT !.bufs[c] = [i \in 1 .. SendBuf |->
                                  IF i <= Len(data) THEN data[i] ELSE @[i]],
                   !.qLen = Len(data), !.qOff = 0, !.qCid = c]

\* tcp_queue: one queue for all connections.  It belongs to the connection that
\* filled it first; the bytes go to the buffer of the connection they came on.
\* What has no room is dropped.
Queue(b, c, data) ==
    LET fresh == b.qLen = b.qOff
        len   == IF fresh THEN 0 ELSE b.qLen
        room  == IF SendBuf - len < Len(data) THEN SendBuf - len ELSE Len(data)
    IN  IF data = <<>> THEN b
        ELSE [b EXCEPT !.bufs[c] = [i \in 1 .. SendBuf |->
                                      IF i \in len + 1 .. len + room THEN data[i - len] ELSE @[i]],
                       !.qLen = len + room,
                       !.qOff = IF fresh THEN 0 ELSE @,
                       !.qCid = IF fresh THEN c ELSE @]

\* Faults of the flush: it starts at the beginning of the buffer again; it forgets
\* to rewind the offset; it waits until a whole chunk has come together.
Maintain_FromStart(b) ==
    LET rest  == b.qLen - b.qOff
        chunk == IF rest > Chunk THEN Chunk ELSE rest
        sent  == Send(b, b.qCid, {"ACK"}, SubSeq(b.bufs[b.qCid], 1, chunk))
    IN  IF rest = 0 THEN b
        ELSE IF chunk = rest THEN [sent EXCEPT !.qLen = 0, !.qOff = 0]
        ELSE [sent EXCEPT !.qOff = @ + chunk]
Maintain_KeepsOffset(b) ==
    LET rest  == b.qLen - b.qOff
        chunk == IF rest > Chunk THEN Chunk ELSE rest
        sent  == Send(b, b.qCid, {"ACK"}, SubSeq(b.bufs[b.qCid], b.qOff + 1, b.qOff + chunk))
    IN  IF rest = 0 THEN b
        ELSE IF chunk = rest THEN [sent EXCEPT !.qLen = 0]
        ELSE [sent EXCEPT !.qOff = @ + chunk]
Maintain_WholeChunks(b) ==
    LET rest  == b.qLen - b.qOff
        sent  == Send(b, b.qCid, {"ACK"}, SubSeq(b.bufs[b.qCid], b.qOff + 1, b.qOff + Chunk))
    IN  IF rest < Chunk THEN b
        ELSE IF rest = Chunk THEN [sent EXCEPT !.qLen = 0, !.qOff = 0]
        ELSE [sent EXCEPT !.qOff = @ + Chunk]

\* tcp_maintenance: one chunk of the queue.
Maintain(b) ==
    LET rest  == b.qLen - b.qOff
        chunk == IF rest > Chunk THEN Chunk ELSE rest
        sent  == Send(b, b.qCid, {"ACK"}, SubSeq(b.bufs[b.qCid], b.qOff + 1, b.qOff + chunk))
    IN  IF rest = 0 THEN b
        ELSE IF chunk = rest THEN [sent EXCEPT !.qLen = 0, !.qOff = 0]
        ELSE [sent EXCEPT !.qOff = @ + chunk]

\* A free slot takes a SYN: T_LISTEN is entered and left in the same call.
Accept(b, c, s) ==
    Send([b EXCEPT !.conn[c] = [state |-> "SYN_RCVD", peer |-> s.peer,
                                seq |-> 0, peerSeq |-> s.seq + 1]],
         c, {"SYN", "ACK"}, <<>>)

\* Data and FIN of an established connection: the acknowledgement number is taken
\* from the segment, whatever was expected; an echo is queued, a FIN is answered
\* at once, ahead of the queue.
Established(b, c, s) ==
    LET fin    == "FIN" \in s.flags
        queued == Queue([b EXCEPT !.conn[c].peerSeq = s.seq + Len(s.data) + (IF fin THEN 1 ELSE 0)],
                        c, s.data)
    IN  IF fin THEN [Send(queued, c, {"FIN", "ACK"}, <<>>) EXCEPT !.conn[c].state = "LAST_ACK"]
        ELSE queued

\* T_SYN_RCVD waits for the acknowledgement of the SYN; what else the segment
\* carries is not looked at.
SynReceived(b, c, s) ==
    IF "ACK" \in s.flags /\ s.ack = b.conn[c].seq
      THEN [b EXCEPT !.conn[c].state = "ESTABLISHED"] ELSE b

\* Fault: the slot of a closed connection is not given back.
LastAck_KeepsSlot(b, c, s) == b

\* T_LAST_ACK ends with any acknowledgement.
LastAck(b, c, s) ==
    IF "ACK" \in s.flags THEN [b EXCEPT !.conn[c].state = "FREE"] ELSE b

\* tcp_rx_process for a segment to the echo port.
Receive(b, s) ==
    LET c  == Find(b, s.peer)
        st == b.conn[c].state
    IN  CASE c = None -> b
          [] c # None /\ st = "FREE" ->
               IF "SYN" \in s.flags /\ "ACK" \notin s.flags THEN Accept(b, c, s) ELSE b
          [] c # None /\ st = "SYN_RCVD"    -> SynReceived(b, c, s)
          [] c # None /\ st = "ESTABLISHED" -> Established(b, c, s)
          [] c # None /\ st = "LAST_ACK"    -> LastAck(b, c, s)

Busy(b) == b.mac # {} \/ b.txReq

\* The transmitter's part of a pass: an idle one takes a request; a busy one goes
\* on, or has `done` sending.
Transmit(b, done) ==
    CASE b.mac = {} /\ b.txReq  -> [b EXCEPT !.mac = {b.region}, !.txReq = FALSE]
      [] b.mac # {} /\ done     -> [b EXCEPT !.mac = {}]
      [] OTHER                  -> b

\* Fault: the flush does not look at the transmitter.
Flush_Ungated(before, b) == IF b.txReq THEN b ELSE Maintain(b)

\* The gate of the top level: mac_tx_busy as the pass began, tx_req as it is now.
Flush(before, b) == IF b.txReq \/ Busy(before) THEN b ELSE Maintain(b)

\* A frame that leaves reaches the peer its segment is for.
Leaves(f) == IF f = Damaged THEN UNCHANGED toPeer
             ELSE toPeer' = [toPeer EXCEPT ![f.peer] = Append(@, f)]

\* A pass without a received frame in which the transmitter does not finish;
\* one that changes nothing is a stutter.
QuietPass ==
    /\ board' = Flush(board, Transmit(board, FALSE))
    /\ UNCHANGED <<peer, toBoard, toPeer, lost>>

\* A pass in which the transmitter finishes a frame.
SentPass ==
    /\ board.mac # {}
    /\ \E f \in board.mac : Leaves(f)
    /\ board' = Flush(board, Transmit(board, TRUE))
    /\ UNCHANGED <<peer, toBoard, lost>>

\* A pass in which a frame of p has been received.
RxPass(p) ==
    /\ toBoard[p] # <<>>
    /\ board' = Flush(board, Receive(Transmit(board, FALSE), Head(toBoard[p])))
    /\ toBoard' = [toBoard EXCEPT ![p] = Tail(@)]
    /\ UNCHANGED <<peer, toPeer, lost>>

-------------------------------------------------------------------------------
(***************************************************************************)
(* The peers and the link.                                                 *)
(***************************************************************************)

\* Peer p has changed to `st` and sends one segment.
Says(p, st, flags, seq, data) ==
    /\ peer' = [peer EXCEPT ![p] = st]
    /\ toBoard' = [toBoard EXCEPT ![p] = Append(@, Segment(p, flags, seq, st.next, data))]

Waiting(p) == peer[p].sent > Len(peer[p].got)

\* Nothing to or from p is on its way: a peer's timers are longer than any delay
\* on the link and in the board, and it uses a port again only after its frames
\* have died out.
Silence(p) ==
    /\ toBoard[p] = <<>> /\ toPeer[p] = <<>>
    /\ \A f \in board.mac : f.peer # p
    /\ board.txReq => board.region.peer # p
    /\ board.qLen > board.qOff => board.conn[board.qCid].peer # p

Connect(p) ==
    /\ peer[p].state = "closed" /\ peer[p].round < Rounds
    /\ Silence(p)
    /\ Says(p, [state |-> "syn", round |-> peer[p].round + 1, sent |-> 0,
                got |-> <<>>, next |-> 0, tries |-> 0],
            {"SYN"}, 0, <<>>)
    /\ UNCHANGED <<board, toPeer, lost>>

\* The bytes m+1 .. n of p's stream.
Stream(p, m, n) == [i \in 1 .. n - m |-> Byte(p, peer[p].round, m + i)]

\* The next bytes: all before them have come back, or few are outstanding.
SendData(p, n) ==
    /\ p \in Senders
    /\ peer[p].state = "open" /\ peer[p].sent + n <= MaxBytes
    /\ ~Waiting(p) \/ peer[p].sent + n - Len(peer[p].got) <= Pipeline
    /\ Says(p, [peer[p] EXCEPT !.sent = @ + n], {"ACK"}, peer[p].sent + 1,
            Stream(p, peer[p].sent, peer[p].sent + n))
    /\ UNCHANGED <<board, toPeer, lost>>

Close(p) ==
    /\ peer[p].state = "open" /\ ~Waiting(p)
    /\ Says(p, [peer[p] EXCEPT !.state = "fin"], {"FIN", "ACK"}, peer[p].sent + 1, <<>>)
    /\ UNCHANGED <<board, toPeer, lost>>

\* The peer goes away without a word.
Vanish(p) ==
    /\ Losses > 0
    /\ peer[p].state \in {"open", "fin"}
    /\ peer' = [peer EXCEPT ![p].state = "closed"]
    /\ UNCHANGED <<board, toBoard, toPeer, lost>>

\* Peer p takes the frame f in: what it does not expect it ignores.
TakeIn(p, f) ==
    CASE peer[p].state = "syn" /\ f.flags = {"SYN", "ACK"} /\ f.ack = 1 ->
           Says(p, [peer[p] EXCEPT !.state = "open", !.next = f.seq + 1], {"ACK"}, 1, <<>>)
      [] peer[p].state = "open" /\ f.data # <<>> /\ f.seq = peer[p].next ->
           Says(p, [peer[p] EXCEPT !.got = @ \o f.data, !.next = @ + Len(f.data)],
                {"ACK"}, peer[p].sent + 1, <<>>)
      [] peer[p].state = "fin" /\ "FIN" \in f.flags /\ f.seq = peer[p].next ->
           Says(p, [peer[p] EXCEPT !.state = "closed", !.next = f.seq + 1],
                {"ACK"}, peer[p].sent + 2, <<>>)
      [] OTHER -> UNCHANGED <<peer, toBoard>>

Deliver(p) ==
    /\ toPeer[p] # <<>>
    /\ TakeIn(p, Head(toPeer[p]))
    /\ toPeer' = [toPeer EXCEPT ![p] = Tail(@)]
    /\ UNCHANGED <<board, lost>>

Lose(p) ==
    /\ lost < Losses
    /\ lost' = lost + 1
    /\ \/ toBoard[p] # <<>> /\ toBoard' = [toBoard EXCEPT ![p] = Tail(@)] /\ UNCHANGED toPeer
       \/ toPeer[p] # <<>> /\ toPeer' = [toPeer EXCEPT ![p] = Tail(@)] /\ UNCHANGED toBoard
    /\ UNCHANGED <<board, peer>>

\* The peer's timer: what is unanswered is sent again.
Retry(p) ==
    /\ Silence(p) /\ peer[p].tries < Retries
    /\ LET again == [peer[p] EXCEPT !.tries = @ + 1]
           m     == Len(peer[p].got)
       IN  \/ peer[p].state = "syn" /\ Says(p, again, {"SYN"}, 0, <<>>)
           \/ /\ peer[p].state = "open" /\ Waiting(p)
              /\ Says(p, again, {"ACK"}, m + 1, Stream(p, m, peer[p].sent))
           \/ peer[p].state = "fin" /\ Says(p, again, {"FIN", "ACK"}, peer[p].sent + 1, <<>>)
    /\ UNCHANGED <<board, toPeer, lost>>

PeerStep(p) ==
    \/ Connect(p) \/ Close(p) \/ Vanish(p) \/ Deliver(p) \/ Lose(p) \/ Retry(p)
    \/ \E n \in 1 .. MaxSeg : SendData(p, n)

Next ==
    \/ QuietPass
    \/ SentPass
    \/ \E p \in Peers : RxPass(p) \/ PeerStep(p)

Spec == Init /\ [][Next]_vars

\* The board's passes are clocked, a started frame takes a bounded number of them
\* and the MAC offers every received frame; the link delivers.
Fairness ==
    /\ WF_vars(QuietPass)
    /\ WF_vars(SentPass)
    /\ \A p \in Peers : WF_vars(RxPass(p)) /\ WF_vars(Deliver(p))

FairSpec == Spec /\ Fairness

-------------------------------------------------------------------------------
(***************************************************************************)
(* Properties.                                                             *)
(***************************************************************************)

\* Slots, queue indices and the request have their types; the queue indices never
\* leave the buffer.
TypeOK ==
    /\ board.conn \in [Slots -> [state : States, peer : Peers \cup {NoPeer},
                                 seq : Nat, peerSeq : Nat]]
    /\ board.qLen \in 0 .. SendBuf /\ board.qOff \in 0 .. board.qLen
    /\ board.qCid \in Slots
    /\ board.txReq \in BOOLEAN
    /\ \A c \in Slots : DOMAIN board.bufs[c] = 1 .. SendBuf

\* A peer has at most one connection, although retransmitted SYNs arrive when
\* other slots have become free in the meantime.
OneSlotPerPeer ==
    \A c, d \in Slots :
        /\ board.conn[c].state # "FREE" /\ board.conn[d].state # "FREE"
        /\ board.conn[c].peer = board.conn[d].peer
        => c = d

\* What a peer has received is a prefix of what it has sent on this connection:
\* no byte is lost, repeated, out of place or another connection's.
EchoIsPrefix ==
    \A p \in Peers :
        /\ Len(peer[p].got) <= peer[p].sent
        /\ peer[p].got = Stream(p, 0, Len(peer[p].got))

\* Bytes of connection c that wait in the queue.
Queued(c) == IF board.qCid = c THEN board.qLen - board.qOff ELSE 0

\* The board acknowledges only what it has echoed or holds in the queue, where it waits
\* byte for byte behind what has been echoed: a byte acknowledged and then dropped is
\* never sent again.
AckedIsKept ==
    \A c \in Slots :
        LET conn == board.conn[c]
        IN  conn.state = "ESTABLISHED" =>
              /\ conn.peerSeq <= conn.seq + Queued(c)
              /\ \A i \in 1 .. Queued(c) :
                   board.bufs[c][board.qOff + i] = Byte(conn.peer, peer[conn.peer].round, conn.seq - 1 + i)

\* The region is not rewritten under the transmitter by an echo: a frame of echoed
\* bytes in it is one whose sending no other echo disturbs.
EchoesDoNotCollide ==
    Cardinality({f \in board.mac : f.data # <<>>}) <= 1

\* On a link without loss that one peer uses, every byte sent is echoed and every
\* connection that is opened or closed completes.
EchoArrives == \A p \in Peers : Waiting(p) ~> ~Waiting(p)
OpenOrCloseCompletes ==
    \A p \in Peers : peer[p].state \in {"syn", "fin"} ~> peer[p].state \in {"open", "closed"}
===============================================================================
