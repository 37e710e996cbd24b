----------------------------- MODULE TcpEcho_proof -----------------------------
(***************************************************************************)
(* Proofs about the TCP echo server, for any number of peers, slots,       *)
(* losses and retries: its slots and its transmit region, its types, the   *)
(* echo itself for one sender that waits for it, and what is acknowledged  *)
(* to a peer that is alone and sends ahead of its echo.                    *)
(*                                                                         *)
(* A pass is followed part by part: the transmitter, the segment that was  *)
(* received, the flush of the queue.  For each part there is a lemma that  *)
(* says what it does to the static variables b, and one that says what it  *)
(* preserves.  In the same way a step of a peer is first brought to what   *)
(* it leaves the peer and its two links in (Moved, Spoke).                 *)
(***************************************************************************)
EXTENDS TcpEcho, FiniteSetTheorems, WellFoundedInduction, TLAPS

\* The static variables are a record of these fields, the slots records of theirs.
Shape(b) ==
    /\ b = [conn |-> b.conn, bufs |-> b.bufs, qLen |-> b.qLen, qOff |-> b.qOff,
            qCid |-> b.qCid, region |-> b.region, txReq |-> b.txReq, mac |-> b.mac]
    /\ b.conn = [c \in Slots |-> [state |-> b.conn[c].state, peer |-> b.conn[c].peer,
                                  seq |-> b.conn[c].seq, peerSeq |-> b.conn[c].peerSeq]]
    /\ b.qCid \in Slots

\* Every slot is in a state of the state machine; no two slots in use belong to
\* one peer.
Apart(b) ==
  /\ \A c \in Slots : b.conn[c].state \in States
  /\ \A c, d \in Slots :
        /\ b.conn[c].state # "FREE" /\ b.conn[d].state # "FREE"
        /\ b.conn[c].peer = b.conn[d].peer
        => c = d

\* At most one of the frames that may leave carries echoed bytes.
Single(b) == \A f, g \in b.mac : f.data # <<>> /\ g.data # <<>> => f = g

Good(b) == Shape(b) /\ Apart(b) /\ Single(b)

IInv == Good(board)

\* Slots of a and b have the same states and peers.
SameSlots(a, b) ==
    \A c \in Slots : b.conn[c].state = a.conn[c].state /\ b.conn[c].peer = a.conn[c].peer

-------------------------------------------------------------------------------
\* A nonempty set of naturals has a least element.
LEMMA LeastNatural ==
    ASSUME NEW S \in SUBSET Nat, S # {}
    PROVE  \E x \in S : \A y \in S : x <= y
<1> DEFINE LT == {ss \in Nat \X Nat : ss[1] < ss[2]}
<1>1. IsWellFoundedOn(LT, Nat)
  BY NatLessThanWellFounded DEF OpToRel
<1>2. PICK x \in S : \A y \in S : <<y, x>> \notin LT
  BY <1>1, WFMin
<1>3. \A y \in S : x <= y
  <2> SUFFICES ASSUME NEW y \in S, y < x PROVE FALSE
    OBVIOUS
  <2>1. <<y, x>> \in LT
    OBVIOUS
  <2> QED
    BY <1>2, <2>1
<1> QED
  BY <1>3

\* tcp_find returns the slot of the peer, else a free slot, else none; a free slot
\* only if the peer has none.
LEMMA FindFacts ==
    ASSUME NEW b, NEW p
    PROVE  \/ Find(b, p) = None
           \/ /\ Find(b, p) \in Slots
              /\ b.conn[Find(b, p)].state = "FREE" =>
                   \A c \in Slots : b.conn[c].state # "FREE" => b.conn[c].peer # p
              /\ b.conn[Find(b, p)].state # "FREE" => b.conn[Find(b, p)].peer = p
<1> DEFINE ours == {c \in Slots : b.conn[c].state # "FREE" /\ b.conn[c].peer = p}
           free == {c \in Slots : b.conn[c].state = "FREE"}
           S    == IF ours # {} THEN ours ELSE free
           least == CHOOSE c \in S : \A d \in S : c <= d
<1>1. Find(b, p) = IF S = {} THEN None ELSE least
  BY DEF Find
<1>2. CASE S = {}
  BY <1>1, <1>2
<1>3. CASE S # {}
  <2>1. S \in SUBSET Nat
    BY TcpAssumption DEF Slots
  <2>2. least \in S
    <3>1. \E x \in S : \A y \in S : x <= y
      BY <1>3, <2>1, LeastNatural
    <3> QED
      BY <3>1
  <2>3. Find(b, p) = least
    BY <1>1, <1>3
  <2>4. CASE ours # {}
    <3>1. least \in ours
      BY <2>2, <2>4
    <3>2. least \in Slots /\ b.conn[least].state # "FREE" /\ b.conn[least].peer = p
      BY <3>1
    <3> QED
      BY ONLY <2>3, <3>2
  <2>5. CASE ours = {}
    <3>1. least \in free
      BY <2>2, <2>5
    <3>2. least \in Slots /\ b.conn[least].state = "FREE"
      BY <3>1
    <3>3. \A c \in Slots : b.conn[c].state # "FREE" => b.conn[c].peer # p
      BY <2>5
    <3> QED
      BY ONLY <2>3, <3>2, <3>3
  <2> QED
    BY <2>4, <2>5
<1> QED
  BY <1>2, <1>3

\* tcp_send keeps states and peers.  It disturbs no frame of echoed bytes with
\* another one if it sends none, or if the transmitter is idle.
LEMMA SendFacts ==
    ASSUME NEW b, Shape(b), Single(b), NEW c \in Slots, NEW flags, NEW data,
           data = <<>> \/ b.mac = {}
    PROVE  /\ Shape(Send(b, c, flags, data))
           /\ SameSlots(b, Send(b, c, flags, data))
           /\ Single(Send(b, c, flags, data))
           /\ b.mac = {} => Send(b, c, flags, data).mac = {}
<1> DEFINE seg == Segment(b.conn[c].peer, flags, b.conn[c].seq, b.conn[c].peerSeq, data)
           new == Send(b, c, flags, data)
           mac2 == IF b.mac = {} THEN {} ELSE b.mac \cup {seg, Damaged}
           conn2 == [b.conn EXCEPT ![c].seq = @ + Weight(flags, data)]
<1>1. new = [conn |-> conn2, bufs |-> b.bufs, qLen |-> b.qLen, qOff |-> b.qOff,
             qCid |-> b.qCid, region |-> seg, txReq |-> TRUE, mac |-> mac2]
  <2>1. new = [b EXCEPT !.conn = conn2, !.region = seg, !.txReq = TRUE, !.mac = mac2]
    BY DEF Send
  <2>2. b = [conn |-> b.conn, bufs |-> b.bufs, qLen |-> b.qLen, qOff |-> b.qOff,
             qCid |-> b.qCid, region |-> b.region, txReq |-> b.txReq, mac |-> b.mac]
    BY DEF Shape
  <2> HIDE DEF new, conn2, seg, mac2
  <2> QED
    BY <2>1, <2>2
<1>2. Shape(new)
  <2>1. /\ b.qCid \in Slots
        /\ conn2 = [d \in Slots |-> [state |-> conn2[d].state, peer |-> conn2[d].peer,
                                    seq |-> conn2[d].seq, peerSeq |-> conn2[d].peerSeq]]
    BY DEF Shape
  <2> HIDE DEF new, conn2, seg, mac2
  <2> QED
    BY <1>1, <2>1 DEF Shape
<1>3. SameSlots(b, new)
  BY <1>1 DEF Shape, SameSlots
<1>4. Single(new)
  <2>1. seg.data = data /\ Damaged.data = <<>>
    BY DEF Segment, Damaged
  <2>2. new.mac = mac2
    BY <1>1
  <2>3. CASE b.mac = {}
    BY <2>2, <2>3 DEF Single
  <2>4. CASE data = <<>> /\ b.mac # {}
    <3>1. \A f \in mac2 : f.data # <<>> => f \in b.mac
      BY <2>1, <2>4
    <3> QED
      BY <2>2, <3>1 DEF Single
  <2> QED
    BY <2>3, <2>4
<1>5. b.mac = {} => new.mac = {}
  BY <1>1
<1> QED
  BY <1>2, <1>3, <1>4, <1>5

\* What keeps states and peers keeps them apart.
LEMMA SameSlotsApart ==
    ASSUME NEW a, NEW b, Apart(a), SameSlots(a, b)
    PROVE  Apart(b)
BY DEF Apart, SameSlots

\* tcp_queue changes neither slots nor transmitter.
LEMMA QueueFacts ==
    ASSUME NEW b, Shape(b), NEW c \in Slots, NEW data
    PROVE  /\ Shape(Queue(b, c, data))
           /\ SameSlots(b, Queue(b, c, data))
           /\ Queue(b, c, data).mac = b.mac
<1> DEFINE fresh == b.qLen = b.qOff
           len   == IF fresh THEN 0 ELSE b.qLen
           room  == IF SendBuf - len < Len(data) THEN SendBuf - len ELSE Len(data)
           buf2  == [i \in 1 .. SendBuf |->
                       IF i \in len + 1 .. len + room THEN data[i - len] ELSE b.bufs[c][i]]
           len2  == len + room
           off2  == IF fresh THEN 0 ELSE b.qOff
           cid2  == IF fresh THEN c ELSE b.qCid
           new   == Queue(b, c, data)
<1>1. CASE data = <<>>
  <2>1. new = b
    BY <1>1 DEF Queue
  <2> QED
    BY <2>1 DEF SameSlots
<1>2. CASE data # <<>>
  <2>1. new = [b EXCEPT !.bufs[c] = buf2, !.qLen = len2, !.qOff = off2, !.qCid = cid2]
    BY <1>2 DEF Queue
  <2>2. b = [conn |-> b.conn, bufs |-> b.bufs, qLen |-> b.qLen, qOff |-> b.qOff,
             qCid |-> b.qCid, region |-> b.region, txReq |-> b.txReq, mac |-> b.mac]
    BY DEF Shape
  <2>3. cid2 \in Slots
    BY DEF Shape
  <2> HIDE DEF new, buf2, len2, off2, cid2
  <2>4. new = [conn |-> b.conn, bufs |-> [b.bufs EXCEPT ![c] = buf2], qLen |-> len2,
               qOff |-> off2, qCid |-> cid2, region |-> b.region, txReq |-> b.txReq,
               mac |-> b.mac]
    BY <2>1, <2>2
  <2> QED
    BY <2>3, <2>4 DEF Shape, SameSlots, new
<1> QED
  BY <1>1, <1>2

\* The indices of the queue concern neither slots nor transmitter.
LEMMA CursorFacts ==
    ASSUME NEW b, Good(b), NEW n, NEW o
    PROVE  /\ Good([b EXCEPT !.qLen = n, !.qOff = o])
           /\ Good([b EXCEPT !.qOff = o])
<1> DEFINE r1 == [b EXCEPT !.qLen = n, !.qOff = o]
           r2 == [b EXCEPT !.qOff = o]
<1>1. b = [conn |-> b.conn, bufs |-> b.bufs, qLen |-> b.qLen, qOff |-> b.qOff,
           qCid |-> b.qCid, region |-> b.region, txReq |-> b.txReq, mac |-> b.mac]
  BY DEF Good, Shape
<1>2. r1 = [conn |-> b.conn, bufs |-> b.bufs, qLen |-> n, qOff |-> o,
            qCid |-> b.qCid, region |-> b.region, txReq |-> b.txReq, mac |-> b.mac]
  <2> DEFINE q == [b EXCEPT !.qLen = n]
  <2>1. q = [conn |-> b.conn, bufs |-> b.bufs, qLen |-> n, qOff |-> b.qOff,
             qCid |-> b.qCid, region |-> b.region, txReq |-> b.txReq, mac |-> b.mac]
    BY <1>1
  <2>2. r1 = [q EXCEPT !.qOff = o]
    OBVIOUS
  <2> HIDE DEF q, r1
  <2> QED
    BY <2>1, <2>2
<1>3. r2 = [conn |-> b.conn, bufs |-> b.bufs, qLen |-> b.qLen, qOff |-> o,
            qCid |-> b.qCid, region |-> b.region, txReq |-> b.txReq, mac |-> b.mac]
  BY <1>1
<1> HIDE DEF r1, r2
<1>4. Good(r1)
  <2>1. Shape(r1)
    BY <1>2 DEF Good, Shape
  <2>2. Apart(r1) /\ Single(r1)
    BY <1>2 DEF Good, Apart, Single
  <2> QED
    BY <2>1, <2>2 DEF Good
<1>5. Good(r2)
  <2>1. Shape(r2)
    BY <1>3 DEF Good, Shape
  <2>2. Apart(r2) /\ Single(r2)
    BY <1>3 DEF Good, Apart, Single
  <2> QED
    BY <2>1, <2>2 DEF Good
<1> QED
  BY <1>4, <1>5 DEF r1, r2

\* tcp_maintenance with an idle transmitter.
LEMMA MaintainFacts ==
    ASSUME NEW b, Good(b), b.mac = {}
    PROVE  Good(Maintain(b))
<1> DEFINE rest  == b.qLen - b.qOff
           chunk == IF rest > Chunk THEN Chunk ELSE rest
           data  == SubSeq(b.bufs[b.qCid], b.qOff + 1, b.qOff + chunk)
           sent  == Send(b, b.qCid, {"ACK"}, data)
           done  == [sent EXCEPT !.qLen = 0, !.qOff = 0]
           more  == [sent EXCEPT !.qOff = @ + chunk]
<1>1. Maintain(b) = IF rest = 0 THEN b ELSE IF chunk = rest THEN done ELSE more
  BY DEF Maintain
<1>2. Shape(sent) /\ SameSlots(b, sent) /\ Single(sent)
  <2> HIDE DEF data
  <2>1. b.qCid \in Slots /\ Shape(b) /\ Single(b)
    BY DEF Good, Shape
  <2> QED
    BY <2>1, SendFacts
<1> HIDE DEF sent, rest, chunk
<1>3. Good(sent)
  BY <1>2, SameSlotsApart DEF Good
<1>4. Good(done)
  BY <1>3, CursorFacts
<1>5. Good(more)
  <2> DEFINE off2 == sent.qOff + chunk
  <2>1. more = [sent EXCEPT !.qOff = off2]
    OBVIOUS
  <2> HIDE DEF off2, more
  <2> QED
    BY <1>3, <2>1, CursorFacts
<1> HIDE DEF done, more
<1> QED
  BY <1>1, <1>4, <1>5

\* A new connection gets its slot only when the peer has none.
LEMMA AcceptFacts ==
    ASSUME NEW b, Good(b), NEW c \in Slots, NEW s,
           \A d \in Slots : b.conn[d].state # "FREE" => b.conn[d].peer # s.peer
    PROVE  Good(Accept(b, c, s)) /\ (b.mac = {} => Accept(b, c, s).mac = {})
<1> DEFINE slot == [state |-> "SYN_RCVD", peer |-> s.peer, seq |-> 0, peerSeq |-> s.seq + 1]
           r    == [b EXCEPT !.conn[c] = slot]
<1>1. r = [conn |-> [b.conn EXCEPT ![c] = slot], bufs |-> b.bufs, qLen |-> b.qLen,
           qOff |-> b.qOff, qCid |-> b.qCid, region |-> b.region, txReq |-> b.txReq,
           mac |-> b.mac]
  <2>1. b = [conn |-> b.conn, bufs |-> b.bufs, qLen |-> b.qLen, qOff |-> b.qOff,
             qCid |-> b.qCid, region |-> b.region, txReq |-> b.txReq, mac |-> b.mac]
    BY DEF Good, Shape
  <2> HIDE DEF slot
  <2> QED
    BY <2>1
<1>2. Accept(b, c, s) = Send(r, c, {"SYN", "ACK"}, <<>>)
  BY DEF Accept
<1> HIDE DEF r
<1>3. Shape(r)
  BY <1>1, SMTT(20) DEF Good, Shape
<1>4. Apart(r)
  <2>1. \A d \in Slots : d # c => r.conn[d] = b.conn[d]
    BY <1>1 DEF Good, Shape
  <2>2. r.conn[c].peer = s.peer /\ r.conn[c].state = "SYN_RCVD"
    BY <1>1 DEF Good, Shape
  <2> QED
    BY <2>1, <2>2 DEF Good, Apart, States
<1>5. Single(r) /\ r.mac = b.mac
  BY <1>1 DEF Good, Single
<1> QED
  BY <1>2, <1>3, <1>4, <1>5, SendFacts, SameSlotsApart DEF Good

\* A change of one slot's state keeps the peers apart if a free slot stays free.
LEMMA StateFacts ==
    ASSUME NEW b, Good(b), NEW c \in Slots, b.conn[c].state # "FREE", NEW st \in States
    PROVE  /\ Good([b EXCEPT !.conn[c].state = st])
           /\ [b EXCEPT !.conn[c].state = st].mac = b.mac
<1> DEFINE r == [b EXCEPT !.conn[c].state = st]
<1>1. r = [conn |-> [b.conn EXCEPT ![c].state = st], bufs |-> b.bufs, qLen |-> b.qLen,
           qOff |-> b.qOff, qCid |-> b.qCid, region |-> b.region, txReq |-> b.txReq,
           mac |-> b.mac]
  <2> DEFINE C == [b.conn EXCEPT ![c].state = st]
  <2>1. r = [b EXCEPT !.conn = C] /\ C = [b.conn EXCEPT ![c].state = st]
    OBVIOUS
  <2>2. b = [conn |-> b.conn, bufs |-> b.bufs, qLen |-> b.qLen, qOff |-> b.qOff,
             qCid |-> b.qCid, region |-> b.region, txReq |-> b.txReq, mac |-> b.mac]
    BY DEF Good, Shape
  <2> HIDE DEF r, C
  <2> QED
    BY <2>1, <2>2
<1> HIDE DEF r
<1>2. Shape(r)
  BY <1>1 DEF Good, Shape
<1>3. Apart(r)
  <2>1. \A d \in Slots : /\ d # c => r.conn[d].state = b.conn[d].state
                         /\ r.conn[d].peer = b.conn[d].peer
    BY <1>1 DEF Good, Shape
  <2>2. r.conn[c].state = st
    BY <1>1 DEF Good, Shape
  <2> QED
    BY <2>1, <2>2 DEF Good, Apart
<1>4. Single(r) /\ r.mac = b.mac
  BY <1>1 DEF Good, Single
<1> QED
  BY <1>2, <1>3, <1>4 DEF Good, r

\* Data and FIN of an established connection.
LEMMA EstablishedFacts ==
    ASSUME NEW b, Good(b), NEW c \in Slots, b.conn[c].state # "FREE", NEW s
    PROVE  Good(Established(b, c, s)) /\ (b.mac = {} => Established(b, c, s).mac = {})
<1> DEFINE next == s.seq + Len(s.data) + (IF "FIN" \in s.flags THEN 1 ELSE 0)
           r      == [b EXCEPT !.conn[c].peerSeq = next]
           queued == Queue(r, c, s.data)
           sent   == Send(queued, c, {"FIN", "ACK"}, <<>>)
           closed == [sent EXCEPT !.conn[c].state = "LAST_ACK"]
<1>1. Established(b, c, s) = IF "FIN" \in s.flags THEN closed ELSE queued
  BY DEF Established
<1>2. Shape(r) /\ SameSlots(b, r) /\ r.mac = b.mac
  <2>1. b = [conn |-> b.conn, bufs |-> b.bufs, qLen |-> b.qLen, qOff |-> b.qOff,
             qCid |-> b.qCid, region |-> b.region, txReq |-> b.txReq, mac |-> b.mac]
    BY DEF Good, Shape
  <2> HIDE DEF next
  <2>2. r = [conn |-> [b.conn EXCEPT ![c].peerSeq = next], bufs |-> b.bufs,
             qLen |-> b.qLen, qOff |-> b.qOff, qCid |-> b.qCid, region |-> b.region,
             txReq |-> b.txReq, mac |-> b.mac]
    BY <2>1
  <2> HIDE DEF r
  <2>3. Shape(r)
    BY <2>2 DEF Good, Shape
  <2>4. SameSlots(b, r)
    BY <2>2 DEF Good, Shape, SameSlots
  <2> QED
    BY <2>2, <2>3, <2>4
<1> HIDE DEF r
<1>3. Shape(queued) /\ SameSlots(r, queued) /\ queued.mac = b.mac
  BY <1>2, QueueFacts
<1> HIDE DEF queued
<1>4. SameSlots(b, queued)
  BY <1>2, <1>3 DEF SameSlots
<1>5. Single(queued)
  BY <1>3 DEF Good, Single
<1>6. Good(queued)
  BY <1>3, <1>4, <1>5, SameSlotsApart DEF Good
<1>7. /\ Shape(sent) /\ SameSlots(queued, sent) /\ Single(sent)
      /\ queued.mac = {} => sent.mac = {}
  BY <1>3, <1>5, SendFacts
<1> HIDE DEF sent
<1>8. Good(sent)
  BY <1>6, <1>7, SameSlotsApart DEF Good
<1>9. sent.conn[c].state # "FREE"
  BY <1>4, <1>7 DEF SameSlots
<1>10. Good(closed) /\ closed.mac = sent.mac
  BY <1>8, <1>9, StateFacts DEF States
<1> HIDE DEF closed
<1> QED
  BY <1>1, <1>3, <1>6, <1>7, <1>10

\* tcp_rx_process.
LEMMA ReceiveFacts ==
    ASSUME NEW b, Good(b), NEW s
    PROVE  Good(Receive(b, s)) /\ (b.mac = {} => Receive(b, s).mac = {})
<1> DEFINE c   == Find(b, s.peer)
           new == Receive(b, s)
<1>1. c = None \/ c \in Slots
  BY FindFacts
<1>2. CASE c = None
  <2>1. new = b
    BY <1>2 DEF Receive
  <2> HIDE DEF new
  <2> QED
    BY <2>1 DEF new
<1>3. CASE c # None /\ b.conn[c].state = "FREE"
  <2>1. \A d \in Slots : b.conn[d].state # "FREE" => b.conn[d].peer # s.peer
    BY <1>3, FindFacts
  <2> DEFINE a == Accept(b, c, s)
  <2>2. new = a \/ new = b
    BY <1>3 DEF Receive
  <2> HIDE DEF c, new
  <2>3. Good(a) /\ (b.mac = {} => a.mac = {})
    BY <1>1, <1>3, <2>1, AcceptFacts
  <2> HIDE DEF a
  <2> QED
    BY <2>2, <2>3 DEF new
<1>4. CASE c # None /\ b.conn[c].state = "SYN_RCVD"
  <2> DEFINE a == [b EXCEPT !.conn[c].state = "ESTABLISHED"]
  <2>1. new = SynReceived(b, c, s)
    BY <1>4 DEF Receive
  <2> HIDE DEF c, new
  <2>2. new = a \/ new = b
    BY <2>1 DEF SynReceived
  <2>3. Good(a) /\ a.mac = b.mac
    BY <1>1, <1>4, StateFacts DEF States
  <2> HIDE DEF a
  <2> QED
    BY <2>2, <2>3 DEF new
<1>5. CASE c # None /\ b.conn[c].state = "ESTABLISHED"
  <2>1. new = Established(b, c, s)
    BY <1>5 DEF Receive
  <2> HIDE DEF c, new
  <2> QED
    BY <1>1, <1>5, <2>1, EstablishedFacts DEF new
<1>6. CASE c # None /\ b.conn[c].state = "LAST_ACK"
  <2> DEFINE a == [b EXCEPT !.conn[c].state = "FREE"]
  <2>1. new = LastAck(b, c, s)
    BY <1>6 DEF Receive
  <2> HIDE DEF c, new
  <2>2. new = a \/ new = b
    BY <2>1 DEF LastAck
  <2>3. Good(a) /\ a.mac = b.mac
    BY <1>1, <1>6, StateFacts DEF States
  <2> HIDE DEF a
  <2> QED
    BY <2>2, <2>3 DEF new
<1>7. c # None => b.conn[c].state \in States
  <2> HIDE DEF c
  <2> QED
    BY <1>1 DEF Good, Apart
<1> HIDE DEF c, new
<1> QED
  BY <1>2, <1>3, <1>4, <1>5, <1>6, <1>7 DEF States, new

\* The transmitter starts a frame, goes on, or is done; an idle one without a
\* request does nothing.
LEMMA TransmitFacts ==
    ASSUME NEW b, Good(b), NEW done \in BOOLEAN
    PROVE  /\ Good(Transmit(b, done))
           /\ ~Busy(b) => Transmit(b, done).mac = {}
<1> DEFINE start == [b EXCEPT !.mac = {b.region}, !.txReq = FALSE]
           rest  == [b EXCEPT !.mac = {}]
<1>1. b = [conn |-> b.conn, bufs |-> b.bufs, qLen |-> b.qLen, qOff |-> b.qOff,
           qCid |-> b.qCid, region |-> b.region, txReq |-> b.txReq, mac |-> b.mac]
  BY DEF Good, Shape
<1>2. start = [conn |-> b.conn, bufs |-> b.bufs, qLen |-> b.qLen, qOff |-> b.qOff,
               qCid |-> b.qCid, region |-> b.region, txReq |-> FALSE, mac |-> {b.region}]
  <2> DEFINE M == {b.region}
             q == [b EXCEPT !.mac = M]
  <2> HIDE DEF M
  <2>1. q = [conn |-> b.conn, bufs |-> b.bufs, qLen |-> b.qLen, qOff |-> b.qOff,
             qCid |-> b.qCid, region |-> b.region, txReq |-> b.txReq, mac |-> M]
    BY <1>1
  <2>2. start = [q EXCEPT !.txReq = FALSE]
    BY DEF M
  <2> HIDE DEF q, start
  <2>3. start = [conn |-> b.conn, bufs |-> b.bufs, qLen |-> b.qLen, qOff |-> b.qOff,
                 qCid |-> b.qCid, region |-> b.region, txReq |-> FALSE, mac |-> M]
    BY <2>1, <2>2
  <2> QED
    BY <2>3 DEF M
<1>3. rest = [conn |-> b.conn, bufs |-> b.bufs, qLen |-> b.qLen, qOff |-> b.qOff,
              qCid |-> b.qCid, region |-> b.region, txReq |-> b.txReq, mac |-> {}]
  BY <1>1
<1>4. Transmit(b, done) = CASE b.mac = {} /\ b.txReq -> start
                            [] b.mac # {} /\ done    -> rest
                            [] OTHER                 -> b
  BY DEF Transmit
<1> HIDE DEF start, rest
<1>5. Good(start)
  <2>1. Shape(start)
    BY <1>2 DEF Good, Shape
  <2>2. Apart(start) /\ Single(start)
    BY <1>2 DEF Good, Apart, Single
  <2> QED
    BY <2>1, <2>2 DEF Good
<1>6. Good(rest)
  <2>1. Shape(rest)
    BY <1>3 DEF Good, Shape
  <2>2. Apart(rest) /\ Single(rest)
    BY <1>3 DEF Good, Apart, Single
  <2> QED
    BY <2>1, <2>2 DEF Good
<1>7. ~Busy(b) => Transmit(b, done) = b /\ b.mac = {}
  BY <1>4 DEF Busy
<1>8. \/ Transmit(b, done) = start
      \/ Transmit(b, done) = rest
      \/ Transmit(b, done) = b
  BY <1>4
<1> QED
  BY <1>5, <1>6, <1>7, <1>8

\* The gated flush: it runs only when the transmitter is idle.
LEMMA FlushFacts ==
    ASSUME NEW a, NEW b, Good(b), ~Busy(a) => b.mac = {}
    PROVE  Good(Flush(a, b))
BY MaintainFacts DEF Flush

-------------------------------------------------------------------------------
LEMMA InitHolds == Init => IInv
<1> SUFFICES ASSUME Init PROVE IInv
  OBVIOUS
<1>1. 0 \in Slots
  BY TcpAssumption DEF Slots
<1>2. Shape(board)
  BY <1>1 DEF Init, Shape
<1>3. Apart(board)
  BY DEF Init, Apart, States
<1>4. Single(board)
  BY DEF Init, Single
<1> QED
  BY <1>2, <1>3, <1>4 DEF IInv, Good

LEMMA StepHolds == IInv /\ [Next]_vars => IInv'
<1> SUFFICES ASSUME Good(board), [Next]_vars PROVE Good(board')
  BY DEF IInv, Good, Shape, Apart, Single
<1>1. CASE QuietPass
  <2>1. board' = Flush(board, Transmit(board, FALSE))
    BY <1>1 DEF QuietPass
  <2> QED
    BY <2>1, TransmitFacts, FlushFacts
<1>2. CASE SentPass
  <2>1. board' = Flush(board, Transmit(board, TRUE))
    BY <1>2 DEF SentPass
  <2> QED
    BY <2>1, TransmitFacts, FlushFacts
<1>3. ASSUME NEW p \in Peers, RxPass(p) PROVE Good(board')
  <2>1. board' = Flush(board, Receive(Transmit(board, FALSE), Head(toBoard[p])))
    BY <1>3 DEF RxPass
  <2> QED
    BY <2>1, TransmitFacts, ReceiveFacts, FlushFacts
<1>4. ASSUME NEW p \in Peers, PeerStep(p) PROVE Good(board')
  <2>1. board' = board
    BY <1>4 DEF PeerStep, Connect, Close, Vanish, Deliver, Lose, Retry, SendData
  <2> QED
    BY <2>1
<1>5. CASE UNCHANGED vars
  BY <1>5 DEF vars
<1> QED
  BY <1>1, <1>2, <1>3, <1>4, <1>5 DEF Next

\* A peer never has two slots, however SYNs are lost, repeated and delayed while
\* slots are freed and taken (tcp_find, tcp_rx_process).
THEOREM SlotsApart == Spec => []OneSlotPerPeer
<1>1. IInv => OneSlotPerPeer
  BY DEF IInv, Good, Apart, OneSlotPerPeer
<1> QED
  BY InitHolds, StepHolds, <1>1, PTL DEF Spec

\* The gate of tcp_maintenance keeps one echo from rewriting another one while it
\* is being sent, whatever the peers do.
THEOREM EchoesKeptApart == Spec => []EchoesDoNotCollide
<1>1. IInv => EchoesDoNotCollide
  <2> SUFFICES ASSUME Single(board) PROVE EchoesDoNotCollide
    BY DEF IInv, Good
  <2> DEFINE F == {f \in board.mac : f.data # <<>>}
  <2>1. Cardinality(F) <= 1
    <3>1. CASE F = {}
      <4>1. Cardinality(F) = 0
        BY <3>1, FS_EmptySet
      <4> QED
        BY <4>1
    <3>2. CASE F # {}
      <4>1. PICK f \in F : TRUE
        BY <3>2
      <4>2. F = {f}
        BY <4>1 DEF Single
      <4>3. Cardinality(F) = 1
        BY <4>2, FS_Singleton
      <4> QED
        BY <4>3
    <3> QED
      BY <3>1, <3>2
  <2> QED
    BY <2>1 DEF EchoesDoNotCollide
<1> QED
  BY InitHolds, StepHolds, <1>1, PTL DEF Spec

-------------------------------------------------------------------------------
(***************************************************************************)
(* Types.                                                                  *)
(***************************************************************************)
Flags     == {"SYN", "ACK", "FIN"}
Names     == Peers \cup {NoPeer}
ByteType  == [from : Names, round : Nat, nth : Nat]
FrameType == [peer : Names, flags : SUBSET Flags, seq : Nat, ack : Nat, data : Seq(ByteType)]
SlotType  == [state : States, peer : Names, seq : Nat, peerSeq : Nat]
BoardType == [conn : [Slots -> SlotType], bufs : [Slots -> [1 .. SendBuf -> ByteType]],
              qLen : 0 .. SendBuf, qOff : 0 .. SendBuf, qCid : Slots,
              region : FrameType, txReq : BOOLEAN, mac : SUBSET FrameType]
PeerType  == [state : {"closed", "syn", "open", "fin"}, round : Nat, sent : Nat,
              got : Seq(ByteType), next : Nat, tries : Nat]

TypedBoard(b) == b \in BoardType /\ b.qOff <= b.qLen

\* Frames on the link of a peer are from or for that peer.
TypedLink(link) ==
    /\ link \in [Peers -> Seq(FrameType)]
    /\ \A p \in Peers : \A i \in 1 .. Len(link[p]) : link[p][i].peer = p

Typed ==
    /\ TypedBoard(board) /\ peer \in [Peers -> PeerType]
    /\ TypedLink(toBoard) /\ TypedLink(toPeer) /\ lost \in Nat

-------------------------------------------------------------------------------
(***************************************************************************)
(* One sender that waits for its echo.  b is the board, st the state of    *)
(* peer p, segs and frames what is on its way from and to p, so that the   *)
(* parts of a pass can be looked at one after the other.                   *)
(***************************************************************************)
OneAtATime == Pipeline = 0 /\ \A p, q \in Senders : p = q

\* Bytes wait in the queue.
Pending(b) == b.qLen > b.qOff

\* What the transmitter sends or is asked to send, and with it the frames with data
\* on their way to p.
Carried(b) == b.mac \cup (IF b.txReq THEN {b.region} ELSE {})
Items(s)   == {s[i] : i \in 1 .. Len(s)}
OnWay(b, frames, p)  == {f \in Carried(b) \cup Items(frames) : f.peer = p}
Echoes(b, frames, p) == {f \in OnWay(b, frames, p) : f.data # <<>>}

\* The bytes d are those of p's stream from sequence number n on.
InPlace(p, r, n, d) == \A i \in 1 .. Len(d) : d[i] = Byte(p, r, n + i - 1)

\* Slot c has echoed no more than was sent, and what is on its way and in the queue
\* is in its place in the stream.
Right(b, st, frames, p, c) ==
    LET k == b.conn[c].seq
    IN  /\ k <= st.sent + 1
        /\ \A f \in Echoes(b, frames, p) :
             f.seq + Len(f.data) <= k /\ InPlace(p, st.round, f.seq, f.data)
        /\ Pending(b) =>
             /\ k + (b.qLen - b.qOff) <= st.sent + 1
             /\ \A i \in 1 .. b.qLen - b.qOff :
                  b.bufs[c][b.qOff + i] = Byte(p, st.round, k + i - 1)

\* An echo was lost, and slot c is beyond it: nothing that is on its way, and nothing
\* that is still to be sent, is what the peer waits for.
Beyond(b, st, frames, p, c) ==
    /\ st.next < b.conn[c].seq /\ Len(st.got) < st.sent
    /\ \A f \in Echoes(b, frames, p) : f.seq # st.next

\* The slot of an open connection.
Serves(b, st, frames, p, c) ==
    /\ b.conn[c].peer = p /\ b.conn[c].state \in {"SYN_RCVD", "ESTABLISHED"}
    /\ st.next <= b.conn[c].seq
    /\ Right(b, st, frames, p, c) \/ Beyond(b, st, frames, p, c)

\* A segment s with data on its way to the board: it begins where the echoes that
\* were received end, and no echo is on its way or waits.
Outstanding(b, st, frames, p, s) ==
    /\ s.seq = st.next /\ s.seq + Len(s.data) <= st.sent + 1
    /\ InPlace(p, st.round, s.seq, s.data)
    /\ ~Pending(b)
    /\ \A f \in Echoes(b, frames, p) : f.seq # st.next

\* At most one segment carries data.
AtMostOne(segs) ==
    \A i, j \in 1 .. Len(segs) : segs[i].data # <<>> /\ segs[j].data # <<>> => i = j

IsOpen(b, st, segs, frames, p) ==
    /\ st.next = Len(st.got) + 1
    /\ \A s \in Items(segs) : "FIN" \notin s.flags
    /\ \A s \in Items(segs) : s.data # <<>> => Outstanding(b, st, frames, p, s)
    /\ AtMostOne(segs)
    /\ \E c \in Slots : Serves(b, st, frames, p, c)

\* While p opens a connection nothing is left of an earlier one but the slot; the
\* answer it waits for comes from a slot that has just been taken.
Fresh(b, p) == \E c \in Slots : /\ b.conn[c].peer = p /\ b.conn[c].state = "SYN_RCVD"
                                /\ b.conn[c].seq = 1
Opens(b, st, segs, frames, p) ==
    /\ st.sent = 0 /\ Len(st.got) = 0
    /\ ~Pending(b) /\ Echoes(b, frames, p) = {}
    /\ \A s \in Items(segs) : s.flags = {"SYN"} /\ s.data = <<>>
    /\ \A f \in OnWay(b, frames, p) : f.flags = {"SYN", "ACK"} => f.seq = 0 /\ Fresh(b, p)

\* What a peer that does not send, or that says goodbye, has on its way.
Silent(segs)  == \A s \in Items(segs) : s.data = <<>>
Leaving(segs) == \E s \in Items(segs) : "FIN" \in s.flags

\* While p closes it, all echoes have come back.
Closes(b, segs) == ~Pending(b) /\ Silent(segs)

\* The queue belongs to the established connection of the sender.
QueueOwned(b) ==
    Pending(b) => b.conn[b.qCid].state = "ESTABLISHED" /\ b.conn[b.qCid].peer \in Senders

\* What peer p has received is what it has sent.
Received(st, p) ==
    Len(st.got) <= st.sent /\ st.got = [i \in 1 .. Len(st.got) |-> Byte(p, st.round, i)]

SenderOK(b, st, segs, frames, p) ==
    /\ Leaving(segs) => Closes(b, segs)
    /\ st.state = "open" => IsOpen(b, st, segs, frames, p)
    /\ st.state = "syn" => Opens(b, st, segs, frames, p)
    /\ st.state = "fin" => Closes(b, segs)

ListenerOK(st, segs, frames) == st.sent = 0 /\ Silent(segs) /\ Silent(frames)

PeerOK(b, st, segs, frames, p) ==
    /\ Received(st, p)
    /\ IF p \in Senders THEN SenderOK(b, st, segs, frames, p) ELSE ListenerOK(st, segs, frames)

EchoesToSenders(b) == \A f \in Carried(b) : f.data # <<>> => f.peer \in Senders

BoardOK(b) == QueueOwned(b) /\ EchoesToSenders(b)

Ordered(b, pr, tb, tp) ==
    BoardOK(b) /\ \A p \in Peers : PeerOK(b, pr[p], tb[p], tp[p], p)

Order == Ordered(board, peer, toBoard, toPeer)

\* The inductive invariant of the echo.
EInv == Good(board) /\ Typed /\ Order

-------------------------------------------------------------------------------
\* Numbers of the queue.
LEMMA NumberFacts ==
    /\ SendBuf \in Nat /\ Chunk \in Nat /\ Chunk > 0 /\ MaxConn \in Nat /\ MaxSeg \in Nat
    /\ Senders \subseteq Peers /\ NoPeer \notin Peers /\ Slots \subseteq Nat
  BY TcpAssumption DEF Slots

\* A segment is a frame with the fields it was built from.
IsFrame(f, p, flags, seq, data) ==
    f \in FrameType /\ f.peer = p /\ f.flags = flags /\ f.seq = seq /\ f.data = data

LEMMA SegmentTyped ==
    ASSUME NEW p \in Names, NEW flags \in SUBSET Flags, NEW seq \in Nat, NEW ack \in Nat,
           NEW data \in Seq(ByteType), NEW f, f = Segment(p, flags, seq, ack, data)
    PROVE  IsFrame(f, p, flags, seq, data)
  BY DEF Segment, FrameType, IsFrame

LEMMA EmptyData ==
    /\ <<>> \in Seq(ByteType) /\ Len(<<>>) = 0
  OBVIOUS

LEMMA DamagedTyped ==
    Damaged \in FrameType /\ Damaged.peer = NoPeer /\ Damaged.data = <<>>
<1> DEFINE e == <<>>
           F == {}
<1>1. F \in SUBSET Flags /\ NoPeer \in Names /\ 0 \in Nat /\ e \in Seq(ByteType)
  BY EmptyData DEF Names
<1>2. Damaged = Segment(NoPeer, F, 0, 0, e)
  BY DEF Damaged
<1> HIDE DEF e, F
<1>3. IsFrame(Damaged, NoPeer, F, 0, e)
  BY <1>1, <1>2, SegmentTyped
<1> QED
  BY <1>3 DEF e, IsFrame

\* The sequence space of what the board sends.
LEMMA Weights ==
    ASSUME NEW data \in Seq(ByteType)
    PROVE  /\ Weight({"ACK"}, data) = Len(data)
           /\ Weight({"SYN", "ACK"}, <<>>) = 1
           /\ Weight({"FIN", "ACK"}, <<>>) = 1
<1>1. {"ACK"} \cap {"SYN", "FIN"} = {} /\ Cardinality({}) = 0
  BY FS_EmptySet
<1>2. {"SYN", "ACK"} \cap {"SYN", "FIN"} = {"SYN"} /\ Cardinality({"SYN"}) = 1
  BY FS_Singleton
<1>3. {"FIN", "ACK"} \cap {"SYN", "FIN"} = {"FIN"} /\ Cardinality({"FIN"}) = 1
  BY FS_Singleton
<1>4. Len(data) \in Nat
  OBVIOUS
<1> QED
  BY <1>1, <1>2, <1>3, <1>4, EmptyData DEF Weight

\* A piece of a sequence.
LEMMA SubSeqFacts ==
    ASSUME NEW S, NEW u \in Seq(S), NEW o \in Nat, NEW k \in Nat, o + k <= Len(u)
    PROVE  /\ SubSeq(u, o + 1, o + k) \in Seq(S) /\ Len(SubSeq(u, o + 1, o + k)) = k
           /\ \A i \in 1 .. k : SubSeq(u, o + 1, o + k)[i] = u[o + i]
<1>1. SubSeq(u, o + 1, o + k) \in Seq(S) /\ Len(SubSeq(u, o + 1, o + k)) = k
  OBVIOUS
<1>2. ASSUME NEW i \in 1 .. k PROVE SubSeq(u, o + 1, o + k)[i] = u[o + i]
  <2>1. SubSeq(u, o + 1, o + k)[i] = u[(o + 1) + i - 1]
    OBVIOUS
  <2>2. (o + 1) + i - 1 = o + i
    OBVIOUS
  <2> QED
    BY <2>1, <2>2
<1> QED
  BY <1>1, <1>2

\* The fields of a typed board.
LEMMA BoardFields ==
    ASSUME NEW b, TypedBoard(b)
    PROVE  /\ b.conn \in [Slots -> SlotType] /\ b.bufs \in [Slots -> [1 .. SendBuf -> ByteType]]
           /\ b.qLen \in 0 .. SendBuf /\ b.qOff \in 0 .. SendBuf /\ b.qOff <= b.qLen
           /\ b.qLen \in Nat /\ b.qOff \in Nat
           /\ b.qCid \in Slots /\ b.region \in FrameType /\ b.txReq \in BOOLEAN
           /\ b.mac \in SUBSET FrameType
           /\ \A c \in Slots : /\ b.conn[c] \in SlotType /\ b.conn[c].state \in States
                               /\ b.conn[c].peer \in Names /\ b.conn[c].seq \in Nat
                               /\ b.conn[c].peerSeq \in Nat
                               /\ b.bufs[c] \in [1 .. SendBuf -> ByteType]
<1>1. /\ b.conn \in [Slots -> SlotType] /\ b.bufs \in [Slots -> [1 .. SendBuf -> ByteType]]
      /\ b.qLen \in 0 .. SendBuf /\ b.qOff \in 0 .. SendBuf /\ b.qOff <= b.qLen
      /\ b.qCid \in Slots /\ b.region \in FrameType /\ b.txReq \in BOOLEAN
      /\ b.mac \in SUBSET FrameType
  BY DEF TypedBoard, BoardType
<1>2. b.qLen \in Nat /\ b.qOff \in Nat
  BY <1>1, NumberFacts
<1>3. \A c \in Slots : b.conn[c] \in SlotType /\ b.bufs[c] \in [1 .. SendBuf -> ByteType]
  BY <1>1
<1>4. \A c \in Slots : /\ b.conn[c].state \in States /\ b.conn[c].peer \in Names
                       /\ b.conn[c].seq \in Nat /\ b.conn[c].peerSeq \in Nat
  BY <1>3 DEF SlotType
<1> QED
  BY <1>1, <1>2, <1>3, <1>4

LEMMA CarriedTyped ==
    ASSUME NEW b, TypedBoard(b)
    PROVE  Carried(b) \subseteq FrameType
  BY BoardFields DEF Carried

LEMMA ItemsTyped ==
    ASSUME NEW S, NEW s \in Seq(S)
    PROVE  Items(s) \subseteq S
  BY DEF Items

\* The fields of a frame and of the state of a peer.
LEMMA FrameFields ==
    ASSUME NEW f \in FrameType
    PROVE  /\ f.peer \in Names /\ f.flags \in SUBSET Flags /\ f.seq \in Nat
           /\ f.data \in Seq(ByteType) /\ Len(f.data) \in Nat
           /\ f.data # <<>> => Len(f.data) > 0
<1>1. /\ f.peer \in Names /\ f.flags \in SUBSET Flags /\ f.seq \in Nat
      /\ f.data \in Seq(ByteType)
  BY DEF FrameType
<1>2. \A d \in Seq(ByteType) : Len(d) \in Nat /\ (d # <<>> => Len(d) > 0)
  OBVIOUS
<1> QED
  BY <1>1, <1>2

LEMMA PeerFields ==
    ASSUME NEW st \in PeerType
    PROVE  /\ st.state \in {"closed", "syn", "open", "fin"} /\ st.round \in Nat /\ st.sent \in Nat
           /\ st.got \in Seq(ByteType) /\ Len(st.got) \in Nat /\ st.next \in Nat
<1>1. /\ st.state \in {"closed", "syn", "open", "fin"} /\ st.round \in Nat /\ st.sent \in Nat
      /\ st.got \in Seq(ByteType) /\ st.next \in Nat
  BY DEF PeerType
<1> QED
  BY <1>1

\* What the parts of a pass leave alone.
SameQueue(a, n) == n.bufs = a.bufs /\ n.qLen = a.qLen /\ n.qOff = a.qOff /\ n.qCid = a.qCid
SameLine(a, n)  == n.region = a.region /\ n.txReq = a.txReq /\ n.mac = a.mac
SameSlot(a, n, c) ==
    /\ n.conn[c].state = a.conn[c].state /\ n.conn[c].peer = a.conn[c].peer
    /\ n.conn[c].seq = a.conn[c].seq

\* A change of one slot.
SlotSet(b, n, c, slot) ==
    /\ TypedBoard(n) /\ SameQueue(b, n) /\ SameLine(b, n)
    /\ n.conn[c] = slot
    /\ \A d \in Slots : d # c => n.conn[d] = b.conn[d]

LEMMA SlotChange ==
    ASSUME NEW b, TypedBoard(b), NEW c \in Slots, NEW slot \in SlotType,
           NEW n, n = [b EXCEPT !.conn[c] = slot]
    PROVE  SlotSet(b, n, c, slot)
<1> DEFINE conn2 == [b.conn EXCEPT ![c] = slot]
<1>1. b \in BoardType /\ b.conn \in [Slots -> SlotType] /\ b.qOff <= b.qLen
  BY BoardFields DEF TypedBoard
<1>2. conn2 \in [Slots -> SlotType]
  BY <1>1
<1>3. conn2[c] = slot /\ \A d \in Slots : d # c => conn2[d] = b.conn[d]
  BY <1>1
<1>4. n = [b EXCEPT !.conn = conn2]
  OBVIOUS
<1> HIDE DEF conn2
<1>5. n \in BoardType
  BY <1>1, <1>2, <1>4, Zenon DEF BoardType
<1>6. /\ n.conn = conn2 /\ n.bufs = b.bufs /\ n.qLen = b.qLen /\ n.qOff = b.qOff /\ n.qCid = b.qCid
      /\ n.region = b.region /\ n.txReq = b.txReq /\ n.mac = b.mac
  BY <1>1, <1>4 DEF BoardType
<1> QED
  BY <1>1, <1>3, <1>5, <1>6 DEF TypedBoard, SameQueue, SameLine, SlotSet

\* tcp_send puts frame f on the line, beside those that may still leave, and takes w
\* of the sequence space of slot c.
Posted(b, n, c, w, f) ==
    /\ TypedBoard(n) /\ SameQueue(b, n)
    /\ \A d \in Slots : /\ n.conn[d].state = b.conn[d].state /\ n.conn[d].peer = b.conn[d].peer
                        /\ n.conn[d].seq = IF d = c THEN b.conn[d].seq + w ELSE b.conn[d].seq
    /\ f \in FrameType
    /\ Carried(n) \subseteq Carried(b) \cup {f, Damaged}

LEMMA SendDoes ==
    ASSUME NEW b, TypedBoard(b), NEW c \in Slots, NEW flags \in SUBSET Flags,
           NEW data \in Seq(ByteType), NEW w \in Nat, w = Weight(flags, data),
           NEW f, f = Segment(b.conn[c].peer, flags, b.conn[c].seq, b.conn[c].peerSeq, data),
           NEW n, n = Send(b, c, flags, data)
    PROVE  Posted(b, n, c, w, f)
<1> DEFINE slot  == [b.conn[c] EXCEPT !.seq = @ + w]
           conn2 == [b.conn EXCEPT ![c] = slot]
           mac2  == IF b.mac = {} THEN {} ELSE b.mac \cup {f, Damaged}
<1>1. /\ b \in BoardType /\ b.conn \in [Slots -> SlotType] /\ b.qOff <= b.qLen
      /\ b.conn[c] \in SlotType /\ b.conn[c].seq \in Nat /\ b.conn[c].peerSeq \in Nat
      /\ b.conn[c].peer \in Names /\ b.mac \in SUBSET FrameType
  BY BoardFields DEF TypedBoard
<1>2. f \in FrameType
  <2>1. IsFrame(f, b.conn[c].peer, flags, b.conn[c].seq, data)
    BY <1>1, SegmentTyped
  <2> QED
    BY <2>1 DEF IsFrame
<1>3. slot \in SlotType /\ slot.state = b.conn[c].state /\ slot.peer = b.conn[c].peer
      /\ slot.seq = b.conn[c].seq + w
  <2> DEFINE o  == b.conn[c]
             s2 == o.seq + w
  <2>1. o \in SlotType /\ s2 \in Nat /\ slot = [o EXCEPT !.seq = s2]
    BY <1>1
  <2>2. s2 = b.conn[c].seq + w /\ o = b.conn[c]
    OBVIOUS
  <2> HIDE DEF o, s2, slot
  <2>3. slot \in SlotType
    BY <2>1, Zenon DEF SlotType
  <2>4. slot.state = o.state /\ slot.peer = o.peer /\ slot.seq = s2
    BY <2>1 DEF SlotType
  <2> QED
    BY <2>2, <2>3, <2>4
<1>4. n = [b EXCEPT !.conn = conn2, !.region = f, !.txReq = TRUE, !.mac = mac2]
  BY DEF Send
<1> HIDE DEF slot
<1>5. conn2 \in [Slots -> SlotType] /\ conn2[c] = slot /\ \A d \in Slots : d # c => conn2[d] = b.conn[d]
  BY <1>1, <1>3
<1>6. mac2 \in SUBSET FrameType
  BY <1>1, <1>2, DamagedTyped
<1>7. mac2 \subseteq b.mac \cup {f, Damaged}
  OBVIOUS
<1> HIDE DEF conn2, mac2
<1>8. n \in BoardType
  <2>1. TRUE \in BOOLEAN
    OBVIOUS
  <2> QED
    BY <1>1, <1>2, <1>4, <1>5, <1>6, <2>1, Zenon DEF BoardType
<1>9. /\ n.conn = conn2 /\ n.bufs = b.bufs /\ n.qLen = b.qLen /\ n.qOff = b.qOff /\ n.qCid = b.qCid
      /\ n.region = f /\ n.txReq = TRUE /\ n.mac = mac2
  BY <1>1, <1>4 DEF BoardType
<1>10. TypedBoard(n) /\ SameQueue(b, n)
  BY <1>1, <1>8, <1>9 DEF TypedBoard, SameQueue
<1>11. \A d \in Slots : /\ n.conn[d].state = b.conn[d].state /\ n.conn[d].peer = b.conn[d].peer
                        /\ n.conn[d].seq = IF d = c THEN b.conn[d].seq + w ELSE b.conn[d].seq
  BY <1>3, <1>5, <1>9
<1>12. Carried(n) \subseteq Carried(b) \cup {f, Damaged}
  BY <1>7, <1>9 DEF Carried
<1> QED
  BY <1>2, <1>10, <1>11, <1>12 DEF Posted

\* tcp_queue adds as many of the bytes as there is room for, behind those that wait.
LEMMA QueueDoes ==
    ASSUME NEW b, TypedBoard(b), NEW c \in Slots, NEW data \in Seq(ByteType), data # <<>>,
           NEW n, n = Queue(b, c, data)
    PROVE  /\ TypedBoard(n) /\ n.conn = b.conn /\ SameLine(b, n)
           /\ ~Pending(b) =>
                /\ n.qOff = 0 /\ n.qLen <= Len(data) /\ n.qCid = c
                /\ \A i \in 1 .. n.qLen : n.bufs[c][i] = data[i]
           /\ Pending(b) => n.qCid = b.qCid
<1> DEFINE fresh == b.qLen = b.qOff
           len   == IF fresh THEN 0 ELSE b.qLen
           room  == IF SendBuf - len < Len(data) THEN SendBuf - len ELSE Len(data)
           buf2  == [i \in 1 .. SendBuf |->
                       IF i \in len + 1 .. len + room THEN data[i - len] ELSE b.bufs[c][i]]
           bufs2 == [b.bufs EXCEPT ![c] = buf2]
           len2  == len + room
           off2  == IF fresh THEN 0 ELSE b.qOff
           cid2  == IF fresh THEN c ELSE b.qCid
<1>1. /\ b \in BoardType /\ b.bufs \in [Slots -> [1 .. SendBuf -> ByteType]] /\ b.qCid \in Slots
      /\ b.qLen \in 0 .. SendBuf /\ b.qOff \in 0 .. SendBuf /\ b.qOff <= b.qLen
      /\ b.bufs[c] \in [1 .. SendBuf -> ByteType] /\ SendBuf \in Nat
  BY BoardFields, NumberFacts DEF TypedBoard
<1>2. Len(data) \in Nat /\ Len(data) > 0 /\ \A i \in 1 .. Len(data) : data[i] \in ByteType
  OBVIOUS
<1>3. n = [b EXCEPT !.bufs[c] = buf2, !.qLen = len2, !.qOff = off2, !.qCid = cid2]
  BY DEF Queue
<1>4. n = [b EXCEPT !.bufs = bufs2, !.qLen = len2, !.qOff = off2, !.qCid = cid2]
  <2> HIDE DEF buf2, len2, off2, cid2
  <2> QED
    BY <1>3
<1>5. /\ len \in 0 .. SendBuf /\ room \in Nat /\ room <= Len(data) /\ len + room <= SendBuf
      /\ off2 \in 0 .. SendBuf /\ off2 <= len + room /\ cid2 \in Slots
  BY <1>1, <1>2
<1>6. buf2 \in [1 .. SendBuf -> ByteType]
  <2> HIDE DEF len, room
  <2>1. \A i \in 1 .. SendBuf : i \in len + 1 .. len + room => data[i - len] \in ByteType
    <3> SUFFICES ASSUME NEW i \in 1 .. SendBuf, i \in len + 1 .. len + room
                 PROVE  data[i - len] \in ByteType
      OBVIOUS
    <3>1. i - len \in 1 .. Len(data)
      BY <1>2, <1>5
    <3> QED
      BY <1>2, <3>1
  <2> QED
    BY <1>1, <2>1
<1>7. bufs2 \in [Slots -> [1 .. SendBuf -> ByteType]] /\ bufs2[c] = buf2
  <2> HIDE DEF buf2
  <2> QED
    BY <1>1, <1>6
<1>8. fresh => len2 = room /\ off2 = 0 /\ cid2 = c /\ \A i \in 1 .. room : buf2[i] = data[i]
  <2> SUFFICES ASSUME fresh PROVE len2 = room /\ \A i \in 1 .. room : buf2[i] = data[i]
    OBVIOUS
  <2>1. len = 0 /\ len2 = room
    BY <1>5
  <2>2. \A i \in 1 .. room : i \in 1 .. SendBuf /\ i \in len + 1 .. len + room /\ i - len = i
    <3>1. len = 0 /\ room \in Nat /\ len + room <= SendBuf /\ SendBuf \in Nat
      BY <1>1, <1>5, <2>1
    <3> HIDE DEF len, room
    <3> QED
      BY ONLY <3>1
  <2> QED
    BY <2>1, <2>2
<1>9. ~fresh => cid2 = b.qCid
  OBVIOUS
<1>10. len2 \in 0 .. SendBuf /\ off2 <= len2
  BY <1>5
<1>11. Pending(b) <=> ~fresh
  BY <1>1 DEF Pending
<1> HIDE DEF fresh, len, room, buf2, bufs2, len2, off2, cid2
<1>12. n \in BoardType
  BY <1>1, <1>4, <1>5, <1>7, <1>10, Zenon DEF BoardType
<1>13. /\ n.conn = b.conn /\ n.bufs = bufs2 /\ n.qLen = len2 /\ n.qOff = off2 /\ n.qCid = cid2
       /\ n.region = b.region /\ n.txReq = b.txReq /\ n.mac = b.mac
  BY <1>1, <1>4 DEF BoardType
<1>14. TypedBoard(n) /\ SameLine(b, n)
  BY <1>10, <1>12, <1>13 DEF TypedBoard, SameLine
<1> QED
  BY <1>5, <1>7, <1>8, <1>9, <1>11, <1>13, <1>14

\* tcp_maintenance sends frame f with the next k bytes of the queue, from the slot that
\* owns it.
Maintained(b, n, k, f) ==
    /\ k > 0 /\ k <= b.qLen - b.qOff
    /\ f.peer = b.conn[b.qCid].peer /\ f.flags = {"ACK"} /\ f.seq = b.conn[b.qCid].seq
    /\ Len(f.data) = k
    /\ \A i \in 1 .. k : f.data[i] = b.bufs[b.qCid][b.qOff + i]
    /\ TypedBoard(n) /\ n.qCid = b.qCid /\ n.bufs = b.bufs
    /\ \/ k = b.qLen - b.qOff /\ n.qLen = 0 /\ n.qOff = 0
       \/ k < b.qLen - b.qOff /\ n.qLen = b.qLen /\ n.qOff = b.qOff + k
    /\ \A d \in Slots : /\ n.conn[d].state = b.conn[d].state /\ n.conn[d].peer = b.conn[d].peer
                        /\ n.conn[d].seq = IF d = b.qCid THEN b.conn[d].seq + k ELSE b.conn[d].seq
    /\ Carried(n) \subseteq Carried(b) \cup {f, Damaged}

LEMMA MaintainDoes ==
    ASSUME NEW b, TypedBoard(b), Pending(b),
           NEW n, n = Maintain(b)
    PROVE  \E k \in Nat, f \in FrameType : Maintained(b, n, k, f)
<1> DEFINE rest  == b.qLen - b.qOff
           k     == IF rest > Chunk THEN Chunk ELSE rest
           c     == b.qCid
           data  == SubSeq(b.bufs[c], b.qOff + 1, b.qOff + k)
           f     == Segment(b.conn[c].peer, {"ACK"}, b.conn[c].seq, b.conn[c].peerSeq, data)
           sent  == Send(b, c, {"ACK"}, data)
<1>1. /\ b.qLen \in 0 .. SendBuf /\ b.qOff \in 0 .. SendBuf /\ b.qOff < b.qLen /\ c \in Slots
      /\ b.bufs[c] \in [1 .. SendBuf -> ByteType] /\ SendBuf \in Nat /\ Chunk \in Nat /\ Chunk > 0
      /\ b.conn[c].peer \in Names /\ b.conn[c].seq \in Nat /\ b.conn[c].peerSeq \in Nat
  BY BoardFields, NumberFacts DEF Pending
<1>2. rest \in Nat /\ rest > 0 /\ k \in Nat /\ k > 0 /\ k <= rest /\ b.qOff + k <= SendBuf
  BY <1>1
<1>3. n = IF rest = 0 THEN b ELSE IF k = rest THEN [sent EXCEPT !.qLen = 0, !.qOff = 0]
          ELSE [sent EXCEPT !.qOff = @ + k]
  BY DEF Maintain
<1> HIDE DEF k, rest, c
<1>4. /\ data \in Seq(ByteType) /\ Len(data) = k
      /\ \A i \in 1 .. k : data[i] = b.bufs[c][b.qOff + i]
  <2> DEFINE u == b.bufs[c]
             o == b.qOff
  <2>1. u \in [1 .. SendBuf -> ByteType] /\ o \in Nat /\ o + k <= SendBuf
    BY <1>1, <1>2
  <2> HIDE DEF u, o
  <2>2. u \in Seq(ByteType) /\ Len(u) = SendBuf
    BY <1>1, <2>1
  <2>3. /\ SubSeq(u, o + 1, o + k) \in Seq(ByteType) /\ Len(SubSeq(u, o + 1, o + k)) = k
        /\ \A i \in 1 .. k : SubSeq(u, o + 1, o + k)[i] = u[o + i]
    BY <1>2, <2>1, <2>2, SubSeqFacts
  <2> QED
    BY <2>3 DEF u, o
<1> HIDE DEF data
<1>5. {"ACK"} \in SUBSET Flags /\ k = Weight({"ACK"}, data)
  BY <1>4, Weights DEF Flags
<1>6. f \in FrameType /\ f.peer = b.conn[c].peer /\ f.flags = {"ACK"} /\ f.seq = b.conn[c].seq
      /\ f.data = data
  <2>1. IsFrame(f, b.conn[c].peer, {"ACK"}, b.conn[c].seq, data)
    BY <1>1, <1>4, <1>5, SegmentTyped
  <2> QED
    BY <2>1 DEF IsFrame
<1> HIDE DEF f, sent
<1>7. /\ TypedBoard(sent) /\ SameQueue(b, sent)
      /\ \A d \in Slots : /\ sent.conn[d].state = b.conn[d].state /\ sent.conn[d].peer = b.conn[d].peer
                          /\ sent.conn[d].seq = IF d = c THEN b.conn[d].seq + k ELSE b.conn[d].seq
      /\ f \in FrameType
      /\ Carried(sent) \subseteq Carried(b) \cup {f, Damaged}
  <2>1. sent = Send(b, c, {"ACK"}, data)
    BY DEF sent
  <2>2. f = Segment(b.conn[c].peer, {"ACK"}, b.conn[c].seq, b.conn[c].peerSeq, data)
    BY DEF f
  <2>3. Posted(b, sent, c, k, f)
    BY <1>1, <1>2, <1>4, <1>5, <2>1, <2>2, SendDoes
  <2> QED
    BY <2>3 DEF Posted
<1>8. \E len2 \in 0 .. SendBuf : \E off2 \in 0 .. SendBuf :
        /\ n = [sent EXCEPT !.qLen = len2, !.qOff = off2]
        /\ off2 <= len2
        /\ \/ k = rest /\ len2 = 0 /\ off2 = 0
           \/ k < rest /\ len2 = b.qLen /\ off2 = b.qOff + k
  <2>1. CASE k = rest
    <3> DEFINE z == 0
    <3>1. n = [sent EXCEPT !.qLen = z, !.qOff = z]
      BY <1>2, <1>3, <2>1
    <3>2. z \in 0 .. SendBuf /\ z <= z /\ z = 0
      BY <1>1
    <3> HIDE DEF z
    <3> QED
      BY <2>1, <3>1, <3>2
  <2>2. CASE k # rest
    <3> DEFINE off2 == b.qOff + k
    <3>1. n = [sent EXCEPT !.qOff = @ + k]
      BY <1>2, <1>3, <2>2
    <3>2. sent.qOff = b.qOff /\ sent.qLen = b.qLen
      BY <1>7 DEF SameQueue
    <3>3. k < rest /\ off2 \in 0 .. SendBuf /\ off2 <= b.qLen
      BY <1>1, <1>2, <2>2 DEF rest
    <3>4. n = [sent EXCEPT !.qOff = off2]
      BY <3>1, <3>2
    <3> HIDE DEF off2
    <3>5. n = [sent EXCEPT !.qLen = b.qLen, !.qOff = off2]
      <4>1. sent \in BoardType
        BY <1>7 DEF TypedBoard
      <4>2. [sent EXCEPT !.qLen = sent.qLen] = sent
        BY <4>1 DEF BoardType
      <4>3. [sent EXCEPT !.qLen = b.qLen, !.qOff = off2]
              = [[sent EXCEPT !.qLen = sent.qLen] EXCEPT !.qOff = off2]
        BY <3>2
      <4> QED
        BY <3>4, <4>2, <4>3
    <3> QED
      BY <1>1, <3>3, <3>5 DEF off2
  <2> QED
    BY <2>1, <2>2
<1>9. PICK len2 \in 0 .. SendBuf : \E off2 \in 0 .. SendBuf :
        /\ n = [sent EXCEPT !.qLen = len2, !.qOff = off2]
        /\ off2 <= len2
        /\ \/ k = rest /\ len2 = 0 /\ off2 = 0
           \/ k < rest /\ len2 = b.qLen /\ off2 = b.qOff + k
  BY <1>8
<1>10. PICK off2 \in 0 .. SendBuf :
        /\ n = [sent EXCEPT !.qLen = len2, !.qOff = off2]
        /\ off2 <= len2
        /\ \/ k = rest /\ len2 = 0 /\ off2 = 0
           \/ k < rest /\ len2 = b.qLen /\ off2 = b.qOff + k
  BY <1>9
<1>11. sent \in BoardType
  BY <1>7 DEF TypedBoard
<1>12. n \in BoardType
  BY <1>10, <1>11, Zenon DEF BoardType
<1>13. /\ n.conn = sent.conn /\ n.bufs = sent.bufs /\ n.qLen = len2 /\ n.qOff = off2
       /\ n.qCid = sent.qCid /\ n.region = sent.region /\ n.txReq = sent.txReq /\ n.mac = sent.mac
  BY <1>10, <1>11 DEF BoardType
<1>14. TypedBoard(n) /\ n.qCid = c /\ n.bufs = b.bufs /\ Carried(n) = Carried(sent)
  BY <1>7, <1>10, <1>12, <1>13 DEF TypedBoard, SameQueue, Carried, c
<1>15. Len(f.data) = k /\ \A i \in 1 .. k : f.data[i] = b.bufs[c][b.qOff + i]
  BY <1>4, <1>6
<1>16. /\ \/ k = b.qLen - b.qOff /\ n.qLen = 0 /\ n.qOff = 0
          \/ k < b.qLen - b.qOff /\ n.qLen = b.qLen /\ n.qOff = b.qOff + k
       /\ k <= b.qLen - b.qOff
  BY <1>2, <1>10, <1>13 DEF rest
<1>17. /\ \A d \in Slots : /\ n.conn[d].state = b.conn[d].state /\ n.conn[d].peer = b.conn[d].peer
                           /\ n.conn[d].seq = IF d = c THEN b.conn[d].seq + k ELSE b.conn[d].seq
       /\ Carried(n) \subseteq Carried(b) \cup {f, Damaged}
  BY <1>7, <1>13, <1>14
<1>18. k \in Nat /\ k > 0 /\ f \in FrameType /\ f.peer = b.conn[c].peer /\ f.flags = {"ACK"}
       /\ f.seq = b.conn[c].seq
  BY <1>2, <1>6
<1>19. Maintained(b, n, k, f)
  BY <1>14, <1>15, <1>16, <1>17, <1>18 DEF c, Maintained
<1> QED
  BY <1>18, <1>19

-------------------------------------------------------------------------------
(***************************************************************************)
(* What the parts of a pass do to the slots, the queue and the line.       *)
(***************************************************************************)
OthersKept(a, n, c) == \A d \in Slots : d # c => SameSlot(a, n, d)
SlotsKept(a, n)     == \A d \in Slots : SameSlot(a, n, d)

LEMMA TransmitDoes ==
    ASSUME NEW b, TypedBoard(b), NEW done, NEW n, n = Transmit(b, done)
    PROVE  TypedBoard(n) /\ SlotsKept(b, n) /\ SameQueue(b, n) /\ Carried(n) \subseteq Carried(b)
<1> DEFINE start == [b EXCEPT !.mac = {b.region}, !.txReq = FALSE]
           rest  == [b EXCEPT !.mac = {}]
<1>1. b \in BoardType /\ b.region \in FrameType /\ b.qOff <= b.qLen
  BY BoardFields DEF TypedBoard
<1>2. \/ n = start /\ b.txReq
      \/ n = rest
      \/ n = b
  BY DEF Transmit
<1>3. CASE n = start /\ b.txReq
  <2> DEFINE M == {b.region}
  <2>1. n = [b EXCEPT !.mac = M, !.txReq = FALSE] /\ M \in SUBSET FrameType /\ FALSE \in BOOLEAN
    BY <1>1, <1>3
  <2> HIDE DEF M, start
  <2>2. n \in BoardType
    BY <1>1, <2>1, Zenon DEF BoardType
  <2>3. n.conn = b.conn /\ SameQueue(b, n) /\ n.mac = M /\ ~n.txReq
    BY <1>1, <2>1 DEF BoardType, SameQueue
  <2>4. Carried(n) \subseteq Carried(b)
    BY <1>3, <2>3 DEF Carried, M
  <2> QED
    BY <1>1, <2>2, <2>3, <2>4 DEF TypedBoard, SlotsKept, SameSlot, SameQueue
<1>4. CASE n = rest
  <2> DEFINE M == {}
  <2>1. n = [b EXCEPT !.mac = M] /\ M \in SUBSET FrameType
    BY <1>4
  <2>2. M = {}
    OBVIOUS
  <2> HIDE DEF M, start, rest
  <2>3. n \in BoardType
    BY <1>1, <2>1, Zenon DEF BoardType
  <2>4. n.conn = b.conn /\ SameQueue(b, n) /\ n.mac = M /\ n.txReq = b.txReq /\ n.region = b.region
    BY <1>1, <2>1 DEF BoardType, SameQueue
  <2>5. Carried(n) \subseteq Carried(b)
    BY <2>2, <2>4 DEF Carried
  <2> QED
    BY <1>1, <2>3, <2>4, <2>5 DEF TypedBoard, SlotsKept, SameSlot, SameQueue
<1>5. CASE n = b
  BY <1>5 DEF SlotsKept, SameSlot, SameQueue
<1> QED
  BY <1>2, <1>3, <1>4, <1>5

\* A slot whose state changes.
StateSet(b, n, c, st) ==
    /\ TypedBoard(n) /\ SameQueue(b, n) /\ Carried(n) = Carried(b) /\ OthersKept(b, n, c)
    /\ n.conn[c].state = st /\ n.conn[c].peer = b.conn[c].peer /\ n.conn[c].seq = b.conn[c].seq

LEMMA StateDoes ==
    ASSUME NEW b, TypedBoard(b), NEW c \in Slots, NEW st \in States,
           NEW n, n = [b EXCEPT !.conn[c].state = st]
    PROVE  StateSet(b, n, c, st)
<1> DEFINE o == b.conn[c]
           slot == [o EXCEPT !.state = st]
<1>1. o \in SlotType
  BY BoardFields
<1>2. n = [b EXCEPT !.conn[c] = slot]
  OBVIOUS
<1>3. o.peer = b.conn[c].peer /\ o.seq = b.conn[c].seq
  OBVIOUS
<1> HIDE DEF o
<1>4. slot \in SlotType
  BY <1>1, Zenon DEF SlotType
<1>5. slot.state = st /\ slot.peer = o.peer /\ slot.seq = o.seq
  BY <1>1 DEF SlotType
<1> HIDE DEF slot
<1>6. /\ TypedBoard(n) /\ SameQueue(b, n) /\ SameLine(b, n)
      /\ n.conn[c] = slot
      /\ \A d \in Slots : d # c => n.conn[d] = b.conn[d]
  <2>1. SlotSet(b, n, c, slot)
    BY <1>2, <1>4, SlotChange
  <2> QED
    BY <2>1 DEF SlotSet
<1> QED
  BY <1>3, <1>5, <1>6 DEF SameLine, Carried, OthersKept, SameSlot, StateSet

\* A new connection: slot c is taken for peer p, one frame is posted.
Accepted(b, n, c, p) ==
    /\ TypedBoard(n) /\ SameQueue(b, n) /\ OthersKept(b, n, c)
    /\ n.conn[c].state = "SYN_RCVD" /\ n.conn[c].peer = p /\ n.conn[c].seq = 1
    /\ \E f \in FrameType : /\ f.peer = p /\ f.seq = 0 /\ f.data = <<>>
                            /\ Carried(n) \subseteq Carried(b) \cup {f, Damaged}

LEMMA AcceptDoes ==
    ASSUME NEW b, TypedBoard(b), NEW c \in Slots, NEW s \in FrameType,
           NEW n, n = Accept(b, c, s)
    PROVE  Accepted(b, n, c, s.peer)
<1> DEFINE slot  == [state |-> "SYN_RCVD", peer |-> s.peer, seq |-> 0, peerSeq |-> s.seq + 1]
           r     == [b EXCEPT !.conn[c] = slot]
           flags == {"SYN", "ACK"}
           e     == <<>>
           f     == Segment(r.conn[c].peer, flags, r.conn[c].seq, r.conn[c].peerSeq, e)
<1>1. slot \in SlotType /\ slot.state = "SYN_RCVD" /\ slot.peer = s.peer /\ slot.seq = 0
  <2>1. s.peer \in Names /\ s.seq + 1 \in Nat
    BY FrameFields
  <2> QED
    BY <2>1 DEF SlotType, States
<1>2. n = Send(r, c, flags, e)
  BY DEF Accept
<1>3. /\ flags \in SUBSET Flags /\ e \in Seq(ByteType) /\ 1 \in Nat /\ 1 = Weight(flags, e)
      /\ e = <<>>
  BY EmptyData, Weights DEF Flags
<1> HIDE DEF slot, r, flags, e
<1>4. /\ TypedBoard(r) /\ SameQueue(b, r) /\ SameLine(b, r)
      /\ r.conn[c] = slot
      /\ \A d \in Slots : d # c => r.conn[d] = b.conn[d]
  <2>1. SlotSet(b, r, c, slot)
    BY <1>1, SlotChange DEF r
  <2> QED
    BY <2>1 DEF SlotSet
<1>5. f = Segment(r.conn[c].peer, flags, r.conn[c].seq, r.conn[c].peerSeq, e)
  OBVIOUS
<1>6. /\ r.conn[c].peer \in Names /\ r.conn[c].seq \in Nat /\ r.conn[c].peerSeq \in Nat
  BY <1>4, BoardFields
<1>7. f.peer = s.peer /\ f.seq = 0 /\ f.data = <<>>
  <2>1. IsFrame(f, r.conn[c].peer, flags, r.conn[c].seq, e)
    BY <1>3, <1>5, <1>6, SegmentTyped
  <2> QED
    BY <1>1, <1>3, <1>4, <2>1 DEF IsFrame
<1> HIDE DEF f
<1>8. Posted(r, n, c, 1, f)
  BY <1>2, <1>3, <1>4, <1>5, SendDoes
<1>9. /\ TypedBoard(n) /\ SameQueue(r, n) /\ f \in FrameType
      /\ Carried(n) \subseteq Carried(r) \cup {f, Damaged}
      /\ \A d \in Slots : /\ n.conn[d].state = r.conn[d].state /\ n.conn[d].peer = r.conn[d].peer
                          /\ n.conn[d].seq = IF d = c THEN r.conn[d].seq + 1 ELSE r.conn[d].seq
  BY <1>8 DEF Posted
<1>10. Carried(r) = Carried(b) /\ SameQueue(b, n)
  BY <1>4, <1>9 DEF SameLine, SameQueue, Carried
<1>11. OthersKept(b, n, c)
  BY <1>4, <1>9 DEF OthersKept, SameSlot
<1>12. n.conn[c].state = "SYN_RCVD" /\ n.conn[c].peer = s.peer /\ n.conn[c].seq = 1
  BY <1>1, <1>4, <1>9
<1> QED
  BY <1>7, <1>9, <1>10, <1>11, <1>12 DEF Accepted

\* Data of an established connection: only the queue changes.
Queues(b, n, c, data) ==
    /\ TypedBoard(n) /\ SlotsKept(b, n) /\ Carried(n) = Carried(b)
    /\ data = <<>> => SameQueue(b, n)
    /\ data # <<>> /\ ~Pending(b) =>
         /\ n.qOff = 0 /\ n.qLen <= Len(data) /\ n.qCid = c
         /\ \A i \in 1 .. n.qLen : n.bufs[c][i] = data[i]
    /\ data # <<>> /\ Pending(b) => n.qCid = b.qCid

LEMMA EstablishedDoes ==
    ASSUME NEW b, TypedBoard(b), NEW c \in Slots, NEW s \in FrameType,
           NEW n, n = Established(b, c, s)
    PROVE  /\ "FIN" \notin s.flags => Queues(b, n, c, s.data)
           /\ "FIN" \in s.flags =>
                /\ TypedBoard(n) /\ OthersKept(b, n, c)
                /\ n.conn[c].state = "LAST_ACK" /\ n.conn[c].peer = b.conn[c].peer
                /\ s.data = <<>> => SameQueue(b, n)
                /\ \E f \in FrameType : /\ f.flags = {"FIN", "ACK"} /\ f.data = <<>>
                                        /\ Carried(n) \subseteq Carried(b) \cup {f, Damaged}
<1> DEFINE next   == s.seq + Len(s.data) + (IF "FIN" \in s.flags THEN 1 ELSE 0)
           o      == b.conn[c]
           slot   == [o EXCEPT !.peerSeq = next]
           r      == [b EXCEPT !.conn[c] = slot]
           queued == Queue(r, c, s.data)
           flags  == {"FIN", "ACK"}
           e      == <<>>
           sent   == Send(queued, c, flags, e)
           closed == [sent EXCEPT !.conn[c].state = "LAST_ACK"]
<1>1. n = IF "FIN" \in s.flags THEN closed ELSE queued
  BY DEF Established
<1>2. next \in Nat /\ s.data \in Seq(ByteType)
  BY FrameFields
<1>3. o \in SlotType /\ o = b.conn[c]
  BY BoardFields
<1> HIDE DEF next, o, closed, sent
<1>4. slot \in SlotType
  BY <1>2, <1>3, Zenon DEF SlotType
<1>5. slot.state = o.state /\ slot.peer = o.peer /\ slot.seq = o.seq
  BY <1>3 DEF SlotType
<1> HIDE DEF slot, queued, r
<1>6. /\ TypedBoard(r) /\ SameQueue(b, r) /\ SameLine(b, r)
      /\ r.conn[c] = slot
      /\ \A d \in Slots : d # c => r.conn[d] = b.conn[d]
  <2>1. r = [b EXCEPT !.conn[c] = slot]
    BY DEF r
  <2>2. SlotSet(b, r, c, slot)
    BY <1>4, <2>1, SlotChange
  <2> QED
    BY <2>2 DEF SlotSet
<1>7. SlotsKept(b, r) /\ Carried(r) = Carried(b)
  BY <1>3, <1>5, <1>6 DEF SlotsKept, SameSlot, SameLine, Carried
<1>8. Queues(b, queued, c, s.data)
  <2>1. CASE s.data = <<>>
    <3>1. queued = r
      BY <2>1 DEF queued, Queue
    <3> QED
      BY <1>6, <1>7, <2>1, <3>1 DEF Queues
  <2>2. CASE s.data # <<>>
    <3>1. queued = Queue(r, c, s.data)
      BY DEF queued
    <3>2. /\ TypedBoard(queued) /\ queued.conn = r.conn /\ SameLine(r, queued)
          /\ ~Pending(r) =>
               /\ queued.qOff = 0 /\ queued.qLen <= Len(s.data) /\ queued.qCid = c
               /\ \A i \in 1 .. queued.qLen : queued.bufs[c][i] = s.data[i]
          /\ Pending(r) => queued.qCid = r.qCid
      BY <1>2, <1>6, <2>2, <3>1, QueueDoes
    <3>3. Pending(r) = Pending(b) /\ r.qCid = b.qCid
      BY <1>6 DEF SameQueue, Pending
    <3>4. SlotsKept(b, queued) /\ Carried(queued) = Carried(b)
      BY <1>7, <3>2 DEF SlotsKept, SameSlot, SameLine, Carried
    <3> QED
      BY <2>2, <3>2, <3>3, <3>4 DEF Queues
  <2> QED
    BY <2>1, <2>2
<1>9. CASE "FIN" \notin s.flags
  BY <1>1, <1>8, <1>9
<1>10. CASE "FIN" \in s.flags
  <2>1. /\ flags \in SUBSET Flags /\ e \in Seq(ByteType) /\ 1 \in Nat /\ 1 = Weight(flags, e)
        /\ e = <<>> /\ flags = {"FIN", "ACK"}
    BY EmptyData, Weights DEF Flags
  <2> HIDE DEF flags, e
  <2>2. sent = Send(queued, c, flags, e) /\ TypedBoard(queued)
    BY <1>8 DEF sent, Queues
  <2>3. PICK f : f = Segment(queued.conn[c].peer, flags, queued.conn[c].seq, queued.conn[c].peerSeq, e)
    OBVIOUS
  <2>4. /\ queued.conn[c].peer \in Names /\ queued.conn[c].seq \in Nat /\ queued.conn[c].peerSeq \in Nat
    BY <2>2, BoardFields
  <2>5. f.data = <<>> /\ f.flags = {"FIN", "ACK"}
    <3>1. IsFrame(f, queued.conn[c].peer, flags, queued.conn[c].seq, e)
      BY <2>1, <2>3, <2>4, SegmentTyped
    <3> QED
      BY <2>1, <3>1 DEF IsFrame
  <2>6. Posted(queued, sent, c, 1, f)
    BY <2>1, <2>2, <2>3, SendDoes
  <2>7. /\ TypedBoard(sent) /\ SameQueue(queued, sent) /\ f \in FrameType
        /\ Carried(sent) \subseteq Carried(queued) \cup {f, Damaged}
        /\ \A d \in Slots : /\ sent.conn[d].state = queued.conn[d].state
                            /\ sent.conn[d].peer = queued.conn[d].peer
                            /\ d # c => sent.conn[d].seq = queued.conn[d].seq
    BY <2>6 DEF Posted
  <2>8. n = [sent EXCEPT !.conn[c].state = "LAST_ACK"] /\ "LAST_ACK" \in States
    BY <1>1, <1>10 DEF closed, States
  <2>9. /\ TypedBoard(n) /\ SameQueue(sent, n) /\ Carried(n) = Carried(sent) /\ OthersKept(sent, n, c)
        /\ n.conn[c].state = "LAST_ACK" /\ n.conn[c].peer = sent.conn[c].peer
    <3>1. StateSet(sent, n, c, "LAST_ACK")
      BY <2>7, <2>8, StateDoes
    <3> QED
      BY <3>1 DEF StateSet
  <2>10. SlotsKept(b, queued) /\ Carried(queued) = Carried(b) /\ (s.data = <<>> => SameQueue(b, queued))
    BY <1>8 DEF Queues
  <2>11. OthersKept(b, n, c) /\ n.conn[c].peer = b.conn[c].peer
    BY <2>7, <2>9, <2>10 DEF OthersKept, SlotsKept, SameSlot
  <2>12. s.data = <<>> => SameQueue(b, n)
    BY <2>7, <2>9, <2>10 DEF SameQueue
  <2>13. Carried(n) \subseteq Carried(b) \cup {f, Damaged}
    BY <2>7, <2>9, <2>10
  <2> QED
    BY <1>10, <2>5, <2>7, <2>9, <2>11, <2>12, <2>13
<1> QED
  BY <1>9, <1>10

\* The parts of a pass keep the types.
LEMMA ReceiveTyped ==
    ASSUME NEW b, TypedBoard(b), NEW s \in FrameType
    PROVE  TypedBoard(Receive(b, s))
<1> DEFINE c   == Find(b, s.peer)
           new == Receive(b, s)
           t   == b.conn[c].state
           a1  == Accept(b, c, s)
           a2  == [b EXCEPT !.conn[c].state = "ESTABLISHED"]
           a3  == Established(b, c, s)
           a4  == [b EXCEPT !.conn[c].state = "FREE"]
<1>1. c = None \/ c \in Slots
  BY FindFacts
<1>2. c \in Slots => t \in States
  <2> HIDE DEF c
  <2> QED
    BY BoardFields
<1>3. c = None => new = b
  BY DEF Receive
<1>4. c # None => \/ new = b
                  \/ new = a1
                  \/ new = a2
                  \/ new = a3
                  \/ new = a4
  <2>1. new = CASE c = None -> b
          [] c # None /\ t = "FREE" -> IF "SYN" \in s.flags /\ "ACK" \notin s.flags THEN a1 ELSE b
          [] c # None /\ t = "SYN_RCVD"    -> SynReceived(b, c, s)
          [] c # None /\ t = "ESTABLISHED" -> a3
          [] c # None /\ t = "LAST_ACK"    -> LastAck(b, c, s)
    BY DEF Receive
  <2>2. SynReceived(b, c, s) = a2 \/ SynReceived(b, c, s) = b
    BY DEF SynReceived
  <2>3. LastAck(b, c, s) = a4 \/ LastAck(b, c, s) = b
    BY DEF LastAck
  <2> HIDE DEF a1, a2, a3, a4, new, c, t
  <2> QED
    BY <1>1, <1>2, <2>1, <2>2, <2>3 DEF States
<1>5. ASSUME c \in Slots PROVE TypedBoard(a1) /\ TypedBoard(a2) /\ TypedBoard(a3) /\ TypedBoard(a4)
  <2> HIDE DEF c
  <2>1. TypedBoard(a1)
    <3>1. Accepted(b, a1, c, s.peer)
      BY <1>5, AcceptDoes
    <3> QED
      BY <3>1 DEF Accepted
  <2>2. TypedBoard(a2)
    <3>1. StateSet(b, a2, c, "ESTABLISHED")
      BY <1>5, StateDoes DEF States
    <3> QED
      BY <3>1 DEF StateSet
  <2>3. TypedBoard(a4)
    <3>1. StateSet(b, a4, c, "FREE")
      BY <1>5, StateDoes DEF States
    <3> QED
      BY <3>1 DEF StateSet
  <2>4. TypedBoard(a3)
    <3>1. Queues(b, a3, c, s.data) => TypedBoard(a3)
      BY DEF Queues
    <3> QED
      BY <1>5, <3>1, EstablishedDoes
  <2> QED
    BY <2>1, <2>2, <2>3, <2>4
<1> HIDE DEF a1, a2, a3, a4, new, c
<1> QED
  BY <1>1, <1>3, <1>4, <1>5 DEF new

LEMMA MaintainTyped ==
    ASSUME NEW b, TypedBoard(b)
    PROVE  TypedBoard(Maintain(b)) /\ (~Pending(b) => Maintain(b) = b)
<1>1. CASE Pending(b)
  BY <1>1, MaintainDoes DEF Maintained
<1>2. CASE ~Pending(b)
  <2>1. b.qLen \in Nat /\ b.qOff \in Nat /\ b.qOff <= b.qLen
    BY BoardFields
  <2>2. b.qLen - b.qOff = 0
    BY <1>2, <2>1 DEF Pending
  <2>3. Maintain(b) = b
    BY <2>2 DEF Maintain
  <2> QED
    BY <1>2, <2>3
<1> QED
  BY <1>1, <1>2

LEMMA FlushTyped ==
    ASSUME NEW a, NEW b, TypedBoard(b)
    PROVE  TypedBoard(Flush(a, b))
  BY MaintainTyped DEF Flush

-------------------------------------------------------------------------------
(***************************************************************************)
(* The link and the peers.                                                 *)
(***************************************************************************)
LEMMA AppendFacts ==
    ASSUME NEW S, NEW s \in Seq(S), NEW e \in S
    PROVE  /\ Append(s, e) \in Seq(S) /\ Len(Append(s, e)) = Len(s) + 1
           /\ \A i \in 1 .. Len(s) : Append(s, e)[i] = s[i]
           /\ Append(s, e)[Len(s) + 1] = e
           /\ Items(Append(s, e)) = Items(s) \cup {e}
<1>1. /\ Append(s, e) \in Seq(S) /\ Len(Append(s, e)) = Len(s) + 1 /\ Len(s) \in Nat
      /\ \A i \in 1 .. Len(s) : Append(s, e)[i] = s[i]
      /\ Append(s, e)[Len(s) + 1] = e
  OBVIOUS
<1> DEFINE n == Append(s, e)
           l == Len(s)
<1>2. /\ Len(n) = l + 1 /\ l \in Nat /\ n[l + 1] = e
      /\ \A i \in 1 .. l : n[i] = s[i]
  BY <1>1
<1> HIDE DEF n, l
<1>3. 1 .. l + 1 = (1 .. l) \cup {l + 1}
  BY <1>2
<1>4. {n[i] : i \in 1 .. l + 1} = {s[i] : i \in 1 .. l} \cup {e}
  BY <1>2, <1>3
<1> QED
  BY <1>1, <1>2, <1>4 DEF Items, n, l

LEMMA TailFacts ==
    ASSUME NEW S, NEW s \in Seq(S), s # <<>>
    PROVE  /\ Tail(s) \in Seq(S) /\ Head(s) \in S
           /\ Head(s) \in Items(s) /\ Items(Tail(s)) \subseteq Items(s)
           /\ Len(s) \in Nat /\ Len(s) > 0 /\ Len(Tail(s)) = Len(s) - 1 /\ Head(s) = s[1]
           /\ \A i \in 1 .. Len(s) - 1 : Tail(s)[i] = s[i + 1]
<1>1. /\ Tail(s) \in Seq(S) /\ Head(s) \in S /\ Len(s) \in Nat /\ Len(s) > 0
      /\ Len(Tail(s)) = Len(s) - 1 /\ Head(s) = s[1]
      /\ \A i \in 1 .. Len(s) - 1 : Tail(s)[i] = s[i + 1]
  OBVIOUS
<1>2. Head(s) \in Items(s)
  <2>1. 1 \in 1 .. Len(s)
    BY <1>1
  <2> QED
    BY <1>1, <2>1 DEF Items
<1>3. Items(Tail(s)) \subseteq Items(s)
  <2> DEFINE t == Tail(s)
             l == Len(s)
  <2>1. Len(t) = l - 1 /\ l \in Nat /\ l > 0 /\ \A i \in 1 .. l - 1 : t[i] = s[i + 1]
    BY <1>1
  <2> HIDE DEF t, l
  <2>2. \A i \in 1 .. l - 1 : i + 1 \in 1 .. l
    BY <2>1
  <2>3. {t[i] : i \in 1 .. l - 1} \subseteq {s[i] : i \in 1 .. l}
    BY <2>1, <2>2
  <2> QED
    BY <2>1, <2>3 DEF Items, t, l
<1> QED
  BY <1>1, <1>2, <1>3

LEMMA ItemsEmpty == Items(<<>>) = {}
  BY EmptyData DEF Items

\* Frame f joins those on the link of q.
Joined(link, new, q, f) ==
    /\ TypedLink(new) /\ new[q] = Append(link[q], f)
    /\ \A p \in Peers : p # q => new[p] = link[p]

LEMMA LinkAppend ==
    ASSUME NEW link, TypedLink(link), NEW q \in Peers, NEW f \in FrameType, f.peer = q,
           NEW new, new = [link EXCEPT ![q] = Append(@, f)]
    PROVE  Joined(link, new, q, f)
<1> DEFINE s == link[q]
           t == Append(s, f)
<1>1. link \in [Peers -> Seq(FrameType)] /\ s \in Seq(FrameType)
      /\ \A p \in Peers : \A i \in 1 .. Len(link[p]) : link[p][i].peer = p
  BY DEF TypedLink
<1>2. s = link[q] /\ new = [link EXCEPT ![q] = t]
  OBVIOUS
<1> HIDE DEF s
<1>3. /\ t \in Seq(FrameType) /\ Len(t) = Len(s) + 1 /\ \A i \in 1 .. Len(s) : t[i] = s[i]
      /\ t[Len(s) + 1] = f
  BY <1>1, AppendFacts
<1>4. t = Append(link[q], f)
  BY <1>2
<1> HIDE DEF t
<1>5. /\ new \in [Peers -> Seq(FrameType)] /\ new[q] = t
      /\ \A p \in Peers : p # q => new[p] = link[p]
  BY <1>1, <1>2, <1>3
<1>6. \A i \in 1 .. Len(t) : t[i].peer = q
  <2>1. Len(s) \in Nat /\ \A i \in 1 .. Len(s) : s[i].peer = q
    BY <1>1, <1>2
  <2>2. \A i \in 1 .. Len(t) : i \in 1 .. Len(s) \/ i = Len(s) + 1
    BY <1>3, <2>1
  <2> QED
    BY <1>3, <2>1, <2>2
<1>7. ASSUME NEW p \in Peers, NEW i \in 1 .. Len(new[p])
      PROVE  new[p][i].peer = p
  <2>1. CASE p = q
    BY <1>5, <1>6, <1>7, <2>1
  <2>2. CASE p # q
    BY <1>1, <1>5, <1>7, <2>2
  <2> QED
    BY <2>1, <2>2
<1> QED
  BY <1>4, <1>5, <1>7 DEF TypedLink, Joined

\* The first frame on the link of q is taken.
Taken(link, new, q) ==
    /\ TypedLink(new) /\ new[q] = Tail(link[q])
    /\ \A p \in Peers : p # q => new[p] = link[p]
    /\ Head(link[q]) \in FrameType /\ Head(link[q]).peer = q

LEMMA LinkTail ==
    ASSUME NEW link, TypedLink(link), NEW q \in Peers, link[q] # <<>>,
           NEW new, new = [link EXCEPT ![q] = Tail(@)]
    PROVE  Taken(link, new, q)
<1> DEFINE s == link[q]
           t == Tail(s)
<1>1. link \in [Peers -> Seq(FrameType)] /\ s \in Seq(FrameType)
      /\ \A p \in Peers : \A i \in 1 .. Len(link[p]) : link[p][i].peer = p
  BY DEF TypedLink
<1>2. s = link[q] /\ new = [link EXCEPT ![q] = t] /\ s # <<>>
  OBVIOUS
<1> HIDE DEF s
<1>3. /\ t \in Seq(FrameType) /\ Head(s) \in FrameType /\ Len(s) \in Nat /\ Len(s) > 0
      /\ Len(t) = Len(s) - 1 /\ Head(s) = s[1]
      /\ \A i \in 1 .. Len(s) - 1 : t[i] = s[i + 1]
  BY <1>1, <1>2, TailFacts
<1>4. t = Tail(link[q])
  BY <1>2
<1> HIDE DEF t
<1>5. /\ new \in [Peers -> Seq(FrameType)] /\ new[q] = t
      /\ \A p \in Peers : p # q => new[p] = link[p]
  BY <1>1, <1>2, <1>3
<1>6. \A i \in 1 .. Len(s) : s[i].peer = q
  BY <1>1, <1>2
<1>7. \A i \in 1 .. Len(t) : t[i].peer = q
  <2>1. \A i \in 1 .. Len(t) : i \in 1 .. Len(s) - 1 /\ i + 1 \in 1 .. Len(s)
    BY <1>3
  <2> QED
    BY <1>3, <1>6, <2>1
<1>8. ASSUME NEW p \in Peers, NEW i \in 1 .. Len(new[p])
      PROVE  new[p][i].peer = p
  <2>1. CASE p = q
    BY <1>5, <1>7, <1>8, <2>1
  <2>2. CASE p # q
    BY <1>1, <1>5, <1>8, <2>2
  <2> QED
    BY <2>1, <2>2
<1>9. Head(link[q]) \in FrameType /\ Head(link[q]).peer = q
  <2>1. 1 \in 1 .. Len(s)
    BY <1>3
  <2>2. s[1].peer = q
    BY <1>6, <2>1
  <2> QED
    BY <1>2, <1>3, <2>2
<1> QED
  BY <1>4, <1>5, <1>8, <1>9 DEF TypedLink, Taken

\* A step of peer p leaves it in state st, with segs and frames on its way, and
\* nothing of the board and the other peers changed.
Moved(p, st, segs, frames) ==
    /\ board' = board
    /\ peer' \in [Peers -> PeerType] /\ TypedLink(toBoard') /\ TypedLink(toPeer') /\ lost' \in Nat
    /\ peer'[p] = st /\ toBoard'[p] = segs /\ toPeer'[p] = frames
    /\ \A q \in Peers : q # p => /\ peer'[q] = peer[q] /\ toBoard'[q] = toBoard[q]
                                 /\ toPeer'[q] = toPeer[q]

\* The state of a peer, field by field.
PeerIs(st, state, round, sent, got, next) ==
    /\ st \in PeerType /\ st.state = state /\ st.round = round /\ st.sent = sent
    /\ st.got = got /\ st.next = next

\* Peer p becomes st and sends a segment.
Said(p, st, flags, seq, data) ==
    /\ peer' \in [Peers -> PeerType] /\ peer'[p] = st
    /\ \A q \in Peers : q # p => peer'[q] = peer[q]
    /\ TypedLink(toBoard')
    /\ \A q \in Peers : q # p => toBoard'[q] = toBoard[q]
    /\ \E s \in FrameType : /\ IsFrame(s, p, flags, seq, data)
                            /\ toBoard'[p] = Append(toBoard[p], s)

LEMMA SaysDoes ==
    ASSUME Typed, NEW p \in Peers, NEW st \in PeerType, NEW flags \in SUBSET Flags,
           NEW seq \in Nat, NEW data \in Seq(ByteType), Says(p, st, flags, seq, data)
    PROVE  Said(p, st, flags, seq, data)
<1>1. PICK s : s = Segment(p, flags, seq, st.next, data)
  OBVIOUS
<1>2. p \in Names /\ st.next \in Nat
  BY PeerFields DEF Names
<1>3. IsFrame(s, p, flags, seq, data)
  BY <1>1, <1>2, SegmentTyped
<1>4. s \in FrameType /\ s.peer = p
  BY <1>3 DEF IsFrame
<1>5. TypedLink(toBoard) /\ peer \in [Peers -> PeerType]
  BY DEF Typed
<1>6. peer' = [peer EXCEPT ![p] = st] /\ toBoard' = [toBoard EXCEPT ![p] = Append(@, s)]
  BY <1>1 DEF Says
<1>7. Joined(toBoard, toBoard', p, s)
  BY <1>4, <1>5, <1>6, LinkAppend
<1>8. /\ TypedLink(toBoard') /\ toBoard'[p] = Append(toBoard[p], s)
      /\ \A q \in Peers : q # p => toBoard'[q] = toBoard[q]
  BY <1>7 DEF Joined
<1>9. /\ peer' \in [Peers -> PeerType] /\ peer'[p] = st
      /\ \A q \in Peers : q # p => peer'[q] = peer[q]
  BY <1>5, <1>6
<1> QED
  BY <1>3, <1>4, <1>8, <1>9 DEF Said

\* ... and nothing else happens but on the link to it.
Spoke(p, st, flags, seq, data, frames) ==
    \E s \in FrameType : /\ IsFrame(s, p, flags, seq, data)
                         /\ Moved(p, st, Append(toBoard[p], s), frames)

LEMMA SaidMoves ==
    ASSUME Typed, NEW p \in Peers, NEW st, NEW flags, NEW seq, NEW data,
           Said(p, st, flags, seq, data), UNCHANGED <<board, toPeer, lost>>
    PROVE  Spoke(p, st, flags, seq, data, toPeer[p])
<1>1. PICK s \in FrameType : /\ IsFrame(s, p, flags, seq, data)
                             /\ toBoard'[p] = Append(toBoard[p], s)
  BY DEF Said
<1>2. /\ peer' \in [Peers -> PeerType] /\ peer'[p] = st
      /\ \A q \in Peers : q # p => peer'[q] = peer[q]
      /\ TypedLink(toBoard')
      /\ \A q \in Peers : q # p => toBoard'[q] = toBoard[q]
  BY DEF Said
<1>3. board' = board /\ toPeer' = toPeer /\ lost' \in Nat /\ TypedLink(toPeer')
  BY DEF Typed
<1>4. Moved(p, st, Append(toBoard[p], s), toPeer[p])
  BY <1>1, <1>2, <1>3 DEF Moved
<1> QED
  BY <1>1, <1>4 DEF Spoke

\* The state of p before the step.
LEMMA OldState ==
    ASSUME Typed, NEW p \in Peers
    PROVE  /\ peer[p] \in PeerType
           /\ PeerIs(peer[p], peer[p].state, peer[p].round, peer[p].sent, peer[p].got, peer[p].next)
           /\ toBoard[p] \in Seq(FrameType) /\ toPeer[p] \in Seq(FrameType)
  BY DEF Typed, TypedLink, PeerIs

LEMMA StreamFacts ==
    ASSUME Typed, NEW p \in Peers, NEW m \in Nat, NEW n \in Nat, m <= n
    PROVE  /\ Stream(p, m, n) \in Seq(ByteType) /\ Len(Stream(p, m, n)) = n - m
           /\ \A i \in 1 .. n - m : Stream(p, m, n)[i] = Byte(p, peer[p].round, m + i)
<1> DEFINE r == peer[p].round
           F == [i \in 1 .. n - m |-> Byte(p, r, m + i)]
<1>1. r \in Nat /\ p \in Names
  BY OldState, PeerFields DEF Names
<1>2. Stream(p, m, n) = F
  BY DEF Stream
<1> HIDE DEF r
<1>3. \A i \in 1 .. n - m : Byte(p, r, m + i) \in ByteType
  BY <1>1 DEF Byte, ByteType
<1>4. n - m \in Nat
  OBVIOUS
<1>5. F \in Seq(ByteType) /\ Len(F) = n - m
  BY <1>3, <1>4
<1>6. \A i \in 1 .. n - m : F[i] = Byte(p, r, m + i)
  OBVIOUS
<1> QED
  BY <1>2, <1>5, <1>6 DEF r

\* A connection is opened.
LEMMA ConnectDoes ==
    ASSUME Typed, NEW p \in Peers, Connect(p)
    PROVE  /\ Silence(p)
           /\ \E st : /\ PeerIs(st, "syn", peer[p].round + 1, 0, <<>>, 0)
                      /\ Spoke(p, st, {"SYN"}, 0, <<>>, toPeer[p])
<1> DEFINE e  == <<>>
           F  == {"SYN"}
           st == [state |-> "syn", round |-> peer[p].round + 1, sent |-> 0,
                  got |-> e, next |-> 0, tries |-> 0]
<1>1. peer[p].round + 1 \in Nat
  BY OldState, PeerFields
<1>2. e \in Seq(ByteType) /\ F \in SUBSET Flags /\ 0 \in Nat
  BY EmptyData DEF Flags
<1>3. Silence(p) /\ Says(p, st, F, 0, e) /\ UNCHANGED <<board, toPeer, lost>>
  BY DEF Connect
<1> HIDE DEF e, F
<1>4. PeerIs(st, "syn", peer[p].round + 1, 0, e, 0)
  BY <1>1, <1>2 DEF PeerIs, PeerType
<1> HIDE DEF st
<1>5. Said(p, st, F, 0, e)
  BY <1>2, <1>3, <1>4, SaysDoes DEF PeerIs
<1>6. Spoke(p, st, F, 0, e, toPeer[p])
  BY <1>3, <1>5, SaidMoves
<1> QED
  BY <1>3, <1>4, <1>6 DEF e, F

\* The next bytes are sent.
LEMMA SendDataDoes ==
    ASSUME Typed, NEW p \in Peers, NEW n \in 1 .. MaxSeg, SendData(p, n)
    PROVE  /\ peer[p].state = "open" /\ p \in Senders
           /\ \/ ~Waiting(p)
              \/ peer[p].sent + n - Len(peer[p].got) <= Pipeline
           /\ \E st : /\ PeerIs(st, "open", peer[p].round, peer[p].sent + n, peer[p].got, peer[p].next)
                      /\ Spoke(p, st, {"ACK"}, peer[p].sent + 1,
                               Stream(p, peer[p].sent, peer[p].sent + n), toPeer[p])
<1> DEFINE F  == {"ACK"}
           o  == peer[p]
           d  == Stream(p, peer[p].sent, peer[p].sent + n)
           s2 == o.sent + n
           st == [o EXCEPT !.sent = s2]
<1>1. n \in Nat /\ peer[p].sent \in Nat
  BY NumberFacts, OldState, PeerFields
<1>2. d \in Seq(ByteType) /\ F \in SUBSET Flags /\ peer[p].sent + 1 \in Nat /\ s2 \in Nat
  <2>1. peer[p].sent + n \in Nat /\ peer[p].sent <= peer[p].sent + n
    BY <1>1
  <2>2. Stream(p, peer[p].sent, peer[p].sent + n) \in Seq(ByteType)
    BY <1>1, <2>1, StreamFacts
  <2> QED
    BY <1>1, <2>1, <2>2 DEF Flags
<1>3. /\ p \in Senders /\ o.state = "open"
      /\ \/ ~Waiting(p)
         \/ peer[p].sent + n - Len(peer[p].got) <= Pipeline
      /\ Says(p, st, F, peer[p].sent + 1, d) /\ UNCHANGED <<board, toPeer, lost>>
  BY DEF SendData
<1>4. o \in PeerType /\ o = peer[p] /\ s2 = peer[p].sent + n
  BY OldState
<1> HIDE DEF F, o, d, s2
<1>5. st \in PeerType
  BY <1>2, <1>4, Zenon DEF PeerType
<1>6. PeerIs(st, "open", o.round, s2, o.got, o.next)
  BY <1>3, <1>4, <1>5 DEF PeerIs, PeerType
<1> HIDE DEF st
<1>7. Said(p, st, F, peer[p].sent + 1, d)
  BY <1>2, <1>3, <1>5, SaysDoes
<1>8. Spoke(p, st, F, peer[p].sent + 1, d, toPeer[p])
  BY <1>3, <1>7, SaidMoves
<1> QED
  BY <1>3, <1>4, <1>6, <1>8 DEF F, d

\* The connection is closed; the peer goes away.
LEMMA CloseDoes ==
    ASSUME Typed, NEW p \in Peers, Close(p)
    PROVE  /\ peer[p].state = "open" /\ ~Waiting(p)
           /\ \E st : /\ PeerIs(st, "fin", peer[p].round, peer[p].sent, peer[p].got, peer[p].next)
                      /\ Spoke(p, st, {"FIN", "ACK"}, peer[p].sent + 1, <<>>, toPeer[p])
<1> DEFINE e  == <<>>
           F  == {"FIN", "ACK"}
           o  == peer[p]
           st == [o EXCEPT !.state = "fin"]
<1>1. peer[p].sent + 1 \in Nat
  BY OldState, PeerFields
<1>2. e \in Seq(ByteType) /\ F \in SUBSET Flags
  BY EmptyData DEF Flags
<1>3. /\ o.state = "open" /\ ~Waiting(p)
      /\ Says(p, st, F, peer[p].sent + 1, e) /\ UNCHANGED <<board, toPeer, lost>>
  BY DEF Close
<1>4. o \in PeerType /\ o = peer[p]
  BY OldState
<1> HIDE DEF e, F, o
<1>5. st \in PeerType
  BY <1>4, Zenon DEF PeerType
<1>6. PeerIs(st, "fin", o.round, o.sent, o.got, o.next)
  BY <1>4, <1>5 DEF PeerIs, PeerType
<1> HIDE DEF st
<1>7. Said(p, st, F, peer[p].sent + 1, e)
  BY <1>1, <1>2, <1>3, <1>5, SaysDoes
<1>8. Spoke(p, st, F, peer[p].sent + 1, e, toPeer[p])
  BY <1>3, <1>7, SaidMoves
<1> QED
  BY <1>3, <1>4, <1>6, <1>8 DEF e, F

LEMMA VanishDoes ==
    ASSUME Typed, NEW p \in Peers, Vanish(p)
    PROVE  \E st : /\ PeerIs(st, "closed", peer[p].round, peer[p].sent, peer[p].got, peer[p].next)
                   /\ Moved(p, st, toBoard[p], toPeer[p])
<1> DEFINE o  == peer[p]
           st == [o EXCEPT !.state = "closed"]
<1>1. o \in PeerType /\ o = peer[p] /\ peer \in [Peers -> PeerType]
  BY OldState DEF Typed
<1>2. peer' = [peer EXCEPT ![p] = st] /\ UNCHANGED <<board, toBoard, toPeer, lost>>
  BY DEF Vanish
<1> HIDE DEF o
<1>3. st \in PeerType
  BY <1>1, Zenon DEF PeerType
<1>4. PeerIs(st, "closed", o.round, o.sent, o.got, o.next)
  BY <1>1, <1>3 DEF PeerIs, PeerType
<1> HIDE DEF st
<1>5. Moved(p, st, toBoard[p], toPeer[p])
  BY <1>1, <1>2, <1>3 DEF Moved, Typed
<1> QED
  BY <1>1, <1>4, <1>5

\* The peer's timer.
LEMMA RetryDoes ==
    ASSUME Typed, NEW p \in Peers, Retry(p)
    PROVE  /\ Silence(p)
           /\ \E st : /\ PeerIs(st, peer[p].state, peer[p].round, peer[p].sent, peer[p].got, peer[p].next)
                      /\ \/ /\ peer[p].state = "syn"
                            /\ Spoke(p, st, {"SYN"}, 0, <<>>, toPeer[p])
                         \/ /\ peer[p].state = "open" /\ Waiting(p)
                            /\ Spoke(p, st, {"ACK"}, Len(peer[p].got) + 1,
                                     Stream(p, Len(peer[p].got), peer[p].sent), toPeer[p])
                         \/ /\ peer[p].state = "fin"
                            /\ Spoke(p, st, {"FIN", "ACK"}, peer[p].sent + 1, <<>>, toPeer[p])
<1> DEFINE e  == <<>>
           F1 == {"SYN"}
           F2 == {"ACK"}
           F3 == {"FIN", "ACK"}
           m  == Len(peer[p].got)
           d  == Stream(p, m, peer[p].sent)
           o  == peer[p]
           t  == o.tries + 1
           st == [o EXCEPT !.tries = t]
<1>1. m \in Nat /\ peer[p].sent \in Nat /\ o \in PeerType /\ o = peer[p] /\ t \in Nat
  BY OldState, PeerFields DEF PeerType
<1>2. /\ e \in Seq(ByteType) /\ F1 \in SUBSET Flags /\ F2 \in SUBSET Flags /\ F3 \in SUBSET Flags
      /\ 0 \in Nat /\ m + 1 \in Nat /\ peer[p].sent + 1 \in Nat
  BY <1>1, EmptyData DEF Flags
<1>3. Waiting(p) => d \in Seq(ByteType)
  <2> SUFFICES ASSUME Waiting(p) PROVE Stream(p, Len(peer[p].got), peer[p].sent) \in Seq(ByteType)
    OBVIOUS
  <2>1. Len(peer[p].got) <= peer[p].sent
    BY <1>1 DEF Waiting
  <2> QED
    BY <1>1, <2>1, StreamFacts
<1>4. /\ Silence(p) /\ UNCHANGED <<board, toPeer, lost>>
      /\ \/ o.state = "syn" /\ Says(p, st, F1, 0, e)
         \/ o.state = "open" /\ Waiting(p) /\ Says(p, st, F2, m + 1, d)
         \/ o.state = "fin" /\ Says(p, st, F3, peer[p].sent + 1, e)
  BY DEF Retry
<1> HIDE DEF e, F1, F2, F3, d, o, t, m
<1>5. st \in PeerType
  BY <1>1, Zenon DEF PeerType
<1>6. PeerIs(st, o.state, o.round, o.sent, o.got, o.next)
  BY <1>1, <1>5 DEF PeerIs, PeerType
<1> HIDE DEF st
<1>7. \/ o.state = "syn" /\ Said(p, st, F1, 0, e)
      \/ o.state = "open" /\ Waiting(p) /\ Said(p, st, F2, m + 1, d)
      \/ o.state = "fin" /\ Said(p, st, F3, peer[p].sent + 1, e)
  <2>1. CASE o.state = "syn" /\ Says(p, st, F1, 0, e)
    BY <1>2, <1>5, <2>1, SaysDoes
  <2>2. CASE o.state = "open" /\ Waiting(p) /\ Says(p, st, F2, m + 1, d)
    BY <1>2, <1>3, <1>5, <2>2, SaysDoes
  <2>3. CASE o.state = "fin" /\ Says(p, st, F3, peer[p].sent + 1, e)
    BY <1>2, <1>5, <2>3, SaysDoes
  <2> QED
    BY <1>4, <2>1, <2>2, <2>3
<1>8. \/ o.state = "syn" /\ Spoke(p, st, F1, 0, e, toPeer[p])
      \/ o.state = "open" /\ Waiting(p) /\ Spoke(p, st, F2, m + 1, d, toPeer[p])
      \/ o.state = "fin" /\ Spoke(p, st, F3, peer[p].sent + 1, e, toPeer[p])
  <2>1. \A x, y, z : Said(p, st, x, y, z) => Spoke(p, st, x, y, z, toPeer[p])
    BY <1>4, SaidMoves
  <2> QED
    BY <1>7, <2>1
<1> QED
  BY <1>1, <1>4, <1>6, <1>8 DEF e, F1, F2, F3, m, d

\* A frame reaches the peer.
LEMMA DeliverDoes ==
    ASSUME Typed, NEW p \in Peers, NEW f, toPeer[p] # <<>>, f = Head(toPeer[p]), Deliver(p)
    PROVE  /\ f \in FrameType /\ f.peer = p
           /\ \/ /\ peer[p].state = "syn" /\ f.flags = {"SYN", "ACK"}
                 /\ \E st : /\ PeerIs(st, "open", peer[p].round, peer[p].sent, peer[p].got, f.seq + 1)
                            /\ Spoke(p, st, {"ACK"}, 1, <<>>, Tail(toPeer[p]))
              \/ /\ peer[p].state = "open" /\ f.data # <<>> /\ f.seq = peer[p].next
                 /\ \E st : /\ PeerIs(st, "open", peer[p].round, peer[p].sent,
                                      peer[p].got \o f.data, peer[p].next + Len(f.data))
                            /\ Spoke(p, st, {"ACK"}, peer[p].sent + 1, <<>>, Tail(toPeer[p]))
              \/ /\ peer[p].state = "fin"
                 /\ \E st : /\ PeerIs(st, "closed", peer[p].round, peer[p].sent, peer[p].got, f.seq + 1)
                            /\ Spoke(p, st, {"ACK"}, peer[p].sent + 2, <<>>, Tail(toPeer[p]))
              \/ Moved(p, peer[p], toBoard[p], Tail(toPeer[p]))
<1> DEFINE e  == <<>>
           F  == {"ACK"}
           o  == peer[p]
           n1 == f.seq + 1
           g2 == o.got \o f.data
           n2 == o.next + Len(f.data)
           s1 == [o EXCEPT !.state = "open", !.next = n1]
           s2 == [o EXCEPT !.got = g2, !.next = n2]
           s3 == [o EXCEPT !.state = "closed", !.next = n1]
<1>1. Taken(toPeer, toPeer', p)
  BY LinkTail DEF Deliver, Typed
<1>2. /\ TypedLink(toPeer') /\ toPeer'[p] = Tail(toPeer[p])
      /\ \A q \in Peers : q # p => toPeer'[q] = toPeer[q]
      /\ f \in FrameType /\ f.peer = p
  BY <1>1 DEF Taken
<1>3. /\ o \in PeerType /\ o.sent \in Nat /\ o.got \in Seq(ByteType) /\ o.next \in Nat
      /\ f.seq \in Nat /\ f.data \in Seq(ByteType) /\ Len(f.data) \in Nat
  BY <1>2, OldState, PeerFields, FrameFields
<1>4. /\ e \in Seq(ByteType) /\ F \in SUBSET Flags /\ 1 \in Nat /\ o.sent + 1 \in Nat
      /\ o.sent + 2 \in Nat /\ n1 \in Nat /\ n2 \in Nat
  BY <1>3, EmptyData DEF Flags
<1>5. g2 \in Seq(ByteType)
  BY <1>3
<1>6. /\ board' = board /\ lost' = lost
      /\ \/ /\ o.state = "syn" /\ f.flags = {"SYN", "ACK"} /\ Says(p, s1, F, 1, e)
         \/ /\ o.state = "open" /\ f.data # <<>> /\ f.seq = o.next /\ Says(p, s2, F, o.sent + 1, e)
         \/ /\ o.state = "fin" /\ Says(p, s3, F, o.sent + 2, e)
         \/ UNCHANGED <<peer, toBoard>>
  BY DEF Deliver, TakeIn
<1>7. o = peer[p]
  OBVIOUS
<1> HIDE DEF e, F, o, n1, g2, n2
<1>8. s1 \in PeerType /\ s2 \in PeerType /\ s3 \in PeerType
  <2>1. s1 \in PeerType
    BY <1>3, <1>4, Zenon DEF PeerType
  <2>2. s2 \in PeerType
    BY <1>3, <1>4, <1>5, Zenon DEF PeerType
  <2>3. s3 \in PeerType
    BY <1>3, <1>4, Zenon DEF PeerType
  <2> QED
    BY <2>1, <2>2, <2>3
<1>9. /\ PeerIs(s1, "open", o.round, o.sent, o.got, n1)
      /\ o.state = "open" => PeerIs(s2, "open", o.round, o.sent, g2, n2)
      /\ PeerIs(s3, "closed", o.round, o.sent, o.got, n1)
  BY <1>3, <1>8 DEF PeerIs, PeerType
<1> HIDE DEF s1, s2, s3
<1>10. ASSUME NEW st, NEW seq, Said(p, st, F, seq, e)
       PROVE  Spoke(p, st, F, seq, e, Tail(toPeer[p]))
  <2>1. PICK s \in FrameType : /\ IsFrame(s, p, F, seq, e)
                               /\ toBoard'[p] = Append(toBoard[p], s)
    BY <1>10 DEF Said
  <2>2. /\ peer' \in [Peers -> PeerType] /\ peer'[p] = st
        /\ \A q \in Peers : q # p => peer'[q] = peer[q]
        /\ TypedLink(toBoard')
        /\ \A q \in Peers : q # p => toBoard'[q] = toBoard[q]
    BY <1>10 DEF Said
  <2>3. board' = board /\ lost' \in Nat
    BY <1>6 DEF Typed
  <2>4. Moved(p, st, Append(toBoard[p], s), Tail(toPeer[p]))
    BY <1>2, <2>1, <2>2, <2>3 DEF Moved
  <2> QED
    BY <2>1, <2>4 DEF Spoke
<1>11. CASE o.state = "syn" /\ f.flags = {"SYN", "ACK"} /\ Says(p, s1, F, 1, e)
  <2>1. Said(p, s1, F, 1, e)
    BY <1>4, <1>8, <1>11, SaysDoes
  <2>2. Spoke(p, s1, F, 1, e, Tail(toPeer[p]))
    BY <1>10, <2>1
  <2> QED
    BY <1>2, <1>7, <1>9, <1>11, <2>2 DEF e, F, n1
<1>12. CASE /\ o.state = "open" /\ f.data # <<>> /\ f.seq = o.next
            /\ Says(p, s2, F, o.sent + 1, e)
  <2>1. Said(p, s2, F, o.sent + 1, e)
    BY <1>4, <1>8, <1>12, SaysDoes
  <2>2. Spoke(p, s2, F, o.sent + 1, e, Tail(toPeer[p]))
    BY <1>10, <2>1
  <2> QED
    BY <1>2, <1>7, <1>9, <1>12, <2>2 DEF e, F, g2, n2
<1>13. CASE o.state = "fin" /\ Says(p, s3, F, o.sent + 2, e)
  <2>1. Said(p, s3, F, o.sent + 2, e)
    BY <1>4, <1>8, <1>13, SaysDoes
  <2>2. Spoke(p, s3, F, o.sent + 2, e, Tail(toPeer[p]))
    BY <1>10, <2>1
  <2> QED
    BY <1>2, <1>7, <1>9, <1>13, <2>2 DEF e, F, n1
<1>14. CASE UNCHANGED <<peer, toBoard>>
  <2>1. Moved(p, peer[p], toBoard[p], Tail(toPeer[p]))
    BY <1>2, <1>6, <1>14 DEF Moved, Typed
  <2> QED
    BY <1>2, <2>1
<1> QED
  BY <1>6, <1>11, <1>12, <1>13, <1>14

\* A frame is lost.
LEMMA LoseDoes ==
    ASSUME Typed, NEW p \in Peers, Lose(p)
    PROVE  \/ toBoard[p] # <<>> /\ Moved(p, peer[p], Tail(toBoard[p]), toPeer[p])
           \/ toPeer[p] # <<>> /\ Moved(p, peer[p], toBoard[p], Tail(toPeer[p]))
<1>1. /\ UNCHANGED <<board, peer>> /\ lost' \in Nat
      /\ peer \in [Peers -> PeerType] /\ TypedLink(toBoard) /\ TypedLink(toPeer)
  BY DEF Lose, Typed
<1>2. CASE toBoard[p] # <<>> /\ toBoard' = [toBoard EXCEPT ![p] = Tail(@)] /\ UNCHANGED toPeer
  <2>1. Taken(toBoard, toBoard', p)
    BY <1>1, <1>2, LinkTail
  <2> QED
    BY <1>1, <1>2, <2>1 DEF Moved, Taken
<1>3. CASE toPeer[p] # <<>> /\ toPeer' = [toPeer EXCEPT ![p] = Tail(@)] /\ UNCHANGED toBoard
  <2>1. Taken(toPeer, toPeer', p)
    BY <1>1, <1>3, LinkTail
  <2> QED
    BY <1>1, <1>3, <2>1 DEF Moved, Taken
<1> QED
  BY <1>2, <1>3 DEF Lose

\* A frame leaves the board: it joins those on their way to its peer.
LEMMA LeavesDoes ==
    ASSUME Typed, NEW f \in FrameType, Leaves(f)
    PROVE  \/ toPeer' = toPeer
           \/ f.peer \in Peers /\ Joined(toPeer, toPeer', f.peer, f)
<1>1. CASE f = Damaged
  BY <1>1 DEF Leaves
<1>2. CASE f # Damaged /\ f.peer \in Peers
  BY <1>2, LinkAppend DEF Leaves, Typed
<1>3. CASE f # Damaged /\ f.peer \notin Peers
  BY <1>3 DEF Leaves, Typed, TypedLink
<1> QED
  BY <1>1, <1>2, <1>3

-------------------------------------------------------------------------------
(***************************************************************************)
(* Types.                                                                  *)
(***************************************************************************)
LEMMA InitTyped == Init => Typed
<1> SUFFICES ASSUME Init PROVE Typed
  OBVIOUS
<1> DEFINE e  == <<>>
           F  == {}
           L  == [p \in Peers |-> e]
           st == [state |-> "closed", round |-> 0, sent |-> 0, got |-> e, next |-> 0, tries |-> 0]
           slot == [state |-> "FREE", peer |-> NoPeer, seq |-> 0, peerSeq |-> 0]
           buf  == [i \in 1 .. SendBuf |-> Stale]
           C    == [c \in Slots |-> slot]
           B    == [c \in Slots |-> buf]
<1>1. e \in Seq(ByteType) /\ e \in Seq(FrameType) /\ Len(e) = 0
  BY EmptyData
<1>2. /\ board = [conn |-> C, bufs |-> B, qLen |-> 0, qOff |-> 0, qCid |-> 0,
                  region |-> Damaged, txReq |-> FALSE, mac |-> F]
      /\ peer = [p \in Peers |-> st] /\ toBoard = L /\ toPeer = L /\ lost = 0
  BY DEF Init
<1>3. F \in SUBSET FrameType /\ FALSE \in BOOLEAN
  OBVIOUS
<1> HIDE DEF e, F
<1>4. slot \in SlotType /\ st \in PeerType /\ Stale \in ByteType
  BY <1>1 DEF SlotType, PeerType, States, Names, Stale, ByteType
<1> HIDE DEF slot, st
<1>5. C \in [Slots -> SlotType] /\ peer \in [Peers -> PeerType]
  BY <1>2, <1>4
<1>6. B \in [Slots -> [1 .. SendBuf -> ByteType]]
  BY <1>4
<1>7. 0 \in 0 .. SendBuf /\ 0 \in Slots
  BY TcpAssumption DEF Slots
<1>8. TypedLink(L)
  BY <1>1 DEF TypedLink
<1> HIDE DEF L, C, B
<1>9. board \in BoardType
  BY <1>2, <1>3, <1>5, <1>6, <1>7, DamagedTyped DEF BoardType
<1>10. board.qOff <= board.qLen
  BY <1>2
<1> QED
  BY <1>2, <1>5, <1>8, <1>9, <1>10 DEF Typed, TypedBoard

LEMMA MovedTyped ==
    ASSUME Typed, NEW p, NEW st, NEW segs, NEW frames, Moved(p, st, segs, frames)
    PROVE  Typed'
  BY DEF Typed, Moved

LEMMA SpokeTyped ==
    ASSUME Typed, NEW p, NEW st, NEW flags, NEW seq, NEW data, NEW frames,
           Spoke(p, st, flags, seq, data, frames)
    PROVE  Typed'
  BY MovedTyped DEF Spoke

LEMMA StepTyped == Typed /\ [Next]_vars => Typed'
<1> SUFFICES ASSUME Typed, [Next]_vars PROVE Typed'
  OBVIOUS
<1>1. TypedBoard(board) /\ TypedLink(toBoard) /\ TypedLink(toPeer)
  BY DEF Typed
<1>2. \A done : TypedBoard(Transmit(board, done))
  BY <1>1, TransmitDoes
<1>3. CASE QuietPass
  <2>1. TypedBoard(board')
    BY <1>2, <1>3, FlushTyped DEF QuietPass
  <2> QED
    BY <1>3, <2>1 DEF QuietPass, Typed
<1>4. CASE SentPass
  <2>1. TypedBoard(board')
    BY <1>2, <1>4, FlushTyped DEF SentPass
  <2>2. PICK f \in board.mac : Leaves(f)
    BY <1>4 DEF SentPass
  <2>3. f \in FrameType
    BY <1>1, <2>2, BoardFields
  <2>4. TypedLink(toPeer')
    <3>1. \/ toPeer' = toPeer
          \/ f.peer \in Peers /\ Joined(toPeer, toPeer', f.peer, f)
      BY <2>2, <2>3, LeavesDoes
    <3> QED
      BY <1>1, <3>1 DEF Joined
  <2> QED
    BY <1>4, <2>1, <2>4 DEF SentPass, Typed
<1>5. ASSUME NEW p \in Peers, RxPass(p) PROVE Typed'
  <2>1. Taken(toBoard, toBoard', p)
    BY <1>1, <1>5, LinkTail DEF RxPass
  <2>2. TypedLink(toBoard') /\ Head(toBoard[p]) \in FrameType
    BY <2>1 DEF Taken
  <2>3. TypedBoard(Receive(Transmit(board, FALSE), Head(toBoard[p])))
    BY <1>2, <2>2, ReceiveTyped
  <2>4. TypedBoard(board')
    BY <1>5, <2>3, FlushTyped DEF RxPass
  <2> QED
    BY <1>5, <2>2, <2>4 DEF RxPass, Typed
<1>6. ASSUME NEW p \in Peers, PeerStep(p) PROVE Typed'
  <2>1. CASE Connect(p)
    BY <2>1, ConnectDoes, SpokeTyped
  <2>2. CASE Close(p)
    BY <2>2, CloseDoes, SpokeTyped
  <2>3. CASE Vanish(p)
    BY <2>3, VanishDoes, MovedTyped
  <2>4. CASE Deliver(p)
    <3>1. toPeer[p] # <<>>
      BY <2>4 DEF Deliver
    <3> QED
      BY <2>4, <3>1, DeliverDoes, MovedTyped, SpokeTyped
  <2>5. CASE Lose(p)
    BY <2>5, LoseDoes, MovedTyped
  <2>6. CASE Retry(p)
    BY <2>6, RetryDoes, SpokeTyped
  <2>7. ASSUME NEW n \in 1 .. MaxSeg, SendData(p, n) PROVE Typed'
    BY <2>7, SendDataDoes, SpokeTyped
  <2> QED
    BY <1>6, <2>1, <2>2, <2>3, <2>4, <2>5, <2>6, <2>7 DEF PeerStep
<1>7. CASE UNCHANGED vars
  BY <1>7 DEF vars, Typed
<1> QED
  BY <1>3, <1>4, <1>5, <1>6, <1>7 DEF Next

\* Slots, queue indices, frames and peers keep their types; the queue indices never
\* leave the buffer, whatever is received while an echo waits (tcp_queue,
\* tcp_maintenance).
THEOREM TypeCorrect == Spec => []TypeOK
<1>1. Typed => TypeOK
  <2> SUFFICES ASSUME Typed PROVE TypeOK
    OBVIOUS
  <2>1. TypedBoard(board)
    BY DEF Typed
  <2>2. board.qOff \in 0 .. board.qLen
    BY <2>1, BoardFields
  <2>3. board.conn \in [Slots -> [state : States, peer : Peers \cup {NoPeer}, seq : Nat, peerSeq : Nat]]
    BY <2>1, BoardFields DEF SlotType, Names
  <2>4. \A c \in Slots : DOMAIN board.bufs[c] = 1 .. SendBuf
    BY <2>1, BoardFields
  <2>5. board.qLen \in 0 .. SendBuf /\ board.qCid \in Slots /\ board.txReq \in BOOLEAN
    BY <2>1, BoardFields
  <2> QED
    BY <2>2, <2>3, <2>4, <2>5 DEF TypeOK
<1> QED
  BY InitTyped, StepTyped, <1>1, PTL DEF Spec

-------------------------------------------------------------------------------
(***************************************************************************)
(* What keeps the order.                                                   *)
(***************************************************************************)

\* Slot c goes on serving p when nothing but what is on its way becomes less.
LEMMA ServesKept ==
    ASSUME NEW b, NEW n, NEW st, NEW st2, NEW frames, NEW frames2, NEW p, NEW c,
           Serves(b, st, frames, p, c), SameQueue(b, n),
           n.conn[c].peer = p, n.conn[c].state \in {"SYN_RCVD", "ESTABLISHED"},
           n.conn[c].seq = b.conn[c].seq,
           st2.round = st.round, st2.sent = st.sent, st2.got = st.got, st2.next = st.next,
           Echoes(n, frames2, p) \subseteq Echoes(b, frames, p)
    PROVE  Serves(n, st2, frames2, p, c)
<1>1. Right(b, st, frames, p, c) => Right(n, st2, frames2, p, c)
  BY DEF Right, SameQueue, Pending
<1>2. Beyond(b, st, frames, p, c) => Beyond(n, st2, frames2, p, c)
  BY DEF Beyond
<1> QED
  BY <1>1, <1>2 DEF Serves

\* What a step has to leave of the slots of p and of what is on its way.
Kept(b, n, st, frames, frames2, p) ==
    /\ SameQueue(b, n)
    /\ \A f \in OnWay(n, frames2, p) :
         \/ f \in OnWay(b, frames, p)
         \/ /\ f.data = <<>>
            /\ st.state = "syn" /\ f.flags = {"SYN", "ACK"} => f.seq = 0 /\ Fresh(n, p)
    /\ st.state = "syn" /\ Fresh(b, p) => Fresh(n, p)
    /\ st.state = "open" =>
         \A c \in Slots : b.conn[c].peer = p /\ b.conn[c].state \in {"SYN_RCVD", "ESTABLISHED"} =>
            /\ n.conn[c].peer = p /\ n.conn[c].state \in {"SYN_RCVD", "ESTABLISHED"}
            /\ n.conn[c].seq = b.conn[c].seq

\* Segments may be taken, frames may go from the transmitter to the link and from
\* there to the peer or get lost, and answers without data may join them.
LEMMA PeerKeeps ==
    ASSUME NEW b, NEW n, NEW st, NEW segs, NEW segs2, NEW frames, NEW frames2, NEW p,
           PeerOK(b, st, segs, frames, p), EchoesToSenders(b),
           Items(segs2) \subseteq Items(segs), AtMostOne(segs) => AtMostOne(segs2),
           p \in Senders => Kept(b, n, st, frames, frames2, p),
           Items(frames2) \subseteq Items(frames) \cup OnWay(b, frames, p)
    PROVE  PeerOK(n, st, segs2, frames2, p)
<1>1. Received(st, p)
  BY DEF PeerOK
<1>2. CASE p \notin Senders
  <2>1. ListenerOK(st, segs, frames)
    BY <1>2 DEF PeerOK
  <2>2. \A f \in OnWay(b, frames, p) : f.data = <<>>
    BY <1>2, <2>1 DEF OnWay, EchoesToSenders, ListenerOK, Silent
  <2>3. ListenerOK(st, segs2, frames2)
    BY <2>1, <2>2 DEF ListenerOK, Silent
  <2> QED
    BY <1>1, <1>2, <2>3 DEF PeerOK
<1>3. CASE p \in Senders
  <2>1. SenderOK(b, st, segs, frames, p) /\ Kept(b, n, st, frames, frames2, p)
    BY <1>3 DEF PeerOK
  <2>2. SameQueue(b, n) /\ Pending(n) = Pending(b)
    BY <2>1 DEF Kept, SameQueue, Pending
  <2>3. Echoes(n, frames2, p) \subseteq Echoes(b, frames, p)
    BY <2>1 DEF Kept, Echoes
  <2>4. Leaving(segs2) => Closes(n, segs2)
    BY <2>1, <2>2 DEF SenderOK, Leaving, Closes, Silent
  <2>5. st.state = "fin" => Closes(n, segs2)
    BY <2>1, <2>2 DEF SenderOK, Closes, Silent
  <2>6. ASSUME st.state = "syn" PROVE Opens(n, st, segs2, frames2, p)
    <3>1. Opens(b, st, segs, frames, p)
      BY <2>1, <2>6 DEF SenderOK
    <3>2. ASSUME NEW f \in OnWay(n, frames2, p), f.flags = {"SYN", "ACK"}
          PROVE  f.seq = 0 /\ Fresh(n, p)
      BY <2>1, <2>6, <3>1, <3>2 DEF Kept, Opens
    <3> QED
      BY <2>2, <2>3, <3>1, <3>2 DEF Opens
  <2>7. ASSUME st.state = "open" PROVE IsOpen(n, st, segs2, frames2, p)
    <3>1. IsOpen(b, st, segs, frames, p)
      BY <2>1, <2>7 DEF SenderOK
    <3>2. PICK c \in Slots : Serves(b, st, frames, p, c)
      BY <3>1 DEF IsOpen
    <3>3. /\ n.conn[c].peer = p /\ n.conn[c].state \in {"SYN_RCVD", "ESTABLISHED"}
          /\ n.conn[c].seq = b.conn[c].seq
      BY <2>1, <2>7, <3>2 DEF Kept, Serves
    <3>4. Serves(n, st, frames2, p, c)
      BY <2>2, <2>3, <3>2, <3>3, ServesKept
    <3>5. ASSUME NEW s \in Items(segs2), s.data # <<>>
          PROVE  Outstanding(n, st, frames2, p, s)
      <4>1. Outstanding(b, st, frames, p, s)
        BY <3>1, <3>5 DEF IsOpen
      <4> QED
        BY <2>2, <2>3, <4>1 DEF Outstanding
    <3> QED
      BY <3>1, <3>4, <3>5 DEF IsOpen
  <2>8. SenderOK(n, st, segs2, frames2, p)
    BY <2>4, <2>5, <2>6, <2>7 DEF SenderOK
  <2> QED
    BY <1>1, <1>3, <2>8 DEF PeerOK
<1> QED
  BY <1>2, <1>3

\* The first segment gone, the others stay in their order.
LEMMA TailKeeps ==
    ASSUME NEW s \in Seq(FrameType), s # <<>>
    PROVE  /\ Items(Tail(s)) \subseteq Items(s)
           /\ AtMostOne(s) => AtMostOne(Tail(s))
           /\ AtMostOne(s) /\ Head(s).data # <<>> => Silent(Tail(s))
<1> DEFINE t == Tail(s)
           l == Len(s)
<1>1. /\ Items(t) \subseteq Items(s) /\ l \in Nat /\ l > 0 /\ Len(t) = l - 1
      /\ Head(s) = s[1] /\ \A i \in 1 .. l - 1 : t[i] = s[i + 1]
  BY TailFacts
<1>2. l = Len(s) /\ t = Tail(s)
  OBVIOUS
<1> HIDE DEF t, l
<1>3. AtMostOne(s) => AtMostOne(t)
  <2> SUFFICES ASSUME AtMostOne(s), NEW i \in 1 .. l - 1, NEW j \in 1 .. l - 1,
                      t[i].data # <<>>, t[j].data # <<>>
               PROVE  i = j
    BY <1>1 DEF AtMostOne
  <2>1. i + 1 \in 1 .. l /\ j + 1 \in 1 .. l
    BY <1>1
  <2>2. s[i + 1].data # <<>> /\ s[j + 1].data # <<>>
    BY <1>1
  <2>3. i + 1 = j + 1
    BY <1>2, <2>1, <2>2 DEF AtMostOne
  <2> QED
    BY <2>3
<1>4. AtMostOne(s) /\ s[1].data # <<>> => Silent(t)
  <2> SUFFICES ASSUME AtMostOne(s), s[1].data # <<>>, NEW i \in 1 .. l - 1
               PROVE  t[i].data = <<>>
    BY <1>1 DEF Silent, Items
  <2>1. i + 1 \in 1 .. l /\ 1 \in 1 .. l /\ i + 1 # 1
    BY <1>1
  <2> QED
    BY <1>1, <1>2, <2>1 DEF AtMostOne
<1> QED
  BY <1>1, <1>2, <1>3, <1>4

LEMMA BoardKeeps ==
    ASSUME NEW b, NEW n, BoardOK(b), SameQueue(b, n), Pending(b) => SameSlot(b, n, b.qCid),
           \A f \in Carried(n) : f \in Carried(b) \/ f.data = <<>>
    PROVE  BoardOK(n)
  BY DEF BoardOK, QueueOwned, EchoesToSenders, SameQueue, SameSlot, Pending

\* A call that leaves the links alone.
LEMMA AllKeep ==
    ASSUME NEW b, NEW n, NEW pr, NEW tb, NEW tp, Ordered(b, pr, tb, tp), BoardOK(n),
           \A p \in Senders : Kept(b, n, pr[p], tp[p], tp[p], p)
    PROVE  Ordered(n, pr, tb, tp)
<1>1. ASSUME NEW p \in Peers PROVE PeerOK(n, pr[p], tb[p], tp[p], p)
  <2>1. PeerOK(b, pr[p], tb[p], tp[p], p) /\ EchoesToSenders(b)
    BY DEF Ordered, BoardOK
  <2>2. p \in Senders => Kept(b, n, pr[p], tp[p], tp[p], p)
    OBVIOUS
  <2> QED
    BY <2>1, <2>2, PeerKeeps
<1> QED
  BY <1>1 DEF Ordered

\* The transmitter goes on; a frame may leave it.
LEMMA TransmitOrdered ==
    ASSUME NEW b, TypedBoard(b), NEW pr, NEW tb, NEW tp, NEW tp2, Ordered(b, pr, tb, tp),
           \A p \in Peers : Items(tp2[p]) \subseteq Items(tp[p]) \cup OnWay(b, tp[p], p),
           NEW done, NEW n, n = Transmit(b, done)
    PROVE  Ordered(n, pr, tb, tp2)
<1>1. SlotsKept(b, n) /\ SameQueue(b, n) /\ Carried(n) \subseteq Carried(b)
  BY TransmitDoes
<1>2. BoardOK(n)
  <2>1. SameSlot(b, n, b.qCid)
    BY <1>1, BoardFields DEF SlotsKept
  <2> QED
    BY <1>1, <2>1, BoardKeeps DEF Ordered
<1>3. ASSUME NEW p \in Peers PROVE Kept(b, n, pr[p], tp[p], tp2[p], p)
  <2>1. OnWay(n, tp2[p], p) \subseteq OnWay(b, tp[p], p)
    BY <1>1 DEF OnWay
  <2>2. Fresh(b, p) => Fresh(n, p)
    BY <1>1 DEF Fresh, SlotsKept, SameSlot
  <2> QED
    BY <1>1, <2>1, <2>2 DEF Kept, SlotsKept, SameSlot
<1>4. ASSUME NEW p \in Peers PROVE PeerOK(n, pr[p], tb[p], tp2[p], p)
  <2>1. PeerOK(b, pr[p], tb[p], tp[p], p) /\ EchoesToSenders(b)
    BY DEF Ordered, BoardOK
  <2> QED
    BY <1>3, <2>1, PeerKeeps
<1> QED
  BY <1>2, <1>4 DEF Ordered

\* A segment s of q reaches the board, others are still on their way.
Arrives(b, st, rest, frames, q, s) ==
    /\ s \in FrameType /\ s.peer = q
    /\ q \notin Senders => s.data = <<>>
    /\ q \in Senders =>
         /\ "FIN" \in s.flags => s.data = <<>> /\ ~Pending(b)
         /\ s.data # <<>> => ~Leaving(rest)
         /\ st.state = "open" => /\ "FIN" \notin s.flags
                                 /\ s.data # <<>> => /\ Outstanding(b, st, frames, q, s)
                                                     /\ Silent(rest)
         /\ st.state = "syn" => s.flags = {"SYN"} /\ s.data = <<>>
         /\ st.state = "fin" => s.data = <<>>

LEMMA HeadArrives ==
    ASSUME NEW b, NEW st, NEW segs \in Seq(FrameType), segs # <<>>, NEW frames, NEW q,
           NEW s, s = Head(segs), s.peer = q, PeerOK(b, st, segs, frames, q)
    PROVE  Arrives(b, st, Tail(segs), frames, q, s)
<1>1. s \in FrameType /\ s \in Items(segs) /\ Items(Tail(segs)) \subseteq Items(segs)
  BY TailFacts
<1>2. CASE q \notin Senders
  BY <1>1, <1>2 DEF PeerOK, ListenerOK, Silent, Arrives
<1>3. CASE q \in Senders
  <2>1. SenderOK(b, st, segs, frames, q)
    BY <1>3 DEF PeerOK
  <2>2. "FIN" \in s.flags => s.data = <<>> /\ ~Pending(b)
    BY <1>1, <2>1 DEF SenderOK, Leaving, Closes, Silent
  <2>3. s.data # <<>> => ~Leaving(Tail(segs))
    BY <1>1, <2>1 DEF SenderOK, Leaving, Closes, Silent
  <2>4. ASSUME st.state = "open"
        PROVE  /\ "FIN" \notin s.flags
               /\ s.data # <<>> => Outstanding(b, st, frames, q, s) /\ Silent(Tail(segs))
    <3>1. IsOpen(b, st, segs, frames, q)
      BY <2>1, <2>4 DEF SenderOK
    <3> QED
      BY <1>1, <3>1, TailKeeps DEF IsOpen
  <2>5. st.state = "syn" => s.flags = {"SYN"} /\ s.data = <<>>
    BY <1>1, <2>1 DEF SenderOK, Opens
  <2>6. st.state = "fin" => s.data = <<>>
    BY <1>1, <2>1 DEF SenderOK, Closes, Silent
  <2> QED
    BY <1>1, <1>3, <2>2, <2>3, <2>4, <2>5, <2>6 DEF Arrives
<1> QED
  BY <1>2, <1>3

\* Without the segment everything else is as it was.
LEMMA FewerSegments ==
    ASSUME NEW b, NEW pr, NEW tb, NEW tb2, NEW tp, Ordered(b, pr, tb, tp),
           NEW q \in Peers, tb[q] \in Seq(FrameType), tb[q] # <<>>, tb2[q] = Tail(tb[q]),
           \A p \in Peers : p # q => tb2[p] = tb[p]
    PROVE  Ordered(b, pr, tb2, tp)
<1>1. ASSUME NEW p \in Peers PROVE PeerOK(b, pr[p], tb2[p], tp[p], p)
  <2>1. PeerOK(b, pr[p], tb[p], tp[p], p) /\ EchoesToSenders(b)
    BY DEF Ordered, BoardOK
  <2>2. Items(tb2[p]) \subseteq Items(tb[p]) /\ (AtMostOne(tb[p]) => AtMostOne(tb2[p]))
    BY TailKeeps
  <2>3. Kept(b, b, pr[p], tp[p], tp[p], p)
    BY DEF Kept, SameQueue
  <2> QED
    BY <2>1, <2>2, <2>3, PeerKeeps
<1> QED
  BY <1>1 DEF Ordered

\* The acknowledgement that T_SYN_RCVD or T_LAST_ACK waits for.
LEMMA StateOrdered ==
    ASSUME NEW b, TypedBoard(b), NEW pr, NEW tb, NEW tp, Ordered(b, pr, tb, tp),
           NEW q \in Peers, NEW s, NEW rest, Arrives(b, pr[q], rest, tp[q], q, s), "ACK" \in s.flags,
           NEW c \in Slots, b.conn[c].peer = q, NEW st \in States,
           \/ b.conn[c].state = "SYN_RCVD" /\ st = "ESTABLISHED"
           \/ b.conn[c].state = "LAST_ACK" /\ st = "FREE",
           NEW n, n = [b EXCEPT !.conn[c].state = st]
    PROVE  Ordered(n, pr, tb, tp)
<1>1. StateSet(b, n, c, st)
  BY StateDoes
<1>2. /\ SameQueue(b, n) /\ Carried(n) = Carried(b)
      /\ \A d \in Slots : d # c => SameSlot(b, n, d)
      /\ n.conn[c].state = st /\ n.conn[c].peer = b.conn[c].peer /\ n.conn[c].seq = b.conn[c].seq
  BY <1>1 DEF StateSet, OthersKept
<1>3. BoardOK(n)
  <2>1. Pending(b) => b.qCid \in Slots /\ b.qCid # c
    BY BoardFields DEF Ordered, BoardOK, QueueOwned
  <2> QED
    BY <1>2, <2>1, BoardKeeps DEF Ordered
<1>4. ASSUME NEW p \in Senders PROVE Kept(b, n, pr[p], tp[p], tp[p], p)
  <2>1. OnWay(n, tp[p], p) = OnWay(b, tp[p], p)
    BY <1>2 DEF OnWay
  <2>2. ASSUME pr[p].state = "syn", Fresh(b, p) PROVE Fresh(n, p)
    <3>1. PICK d \in Slots : b.conn[d].peer = p /\ b.conn[d].state = "SYN_RCVD" /\ b.conn[d].seq = 1
      BY <2>2 DEF Fresh
    <3>2. q # p
      BY <2>2 DEF Arrives
    <3>3. SameSlot(b, n, d)
      BY <1>2, <3>1, <3>2
    <3> QED
      BY <3>1, <3>3 DEF Fresh, SameSlot
  <2>3. ASSUME NEW d \in Slots, b.conn[d].peer = p, b.conn[d].state \in {"SYN_RCVD", "ESTABLISHED"}
        PROVE  /\ n.conn[d].peer = p /\ n.conn[d].state \in {"SYN_RCVD", "ESTABLISHED"}
               /\ n.conn[d].seq = b.conn[d].seq
    <3>1. CASE d = c
      BY <1>2, <2>3, <3>1
    <3>2. CASE d # c
      BY <1>2, <2>3, <3>2 DEF SameSlot
    <3> QED
      BY <3>1, <3>2
  <2> QED
    BY <1>2, <2>1, <2>2, <2>3 DEF Kept
<1> QED
  BY <1>3, <1>4, AllKeep

\* A SYN finds a free slot.
LEMMA AcceptOrdered ==
    ASSUME NEW b, TypedBoard(b), NEW pr, NEW tb, NEW tp, Ordered(b, pr, tb, tp),
           NEW q \in Peers, NEW s \in FrameType, s.peer = q,
           NEW c \in Slots, b.conn[c].state = "FREE",
           \A d \in Slots : b.conn[d].state # "FREE" => b.conn[d].peer # q,
           NEW n, n = Accept(b, c, s)
    PROVE  Ordered(n, pr, tb, tp)
<1>1. /\ SameQueue(b, n) /\ \A d \in Slots : d # c => SameSlot(b, n, d)
      /\ n.conn[c].state = "SYN_RCVD" /\ n.conn[c].peer = q /\ n.conn[c].seq = 1
  <2>1. Accepted(b, n, c, s.peer)
    BY AcceptDoes
  <2> QED
    BY <2>1 DEF Accepted, OthersKept
<1>2. PICK f \in FrameType : /\ f.peer = q /\ f.seq = 0 /\ f.data = <<>>
                             /\ Carried(n) \subseteq Carried(b) \cup {f, Damaged}
  <2>1. Accepted(b, n, c, s.peer)
    BY AcceptDoes
  <2> QED
    BY <2>1 DEF Accepted
<1>3. BoardOK(n)
  <2>1. Pending(b) => b.qCid \in Slots /\ b.qCid # c
    BY BoardFields DEF Ordered, BoardOK, QueueOwned
  <2>2. \A g \in Carried(n) : g \in Carried(b) \/ g.data = <<>>
    BY <1>2, DamagedTyped
  <2> QED
    BY <1>1, <2>1, <2>2, BoardKeeps DEF Ordered
<1>4. ASSUME NEW p \in Senders PROVE Kept(b, n, pr[p], tp[p], tp[p], p)
  <2>1. p # NoPeer
    BY NumberFacts
  <2>2. ASSUME NEW g \in OnWay(n, tp[p], p), g \notin OnWay(b, tp[p], p)
        PROVE  g.data = <<>> /\ g.seq = 0 /\ p = q
    <3>1. g = f
      BY <1>2, <2>1, <2>2, DamagedTyped DEF OnWay
    <3> QED
      BY <1>2, <2>2, <3>1 DEF OnWay
  <2>3. Fresh(n, q)
    BY <1>1 DEF Fresh
  <2>4. \A d \in Slots : b.conn[d].state \in {"SYN_RCVD", "ESTABLISHED"} => SameSlot(b, n, d)
    BY <1>1
  <2>5. Fresh(b, p) => Fresh(n, p)
    BY <2>4 DEF Fresh, SameSlot
  <2>6. \A d \in Slots : b.conn[d].peer = p /\ b.conn[d].state \in {"SYN_RCVD", "ESTABLISHED"} =>
           /\ n.conn[d].peer = p /\ n.conn[d].state \in {"SYN_RCVD", "ESTABLISHED"}
           /\ n.conn[d].seq = b.conn[d].seq
    BY <2>4 DEF SameSlot
  <2> QED
    BY <1>1, <2>2, <2>3, <2>5, <2>6 DEF Kept
<1> QED
  BY <1>3, <1>4, AllKeep

\* A FIN of an established connection.
LEMMA FinOrdered ==
    ASSUME NEW b, TypedBoard(b), NEW pr, NEW tb, NEW tp, Ordered(b, pr, tb, tp),
           NEW q \in Peers, NEW s, NEW rest, Arrives(b, pr[q], rest, tp[q], q, s), "FIN" \in s.flags,
           NEW c \in Slots, b.conn[c].peer = q,
           NEW n, n = Established(b, c, s)
    PROVE  Ordered(n, pr, tb, tp)
<1>1. s \in FrameType /\ s.data = <<>> /\ (q \in Senders => ~Pending(b))
  BY DEF Arrives
<1>2. /\ SameQueue(b, n) /\ \A d \in Slots : d # c => SameSlot(b, n, d)
  BY <1>1, EstablishedDoes DEF OthersKept
<1>3. PICK f \in FrameType : /\ f.flags = {"FIN", "ACK"} /\ f.data = <<>>
                             /\ Carried(n) \subseteq Carried(b) \cup {f, Damaged}
  BY <1>1, EstablishedDoes
<1>4. BoardOK(n)
  <2>1. Pending(b) => b.qCid \in Slots /\ b.qCid # c
    BY <1>1, BoardFields DEF Ordered, BoardOK, QueueOwned
  <2>2. \A g \in Carried(n) : g \in Carried(b) \/ g.data = <<>>
    BY <1>3, DamagedTyped
  <2> QED
    BY <1>2, <2>1, <2>2, BoardKeeps DEF Ordered
<1>5. ASSUME NEW p \in Senders PROVE Kept(b, n, pr[p], tp[p], tp[p], p)
  <2>1. p # NoPeer
    BY NumberFacts
  <2>2. {"FIN", "ACK"} # {"SYN", "ACK"}
    OBVIOUS
  <2>3. ASSUME NEW g \in OnWay(n, tp[p], p), g \notin OnWay(b, tp[p], p)
        PROVE  g.data = <<>> /\ g.flags # {"SYN", "ACK"}
    <3>1. g = f
      BY <1>3, <2>1, <2>3, DamagedTyped DEF OnWay
    <3> QED
      BY <1>3, <2>2, <3>1
  <2>4. pr[p].state \in {"syn", "open"} => p # q
    BY DEF Arrives
  <2>5. ASSUME pr[p].state \in {"syn", "open"}, NEW d \in Slots, b.conn[d].peer = p
        PROVE  SameSlot(b, n, d)
    BY <1>2, <2>4, <2>5
  <2>6. pr[p].state = "syn" /\ Fresh(b, p) => Fresh(n, p)
    BY <2>5 DEF Fresh, SameSlot
  <2>7. pr[p].state = "open" =>
         \A d \in Slots : b.conn[d].peer = p /\ b.conn[d].state \in {"SYN_RCVD", "ESTABLISHED"} =>
           /\ n.conn[d].peer = p /\ n.conn[d].state \in {"SYN_RCVD", "ESTABLISHED"}
           /\ n.conn[d].seq = b.conn[d].seq
    BY <2>5 DEF SameSlot
  <2> QED
    BY <1>2, <2>3, <2>6, <2>7 DEF Kept
<1> QED
  BY <1>4, <1>5, AllKeep

\* The slot that serves p is the one in use that belongs to it.
LEMMA OwnSlot ==
    ASSUME NEW b, Apart(b), NEW st, NEW segs, NEW frames, NEW p, IsOpen(b, st, segs, frames, p),
           NEW c \in Slots, b.conn[c].peer = p, b.conn[c].state # "FREE"
    PROVE  Serves(b, st, frames, p, c)
<1>1. PICK d \in Slots : Serves(b, st, frames, p, d)
  BY DEF IsOpen
<1>2. d = c
  BY <1>1 DEF Serves, Apart
<1> QED
  BY <1>1, <1>2

\* Data without a FIN.
LEMMA DataOrdered ==
    ASSUME OneAtATime, NEW b, TypedBoard(b), Apart(b), NEW pr, NEW tb, NEW tp,
           Ordered(b, pr, tb, tp), NEW q \in Peers, pr[q] \in PeerType,
           NEW s, Arrives(b, pr[q], tb[q], tp[q], q, s), "FIN" \notin s.flags,
           NEW c \in Slots, b.conn[c].peer = q, b.conn[c].state = "ESTABLISHED",
           NEW n, n = Established(b, c, s)
    PROVE  Ordered(n, pr, tb, tp)
<1> DEFINE st == pr[q]
<1>1. s \in FrameType /\ s.seq \in Nat /\ s.data \in Seq(ByteType) /\ Len(s.data) \in Nat
      /\ (s.data # <<>> => Len(s.data) > 0)
  BY FrameFields DEF Arrives
<1>2. Queues(b, n, c, s.data)
  BY <1>1, EstablishedDoes
<1>3. TypedBoard(n) /\ SlotsKept(b, n) /\ Carried(n) = Carried(b)
  BY <1>2 DEF Queues
<1>4. \A d \in Slots : /\ n.conn[d].state = b.conn[d].state /\ n.conn[d].peer = b.conn[d].peer
                       /\ n.conn[d].seq = b.conn[d].seq
  BY <1>3 DEF SlotsKept, SameSlot
<1>5. \A p, frames : OnWay(n, frames, p) = OnWay(b, frames, p) /\ Echoes(n, frames, p) = Echoes(b, frames, p)
  BY <1>3 DEF OnWay, Echoes
<1>6. CASE s.data = <<>>
  <2>1. SameQueue(b, n)
    BY <1>2, <1>6 DEF Queues
  <2>2. BoardOK(n)
    <3>1. Pending(b) => SameSlot(b, n, b.qCid)
      BY <1>3, BoardFields DEF SlotsKept
    <3> QED
      BY <1>3, <2>1, <3>1, BoardKeeps DEF Ordered
  <2>3. ASSUME NEW p \in Senders PROVE Kept(b, n, pr[p], tp[p], tp[p], p)
    <3>1. Fresh(b, p) => Fresh(n, p)
      BY <1>4 DEF Fresh
    <3> QED
      BY <1>4, <1>5, <2>1, <3>1 DEF Kept
  <2> QED
    BY <2>2, <2>3, AllKeep
<1>7. CASE s.data # <<>>
  <2>1. q \in Senders /\ ~Leaving(tb[q]) /\ st.state # "syn" /\ st.state # "fin"
    BY <1>7 DEF Arrives
  <2>2. EchoesToSenders(n)
    BY <1>3 DEF Ordered, BoardOK, EchoesToSenders
  <2>3. QueueOwned(n)
    <3>1. CASE Pending(b)
      <4>1. n.qCid = b.qCid /\ b.qCid \in Slots
        BY <1>2, <1>7, <3>1, BoardFields DEF Queues
      <4>2. b.conn[b.qCid].state = "ESTABLISHED" /\ b.conn[b.qCid].peer \in Senders
        BY <3>1 DEF Ordered, BoardOK, QueueOwned
      <4> QED
        BY <1>4, <4>1, <4>2 DEF QueueOwned
    <3>2. CASE ~Pending(b)
      <4>1. n.qCid = c
        BY <1>2, <1>7, <3>2 DEF Queues
      <4> QED
        BY <1>4, <2>1, <4>1 DEF QueueOwned
    <3> QED
      BY <3>1, <3>2
  <2>4. ASSUME NEW p \in Peers, p # q PROVE PeerOK(n, pr[p], tb[p], tp[p], p)
    <3>1. p \notin Senders
      BY <2>1, <2>4 DEF OneAtATime
    <3>2. PeerOK(b, pr[p], tb[p], tp[p], p)
      BY DEF Ordered
    <3> QED
      BY <3>1, <3>2 DEF PeerOK
  <2>5. PeerOK(b, st, tb[q], tp[q], q)
    BY DEF Ordered
  <2>6. ASSUME st.state = "open" PROVE IsOpen(n, st, tb[q], tp[q], q)
    <3>1. IsOpen(b, st, tb[q], tp[q], q)
      BY <2>1, <2>5, <2>6 DEF PeerOK, SenderOK
    <3>2. Outstanding(b, st, tp[q], q, s) /\ Silent(tb[q])
      BY <1>7, <2>1, <2>6 DEF Arrives
    <3>3. Serves(b, st, tp[q], q, c)
      BY <3>1, OwnSlot
    <3> DEFINE k == b.conn[c].seq
    <3>4. /\ st.sent \in Nat /\ st.next \in Nat /\ Len(st.got) \in Nat /\ st.round \in Nat
          /\ k \in Nat /\ n.qLen \in Nat /\ n.qOff \in Nat
      BY <1>3, BoardFields, PeerFields
    <3>5. /\ s.seq = st.next /\ s.seq + Len(s.data) <= st.sent + 1
          /\ \A i \in 1 .. Len(s.data) : s.data[i] = Byte(q, st.round, s.seq + i - 1)
          /\ ~Pending(b)
          /\ \A f \in Echoes(b, tp[q], q) : f.seq # st.next
      BY <3>2 DEF Outstanding, InPlace
    <3>6. n.qOff = 0 /\ n.qLen <= Len(s.data) /\ \A i \in 1 .. n.qLen : n.bufs[c][i] = s.data[i]
      BY <1>2, <1>7, <3>5 DEF Queues
    <3>7. n.conn[c].seq = k /\ st.next <= k /\ st.next = Len(st.got) + 1
      BY <1>4, <3>1, <3>3 DEF Serves, IsOpen
    <3>8. CASE st.next = k
      <4>1. Right(b, st, tp[q], q, c)
        BY <3>3, <3>4, <3>8 DEF Serves, Beyond
      <4>2. k + (n.qLen - n.qOff) <= st.sent + 1
        <5> DEFINE l == Len(s.data)
                   y == st.sent
                   x == n.qLen
        <5>1. l \in Nat /\ y \in Nat /\ x \in Nat /\ k \in Nat /\ k + l <= y + 1 /\ x <= l /\ n.qOff = 0
          BY <1>1, <3>4, <3>5, <3>6, <3>8
        <5> HIDE DEF k, l, x, y
        <5>2. k + (x - 0) <= y + 1
          BY ONLY <5>1
        <5> QED
          BY <5>1, <5>2 DEF x, y
      <4>3. ASSUME NEW i \in 1 .. n.qLen - n.qOff
            PROVE  n.bufs[c][n.qOff + i] = Byte(q, st.round, k + i - 1)
        <5>1. i \in 1 .. n.qLen /\ i \in 1 .. Len(s.data) /\ n.qOff + i = i
          BY <1>1, <3>4, <3>6
        <5>2. n.bufs[c][i] = s.data[i] /\ s.data[i] = Byte(q, st.round, s.seq + i - 1)
          BY <3>5, <3>6, <5>1
        <5> QED
          BY <3>5, <3>8, <5>1, <5>2
      <4>4. Right(n, st, tp[q], q, c)
        BY <1>5, <3>7, <4>1, <4>2, <4>3 DEF Right
      <4>5. Serves(n, st, tp[q], q, c)
        BY <1>4, <3>7, <4>4 DEF Serves
      <4> QED
        BY <3>1, <3>2, <4>5 DEF IsOpen, Silent
    <3>9. CASE st.next # k
      <4>1. st.next < k /\ Len(st.got) < st.sent
        <5>1. Len(s.data) > 0
          BY <1>1, <1>7
        <5>2. st.next + Len(s.data) <= st.sent + 1
          BY <3>5
        <5>3. /\ Len(s.data) \in Nat /\ st.sent \in Nat /\ st.next \in Nat /\ Len(st.got) \in Nat
              /\ k \in Nat /\ st.next <= k /\ st.next = Len(st.got) + 1
          BY <1>1, <3>4, <3>7
        <5> DEFINE l == Len(s.data)
                   g == Len(st.got)
                   x == st.next
                   y == st.sent
        <5>4. /\ l \in Nat /\ y \in Nat /\ x \in Nat /\ g \in Nat /\ k \in Nat /\ x <= k /\ x = g + 1
              /\ l > 0 /\ x + l <= y + 1 /\ x # k
          BY <3>9, <5>1, <5>2, <5>3
        <5> HIDE DEF k, l, g, x, y
        <5>5. x < k /\ g < y
          BY ONLY <5>4
        <5> QED
          BY <5>5 DEF x, g, y
      <4>2. Beyond(n, st, tp[q], q, c)
        BY <1>5, <3>5, <3>7, <4>1 DEF Beyond
      <4>3. Serves(n, st, tp[q], q, c)
        BY <1>4, <3>7, <4>2 DEF Serves
      <4> QED
        BY <3>1, <3>2, <4>3 DEF IsOpen, Silent
    <3> QED
      BY <3>8, <3>9
  <2>7. PeerOK(n, st, tb[q], tp[q], q)
    BY <2>1, <2>5, <2>6 DEF PeerOK, SenderOK
  <2> QED
    BY <2>2, <2>3, <2>4, <2>7 DEF Ordered, BoardOK
<1> QED
  BY <1>6, <1>7

\* tcp_rx_process.
LEMMA ReceiveOrdered ==
    ASSUME OneAtATime, NEW b, TypedBoard(b), Apart(b), NEW pr, NEW tb, NEW tp,
           Ordered(b, pr, tb, tp), NEW q \in Peers, pr[q] \in PeerType,
           NEW s, Arrives(b, pr[q], tb[q], tp[q], q, s)
    PROVE  Ordered(Receive(b, s), pr, tb, tp)
<1> DEFINE c   == Find(b, q)
           new == Receive(b, s)
           t   == b.conn[c].state
           a1  == Accept(b, c, s)
           a2  == [b EXCEPT !.conn[c].state = "ESTABLISHED"]
           a3  == Established(b, c, s)
           a4  == [b EXCEPT !.conn[c].state = "FREE"]
<1>1. s \in FrameType /\ s.peer = q
  BY DEF Arrives
<1>2. \/ c = None
      \/ /\ c \in Slots
         /\ t = "FREE" => \A d \in Slots : b.conn[d].state # "FREE" => b.conn[d].peer # q
         /\ t # "FREE" => b.conn[c].peer = q
  BY FindFacts
<1>3. new = CASE c = None -> b
          [] c # None /\ t = "FREE" -> IF "SYN" \in s.flags /\ "ACK" \notin s.flags THEN a1 ELSE b
          [] c # None /\ t = "SYN_RCVD"    -> SynReceived(b, c, s)
          [] c # None /\ t = "ESTABLISHED" -> a3
          [] c # None /\ t = "LAST_ACK"    -> LastAck(b, c, s)
  BY <1>1 DEF Receive
<1>4. SynReceived(b, c, s) = b \/ (SynReceived(b, c, s) = a2 /\ "ACK" \in s.flags)
  <2>1. SynReceived(b, c, s) = IF "ACK" \in s.flags /\ s.ack = b.conn[c].seq THEN a2 ELSE b
    BY DEF SynReceived
  <2> HIDE DEF a2, c
  <2> QED
    BY <2>1
<1>5. LastAck(b, c, s) = b \/ (LastAck(b, c, s) = a4 /\ "ACK" \in s.flags)
  <2>1. LastAck(b, c, s) = IF "ACK" \in s.flags THEN a4 ELSE b
    BY DEF LastAck
  <2> HIDE DEF a4, c
  <2> QED
    BY <2>1
<1> HIDE DEF c, new
<1>6. c \in Slots => t \in States
  BY BoardFields
<1> HIDE DEF a1, a2, a3, a4
<1>7. CASE c = None
  BY <1>3, <1>7 DEF new
<1>8. CASE c \in Slots /\ c # None /\ t = "FREE"
  <2>1. Ordered(a1, pr, tb, tp)
    BY <1>1, <1>2, <1>8, AcceptOrdered DEF a1
  <2>2. new = a1 \/ new = b
    BY <1>3, <1>8
  <2> QED
    BY <2>1, <2>2 DEF new
<1>9. CASE c \in Slots /\ c # None /\ t = "SYN_RCVD"
  <2>1. (new = a2 /\ "ACK" \in s.flags) \/ new = b
    BY <1>3, <1>4, <1>9
  <2>2. ASSUME "ACK" \in s.flags PROVE Ordered(a2, pr, tb, tp)
    <3>1. "ESTABLISHED" \in States /\ b.conn[c].peer = q
      BY <1>2, <1>9 DEF States
    <3> QED
      BY <1>9, <2>2, <3>1, StateOrdered DEF a2
  <2> QED
    BY <2>1, <2>2 DEF new
<1>10. CASE c \in Slots /\ c # None /\ t = "ESTABLISHED"
  <2>1. new = a3 /\ b.conn[c].peer = q
    BY <1>2, <1>3, <1>10
  <2>2. CASE "FIN" \in s.flags
    BY <1>10, <2>1, <2>2, FinOrdered DEF new, a3
  <2>3. CASE "FIN" \notin s.flags
    BY <1>10, <2>1, <2>3, DataOrdered DEF new, a3
  <2> QED
    BY <2>2, <2>3
<1>11. CASE c \in Slots /\ c # None /\ t = "LAST_ACK"
  <2>1. (new = a4 /\ "ACK" \in s.flags) \/ new = b
    BY <1>3, <1>5, <1>11
  <2>2. ASSUME "ACK" \in s.flags PROVE Ordered(a4, pr, tb, tp)
    <3>1. "FREE" \in States /\ b.conn[c].peer = q
      BY <1>2, <1>11 DEF States
    <3> QED
      BY <1>11, <2>2, <3>1, StateOrdered DEF a4
  <2> QED
    BY <2>1, <2>2 DEF new
<1> QED
  BY <1>2, <1>6, <1>7, <1>8, <1>9, <1>10, <1>11 DEF States

\* tcp_maintenance: the next bytes leave the queue.
LEMMA MaintainOrdered ==
    ASSUME OneAtATime, NEW b, TypedBoard(b), Apart(b), NEW pr \in [Peers -> PeerType], NEW tb, NEW tp,
           TypedLink(tp), Ordered(b, pr, tb, tp), Pending(b), NEW n, n = Maintain(b)
    PROVE  Ordered(n, pr, tb, tp)
<1> DEFINE c == b.qCid
           q == b.conn[c].peer
           st == pr[q]
           x == b.conn[c].seq
           rest == b.qLen - b.qOff
<1>1. /\ c \in Slots /\ b.conn[c].state = "ESTABLISHED" /\ q \in Senders /\ q \in Peers
      /\ x \in Nat /\ rest \in Nat /\ b.qOff \in Nat /\ st \in PeerType
  <2>1. c \in Slots /\ b.conn[c].state = "ESTABLISHED" /\ q \in Senders
    BY BoardFields DEF Ordered, BoardOK, QueueOwned
  <2>2. x \in Nat
    BY <2>1, BoardFields
  <2>3. q \in Peers
    BY <2>1, NumberFacts
  <2>4. st \in PeerType
    BY <2>3
  <2>5. rest \in Nat /\ b.qOff \in Nat
    BY BoardFields
  <2> QED
    BY <2>1, <2>2, <2>3, <2>4, <2>5
<1>2. PICK k \in Nat, f \in FrameType : Maintained(b, n, k, f)
  BY MaintainDoes
<1>3. /\ k > 0 /\ k <= rest /\ f.peer = q /\ f.seq = x /\ Len(f.data) = k
      /\ \A i \in 1 .. k : f.data[i] = b.bufs[c][b.qOff + i]
      /\ n.qCid = c /\ n.bufs = b.bufs
      /\ \/ k = rest /\ n.qLen = 0 /\ n.qOff = 0
         \/ k < rest /\ n.qLen - n.qOff = rest - k /\ n.qOff = b.qOff + k
      /\ n.conn[c].peer = q /\ n.conn[c].state = "ESTABLISHED" /\ n.conn[c].seq = x + k
      /\ Carried(n) \subseteq Carried(b) \cup {f, Damaged}
  <2>1. b.qLen \in Nat /\ b.qOff \in Nat
    BY BoardFields
  <2>2. /\ k > 0 /\ k <= rest /\ f.peer = q /\ f.seq = x /\ Len(f.data) = k
        /\ \A i \in 1 .. k : f.data[i] = b.bufs[c][b.qOff + i]
        /\ n.qCid = c /\ n.bufs = b.bufs
        /\ Carried(n) \subseteq Carried(b) \cup {f, Damaged}
    BY <1>2 DEF Maintained
  <2>3. \/ k = rest /\ n.qLen = 0 /\ n.qOff = 0
        \/ k < rest /\ n.qLen = b.qLen /\ n.qOff = b.qOff + k
    BY <1>2 DEF Maintained
  <2>4. b.qLen - (b.qOff + k) = rest - k
    BY ONLY <2>1
  <2>5. n.conn[c].peer = q /\ n.conn[c].state = "ESTABLISHED" /\ n.conn[c].seq = x + k
    BY <1>1, <1>2 DEF Maintained
  <2> HIDE DEF rest, q, c, x
  <2> QED
    BY <2>2, <2>3, <2>4, <2>5
<1>4. BoardOK(n)
  <2>1. QueueOwned(n)
    BY <1>1, <1>3 DEF QueueOwned
  <2>2. EchoesToSenders(n)
    BY <1>1, <1>3, DamagedTyped DEF Ordered, BoardOK, EchoesToSenders
  <2> QED
    BY <2>1, <2>2 DEF BoardOK
<1>5. ASSUME NEW p \in Peers, p # q PROVE PeerOK(n, pr[p], tb[p], tp[p], p)
  <2>1. p \notin Senders
    BY <1>1, <1>5 DEF OneAtATime
  <2>2. PeerOK(b, pr[p], tb[p], tp[p], p)
    BY DEF Ordered
  <2> QED
    BY <2>1, <2>2 DEF PeerOK
<1>6. PeerOK(b, st, tb[q], tp[q], q) /\ SenderOK(b, st, tb[q], tp[q], q)
  BY <1>1 DEF Ordered, PeerOK
<1>7. ~Leaving(tb[q]) /\ st.state # "syn" /\ st.state # "fin"
  BY <1>6 DEF SenderOK, Closes, Opens
<1>8. \A g \in Echoes(n, tp[q], q) : g \in Echoes(b, tp[q], q) \/ g = f
  <2>1. Damaged.data = <<>>
    BY DamagedTyped
  <2> QED
    BY <1>3, <2>1 DEF Echoes, OnWay
<1>9. ASSUME st.state = "open" PROVE IsOpen(n, st, tb[q], tp[q], q)
  <2>1. IsOpen(b, st, tb[q], tp[q], q)
    BY <1>6, <1>9 DEF SenderOK
  <2>2. Serves(b, st, tp[q], q, c)
    BY <1>1, <2>1, OwnSlot
  <2>3. Silent(tb[q])
    BY <2>1 DEF IsOpen, Outstanding, Silent
  <2>4. st.sent \in Nat /\ st.next \in Nat /\ st.round \in Nat
    BY <1>1, PeerFields
  <2> HIDE DEF c, q, st, x, rest
  <2>5. CASE Right(b, st, tp[q], q, c)
    <3>1. /\ x <= st.sent + 1
          /\ \A g \in Echoes(b, tp[q], q) : g.seq + Len(g.data) <= x /\ InPlace(q, st.round, g.seq, g.data)
          /\ x + rest <= st.sent + 1
          /\ \A i \in 1 .. rest : b.bufs[c][b.qOff + i] = Byte(q, st.round, x + i - 1)
      BY <2>5 DEF Right, x, rest
    <3>2. x + k <= st.sent + 1
      BY <1>1, <1>3, <2>4, <3>1
    <3>3. InPlace(q, st.round, f.seq, f.data)
      <4>1. \A i \in 1 .. k : i \in 1 .. rest
        BY <1>1, <1>3
      <4> QED
        BY <1>3, <3>1, <4>1 DEF InPlace
    <3>4. ASSUME NEW g \in Echoes(n, tp[q], q)
          PROVE  g.seq + Len(g.data) <= x + k /\ InPlace(q, st.round, g.seq, g.data)
      <4>1. CASE g = f
        BY <1>1, <1>3, <3>3, <4>1
      <4>2. CASE g \in Echoes(b, tp[q], q)
        <5>1. g.seq + Len(g.data) <= x /\ InPlace(q, st.round, g.seq, g.data)
          BY <3>1, <4>2
        <5>2. g \in FrameType
          BY <1>1, <4>2, CarriedTyped, ItemsTyped DEF Echoes, OnWay, TypedLink
        <5>3. g.seq \in Nat /\ Len(g.data) \in Nat
          BY <5>2, FrameFields
        <5> QED
          BY <1>1, <5>1, <5>3
      <4> QED
        BY <1>8, <4>1, <4>2
    <3>5. ASSUME Pending(n)
          PROVE  /\ x + k + (n.qLen - n.qOff) <= st.sent + 1
                 /\ \A i \in 1 .. n.qLen - n.qOff :
                      n.bufs[c][n.qOff + i] = Byte(q, st.round, x + k + i - 1)
      <4>1. n.qLen - n.qOff = rest - k /\ n.qOff = b.qOff + k
        BY <1>3, <3>5 DEF Pending
      <4>2. x + k + (rest - k) <= st.sent + 1
        BY <1>1, <2>4, <3>1
      <4>3. ASSUME NEW i \in 1 .. rest - k
            PROVE  n.bufs[c][n.qOff + i] = Byte(q, st.round, x + k + i - 1)
        <5>1. /\ k + i \in 1 .. rest
              /\ n.qOff + i = b.qOff + (k + i) /\ x + k + i - 1 = x + (k + i) - 1
          <6>1. k + i \in 1 .. rest
            BY <1>1, <1>3
          <6>2. n.qOff + i = b.qOff + (k + i)
            BY <1>1, <1>3, <4>1
          <6>3. x + k + i - 1 = x + (k + i) - 1
            BY <1>1, <1>3
          <6> QED
            BY <6>1, <6>2, <6>3
        <5>2. b.bufs[c][b.qOff + (k + i)] = Byte(q, st.round, x + (k + i) - 1)
          BY <3>1, <5>1
        <5> QED
          BY <1>3, <5>1, <5>2
      <4> QED
        BY <4>1, <4>2, <4>3
    <3>6. Right(n, st, tp[q], q, c)
      BY <1>3, <3>2, <3>4, <3>5 DEF Right
    <3>7. st.next <= x + k
      BY <1>1, <1>3, <2>2, <2>4 DEF Serves, x
    <3>8. Serves(n, st, tp[q], q, c)
      BY <1>3, <3>6, <3>7 DEF Serves
    <3> QED
      BY <1>1, <2>1, <2>3, <3>8 DEF IsOpen, Silent
  <2>6. CASE Beyond(b, st, tp[q], q, c)
    <3>1. st.next < x /\ Len(st.got) < st.sent /\ \A g \in Echoes(b, tp[q], q) : g.seq # st.next
      BY <2>6 DEF Beyond, x
    <3>2. st.next < x + k /\ f.seq # st.next
      BY <1>1, <1>3, <2>4, <3>1
    <3>3. Beyond(n, st, tp[q], q, c)
      BY <1>3, <1>8, <3>1, <3>2 DEF Beyond
    <3>4. st.next <= x + k
      BY <1>1, <2>4, <3>2
    <3>5. Serves(n, st, tp[q], q, c)
      BY <1>3, <3>3, <3>4 DEF Serves
    <3> QED
      BY <1>1, <2>1, <2>3, <3>5 DEF IsOpen, Silent
  <2> QED
    BY <2>2, <2>5, <2>6 DEF Serves
<1>10. PeerOK(n, st, tb[q], tp[q], q)
  BY <1>1, <1>6, <1>7, <1>9 DEF PeerOK, SenderOK
<1> QED
  BY <1>4, <1>5, <1>10 DEF Ordered

LEMMA FlushOrdered ==
    ASSUME OneAtATime, NEW a, NEW b, TypedBoard(b), Apart(b), NEW pr \in [Peers -> PeerType],
           NEW tb, NEW tp, TypedLink(tp), Ordered(b, pr, tb, tp)
    PROVE  Ordered(Flush(a, b), pr, tb, tp)
<1>1. CASE Pending(b)
  BY <1>1, MaintainOrdered DEF Flush
<1>2. CASE ~Pending(b)
  BY <1>2, MaintainTyped DEF Flush
<1> QED
  BY <1>1, <1>2

-------------------------------------------------------------------------------
(***************************************************************************)
(* The steps of the peers.                                                 *)
(***************************************************************************)
LEMMA MovedOrdered ==
    ASSUME Order, NEW p \in Peers, NEW st, NEW segs, NEW frames, Moved(p, st, segs, frames),
           PeerOK(board, st, segs, frames, p)
    PROVE  Order'
<1>1. board' = board /\ peer'[p] = st /\ toBoard'[p] = segs /\ toPeer'[p] = frames
  BY DEF Moved
<1>2. BoardOK(board')
  BY <1>1 DEF Order, Ordered
<1>3. ASSUME NEW q \in Peers PROVE PeerOK(board', peer'[q], toBoard'[q], toPeer'[q], q)
  <2>1. CASE q = p
    BY <1>1, <2>1
  <2>2. CASE q # p
    <3>1. peer'[q] = peer[q] /\ toBoard'[q] = toBoard[q] /\ toPeer'[q] = toPeer[q]
      BY <2>2 DEF Moved
    <3>2. PeerOK(board, peer[q], toBoard[q], toPeer[q], q)
      BY DEF Order, Ordered
    <3> QED
      BY <1>1, <3>1, <3>2
  <2> QED
    BY <2>1, <2>2
<1> QED
  BY <1>2, <1>3 DEF Order, Ordered

LEMMA SpokeOrdered ==
    ASSUME Order, NEW p \in Peers, NEW st, NEW flags, NEW seq, NEW data, NEW frames,
           Spoke(p, st, flags, seq, data, frames),
           \A s \in FrameType : IsFrame(s, p, flags, seq, data) =>
             PeerOK(board, st, Append(toBoard[p], s), frames, p)
    PROVE  Order'
  BY MovedOrdered DEF Spoke

\* Segments without data may follow, and data may follow where there is none.
LEMMA AppendKeeps ==
    ASSUME NEW s \in Seq(FrameType), NEW e \in FrameType
    PROVE  /\ Items(Append(s, e)) = Items(s) \cup {e}
           /\ AtMostOne(s) /\ e.data = <<>> => AtMostOne(Append(s, e))
           /\ Silent(s) => AtMostOne(Append(s, e))
<1> DEFINE t == Append(s, e)
           l == Len(s)
<1>1. /\ Items(t) = Items(s) \cup {e} /\ l \in Nat /\ Len(t) = l + 1
      /\ t[l + 1] = e /\ \A i \in 1 .. l : t[i] = s[i]
  BY AppendFacts
<1>2. l = Len(s) /\ t = Append(s, e)
  OBVIOUS
<1> HIDE DEF t, l
<1>3. \A i \in 1 .. l + 1 : i \in 1 .. l \/ i = l + 1
  BY <1>1
<1>4. ASSUME AtMostOne(s), e.data = <<>> PROVE AtMostOne(t)
  BY <1>1, <1>2, <1>3, <1>4 DEF AtMostOne
<1>5. ASSUME Silent(s) PROVE AtMostOne(t)
  <2>1. \A i \in 1 .. l : s[i].data = <<>>
    BY <1>2, <1>5 DEF Silent, Items
  <2> QED
    BY <1>1, <1>3, <2>1 DEF AtMostOne
<1> QED
  BY <1>1, <1>2, <1>4, <1>5

\* Silence: nothing of the sender is in the board or on the way.
LEMMA Quiet ==
    ASSUME OneAtATime, Typed, Order, NEW p \in Senders, Silence(p)
    PROVE  /\ ~Pending(board) /\ OnWay(board, toPeer[p], p) = {} /\ toBoard[p] = <<>>
           /\ toPeer[p] = <<>> /\ Echoes(board, toPeer[p], p) = {}
<1>1. ~Pending(board)
  <2> SUFFICES ASSUME Pending(board) PROVE FALSE
    OBVIOUS
  <2>1. board.conn[board.qCid].peer \in Senders /\ board.conn[board.qCid].peer # p
    BY DEF Order, Ordered, BoardOK, QueueOwned, Pending, Silence
  <2> QED
    BY <2>1 DEF OneAtATime
<1>2. OnWay(board, toPeer[p], p) = {}
  <2>1. Items(toPeer[p]) = {}
    BY ItemsEmpty DEF Silence
  <2>2. \A f \in Carried(board) : f.peer # p
    BY DEF Silence, Carried
  <2> QED
    BY <2>1, <2>2 DEF OnWay
<1> QED
  BY <1>1, <1>2 DEF Silence, Echoes

\* A listener only opens, closes and answers.
LEMMA ListenerSpeaks ==
    ASSUME NEW p \in Peers, p \notin Senders, NEW st, NEW segs \in Seq(FrameType),
           NEW frames, NEW s \in FrameType, s.data = <<>>,
           Received(st, p), st.sent = 0, Silent(segs), Silent(frames)
    PROVE  PeerOK(board, st, Append(segs, s), frames, p)
  BY AppendKeeps DEF PeerOK, ListenerOK, Silent

\* What is known of p before its step.
LEMMA OldOrder ==
    ASSUME Typed, Order, NEW p \in Peers
    PROVE  /\ PeerOK(board, peer[p], toBoard[p], toPeer[p], p) /\ Received(peer[p], p)
           /\ p \in Senders => SenderOK(board, peer[p], toBoard[p], toPeer[p], p)
           /\ p \notin Senders => /\ peer[p].sent = 0 /\ Silent(toBoard[p]) /\ Silent(toPeer[p])
                                  /\ Len(peer[p].got) = 0
           /\ peer[p].sent \in Nat /\ peer[p].next \in Nat /\ Len(peer[p].got) \in Nat
           /\ peer[p].got \in Seq(ByteType) /\ peer[p].round \in Nat
           /\ Len(peer[p].got) <= peer[p].sent
<1>1. PeerOK(board, peer[p], toBoard[p], toPeer[p], p)
  BY DEF Order, Ordered
<1>2. /\ peer[p].sent \in Nat /\ peer[p].next \in Nat /\ Len(peer[p].got) \in Nat
      /\ peer[p].got \in Seq(ByteType) /\ peer[p].round \in Nat
  BY OldState, PeerFields
<1>3. Received(peer[p], p) /\ Len(peer[p].got) <= peer[p].sent
  BY <1>1 DEF PeerOK, Received
<1>4. p \in Senders => SenderOK(board, peer[p], toBoard[p], toPeer[p], p)
  BY <1>1 DEF PeerOK
<1>5. p \notin Senders => peer[p].sent = 0 /\ Silent(toBoard[p]) /\ Silent(toPeer[p])
  BY <1>1 DEF PeerOK, ListenerOK
<1>6. p \notin Senders => Len(peer[p].got) = 0
  BY <1>2, <1>3, <1>5
<1> QED
  BY <1>1, <1>2, <1>3, <1>4, <1>5, <1>6

\* The same stream was received.
LEMMA ReceivedKept ==
    ASSUME NEW p, NEW st, NEW st2, Received(st, p), st2.got = st.got, st2.round = st.round,
           st.sent \in Nat, st2.sent \in Nat, Len(st.got) \in Nat, st.sent <= st2.sent
    PROVE  Received(st2, p)
  BY DEF Received

LEMMA ConnectOrdered ==
    ASSUME OneAtATime, Typed, Order, NEW p \in Peers, Connect(p)
    PROVE  Order'
<1>1. Silence(p)
  BY ConnectDoes
<1>2. PICK st : /\ PeerIs(st, "syn", peer[p].round + 1, 0, <<>>, 0)
                /\ Spoke(p, st, {"SYN"}, 0, <<>>, toPeer[p])
  BY ConnectDoes
<1>3. st.state = "syn" /\ st.sent = 0 /\ st.got = <<>> /\ Len(st.got) = 0
  BY <1>2, EmptyData DEF PeerIs
<1>4. Received(st, p)
  <2>1. <<>> = [i \in 1 .. 0 |-> Byte(p, st.round, i)]
    OBVIOUS
  <2> QED
    BY <1>3, <2>1 DEF Received
<1>5. toBoard[p] \in Seq(FrameType)
  BY OldState
<1>6. ASSUME NEW s \in FrameType, IsFrame(s, p, {"SYN"}, 0, <<>>)
      PROVE  PeerOK(board, st, Append(toBoard[p], s), toPeer[p], p)
  <2> DEFINE segs == Append(toBoard[p], s)
  <2>1. s.flags = {"SYN"} /\ s.data = <<>>
    BY <1>6 DEF IsFrame
  <2>2. CASE p \notin Senders
    BY <1>3, <1>4, <1>5, <2>1, <2>2, OldOrder, ListenerSpeaks
  <2>3. CASE p \in Senders
    <3>1. ~Pending(board) /\ OnWay(board, toPeer[p], p) = {} /\ Echoes(board, toPeer[p], p) = {}
      BY <1>1, <2>3, Quiet
    <3>2. Items(segs) = {s}
      <4>1. toBoard[p] = <<>>
        BY <1>1, <2>3, Quiet
      <4> QED
        BY <1>5, <4>1, ItemsEmpty, AppendKeeps
    <3> HIDE DEF segs
    <3>3. Opens(board, st, segs, toPeer[p], p)
      BY <1>3, <2>1, <3>1, <3>2 DEF Opens
    <3>4. ~Leaving(segs)
      BY <2>1, <3>2 DEF Leaving
    <3>5. SenderOK(board, st, segs, toPeer[p], p)
      BY <1>3, <3>3, <3>4 DEF SenderOK
    <3> QED
      BY <1>4, <2>3, <3>5 DEF PeerOK, segs
  <2> QED
    BY <2>2, <2>3
<1> QED
  BY <1>2, <1>6, SpokeOrdered

LEMMA CloseOrdered ==
    ASSUME OneAtATime, Typed, Order, NEW p \in Peers, Close(p)
    PROVE  Order'
<1>1. peer[p].state = "open" /\ ~Waiting(p)
  BY CloseDoes
<1>2. PICK st : /\ PeerIs(st, "fin", peer[p].round, peer[p].sent, peer[p].got, peer[p].next)
                /\ Spoke(p, st, {"FIN", "ACK"}, peer[p].sent + 1, <<>>, toPeer[p])
  BY CloseDoes
<1>3. st.state = "fin" /\ Received(st, p) /\ st.sent = peer[p].sent
  BY <1>2, OldOrder, ReceivedKept DEF PeerIs
<1>4. toBoard[p] \in Seq(FrameType)
  BY OldState
<1>5. ASSUME NEW s \in FrameType, IsFrame(s, p, {"FIN", "ACK"}, peer[p].sent + 1, <<>>)
      PROVE  PeerOK(board, st, Append(toBoard[p], s), toPeer[p], p)
  <2> DEFINE segs == Append(toBoard[p], s)
  <2>1. s.data = <<>>
    BY <1>5 DEF IsFrame
  <2>2. CASE p \notin Senders
    BY <1>3, <1>4, <2>1, <2>2, OldOrder, ListenerSpeaks
  <2>3. CASE p \in Senders
    <3>1. IsOpen(board, peer[p], toBoard[p], toPeer[p], p)
      BY <1>1, <2>3, OldOrder DEF SenderOK
    <3>2. /\ peer[p].sent \in Nat /\ Len(peer[p].got) = peer[p].sent
          /\ peer[p].next = peer[p].sent + 1 /\ peer[p].next \in Nat
      BY <1>1, <3>1, OldOrder DEF Waiting, IsOpen
    <3>3. ~Pending(board)
      <4>1. PICK c \in Slots : Serves(board, peer[p], toPeer[p], p, c)
        BY <3>1 DEF IsOpen
      <4>2. Right(board, peer[p], toPeer[p], p, c) /\ peer[p].next <= board.conn[c].seq
        BY <3>2, <4>1 DEF Serves, Beyond
      <4>3. board.conn[c].seq \in Nat /\ board.qLen \in Nat /\ board.qOff \in Nat
        BY BoardFields DEF Typed
      <4> QED
        BY <3>2, <4>2, <4>3 DEF Right, Pending
    <3>4. Silent(toBoard[p])
      <4> SUFFICES ASSUME NEW g \in Items(toBoard[p]), g.data # <<>> PROVE FALSE
        BY DEF Silent
      <4>1. Outstanding(board, peer[p], toPeer[p], p, g)
        BY <3>1 DEF IsOpen
      <4>2. g \in FrameType
        BY <1>4, ItemsTyped
      <4>3. Len(g.data) \in Nat /\ Len(g.data) > 0
        BY <4>2, FrameFields
      <4> QED
        BY <3>2, <4>1, <4>3 DEF Outstanding
    <3>5. Closes(board, segs)
      BY <1>4, <2>1, <3>3, <3>4, AppendKeeps DEF Closes, Silent
    <3> HIDE DEF segs
    <3>6. SenderOK(board, st, segs, toPeer[p], p)
      BY <1>3, <3>5 DEF SenderOK
    <3> QED
      BY <1>3, <2>3, <3>6 DEF PeerOK, segs
  <2> QED
    BY <2>2, <2>3
<1> QED
  BY <1>2, <1>5, SpokeOrdered

LEMMA VanishOrdered ==
    ASSUME OneAtATime, Typed, Order, NEW p \in Peers, Vanish(p)
    PROVE  Order'
<1>1. PICK st : /\ PeerIs(st, "closed", peer[p].round, peer[p].sent, peer[p].got, peer[p].next)
                /\ Moved(p, st, toBoard[p], toPeer[p])
  BY VanishDoes
<1>2. st.state = "closed" /\ Received(st, p) /\ st.sent = peer[p].sent
  BY <1>1, OldOrder, ReceivedKept DEF PeerIs
<1>3. PeerOK(board, st, toBoard[p], toPeer[p], p)
  BY <1>2, OldOrder DEF PeerOK, SenderOK, ListenerOK
<1> QED
  BY <1>1, <1>3, MovedOrdered

LEMMA SendDataOrdered ==
    ASSUME OneAtATime, Typed, Order, NEW p \in Peers, NEW n \in 1 .. MaxSeg, SendData(p, n)
    PROVE  Order'
<1> DEFINE d == Stream(p, peer[p].sent, peer[p].sent + n)
           o == peer[p]
<1>1. /\ o.state = "open" /\ p \in Senders
      /\ \/ ~Waiting(p)
         \/ o.sent + n - Len(o.got) <= Pipeline
  BY SendDataDoes
<1>2. PICK st : /\ PeerIs(st, "open", o.round, o.sent + n, o.got, o.next)
                /\ Spoke(p, st, {"ACK"}, o.sent + 1, d, toPeer[p])
  BY SendDataDoes
<1>3. n \in Nat /\ n > 0
  BY NumberFacts
<1>4. toBoard[p] \in Seq(FrameType)
  BY OldState
<1>5. IsOpen(board, o, toBoard[p], toPeer[p], p)
  BY <1>1, OldOrder DEF SenderOK
<1>6. /\ o.sent \in Nat /\ Len(o.got) = o.sent /\ o.next = o.sent + 1 /\ o.next \in Nat
      /\ o.round \in Nat
  <2>1. o.sent \in Nat /\ Len(o.got) \in Nat /\ Len(o.got) <= o.sent /\ o.round \in Nat
    BY OldOrder
  <2>2. Len(o.got) = o.sent
    BY <1>1, <1>3, <2>1 DEF Waiting, OneAtATime
  <2> QED
    BY <1>5, <2>1, <2>2 DEF IsOpen
<1>7. PICK c \in Slots : Serves(board, o, toPeer[p], p, c)
  BY <1>5 DEF IsOpen
<1>8. board.conn[c].seq \in Nat /\ board.qLen \in Nat /\ board.qOff \in Nat
  BY BoardFields DEF Typed
<1>9. /\ Right(board, o, toPeer[p], p, c) /\ board.conn[c].seq = o.next /\ ~Pending(board)
  <2>1. Right(board, o, toPeer[p], p, c) /\ o.next <= board.conn[c].seq
    BY <1>6, <1>7 DEF Serves, Beyond
  <2>2. board.conn[c].seq = o.next
    BY <1>6, <1>8, <2>1 DEF Right
  <2> QED
    BY <1>6, <1>8, <2>1, <2>2 DEF Right, Pending
<1>10. \A f \in Echoes(board, toPeer[p], p) : f.seq # o.next
  <2> SUFFICES ASSUME NEW f \in Echoes(board, toPeer[p], p), f.seq = o.next PROVE FALSE
    OBVIOUS
  <2>1. f \in FrameType /\ f.data # <<>>
    BY CarriedTyped, ItemsTyped DEF Echoes, OnWay, Typed, TypedLink
  <2>2. Len(f.data) \in Nat /\ Len(f.data) > 0 /\ f.seq + Len(f.data) <= o.next
    BY <1>9, <2>1, FrameFields DEF Right
  <2> QED
    BY <1>6, <2>2
<1>11. Silent(toBoard[p])
  <2> SUFFICES ASSUME NEW g \in Items(toBoard[p]), g.data # <<>> PROVE FALSE
    BY DEF Silent
  <2>1. Outstanding(board, o, toPeer[p], p, g)
    BY <1>5 DEF IsOpen
  <2>2. g \in FrameType
    BY <1>4, ItemsTyped
  <2>3. Len(g.data) \in Nat /\ Len(g.data) > 0
    BY <2>2, FrameFields
  <2> QED
    BY <1>6, <2>1, <2>3 DEF Outstanding
<1>12. Len(d) = n /\ \A i \in 1 .. n : d[i] = Byte(p, o.round, o.sent + i)
  <2> DEFINE a == peer[p].sent
             z == a + n
  <2>1. a \in Nat /\ z \in Nat /\ a <= z /\ z - a = n
    BY <1>3, <1>6
  <2> HIDE DEF a, z
  <2>2. /\ Len(Stream(p, a, z)) = z - a
        /\ \A i \in 1 .. z - a : Stream(p, a, z)[i] = Byte(p, peer[p].round, a + i)
    BY <2>1, StreamFacts
  <2>3. /\ Len(Stream(p, a, z)) = n
        /\ \A i \in 1 .. n : Stream(p, a, z)[i] = Byte(p, peer[p].round, a + i)
    BY <2>1, <2>2
  <2> QED
    BY <2>3 DEF a, z
<1>13. /\ st.state = "open" /\ st.round = o.round /\ st.sent = o.sent + n /\ st.got = o.got
       /\ st.next = o.next
  BY <1>2 DEF PeerIs
<1> HIDE DEF d, o
<1>14. Received(st, p)
  <2>1. Received(o, p)
    BY OldOrder DEF o
  <2>2. st.sent \in Nat /\ o.sent <= st.sent /\ Len(o.got) \in Nat
    BY <1>3, <1>6, <1>13
  <2> QED
    BY <1>6, <1>13, <2>1, <2>2, ReceivedKept
<1>15. Serves(board, st, toPeer[p], p, c)
  <2>1. Right(board, st, toPeer[p], p, c)
    BY <1>3, <1>6, <1>8, <1>9, <1>13 DEF Right
  <2> QED
    BY <1>7, <1>13, <2>1 DEF Serves
<1>16. ASSUME NEW s \in FrameType, IsFrame(s, p, {"ACK"}, o.sent + 1, d)
       PROVE  PeerOK(board, st, Append(toBoard[p], s), toPeer[p], p)
  <2> DEFINE segs == Append(toBoard[p], s)
  <2>1. s.flags = {"ACK"} /\ s.seq = o.sent + 1 /\ s.data = d
    BY <1>16 DEF IsFrame
  <2>2. Items(segs) = Items(toBoard[p]) \cup {s} /\ AtMostOne(segs)
    BY <1>4, <1>11, AppendKeeps
  <2> HIDE DEF segs
  <2>3. \A g \in Items(segs) : "FIN" \notin g.flags
    BY <1>5, <2>1, <2>2 DEF IsOpen
  <2>4. Outstanding(board, st, toPeer[p], p, s)
    <3>1. InPlace(p, st.round, s.seq, s.data)
      <4>1. \A i \in 1 .. n : o.sent + i = (o.sent + 1) + i - 1
        BY <1>3, <1>6
      <4> QED
        BY <1>12, <1>13, <2>1, <4>1 DEF InPlace
    <3>2. s.seq + Len(s.data) <= st.sent + 1
      BY <1>3, <1>6, <1>12, <1>13, <2>1
    <3> QED
      BY <1>6, <1>9, <1>10, <1>13, <2>1, <3>1, <3>2 DEF Outstanding
  <2>5. \A g \in Items(segs) : g.data # <<>> => Outstanding(board, st, toPeer[p], p, g)
    BY <1>11, <2>2, <2>4 DEF Silent
  <2>6. IsOpen(board, st, segs, toPeer[p], p)
    BY <1>5, <1>13, <1>15, <2>2, <2>3, <2>5 DEF IsOpen
  <2>7. SenderOK(board, st, segs, toPeer[p], p)
    BY <1>13, <2>3, <2>6 DEF SenderOK, Leaving
  <2> QED
    BY <1>1, <1>14, <2>7 DEF PeerOK, segs
<1> QED
  BY <1>2, <1>16, SpokeOrdered DEF o

LEMMA LoseOrdered ==
    ASSUME OneAtATime, Typed, Order, NEW p \in Peers, Lose(p)
    PROVE  Order'
<1>1. /\ PeerOK(board, peer[p], toBoard[p], toPeer[p], p) /\ EchoesToSenders(board)
      /\ toBoard[p] \in Seq(FrameType) /\ toPeer[p] \in Seq(FrameType)
  BY OldOrder, OldState DEF Order, Ordered, BoardOK
<1>2. CASE toBoard[p] # <<>> /\ Moved(p, peer[p], Tail(toBoard[p]), toPeer[p])
  <2>1. Kept(board, board, peer[p], toPeer[p], toPeer[p], p)
    BY DEF Kept, SameQueue
  <2>2. PeerOK(board, peer[p], Tail(toBoard[p]), toPeer[p], p)
    BY <1>1, <1>2, <2>1, TailKeeps, PeerKeeps
  <2> QED
    BY <1>2, <2>2, MovedOrdered
<1>3. CASE toPeer[p] # <<>> /\ Moved(p, peer[p], toBoard[p], Tail(toPeer[p]))
  <2>1. Items(Tail(toPeer[p])) \subseteq Items(toPeer[p])
    BY <1>1, <1>3, TailFacts
  <2>2. Kept(board, board, peer[p], toPeer[p], Tail(toPeer[p]), p)
    BY <2>1 DEF Kept, SameQueue, OnWay
  <2>3. PeerOK(board, peer[p], toBoard[p], Tail(toPeer[p]), p)
    BY <1>1, <2>1, <2>2, PeerKeeps
  <2> QED
    BY <1>3, <2>3, MovedOrdered
<1> QED
  BY <1>2, <1>3, LoseDoes

LEMMA RetryOrdered ==
    ASSUME OneAtATime, Typed, Order, NEW p \in Peers, Retry(p)
    PROVE  Order'
<1> DEFINE o == peer[p]
           m == Len(peer[p].got)
           d == Stream(p, m, peer[p].sent)
<1>1. Silence(p)
  BY RetryDoes
<1>2. PICK st : /\ PeerIs(st, o.state, o.round, o.sent, o.got, o.next)
                /\ \/ o.state = "syn" /\ Spoke(p, st, {"SYN"}, 0, <<>>, toPeer[p])
                   \/ /\ o.state = "open" /\ Waiting(p)
                      /\ Spoke(p, st, {"ACK"}, m + 1, d, toPeer[p])
                   \/ /\ o.state = "fin"
                      /\ Spoke(p, st, {"FIN", "ACK"}, o.sent + 1, <<>>, toPeer[p])
  BY RetryDoes
<1>3. /\ st.state = o.state /\ st.round = o.round /\ st.sent = o.sent /\ st.got = o.got
      /\ st.next = o.next
  BY <1>2 DEF PeerIs
<1>4. /\ toBoard[p] \in Seq(FrameType) /\ Received(o, p) /\ o.sent \in Nat /\ m \in Nat
      /\ m <= o.sent /\ o.round \in Nat /\ o.next \in Nat
  BY OldOrder, OldState
<1>5. Received(st, p)
  BY <1>3, <1>4 DEF Received
<1>6. p \in Senders => /\ SenderOK(board, o, toBoard[p], toPeer[p], p)
                       /\ ~Pending(board) /\ OnWay(board, toPeer[p], p) = {}
                       /\ Echoes(board, toPeer[p], p) = {} /\ toBoard[p] = <<>>
  BY <1>1, OldOrder, Quiet
<1>7. p \notin Senders => /\ o.sent = 0 /\ ~Waiting(p) /\ Silent(toBoard[p]) /\ Silent(toPeer[p])
  BY <1>4, OldOrder DEF Waiting
<1>8. ASSUME p \in Senders, NEW s \in FrameType
      PROVE  /\ Items(Append(toBoard[p], s)) = {s} /\ AtMostOne(Append(toBoard[p], s))
  <2>1. Silent(toBoard[p])
    BY <1>6, <1>8, ItemsEmpty DEF Silent
  <2> QED
    BY <1>4, <1>6, <1>8, <2>1, ItemsEmpty, AppendKeeps
<1>9. CASE o.state = "syn" /\ Spoke(p, st, {"SYN"}, 0, <<>>, toPeer[p])
  <2>1. ASSUME NEW s \in FrameType, IsFrame(s, p, {"SYN"}, 0, <<>>)
        PROVE  PeerOK(board, st, Append(toBoard[p], s), toPeer[p], p)
    <3> DEFINE segs == Append(toBoard[p], s)
    <3>1. s.flags = {"SYN"} /\ s.data = <<>>
      BY <2>1 DEF IsFrame
    <3>2. CASE p \notin Senders
      BY <1>3, <1>4, <1>5, <1>7, <3>1, <3>2, ListenerSpeaks
    <3>3. CASE p \in Senders
      <4>1. Items(segs) = {s}
        BY <1>8, <3>3
      <4> HIDE DEF segs
      <4>2. Opens(board, st, segs, toPeer[p], p)
        BY <1>3, <1>6, <1>9, <3>1, <3>3, <4>1 DEF SenderOK, Opens
      <4>3. ~Leaving(segs)
        BY <3>1, <4>1 DEF Leaving
      <4>4. SenderOK(board, st, segs, toPeer[p], p)
        BY <1>3, <1>9, <4>2, <4>3 DEF SenderOK
      <4> QED
        BY <1>5, <3>3, <4>4 DEF PeerOK, segs
    <3> QED
      BY <3>2, <3>3
  <2> QED
    BY <1>9, <2>1, SpokeOrdered
<1>10. CASE o.state = "open" /\ Waiting(p) /\ Spoke(p, st, {"ACK"}, m + 1, d, toPeer[p])
  <2>1. p \in Senders
    BY <1>7, <1>10
  <2>2. Len(d) = o.sent - m /\ \A i \in 1 .. o.sent - m : d[i] = Byte(p, o.round, m + i)
    BY <1>4, StreamFacts
  <2>3. IsOpen(board, o, toBoard[p], toPeer[p], p)
    BY <1>6, <1>10, <2>1 DEF SenderOK
  <2>4. o.next = m + 1
    BY <2>3 DEF IsOpen
  <2> HIDE DEF o, m, d
  <2>5. ASSUME NEW s \in FrameType, IsFrame(s, p, {"ACK"}, m + 1, d)
        PROVE  PeerOK(board, st, Append(toBoard[p], s), toPeer[p], p)
    <3> DEFINE segs == Append(toBoard[p], s)
    <3>1. s.flags = {"ACK"} /\ s.seq = m + 1 /\ s.data = d
      BY <2>5 DEF IsFrame
    <3>2. Items(segs) = {s} /\ AtMostOne(segs)
      BY <1>8, <2>1
    <3> HIDE DEF segs
    <3>3. ~Leaving(segs) /\ \A g \in Items(segs) : "FIN" \notin g.flags
      BY <3>1, <3>2 DEF Leaving
    <3>4. Outstanding(board, st, toPeer[p], p, s)
      <4>1. InPlace(p, st.round, s.seq, s.data)
        <5>1. \A i \in 1 .. o.sent - m : m + i = (m + 1) + i - 1
          BY <1>4
        <5> QED
          BY <1>3, <2>2, <3>1, <5>1 DEF InPlace
      <4>2. s.seq + Len(s.data) <= st.sent + 1
        BY <1>3, <1>4, <2>2, <3>1
      <4> QED
        BY <1>3, <1>6, <2>1, <2>4, <3>1, <4>1, <4>2 DEF Outstanding
    <3>5. PICK c \in Slots : Serves(board, o, toPeer[p], p, c)
      BY <2>3 DEF IsOpen
    <3>6. Serves(board, st, toPeer[p], p, c)
      <4>1. SameQueue(board, board)
        BY DEF SameQueue
      <4>2. board.conn[c].peer = p /\ board.conn[c].state \in {"SYN_RCVD", "ESTABLISHED"}
        BY <3>5 DEF Serves
      <4> QED
        BY <1>3, <3>5, <4>1, <4>2, ServesKept
    <3>7. st.next = Len(st.got) + 1
      BY <1>3, <2>3 DEF IsOpen
    <3>8. IsOpen(board, st, segs, toPeer[p], p)
      BY <3>2, <3>3, <3>4, <3>6, <3>7 DEF IsOpen
    <3>9. SenderOK(board, st, segs, toPeer[p], p)
      BY <1>3, <1>10, <3>3, <3>8 DEF SenderOK
    <3> QED
      BY <1>5, <2>1, <3>9 DEF PeerOK, segs
  <2> QED
    BY <1>10, <2>5, SpokeOrdered
<1>11. CASE o.state = "fin" /\ Spoke(p, st, {"FIN", "ACK"}, o.sent + 1, <<>>, toPeer[p])
  <2>1. ASSUME NEW s \in FrameType, IsFrame(s, p, {"FIN", "ACK"}, o.sent + 1, <<>>)
        PROVE  PeerOK(board, st, Append(toBoard[p], s), toPeer[p], p)
    <3> DEFINE segs == Append(toBoard[p], s)
    <3>1. s.data = <<>>
      BY <2>1 DEF IsFrame
    <3>2. CASE p \notin Senders
      BY <1>3, <1>4, <1>5, <1>7, <3>1, <3>2, ListenerSpeaks
    <3>3. CASE p \in Senders
      <4>1. Items(segs) = {s}
        BY <1>8, <3>3
      <4> HIDE DEF segs
      <4>2. Closes(board, segs)
        BY <1>6, <3>1, <3>3, <4>1 DEF Closes, Silent
      <4>3. SenderOK(board, st, segs, toPeer[p], p)
        BY <1>3, <1>11, <4>2 DEF SenderOK
      <4> QED
        BY <1>5, <3>3, <4>3 DEF PeerOK, segs
    <3> QED
      BY <3>2, <3>3
  <2> QED
    BY <1>11, <2>1, SpokeOrdered
<1> QED
  BY <1>2, <1>9, <1>10, <1>11

\* One sequence behind another.
LEMMA ConcatFacts ==
    ASSUME NEW S, NEW u \in Seq(S), NEW v \in Seq(S)
    PROVE  /\ u \o v \in Seq(S) /\ Len(u \o v) = Len(u) + Len(v)
           /\ \A i \in 1 .. Len(u) : (u \o v)[i] = u[i]
           /\ \A i \in 1 .. Len(v) : (u \o v)[Len(u) + i] = v[i]
<1>1. u \o v \in Seq(S) /\ Len(u \o v) = Len(u) + Len(v) /\ Len(u) \in Nat /\ Len(v) \in Nat
  OBVIOUS
<1>2. \A i \in 1 .. Len(u) : (u \o v)[i] = u[i]
  OBVIOUS
<1>3. ASSUME NEW i \in 1 .. Len(v) PROVE (u \o v)[Len(u) + i] = v[i]
  OBVIOUS
<1> QED
  BY <1>1, <1>2, <1>3

\* st2 is st after the bytes d of its stream, which begin where it has come to.
TakesBytes(p, st, st2, n, d) ==
    /\ st.got \in Seq(ByteType) /\ st.sent \in Nat /\ d \in Seq(ByteType) /\ n \in Nat
    /\ n = Len(st.got) + 1 /\ n + Len(d) <= st.sent + 1 /\ InPlace(p, st.round, n, d)
    /\ st2.got = st.got \o d /\ st2.round = st.round /\ st2.sent = st.sent

\* Bytes in their place continue what was received.
LEMMA ReceivedMore ==
    ASSUME NEW p, NEW st, NEW st2, NEW n, NEW d, Received(st, p), TakesBytes(p, st, st2, n, d)
    PROVE  Received(st2, p) /\ Len(st2.got) = Len(st.got) + Len(d)
<1> DEFINE g == st.got
           h == g \o d
           r == st.round
<1>1. g \in Seq(ByteType) /\ d \in Seq(ByteType)
  BY DEF TakesBytes
<1>2. Len(g) \in Nat /\ Len(d) \in Nat
  BY <1>1
<1>3. g = [i \in 1 .. Len(g) |-> Byte(p, r, i)]
  BY DEF Received
<1>4. \A i \in 1 .. Len(d) : d[i] = Byte(p, r, n + i - 1)
  BY DEF TakesBytes, InPlace
<1>5. /\ n = Len(g) + 1 /\ n + Len(d) <= st.sent + 1 /\ st.sent \in Nat
      /\ st2.got = h /\ st2.round = r /\ st2.sent = st.sent
  BY DEF TakesBytes
<1>6. /\ h \in Seq(ByteType) /\ Len(h) = Len(g) + Len(d)
      /\ \A i \in 1 .. Len(g) : h[i] = g[i]
      /\ \A i \in 1 .. Len(d) : h[Len(g) + i] = d[i]
  <2> HIDE DEF g, r
  <2> QED
    BY ONLY <1>1, ConcatFacts
<1> HIDE DEF g, h, r
<1>7. ASSUME NEW i \in 1 .. Len(h) PROVE h[i] = Byte(p, r, i)
  <2>1. CASE i \in 1 .. Len(g)
    <3>1. g[i] = Byte(p, r, i)
      BY <1>3, <2>1
    <3> QED
      BY <1>6, <2>1, <3>1
  <2>2. CASE i \notin 1 .. Len(g)
    <3> DEFINE a == Len(g)
               l == Len(d)
               j == i - a
    <3>1. a \in Nat /\ l \in Nat /\ n = a + 1 /\ i \in 1 .. a + l /\ i \notin 1 .. a
      BY <1>2, <1>5, <1>6, <1>7, <2>2
    <3> HIDE DEF a, l
    <3>2. j \in 1 .. l /\ a + j = i /\ n + j - 1 = i
      BY ONLY <3>1
    <3> HIDE DEF j
    <3>3. h[a + j] = d[j] /\ d[j] = Byte(p, r, n + j - 1)
      BY <1>4, <1>6, <3>2 DEF a, l
    <3> QED
      BY <3>2, <3>3
  <2> QED
    BY <2>1, <2>2
<1>8. h = [i \in 1 .. Len(h) |-> Byte(p, r, i)]
  <2>1. h = [i \in 1 .. Len(h) |-> h[i]]
    BY <1>6
  <2> QED
    BY <1>7, <2>1
<1>9. Len(h) <= st.sent
  BY <1>2, <1>5, <1>6
<1> QED
  BY <1>5, <1>6, <1>8, <1>9 DEF Received, g, r

LEMMA DeliverOrdered ==
    ASSUME OneAtATime, Typed, Order, NEW p \in Peers, Deliver(p)
    PROVE  Order'
<1> DEFINE o == peer[p]
           rest == Tail(toPeer[p])
<1>1. toPeer[p] # <<>>
  BY DEF Deliver
<1>2. PICK f : f = Head(toPeer[p])
  OBVIOUS
<1>3. /\ f \in FrameType /\ f.peer = p
      /\ \/ /\ peer[p].state = "syn" /\ f.flags = {"SYN", "ACK"}
            /\ \E st : /\ PeerIs(st, "open", peer[p].round, peer[p].sent, peer[p].got, f.seq + 1)
                       /\ Spoke(p, st, {"ACK"}, 1, <<>>, Tail(toPeer[p]))
         \/ /\ peer[p].state = "open" /\ f.data # <<>> /\ f.seq = peer[p].next
            /\ \E st : /\ PeerIs(st, "open", peer[p].round, peer[p].sent,
                                 peer[p].got \o f.data, peer[p].next + Len(f.data))
                       /\ Spoke(p, st, {"ACK"}, peer[p].sent + 1, <<>>, Tail(toPeer[p]))
         \/ /\ peer[p].state = "fin"
            /\ \E st : /\ PeerIs(st, "closed", peer[p].round, peer[p].sent, peer[p].got, f.seq + 1)
                       /\ Spoke(p, st, {"ACK"}, peer[p].sent + 2, <<>>, Tail(toPeer[p]))
         \/ Moved(p, peer[p], toBoard[p], Tail(toPeer[p]))
  BY <1>1, <1>2, DeliverDoes
<1>4. toBoard[p] \in Seq(FrameType) /\ toPeer[p] \in Seq(FrameType)
  BY OldState
<1>5. /\ f \in Items(toPeer[p]) /\ Items(rest) \subseteq Items(toPeer[p])
      /\ f \in OnWay(board, toPeer[p], p)
      /\ OnWay(board, rest, p) \subseteq OnWay(board, toPeer[p], p)
      /\ Echoes(board, rest, p) \subseteq Echoes(board, toPeer[p], p)
  BY <1>1, <1>2, <1>3, <1>4, TailFacts DEF OnWay, Echoes
<1>6. /\ Received(o, p) /\ o.sent \in Nat /\ Len(o.got) \in Nat /\ o.got \in Seq(ByteType)
      /\ o.next \in Nat
      /\ p \in Senders => SenderOK(board, o, toBoard[p], toPeer[p], p)
      /\ p \notin Senders => o.sent = 0 /\ Silent(toBoard[p]) /\ Silent(toPeer[p])
  BY OldOrder
<1>7. p \notin Senders => Silent(rest) /\ f.data = <<>>
  BY <1>5, <1>6 DEF Silent
<1>8. f.data \in Seq(ByteType) /\ Len(f.data) \in Nat
  BY <1>3, FrameFields
<1> HIDE DEF o, rest
\* The answer has no data and is no FIN.
<1>9. ASSUME NEW seq, NEW s \in FrameType, IsFrame(s, p, {"ACK"}, seq, <<>>)
      PROVE  /\ "FIN" \notin s.flags /\ s.data = <<>>
             /\ Items(Append(toBoard[p], s)) = Items(toBoard[p]) \cup {s}
             /\ AtMostOne(toBoard[p]) => AtMostOne(Append(toBoard[p], s))
             /\ Leaving(Append(toBoard[p], s)) => Leaving(toBoard[p])
             /\ Closes(board, toBoard[p]) => Closes(board, Append(toBoard[p], s))
  <2>1. "FIN" \notin s.flags /\ s.data = <<>>
    BY <1>9 DEF IsFrame
  <2>2. /\ Items(Append(toBoard[p], s)) = Items(toBoard[p]) \cup {s}
        /\ AtMostOne(toBoard[p]) => AtMostOne(Append(toBoard[p], s))
    BY <1>4, <2>1, AppendKeeps
  <2> QED
    BY <2>1, <2>2 DEF Leaving, Closes, Silent
<1>10. ASSUME o.state = "syn", f.flags = {"SYN", "ACK"}, NEW st,
              PeerIs(st, "open", o.round, o.sent, o.got, f.seq + 1),
              Spoke(p, st, {"ACK"}, 1, <<>>, rest)
       PROVE  Order'
  <2>1. /\ st.state = "open" /\ st.round = o.round /\ st.sent = o.sent /\ st.got = o.got
        /\ st.next = f.seq + 1
    BY <1>10 DEF PeerIs
  <2>2. Received(st, p)
    BY <1>6, <2>1 DEF Received
  <2>3. ASSUME NEW s \in FrameType, IsFrame(s, p, {"ACK"}, 1, <<>>)
        PROVE  PeerOK(board, st, Append(toBoard[p], s), rest, p)
    <3> DEFINE segs == Append(toBoard[p], s)
    <3>1. /\ "FIN" \notin s.flags /\ s.data = <<>> /\ Items(segs) = Items(toBoard[p]) \cup {s}
          /\ AtMostOne(toBoard[p]) => AtMostOne(segs)
          /\ Leaving(segs) => Leaving(toBoard[p])
          /\ Closes(board, toBoard[p]) => Closes(board, segs)
      BY <1>9, <2>3
    <3>2. CASE p \notin Senders
      BY <1>4, <1>6, <1>7, <2>1, <2>2, <3>1, <3>2, ListenerSpeaks
    <3>3. CASE p \in Senders
      <4>1. Opens(board, o, toBoard[p], toPeer[p], p)
        BY <1>6, <1>10, <3>3 DEF SenderOK
      <4>2. f.seq = 0 /\ Fresh(board, p)
        BY <1>5, <1>10, <4>1 DEF Opens
      <4>3. st.sent = 0 /\ Len(st.got) = 0 /\ st.next = 1
        BY <2>1, <4>1, <4>2 DEF Opens
      <4>4. Echoes(board, rest, p) = {} /\ ~Pending(board)
        BY <1>5, <4>1 DEF Opens
      <4>5. PICK c \in Slots : /\ board.conn[c].peer = p /\ board.conn[c].state = "SYN_RCVD"
                               /\ board.conn[c].seq = 1
        BY <4>2 DEF Fresh
      <4>6. Serves(board, st, rest, p, c)
        BY <4>3, <4>4, <4>5 DEF Serves, Right
      <4>7. Silent(toBoard[p]) /\ \A g \in Items(toBoard[p]) : "FIN" \notin g.flags
        BY <4>1 DEF Opens, Silent
      <4>8. AtMostOne(segs)
        BY <1>4, <4>7, AppendKeeps
      <4> HIDE DEF segs
      <4>9. IsOpen(board, st, segs, rest, p)
        BY <3>1, <4>3, <4>6, <4>7, <4>8 DEF IsOpen, Silent
      <4>10. SenderOK(board, st, segs, rest, p)
        BY <2>1, <3>1, <4>7, <4>9 DEF SenderOK, Leaving
      <4> QED
        BY <2>2, <3>3, <4>10 DEF PeerOK, segs
    <3> QED
      BY <3>2, <3>3
  <2> QED
    BY <1>10, <2>3, SpokeOrdered
<1>11. ASSUME o.state = "open", f.data # <<>>, f.seq = o.next, NEW st,
              PeerIs(st, "open", o.round, o.sent, o.got \o f.data, o.next + Len(f.data)),
              Spoke(p, st, {"ACK"}, o.sent + 1, <<>>, rest)
       PROVE  Order'
  <2>1. /\ st.state = "open" /\ st.round = o.round /\ st.sent = o.sent /\ st.got = o.got \o f.data
        /\ st.next = o.next + Len(f.data)
    BY <1>11 DEF PeerIs
  <2>2. p \in Senders
    BY <1>7, <1>11
  <2>3. IsOpen(board, o, toBoard[p], toPeer[p], p)
    BY <1>6, <1>11, <2>2 DEF SenderOK
  <2>4. PICK c \in Slots : Serves(board, o, toPeer[p], p, c)
    BY <2>3 DEF IsOpen
  <2>5. f \in Echoes(board, toPeer[p], p)
    BY <1>5, <1>11 DEF Echoes
  <2>6. Right(board, o, toPeer[p], p, c)
    BY <1>11, <2>4, <2>5 DEF Serves, Beyond
  <2>7. board.conn[c].seq \in Nat
    BY BoardFields DEF Typed
  <2>8. /\ o.next + Len(f.data) <= board.conn[c].seq /\ board.conn[c].seq <= o.sent + 1
        /\ InPlace(p, o.round, o.next, f.data) /\ o.next = Len(o.got) + 1
    BY <1>11, <2>3, <2>5, <2>6 DEF Right, IsOpen
  <2>9. Received(st, p) /\ Len(st.got) = Len(o.got) + Len(f.data)
    <3>1. o.next + Len(f.data) <= o.sent + 1
      <4> DEFINE x == o.next
                 l == Len(f.data)
                 k == board.conn[c].seq
                 y == o.sent
      <4>1. x \in Nat /\ l \in Nat /\ k \in Nat /\ y \in Nat /\ x + l <= k /\ k <= y + 1
        BY <1>6, <1>8, <2>7, <2>8
      <4> HIDE DEF x, l, k, y
      <4>2. x + l <= y + 1
        BY ONLY <4>1
      <4> QED
        BY <4>2 DEF x, l, y
    <3>2. PICK n \in Nat, d \in Seq(ByteType) : n = o.next /\ d = f.data
      BY <1>6, <1>8
    <3>3. TakesBytes(p, o, st, n, d)
      BY <1>6, <2>1, <2>8, <3>1, <3>2 DEF TakesBytes
    <3>4. Received(st, p) /\ Len(st.got) = Len(o.got) + Len(d)
      BY <1>6, <3>3, ReceivedMore
    <3> QED
      BY <3>2, <3>4
  <2>10. st.next = Len(st.got) + 1
    <3> DEFINE m == Len(o.got)
               l == Len(f.data)
               g == Len(st.got)
               x == o.next
    <3>1. m \in Nat /\ l \in Nat /\ g = m + l /\ x = m + 1 /\ st.next = x + l
      BY <1>6, <1>8, <2>1, <2>8, <2>9
    <3> HIDE DEF m, l, g, x
    <3>2. st.next = g + 1
      BY ONLY <3>1
    <3> QED
      BY <3>2 DEF g
  <2>11. Right(board, st, rest, p, c)
    BY <1>5, <2>1, <2>6 DEF Right
  <2>12. Serves(board, st, rest, p, c)
    BY <2>1, <2>4, <2>8, <2>11 DEF Serves
  <2>13. Silent(toBoard[p])
    BY <1>11, <2>3, <2>5 DEF IsOpen, Outstanding, Silent
  <2>14. ASSUME NEW s \in FrameType, IsFrame(s, p, {"ACK"}, o.sent + 1, <<>>)
         PROVE  PeerOK(board, st, Append(toBoard[p], s), rest, p)
    <3> DEFINE segs == Append(toBoard[p], s)
    <3>1. /\ "FIN" \notin s.flags /\ s.data = <<>> /\ Items(segs) = Items(toBoard[p]) \cup {s}
          /\ AtMostOne(toBoard[p]) => AtMostOne(segs)
      BY <1>9, <2>14
    <3> HIDE DEF segs
    <3>2. \A g \in Items(segs) : "FIN" \notin g.flags /\ g.data = <<>>
      BY <2>3, <2>13, <3>1 DEF IsOpen, Silent
    <3>3. IsOpen(board, st, segs, rest, p)
      BY <2>3, <2>10, <2>12, <3>1, <3>2 DEF IsOpen
    <3>4. SenderOK(board, st, segs, rest, p)
      BY <2>1, <3>2, <3>3 DEF SenderOK, Leaving
    <3> QED
      BY <2>2, <2>9, <3>4 DEF PeerOK, segs
  <2> QED
    BY <1>11, <2>14, SpokeOrdered
<1>12. ASSUME NEW st, PeerIs(st, "closed", o.round, o.sent, o.got, f.seq + 1),
              Spoke(p, st, {"ACK"}, o.sent + 2, <<>>, rest)
       PROVE  Order'
  <2>1. st.state = "closed" /\ st.round = o.round /\ st.sent = o.sent /\ st.got = o.got
    BY <1>12 DEF PeerIs
  <2>2. Received(st, p)
    BY <1>6, <2>1 DEF Received
  <2>3. ASSUME NEW s \in FrameType, IsFrame(s, p, {"ACK"}, o.sent + 2, <<>>)
        PROVE  PeerOK(board, st, Append(toBoard[p], s), rest, p)
    <3> DEFINE segs == Append(toBoard[p], s)
    <3>1. /\ s.data = <<>>
          /\ Leaving(segs) => Leaving(toBoard[p])
          /\ Closes(board, toBoard[p]) => Closes(board, segs)
      BY <1>9, <2>3
    <3>2. CASE p \notin Senders
      BY <1>4, <1>6, <1>7, <2>1, <2>2, <3>1, <3>2, ListenerSpeaks
    <3>3. CASE p \in Senders
      <4> HIDE DEF segs
      <4>1. SenderOK(board, st, segs, rest, p)
        BY <1>6, <2>1, <3>1, <3>3 DEF SenderOK
      <4> QED
        BY <2>2, <3>3, <4>1 DEF PeerOK, segs
    <3> QED
      BY <3>2, <3>3
  <2> QED
    BY <1>12, <2>3, SpokeOrdered
<1>13. ASSUME Moved(p, o, toBoard[p], rest) PROVE Order'
  <2>1. PeerOK(board, o, toBoard[p], toPeer[p], p) /\ EchoesToSenders(board)
    BY OldOrder DEF Order, Ordered, BoardOK, o
  <2>2. Kept(board, board, o, toPeer[p], rest, p)
    BY <1>5 DEF Kept, SameQueue
  <2>3. PeerOK(board, o, toBoard[p], rest, p)
    BY <1>5, <2>1, <2>2, PeerKeeps
  <2> QED
    BY <1>13, <2>3, MovedOrdered
<1> QED
  BY <1>3, <1>10, <1>11, <1>12, <1>13 DEF o, rest

-------------------------------------------------------------------------------
(***************************************************************************)
(* The echo of one sender at a time.                                       *)
(***************************************************************************)
LEMMA InitOrdered == Init => Order
<1> SUFFICES ASSUME Init PROVE Order
  OBVIOUS
<1> DEFINE e  == <<>>
           st == [state |-> "closed", round |-> 0, sent |-> 0, got |-> e, next |-> 0, tries |-> 0]
<1>1. ~Pending(board) /\ Carried(board) = {}
  BY DEF Init, Pending, Carried
<1>2. BoardOK(board)
  BY <1>1 DEF BoardOK, QueueOwned, EchoesToSenders
<1>3. ASSUME NEW p \in Peers PROVE PeerOK(board, peer[p], toBoard[p], toPeer[p], p)
  <2>1. peer[p] = st /\ toBoard[p] = e /\ toPeer[p] = e /\ Items(e) = {} /\ Len(e) = 0
    BY ItemsEmpty, EmptyData DEF Init
  <2>2. e = [i \in 1 .. 0 |-> Byte(p, 0, i)]
    OBVIOUS
  <2>3. st.state = "closed" /\ st.sent = 0 /\ st.got = e /\ st.round = 0
    OBVIOUS
  <2> HIDE DEF e, st
  <2>4. Received(st, p)
    BY <2>1, <2>2, <2>3 DEF Received
  <2> QED
    BY <2>1, <2>3, <2>4 DEF PeerOK, SenderOK, ListenerOK, Leaving, Silent
<1> QED
  BY <1>2, <1>3 DEF Order, Ordered

LEMMA StepOrdered ==
    ASSUME OneAtATime, Good(board), Typed, Order, [Next]_vars
    PROVE  Order'
<1>1. /\ TypedBoard(board) /\ TypedLink(toBoard) /\ TypedLink(toPeer) /\ Apart(board)
      /\ peer \in [Peers -> PeerType] /\ Ordered(board, peer, toBoard, toPeer)
      /\ toPeer \in [Peers -> Seq(FrameType)]
  BY DEF Typed, TypedLink, Good, Order
<1>2. \A done \in BOOLEAN : /\ TypedBoard(Transmit(board, done)) /\ Good(Transmit(board, done))
                            /\ Apart(Transmit(board, done))
  BY <1>1, TransmitDoes, TransmitFacts DEF Good
<1>3. Ordered(Transmit(board, FALSE), peer, toBoard, toPeer)
  BY <1>1, TransmitOrdered
<1>4. CASE QuietPass
  <2>1. board' = Flush(board, Transmit(board, FALSE)) /\ UNCHANGED <<peer, toBoard, toPeer>>
    BY <1>4 DEF QuietPass
  <2>2. Ordered(Flush(board, Transmit(board, FALSE)), peer, toBoard, toPeer)
    BY <1>1, <1>2, <1>3, FlushOrdered
  <2> QED
    BY <2>1, <2>2 DEF Order
<1>5. CASE SentPass
  <2>1. board' = Flush(board, Transmit(board, TRUE)) /\ UNCHANGED <<peer, toBoard>>
    BY <1>5 DEF SentPass
  <2>2. PICK f \in board.mac : Leaves(f)
    BY <1>5 DEF SentPass
  <2>3. f \in FrameType /\ f \in Carried(board)
    BY <1>1, <2>2, BoardFields DEF Carried
  <2>4. /\ TypedLink(toPeer')
        /\ \A p \in Peers : Items(toPeer'[p]) \subseteq Items(toPeer[p]) \cup OnWay(board, toPeer[p], p)
    <3>1. CASE toPeer' = toPeer
      BY <1>1, <3>1
    <3>2. CASE f.peer \in Peers /\ Joined(toPeer, toPeer', f.peer, f)
      <4>1. /\ TypedLink(toPeer') /\ toPeer'[f.peer] = Append(toPeer[f.peer], f)
            /\ \A p \in Peers : p # f.peer => toPeer'[p] = toPeer[p]
        BY <3>2 DEF Joined
      <4>2. toPeer[f.peer] \in Seq(FrameType)
        BY <1>1, <3>2
      <4>3. Items(Append(toPeer[f.peer], f)) = Items(toPeer[f.peer]) \cup {f}
        BY <2>3, <4>2, AppendKeeps
      <4>4. f \in OnWay(board, toPeer[f.peer], f.peer)
        BY <2>3 DEF OnWay
      <4> QED
        BY <4>1, <4>3, <4>4
    <3> QED
      BY <2>2, <2>3, <3>1, <3>2, LeavesDoes
  <2>5. Ordered(Transmit(board, TRUE), peer, toBoard, toPeer')
    BY <1>1, <2>4, TransmitOrdered
  <2>6. Ordered(Flush(board, Transmit(board, TRUE)), peer, toBoard, toPeer')
    BY <1>1, <1>2, <2>4, <2>5, FlushOrdered
  <2> QED
    BY <2>1, <2>6 DEF Order
<1>6. ASSUME NEW q \in Peers, RxPass(q) PROVE Order'
  <2> DEFINE s == Head(toBoard[q])
             b == Transmit(board, FALSE)
  <2>1. /\ toBoard[q] # <<>> /\ board' = Flush(board, Receive(b, s))
        /\ toBoard' = [toBoard EXCEPT ![q] = Tail(@)] /\ UNCHANGED <<peer, toPeer>>
    BY <1>6 DEF RxPass
  <2>2. Taken(toBoard, toBoard', q)
    BY <1>1, <2>1, LinkTail
  <2>3. /\ toBoard'[q] = Tail(toBoard[q]) /\ \A p \in Peers : p # q => toBoard'[p] = toBoard[p]
        /\ s \in FrameType /\ s.peer = q /\ toBoard[q] \in Seq(FrameType)
    BY <1>1, <2>2 DEF Taken, TypedLink
  <2>4. TypedBoard(b) /\ Good(b) /\ Apart(b) /\ Ordered(b, peer, toBoard, toPeer)
    BY <1>2, <1>3
  <2> HIDE DEF b
  <2>5. Arrives(b, peer[q], toBoard'[q], toPeer[q], q, s)
    <3>1. PeerOK(b, peer[q], toBoard[q], toPeer[q], q)
      BY <2>4 DEF Ordered
    <3>2. Arrives(b, peer[q], Tail(toBoard[q]), toPeer[q], q, s)
      BY <2>1, <2>3, <3>1, HeadArrives
    <3> QED
      BY <2>3, <3>2
  <2>6. Ordered(b, peer, toBoard', toPeer)
    BY <2>1, <2>3, <2>4, FewerSegments
  <2>7. peer[q] \in PeerType
    BY <1>1
  <2> HIDE DEF s
  <2>8. Ordered(Receive(b, s), peer, toBoard', toPeer)
    BY <2>4, <2>5, <2>6, <2>7, ReceiveOrdered
  <2>9. TypedBoard(Receive(b, s)) /\ Apart(Receive(b, s))
    BY <2>3, <2>4, ReceiveTyped, ReceiveFacts DEF Good
  <2>10. Ordered(Flush(board, Receive(b, s)), peer, toBoard', toPeer)
    BY <1>1, <2>8, <2>9, FlushOrdered
  <2> QED
    BY <2>1, <2>10 DEF Order
<1>7. ASSUME NEW p \in Peers, PeerStep(p) PROVE Order'
  BY <1>7, ConnectOrdered, CloseOrdered, VanishOrdered, DeliverOrdered, LoseOrdered, RetryOrdered,
     SendDataOrdered DEF PeerStep
<1>8. CASE UNCHANGED vars
  BY <1>8 DEF vars, Order
<1> QED
  BY <1>4, <1>5, <1>6, <1>7, <1>8 DEF Next

\* With one sender that waits for its echo, what comes back is what was sent, from the
\* first byte on: no byte is skipped, repeated, out of place or of an earlier connection,
\* however segments and echoes are delayed, lost and sent again and whatever the other
\* peers do (tcp_queue, tcp_maintenance, tcp_rx_process).
THEOREM EchoCorrect ==
    ASSUME OneAtATime
    PROVE  Spec => []EchoIsPrefix
<1>1. Init => EInv
  BY InitHolds, InitTyped, InitOrdered DEF EInv, IInv
<1>2. EInv /\ [Next]_vars => EInv'
  <2> SUFFICES ASSUME EInv, [Next]_vars PROVE EInv'
    OBVIOUS
  <2>1. IInv /\ Typed /\ Order
    BY DEF EInv, IInv
  <2>2. IInv' /\ Typed'
    BY <2>1, StepHolds, StepTyped
  <2>3. Order'
    BY <2>1, StepOrdered DEF IInv
  <2> QED
    BY <2>2, <2>3 DEF EInv, IInv
<1>3. EInv => EchoIsPrefix
  <2> SUFFICES ASSUME EInv, NEW p \in Peers
               PROVE  /\ Len(peer[p].got) <= peer[p].sent
                      /\ peer[p].got = Stream(p, 0, Len(peer[p].got))
    BY DEF EchoIsPrefix
  <2>1. Typed /\ Order
    BY DEF EInv
  <2>2. Received(peer[p], p) /\ Len(peer[p].got) \in Nat
    BY <2>1, OldOrder
  <2> DEFINE l == Len(peer[p].got)
  <2>3. l \in Nat /\ peer[p].got = [i \in 1 .. l |-> Byte(p, peer[p].round, i)]
    BY <2>2 DEF Received
  <2>4. Stream(p, 0, l) = [i \in 1 .. l |-> Byte(p, peer[p].round, i)]
    <3> HIDE DEF l
    <3>1. l - 0 = l /\ \A i \in 1 .. l : 0 + i = i
      BY <2>3
    <3> QED
      BY <3>1 DEF Stream
  <2> QED
    BY <2>2, <2>3, <2>4 DEF Received
<1> QED
  BY <1>1, <1>2, <1>3, PTL DEF Spec

-------------------------------------------------------------------------------
(***************************************************************************)
(* One peer on a link that loses nothing.  It may send ahead of its echo   *)
(* as much as the buffer holds, and the buffer holds at most two chunks:   *)
(* with three, or with a second peer whose connection keeps the            *)
(* transmitter from the queue, the peer can fill up what has come back     *)
(* before the queue is empty and starts from the beginning of the buffer   *)
(* again, and what is acknowledged then is cut.  A conversation has the    *)
(* stages Away, Knocking, LetIn, Flowing, Parting, LetGo and Parted; the   *)
(* parameters are those of Order above.                                    *)
(***************************************************************************)
Alone ==
    /\ \E p : Peers = {p}
    /\ Losses = 0 /\ Retries = 0
    /\ Pipeline <= SendBuf /\ SendBuf <= 2 * Chunk

\* The transmitter has nothing to do; nor is there anything in the queue.
Still(b)   == b.mac = {} /\ ~b.txReq
Resting(b) == Still(b) /\ ~Pending(b)

\* The transmitter has the one frame f, as a request or sending it.
Carries(b, f) == \/ b.txReq /\ b.mac = {} /\ b.region = f
                 \/ ~b.txReq /\ b.mac = {f}

\* f is the one frame on its way to the peer.
InFlight(b, frames, f) == \/ Carries(b, f) /\ frames = <<>>
                          \/ Still(b) /\ frames = <<f>>

\* The data of the frames s follow each other from sequence number m up to n.
EndOf(f) == f.seq + Len(f.data)
Chained(s, m, n) ==
    /\ s = <<>> => m = n
    /\ s # <<>> => s[1].seq = m /\ EndOf(s[Len(s)]) = n
    /\ \A i \in 1 .. Len(s) - 1 : s[i + 1].seq = EndOf(s[i])
    /\ \A i, j \in 1 .. Len(s) : i < j => EndOf(s[i]) <= s[j].seq

\* Slot c is p's and no other is taken; no slot is.
OnlySlot(b, p, c) == b.conn[c].peer = p /\ \A d \in Slots : d # c => b.conn[d].state = "FREE"
NoSlot(b)         == \A d \in Slots : b.conn[d].state = "FREE"

Away(b, st, segs, frames) ==
    st.state = "closed" /\ segs = <<>> /\ frames = <<>> /\ Resting(b) /\ NoSlot(b)

Anew(st) == st.sent = 0 /\ st.got = <<>> /\ st.next = 0

Knocking(b, st, segs, frames, p) ==
    /\ st.state = "syn" /\ Anew(st)
    /\ Len(segs) = 1 /\ segs[1].flags = {"SYN"} /\ segs[1].seq = 0 /\ segs[1].peer = p
    /\ frames = <<>> /\ Resting(b) /\ NoSlot(b)

LetIn(b, st, segs, frames, p) ==
    /\ st.state = "syn" /\ Anew(st)
    /\ segs = <<>> /\ InFlight(b, frames, Segment(p, {"SYN", "ACK"}, 0, 1, <<>>)) /\ ~Pending(b)
    /\ \E c \in Slots : /\ OnlySlot(b, p, c) /\ b.conn[c].state = "SYN_RCVD"
                        /\ b.conn[c].seq = 1 /\ b.conn[c].peerSeq = 1

\* While the connection is open: what the peer sends is its stream, what returns is
\* the beginning of it, up to sequence number k.
Streams(f, p, r)  == f.flags = {"ACK"} /\ f.peer = p /\ InPlace(p, r, f.seq, f.data)
Returns(f, p, r)  == Streams(f, p, r) /\ f.data # <<>>
Flight(b, st, frames, p, k) ==
    /\ \A f \in Items(frames) : Returns(f, p, st.round)
    /\ \/ Still(b) /\ Chained(frames, st.next, k)
       \/ \E f \in FrameType : /\ Carries(b, f) /\ Returns(f, p, st.round) /\ EndOf(f) = k
                               /\ Chained(frames, st.next, f.seq)

\* What waits in the queue continues it, in the buffer of slot c, from its beginning or
\* behind one chunk.
Queueing(b, st, p, c) ==
    Pending(b) =>
        /\ b.qCid = c /\ b.qOff \in {0, Chunk}
        /\ \A i \in 1 .. b.qLen - b.qOff :
             b.bufs[c][b.qOff + i] = Byte(p, st.round, b.conn[c].seq + i - 1)

\* While a second chunk waits the first is on its way; once it has come back, what the
\* board receives next, before it can send the second, still fits the buffer.
Room(b, segs, frames) ==
    Pending(b) /\ b.qOff > 0 =>
        \/ \E f \in FrameType : Carries(b, f) /\ Len(f.data) >= b.qOff
        \/ Still(b) /\ frames # <<>> /\ Len(frames[Len(frames)].data) >= b.qOff
        \/ /\ Still(b) /\ frames = <<>>
           /\ segs # <<>> /\ b.qLen + Len(segs[1].data) <= SendBuf

\* The first segment of all is the acknowledgement of the SYN.
Opening(b, segs, frames, c) ==
    b.conn[c].state = "SYN_RCVD" =>
        /\ b.conn[c].seq = 1 /\ Resting(b) /\ frames = <<>>
        /\ segs # <<>> /\ segs[1].data = <<>> /\ segs[1].ack = 1

Window(st) == st.next = Len(st.got) + 1 /\ st.sent <= Len(st.got) + SendBuf

\* All of it but Room, which does not hold between the parts of a pass.
Flow(b, st, segs, frames, p, c) ==
    /\ OnlySlot(b, p, c)
    /\ b.conn[c].peerSeq = b.conn[c].seq + (b.qLen - b.qOff)
    /\ Chained(segs, b.conn[c].peerSeq, st.sent + 1)
    /\ \A s \in Items(segs) : Streams(s, p, st.round)
    /\ Flight(b, st, frames, p, b.conn[c].seq)
    /\ Queueing(b, st, p, c)

Flowing(b, st, segs, frames, p) ==
    /\ st.state = "open" /\ Window(st)
    /\ \E c \in Slots :
         /\ b.conn[c].state \in {"SYN_RCVD", "ESTABLISHED"}
         /\ Flow(b, st, segs, frames, p, c)
         /\ Room(b, segs, frames) /\ Opening(b, segs, frames, c)

Parting(b, st, segs, frames, p) ==
    /\ st.state = "fin" /\ Resting(b) /\ frames = <<>>
    /\ segs # <<>> /\ segs[Len(segs)].flags = {"FIN", "ACK"}
    /\ \A i \in 1 .. Len(segs) - 1 : segs[i].flags = {"ACK"}
    /\ \A s \in Items(segs) : s.data = <<>> /\ s.seq = st.next /\ s.peer = p
    /\ \E c \in Slots :
         /\ OnlySlot(b, p, c) /\ b.conn[c].state \in {"SYN_RCVD", "ESTABLISHED"}
         /\ b.conn[c].seq = st.next /\ b.conn[c].peerSeq = st.next
         /\ b.conn[c].state = "SYN_RCVD" => Len(segs) > 1 /\ segs[1].ack = b.conn[c].seq

LetGo(b, st, segs, frames, p) ==
    /\ st.state = "fin" /\ segs = <<>> /\ ~Pending(b)
    /\ \E f \in FrameType : /\ InFlight(b, frames, f) /\ f.flags = {"FIN", "ACK"}
                            /\ f.seq = st.next /\ f.data = <<>> /\ f.peer = p
    /\ \E c \in Slots : OnlySlot(b, p, c) /\ b.conn[c].state = "LAST_ACK"

Parted(b, st, segs, frames, p) ==
    /\ st.state = "closed" /\ Resting(b) /\ frames = <<>>
    /\ Len(segs) = 1 /\ segs[1].flags = {"ACK"} /\ segs[1].peer = p
    /\ \E c \in Slots : OnlySlot(b, p, c) /\ b.conn[c].state = "LAST_ACK"

Stage(b, st, segs, frames, p) ==
    \/ Away(b, st, segs, frames)       \/ Knocking(b, st, segs, frames, p)
    \/ LetIn(b, st, segs, frames, p)   \/ Flowing(b, st, segs, frames, p)
    \/ Parting(b, st, segs, frames, p) \/ LetGo(b, st, segs, frames, p)
    \/ Parted(b, st, segs, frames, p)

Staged(b, st, segs, frames, p) == Received(st, p) /\ Stage(b, st, segs, frames, p)

Conversation == \A p \in Peers : Staged(board, peer[p], toBoard[p], toPeer[p], p)

\* The inductive invariant of a peer that is alone.
AInv == Typed /\ Conversation

-------------------------------------------------------------------------------
\* Chains of frames.
LEMMA EndFacts ==
    ASSUME NEW f \in FrameType
    PROVE  /\ f.seq \in Nat /\ EndOf(f) \in Nat /\ f.seq <= EndOf(f)
           /\ f.data = <<>> => EndOf(f) = f.seq
           /\ f.data # <<>> => f.seq < EndOf(f)
  BY FrameFields, EmptyData DEF EndOf

LEMMA ChainBounds ==
    ASSUME NEW s \in Seq(FrameType), NEW m \in Nat, NEW n \in Nat, Chained(s, m, n)
    PROVE  /\ m <= n
           /\ \A i \in 1 .. Len(s) : m <= s[i].seq /\ EndOf(s[i]) <= n
<1>1. Len(s) \in Nat /\ \A i \in 1 .. Len(s) : s[i] \in FrameType
  OBVIOUS
<1>2. \A i \in 1 .. Len(s) : s[i].seq \in Nat /\ EndOf(s[i]) \in Nat /\ s[i].seq <= EndOf(s[i])
  BY <1>1, EndFacts
<1>3. CASE s = <<>>
  BY <1>3 DEF Chained
<1>4. CASE s # <<>>
  <2>1. Len(s) > 0 /\ 1 \in 1 .. Len(s) /\ Len(s) \in 1 .. Len(s)
    BY <1>1, <1>4
  <2>2. s[1].seq = m /\ EndOf(s[Len(s)]) = n
    BY <1>4 DEF Chained
  <2>3. \A i, j \in 1 .. Len(s) : i < j => EndOf(s[i]) <= s[j].seq
    BY DEF Chained
  <2>4. ASSUME NEW i \in 1 .. Len(s) PROVE m <= s[i].seq /\ EndOf(s[i]) <= n
    <3>1. i = 1 \/ 1 < i
      BY <1>1
    <3>2. i = Len(s) \/ i < Len(s)
      BY <1>1
    <3>3. m <= s[i].seq
      BY <1>2, <2>1, <2>2, <2>3, <3>1
    <3>4. EndOf(s[i]) <= n
      BY <1>2, <2>1, <2>2, <2>3, <3>2
    <3> QED
      BY <3>3, <3>4
  <2> QED
    BY <1>2, <2>1, <2>4
<1> QED
  BY <1>3, <1>4

LEMMA ChainTail ==
    ASSUME NEW s \in Seq(FrameType), NEW m, NEW n, Chained(s, m, n), s # <<>>
    PROVE  s[1].seq = m /\ Chained(Tail(s), EndOf(s[1]), n)
<1> DEFINE t == Tail(s)
<1>1. /\ t \in Seq(FrameType) /\ Len(s) \in Nat /\ Len(s) > 0 /\ Len(t) = Len(s) - 1
      /\ \A i \in 1 .. Len(s) - 1 : t[i] = s[i + 1]
  BY TailFacts
<1> HIDE DEF t
<1>2. s[1].seq = m /\ EndOf(s[Len(s)]) = n
  BY DEF Chained
<1>3. t = <<>> => EndOf(s[1]) = n
  <2>1. t = <<>> => Len(s) = 1
    BY <1>1
  <2> QED
    BY <1>2, <2>1
<1>4. t # <<>> => t[1].seq = EndOf(s[1]) /\ EndOf(t[Len(t)]) = n
  <2> SUFFICES ASSUME t # <<>> PROVE t[1].seq = EndOf(s[1]) /\ EndOf(t[Len(t)]) = n
    OBVIOUS
  <2>1. Len(s) - 1 > 0 /\ 1 \in 1 .. Len(s) - 1 /\ Len(s) - 1 \in 1 .. Len(s) - 1
    BY <1>1
  <2>2. t[1] = s[1 + 1] /\ t[Len(t)] = s[Len(s)]
    BY <1>1, <2>1
  <2>3. s[1 + 1].seq = EndOf(s[1])
    BY <2>1 DEF Chained
  <2> QED
    BY <1>2, <2>2, <2>3
<1>5. ASSUME NEW i \in 1 .. Len(t) - 1 PROVE t[i + 1].seq = EndOf(t[i])
  <2>1. i \in 1 .. Len(s) - 1 /\ i + 1 \in 1 .. Len(s) - 1
    BY <1>1
  <2> QED
    BY <1>1, <2>1 DEF Chained
<1>6. ASSUME NEW i \in 1 .. Len(t), NEW j \in 1 .. Len(t), i < j PROVE EndOf(t[i]) <= t[j].seq
  <2>1. i \in 1 .. Len(s) - 1 /\ j \in 1 .. Len(s) - 1 /\ i + 1 \in 1 .. Len(s) /\ j + 1 \in 1 .. Len(s)
        /\ i + 1 < j + 1
    BY <1>1, <1>6
  <2>2. EndOf(s[i + 1]) <= s[j + 1].seq
    BY <2>1 DEF Chained
  <2> QED
    BY <1>1, <2>1, <2>2
<1>7. Chained(t, EndOf(s[1]), n)
  BY <1>3, <1>4, <1>5, <1>6 DEF Chained
<1> QED
  BY <1>2, <1>7 DEF t

LEMMA ChainAppend ==
    ASSUME NEW s \in Seq(FrameType), NEW m \in Nat, NEW n \in Nat, Chained(s, m, n),
           NEW f \in FrameType, f.seq = n
    PROVE  Chained(Append(s, f), m, EndOf(f))
<1> DEFINE t == Append(s, f)
<1>1. /\ t \in Seq(FrameType) /\ Len(t) = Len(s) + 1 /\ Len(s) \in Nat
      /\ \A i \in 1 .. Len(s) : t[i] = s[i]
      /\ t[Len(s) + 1] = f
  BY AppendFacts
<1> HIDE DEF t
<1>2. m <= n /\ \A i \in 1 .. Len(s) : m <= s[i].seq /\ EndOf(s[i]) <= n
  BY ChainBounds
<1>3. t # <<>> /\ t[Len(t)] = f
  BY <1>1
<1>4. t[1].seq = m
  <2>1. CASE s = <<>>
    <3>1. t[1] = f /\ m = n
      BY <1>1, <2>1 DEF Chained
    <3> QED
      BY <3>1
  <2>2. CASE s # <<>>
    <3>1. 1 \in 1 .. Len(s)
      BY <1>1, <2>2
    <3> QED
      BY <1>1, <2>2, <3>1 DEF Chained
  <2> QED
    BY <2>1, <2>2
<1>5. ASSUME NEW i \in 1 .. Len(t) - 1 PROVE t[i + 1].seq = EndOf(t[i])
  <2>1. CASE i = Len(s)
    <3>1. s # <<>> /\ i \in 1 .. Len(s)
      BY <1>1, <1>5, <2>1
    <3>2. EndOf(s[Len(s)]) = n
      BY <3>1 DEF Chained
    <3> QED
      BY <1>1, <2>1, <3>1, <3>2
  <2>2. CASE i # Len(s)
    <3>1. i \in 1 .. Len(s) - 1 /\ i \in 1 .. Len(s) /\ i + 1 \in 1 .. Len(s)
      BY <1>1, <1>5, <2>2
    <3>2. s[i + 1].seq = EndOf(s[i])
      BY <3>1 DEF Chained
    <3> QED
      BY <1>1, <3>1, <3>2
  <2> QED
    BY <2>1, <2>2
<1>6. ASSUME NEW i \in 1 .. Len(t), NEW j \in 1 .. Len(t), i < j PROVE EndOf(t[i]) <= t[j].seq
  <2>1. i \in 1 .. Len(s)
    BY <1>1, <1>6
  <2>2. CASE j = Len(s) + 1
    BY <1>1, <1>2, <2>1, <2>2
  <2>3. CASE j # Len(s) + 1
    <3>1. j \in 1 .. Len(s)
      BY <1>1, <1>6, <2>3
    <3>2. EndOf(s[i]) <= s[j].seq
      BY <1>6, <2>1, <3>1 DEF Chained
    <3> QED
      BY <1>1, <2>1, <3>1, <3>2
  <2> QED
    BY <2>2, <2>3
<1>7. Chained(t, m, EndOf(f))
  BY <1>3, <1>4, <1>5, <1>6 DEF Chained
<1> QED
  BY <1>7 DEF t

LEMMA ChainOf ==
    ASSUME NEW f \in FrameType
    PROVE  Chained(<<f>>, f.seq, EndOf(f))
  BY DEF Chained

-------------------------------------------------------------------------------
\* What the parts of a pass do while the transmitter is still.
LEMMA SegmentIs ==
    ASSUME NEW p, NEW flags, NEW seq, NEW ack, NEW data,
           NEW f, f = Segment(p, flags, seq, ack, data)
    PROVE  f.peer = p /\ f.flags = flags /\ f.seq = seq /\ f.ack = ack /\ f.data = data
  BY DEF Segment

\* tcp_send requests frame f alone, and takes w of the sequence space of slot c.
Posts(b, n, c, w, f) ==
    /\ SameQueue(b, n) /\ n.region = f /\ n.txReq = TRUE /\ n.mac = {}
    /\ n.conn[c].state = b.conn[c].state /\ n.conn[c].peer = b.conn[c].peer
    /\ n.conn[c].seq = b.conn[c].seq + w /\ n.conn[c].peerSeq = b.conn[c].peerSeq
    /\ \A d \in Slots : d # c => n.conn[d] = b.conn[d]

LEMMA SendPosts ==
    ASSUME NEW b, TypedBoard(b), b.mac = {}, NEW c \in Slots, NEW flags \in SUBSET Flags,
           NEW data \in Seq(ByteType), NEW w \in Nat, w = Weight(flags, data),
           NEW f, f = Segment(b.conn[c].peer, flags, b.conn[c].seq, b.conn[c].peerSeq, data),
           NEW n, n = Send(b, c, flags, data)
    PROVE  Posts(b, n, c, w, f)
<1> DEFINE o     == b.conn[c]
           slot  == [o EXCEPT !.seq = @ + w]
           conn2 == [b.conn EXCEPT ![c] = slot]
           M     == {}
<1>1. b \in BoardType /\ b.conn \in [Slots -> SlotType] /\ o \in SlotType /\ o = b.conn[c] /\ M = {}
  BY BoardFields DEF TypedBoard
<1>2. n = [b EXCEPT !.conn = conn2, !.region = f, !.txReq = TRUE, !.mac = M]
  BY DEF Send
<1> HIDE DEF o, M
<1>3. slot.state = o.state /\ slot.peer = o.peer /\ slot.seq = o.seq + w /\ slot.peerSeq = o.peerSeq
  BY <1>1 DEF SlotType
<1> HIDE DEF slot
<1>4. conn2[c] = slot /\ \A d \in Slots : d # c => conn2[d] = b.conn[d]
  BY <1>1
<1> HIDE DEF conn2
<1>5. /\ n.conn = conn2 /\ n.bufs = b.bufs /\ n.qLen = b.qLen /\ n.qOff = b.qOff /\ n.qCid = b.qCid
      /\ n.region = f /\ n.txReq = TRUE /\ n.mac = M
  BY <1>1, <1>2 DEF BoardType
<1> QED
  BY <1>1, <1>3, <1>4, <1>5 DEF Posts, SameQueue

\* tcp_queue puts the data behind what waits in the buffer of slot c, if it fits.
Left(b) == b.qLen - b.qOff
Adds(b, n, c, data) ==
    /\ n.qCid = c /\ n.qOff = (IF Pending(b) THEN b.qOff ELSE 0)
    /\ n.qLen = n.qOff + Left(b) + Len(data)
    /\ \A i \in 1 .. Left(b) : n.bufs[c][n.qOff + i] = b.bufs[c][b.qOff + i]
    /\ \A i \in 1 .. Len(data) : n.bufs[c][n.qOff + Left(b) + i] = data[i]

LEMMA QueueAdds ==
    ASSUME NEW b, TypedBoard(b), NEW c \in Slots, NEW data \in Seq(ByteType), data # <<>>,
           Pending(b) => b.qCid = c /\ b.qLen + Len(data) <= SendBuf,
           Len(data) <= SendBuf,
           NEW n, n = Queue(b, c, data)
    PROVE  n.conn = b.conn /\ SameLine(b, n) /\ Adds(b, n, c, data)
<1> DEFINE fresh == b.qLen = b.qOff
           len   == IF fresh THEN 0 ELSE b.qLen
           room  == IF SendBuf - len < Len(data) THEN SendBuf - len ELSE Len(data)
           B     == b.bufs[c]
           buf2  == [i \in 1 .. SendBuf |->
                       IF i \in len + 1 .. len + room THEN data[i - len] ELSE B[i]]
           bufs2 == [b.bufs EXCEPT ![c] = buf2]
           len2  == len + room
           off2  == IF fresh THEN 0 ELSE b.qOff
           cid2  == IF fresh THEN c ELSE b.qCid
           l     == Len(data)
<1>1. /\ b \in BoardType /\ b.bufs \in [Slots -> [1 .. SendBuf -> ByteType]]
      /\ b.qLen \in Nat /\ b.qOff \in Nat /\ b.qOff <= b.qLen /\ b.qLen <= SendBuf /\ SendBuf \in Nat
  BY BoardFields, NumberFacts DEF TypedBoard
<1>2. l \in Nat /\ l > 0 /\ l = Len(data)
  OBVIOUS
<1>3. n = [b EXCEPT !.bufs[c] = buf2, !.qLen = len2, !.qOff = off2, !.qCid = cid2]
  BY DEF Queue
<1>4. n = [b EXCEPT !.bufs = bufs2, !.qLen = len2, !.qOff = off2, !.qCid = cid2]
  <2> HIDE DEF buf2, len2, off2, cid2
  <2> QED
    BY <1>3
<1>5. Pending(b) <=> ~fresh
  BY <1>1 DEF Pending
<1>6. /\ room = l /\ len \in Nat /\ len + l <= SendBuf /\ len2 = len + l
      /\ off2 = (IF Pending(b) THEN b.qOff ELSE 0) /\ cid2 = c
      /\ off2 \in Nat /\ len = off2 + Left(b) /\ Left(b) \in Nat
      /\ Left(b) > 0 => off2 = b.qOff
  BY <1>1, <1>2, <1>5 DEF Left
<1> HIDE DEF fresh, len, room, len2, off2, cid2, l, B
<1>7. \A i \in 1 .. Left(b) : buf2[off2 + i] = B[b.qOff + i]
  <2> SUFFICES ASSUME NEW i \in 1 .. Left(b) PROVE buf2[off2 + i] = B[b.qOff + i]
    OBVIOUS
  <2>1. /\ len \in Nat /\ l \in Nat /\ len + l <= SendBuf /\ SendBuf \in Nat /\ off2 \in Nat
        /\ Left(b) \in Nat /\ len = off2 + Left(b) /\ i \in 1 .. Left(b) /\ room = l
    BY <1>1, <1>2, <1>6
  <2>2. off2 + i \in 1 .. SendBuf /\ off2 + i \notin len + 1 .. len + room
    BY ONLY <2>1
  <2>3. off2 = b.qOff
    BY <1>6
  <2> QED
    BY <2>2, <2>3
<1>8. \A i \in 1 .. l : buf2[off2 + Left(b) + i] = data[i]
  <2> SUFFICES ASSUME NEW i \in 1 .. l PROVE buf2[off2 + Left(b) + i] = data[i]
    OBVIOUS
  <2>1. /\ len \in Nat /\ l \in Nat /\ len + l <= SendBuf /\ SendBuf \in Nat /\ off2 \in Nat
        /\ Left(b) \in Nat /\ len = off2 + Left(b) /\ i \in 1 .. l /\ room = l
    BY <1>1, <1>2, <1>6
  <2>2. off2 + Left(b) + i = len + i /\ (len + i) - len = i
    BY ONLY <2>1
  <2>3. len + i \in 1 .. SendBuf
    BY ONLY <2>1
  <2>4. len + i \in len + 1 .. len + room
    BY ONLY <2>1
  <2> QED
    BY <2>2, <2>3, <2>4
<1> HIDE DEF buf2
<1>9. bufs2[c] = buf2
  BY <1>1
<1> HIDE DEF bufs2
<1>10. /\ n.conn = b.conn /\ n.bufs = bufs2 /\ n.qLen = len2 /\ n.qOff = off2 /\ n.qCid = cid2
       /\ n.region = b.region /\ n.txReq = b.txReq /\ n.mac = b.mac
  BY <1>1, <1>4 DEF BoardType
<1> QED
  BY <1>2, <1>6, <1>7, <1>8, <1>9, <1>10 DEF Adds, SameLine, B

\* tcp_maintenance requests frame f with the next chunk of k bytes.
Chunked(b, n, c, k, f) ==
    /\ k = (IF Left(b) > Chunk THEN Chunk ELSE Left(b))
    /\ f \in FrameType /\ f.peer = b.conn[c].peer /\ f.flags = {"ACK"} /\ f.seq = b.conn[c].seq
    /\ Len(f.data) = k /\ \A i \in 1 .. k : f.data[i] = b.bufs[c][b.qOff + i]
    /\ n.region = f /\ n.txReq = TRUE /\ n.mac = {} /\ n.bufs = b.bufs /\ n.qCid = c
    /\ \/ k = Left(b) /\ n.qLen = 0 /\ n.qOff = 0
       \/ k < Left(b) /\ n.qLen = b.qLen /\ n.qOff = b.qOff + k
    /\ n.conn[c].state = b.conn[c].state /\ n.conn[c].peer = b.conn[c].peer
    /\ n.conn[c].seq = b.conn[c].seq + k /\ n.conn[c].peerSeq = b.conn[c].peerSeq
    /\ \A d \in Slots : d # c => n.conn[d] = b.conn[d]

LEMMA MaintainChunks ==
    ASSUME NEW b, TypedBoard(b), Pending(b), b.mac = {}, NEW c, c = b.qCid,
           NEW n, n = Maintain(b)
    PROVE  \E k \in Nat, f \in FrameType : k > 0 /\ Chunked(b, n, c, k, f)
<1> DEFINE rest  == b.qLen - b.qOff
           k     == IF rest > Chunk THEN Chunk ELSE rest
           data  == SubSeq(b.bufs[c], b.qOff + 1, b.qOff + k)
           f     == Segment(b.conn[c].peer, {"ACK"}, b.conn[c].seq, b.conn[c].peerSeq, data)
           sent  == Send(b, c, {"ACK"}, data)
           off2  == sent.qOff + k
<1>1. /\ b.qLen \in 0 .. SendBuf /\ b.qOff \in 0 .. SendBuf /\ b.qOff < b.qLen /\ c \in Slots
      /\ b.bufs[c] \in [1 .. SendBuf -> ByteType] /\ SendBuf \in Nat /\ Chunk \in Nat /\ Chunk > 0
      /\ b.conn[c].peer \in Names /\ b.conn[c].seq \in Nat /\ b.conn[c].peerSeq \in Nat
  BY BoardFields, NumberFacts DEF Pending
<1>2. rest \in Nat /\ rest > 0 /\ k \in Nat /\ k > 0 /\ k <= rest /\ b.qOff + k <= SendBuf
      /\ k = (IF Left(b) > Chunk THEN Chunk ELSE Left(b)) /\ rest = Left(b)
  BY <1>1 DEF Left
<1>3. n = IF rest = 0 THEN b ELSE IF k = rest THEN [sent EXCEPT !.qLen = 0, !.qOff = 0]
          ELSE [sent EXCEPT !.qOff = @ + k]
  BY DEF Maintain
<1> HIDE DEF k, rest
<1>4. /\ data \in Seq(ByteType) /\ Len(data) = k
      /\ \A i \in 1 .. k : data[i] = b.bufs[c][b.qOff + i]
  <2> DEFINE u == b.bufs[c]
             o == b.qOff
  <2>1. u \in [1 .. SendBuf -> ByteType] /\ o \in Nat /\ o + k <= SendBuf
    BY <1>1, <1>2
  <2> HIDE DEF u, o
  <2>2. u \in Seq(ByteType) /\ Len(u) = SendBuf
    BY <1>1, <2>1
  <2>3. /\ SubSeq(u, o + 1, o + k) \in Seq(ByteType) /\ Len(SubSeq(u, o + 1, o + k)) = k
        /\ \A i \in 1 .. k : SubSeq(u, o + 1, o + k)[i] = u[o + i]
    BY <1>2, <2>1, <2>2, SubSeqFacts
  <2> QED
    BY <2>3 DEF u, o
<1> HIDE DEF data
<1>5. {"ACK"} \in SUBSET Flags /\ k = Weight({"ACK"}, data)
  BY <1>4, Weights DEF Flags
<1>6. f \in FrameType /\ f.peer = b.conn[c].peer /\ f.flags = {"ACK"} /\ f.seq = b.conn[c].seq
      /\ f.data = data
  <2>1. IsFrame(f, b.conn[c].peer, {"ACK"}, b.conn[c].seq, data)
    BY <1>1, <1>4, <1>5, SegmentTyped
  <2> QED
    BY <2>1 DEF IsFrame
<1>7. Posts(b, sent, c, k, f) /\ TypedBoard(sent)
  <2>1. Posted(b, sent, c, k, f) /\ Posts(b, sent, c, k, f)
    BY <1>1, <1>2, <1>4, <1>5, SendDoes, SendPosts
  <2> QED
    BY <2>1 DEF Posted
<1> HIDE DEF f, sent, off2
<1>8. sent \in BoardType
  BY <1>7 DEF TypedBoard
<1>9. /\ n.conn = sent.conn /\ n.bufs = sent.bufs /\ n.qCid = sent.qCid
      /\ n.region = sent.region /\ n.txReq = sent.txReq /\ n.mac = sent.mac
      /\ \/ k = rest /\ n.qLen = 0 /\ n.qOff = 0
         \/ k < rest /\ n.qLen = sent.qLen /\ n.qOff = off2
  <2>1. CASE k = rest
    <3>1. n = [sent EXCEPT !.qLen = 0, !.qOff = 0]
      BY <1>2, <1>3, <2>1
    <3> QED
      BY <1>8, <2>1, <3>1 DEF BoardType
  <2>2. CASE k # rest
    <3>1. n = [sent EXCEPT !.qOff = off2] /\ k < rest
      BY <1>2, <1>3, <2>2 DEF off2
    <3> QED
      BY <1>8, <3>1 DEF BoardType
  <2> QED
    BY <2>1, <2>2
<1>10. sent.qOff = b.qOff /\ sent.qLen = b.qLen /\ sent.bufs = b.bufs /\ sent.qCid = c
  BY <1>7 DEF Posts, SameQueue
<1>11. Chunked(b, n, c, k, f)
  BY <1>2, <1>4, <1>6, <1>7, <1>9, <1>10 DEF Chunked, Posts, off2
<1> QED
  BY <1>2, <1>6, <1>11

\* The transmitter takes the request.
LEMMA TransmitStarts ==
    ASSUME NEW b, TypedBoard(b), NEW n, n = Transmit(b, FALSE)
    PROVE  /\ n.conn = b.conn /\ SameQueue(b, n) /\ TypedBoard(n)
           /\ b.mac = {} /\ b.txReq => n.mac = {b.region} /\ ~n.txReq
           /\ ~(b.mac = {} /\ b.txReq) => n = b
<1> DEFINE M == {b.region}
<1>1. b \in BoardType /\ TypedBoard(n)
  BY TransmitDoes DEF TypedBoard
<1>2. CASE b.mac = {} /\ b.txReq
  <2>1. n = [b EXCEPT !.mac = M, !.txReq = FALSE] /\ M = {b.region}
    BY <1>2 DEF Transmit
  <2> HIDE DEF M
  <2>2. n.conn = b.conn /\ SameQueue(b, n) /\ n.mac = M /\ ~n.txReq
    BY <1>1, <2>1 DEF BoardType, SameQueue
  <2> QED
    BY <1>1, <1>2, <2>1, <2>2
<1>3. CASE ~(b.mac = {} /\ b.txReq)
  <2>1. n = b
    BY <1>3 DEF Transmit
  <2> QED
    BY <1>1, <1>3, <2>1 DEF SameQueue
<1> QED
  BY <1>2, <1>3

\* It finishes.
LEMMA TransmitEnds ==
    ASSUME NEW b, TypedBoard(b), b.mac # {}, NEW n, n = Transmit(b, TRUE)
    PROVE  /\ n.conn = b.conn /\ SameQueue(b, n) /\ TypedBoard(n)
           /\ n.mac = {} /\ n.txReq = b.txReq /\ n.region = b.region
<1> DEFINE E == {}
<1>1. b \in BoardType /\ TypedBoard(n)
  BY TransmitDoes DEF TypedBoard
<1>2. n = [b EXCEPT !.mac = E] /\ E = {}
  BY DEF Transmit
<1> HIDE DEF E
<1>3. n.conn = b.conn /\ SameQueue(b, n) /\ n.mac = E /\ n.txReq = b.txReq /\ n.region = b.region
  BY <1>1, <1>2 DEF BoardType, SameQueue
<1> QED
  BY <1>1, <1>2, <1>3

\* tcp_find with at most one slot taken.
LEMMA FindOnly ==
    ASSUME NEW b, NEW p, NEW c \in Slots, OnlySlot(b, p, c), b.conn[c].state # "FREE"
    PROVE  Find(b, p) = c
<1>1. Find(b, p) # None
  <2> DEFINE ours == {d \in Slots : b.conn[d].state # "FREE" /\ b.conn[d].peer = p}
  <2>1. c \in ours /\ ours \subseteq Slots /\ ours \in SUBSET Nat
    BY NumberFacts DEF OnlySlot
  <2>2. Find(b, p) = CHOOSE d \in ours : \A e \in ours : d <= e
    BY <2>1 DEF Find
  <2> HIDE DEF ours
  <2>3. \E d \in ours : \A e \in ours : d <= e
    BY <2>1, LeastNatural
  <2>4. Find(b, p) \in ours
    BY <2>2, <2>3
  <2> QED
    BY <2>1, <2>4, TcpAssumption DEF None, Slots
<1> QED
  BY <1>1, FindFacts DEF OnlySlot

LEMMA FindFree ==
    ASSUME NEW b, NEW p, NoSlot(b)
    PROVE  Find(b, p) \in Slots
<1> DEFINE ours == {d \in Slots : b.conn[d].state # "FREE" /\ b.conn[d].peer = p}
           free == {d \in Slots : b.conn[d].state = "FREE"}
<1>1. ours = {} /\ free = Slots /\ Slots \in SUBSET Nat /\ Slots # {}
  BY TcpAssumption, NumberFacts DEF NoSlot, Slots
<1>2. Find(b, p) = CHOOSE d \in Slots : \A e \in Slots : d <= e
  BY <1>1 DEF Find
<1>3. \E d \in Slots : \A e \in Slots : d <= e
  BY <1>1, LeastNatural
<1> QED
  BY <1>2, <1>3

\* What a received segment does to the one slot that is taken.
SlotLike(b, n, c, state, seq, peerSeq) ==
    /\ n.conn[c].state = state /\ n.conn[c].peer = b.conn[c].peer
    /\ n.conn[c].seq = seq /\ n.conn[c].peerSeq = peerSeq
    /\ \A d \in Slots : d # c => n.conn[d] = b.conn[d]

LEMMA ReceiveSyn ==
    ASSUME NEW b, TypedBoard(b), Still(b), NoSlot(b), NEW p \in Peers, NEW s \in FrameType,
           s.peer = p, s.flags = {"SYN"}, s.seq = 0,
           NEW n, n = Receive(b, s)
    PROVE  /\ SameQueue(b, n) /\ Carries(n, Segment(p, {"SYN", "ACK"}, 0, 1, <<>>))
           /\ \E c \in Slots : /\ OnlySlot(n, p, c) /\ n.conn[c].state = "SYN_RCVD"
                               /\ n.conn[c].seq = 1 /\ n.conn[c].peerSeq = 1
<1> DEFINE c    == Find(b, p)
           slot == [state |-> "SYN_RCVD", peer |-> s.peer, seq |-> 0, peerSeq |-> s.seq + 1]
           r    == [b EXCEPT !.conn[c] = slot]
           F    == {"SYN", "ACK"}
           e    == <<>>
           f    == Segment(r.conn[c].peer, F, r.conn[c].seq, r.conn[c].peerSeq, e)
<1>1. c \in Slots /\ b.conn[c].state = "FREE" /\ c # None
  BY FindFree, TcpAssumption DEF NoSlot, None, Slots
<1>2. n = Send(r, c, F, e)
  BY <1>1 DEF Receive, Accept
<1>3. slot \in SlotType /\ slot.state = "SYN_RCVD" /\ slot.peer = p /\ slot.seq = 0 /\ slot.peerSeq = 1
  <2>1. s.peer \in Names /\ s.seq + 1 \in Nat /\ s.seq + 1 = 1
    BY FrameFields
  <2> QED
    BY <2>1 DEF SlotType, States
<1>4. F \in SUBSET Flags /\ e \in Seq(ByteType) /\ 1 = Weight(F, e) /\ 1 \in Nat
  BY EmptyData, Weights DEF Flags
<1>5. F = {"SYN", "ACK"} /\ e = <<>>
  OBVIOUS
<1> HIDE DEF c, slot, F, e, r
<1>6. SlotSet(b, r, c, slot)
  BY <1>1, <1>3, SlotChange DEF r
<1>7. TypedBoard(r) /\ r.mac = {} /\ r.conn[c] = slot /\ SameQueue(b, r)
      /\ \A d \in Slots : d # c => r.conn[d] = b.conn[d]
  BY <1>6 DEF SlotSet, SameLine, Still
<1>8. f = Segment(p, F, 0, 1, e)
  BY <1>3, <1>7
<1>9. f = Segment(r.conn[c].peer, F, r.conn[c].seq, r.conn[c].peerSeq, e)
  OBVIOUS
<1> HIDE DEF f
<1>10. Posts(r, n, c, 1, f)
  BY <1>1, <1>2, <1>4, <1>7, <1>9, SendPosts
<1>11. SameQueue(b, n) /\ n.txReq = TRUE /\ n.mac = {} /\ n.region = f
  BY <1>7, <1>10 DEF Posts, SameQueue
<1>12. Carries(n, Segment(p, {"SYN", "ACK"}, 0, 1, <<>>))
  BY <1>5, <1>8, <1>11 DEF Carries
<1>13. /\ n.conn[c].state = "SYN_RCVD" /\ n.conn[c].peer = p /\ n.conn[c].seq = 1 /\ n.conn[c].peerSeq = 1
       /\ \A d \in Slots : d # c => n.conn[d].state = "FREE"
  BY <1>3, <1>7, <1>10 DEF Posts, NoSlot
<1> QED
  BY <1>1, <1>11, <1>12, <1>13 DEF OnlySlot

LEMMA StateChange ==
    ASSUME NEW b, TypedBoard(b), NEW c \in Slots, NEW t \in States,
           NEW n, n = [b EXCEPT !.conn[c].state = t]
    PROVE  /\ SlotLike(b, n, c, t, b.conn[c].seq, b.conn[c].peerSeq)
           /\ SameQueue(b, n) /\ SameLine(b, n) /\ TypedBoard(n)
<1> DEFINE o    == b.conn[c]
           slot == [o EXCEPT !.state = t]
<1>1. o \in SlotType /\ o = b.conn[c] /\ n = [b EXCEPT !.conn[c] = slot]
  BY BoardFields
<1> HIDE DEF o
<1>2. slot \in SlotType
  BY <1>1, Zenon DEF SlotType
<1>3. slot.state = t /\ slot.peer = o.peer /\ slot.seq = o.seq /\ slot.peerSeq = o.peerSeq
  BY <1>1 DEF SlotType
<1> HIDE DEF slot
<1>4. SlotSet(b, n, c, slot)
  BY <1>1, <1>2, SlotChange
<1> QED
  BY <1>1, <1>3, <1>4 DEF SlotSet, SlotLike

LEMMA ReceiveAck ==
    ASSUME NEW b, TypedBoard(b), NEW c \in Slots, NEW s \in FrameType, OnlySlot(b, s.peer, c),
           "ACK" \in s.flags, NEW n, n = Receive(b, s)
    PROVE  /\ b.conn[c].state = "SYN_RCVD" /\ s.ack = b.conn[c].seq =>
                /\ SlotLike(b, n, c, "ESTABLISHED", b.conn[c].seq, b.conn[c].peerSeq)
                /\ SameQueue(b, n) /\ SameLine(b, n)
           /\ b.conn[c].state = "LAST_ACK" =>
                /\ SlotLike(b, n, c, "FREE", b.conn[c].seq, b.conn[c].peerSeq)
                /\ SameQueue(b, n) /\ SameLine(b, n)
<1>1. c # None /\ "ESTABLISHED" \in States /\ "FREE" \in States
  BY TcpAssumption DEF Slots, None, States
<1>2. CASE b.conn[c].state = "SYN_RCVD" /\ s.ack = b.conn[c].seq
  <2>1. Find(b, s.peer) = c
    BY <1>2, FindOnly
  <2>2. n = [b EXCEPT !.conn[c].state = "ESTABLISHED"]
    BY <1>1, <1>2, <2>1 DEF Receive, SynReceived
  <2> QED
    BY <1>1, <1>2, <2>2, StateChange
<1>3. CASE b.conn[c].state = "LAST_ACK"
  <2>1. Find(b, s.peer) = c
    BY <1>3, FindOnly
  <2>2. n = [b EXCEPT !.conn[c].state = "FREE"]
    BY <1>1, <1>3, <2>1 DEF Receive, LastAck
  <2> QED
    BY <1>1, <1>3, <2>2, StateChange
<1> QED
  BY <1>2, <1>3

\* Data: what is acknowledged is what was received.
LEMMA ReceiveData ==
    ASSUME NEW b, TypedBoard(b), NEW c \in Slots, NEW s \in FrameType, OnlySlot(b, s.peer, c),
           b.conn[c].state = "ESTABLISHED", s.flags = {"ACK"},
           Pending(b) => b.qCid = c /\ b.qLen + Len(s.data) <= SendBuf,
           Len(s.data) <= SendBuf,
           NEW n, n = Receive(b, s)
    PROVE  /\ SlotLike(b, n, c, "ESTABLISHED", b.conn[c].seq, EndOf(s)) /\ SameLine(b, n)
           /\ s.data = <<>> => SameQueue(b, n)
           /\ s.data # <<>> => Adds(b, n, c, s.data)
<1> DEFINE o    == b.conn[c]
           m    == EndOf(s)
           slot == [o EXCEPT !.peerSeq = m]
           r    == [b EXCEPT !.conn[c] = slot]
<1>1. c # None /\ Find(b, s.peer) = c
  BY TcpAssumption, FindOnly DEF Slots, None
<1>2. m \in Nat /\ m = EndOf(s) /\ s.data \in Seq(ByteType) /\ s.seq + Len(s.data) + 0 = m
  BY EndFacts, FrameFields DEF EndOf
<1>3. n = Queue(r, c, s.data)
  <2>1. n = Established(b, c, s)
    BY <1>1 DEF Receive
  <2>2. n = Queue([b EXCEPT !.conn[c].peerSeq = s.seq + Len(s.data) + 0], c, s.data)
    BY <2>1 DEF Established
  <2> QED
    BY <1>2, <2>2
<1>4. o \in SlotType /\ o = b.conn[c]
  BY BoardFields
<1> HIDE DEF o, m
<1>5. slot \in SlotType
  BY <1>2, <1>4, Zenon DEF SlotType
<1>6. slot.state = o.state /\ slot.peer = o.peer /\ slot.seq = o.seq /\ slot.peerSeq = m
  BY <1>4 DEF SlotType
<1> HIDE DEF slot, r
<1>7. SlotSet(b, r, c, slot)
  <2>1. r = [b EXCEPT !.conn[c] = slot]
    BY DEF r
  <2> QED
    BY <1>5, <2>1, SlotChange
<1>8. TypedBoard(r) /\ SameQueue(b, r) /\ SameLine(b, r) /\ SlotLike(b, r, c, "ESTABLISHED", b.conn[c].seq, m)
  BY <1>4, <1>6, <1>7 DEF SlotSet, SlotLike
<1>9. CASE s.data = <<>>
  <2>1. n = r
    BY <1>3, <1>9 DEF Queue
  <2> QED
    BY <1>2, <1>8, <1>9, <2>1
<1>10. CASE s.data # <<>>
  <2>1. Pending(r) = Pending(b) /\ r.qCid = b.qCid /\ r.qLen = b.qLen
    BY <1>8 DEF SameQueue, Pending
  <2>2. n.conn = r.conn /\ SameLine(r, n) /\ Adds(r, n, c, s.data)
    BY <1>2, <1>3, <1>8, <1>10, <2>1, QueueAdds
  <2>3. Adds(b, n, c, s.data) /\ SameLine(b, n)
    BY <1>8, <2>1, <2>2 DEF Adds, SameQueue, SameLine, Left
  <2>4. SlotLike(b, n, c, "ESTABLISHED", b.conn[c].seq, m)
    BY <1>8, <2>2 DEF SlotLike
  <2> QED
    BY <1>2, <1>10, <2>3, <2>4
<1> QED
  BY <1>9, <1>10

\* A FIN is answered at once.
FinAnswered(b, n, c, q) ==
    /\ SameQueue(b, n) /\ n.conn[c].state = "LAST_ACK" /\ OnlySlot(n, q, c)
    /\ \E f \in FrameType : /\ Carries(n, f) /\ f.flags = {"FIN", "ACK"} /\ f.data = <<>>
                            /\ f.seq = b.conn[c].seq /\ f.peer = q

LEMMA ReceiveFin ==
    ASSUME NEW b, TypedBoard(b), Still(b), NEW c \in Slots, NEW s \in FrameType, OnlySlot(b, s.peer, c),
           b.conn[c].state = "ESTABLISHED", s.flags = {"FIN", "ACK"}, s.data = <<>>,
           NEW n, n = Receive(b, s)
    PROVE  FinAnswered(b, n, c, s.peer)
<1> DEFINE o    == b.conn[c]
           m    == s.seq + Len(s.data) + 1
           slot == [o EXCEPT !.peerSeq = m]
           r    == [b EXCEPT !.conn[c] = slot]
           F    == {"FIN", "ACK"}
           e    == <<>>
           t    == Send(r, c, F, e)
           f    == Segment(r.conn[c].peer, F, r.conn[c].seq, r.conn[c].peerSeq, e)
<1>1. c # None /\ Find(b, s.peer) = c
  BY TcpAssumption, FindOnly DEF Slots, None
<1>2. m \in Nat
  BY FrameFields
<1>3. n = [t EXCEPT !.conn[c].state = "LAST_ACK"]
  <2>1. n = Established(b, c, s)
    BY <1>1 DEF Receive
  <2>2. Queue(r, c, s.data) = r
    BY DEF Queue
  <2> QED
    BY <2>1, <2>2 DEF Established
<1>4. o \in SlotType /\ o = b.conn[c]
  BY BoardFields
<1>5. F \in SUBSET Flags /\ e \in Seq(ByteType) /\ 1 = Weight(F, e) /\ 1 \in Nat
  BY EmptyData, Weights DEF Flags
<1>6. F = {"FIN", "ACK"} /\ e = <<>>
  OBVIOUS
<1> HIDE DEF o, m, F, e
<1>7. slot \in SlotType
  BY <1>2, <1>4, Zenon DEF SlotType
<1>8. slot.state = o.state /\ slot.peer = o.peer /\ slot.seq = o.seq
  BY <1>4 DEF SlotType
<1> HIDE DEF slot, r, t
<1>9. SlotSet(b, r, c, slot)
  <2>1. r = [b EXCEPT !.conn[c] = slot]
    BY DEF r
  <2> QED
    BY <1>7, <2>1, SlotChange
<1>10. /\ TypedBoard(r) /\ SameQueue(b, r) /\ r.mac = {} /\ r.conn[c] = slot
       /\ \A d \in Slots : d # c => r.conn[d] = b.conn[d]
  BY <1>9 DEF SlotSet, SameLine, Still
<1>11. f \in FrameType /\ f.peer = s.peer /\ f.seq = b.conn[c].seq /\ f.flags = F /\ f.data = e
  <2>1. r.conn[c].peer = s.peer /\ r.conn[c].seq = b.conn[c].seq
    BY <1>4, <1>8, <1>10 DEF OnlySlot
  <2>2. r.conn[c].peer \in Names /\ r.conn[c].seq \in Nat /\ r.conn[c].peerSeq \in Nat
    BY <1>10, BoardFields
  <2>3. IsFrame(f, r.conn[c].peer, F, r.conn[c].seq, e)
    BY <1>5, <2>2, SegmentTyped
  <2> QED
    BY <2>1, <2>3 DEF IsFrame
<1>12. f = Segment(r.conn[c].peer, F, r.conn[c].seq, r.conn[c].peerSeq, e) /\ t = Send(r, c, F, e)
  BY DEF t
<1> HIDE DEF f
<1>13. Posts(r, t, c, 1, f) /\ TypedBoard(t)
  <2>1. Posts(r, t, c, 1, f) /\ Posted(r, t, c, 1, f)
    BY <1>5, <1>10, <1>12, SendPosts, SendDoes
  <2> QED
    BY <2>1 DEF Posted
<1>14. SlotLike(t, n, c, "LAST_ACK", t.conn[c].seq, t.conn[c].peerSeq) /\ SameQueue(t, n) /\ SameLine(t, n)
  <2>1. "LAST_ACK" \in States
    BY DEF States
  <2> QED
    BY <1>3, <1>13, <2>1, StateChange
<1>15. SameQueue(b, n) /\ Carries(n, f)
  BY <1>10, <1>13, <1>14 DEF Posts, SameQueue, SameLine, Carries
<1>16. n.conn[c].state = "LAST_ACK" /\ OnlySlot(n, s.peer, c)
  <2>1. n.conn[c].peer = b.conn[c].peer
    BY <1>4, <1>8, <1>10, <1>13, <1>14 DEF Posts, SlotLike
  <2>2. \A d \in Slots : d # c => n.conn[d] = b.conn[d]
    BY <1>10, <1>13, <1>14 DEF Posts, SlotLike
  <2> QED
    BY <1>14, <2>1, <2>2 DEF SlotLike, OnlySlot
<1> QED
  BY <1>6, <1>11, <1>15, <1>16 DEF FinAnswered

-------------------------------------------------------------------------------
\* The flow through the parts of a pass.
LEMMA CarriedOne ==
    ASSUME NEW b
    PROVE  /\ \A f, g : Carries(b, f) /\ Carries(b, g) => f = g
           /\ \A f : Carries(b, f) => ~Still(b)
           /\ \A f : Carries(b, f) /\ b.mac # {} => b.mac = {f} /\ ~b.txReq
  BY DEF Carries, Still

\* What has come back and what is on its way make up what the board has echoed.
LEMMA FlightBounds ==
    ASSUME NEW b, NEW st \in PeerType, NEW frames \in Seq(FrameType), NEW p, NEW k \in Nat,
           Flight(b, st, frames, p, k)
    PROVE  /\ st.next <= k
           /\ \A f \in FrameType : Carries(b, f) => st.next + Len(f.data) <= k
           /\ Still(b) /\ frames # <<>> => st.next + Len(frames[Len(frames)].data) <= k
<1>1. st.next \in Nat
  BY PeerFields
<1>2. CASE Still(b) /\ Chained(frames, st.next, k)
  <2>1. st.next <= k /\ \A i \in 1 .. Len(frames) : st.next <= frames[i].seq /\ EndOf(frames[i]) <= k
    BY <1>1, <1>2, ChainBounds
  <2>2. frames # <<>> => Len(frames) \in 1 .. Len(frames) /\ frames[Len(frames)] \in FrameType
    OBVIOUS
  <2>3. ASSUME frames # <<>> PROVE st.next + Len(frames[Len(frames)].data) <= k
    <3> DEFINE f == frames[Len(frames)]
    <3>1. st.next <= f.seq /\ EndOf(f) <= k /\ f \in FrameType
      BY <2>1, <2>2, <2>3
    <3> HIDE DEF f
    <3>2. f.seq \in Nat /\ Len(f.data) \in Nat
      BY <3>1, FrameFields
    <3>3. st.next + Len(f.data) <= k
      BY <1>1, <3>1, <3>2 DEF EndOf
    <3> QED
      BY <3>3 DEF f
  <2> QED
    BY <1>2, <2>1, <2>3, CarriedOne
<1>3. ASSUME NEW f \in FrameType, Carries(b, f), EndOf(f) = k, Chained(frames, st.next, f.seq)
      PROVE  st.next + Len(f.data) <= k
  <2>1. f.seq \in Nat /\ Len(f.data) \in Nat
    BY FrameFields
  <2>2. st.next <= f.seq
    BY <1>1, <1>3, <2>1, ChainBounds
  <2> QED
    BY <1>1, <1>3, <2>1, <2>2 DEF EndOf
<1>4. CASE \E f \in FrameType : /\ Carries(b, f) /\ EndOf(f) = k /\ Chained(frames, st.next, f.seq)
  <2>1. PICK f \in FrameType : /\ Carries(b, f) /\ EndOf(f) = k /\ Chained(frames, st.next, f.seq)
    BY <1>4
  <2>2. st.next + Len(f.data) <= k /\ Len(f.data) \in Nat
    BY <1>3, <2>1, FrameFields
  <2>3. st.next <= k
    BY <1>1, <2>2
  <2> QED
    BY <2>1, <2>2, <2>3, CarriedOne
<1> QED
  BY <1>2, <1>4 DEF Flight

LEMMA Lengths ==
    ASSUME NEW b, TypedBoard(b)
    PROVE  /\ b.qLen \in Nat /\ b.qOff \in Nat /\ b.qLen <= SendBuf /\ SendBuf \in Nat
           /\ Left(b) \in Nat /\ b.qLen = b.qOff + Left(b) /\ (Pending(b) <=> Left(b) > 0)
           /\ (~Pending(b) <=> Left(b) = 0)
  BY BoardFields, NumberFacts DEF Left, Pending

\* What the board receives next fits the buffer.
LEMMA NextFits ==
    ASSUME NEW b, TypedBoard(b), NEW st \in PeerType, NEW segs \in Seq(FrameType),
           NEW frames \in Seq(FrameType), NEW p, NEW c \in Slots, segs # <<>>,
           Window(st), Flow(b, st, segs, frames, p, c), Room(b, segs, frames)
    PROVE  /\ Len(segs[1].data) <= SendBuf
           /\ Pending(b) => b.qLen + Len(segs[1].data) <= SendBuf
<1> DEFINE s == segs[1]
           l == Len(s.data)
           k == b.conn[c].seq
           L == Left(b)
<1>1. /\ st.next \in Nat /\ st.sent \in Nat /\ Len(st.got) \in Nat /\ k \in Nat /\ SendBuf \in Nat
      /\ L \in Nat /\ b.qLen \in Nat /\ b.qOff \in Nat /\ b.qLen = b.qOff + L
      /\ b.qLen <= SendBuf /\ b.conn[c].peerSeq \in Nat
  BY Lengths, PeerFields, BoardFields, NumberFacts DEF SlotType
<1>2. s \in FrameType /\ 1 \in 1 .. Len(segs)
  OBVIOUS
<1>3. l \in Nat /\ s.seq \in Nat
  BY <1>2, FrameFields
<1>4. k + L + l <= st.sent + 1
  <2> DEFINE e == st.sent + 1
  <2>1. Chained(segs, b.conn[c].peerSeq, e) /\ b.conn[c].peerSeq = k + L
    BY DEF Flow, Left
  <2>2. e \in Nat
    BY <1>1
  <2> HIDE DEF e
  <2>3. \A i \in 1 .. Len(segs) : b.conn[c].peerSeq <= segs[i].seq /\ EndOf(segs[i]) <= e
    BY <1>1, <2>1, <2>2, ChainBounds
  <2>4. k + L <= s.seq /\ s.seq + l <= e
    BY <1>2, <2>1, <2>3 DEF EndOf
  <2> HIDE DEF k, L, l, s
  <2>5. k + L + l <= e
    BY <1>1, <1>3, <2>2, <2>4
  <2> QED
    BY <2>5 DEF e
<1>5. /\ st.next <= k
      /\ \A f \in FrameType : Carries(b, f) => st.next + Len(f.data) <= k
      /\ Still(b) /\ frames # <<>> => st.next + Len(frames[Len(frames)].data) <= k
  BY <1>1, FlightBounds DEF Flow
<1>6. st.sent + 1 <= st.next + SendBuf
  BY <1>1 DEF Window
<1> HIDE DEF k, L, l, s
<1>7. l <= SendBuf
  BY <1>1, <1>3, <1>4, <1>5, <1>6
<1>8. ASSUME NEW x \in Nat, x >= b.qOff, st.next + x <= k PROVE b.qLen + l <= SendBuf
  <2> DEFINE m == st.next
             e == st.sent + 1
             o == b.qOff
  <2>1. /\ m \in Nat /\ e \in Nat /\ o \in Nat /\ k \in Nat /\ L \in Nat /\ l \in Nat /\ SendBuf \in Nat
        /\ x >= o /\ m + x <= k /\ k + L + l <= e /\ e <= m + SendBuf
    <3>1. m \in Nat /\ e \in Nat /\ o \in Nat /\ k \in Nat /\ L \in Nat /\ SendBuf \in Nat
      BY <1>1
    <3>2. l \in Nat /\ k + L + l <= e
      BY <1>3, <1>4
    <3>3. x >= o /\ m + x <= k
      BY <1>8
    <3>4. e <= m + SendBuf
      BY <1>6
    <3> QED
      BY <3>1, <3>2, <3>3, <3>4
  <2> HIDE DEF m, e, o
  <2>2. o + L + l <= SendBuf
    BY ONLY <2>1, x \in Nat
  <2>3. b.qLen = o + L
    BY <1>1 DEF o
  <2> QED
    BY <2>2, <2>3
<1>9. ASSUME Pending(b) PROVE b.qLen + l <= SendBuf
  <2>1. CASE b.qOff = 0
    BY <1>1, <1>5, <1>8, <2>1
  <2>2. CASE b.qOff # 0
    <3>1. \/ \E f \in FrameType : Carries(b, f) /\ Len(f.data) >= b.qOff
          \/ Still(b) /\ frames # <<>> /\ Len(frames[Len(frames)].data) >= b.qOff
          \/ b.qLen + l <= SendBuf
      BY <1>1, <1>9, <2>2 DEF Room, l, s
    <3>2. CASE \E f \in FrameType : Carries(b, f) /\ Len(f.data) >= b.qOff
      <4>1. PICK f \in FrameType : Carries(b, f) /\ Len(f.data) >= b.qOff
        BY <3>2
      <4>2. Len(f.data) \in Nat
        BY FrameFields
      <4> QED
        BY <1>5, <1>8, <4>1, <4>2
    <3>3. CASE Still(b) /\ frames # <<>> /\ Len(frames[Len(frames)].data) >= b.qOff
      <4>1. frames[Len(frames)] \in FrameType
        BY <3>3
      <4>2. Len(frames[Len(frames)].data) \in Nat
        BY <4>1, FrameFields
      <4> QED
        BY <1>5, <1>8, <3>3, <4>2
    <3> QED
      BY <3>1, <3>2, <3>3
  <2> QED
    BY <2>1, <2>2
<1> QED
  BY <1>7, <1>9 DEF l, s

\* The transmitter goes on.
LEMMA FlowMoves ==
    ASSUME NEW b, NEW n, NEW st, NEW segs, NEW frames, NEW p, NEW c,
           n.conn = b.conn, SameQueue(b, n), Still(b) => Still(n),
           \A f \in FrameType : Carries(b, f) => Carries(n, f)
    PROVE  /\ Flow(b, st, segs, frames, p, c) => Flow(n, st, segs, frames, p, c)
           /\ Room(b, segs, frames) => Room(n, segs, frames)
           /\ Opening(b, segs, frames, c) => Opening(n, segs, frames, c)
<1>1. Pending(n) = Pending(b) /\ n.qLen = b.qLen /\ n.qOff = b.qOff /\ n.qCid = b.qCid /\ n.bufs = b.bufs
  BY DEF SameQueue, Pending
<1>2. ASSUME NEW k, Flight(b, st, frames, p, k) PROVE Flight(n, st, frames, p, k)
  BY <1>2 DEF Flight
<1>3. Queueing(b, st, p, c) => Queueing(n, st, p, c)
  BY <1>1 DEF Queueing
<1>4. Flow(b, st, segs, frames, p, c) => Flow(n, st, segs, frames, p, c)
  BY <1>1, <1>2, <1>3 DEF Flow, OnlySlot
<1>5. Room(b, segs, frames) => Room(n, segs, frames)
  BY <1>1 DEF Room
<1>6. Opening(b, segs, frames, c) => Opening(n, segs, frames, c)
  BY <1>1 DEF Opening, Resting
<1> QED
  BY <1>4, <1>5, <1>6

LEMMA FlowStarts ==
    ASSUME NEW b, TypedBoard(b), NEW st, NEW segs, NEW frames, NEW p, NEW c,
           NEW n, n = Transmit(b, FALSE)
    PROVE  /\ TypedBoard(n) /\ n.conn = b.conn /\ SameQueue(b, n)
           /\ Still(b) => n = b
           /\ ~Still(b) => ~Still(n)
           /\ \A f : Carries(b, f) => Carries(n, f)
           /\ Flow(b, st, segs, frames, p, c) => Flow(n, st, segs, frames, p, c)
           /\ Room(b, segs, frames) => Room(n, segs, frames)
           /\ Opening(b, segs, frames, c) => Opening(n, segs, frames, c)
<1>1. /\ n.conn = b.conn /\ SameQueue(b, n) /\ TypedBoard(n)
      /\ b.mac = {} /\ b.txReq => n.mac = {b.region} /\ ~n.txReq
      /\ ~(b.mac = {} /\ b.txReq) => n = b
  BY TransmitStarts
<1>2. Still(b) => n = b
  BY <1>1 DEF Still
<1>3. ~Still(b) => ~Still(n)
  BY <1>1 DEF Still
<1>4. \A f : Carries(b, f) => Carries(n, f)
  BY <1>1 DEF Carries
<1> QED
  BY <1>1, <1>2, <1>3, <1>4, FlowMoves

\* A segment is received.
LEMMA FlowReceives ==
    ASSUME NEW b, TypedBoard(b), NEW st \in PeerType, NEW segs \in Seq(FrameType),
           NEW frames, NEW p, NEW c \in Slots, segs # <<>>, b.conn[c].state = "ESTABLISHED",
           Flow(b, st, segs, frames, p, c),
           Len(segs[1].data) <= SendBuf, Pending(b) => b.qLen + Len(segs[1].data) <= SendBuf,
           NEW n, n = Receive(b, segs[1])
    PROVE  /\ Flow(n, st, Tail(segs), frames, p, c) /\ n.conn[c].state = "ESTABLISHED"
           /\ SameLine(b, n)
           /\ Pending(n) /\ n.qOff > 0 => Pending(b) /\ n.qOff = b.qOff
<1> DEFINE s == segs[1]
           k == b.conn[c].seq
           d == s.data
           l == Len(d)
           L == Left(b)
           r == st.round
<1>1. s \in FrameType /\ s \in Items(segs) /\ Items(Tail(segs)) \subseteq Items(segs)
  BY TailFacts
<1>2. Streams(s, p, r) /\ s.peer = p /\ s.flags = {"ACK"} /\ InPlace(p, r, s.seq, d)
  BY <1>1 DEF Flow, Streams
<1>3. s.seq = b.conn[c].peerSeq /\ Chained(Tail(segs), EndOf(s), st.sent + 1)
  BY ChainTail DEF Flow
<1>4. s.seq = k + L /\ OnlySlot(b, p, c) /\ Flight(b, st, frames, p, k) /\ Queueing(b, st, p, c)
  BY <1>3 DEF Flow, Left
<1>5. /\ SlotLike(b, n, c, "ESTABLISHED", k, EndOf(s)) /\ SameLine(b, n)
      /\ d = <<>> => SameQueue(b, n)
      /\ d # <<>> => Adds(b, n, c, d)
  <2>1. Pending(b) => b.qCid = c
    BY <1>4 DEF Queueing
  <2> QED
    BY <1>1, <1>2, <1>4, <2>1, ReceiveData
<1>6. k \in Nat /\ l \in Nat /\ s.seq \in Nat /\ EndOf(s) = s.seq + l
  BY <1>1, BoardFields, FrameFields DEF EndOf
<1>7. /\ L \in Nat /\ (Pending(b) <=> L > 0) /\ b.qOff \in Nat /\ b.qLen \in Nat
  BY Lengths
<1>8. OnlySlot(n, p, c) /\ n.conn[c].seq = k /\ n.conn[c].peerSeq = EndOf(s)
      /\ n.conn[c].state = "ESTABLISHED"
  BY <1>4, <1>5 DEF OnlySlot, SlotLike
<1>9. Flight(n, st, frames, p, k)
  <2>1. Still(b) = Still(n) /\ \A f : Carries(b, f) = Carries(n, f)
    BY <1>5 DEF SameLine, Still, Carries
  <2> QED
    BY <1>4, <2>1 DEF Flight
<1> HIDE DEF s, k, d, l, L, r
<1>10. CASE d = <<>>
  <2>1. /\ n.qLen = b.qLen /\ n.qOff = b.qOff /\ n.qCid = b.qCid /\ n.bufs = b.bufs
        /\ Pending(n) = Pending(b) /\ l = 0
    BY <1>5, <1>10, EmptyData DEF SameQueue, Pending, l
  <2>2. Queueing(n, st, p, c)
    BY <1>4, <1>8, <2>1 DEF Queueing, k
  <2>3. n.conn[c].peerSeq = n.conn[c].seq + (n.qLen - n.qOff)
    BY <1>4, <1>6, <1>7, <1>8, <2>1 DEF L, Left
  <2> QED
    BY <1>1, <1>3, <1>5, <1>8, <1>9, <2>1, <2>2, <2>3 DEF Flow, s
<1>11. CASE d # <<>>
  <2>1. /\ n.qCid = c /\ n.qOff = (IF Pending(b) THEN b.qOff ELSE 0) /\ n.qLen = n.qOff + L + l
        /\ \A i \in 1 .. L : n.bufs[c][n.qOff + i] = b.bufs[c][b.qOff + i]
        /\ \A i \in 1 .. l : n.bufs[c][n.qOff + L + i] = d[i]
    BY <1>5, <1>11 DEF Adds, L, l
  <2>2. n.qOff \in Nat /\ n.qLen - n.qOff = L + l
    BY <1>6, <1>7, <2>1
  <2>3. n.conn[c].peerSeq = n.conn[c].seq + (n.qLen - n.qOff)
    BY <1>4, <1>6, <1>7, <1>8, <2>2
  <2>4. ASSUME NEW i \in 1 .. L + l PROVE n.bufs[c][n.qOff + i] = Byte(p, r, k + i - 1)
    <3>1. CASE i <= L
      <4>1. i \in 1 .. L /\ L > 0
        BY <1>6, <1>7, <3>1
      <4>2. b.bufs[c][b.qOff + i] = Byte(p, r, k + i - 1)
        BY <1>4, <1>7, <4>1 DEF Queueing, k, r, L, Left
      <4> QED
        BY <2>1, <4>1, <4>2
    <3>2. CASE ~(i <= L)
      <4> DEFINE j == i - L
      <4>1. j \in 1 .. l /\ n.qOff + L + j = n.qOff + i /\ s.seq + j - 1 = k + i - 1
        BY <1>4, <1>6, <1>7, <2>2, <3>2
      <4> HIDE DEF j
      <4>2. n.bufs[c][n.qOff + L + j] = d[j] /\ d[j] = Byte(p, r, s.seq + j - 1)
        BY <1>2, <2>1, <4>1 DEF InPlace, l
      <4> QED
        BY <4>1, <4>2
    <3> QED
      BY <3>1, <3>2
  <2>5. Queueing(n, st, p, c)
    <3>1. n.qOff \in {0, Chunk}
      BY <1>4, <2>1 DEF Queueing
    <3> QED
      BY <1>8, <2>1, <2>2, <2>4, <3>1 DEF Queueing, r
  <2>6. Pending(n) /\ n.qOff > 0 => Pending(b) /\ n.qOff = b.qOff
    BY <2>1
  <2> QED
    BY <1>1, <1>3, <1>5, <1>8, <1>9, <2>3, <2>5, <2>6 DEF Flow, s
<1> QED
  BY <1>10, <1>11

\* A chunk is sent.
LEMMA FlowFlushes ==
    ASSUME Alone, NEW b, TypedBoard(b), NEW st \in PeerType, NEW segs, NEW frames, NEW p, NEW c \in Slots,
           Flow(b, st, segs, frames, p, c), Still(b),
           NEW n, n = Maintain(b)
    PROVE  /\ Flow(n, st, segs, frames, p, c) /\ n.conn[c].state = b.conn[c].state
           /\ Room(n, segs, frames)
           /\ ~Pending(b) => n = b
<1>1. CASE ~Pending(b)
  <2>1. n = b
    BY <1>1, MaintainTyped
  <2> QED
    BY <1>1, <2>1 DEF Room
<1>2. CASE Pending(b)
  <2>1. /\ OnlySlot(b, p, c) /\ b.conn[c].peerSeq = b.conn[c].seq + Left(b)
        /\ Queueing(b, st, p, c) /\ b.qCid = c /\ b.qOff \in {0, Chunk}
        /\ \A i \in 1 .. Left(b) : b.bufs[c][b.qOff + i] = Byte(p, st.round, b.conn[c].seq + i - 1)
        /\ \A f \in Items(frames) : Returns(f, p, st.round)
    BY <1>2 DEF Flow, Queueing, Left, Flight
  <2>2. Chained(frames, st.next, b.conn[c].seq)
    BY CarriedOne DEF Flow, Flight
  <2>3. PICK k \in Nat, f \in FrameType : k > 0 /\ Chunked(b, n, c, k, f)
    BY <1>2, <2>1, MaintainChunks DEF Still
  <2> DEFINE L == Left(b)
             q == b.conn[c].seq
             o == b.qOff
  <2>4. /\ L \in Nat /\ L > 0 /\ o \in Nat /\ b.qLen = o + L /\ o + L <= SendBuf /\ SendBuf \in Nat
        /\ q \in Nat /\ Chunk \in Nat /\ Chunk > 0 /\ SendBuf <= 2 * Chunk
    BY <1>2, Lengths, BoardFields, NumberFacts DEF Alone
  <2>5. /\ k = (IF L > Chunk THEN Chunk ELSE L)
        /\ f.peer = p /\ f.flags = {"ACK"} /\ f.seq = q /\ Len(f.data) = k
        /\ \A i \in 1 .. k : f.data[i] = b.bufs[c][o + i]
        /\ n.region = f /\ n.txReq = TRUE /\ n.mac = {} /\ n.bufs = b.bufs /\ n.qCid = c
        /\ \/ k = L /\ n.qLen = 0 /\ n.qOff = 0
           \/ k < L /\ n.qLen = b.qLen /\ n.qOff = o + k
        /\ n.conn[c].state = b.conn[c].state /\ n.conn[c].peer = p
        /\ n.conn[c].seq = q + k /\ n.conn[c].peerSeq = q + L
        /\ \A d \in Slots : d # c => n.conn[d] = b.conn[d]
    BY <2>1, <2>3 DEF Chunked, OnlySlot
  <2> HIDE DEF L, q, o
  <2>6. Carries(n, f) /\ EndOf(f) = q + k
    BY <2>5 DEF Carries, EndOf
  <2>7. Returns(f, p, st.round)
    <3>1. \A i \in 1 .. k : f.data[i] = Byte(p, st.round, q + i - 1)
      <4> SUFFICES ASSUME NEW i \in 1 .. k PROVE f.data[i] = Byte(p, st.round, q + i - 1)
        OBVIOUS
      <4>1. i \in 1 .. L
        BY <2>4, <2>5
      <4> QED
        BY <2>1, <2>5, <4>1 DEF L, q, o
    <3>2. f.data # <<>>
      BY <2>3, <2>5, EmptyData
    <3> QED
      BY <2>5, <3>1, <3>2 DEF Returns, Streams, InPlace
  <2>8. Flight(n, st, frames, p, q + k)
    BY <2>1, <2>2, <2>5, <2>6, <2>7 DEF Flight, q
  <2>9. n.conn[c].peerSeq = n.conn[c].seq + (n.qLen - n.qOff)
    BY <2>3, <2>4, <2>5
  <2>10. Pending(n) => k < L /\ o = 0 /\ k = Chunk /\ n.qOff = Chunk /\ n.qLen - n.qOff = L - k
    <3> SUFFICES ASSUME Pending(n)
                 PROVE  k < L /\ o = 0 /\ k = Chunk /\ n.qOff = Chunk /\ n.qLen - n.qOff = L - k
      OBVIOUS
    <3>1. k < L /\ n.qLen = b.qLen /\ n.qOff = o + k
      BY <2>5 DEF Pending
    <3>2. k = Chunk /\ L > Chunk
      BY <2>4, <2>5, <3>1
    <3>3. o = 0
      BY <2>1, <2>4, <3>2 DEF o
    <3> QED
      BY <2>4, <3>1, <3>2, <3>3
  <2>11. Queueing(n, st, p, c)
    <3> SUFFICES ASSUME Pending(n)
                 PROVE  /\ n.qCid = c /\ n.qOff \in {0, Chunk}
                        /\ \A i \in 1 .. n.qLen - n.qOff :
                             n.bufs[c][n.qOff + i] = Byte(p, st.round, n.conn[c].seq + i - 1)
      BY DEF Queueing
    <3>1. k < L /\ o = 0 /\ k = Chunk /\ n.qOff = Chunk /\ n.qLen - n.qOff = L - k
      BY <2>10
    <3>2. ASSUME NEW i \in 1 .. L - k PROVE n.bufs[c][n.qOff + i] = Byte(p, st.round, (q + k) + i - 1)
      <4> DEFINE j == k + i
      <4>1. j \in 1 .. L /\ n.qOff + i = o + j /\ (q + k) + i - 1 = q + j - 1
        BY <2>4, <3>1
      <4> HIDE DEF j
      <4>2. b.bufs[c][o + j] = Byte(p, st.round, q + j - 1)
        BY <2>1, <4>1 DEF L, q, o
      <4> QED
        BY <2>5, <4>1, <4>2
    <3> QED
      BY <2>5, <3>1, <3>2
  <2>12. OnlySlot(n, p, c)
    BY <2>1, <2>5 DEF OnlySlot
  <2>13. Flow(n, st, segs, frames, p, c)
    <3>1. /\ Chained(segs, b.conn[c].peerSeq, st.sent + 1) /\ n.conn[c].peerSeq = b.conn[c].peerSeq
          /\ \A s \in Items(segs) : Streams(s, p, st.round)
      BY <2>1, <2>5 DEF Flow, q, L
    <3> QED
      BY <2>5, <2>8, <2>9, <2>11, <2>12, <3>1 DEF Flow
  <2>14. Room(n, segs, frames)
    <3> SUFFICES ASSUME Pending(n) PROVE Carries(n, f) /\ Len(f.data) >= n.qOff
      BY DEF Room
    <3> QED
      BY <2>4, <2>5, <2>6, <2>10
  <2> QED
    BY <1>2, <2>5, <2>13, <2>14
<1> QED
  BY <1>1, <1>2


-------------------------------------------------------------------------------
\* Passes while nothing waits in the queue.
LEMMA QuietKeeps ==
    ASSUME NEW b, TypedBoard(b), ~Pending(b), NEW n, n = Flush(b, Transmit(b, FALSE))
    PROVE  /\ n.conn = b.conn /\ SameQueue(b, n) /\ ~Pending(n) /\ (Still(b) => n = b)
           /\ \A f : Carries(b, f) => Carries(n, f)
           /\ \A frames, f : InFlight(b, frames, f) => InFlight(n, frames, f)
<1> DEFINE t == Transmit(b, FALSE)
<1>1. /\ TypedBoard(t) /\ t.conn = b.conn /\ SameQueue(b, t) /\ (Still(b) => t = b)
      /\ \A f : Carries(b, f) => Carries(t, f)
  BY FlowStarts
<1>2. ~Pending(t)
  BY <1>1 DEF SameQueue, Pending
<1> HIDE DEF t
<1>3. n = t
  BY <1>1, <1>2, MaintainTyped DEF Flush, t
<1> QED
  BY <1>1, <1>2, <1>3 DEF InFlight

LEMMA RestKeeps ==
    ASSUME NEW a, NEW b, TypedBoard(b), ~Pending(b)
    PROVE  Flush(a, b) = b
  BY MaintainTyped DEF Flush

\* The frame leaves.
LEMMA SentLeaves ==
    ASSUME NEW b, TypedBoard(b), b.mac # {}, NEW f, Carries(b, f), NEW g \in b.mac,
           NEW n, n = Flush(b, Transmit(b, TRUE))
    PROVE  g = f /\ Still(n) /\ n.conn = b.conn /\ SameQueue(b, n)
<1>1. b.mac = {f} /\ ~b.txReq
  BY CarriedOne
<1>2. n = Transmit(b, TRUE)
  BY DEF Flush, Busy
<1>3. n.conn = b.conn /\ SameQueue(b, n) /\ n.mac = {} /\ n.txReq = b.txReq
  BY <1>2, TransmitEnds
<1> QED
  BY <1>1, <1>3 DEF Still

LEMMA FlowingQuiet ==
    ASSUME Alone, NEW b, TypedBoard(b), NEW st \in PeerType, NEW segs, NEW frames, NEW p,
           Flowing(b, st, segs, frames, p), NEW n, n = Flush(b, Transmit(b, FALSE))
    PROVE  Flowing(n, st, segs, frames, p)
<1> DEFINE t == Transmit(b, FALSE)
<1>1. PICK c \in Slots : /\ b.conn[c].state \in {"SYN_RCVD", "ESTABLISHED"}
                         /\ Flow(b, st, segs, frames, p, c)
                         /\ Room(b, segs, frames) /\ Opening(b, segs, frames, c)
  BY DEF Flowing
<1>2. st.state = "open" /\ Window(st)
  BY DEF Flowing
<1>3. CASE Still(b)
  <2>1. t = b
    BY <1>3, FlowStarts
  <2>2. n = Maintain(b)
    BY <1>3, <2>1 DEF Flush, Busy, Still
  <2>3. /\ Flow(n, st, segs, frames, p, c) /\ n.conn[c].state = b.conn[c].state
        /\ Room(n, segs, frames) /\ (~Pending(b) => n = b)
    BY <1>1, <1>3, <2>2, FlowFlushes
  <2>4. Opening(n, segs, frames, c)
    BY <1>1, <2>3 DEF Opening, Resting
  <2> QED
    BY <1>1, <1>2, <2>3, <2>4 DEF Flowing
<1>4. CASE ~Still(b)
  <2>1. n = t
    BY <1>4 DEF Flush, Busy, Still
  <2>2. /\ t.conn = b.conn /\ Flow(t, st, segs, frames, p, c)
        /\ Room(t, segs, frames) /\ Opening(t, segs, frames, c)
    BY <1>1, FlowStarts
  <2> QED
    BY <1>1, <1>2, <2>1, <2>2 DEF Flowing
<1> QED
  BY <1>3, <1>4

LEMMA FlowingSent ==
    ASSUME NEW b, TypedBoard(b), b.mac # {}, NEW st \in PeerType, NEW segs,
           NEW frames \in Seq(FrameType), NEW p, Flowing(b, st, segs, frames, p),
           NEW g \in b.mac, NEW n, n = Flush(b, Transmit(b, TRUE))
    PROVE  g.peer = p /\ Flowing(n, st, segs, Append(frames, g), p)
<1> DEFINE more == Append(frames, g)
<1>1. PICK c \in Slots : /\ b.conn[c].state \in {"SYN_RCVD", "ESTABLISHED"}
                         /\ Flow(b, st, segs, frames, p, c)
                         /\ Room(b, segs, frames) /\ Opening(b, segs, frames, c)
  BY DEF Flowing
<1>2. st.state = "open" /\ Window(st) /\ st.next \in Nat
  BY PeerFields DEF Flowing
<1>3. ~Still(b)
  BY DEF Still
<1>4. PICK f \in FrameType : /\ Carries(b, f) /\ Returns(f, p, st.round) /\ EndOf(f) = b.conn[c].seq
                             /\ Chained(frames, st.next, f.seq)
  BY <1>1, <1>3 DEF Flow, Flight
<1>5. g = f /\ Still(n) /\ n.conn = b.conn /\ SameQueue(b, n)
  BY <1>4, SentLeaves
<1>6. Chained(more, st.next, EndOf(g)) /\ Items(more) = Items(frames) \cup {g}
  <2>1. f.seq \in Nat
    BY FrameFields
  <2> QED
    BY <1>2, <1>4, <1>5, <2>1, ChainAppend, AppendFacts
<1>7. more # <<>> /\ more[Len(more)] = g
  <2>1. Len(more) = Len(frames) + 1 /\ more[Len(frames) + 1] = g /\ Len(frames) \in Nat
    BY <1>5, AppendFacts
  <2> QED
    BY <2>1
<1> HIDE DEF more
<1>8. Flight(n, st, more, p, b.conn[c].seq)
  BY <1>1, <1>4, <1>5, <1>6 DEF Flight, Flow
<1>9. Pending(n) = Pending(b) /\ n.qLen = b.qLen /\ n.qOff = b.qOff /\ n.qCid = b.qCid /\ n.bufs = b.bufs
  BY <1>5 DEF SameQueue, Pending
<1>10. Flow(n, st, segs, more, p, c)
  BY <1>1, <1>5, <1>8, <1>9 DEF Flow, OnlySlot, Queueing
<1>11. Room(n, segs, more)
  <2> SUFFICES ASSUME Pending(b), b.qOff > 0 PROVE Len(g.data) >= b.qOff
    BY <1>5, <1>7, <1>9 DEF Room
  <2>1. PICK h \in FrameType : Carries(b, h) /\ Len(h.data) >= b.qOff
    BY <1>1, <1>3 DEF Room
  <2> QED
    BY <1>4, <1>5, <2>1, CarriedOne
<1>12. Opening(n, segs, more, c)
  BY <1>1, <1>3, <1>5 DEF Opening, Resting
<1>13. g.peer = p
  BY <1>4, <1>5 DEF Returns, Streams
<1> QED
  BY <1>1, <1>2, <1>5, <1>10, <1>11, <1>12, <1>13 DEF Flowing, more

LEMMA FlowingRx ==
    ASSUME Alone, NEW b, TypedBoard(b), NEW st \in PeerType, NEW segs \in Seq(FrameType),
           NEW frames \in Seq(FrameType), NEW p, Flowing(b, st, segs, frames, p), segs # <<>>,
           NEW n, n = Flush(b, Receive(Transmit(b, FALSE), segs[1]))
    PROVE  Flowing(n, st, Tail(segs), frames, p)
<1> DEFINE s == segs[1]
           rest == Tail(segs)
<1>1. PICK c \in Slots : /\ b.conn[c].state \in {"SYN_RCVD", "ESTABLISHED"}
                         /\ Flow(b, st, segs, frames, p, c)
                         /\ Room(b, segs, frames) /\ Opening(b, segs, frames, c)
  BY DEF Flowing
<1>2. st.state = "open" /\ Window(st)
  BY DEF Flowing
<1>3. PICK t : t = Transmit(b, FALSE)
  OBVIOUS
<1>4. /\ TypedBoard(t) /\ t.conn = b.conn
      /\ Still(b) => t = b
      /\ ~Still(b) => ~Still(t)
      /\ Flow(t, st, segs, frames, p, c) /\ Room(t, segs, frames) /\ Opening(t, segs, frames, c)
  BY <1>1, <1>3, FlowStarts
<1>5. PICK r : r = Receive(t, s)
  OBVIOUS
<1>6. s \in FrameType /\ s \in Items(segs) /\ Items(rest) \subseteq Items(segs)
  BY TailFacts
<1>7. TypedBoard(r) /\ n = Flush(b, r)
  BY <1>3, <1>4, <1>5, <1>6, ReceiveTyped
<1>8. s.peer = p /\ s.flags = {"ACK"} /\ OnlySlot(t, p, c)
  BY <1>4, <1>6 DEF Flow, Streams
<1>9. CASE t.conn[c].state = "SYN_RCVD"
  <2>1. /\ t.conn[c].seq = 1 /\ Resting(t) /\ frames = <<>> /\ s.data = <<>> /\ s.ack = 1
    BY <1>4, <1>9 DEF Opening
  <2>2. /\ SlotLike(t, r, c, "ESTABLISHED", t.conn[c].seq, t.conn[c].peerSeq)
        /\ SameQueue(t, r) /\ SameLine(t, r)
    BY <1>4, <1>5, <1>6, <1>8, <1>9, <2>1, ReceiveAck
  <2>3. ~Pending(t) /\ ~Pending(r) /\ r.qLen = t.qLen /\ r.qOff = t.qOff
    BY <2>1, <2>2 DEF Resting, SameQueue, Pending
  <2>4. n = r
    BY <1>7, <2>3, RestKeeps
  <2>5. s.seq = t.conn[c].peerSeq /\ Chained(rest, EndOf(s), st.sent + 1) /\ EndOf(s) = s.seq
    BY <1>4, <1>6, <2>1, ChainTail, EndFacts DEF Flow
  <2>6. Flight(r, st, frames, p, r.conn[c].seq)
    BY <1>4, <2>2 DEF Flow, Flight, SameLine, Still, Carries, SlotLike
  <2>7. /\ OnlySlot(r, p, c) /\ r.conn[c].state = "ESTABLISHED"
        /\ r.conn[c].seq = t.conn[c].seq /\ r.conn[c].peerSeq = t.conn[c].peerSeq
    BY <1>8, <2>2 DEF OnlySlot, SlotLike
  <2>8. Flow(r, st, rest, frames, p, c)
    BY <1>4, <1>6, <2>3, <2>5, <2>6, <2>7 DEF Flow, Queueing
  <2>9. Room(r, rest, frames) /\ Opening(r, rest, frames, c)
    BY <2>3, <2>7 DEF Room, Opening
  <2> QED
    BY <1>2, <2>4, <2>7, <2>8, <2>9 DEF Flowing
<1>10. CASE t.conn[c].state = "ESTABLISHED"
  <2>1. Len(s.data) <= SendBuf /\ (Pending(t) => t.qLen + Len(s.data) <= SendBuf)
    BY <1>2, <1>4, NextFits
  <2>2. /\ Flow(r, st, rest, frames, p, c) /\ r.conn[c].state = "ESTABLISHED" /\ SameLine(t, r)
        /\ Pending(r) /\ r.qOff > 0 => Pending(t) /\ r.qOff = t.qOff
    BY <1>4, <1>5, <1>10, <2>1, FlowReceives
  <2>3. CASE Still(b)
    <3>1. Still(r)
      BY <1>4, <2>2, <2>3 DEF Still, SameLine
    <3>2. n = Maintain(r)
      BY <1>7, <2>3, <3>1 DEF Flush, Busy, Still
    <3>3. Flow(n, st, rest, frames, p, c) /\ n.conn[c].state = "ESTABLISHED" /\ Room(n, rest, frames)
      <4>1. TypedBoard(r) /\ Flow(r, st, rest, frames, p, c) /\ r.conn[c].state = "ESTABLISHED"
        BY <1>7, <2>2
      <4> HIDE DEF rest
      <4>2. /\ Flow(n, st, rest, frames, p, c) /\ n.conn[c].state = r.conn[c].state
            /\ Room(n, rest, frames)
        BY ONLY Alone, st \in PeerType, c \in Slots, <3>1, <3>2, <4>1, FlowFlushes
      <4> QED
        BY <4>1, <4>2
    <3>4. Opening(n, rest, frames, c)
      BY <3>3 DEF Opening
    <3> QED
      BY <1>2, <3>3, <3>4 DEF Flowing
  <2>4. CASE ~Still(b)
    <3>1. n = r
      BY <1>7, <2>4 DEF Flush, Busy, Still
    <3>2. Room(r, rest, frames)
      <4> SUFFICES ASSUME Pending(r), r.qOff > 0
                   PROVE  \E f \in FrameType : Carries(r, f) /\ Len(f.data) >= r.qOff
        BY DEF Room
      <4>1. ~Still(t) /\ Pending(t) /\ r.qOff = t.qOff
        BY <1>4, <2>2, <2>4
      <4>2. PICK f \in FrameType : Carries(t, f) /\ Len(f.data) >= t.qOff
        BY <1>4, <4>1 DEF Room
      <4>3. Carries(r, f)
        BY <2>2, <4>2 DEF Carries, SameLine
      <4> QED
        BY <4>1, <4>2, <4>3
    <3>3. Opening(r, rest, frames, c)
      BY <2>2 DEF Opening
    <3> QED
      BY <1>2, <2>2, <3>1, <3>2, <3>3 DEF Flowing
  <2> QED
    BY <2>3, <2>4
<1> QED
  BY <1>1, <1>4, <1>9, <1>10


-------------------------------------------------------------------------------
\* A conversation goes through a pass.
LEMMA StageQuiet ==
    ASSUME Alone, NEW b, TypedBoard(b), NEW st \in PeerType, NEW segs, NEW frames, NEW p,
           Stage(b, st, segs, frames, p), NEW n, n = Flush(b, Transmit(b, FALSE))
    PROVE  Stage(n, st, segs, frames, p)
<1>1. CASE Flowing(b, st, segs, frames, p)
  BY <1>1, FlowingQuiet DEF Stage
<1>2. CASE Resting(b) /\ ~Flowing(b, st, segs, frames, p)
  <2>1. n = b
    BY <1>2, QuietKeeps DEF Resting
  <2> QED
    BY <2>1
<1>3. CASE LetIn(b, st, segs, frames, p)
  <2> DEFINE F == Segment(p, {"SYN", "ACK"}, 0, 1, <<>>)
  <2>1. ~Pending(b) /\ InFlight(b, frames, F)
    BY <1>3 DEF LetIn
  <2> HIDE DEF F
  <2>2. n.conn = b.conn /\ ~Pending(n) /\ InFlight(n, frames, F)
    BY <2>1, QuietKeeps
  <2>3. LetIn(n, st, segs, frames, p)
    BY <1>3, <2>2 DEF LetIn, OnlySlot, F
  <2> QED
    BY <2>3 DEF Stage
<1>4. CASE LetGo(b, st, segs, frames, p)
  <2>1. ~Pending(b) /\ st.state = "fin" /\ segs = <<>>
    BY <1>4 DEF LetGo
  <2>2. PICK f \in FrameType : /\ InFlight(b, frames, f) /\ f.flags = {"FIN", "ACK"}
                               /\ f.seq = st.next /\ f.data = <<>> /\ f.peer = p
    BY <1>4 DEF LetGo
  <2>3. n.conn = b.conn /\ ~Pending(n) /\ InFlight(n, frames, f)
    BY <2>1, <2>2, QuietKeeps
  <2>4. \E c \in Slots : OnlySlot(n, p, c) /\ n.conn[c].state = "LAST_ACK"
    BY <1>4, <2>3 DEF LetGo, OnlySlot
  <2>5. LetGo(n, st, segs, frames, p)
    BY <2>1, <2>2, <2>3, <2>4 DEF LetGo
  <2> QED
    BY <2>5 DEF Stage
<1> QED
  BY <1>1, <1>2, <1>3, <1>4 DEF Stage, Away, Knocking, Parting, Parted

Finished(b) == Flush(b, Transmit(b, TRUE))

LEMMA StageSent ==
    ASSUME NEW b, TypedBoard(b), b.mac # {}, NEW st \in PeerType, NEW segs,
           NEW frames \in Seq(FrameType), NEW p, Stage(b, st, segs, frames, p),
           NEW g \in b.mac, NEW n, n = Finished(b)
    PROVE  g.peer = p /\ Stage(n, st, segs, Append(frames, g), p)
<1>1. ~Resting(b) /\ ~Still(b)
  BY DEF Resting, Still
<1>2. CASE Flowing(b, st, segs, frames, p)
  BY <1>2, FlowingSent DEF Stage, Finished
<1>3. ASSUME NEW f, InFlight(b, frames, f), ~Pending(b)
      PROVE  /\ g = f /\ n.conn = b.conn /\ ~Pending(n)
             /\ InFlight(n, Append(frames, g), f)
  <2>1. Carries(b, f) /\ frames = <<>>
    BY <1>1, <1>3 DEF InFlight
  <2>2. g = f /\ Still(n) /\ n.conn = b.conn /\ SameQueue(b, n)
    BY <2>1, SentLeaves DEF Finished
  <2>3. Append(frames, g) = <<f>>
    BY <2>1, <2>2
  <2> QED
    BY <1>3, <2>2, <2>3 DEF InFlight, SameQueue, Pending
<1> DEFINE more == Append(frames, g)
<1>4. CASE LetIn(b, st, segs, frames, p)
  <2> DEFINE F == Segment(p, {"SYN", "ACK"}, 0, 1, <<>>)
  <2>1. ~Pending(b) /\ InFlight(b, frames, F)
    BY <1>4 DEF LetIn
  <2>2. g = F /\ n.conn = b.conn /\ ~Pending(n) /\ InFlight(n, more, F)
    BY <1>3, <2>1
  <2>3. g.peer = p
    BY <2>2 DEF Segment
  <2> HIDE DEF more
  <2>4. LetIn(n, st, segs, more, p)
    BY <1>4, <2>2 DEF LetIn, OnlySlot
  <2> QED
    BY <2>3, <2>4 DEF Stage, more
<1>5. CASE LetGo(b, st, segs, frames, p)
  <2>1. ~Pending(b) /\ st.state = "fin" /\ segs = <<>>
    BY <1>5 DEF LetGo
  <2>2. PICK f \in FrameType : /\ InFlight(b, frames, f) /\ f.flags = {"FIN", "ACK"}
                               /\ f.seq = st.next /\ f.data = <<>> /\ f.peer = p
    BY <1>5 DEF LetGo
  <2>3. g = f /\ n.conn = b.conn /\ ~Pending(n) /\ InFlight(n, more, f)
    BY <1>3, <2>1, <2>2
  <2>4. \E c \in Slots : OnlySlot(n, p, c) /\ n.conn[c].state = "LAST_ACK"
    BY <1>5, <2>3 DEF LetGo, OnlySlot
  <2> HIDE DEF more
  <2>5. LetGo(n, st, segs, more, p)
    BY <2>1, <2>2, <2>3, <2>4 DEF LetGo
  <2> QED
    BY <2>2, <2>3, <2>5 DEF Stage, more
<1> QED
  BY <1>1, <1>2, <1>4, <1>5 DEF Stage, Away, Knocking, Parting, Parted

\* A segment arrives at the board with nothing to send.
LEMMA RestReceives ==
    ASSUME NEW b, TypedBoard(b), Resting(b), NEW s \in FrameType,
           NEW n, n = Flush(b, Receive(Transmit(b, FALSE), s)), SameQueue(b, Receive(b, s))
    PROVE  n = Receive(b, s) /\ ~Pending(n)
<1>1. Transmit(b, FALSE) = b
  BY FlowStarts DEF Resting
<1>2. PICK r : r = Receive(b, s)
  OBVIOUS
<1>3. TypedBoard(r) /\ n = Flush(b, r)
  BY <1>1, <1>2, ReceiveTyped
<1>4. ~Pending(r)
  BY <1>2 DEF Resting, SameQueue, Pending
<1> QED
  BY <1>2, <1>3, <1>4, RestKeeps

LEMMA OneOnly ==
    ASSUME NEW u \in Seq(FrameType), Len(u) = 1
    PROVE  u[1] \in FrameType /\ Tail(u) = <<>>
<1> DEFINE t == Tail(u)
<1>1. u # <<>>
  <2>1. Len(<<>>) = 0
    OBVIOUS
  <2> QED
    BY <2>1
<1>2. t \in Seq(FrameType) /\ Len(t) = Len(u) - 1 /\ Head(u) = u[1] /\ Head(u) \in FrameType
  BY <1>1, TailFacts
<1> HIDE DEF t
<1>3. Len(t) = 0
  BY <1>2
<1>4. t = <<>>
  BY <1>2, <1>3
<1> QED
  BY <1>2, <1>4 DEF t

LEMMA KnockingRx ==
    ASSUME NEW b, TypedBoard(b), NEW st, NEW segs \in Seq(FrameType),
           NEW frames, NEW p \in Peers, Knocking(b, st, segs, frames, p),
           NEW n, n = Flush(b, Receive(Transmit(b, FALSE), segs[1]))
    PROVE  LetIn(n, st, Tail(segs), frames, p)
<1> DEFINE s == segs[1]
           F == Segment(p, {"SYN", "ACK"}, 0, 1, <<>>)
<1>1. /\ st.state = "syn" /\ Anew(st) /\ frames = <<>> /\ Resting(b) /\ NoSlot(b)
      /\ Len(segs) = 1 /\ s.flags = {"SYN"} /\ s.seq = 0 /\ s.peer = p
  BY DEF Knocking
<1>2. s \in FrameType /\ Tail(segs) = <<>> /\ n = Flush(b, Receive(Transmit(b, FALSE), s))
  BY <1>1, OneOnly
<1>3. PICK r : r = Receive(b, s)
  OBVIOUS
<1> HIDE DEF s, F
<1>4. /\ SameQueue(b, r) /\ Carries(r, F)
      /\ \E c \in Slots : /\ OnlySlot(r, p, c) /\ r.conn[c].state = "SYN_RCVD"
                          /\ r.conn[c].seq = 1 /\ r.conn[c].peerSeq = 1
  BY <1>1, <1>2, <1>3, ReceiveSyn DEF Resting, F
<1>5. n = r /\ ~Pending(n)
  BY ONLY TypedBoard(b), <1>1, <1>2, <1>3, <1>4, RestReceives
<1> QED
  BY <1>1, <1>2, <1>4, <1>5 DEF LetIn, InFlight, F

LEMMA PartedRx ==
    ASSUME NEW b, TypedBoard(b), NEW st, NEW segs \in Seq(FrameType),
           NEW frames, NEW p \in Peers, Parted(b, st, segs, frames, p),
           NEW n, n = Flush(b, Receive(Transmit(b, FALSE), segs[1]))
    PROVE  Away(n, st, Tail(segs), frames)
<1> DEFINE s == segs[1]
<1>1. /\ st.state = "closed" /\ Resting(b) /\ frames = <<>>
      /\ Len(segs) = 1 /\ s.flags = {"ACK"} /\ s.peer = p
  BY DEF Parted
<1>2. PICK c \in Slots : OnlySlot(b, p, c) /\ b.conn[c].state = "LAST_ACK"
  BY DEF Parted
<1>3. s \in FrameType /\ Tail(segs) = <<>> /\ n = Flush(b, Receive(Transmit(b, FALSE), s))
  BY <1>1, OneOnly
<1>4. PICK r : r = Receive(b, s)
  OBVIOUS
<1> HIDE DEF s
<1>5. /\ SlotLike(b, r, c, "FREE", b.conn[c].seq, b.conn[c].peerSeq)
      /\ SameQueue(b, r) /\ SameLine(b, r)
  BY <1>1, <1>2, <1>3, <1>4, ReceiveAck
<1>6. n = r /\ ~Pending(n)
  BY ONLY TypedBoard(b), <1>1, <1>3, <1>4, <1>5, RestReceives
<1>7. Resting(n)
  BY <1>1, <1>5, <1>6 DEF Resting, Still, SameLine
<1>8. NoSlot(n)
  BY <1>2, <1>5, <1>6 DEF NoSlot, OnlySlot, SlotLike
<1> QED
  BY <1>1, <1>3, <1>7, <1>8 DEF Away

LEMMA PartingRx ==
    ASSUME NEW b, TypedBoard(b), NEW st \in PeerType, NEW segs \in Seq(FrameType),
           NEW frames, NEW p \in Peers, Parting(b, st, segs, frames, p),
           NEW n, n = Flush(b, Receive(Transmit(b, FALSE), segs[1]))
    PROVE  \/ Parting(n, st, Tail(segs), frames, p)
           \/ LetGo(n, st, Tail(segs), frames, p)
<1> DEFINE s == segs[1]
           rest == Tail(segs)
           L == Len(segs)
<1>1. /\ st.state = "fin" /\ Resting(b) /\ frames = <<>>
      /\ segs # <<>> /\ segs[L].flags = {"FIN", "ACK"}
      /\ \A i \in 1 .. L - 1 : segs[i].flags = {"ACK"}
      /\ \A x \in Items(segs) : x.data = <<>> /\ x.seq = st.next /\ x.peer = p
  BY DEF Parting
<1>2. PICK c \in Slots :
         /\ OnlySlot(b, p, c) /\ b.conn[c].state \in {"SYN_RCVD", "ESTABLISHED"}
         /\ b.conn[c].seq = st.next /\ b.conn[c].peerSeq = st.next
         /\ b.conn[c].state = "SYN_RCVD" => L > 1 /\ s.ack = b.conn[c].seq
  BY DEF Parting
<1>3. /\ rest \in Seq(FrameType) /\ s \in FrameType /\ s \in Items(segs) /\ Items(rest) \subseteq Items(segs)
      /\ L \in Nat /\ L > 0 /\ Len(rest) = L - 1 /\ \A i \in 1 .. L - 1 : rest[i] = segs[i + 1]
  BY <1>1, TailFacts
<1>4. s.data = <<>> /\ s.seq = st.next /\ s.peer = p /\ EndOf(s) = st.next
  BY <1>1, <1>3, EndFacts
<1>5. PICK r : r = Receive(b, s)
  OBVIOUS
<1>6. segs[1] = s /\ Len(segs) = L /\ n = Flush(b, Receive(Transmit(b, FALSE), s))
  OBVIOUS
<1> HIDE DEF s, rest, L
<1>7. CASE L > 1
  <2>1. s.flags = {"ACK"} /\ "ACK" \in s.flags
    <3>1. 1 \in 1 .. L - 1
      BY <1>3, <1>7
    <3> QED
      BY <1>1, <1>6, <3>1
  <2>2. /\ SlotLike(b, r, c, "ESTABLISHED", st.next, st.next)
        /\ SameQueue(b, r) /\ SameLine(b, r)
    <3>1. CASE b.conn[c].state = "SYN_RCVD"
      BY <1>2, <1>3, <1>4, <1>5, <2>1, <3>1, ReceiveAck
    <3>2. CASE b.conn[c].state = "ESTABLISHED"
      <4>1. Len(s.data) <= SendBuf /\ ~Pending(b)
        BY <1>1, <1>4, EmptyData, NumberFacts DEF Resting
      <4> QED
        BY <1>2, <1>3, <1>4, <1>5, <2>1, <3>2, <4>1, ReceiveData
    <3> QED
      BY <1>2, <3>1, <3>2
  <2>3. n = r /\ ~Pending(n)
    <3>1. Resting(b) /\ s \in FrameType /\ SameQueue(b, Receive(b, s))
      BY <1>1, <1>3, <1>5, <2>2
    <3> QED
      BY <1>5, <1>6, <3>1, RestReceives
  <2>4. Resting(n)
    BY <1>1, <2>2, <2>3 DEF Resting, Still, SameLine
  <2>5. /\ OnlySlot(n, p, c) /\ n.conn[c].state = "ESTABLISHED"
        /\ n.conn[c].seq = st.next /\ n.conn[c].peerSeq = st.next
    BY <1>2, <2>2, <2>3 DEF OnlySlot, SlotLike
  <2>6. rest # <<>> /\ rest[Len(rest)].flags = {"FIN", "ACK"}
    <3>1. L - 1 \in 1 .. L - 1 /\ L - 1 > 0 /\ (L - 1) + 1 = L
      BY <1>3, <1>7
    <3> QED
      BY <1>1, <1>3, <3>1
  <2>7. \A i \in 1 .. Len(rest) - 1 : rest[i].flags = {"ACK"}
    <3> SUFFICES ASSUME NEW i \in 1 .. Len(rest) - 1 PROVE rest[i].flags = {"ACK"}
      OBVIOUS
    <3>1. i \in 1 .. L - 1 /\ i + 1 \in 1 .. L - 1
      BY <1>3
    <3> QED
      BY <1>1, <1>3, <3>1
  <2>8. Parting(n, st, rest, frames, p)
    BY <1>1, <1>3, <2>4, <2>5, <2>6, <2>7 DEF Parting
  <2> QED
    BY <2>8 DEF rest
<1>8. CASE ~(L > 1)
  <2>1. L = 1 /\ s.flags = {"FIN", "ACK"} /\ rest = <<>>
    BY <1>1, <1>3, <1>6, <1>8
  <2>2. b.conn[c].state = "ESTABLISHED"
    BY <1>2, <1>8
  <2>3. /\ SameQueue(b, r) /\ r.conn[c].state = "LAST_ACK" /\ OnlySlot(r, p, c)
        /\ \E f \in FrameType : /\ Carries(r, f) /\ f.flags = {"FIN", "ACK"} /\ f.data = <<>>
                                /\ f.seq = b.conn[c].seq /\ f.peer = p
    <3>1. Still(b) /\ OnlySlot(b, s.peer, c)
      BY <1>1, <1>2, <1>4 DEF Resting
    <3>2. /\ SameQueue(b, r) /\ r.conn[c].state = "LAST_ACK" /\ OnlySlot(r, s.peer, c)
          /\ \E f \in FrameType : /\ Carries(r, f) /\ f.flags = {"FIN", "ACK"} /\ f.data = <<>>
                                  /\ f.seq = b.conn[c].seq /\ f.peer = s.peer
      <4>1. s \in FrameType /\ s.flags = {"FIN", "ACK"} /\ s.data = <<>> /\ b.conn[c].state = "ESTABLISHED"
        BY <1>3, <1>4, <2>1, <2>2
      <4>2. FinAnswered(b, r, c, s.peer)
        BY <1>5, <3>1, <4>1, ReceiveFin
      <4> QED
        BY <4>2 DEF FinAnswered
    <3> QED
      BY <1>4, <3>2
  <2>4. n = r /\ ~Pending(n)
    <3>1. Resting(b) /\ s \in FrameType /\ SameQueue(b, Receive(b, s))
      BY <1>1, <1>3, <1>5, <2>3
    <3> QED
      BY <1>5, <1>6, <3>1, RestReceives
  <2>5. LetGo(n, st, rest, frames, p)
    BY <1>1, <1>2, <2>1, <2>3, <2>4 DEF LetGo, InFlight
  <2> QED
    BY <2>5 DEF rest
<1> QED
  BY <1>7, <1>8

LEMMA StageRx ==
    ASSUME Alone, NEW b, TypedBoard(b), NEW st \in PeerType, NEW segs \in Seq(FrameType),
           NEW frames \in Seq(FrameType), NEW p \in Peers, Stage(b, st, segs, frames, p), segs # <<>>,
           NEW n, n = Flush(b, Receive(Transmit(b, FALSE), segs[1]))
    PROVE  Stage(n, st, Tail(segs), frames, p)
<1>1. CASE Knocking(b, st, segs, frames, p)
  BY <1>1, KnockingRx DEF Stage
<1>2. CASE Flowing(b, st, segs, frames, p)
  BY <1>2, FlowingRx DEF Stage
<1>3. CASE Parting(b, st, segs, frames, p)
  BY <1>3, PartingRx DEF Stage
<1>4. CASE Parted(b, st, segs, frames, p)
  BY <1>4, PartedRx DEF Stage
<1> QED
  BY <1>1, <1>2, <1>3, <1>4 DEF Stage, Away, LetIn, LetGo


-------------------------------------------------------------------------------
\* What the peer does while its connection is open.
LEMMA Behind ==
    ASSUME NEW b, NEW segs \in Seq(FrameType), NEW s \in FrameType, NEW frames, NEW c
    PROVE  /\ segs # <<>> => Append(segs, s)[1] = segs[1]
           /\ Append(segs, s) # <<>>
           /\ Room(b, segs, frames) => Room(b, Append(segs, s), frames)
           /\ Opening(b, segs, frames, c) => Opening(b, Append(segs, s), frames, c)
<1> DEFINE t == Append(segs, s)
<1>1. Len(t) = Len(segs) + 1 /\ Len(segs) \in Nat /\ \A i \in 1 .. Len(segs) : t[i] = segs[i]
  BY AppendFacts
<1> HIDE DEF t
<1>2. t # <<>>
  BY <1>1
<1>3. segs # <<>> => t[1] = segs[1]
  BY <1>1
<1> QED
  BY <1>2, <1>3 DEF Room, Opening, t

LEMMA FlowSpeaks ==
    ASSUME NEW b, TypedBoard(b), NEW st \in PeerType, NEW st2, st2.round = st.round, st2.next = st.next,
           NEW segs \in Seq(FrameType), NEW frames, NEW p, NEW c \in Slots,
           Flow(b, st, segs, frames, p, c),
           NEW s \in FrameType, Streams(s, p, st.round), s.seq = st.sent + 1, st2.sent + 1 = EndOf(s)
    PROVE  Flow(b, st2, Append(segs, s), frames, p, c)
<1> DEFINE t == Append(segs, s)
           e == st.sent + 1
<1>1. Items(t) = Items(segs) \cup {s}
  BY AppendFacts
<1>2. Chained(t, b.conn[c].peerSeq, st2.sent + 1)
  <2>1. e \in Nat /\ b.conn[c].peerSeq \in Nat
    BY PeerFields, BoardFields
  <2>2. Chained(segs, b.conn[c].peerSeq, e) /\ s.seq = e
    BY DEF Flow
  <2> HIDE DEF e
  <2>3. Chained(t, b.conn[c].peerSeq, EndOf(s))
    BY <2>1, <2>2, ChainAppend
  <2> QED
    BY <2>3
<1> HIDE DEF t
<1>3. \A x \in Items(t) : Streams(x, p, st2.round)
  BY <1>1 DEF Flow
<1>4. Flight(b, st2, frames, p, b.conn[c].seq) /\ Queueing(b, st2, p, c)
  BY DEF Flow, Flight, Queueing
<1> QED
  BY <1>2, <1>3, <1>4 DEF Flow, t

LEMMA FlowingSends ==
    ASSUME NEW b, TypedBoard(b), NEW st \in PeerType, NEW st2, st2.round = st.round, st2.next = st.next,
           st2.state = "open", Window(st2),
           NEW segs \in Seq(FrameType), NEW frames, NEW p, Flowing(b, st, segs, frames, p),
           NEW s \in FrameType, Streams(s, p, st.round), s.seq = st.sent + 1, st2.sent + 1 = EndOf(s)
    PROVE  Flowing(b, st2, Append(segs, s), frames, p)
<1>1. PICK c \in Slots : /\ b.conn[c].state \in {"SYN_RCVD", "ESTABLISHED"}
                         /\ Flow(b, st, segs, frames, p, c)
                         /\ Room(b, segs, frames) /\ Opening(b, segs, frames, c)
  BY DEF Flowing
<1>2. Flow(b, st2, Append(segs, s), frames, p, c)
  BY <1>1, FlowSpeaks
<1>3. Room(b, Append(segs, s), frames) /\ Opening(b, Append(segs, s), frames, c)
  BY <1>1, Behind
<1> QED
  BY <1>1, <1>2, <1>3 DEF Flowing

\* What has been sent and what has come back bound everything on the way.
LEMMA FlowBounds ==
    ASSUME NEW b, TypedBoard(b), NEW st \in PeerType, NEW segs \in Seq(FrameType),
           NEW frames \in Seq(FrameType), NEW p, NEW c \in Slots, Flow(b, st, segs, frames, p, c)
    PROVE  /\ st.next \in Nat /\ b.conn[c].seq \in Nat /\ Left(b) \in Nat /\ st.sent \in Nat
           /\ st.next <= b.conn[c].seq /\ b.conn[c].seq + Left(b) <= st.sent + 1
           /\ b.conn[c].peerSeq = b.conn[c].seq + Left(b)
           /\ \A i \in 1 .. Len(frames) : EndOf(frames[i]) <= b.conn[c].seq /\ st.next <= frames[i].seq
<1> DEFINE k == b.conn[c].seq
           e == st.sent + 1
<1>1. st.next \in Nat /\ k \in Nat /\ Left(b) \in Nat /\ st.sent \in Nat /\ e \in Nat
      /\ b.conn[c].peerSeq \in Nat
  BY Lengths, PeerFields, BoardFields
<1>2. st.next <= k
  BY <1>1, FlightBounds DEF Flow
<1>3. Chained(segs, b.conn[c].peerSeq, e) /\ b.conn[c].peerSeq = k + Left(b)
  BY DEF Flow, Left
<1>4. \A i \in 1 .. Len(frames) : EndOf(frames[i]) <= k /\ st.next <= frames[i].seq
  <2>1. CASE Chained(frames, st.next, k)
    BY <1>1, <2>1, ChainBounds
  <2>2. ASSUME NEW f \in FrameType, EndOf(f) = k, Chained(frames, st.next, f.seq)
        PROVE  \A i \in 1 .. Len(frames) : EndOf(frames[i]) <= k /\ st.next <= frames[i].seq
    <3>1. f.seq \in Nat /\ f.seq <= k
      BY <2>2, EndFacts
    <3>2. \A i \in 1 .. Len(frames) : EndOf(frames[i]) <= f.seq /\ st.next <= frames[i].seq
      BY <1>1, <2>2, <3>1, ChainBounds
    <3>3. \A i \in 1 .. Len(frames) : EndOf(frames[i]) \in Nat
      BY EndFacts
    <3> QED
      BY <1>1, <3>1, <3>2, <3>3
  <2> QED
    BY <2>1, <2>2 DEF Flow, Flight
<1> HIDE DEF e
<1>5. b.conn[c].peerSeq <= e
  BY <1>1, <1>3, ChainBounds
<1> QED
  BY <1>1, <1>2, <1>3, <1>4, <1>5 DEF e

\* The first echo on the way is what the peer waits for.
Awaited(f, st, p) == f \in FrameType /\ f.data # <<>> /\ f.seq = st.next /\ InPlace(p, st.round, f.seq, f.data)

LEMMA FirstEcho ==
    ASSUME NEW b, TypedBoard(b), NEW st \in PeerType, NEW segs, NEW frames \in Seq(FrameType), NEW p,
           NEW c \in Slots, Flow(b, st, segs, frames, p, c), frames # <<>>,
           NEW f, f = frames[1]
    PROVE  /\ Awaited(f, st, p)
           /\ \A st2 : st2.round = st.round /\ st2.next = EndOf(f) =>
                Flow(b, st2, segs, Tail(frames), p, c) \/ st2.sent # st.sent
<1> DEFINE k == b.conn[c].seq
           rest == Tail(frames)
<1>1. Flight(b, st, frames, p, k)
  BY DEF Flow
<1>2. f \in FrameType /\ f \in Items(frames) /\ Items(rest) \subseteq Items(frames)
  BY TailFacts
<1>3. Returns(f, p, st.round) /\ \A g \in Items(rest) : Returns(g, p, st.round)
  BY <1>1, <1>2 DEF Flight
<1>4. f.data # <<>> /\ InPlace(p, st.round, f.seq, f.data)
  BY <1>3 DEF Returns, Streams
<1>5. f.seq = st.next
  BY <1>1 DEF Flight, Chained
<1> HIDE DEF rest
<1>6. ASSUME NEW st2, st2.round = st.round, st2.next = EndOf(f) PROVE Flight(b, st2, rest, p, k)
  <2>1. CASE Still(b) /\ Chained(frames, st.next, k)
    <3>1. Chained(rest, EndOf(f), k)
      BY <2>1, ChainTail DEF rest
    <3> QED
      BY <1>3, <1>6, <2>1, <3>1 DEF Flight
  <2>2. ASSUME NEW g \in FrameType, Carries(b, g), Returns(g, p, st.round), EndOf(g) = k,
               Chained(frames, st.next, g.seq)
        PROVE  Flight(b, st2, rest, p, k)
    <3>1. Chained(rest, EndOf(f), g.seq)
      BY <2>2, ChainTail DEF rest
    <3> QED
      BY <1>3, <1>6, <2>2, <3>1 DEF Flight
  <2> QED
    BY <1>1, <2>1, <2>2 DEF Flight
<1>7. ASSUME NEW st2, st2.round = st.round, st2.next = EndOf(f), st2.sent = st.sent
      PROVE  Flow(b, st2, segs, rest, p, c)
  <2>1. Flight(b, st2, rest, p, k)
    BY <1>6, <1>7
  <2> QED
    BY <1>7, <2>1 DEF Flow, Queueing
<1> QED
  BY <1>2, <1>4, <1>5, <1>7 DEF rest, Awaited

\* It takes it in and acknowledges it.
LEMMA FlowingTakes ==
    ASSUME NEW b, TypedBoard(b), NEW st \in PeerType, NEW segs \in Seq(FrameType),
           NEW frames \in Seq(FrameType), NEW p, Flowing(b, st, segs, frames, p), Received(st, p),
           frames # <<>>, NEW f, f = frames[1], NEW st2, NEW s \in FrameType,
           PeerIs(st2, "open", st.round, st.sent, st.got \o f.data, st.next + Len(f.data)),
           IsFrame(s, p, {"ACK"}, st.sent + 1, <<>>)
    PROVE  Staged(b, st2, Append(segs, s), Tail(frames), p)
<1> DEFINE rest == Tail(frames)
           more == Append(segs, s)
<1>1. PICK c \in Slots : /\ b.conn[c].state \in {"SYN_RCVD", "ESTABLISHED"}
                         /\ Flow(b, st, segs, frames, p, c)
                         /\ Room(b, segs, frames) /\ Opening(b, segs, frames, c)
  BY DEF Flowing
<1>2. /\ st2 \in PeerType /\ st2.state = "open" /\ st2.round = st.round /\ st2.sent = st.sent
      /\ st2.got = st.got \o f.data /\ st2.next = st.next + Len(f.data)
  BY DEF PeerIs
<1>3. f \in FrameType /\ f.data # <<>> /\ f.seq = st.next /\ InPlace(p, st.round, f.seq, f.data)
  <2>1. Awaited(f, st, p)
    BY <1>1, FirstEcho
  <2> QED
    BY <2>1 DEF Awaited
<1>4. st2.next = EndOf(f)
  BY <1>2, <1>3 DEF EndOf
<1>5. Flow(b, st2, segs, rest, p, c)
  BY <1>1, <1>2, <1>4, FirstEcho
<1>6. /\ Streams(s, p, st2.round) /\ s.seq = st2.sent + 1 /\ EndOf(s) = st2.sent + 1 /\ s.data = <<>>
  <2>1. s.flags = {"ACK"} /\ s.peer = p /\ s.seq = st2.sent + 1 /\ s.data = <<>>
    BY <1>2 DEF IsFrame
  <2> QED
    BY <2>1, EndFacts, EmptyData DEF Streams, InPlace
<1>7. Flow(b, st2, more, rest, p, c)
  BY <1>2, <1>5, <1>6, FlowSpeaks
<1>8. /\ st.next \in Nat /\ st.sent \in Nat /\ Len(st.got) \in Nat /\ st.got \in Seq(ByteType)
      /\ f.data \in Seq(ByteType) /\ Len(f.data) \in Nat /\ st.next = Len(st.got) + 1
      /\ st.sent <= Len(st.got) + SendBuf /\ SendBuf \in Nat
  BY <1>3, PeerFields, FrameFields, NumberFacts DEF Flowing, Window
<1>9. st.next + Len(f.data) <= st.sent + 1
  <2> DEFINE k == b.conn[c].seq
             L == Left(b)
  <2>1. k \in Nat /\ L \in Nat /\ k + L <= st.sent + 1 /\ EndOf(f) <= k
    <3>1. 1 \in 1 .. Len(frames)
      OBVIOUS
    <3> QED
      BY <1>1, <3>1, FlowBounds
  <2> DEFINE x == st.next + Len(f.data)
             e == st.sent + 1
  <2>2. EndOf(f) = x /\ x \in Nat /\ e \in Nat
    <3>1. EndOf(f) = x
      BY <1>3 DEF EndOf
    <3>2. x \in Nat /\ e \in Nat
      <4>1. st.next \in Nat /\ Len(f.data) \in Nat /\ st.sent \in Nat
        BY <1>8
      <4> QED
        BY ONLY <4>1
    <3> QED
      BY <3>1, <3>2
  <2>3. k \in Nat /\ L \in Nat /\ k + L <= e /\ x <= k
    BY <2>1, <2>2
  <2> HIDE DEF k, L, x, e
  <2>4. x <= e
    BY ONLY <2>2, <2>3
  <2> QED
    BY <2>4 DEF x, e
<1>10. Received(st2, p) /\ Len(st2.got) = Len(st.got) + Len(f.data)
  <2> DEFINE d == f.data
             n == st.next
  <2>1. TakesBytes(p, st, st2, n, d)
    BY <1>2, <1>3, <1>8, <1>9 DEF TakesBytes
  <2> HIDE DEF d, n
  <2>2. Received(st2, p) /\ Len(st2.got) = Len(st.got) + Len(d)
    BY <2>1, ReceivedMore
  <2> QED
    BY <2>2 DEF d
<1>11. Window(st2)
  <2> DEFINE g == Len(st.got)
             l == Len(f.data)
  <2>1. /\ g \in Nat /\ l \in Nat /\ SendBuf \in Nat /\ st.sent \in Nat /\ st.next = g + 1
        /\ st.sent <= g + SendBuf /\ Len(st2.got) = g + l /\ st2.next = st.next + l /\ st2.sent = st.sent
    BY <1>2, <1>8, <1>10
  <2> HIDE DEF g, l
  <2>2. st2.next = Len(st2.got) + 1 /\ st2.sent <= Len(st2.got) + SendBuf
    BY ONLY <2>1
  <2> QED
    BY <2>2 DEF Window
<1>12. Opening(b, more, rest, c)
  BY <1>1 DEF Opening
<1>13. Room(b, more, rest)
  <2> SUFFICES ASSUME Pending(b), b.qOff > 0
               PROVE  \/ \E g \in FrameType : Carries(b, g) /\ Len(g.data) >= b.qOff
                      \/ Still(b) /\ rest # <<>> /\ Len(rest[Len(rest)].data) >= b.qOff
                      \/ /\ Still(b) /\ rest = <<>>
                         /\ more # <<>> /\ b.qLen + Len(more[1].data) <= SendBuf
    BY DEF Room
  <2>1. CASE \E g \in FrameType : Carries(b, g) /\ Len(g.data) >= b.qOff
    BY <2>1
  <2>2. CASE Still(b) /\ Len(frames[Len(frames)].data) >= b.qOff
    <3>1. CASE rest # <<>>
      <4>1. Len(rest) = Len(frames) - 1 /\ \A i \in 1 .. Len(frames) - 1 : rest[i] = frames[i + 1]
        BY TailFacts
      <4>2. Len(rest) \in 1 .. Len(frames) - 1 /\ Len(rest) + 1 = Len(frames)
        <5>1. rest \in Seq(FrameType)
          BY TailFacts
        <5> HIDE DEF rest
        <5>2. Len(rest) \in Nat /\ Len(rest) > 0
          BY <3>1, <5>1
        <5> QED
          BY <4>1, <5>2
      <4>3. rest[Len(rest)] = frames[Len(frames)]
        BY <4>1, <4>2
      <4> QED
        BY <2>2, <3>1, <4>3
    <3>2. CASE rest = <<>>
      <4>1. more # <<>> /\ (segs # <<>> => more[1] = segs[1])
        BY Behind
      <4>2. b.qLen + Len(more[1].data) <= SendBuf
        <5>1. CASE segs # <<>>
          <6>1. b.qLen + Len(segs[1].data) <= SendBuf
            BY <1>1, <5>1, NextFits DEF Flowing
          <6> QED
            BY <4>1, <5>1, <6>1
        <5>2. CASE segs = <<>>
          <6>1. more[1] = s
            BY <5>2
          <6>2. b.qLen \in Nat /\ b.qLen <= SendBuf
            BY Lengths
          <6> QED
            BY <1>6, <6>1, <6>2, EmptyData
        <5> QED
          BY <5>1, <5>2
      <4> QED
        BY <2>2, <3>2, <4>1, <4>2
    <3> QED
      BY <3>1, <3>2
  <2> QED
    BY <1>1, <2>1, <2>2 DEF Room
<1> HIDE DEF more, rest
<1>14. Flowing(b, st2, more, rest, p)
  BY <1>1, <1>2, <1>7, <1>11, <1>12, <1>13 DEF Flowing
<1> QED
  BY <1>10, <1>14 DEF Staged, Stage, more, rest

\* With nothing outstanding, nothing is on the way to it and in the queue.
LEMMA FlowEmpty ==
    ASSUME NEW b, TypedBoard(b), NEW st \in PeerType, NEW segs \in Seq(FrameType),
           NEW frames \in Seq(FrameType), NEW p, NEW c \in Slots, Flow(b, st, segs, frames, p, c),
           st.next = st.sent + 1
    PROVE  /\ Resting(b) /\ frames = <<>> /\ b.conn[c].seq = st.next /\ b.conn[c].peerSeq = st.next
           /\ \A x \in Items(segs) : x.data = <<>> /\ x.seq = st.next
<1> DEFINE k == b.conn[c].seq
           L == Left(b)
           n == st.next
<1>1. /\ n \in Nat /\ k \in Nat /\ L \in Nat /\ n <= k /\ k + L <= n
      /\ b.conn[c].peerSeq = k + L
      /\ \A i \in 1 .. Len(frames) : EndOf(frames[i]) <= k /\ n <= frames[i].seq
  BY FlowBounds
<1> HIDE DEF k, L, n
<1>2. k = n /\ L = 0 /\ k + L = n
  BY ONLY <1>1
<1>3. ~Pending(b)
  BY <1>2, Lengths DEF L
<1>4. Flight(b, st, frames, p, k)
  BY DEF Flow, k
<1>5. frames = <<>>
  <2> SUFFICES ASSUME frames # <<>> PROVE FALSE
    OBVIOUS
  <2>1. 1 \in 1 .. Len(frames) /\ frames[1] \in FrameType /\ frames[1] \in Items(frames)
    BY TailFacts
  <2>2. EndOf(frames[1]) <= k /\ n <= frames[1].seq /\ frames[1].data # <<>>
    BY <1>1, <1>4, <2>1 DEF Flight, Returns
  <2>3. frames[1].seq \in Nat /\ EndOf(frames[1]) \in Nat /\ frames[1].seq < EndOf(frames[1])
    BY <2>1, <2>2, EndFacts
  <2> QED
    BY <1>1, <1>2, <2>2, <2>3
<1>6. Still(b)
  <2> SUFFICES ASSUME NEW f \in FrameType, Returns(f, p, st.round), EndOf(f) = k,
                      Chained(frames, st.next, f.seq)
               PROVE  FALSE
    BY <1>4 DEF Flight
  <2>1. f.seq = n
    BY <1>5 DEF Chained, n
  <2>2. f.seq < EndOf(f)
    BY EndFacts DEF Returns
  <2> QED
    BY <1>1, <1>2, <2>1, <2>2
<1>7. ASSUME NEW x \in Items(segs) PROVE x.data = <<>> /\ x.seq = n
  <2>1. PICK i \in 1 .. Len(segs) : x = segs[i]
    BY DEF Items
  <2>2. Chained(segs, n, n)
    BY <1>1, <1>2 DEF Flow, n
  <2>3. n <= x.seq /\ EndOf(x) <= n
    BY <1>1, <2>1, <2>2, ChainBounds
  <2>4. x \in FrameType
    BY <2>1
  <2>5. x.seq \in Nat /\ EndOf(x) \in Nat /\ x.seq <= EndOf(x) /\ (x.data # <<>> => x.seq < EndOf(x))
    BY <2>4, EndFacts
  <2> QED
    BY <1>1, <2>3, <2>5
<1> QED
  BY <1>1, <1>2, <1>3, <1>5, <1>6, <1>7 DEF Resting, k, n

LEMMA FlowingCloses ==
    ASSUME NEW b, TypedBoard(b), NEW st \in PeerType, NEW segs \in Seq(FrameType),
           NEW frames \in Seq(FrameType), NEW p, Flowing(b, st, segs, frames, p),
           Len(st.got) = st.sent, NEW st2, st2.state = "fin", st2.next = st.next,
           NEW s \in FrameType, IsFrame(s, p, {"FIN", "ACK"}, st.sent + 1, <<>>)
    PROVE  Parting(b, st2, Append(segs, s), frames, p)
<1> DEFINE more == Append(segs, s)
<1>1. PICK c \in Slots : /\ b.conn[c].state \in {"SYN_RCVD", "ESTABLISHED"}
                         /\ Flow(b, st, segs, frames, p, c)
                         /\ Room(b, segs, frames) /\ Opening(b, segs, frames, c)
  BY DEF Flowing
<1>2. st.next = st.sent + 1
  BY DEF Flowing, Window
<1>3. /\ Resting(b) /\ frames = <<>> /\ b.conn[c].seq = st.next /\ b.conn[c].peerSeq = st.next
      /\ \A x \in Items(segs) : x.data = <<>> /\ x.seq = st.next
  BY <1>1, <1>2, FlowEmpty
<1>4. s.flags = {"FIN", "ACK"} /\ s.data = <<>> /\ s.seq = st.next /\ s.peer = p
  BY <1>2 DEF IsFrame
<1>5. OnlySlot(b, p, c) /\ \A x \in Items(segs) : x.flags = {"ACK"} /\ x.peer = p
  BY <1>1 DEF Flow, Streams
<1>6. /\ Len(more) = Len(segs) + 1 /\ Len(segs) \in Nat /\ \A i \in 1 .. Len(segs) : more[i] = segs[i]
      /\ more[Len(segs) + 1] = s /\ Items(more) = Items(segs) \cup {s}
  BY AppendFacts
<1>7. Opening(b, more, frames, c) /\ more # <<>> /\ (segs # <<>> => more[1] = segs[1])
  BY <1>1, Behind
<1> HIDE DEF more
<1>8. more[Len(more)].flags = {"FIN", "ACK"}
  BY <1>4, <1>6
<1>9. \A i \in 1 .. Len(more) - 1 : more[i].flags = {"ACK"}
  <2> SUFFICES ASSUME NEW i \in 1 .. Len(more) - 1 PROVE more[i].flags = {"ACK"}
    OBVIOUS
  <2>1. i \in 1 .. Len(segs) /\ more[i] = segs[i]
    BY <1>6
  <2>2. segs[i] \in Items(segs)
    BY <2>1 DEF Items
  <2> QED
    BY <1>5, <2>1, <2>2
<1>10. \A x \in Items(more) : x.data = <<>> /\ x.seq = st2.next /\ x.peer = p
  BY <1>3, <1>4, <1>5, <1>6
<1>11. b.conn[c].state = "SYN_RCVD" => Len(more) > 1 /\ more[1].ack = b.conn[c].seq
  <2> SUFFICES ASSUME b.conn[c].state = "SYN_RCVD" PROVE Len(more) > 1 /\ more[1].ack = b.conn[c].seq
    OBVIOUS
  <2>1. b.conn[c].seq = 1 /\ segs # <<>> /\ more[1].ack = 1
    BY <1>1, <1>7 DEF Opening
  <2>2. Len(segs) > 0
    BY <2>1
  <2> QED
    BY <1>6, <2>1, <2>2
<1>12. Parting(b, st2, more, frames, p)
  BY <1>1, <1>3, <1>5, <1>7, <1>8, <1>9, <1>10, <1>11 DEF Parting
<1> QED
  BY <1>12 DEF more


-------------------------------------------------------------------------------
\* The steps of a peer that is alone.
LEMMA MovedStaged ==
    ASSUME Alone, NEW p \in Peers, NEW st, NEW segs, NEW frames, Moved(p, st, segs, frames),
           Staged(board, st, segs, frames, p)
    PROVE  Conversation'
<1>1. \A q \in Peers : q = p
  BY DEF Alone
<1>2. board' = board /\ peer'[p] = st /\ toBoard'[p] = segs /\ toPeer'[p] = frames
  BY DEF Moved
<1>3. Staged(board', peer'[p], toBoard'[p], toPeer'[p], p)
  BY <1>2
<1> QED
  BY <1>1, <1>3 DEF Conversation

LEMMA SpokeStaged ==
    ASSUME Alone, NEW p \in Peers, NEW st, NEW flags, NEW seq, NEW data, NEW frames,
           Spoke(p, st, flags, seq, data, frames),
           \A s \in FrameType : IsFrame(s, p, flags, seq, data) =>
             Staged(board, st, Append(toBoard[p], s), frames, p)
    PROVE  Conversation'
<1>1. PICK s \in FrameType : /\ IsFrame(s, p, flags, seq, data)
                             /\ Moved(p, st, Append(toBoard[p], s), frames)
  BY DEF Spoke
<1> QED
  BY <1>1, MovedStaged

LEMMA OldStage ==
    ASSUME Typed, Conversation, NEW p \in Peers
    PROVE  /\ TypedBoard(board) /\ peer[p] \in PeerType
           /\ toBoard[p] \in Seq(FrameType) /\ toPeer[p] \in Seq(FrameType)
           /\ Received(peer[p], p) /\ Stage(board, peer[p], toBoard[p], toPeer[p], p)
           /\ peer[p].state = "open" => Flowing(board, peer[p], toBoard[p], toPeer[p], p)
<1>1. Received(peer[p], p) /\ Stage(board, peer[p], toBoard[p], toPeer[p], p)
  BY DEF Conversation, Staged
<1>2. peer[p].state = "open" => Flowing(board, peer[p], toBoard[p], toPeer[p], p)
  BY <1>1 DEF Stage, Away, Knocking, LetIn, Parting, LetGo, Parted
<1> QED
  BY <1>1, <1>2 DEF Typed, TypedLink

LEMMA ConnectStaged ==
    ASSUME Alone, Typed, Conversation, NEW p \in Peers, Connect(p)
    PROVE  Conversation'
<1>1. Silence(p) /\ toBoard[p] = <<>> /\ toPeer[p] = <<>> /\ peer[p].state = "closed"
  BY DEF Connect, Silence
<1>2. PICK st : /\ PeerIs(st, "syn", peer[p].round + 1, 0, <<>>, 0)
                /\ Spoke(p, st, {"SYN"}, 0, <<>>, toPeer[p])
  BY ConnectDoes
<1>3. st.state = "syn" /\ st.sent = 0 /\ st.got = <<>> /\ st.next = 0 /\ Len(st.got) = 0
  BY <1>2, EmptyData DEF PeerIs
<1>4. Received(st, p)
  <2>1. <<>> = [i \in 1 .. 0 |-> Byte(p, st.round, i)]
    OBVIOUS
  <2> QED
    BY <1>3, <2>1 DEF Received
<1>5. Resting(board) /\ NoSlot(board)
  <2>1. Stage(board, peer[p], toBoard[p], toPeer[p], p)
    BY OldStage
  <2>2. ~Parted(board, peer[p], toBoard[p], toPeer[p], p)
    <3>1. Len(toBoard[p]) # 1
      BY <1>1
    <3> QED
      BY <3>1 DEF Parted
  <2> QED
    BY <1>1, <2>1, <2>2 DEF Stage, Away, Knocking, LetIn, Flowing, Parting, LetGo
<1>6. ASSUME NEW s \in FrameType, IsFrame(s, p, {"SYN"}, 0, <<>>)
      PROVE  Staged(board, st, Append(toBoard[p], s), toPeer[p], p)
  <2> DEFINE segs == Append(toBoard[p], s)
  <2>1. s.flags = {"SYN"} /\ s.seq = 0 /\ s.peer = p
    BY <1>6 DEF IsFrame
  <2>2. Len(segs) = 1 /\ segs[1] = s
    BY <1>1
  <2> HIDE DEF segs
  <2>3. Knocking(board, st, segs, toPeer[p], p)
    BY <1>1, <1>3, <1>5, <2>1, <2>2 DEF Knocking, Anew
  <2> QED
    BY <1>4, <2>3 DEF Staged, Stage, segs
<1> QED
  BY <1>2, <1>6, SpokeStaged

LEMMA CloseStaged ==
    ASSUME Alone, Typed, Conversation, NEW p \in Peers, Close(p)
    PROVE  Conversation'
<1> DEFINE o == peer[p]
<1>1. o.state = "open" /\ ~Waiting(p)
  BY CloseDoes
<1>2. PICK st : /\ PeerIs(st, "fin", o.round, o.sent, o.got, o.next)
                /\ Spoke(p, st, {"FIN", "ACK"}, o.sent + 1, <<>>, toPeer[p])
  BY CloseDoes
<1>3. /\ TypedBoard(board) /\ o \in PeerType /\ toBoard[p] \in Seq(FrameType)
      /\ toPeer[p] \in Seq(FrameType) /\ Received(o, p)
      /\ Flowing(board, o, toBoard[p], toPeer[p], p)
  BY <1>1, OldStage
<1>4. o.sent \in Nat /\ Len(o.got) \in Nat /\ Len(o.got) = o.sent
  <2>1. o.sent \in Nat /\ Len(o.got) \in Nat
    BY <1>3, PeerFields
  <2> QED
    BY <1>1, <1>3, <2>1 DEF Waiting, Received
<1>5. st.state = "fin" /\ st.next = o.next /\ st.got = o.got /\ st.round = o.round /\ st.sent = o.sent
  BY <1>2 DEF PeerIs
<1> HIDE DEF o
<1>6. Received(st, p)
  BY <1>3, <1>5 DEF Received
<1>7. ASSUME NEW s \in FrameType, IsFrame(s, p, {"FIN", "ACK"}, o.sent + 1, <<>>)
      PROVE  Staged(board, st, Append(toBoard[p], s), toPeer[p], p)
  <2>1. Parting(board, st, Append(toBoard[p], s), toPeer[p], p)
    BY <1>3, <1>4, <1>5, <1>7, FlowingCloses
  <2> QED
    BY <1>6, <2>1 DEF Staged, Stage
<1> QED
  BY <1>2, <1>7, SpokeStaged

LEMMA SendDataStaged ==
    ASSUME Alone, Typed, Conversation, NEW p \in Peers, NEW n \in 1 .. MaxSeg, SendData(p, n)
    PROVE  Conversation'
<1> DEFINE o == peer[p]
           m == o.sent
           z == m + n
           d == Stream(p, m, z)
<1>1. /\ o.state = "open"
      /\ \/ ~Waiting(p)
         \/ o.sent + n - Len(o.got) <= Pipeline
  BY DEF SendData
<1>2. PICK st : /\ PeerIs(st, "open", o.round, z, o.got, o.next)
                /\ Spoke(p, st, {"ACK"}, m + 1, d, toPeer[p])
  BY SendDataDoes
<1>3. /\ TypedBoard(board) /\ o \in PeerType /\ toBoard[p] \in Seq(FrameType)
      /\ toPeer[p] \in Seq(FrameType) /\ Received(o, p)
      /\ Flowing(board, o, toBoard[p], toPeer[p], p)
  BY <1>1, OldStage
<1>4. /\ m \in Nat /\ n \in Nat /\ n > 0 /\ n <= SendBuf /\ Len(o.got) \in Nat /\ SendBuf \in Nat
      /\ Pipeline \in Nat /\ Pipeline <= SendBuf
  <2>1. n \in 1 .. MaxSeg /\ MaxSeg \in 1 .. SendBuf /\ SendBuf \in Nat /\ MaxSeg \in Nat
    BY TcpAssumption, NumberFacts
  <2>2. n \in Nat /\ n > 0 /\ n <= SendBuf
    BY ONLY <2>1
  <2> QED
    BY <1>3, <2>1, <2>2, PeerFields, TcpAssumption DEF Alone
<1>5. /\ st.state = "open" /\ st.round = o.round /\ st.sent = z /\ st.got = o.got /\ st.next = o.next
  BY <1>2 DEF PeerIs
<1>6. z \in Nat /\ m <= z /\ z - m = n
  BY <1>4
<1>7. o.sent = m /\ o = peer[p]
  OBVIOUS
<1>8. d \in Seq(ByteType) /\ Len(d) = n /\ \A i \in 1 .. n : d[i] = Byte(p, o.round, m + i)
  <2> HIDE DEF m, z
  <2>1. /\ d \in Seq(ByteType) /\ Len(d) = z - m
        /\ \A i \in 1 .. z - m : d[i] = Byte(p, peer[p].round, m + i)
    BY <1>4, <1>6, StreamFacts
  <2> QED
    BY <1>6, <1>7, <2>1
<1>9. z <= Len(o.got) + SendBuf
  <2> DEFINE g == Len(o.got)
  <2>1. g <= m /\ (m <= g \/ m + n - g <= Pipeline)
    BY <1>1, <1>3, <1>4 DEF Waiting, Received
  <2>2. g \in Nat /\ m \in Nat /\ z = m + n /\ n \in Nat /\ n <= SendBuf /\ SendBuf \in Nat
        /\ Pipeline \in Nat /\ Pipeline <= SendBuf
    BY <1>4
  <2> HIDE DEF g, m, z
  <2>3. z <= g + SendBuf
    BY ONLY <2>1, <2>2
  <2> QED
    BY <2>3 DEF g
<1> HIDE DEF d, m, z, o
<1>10. Received(st, p)
  BY <1>3, <1>4, <1>5, <1>6, <1>7, ReceivedKept
<1>11. Window(st)
  BY <1>3, <1>5, <1>9 DEF Flowing, Window
<1>12. ASSUME NEW s \in FrameType, IsFrame(s, p, {"ACK"}, m + 1, d)
       PROVE  Staged(board, st, Append(toBoard[p], s), toPeer[p], p)
  <2>1. s.flags = {"ACK"} /\ s.peer = p /\ s.seq = m + 1 /\ s.data = d
    BY <1>12 DEF IsFrame
  <2>2. Streams(s, p, o.round)
    <3>1. ASSUME NEW i \in 1 .. n PROVE d[i] = Byte(p, o.round, (m + 1) + i - 1)
      <4>1. (m + 1) + i - 1 = m + i
        BY <1>4
      <4> QED
        BY <1>8, <4>1
    <3> QED
      BY <1>8, <2>1, <3>1 DEF Streams, InPlace
  <2>3. z + 1 = EndOf(s)
    <3>1. EndOf(s) = (m + 1) + n
      BY <1>8, <2>1 DEF EndOf
    <3> QED
      BY <1>4, <1>6, <3>1
  <2>4. Flowing(board, st, Append(toBoard[p], s), toPeer[p], p)
    BY <1>3, <1>5, <1>7, <1>11, <2>1, <2>2, <2>3, FlowingSends
  <2> QED
    BY <1>10, <2>4 DEF Staged, Stage
<1> QED
  BY <1>2, <1>12, SpokeStaged

\* What the peer waits for it answers.
LEMMA DeliverAnswers ==
    ASSUME Typed, NEW p \in Peers, NEW f, toPeer[p] # <<>>, f = Head(toPeer[p]), Deliver(p)
    PROVE  /\ peer[p].state = "syn" /\ f.flags = {"SYN", "ACK"} /\ f.ack = 1 =>
                \E st : /\ PeerIs(st, "open", peer[p].round, peer[p].sent, peer[p].got, f.seq + 1)
                        /\ \E s \in FrameType :
                             /\ IsFrame(s, p, {"ACK"}, 1, <<>>) /\ s.ack = f.seq + 1
                             /\ Moved(p, st, Append(toBoard[p], s), Tail(toPeer[p]))
           /\ peer[p].state = "open" /\ f.data # <<>> /\ f.seq = peer[p].next =>
                \E st : /\ PeerIs(st, "open", peer[p].round, peer[p].sent,
                                  peer[p].got \o f.data, peer[p].next + Len(f.data))
                        /\ Spoke(p, st, {"ACK"}, peer[p].sent + 1, <<>>, Tail(toPeer[p]))
           /\ peer[p].state = "fin" /\ "FIN" \in f.flags /\ f.seq = peer[p].next =>
                \E st : /\ PeerIs(st, "closed", peer[p].round, peer[p].sent, peer[p].got, f.seq + 1)
                        /\ Spoke(p, st, {"ACK"}, peer[p].sent + 2, <<>>, Tail(toPeer[p]))
<1> DEFINE u == toBoard[p]
           w == Tail(toPeer[p])
           Answer(seq, ack) == Segment(p, {"ACK"}, seq, ack, <<>>)
<1>1. /\ f \in FrameType /\ f.peer = p
      /\ \/ /\ peer[p].state = "syn" /\ f.flags = {"SYN", "ACK"}
            /\ \E st : /\ PeerIs(st, "open", peer[p].round, peer[p].sent, peer[p].got, f.seq + 1)
                       /\ Spoke(p, st, {"ACK"}, 1, <<>>, w)
         \/ /\ peer[p].state = "open" /\ f.data # <<>> /\ f.seq = peer[p].next
            /\ \E st : /\ PeerIs(st, "open", peer[p].round, peer[p].sent,
                                 peer[p].got \o f.data, peer[p].next + Len(f.data))
                       /\ Spoke(p, st, {"ACK"}, peer[p].sent + 1, <<>>, w)
         \/ /\ peer[p].state = "fin"
            /\ \E st : /\ PeerIs(st, "closed", peer[p].round, peer[p].sent, peer[p].got, f.seq + 1)
                       /\ Spoke(p, st, {"ACK"}, peer[p].sent + 2, <<>>, w)
         \/ Moved(p, peer[p], u, w)
  BY DeliverDoes
<1>2. u \in Seq(FrameType) /\ toBoard \in [Peers -> Seq(FrameType)] /\ f.seq + 1 \in Nat
  BY <1>1, OldState, FrameFields DEF Typed, TypedLink
<1>3. ASSUME NEW st, NEW flags, NEW seq, NEW data, Says(p, st, flags, seq, data)
      PROVE  toBoard'[p] = Append(u, Segment(p, flags, seq, st.next, data)) /\ toBoard'[p] # u
  <2> DEFINE g == Segment(p, flags, seq, st.next, data)
  <2>1. toBoard' = [toBoard EXCEPT ![p] = Append(u, g)]
    BY <1>3 DEF Says
  <2> HIDE DEF g
  <2>2. toBoard'[p] = Append(u, g)
    BY <1>2, <2>1
  <2>3. Len(Append(u, g)) = Len(u) + 1 /\ Len(u) \in Nat
    BY <1>2
  <2>4. Append(u, g) # u
    BY <2>3
  <2> QED
    BY <2>2, <2>4 DEF g
<1>4. ASSUME Moved(p, peer[p], u, w) PROVE toBoard'[p] = u
  BY <1>4 DEF Moved
<1>5. TakeIn(p, f)
  BY DEF Deliver
<1>6. CASE peer[p].state = "syn" /\ f.flags = {"SYN", "ACK"} /\ f.ack = 1
  <2> DEFINE x == [peer[p] EXCEPT !.state = "open", !.next = f.seq + 1]
  <2>1. Says(p, x, {"ACK"}, 1, <<>>)
    BY <1>5, <1>6 DEF TakeIn
  <2>2. x.next = f.seq + 1
    BY OldState DEF PeerType
  <2> HIDE DEF x
  <2>3. toBoard'[p] = Append(u, Segment(p, {"ACK"}, 1, x.next, <<>>)) /\ toBoard'[p] # u
    BY <1>3, <2>1
  <2>4. PICK st : /\ PeerIs(st, "open", peer[p].round, peer[p].sent, peer[p].got, f.seq + 1)
                  /\ Spoke(p, st, {"ACK"}, 1, <<>>, w)
    BY <1>1, <1>4, <1>6, <2>3
  <2>5. PICK s \in FrameType : /\ IsFrame(s, p, {"ACK"}, 1, <<>>)
                               /\ Moved(p, st, Append(u, s), w)
    BY <2>4 DEF Spoke
  <2>6. s.ack = f.seq + 1
    <3> DEFINE g == Segment(p, {"ACK"}, 1, x.next, <<>>)
    <3>1. g.ack = f.seq + 1
      BY <2>2 DEF Segment
    <3>2. Append(u, s) = Append(u, g)
      BY <2>3, <2>5 DEF Moved
    <3> HIDE DEF g
    <3>3. Append(u, s)[Len(u) + 1] = s /\ Append(u, g)[Len(u) + 1] = g
      BY <1>2
    <3> QED
      BY <3>1, <3>2, <3>3
  <2> QED
    BY <1>6, <2>4, <2>5, <2>6
<1>7. CASE peer[p].state = "open" /\ f.data # <<>> /\ f.seq = peer[p].next
  <2> DEFINE x == [peer[p] EXCEPT !.got = @ \o f.data, !.next = @ + Len(f.data)]
  <2>1. Says(p, x, {"ACK"}, peer[p].sent + 1, <<>>)
    BY <1>5, <1>7 DEF TakeIn
  <2> HIDE DEF x
  <2>2. toBoard'[p] # u
    BY <1>3, <2>1
  <2> QED
    BY <1>1, <1>4, <1>7, <2>2
<1>8. CASE peer[p].state = "fin" /\ "FIN" \in f.flags /\ f.seq = peer[p].next
  <2> DEFINE x == [peer[p] EXCEPT !.state = "closed", !.next = f.seq + 1]
  <2>1. Says(p, x, {"ACK"}, peer[p].sent + 2, <<>>)
    BY <1>5, <1>8 DEF TakeIn
  <2> HIDE DEF x
  <2>2. toBoard'[p] # u
    BY <1>3, <2>1
  <2> QED
    BY <1>1, <1>4, <1>8, <2>2
<1> QED
  BY <1>6, <1>7, <1>8

LEMMA DeliverStaged ==
    ASSUME Alone, Typed, Conversation, NEW p \in Peers, Deliver(p)
    PROVE  Conversation'
<1> DEFINE o == peer[p]
           u == toBoard[p]
           frames == toPeer[p]
           rest == Tail(frames)
<1>1. frames # <<>>
  BY DEF Deliver
<1>2. /\ TypedBoard(board) /\ o \in PeerType /\ u \in Seq(FrameType) /\ frames \in Seq(FrameType)
      /\ Received(o, p) /\ Stage(board, o, u, frames, p)
  BY OldStage
<1>3. PICK f : f = Head(frames)
  OBVIOUS
<1>4. f = frames[1] /\ f \in FrameType
  BY <1>1, <1>2, <1>3, TailFacts
<1>5. CASE Flowing(board, o, u, frames, p)
  <2>1. Awaited(f, o, p) /\ o.state = "open"
    BY <1>1, <1>2, <1>4, <1>5, FirstEcho DEF Flowing
  <2>2. PICK st : /\ PeerIs(st, "open", o.round, o.sent, o.got \o f.data, o.next + Len(f.data))
                  /\ Spoke(p, st, {"ACK"}, o.sent + 1, <<>>, rest)
    BY <1>1, <1>3, <2>1, DeliverAnswers DEF Awaited
  <2>3. ASSUME NEW s \in FrameType, IsFrame(s, p, {"ACK"}, o.sent + 1, <<>>)
        PROVE  Staged(board, st, Append(u, s), rest, p)
    BY <1>1, <1>2, <1>4, <1>5, <2>2, <2>3, FlowingTakes
  <2> QED
    BY <2>2, <2>3, SpokeStaged
<1>6. CASE LetIn(board, o, u, frames, p)
  <2> DEFINE F == Segment(p, {"SYN", "ACK"}, 0, 1, <<>>)
  <2>1. /\ o.state = "syn" /\ Anew(o) /\ u = <<>> /\ ~Pending(board)
        /\ Still(board) /\ frames = <<F>>
    BY <1>1, <1>6 DEF LetIn, InFlight
  <2>2. PICK c \in Slots : /\ OnlySlot(board, p, c) /\ board.conn[c].state = "SYN_RCVD"
                           /\ board.conn[c].seq = 1 /\ board.conn[c].peerSeq = 1
    BY <1>6 DEF LetIn
  <2>3. f.flags = {"SYN", "ACK"} /\ f.ack = 1 /\ f.seq = 0 /\ rest = <<>>
    BY <1>4, <2>1 DEF Segment
  <2>4. PICK st : /\ PeerIs(st, "open", o.round, o.sent, o.got, f.seq + 1)
                  /\ \E s \in FrameType :
                       /\ IsFrame(s, p, {"ACK"}, 1, <<>>) /\ s.ack = f.seq + 1
                       /\ Moved(p, st, Append(u, s), rest)
    BY <1>1, <1>3, <2>1, <2>3, DeliverAnswers
  <2>5. PICK s \in FrameType : /\ IsFrame(s, p, {"ACK"}, 1, <<>>) /\ s.ack = f.seq + 1
                               /\ Moved(p, st, Append(u, s), rest)
    BY <2>4
  <2>6. /\ st.state = "open" /\ st.round = o.round /\ st.sent = 0 /\ st.got = <<>> /\ st.next = 1
        /\ Len(st.got) = 0
    BY <2>1, <2>3, <2>4, EmptyData DEF PeerIs, Anew
  <2>7. Received(st, p)
    <3>1. <<>> = [i \in 1 .. 0 |-> Byte(p, st.round, i)]
      OBVIOUS
    <3> QED
      BY <2>6, <3>1 DEF Received
  <2>8. s.flags = {"ACK"} /\ s.seq = 1 /\ s.peer = p /\ s.data = <<>> /\ s.ack = 1 /\ EndOf(s) = 1
    <3>1. s.flags = {"ACK"} /\ s.seq = 1 /\ s.peer = p /\ s.data = <<>> /\ s.ack = 1
      BY <2>3, <2>5 DEF IsFrame
    <3> QED
      BY <3>1, EndFacts
  <2> DEFINE more == Append(u, s)
  <2>9. more = <<s>> /\ Items(more) = {s} /\ more # <<>> /\ more[1] = s
    <3>1. more = <<s>>
      BY <2>1
    <3> HIDE DEF more
    <3> QED
      BY <3>1 DEF Items
  <2> HIDE DEF more, rest
  <2>10. Window(st)
    BY <2>6, NumberFacts DEF Window
  <2>11. Left(board) = 0 /\ board.qLen - board.qOff = 0
    BY <1>2, <2>1, Lengths DEF Left
  <2>12. Chained(more, 1, 1)
    BY <2>8, <2>9, ChainOf
  <2>13. Flight(board, st, rest, p, 1)
    BY <2>1, <2>3, <2>6, ItemsEmpty, EmptyData DEF Flight, Chained
  <2>14. \A x \in Items(more) : Streams(x, p, st.round)
    BY <2>8, <2>9, EmptyData DEF Streams, InPlace
  <2>15. Flow(board, st, more, rest, p, c)
    BY <2>1, <2>2, <2>6, <2>11, <2>12, <2>13, <2>14 DEF Flow, Queueing
  <2>16. Room(board, more, rest) /\ Opening(board, more, rest, c)
    BY <2>1, <2>2, <2>3, <2>8, <2>9 DEF Room, Opening, Resting
  <2>17. Staged(board, st, more, rest, p)
    BY <2>2, <2>6, <2>7, <2>10, <2>15, <2>16 DEF Flowing, Staged, Stage
  <2> QED
    BY <2>5, <2>17, MovedStaged DEF more
<1>7. CASE LetGo(board, o, u, frames, p)
  <2>1. o.state = "fin" /\ u = <<>> /\ ~Pending(board)
    BY <1>7 DEF LetGo
  <2>2. PICK g \in FrameType : /\ InFlight(board, frames, g) /\ g.flags = {"FIN", "ACK"}
                               /\ g.seq = o.next
    BY <1>7 DEF LetGo
  <2>3. Still(board) /\ frames = <<g>>
    BY <1>1, <2>2 DEF InFlight
  <2>4. f.flags = {"FIN", "ACK"} /\ f.seq = o.next /\ rest = <<>>
    BY <1>4, <2>2, <2>3
  <2>5. PICK st : /\ PeerIs(st, "closed", o.round, o.sent, o.got, f.seq + 1)
                  /\ Spoke(p, st, {"ACK"}, o.sent + 2, <<>>, rest)
    BY <1>1, <1>3, <2>1, <2>4, DeliverAnswers
  <2>6. st.state = "closed" /\ st.round = o.round /\ st.sent = o.sent /\ st.got = o.got
    BY <2>5 DEF PeerIs
  <2>7. Received(st, p)
    BY <1>2, <2>6 DEF Received
  <2>8. ASSUME NEW s \in FrameType, IsFrame(s, p, {"ACK"}, o.sent + 2, <<>>)
        PROVE  Staged(board, st, Append(u, s), rest, p)
    <3> DEFINE more == Append(u, s)
    <3>1. s.flags = {"ACK"} /\ s.peer = p
      BY <2>8 DEF IsFrame
    <3>2. Len(more) = 1 /\ more[1] = s
      BY <2>1
    <3> HIDE DEF more
    <3>3. Parted(board, st, more, rest, p)
      BY <1>7, <2>1, <2>3, <2>4, <2>6, <3>1, <3>2 DEF Parted, LetGo, Resting
    <3> QED
      BY <2>7, <3>3 DEF Staged, Stage, more
  <2> QED
    BY <2>5, <2>8, SpokeStaged
<1> QED
  BY <1>1, <1>2, <1>5, <1>6, <1>7 DEF Stage, Away, Knocking, Parting, Parted


-------------------------------------------------------------------------------
\* The steps of the board.
LEMMA PassStaged ==
    ASSUME Alone, NEW p \in Peers, peer' = peer,
           \A q \in Peers : q = p => Staged(board', peer[q], toBoard'[q], toPeer'[q], q)
    PROVE  Conversation'
<1>1. \A q \in Peers : q = p
  BY DEF Alone
<1> QED
  BY <1>1 DEF Conversation

LEMMA QuietStaged ==
    ASSUME Alone, Typed, Conversation, QuietPass
    PROVE  Conversation'
<1>1. board' = Flush(board, Transmit(board, FALSE)) /\ UNCHANGED <<peer, toBoard, toPeer>>
  BY DEF QuietPass
<1>2. ASSUME NEW p \in Peers PROVE Staged(board', peer[p], toBoard[p], toPeer[p], p)
  <2>1. /\ TypedBoard(board) /\ peer[p] \in PeerType
        /\ Received(peer[p], p) /\ Stage(board, peer[p], toBoard[p], toPeer[p], p)
    BY OldStage
  <2>2. PICK n : n = Flush(board, Transmit(board, FALSE))
    OBVIOUS
  <2>3. Stage(n, peer[p], toBoard[p], toPeer[p], p)
    BY <2>1, <2>2, StageQuiet
  <2> QED
    BY <1>1, <2>1, <2>2, <2>3 DEF Staged
<1> QED
  BY <1>1, <1>2 DEF Conversation

LEMMA SentStaged ==
    ASSUME Alone, Typed, Conversation, SentPass
    PROVE  Conversation'
<1>1. /\ board.mac # {} /\ board' = Flush(board, Transmit(board, TRUE)) /\ peer' = peer /\ toBoard' = toBoard
  BY DEF SentPass
<1>2. PICK g \in board.mac : Leaves(g)
  BY DEF SentPass
<1>3. ASSUME NEW p \in Peers PROVE Staged(board', peer[p], toBoard[p], toPeer'[p], p)
  <2>1. /\ TypedBoard(board) /\ peer[p] \in PeerType /\ toPeer[p] \in Seq(FrameType)
        /\ Received(peer[p], p) /\ Stage(board, peer[p], toBoard[p], toPeer[p], p)
    BY OldStage
  <2>2. PICK n : n = Finished(board)
    OBVIOUS
  <2>3. g.peer = p /\ Stage(n, peer[p], toBoard[p], Append(toPeer[p], g), p)
    BY <1>1, <2>1, <2>2, StageSent
  <2>4. toPeer'[p] = Append(toPeer[p], g)
    <3>1. g # Damaged
      BY <2>3, DamagedTyped, NumberFacts
    <3>2. toPeer' = [toPeer EXCEPT ![p] = Append(toPeer[p], g)]
      BY <1>2, <2>3, <3>1 DEF Leaves
    <3> QED
      BY <3>2 DEF Typed, TypedLink
  <2> QED
    BY <1>1, <2>1, <2>2, <2>3, <2>4 DEF Staged, Finished
<1> QED
  BY <1>1, <1>3 DEF Conversation

LEMMA RxStaged ==
    ASSUME Alone, Typed, Conversation, NEW p \in Peers, RxPass(p)
    PROVE  Conversation'
<1> DEFINE u == toBoard[p]
<1>1. /\ u # <<>> /\ board' = Flush(board, Receive(Transmit(board, FALSE), Head(u)))
      /\ toBoard' = [toBoard EXCEPT ![p] = Tail(u)] /\ peer' = peer /\ toPeer' = toPeer
  BY DEF RxPass
<1>2. /\ TypedBoard(board) /\ peer[p] \in PeerType /\ u \in Seq(FrameType) /\ toPeer[p] \in Seq(FrameType)
      /\ Received(peer[p], p) /\ Stage(board, peer[p], u, toPeer[p], p)
  BY OldStage
<1>3. toBoard'[p] = Tail(u) /\ Head(u) = u[1]
  BY <1>1, <1>2, TailFacts DEF Typed, TypedLink
<1>4. PICK n : n = Flush(board, Receive(Transmit(board, FALSE), u[1]))
  OBVIOUS
<1>5. board' = n
  BY <1>1, <1>3, <1>4
<1>6. Stage(n, peer[p], Tail(u), toPeer[p], p)
  BY <1>1, <1>2, <1>4, StageRx
<1>7. Staged(board', peer[p], toBoard'[p], toPeer'[p], p)
  BY <1>1, <1>2, <1>3, <1>5, <1>6 DEF Staged
<1> QED
  BY <1>1, <1>7, PassStaged

LEMMA StepStaged ==
    ASSUME Alone, Typed, Conversation, [Next]_vars
    PROVE  Conversation'
<1>1. ASSUME NEW p \in Peers, PeerStep(p) PROVE Conversation'
  <2>1. ~Vanish(p) /\ ~Lose(p) /\ ~Retry(p)
    <3>1. Losses = 0 /\ Retries = 0 /\ lost \in Nat /\ peer[p].tries \in Nat
      BY DEF Alone, Typed, PeerType
    <3> QED
      BY <3>1 DEF Vanish, Lose, Retry
  <2> QED
    BY <1>1, <2>1, ConnectStaged, CloseStaged, DeliverStaged, SendDataStaged DEF PeerStep
<1>2. CASE UNCHANGED vars
  BY <1>2 DEF vars, Conversation
<1> QED
  BY <1>1, <1>2, QuietStaged, SentStaged, RxStaged DEF Next

LEMMA InitStaged == Init => Conversation
<1> SUFFICES ASSUME Init, NEW p \in Peers PROVE Staged(board, peer[p], toBoard[p], toPeer[p], p)
  BY DEF Conversation
<1> DEFINE e  == <<>>
           st == [state |-> "closed", round |-> 0, sent |-> 0, got |-> e, next |-> 0, tries |-> 0]
<1>1. Resting(board) /\ NoSlot(board)
  BY DEF Init, Resting, Still, Pending, NoSlot
<1>2. peer[p] = st /\ toBoard[p] = e /\ toPeer[p] = e /\ Len(e) = 0
  BY EmptyData DEF Init
<1>3. e = [i \in 1 .. 0 |-> Byte(p, 0, i)]
  OBVIOUS
<1>4. st.state = "closed" /\ st.sent = 0 /\ st.got = e /\ st.round = 0 /\ e = <<>>
  OBVIOUS
<1> HIDE DEF e, st
<1>5. Received(st, p)
  BY <1>2, <1>3, <1>4 DEF Received
<1>6. Away(board, st, e, e)
  BY <1>1, <1>4 DEF Away
<1> QED
  BY <1>2, <1>5, <1>6 DEF Staged, Stage

\* Bytes of an open connection that the board has acknowledged it has echoed or holds in
\* the queue, byte for byte behind what it has echoed: nothing acknowledged is dropped,
\* however far a peer that is alone sends ahead of its echo (tcp_rx_process takes the
\* acknowledgement number from the segment, tcp_queue drops what has no room).
THEOREM AckedKept ==
    ASSUME Alone
    PROVE  Spec => []AckedIsKept
<1>1. Init => AInv
  BY InitTyped, InitStaged DEF AInv
<1>2. AInv /\ [Next]_vars => AInv'
  BY StepTyped, StepStaged DEF AInv
<1>3. AInv => AckedIsKept
  <2> SUFFICES ASSUME AInv, NEW c \in Slots, board.conn[c].state = "ESTABLISHED"
               PROVE  /\ board.conn[c].peerSeq <= board.conn[c].seq + Queued(c)
                      /\ \A i \in 1 .. Queued(c) :
                           board.bufs[c][board.qOff + i]
                             = Byte(board.conn[c].peer, peer[board.conn[c].peer].round,
                                    board.conn[c].seq - 1 + i)
    BY DEF AckedIsKept
  <2>1. PICK p : Peers = {p}
    BY DEF Alone
  <2> DEFINE o == peer[p]
             u == toBoard[p]
             w == toPeer[p]
             k == board.conn[c].seq
  <2>2. /\ TypedBoard(board) /\ o \in PeerType /\ u \in Seq(FrameType) /\ w \in Seq(FrameType)
        /\ Stage(board, o, u, w, p)
    BY <2>1, OldStage DEF AInv
  <2>3. k \in Nat /\ Left(board) \in Nat /\ (~Pending(board) => Left(board) = 0)
        /\ board.conn[c].peerSeq \in Nat
    BY <2>2, Lengths, BoardFields
  <2>4. Queued(c) = IF board.qCid = c THEN Left(board) ELSE 0
    BY DEF Queued, Left
  <2>5. CASE Flowing(board, o, u, w, p)
    <3>1. PICK d \in Slots : Flow(board, o, u, w, p, d)
      BY <2>5 DEF Flowing
    <3>2. d = c /\ board.conn[c].peer = p
      BY <3>1 DEF Flow, OnlySlot
    <3>3. board.conn[c].peerSeq = k + Left(board) /\ Queueing(board, o, p, c)
      BY <3>1, <3>2 DEF Flow, Left
    <3>4. Queued(c) = Left(board)
      BY <2>3, <2>4, <3>3 DEF Queueing
    <3>5. ASSUME NEW i \in 1 .. Left(board)
          PROVE  board.bufs[c][board.qOff + i] = Byte(p, o.round, k - 1 + i)
      <4>1. Pending(board)
        BY <2>3
      <4>2. board.bufs[c][board.qOff + i] = Byte(p, o.round, k + i - 1)
        BY <3>3, <4>1 DEF Queueing, Left
      <4>3. k + i - 1 = k - 1 + i
        BY <2>3
      <4> QED
        BY <4>2, <4>3
    <3> QED
      BY <2>3, <3>2, <3>3, <3>4, <3>5
  <2>6. CASE Parting(board, o, u, w, p)
    <3>1. PICK d \in Slots : OnlySlot(board, p, d) /\ board.conn[d].seq = o.next /\ board.conn[d].peerSeq = o.next
      BY <2>6 DEF Parting
    <3>2. d = c
      BY <3>1 DEF OnlySlot
    <3>3. Queued(c) = 0
      BY <2>3, <2>4, <2>6 DEF Parting, Resting
    <3> QED
      BY <2>3, <3>1, <3>2, <3>3
  <2> QED
    BY <2>2, <2>5, <2>6 DEF Stage, Away, Knocking, LetIn, LetGo, Parted, NoSlot, OnlySlot
<1> QED
  BY <1>1, <1>2, <1>3, PTL DEF Spec
===============================================================================
