----------------------------- MODULE IpLayers_proof -----------------------------
(***************************************************************************)
(* How far the answers of ICMP and IGMP reach in buffer[], for any set of  *)
(* datagrams and any sizes of the regions: what the checksums compute does *)
(* not matter here, so no definition about them is expanded.               *)
(***************************************************************************)
EXTENDS IpLayers, TLAPS

\* The words of buffer[] never change in number.
Whole(buf) == DOMAIN buf = 0 .. Depth - 1

\* Two states of the buffer agree on a word.
Same(a, b, i) == a[i] = b[i]

\* What the layers are given and return: a record with these fields.
Fields == {"buffer", "request", "received", "ticks", "asked", "built"}
Board(b) == DOMAIN b = Fields /\ Whole(b.buffer)

\* What a layer p has built from b reaches no further than it may.
Within(p, b) ==
    \/ p.built.kind \notin {"reply", "report"}
    \/ /\ p.built.kind = "reply" /\ p.request # NoRequest
       /\ \A i \in 0 .. Depth - 1 : ~Same(p.buffer, b.buffer, i) => i < WordsFor(p.request.len)
    \/ /\ p.built.kind = "report" /\ p.request # NoRequest
       /\ \A i \in ScratchWords .. Depth - 1 : Same(p.buffer, b.buffer, i)

-------------------------------------------------------------------------------
\* Put changes the words it writes and no other.
LEMMA PutFacts ==
    ASSUME NEW buf, NEW at \in Nat, NEW end \in Nat, NEW k \in Nat, NEW ws, DOMAIN ws = 1 .. k,
           end = at + k - 1, Whole(buf)
    PROVE  /\ Whole(Put(buf, at, ws))
           /\ \A i \in 0 .. Depth - 1 : i \notin at .. end => Same(Put(buf, at, ws), buf, i)
  BY LayersAssumption DEF Put, Whole, Same

LEMMA PutHeader ==
    ASSUME NEW buf, NEW ws, DOMAIN ws = 1 .. 5, Whole(buf)
    PROVE  /\ Whole(Put(buf, 0, ws))
           /\ \A i \in 0 .. Depth - 1 : i \notin 0 .. 4 => Same(Put(buf, 0, ws), buf, i)
<1>1. 0 \in Nat /\ 4 \in Nat /\ 5 \in Nat /\ 4 = 0 + 5 - 1
  OBVIOUS
<1> QED
  BY <1>1, PutFacts

\* The header has five words.
LEMMA HeaderLength ==
    ASSUME NEW len, NEW id, NEW ttl, NEW proto, NEW dest
    PROVE  DOMAIN IpHeader(len, id, ttl, proto, dest) = 1 .. 5
<1> DEFINE blank == << <<Join(69, 0), len>>, <<id, Join(64, 0)>>, <<Join(ttl, proto), 0>>, BoardIp, dest >>
<1>1. DOMAIN blank = 1 .. 5
  OBVIOUS
<1>2. IpHeader(len, id, ttl, proto, dest) = [blank EXCEPT ![3][2] = Checksum(Flat(blank))]
  BY DEF IpHeader
<1> HIDE DEF blank
<1> QED
  BY <1>1, <1>2

\* A message of whole words is five words shorter than its datagram.
LEMMA WordsOfMessage ==
    ASSUME NEW total \in Nat, total >= 28
    PROVE  /\ WordsFor(total - 20) \in Nat /\ WordsFor(total - 20) >= 2
           /\ WordsFor(total) = WordsFor(total - 20) + 5
  BY DEF WordsFor

\* A length below 2^16 is itself.
LEMMA SmallModulus ==
    ASSUME NEW k \in 0 .. R - 1
    PROVE  k % R = k
<1>1. R = 65536
  BY DEF R
<1>2. k \in Nat /\ k < 65536
  BY <1>1
<1>3. k % 65536 = k
  BY ONLY <1>2
<1> QED
  BY ONLY <1>1, <1>3

\* The length of the message and of its datagram.
LEMMA LessTwenty ==
    ASSUME NEW t, NEW m, m = 65535, t \in 28 .. m, NEW k, k = t - 20
    PROVE  k \in 0 .. m
  OBVIOUS

LEMMA TwentyBack ==
    ASSUME NEW t, NEW m, m = 65535, t \in 28 .. m, NEW k, k = t - 20
    PROVE  20 + k = t
  OBVIOUS

\* What the layers are given.
LEMMA DatagramFacts ==
    ASSUME NEW f \in Datagrams
    PROVE  /\ f \in Seq(Words) /\ Len(f) >= 7 /\ TotalLen(f) \in 28 .. R - 1
           /\ WordsFor(TotalLen(f)) <= Len(f)
<1>1. /\ f \in Seq(Words) /\ Len(f) >= 7 /\ TotalLen(f) >= 28 /\ WordsFor(TotalLen(f)) <= Len(f)
  BY LayersAssumption
<1>2. f[1] \in Words
  BY <1>1
<1>3. f[1][2] \in Shorts
  BY <1>2 DEF Words
<1>4. R \in Nat /\ Shorts = 0 .. R - 1
  BY DEF R, Shorts
<1>5. TotalLen(f) \in 0 .. R - 1
  BY <1>3, <1>4 DEF TotalLen
<1> QED
  BY <1>1, <1>4, <1>5

LEMMA PutWhole ==
    ASSUME NEW buf, NEW at, NEW ws, Whole(buf)
    PROVE  Whole(Put(buf, at, ws))
  BY DEF Put, Whole

-------------------------------------------------------------------------------
\* A reply writes the words of the message, then those words five further on, then
\* the header: as many words as the request says.
LEMMA PingWithin ==
    ASSUME NEW b, Board(b), b.built = Nobody, NEW f \in Datagrams, NEW wraps
    PROVE  LET p == PingReply(b, f, wraps) IN Board(p) /\ Within(p, b)
<1> DEFINE total == TotalLen(f)
           len   == (total - 20) % R
           n     == WordsFor(len)
           blank == [SubSeq(Body(f), 1, n) EXCEPT ![1] = Cleared(@)]
           check == MessageSum(InCsumBuf(Flat(blank), wraps), len)
           body  == [blank EXCEPT ![1][2] = check]
           first == Put(b.buffer, 0, body)
           shift == [i \in 1 .. n |-> first[i - 1]]
           moved == Shifted(first, n)
           head  == IpHeader((20 + len) % R, 0, 128, 1, Source(f))
           last  == Put(moved, 0, head)
           req   == [addr |-> 0, len |-> (20 + len) % R]
           mine  == [kind |-> "reply", datagram |-> f]
           p     == PingReply(b, f, wraps)
<1>1. CASE Body(f)[1][1] # Join(8, 0)
  <2>1. p = b
    BY <1>1 DEF PingReply
  <2> QED
    BY <2>1 DEF Within, Nobody
<1>2. CASE Body(f)[1][1] = Join(8, 0)
  <2>1. total \in 28 .. R - 1 /\ R = 65536
    BY DatagramFacts DEF R
  <2>2. len = total - 20 /\ (20 + len) % R = total
    <3> HIDE DEF total
    <3>1. total \in 28 .. R - 1 /\ R - 1 = 65535
      BY <2>1
    <3> DEFINE k == total - 20
    <3>2. k = total - 20
      OBVIOUS
    <3>3. len = k % R
      BY DEF len
    <3> HIDE DEF len, k
    <3>4. k \in 0 .. R - 1
      BY ONLY <3>1, <3>2, LessTwenty
    <3>5. total \in 0 .. R - 1
      BY ONLY <3>1
    <3>6. 20 + k = total
      BY ONLY <3>1, <3>2, TwentyBack
    <3>7. k % R = k
      BY ONLY <3>4, SmallModulus
    <3>8. total % R = total
      BY ONLY <3>5, SmallModulus
    <3> QED
      BY ONLY <3>2, <3>3, <3>6, <3>7, <3>8
  <2>3. n \in Nat /\ n >= 2 /\ WordsFor(total) = n + 5 /\ n + 5 <= Len(f)
    <3>1. total \in Nat /\ total >= 28
      <4> HIDE DEF total
      <4> QED
        BY ONLY <2>1
    <3>2. WordsFor(total - 20) \in Nat /\ WordsFor(total - 20) >= 2 /\ WordsFor(total) = WordsFor(total - 20) + 5
      <4> HIDE DEF total
      <4> QED
        BY ONLY <3>1, WordsOfMessage
    <3>3. WordsFor(total) <= Len(f)
      BY DatagramFacts
    <3> HIDE DEF total, len
    <3> QED
      BY <2>2, <3>2, <3>3
  <2>4. p = [b EXCEPT !.buffer = last, !.request = req, !.built = mine]
    BY <1>2 DEF PingReply
  <2> HIDE DEF n, len, total
  <2>5. DOMAIN body = 1 .. n
    <3>1. f \in Seq(Words) /\ Len(f) \in Nat
      BY DatagramFacts
    <3>2. Body(f) \in Seq(Words) /\ Len(Body(f)) = Len(f) - 5
      BY <2>3, <3>1 DEF Body
    <3>3. SubSeq(Body(f), 1, n) \in Seq(Words) /\ Len(SubSeq(Body(f), 1, n)) = n
      BY <2>3, <3>1, <3>2
    <3>4. DOMAIN SubSeq(Body(f), 1, n) = 1 .. n
      BY <3>3
    <3>5. DOMAIN blank = 1 .. n
      BY <3>4
    <3> HIDE DEF blank, check
    <3> QED
      BY <3>5
  <2> HIDE DEF body
  <2>6. Whole(first) /\ \A i \in 0 .. Depth - 1 : i \notin 0 .. n - 1 => Same(first, b.buffer, i)
    <3>1. 0 \in Nat /\ n - 1 \in Nat /\ n - 1 = 0 + n - 1 /\ Whole(b.buffer)
      BY <2>3 DEF Board
    <3> HIDE DEF first
    <3>2. first = Put(b.buffer, 0, body)
      BY DEF first
    <3> QED
      BY <2>3, <2>5, <3>1, <3>2, PutFacts
  <2>7. moved = Put(first, 5, shift) /\ DOMAIN shift = 1 .. n
    BY DEF Shifted
  <2> HIDE DEF first, shift, moved
  <2>8. Whole(moved) /\ \A i \in 0 .. Depth - 1 : i \notin 5 .. n + 4 => Same(moved, first, i)
    <3>1. 5 \in Nat /\ n + 4 \in Nat /\ n + 4 = 5 + n - 1
      BY <2>3
    <3> QED
      BY <2>3, <2>6, <2>7, <3>1, PutFacts
  <2>9. DOMAIN head = 1 .. 5
    BY HeaderLength
  <2> HIDE DEF head
  <2>10. Whole(last) /\ \A i \in 0 .. Depth - 1 : i \notin 0 .. 4 => Same(last, moved, i)
    <3> HIDE DEF last
    <3>1. last = Put(moved, 0, head)
      BY DEF last
    <3> QED
      BY <2>8, <2>9, <3>1, PutHeader
  <2> HIDE DEF last
  <2>11. \A i \in 0 .. Depth - 1 : ~Same(last, b.buffer, i) => i < n + 5
    <3> SUFFICES ASSUME NEW i \in 0 .. Depth - 1, ~(i < n + 5) PROVE Same(last, b.buffer, i)
      OBVIOUS
    <3>1. i \notin 0 .. n - 1 /\ i \notin 5 .. n + 4 /\ i \notin 0 .. 4
      BY <2>3
    <3> QED
      BY <2>6, <2>8, <2>10, <3>1 DEF Same
  <2>12. req.len = total /\ req # NoRequest
    <3>1. req.len = total
      BY <2>2
    <3>2. NoRequest.len = 0
      BY DEF NoRequest
    <3>3. total # 0
      BY ONLY <2>1
    <3> HIDE DEF req
    <3>4. req.len # NoRequest.len
      BY ONLY <3>1, <3>2, <3>3
    <3> QED
      BY ONLY <3>1, <3>4
  <2> HIDE DEF req, mine
  <2>13. DOMAIN p = Fields /\ p.buffer = last /\ p.request = req /\ p.built = mine
    BY <2>4 DEF Board, Fields
  <2>14. mine.kind = "reply"
    BY DEF mine
  <2>15. Board(p)
    BY <2>10, <2>13 DEF Board
  <2>16. Within(p, b)
    BY <2>3, <2>11, <2>12, <2>13, <2>14 DEF Within
  <2> QED
    BY <2>15, <2>16
<1> QED
  BY <1>1, <1>2

\* A report is seven words long.
LEMMA ReportWithin ==
    ASSUME NEW b, Board(b), b.built = Nobody, NEW f \in Datagrams
    PROVE  LET p == Report(b, f) IN Board(p) /\ Within(p, b)
<1> DEFINE version == IF Low(Body(f)[1][1]) = 0 THEN 18 ELSE 22
           blank   == << <<Join(version, 0), 0>>, Group >>
           report  == [blank EXCEPT ![1][2] = MessageSum(Flat(blank), 8)]
           first   == Put(b.buffer, 5, report)
           head    == IpHeader(28, 0, 1, 2, Group)
           last    == Put(first, 0, head)
           req     == [addr |-> 0, len |-> 28]
           mine    == [kind |-> "report", datagram |-> f]
           p       == Report(b, f)
<1>1. CASE High(Body(f)[1][1]) # 17 \/ Body(f)[2] \notin {<<0, 0>>, Group}
  <2>1. p = b
    BY <1>1 DEF Report
  <2> QED
    BY <2>1 DEF Within, Nobody
<1>2. CASE ~(High(Body(f)[1][1]) # 17 \/ Body(f)[2] \notin {<<0, 0>>, Group})
  <2>1. p = [b EXCEPT !.buffer = last, !.request = req, !.built = mine]
    BY <1>2 DEF Report
  <2>2. DOMAIN report = 1 .. 2
    <3>1. DOMAIN blank = 1 .. 2
      OBVIOUS
    <3> HIDE DEF blank
    <3> QED
      BY <3>1
  <2> HIDE DEF report
  <2>3. Whole(first) /\ \A i \in 0 .. Depth - 1 : i \notin 5 .. 6 => Same(first, b.buffer, i)
    <3>1. 5 \in Nat /\ 6 \in Nat /\ 2 \in Nat /\ 6 = 5 + 2 - 1 /\ Whole(b.buffer)
      BY DEF Board
    <3> HIDE DEF first
    <3>2. first = Put(b.buffer, 5, report)
      BY DEF first
    <3> QED
      BY <2>2, <3>1, <3>2, PutFacts
  <2> HIDE DEF first
  <2>4. DOMAIN head = 1 .. 5
    BY HeaderLength
  <2> HIDE DEF head
  <2>5. Whole(last) /\ \A i \in 0 .. Depth - 1 : i \notin 0 .. 4 => Same(last, first, i)
    <3> HIDE DEF last
    <3>1. last = Put(first, 0, head)
      BY DEF last
    <3> QED
      BY <2>3, <2>4, <3>1, PutHeader
  <2> HIDE DEF last
  <2>6. \A i \in ScratchWords .. Depth - 1 : Same(last, b.buffer, i)
    BY <2>3, <2>5, LayersAssumption DEF Same
  <2>7. req # NoRequest
    BY DEF NoRequest
  <2> HIDE DEF req, mine
  <2>8. DOMAIN p = Fields /\ p.buffer = last /\ p.request = req /\ p.built = mine
    BY <2>1 DEF Board, Fields
  <2>9. mine.kind = "report"
    BY DEF mine
  <2>10. Board(p)
    BY <2>5, <2>8 DEF Board
  <2>11. Within(p, b)
    BY <2>6, <2>7, <2>8, <2>9 DEF Within
  <2> QED
    BY <2>10, <2>11
<1> QED
  BY <1>1, <1>2

\* The payload of a request is kept; nothing is requested for it.
LEMMA CaptureWithin ==
    ASSUME NEW b, Board(b), b.built = Nobody, NEW f \in Datagrams
    PROVE  LET p == Capture(b, f) IN Board(p) /\ Within(p, b)
<1> DEFINE words == SubSeq(f, 8, 7 + WordsFor((Body(f)[2][1] - 8) % R))
           last  == Put(b.buffer, UdpOffset + 7, words)
           from  == [ip |-> Source(f), port |-> Body(f)[1][1], len |-> Body(f)[2][1], total |-> TotalLen(f)]
           it    == [datagram |-> f, spoilt |-> FALSE]
           p     == Capture(b, f)
<1>1. p = b \/ p = [b EXCEPT !.buffer = last, !.received = from, !.asked = it]
  BY DEF Capture
<1>2. Whole(last)
  BY PutWhole DEF Board
<1> HIDE DEF last, from, it, p
<1>3. p.built = Nobody /\ Board(p)
  BY <1>1, <1>2 DEF Board, Fields
<1>4. Nobody.kind \notin {"reply", "report"}
  BY DEF Nobody
<1>5. Within(p, b)
  BY <1>3, <1>4 DEF Within
<1> QED
  BY <1>3, <1>5 DEF p

\* Whatever layer a datagram is for.
LEMMA ProcessWithin ==
    ASSUME NEW b, Board(b), b.built = Nobody, NEW f \in Datagrams, NEW wraps
    PROVE  Board(Process(b, f, wraps)) /\ Within(Process(b, f, wraps), b)
<1>1. \/ Process(b, f, wraps) = b
      \/ Process(b, f, wraps) = PingReply(b, f, wraps)
      \/ Process(b, f, wraps) = Report(b, f)
      \/ Process(b, f, wraps) = Capture(b, f)
  <2>1. CASE ~Accepts(f)
    BY <2>1 DEF Process
  <2>2. CASE Accepts(f) /\ Proto(f) = 1
    BY <2>2 DEF Process
  <2>3. CASE Accepts(f) /\ Proto(f) = 2
    BY <2>3 DEF Process
  <2>4. CASE Accepts(f) /\ Proto(f) = 17
    BY <2>4 DEF Process
  <2>5. CASE Accepts(f) /\ Proto(f) \notin {1, 2, 17}
    BY <2>5 DEF Process
  <2> QED
    BY <2>1, <2>2, <2>3, <2>4, <2>5
<1>2. Board(b) /\ Within(b, b)
  BY DEF Within, Nobody
<1> QED
  BY <1>1, <1>2, PingWithin, ReportWithin, CaptureWithin

\* The UDP sender builds an echo or a HELLO, or nothing.
LEMMA UdpSendFacts ==
    ASSUME NEW b, Board(b), NEW tick, NEW asks
    PROVE  LET p == UdpSend(b, tick, asks)
           IN  Board(p) /\ (p.built.kind \in {"echo", "hello"} \/ p.built = b.built)
<1> DEFINE echo == b.received # NoClient
           c    == IF echo THEN b.received ELSE [ip |-> HelloIp, port |-> UdpPort, len |-> 28, total |-> 48]
           head == IpHeader(c.total, b.ticks, 128, 17, c.ip) \o << <<UdpPort, c.port>>, <<c.len, 0>> >>
           first == IF asks /\ ~echo THEN Put(b.buffer, 0, ArpRequest) ELSE b.buffer
           last == Put(first, UdpOffset, head \o (IF echo THEN <<>> ELSE HelloText))
           req  == [addr |-> UdpOffset, len |-> 20 + c.len]
           mine == IF echo THEN [kind |-> "echo", datagram |-> b.asked.datagram]
                   ELSE [kind |-> "hello", datagram |-> <<>>]
           p    == UdpSend(b, tick, asks)
<1>1. p = b \/ p = [b EXCEPT !.buffer = last, !.request = req, !.built = mine]
  BY DEF UdpSend
<1>2. Whole(last)
  <2>1. Whole(b.buffer)
    BY DEF Board
  <2>2. Whole(first)
    <3> HIDE DEF echo
    <3> QED
      BY <2>1, PutWhole
  <2> HIDE DEF head, echo, first
  <2> QED
    BY <2>2, PutWhole
<1>3. mine.kind \in {"echo", "hello"}
  <2> HIDE DEF echo
  <2> QED
    OBVIOUS
<1> HIDE DEF last, req, mine, p
<1>4. Board(p) /\ (p.built = mine \/ p.built = b.built)
  BY <1>1, <1>2 DEF Board, Fields
<1> QED
  BY <1>3, <1>4 DEF p

-------------------------------------------------------------------------------
\* A step that builds an answer of ICMP or IGMP.
Answers == built'.kind \in {"reply", "report"}

\* What a step may change behind the scratch region.
Kept ==
    Answers => \A i \in ScratchWords .. Depth - 1 :
                 buffer'[i] # buffer[i] => built'.kind = "reply" /\ i < WordsFor(request'.len)

\* A pass keeps the shape of buffer[] and the regions.
LEMMA PassKeeps ==
    ASSUME NEW f \in Datagrams \cup {<<>>}, NEW idle \in BOOLEAN, NEW tick \in BOOLEAN,
           NEW asks \in BOOLEAN, NEW wraps \in BOOLEAN, Whole(buffer), Pass(f, idle, tick, asks, wraps)
    PROVE  Whole(buffer') /\ Kept
<1> DEFINE now == [buffer |-> buffer, request |-> IF idle THEN NoRequest ELSE request,
                   received |-> received, ticks |-> ticks, asked |-> asked, built |-> Nobody]
           heard == IF f = <<>> THEN now ELSE Process(now, f, wraps)
           turn  == idle /\ request = NoRequest /\ heard.request = NoRequest
           ticked == [heard EXCEPT !.ticks = IF tick THEN @ + 1 ELSE @]
           sent  == UdpSend(ticked, tick, asks)
           done  == [sent EXCEPT !.received = NoClient]
           b == IF turn THEN done ELSE heard
<1>1. buffer' = b.buffer /\ request' = b.request /\ built' = b.built
  BY DEF Pass
<1>2. Board(now) /\ now.built = Nobody /\ now.buffer = buffer
  BY DEF Board, Fields
<1> HIDE DEF now
<1>3. Board(heard) /\ Within(heard, now)
  <2>1. CASE f = <<>>
    <3>1. heard = now
      BY <2>1
    <3>2. Nobody.kind \notin {"reply", "report"}
      BY DEF Nobody
    <3> HIDE DEF heard
    <3> QED
      BY <1>2, <3>1, <3>2 DEF Within
  <2>2. CASE f # <<>>
    <3>1. heard = Process(now, f, wraps) /\ f \in Datagrams
      BY <2>2
    <3> HIDE DEF heard
    <3> QED
      BY <1>2, <3>1, ProcessWithin
  <2> QED
    BY <2>1, <2>2
<1> HIDE DEF heard
<1>4. CASE turn
  <2>1. heard.built.kind \notin {"reply", "report"}
    BY <1>3, <1>4 DEF Within
  <2>2. Board(ticked) /\ ticked.built = heard.built
    BY <1>3 DEF Board, Fields
  <2> HIDE DEF ticked
  <2>3. Board(sent) /\ (sent.built.kind \in {"echo", "hello"} \/ sent.built = heard.built)
    BY <2>2, UdpSendFacts
  <2> HIDE DEF sent
  <2>4. done.buffer = sent.buffer /\ done.built = sent.built
    BY <2>3 DEF Board, Fields
  <2>5. buffer' = done.buffer /\ built' = done.built
    BY <1>1, <1>4
  <2> HIDE DEF done, b, turn
  <2>6. Whole(buffer')
    BY <2>3, <2>4, <2>5 DEF Board
  <2>7. built'.kind \notin {"reply", "report"}
    BY <2>1, <2>3, <2>4, <2>5
  <2> QED
    BY <2>6, <2>7 DEF Kept, Answers
<1>5. CASE ~turn
  <2>1. buffer' = heard.buffer /\ request' = heard.request /\ built' = heard.built
    BY <1>1, <1>5
  <2> HIDE DEF b, turn
  <2>2. Whole(buffer')
    BY <1>3, <2>1 DEF Board
  <2>3. ASSUME Answers, NEW i \in ScratchWords .. Depth - 1, buffer'[i] # buffer[i]
        PROVE  built'.kind = "reply" /\ i < WordsFor(request'.len)
    <3>1. heard.built.kind \in {"reply", "report"} /\ ~Same(heard.buffer, now.buffer, i)
      BY <1>2, <2>1, <2>3 DEF Answers, Same
    <3>2. i \in 0 .. Depth - 1
      BY LayersAssumption
    <3> QED
      BY <1>3, <2>1, <3>1, <3>2 DEF Within
  <2> QED
    BY <2>2, <2>3 DEF Kept
<1> QED
  BY <1>4, <1>5

\* The regions of eth_types.h:145-155, for every size of the regions, every set of
\* datagrams and every order of passes: a reply or report leaves the words behind the
\* scratch region alone, but for a reply longer than the region, and that one writes
\* no word behind its own end.
THEOREM RegionsAreKept == Spec => RegionsKept
<1>1. Init => Whole(buffer)
  <2> SUFFICES ASSUME Init PROVE Whole(buffer)
    OBVIOUS
  <2> DEFINE zero == [i \in 0 .. Depth - 1 |-> <<0, 0>>]
  <2>1. Whole(zero)
    BY DEF Whole
  <2> HIDE DEF zero
  <2>2. buffer = Put(zero, UdpOffset + 7, HelloText)
    BY DEF Init, zero
  <2> QED
    BY <2>1, <2>2, PutWhole
<1>2. Whole(buffer) /\ [Next]_vars => Whole(buffer)' /\ [Kept]_vars
  <2> SUFFICES ASSUME Whole(buffer), [Next]_vars PROVE Whole(buffer)' /\ [Kept]_vars
    OBVIOUS
  <2>1. CASE Next
    <3>1. PICK f \in Datagrams \cup {<<>>}, idle \in BOOLEAN, tick \in BOOLEAN,
              asks \in BOOLEAN, wraps \in BOOLEAN : Pass(f, idle, tick, asks, wraps)
      BY <2>1 DEF Next
    <3>2. Whole(buffer') /\ Kept
      BY <3>1, PassKeeps
    <3>3. Whole(buffer)'
      BY <3>2 DEF Whole
    <3> QED
      BY <3>2, <3>3
  <2>2. CASE UNCHANGED vars
    BY <2>2 DEF vars, Whole
  <2> QED
    BY <2>1, <2>2
<1>3. [Kept]_vars <=> [ built'.kind \in {"reply", "report"} =>
          \A i \in ScratchWords .. Depth - 1 :
            buffer'[i] # buffer[i] => built'.kind = "reply" /\ i < WordsFor(request'.len) ]_vars
  BY DEF Kept, Answers
<1> QED
  BY <1>1, <1>2, <1>3, PTL DEF Spec, RegionsKept
===============================================================================
