--------------------------- MODULE IpAnswers_proof ----------------------------
(***************************************************************************)
(* What the answers of the IP layers contain, for any set of datagrams:    *)
(* the message or payload that is answered, and checksums that are right.  *)
(*                                                                         *)
(* First each layer is shown to build, word for word, what its predicate   *)
(* below says (Replies, Reports, Echoes, Greets), through buffer[]; these  *)
(* make the inductive invariant, and the two theorems on contents follow.  *)
(* The rest is about words alone: how sums of shorts, their carries and    *)
(* the bytes of the words are related, and so which words verify.          *)
(***************************************************************************)
EXTENDS IpLayers_proof, SequenceTheorems, WellFoundedInduction


-------------------------------------------------------------------------------
(***************************************************************************)
(* What is sent, word for word.                                            *)
(***************************************************************************)
\* The words a request names.
SentOf(buf, req) == [i \in 1 .. WordsFor(req.len) |-> buf[req.addr + i - 1]]

\* Words with a header in front of a message of n words.
Carries(ws, head, message, n) ==
    /\ DOMAIN ws = 1 .. n + 5
    /\ \A i \in 1 .. 5 : ws[i] = head[i]
    /\ \A i \in 1 .. n : ws[i + 5] = message[i]

\* The message of a reply, its checksum blank and filled in.
Blank(f) == [SubSeq(Body(f), 1, WordsFor(TotalLen(f) - 20)) EXCEPT ![1] = Cleared(@)]
Message(f, wraps) ==
    [Blank(f) EXCEPT ![1][2] = MessageSum(InCsumBuf(Flat(Blank(f)), wraps), TotalLen(f) - 20)]

Replies(buf, req, f, wraps) ==
    /\ f \in Datagrams /\ Accepts(f) /\ (wraps => ~Fits(f))
    /\ req = [addr |-> 0, len |-> TotalLen(f)]
    /\ Carries(SentOf(buf, req), IpHeader(TotalLen(f), 0, 128, 1, Source(f)), Message(f, wraps),
               WordsFor(TotalLen(f) - 20))

\* The message of a report, likewise.
BlankReport(f) == << <<Join(IF Low(Body(f)[1][1]) = 0 THEN 18 ELSE 22, 0), 0>>, Group >>
ReportMessage(f) == [BlankReport(f) EXCEPT ![1][2] = MessageSum(Flat(BlankReport(f)), 8)]

Reports(buf, req, f) ==
    /\ f \in Datagrams /\ Accepts(f)
    /\ req = [addr |-> 0, len |-> 28]
    /\ Carries(SentOf(buf, req), IpHeader(28, 0, 1, 2, Group), ReportMessage(f), 2)

\* An echo; its payload is that of the request unless it was spoilt.
PayloadOf(message, f) == \A i \in 3 .. WordsFor(TotalLen(f)) - 5 : message[i] = f[i + 5]

Echoes(buf, req, f, id, spoilt) ==
    /\ f \in Datagrams /\ Accepts(f) /\ Proto(f) = 17 /\ id \in Nat
    /\ req = [addr |-> UdpOffset, len |-> TotalLen(f)]
    /\ \E message :
         /\ Carries(SentOf(buf, req), IpHeader(TotalLen(f), id, 128, 17, Source(f)), message,
                    WordsFor(TotalLen(f)) - 5)
         /\ message[1] = <<UdpPort, Body(f)[1][1]>> /\ message[2] = <<Body(f)[2][1], 0>>
         /\ spoilt \/ PayloadOf(message, f)

\* A HELLO.
Greets(buf, req, id) ==
    /\ id \in Nat /\ req = [addr |-> UdpOffset, len |-> 48]
    /\ Carries(SentOf(buf, req), IpHeader(48, id, 128, 17, HelloIp),
               << <<UdpPort, UdpPort>>, <<28, 0>> >> \o HelloText, 7)

\* The request that waits for its echo, and its payload in the UDP region.
PayloadIn(buf, f) == \A i \in 8 .. WordsFor(TotalLen(f)) : buf[UdpOffset + i - 1] = f[i]

Waiting(from, a, buf) ==
    from # NoClient =>
        /\ a.datagram \in Datagrams /\ Accepts(a.datagram) /\ Proto(a.datagram) = 17
        /\ from = [ip |-> Source(a.datagram), port |-> Body(a.datagram)[1][1],
                   len |-> Body(a.datagram)[2][1], total |-> TotalLen(a.datagram)]
        /\ a.spoilt \/ PayloadIn(buf, a.datagram)

-------------------------------------------------------------------------------
\* Put writes what it is given.
LEMMA PutAt ==
    ASSUME NEW buf, NEW at \in Nat, NEW k \in Nat, NEW ws, DOMAIN ws = 1 .. k, Whole(buf),
           at + k <= Depth
    PROVE  \A j \in 1 .. k : Put(buf, at, ws)[at + j - 1] = ws[j]
<1> TAKE j \in 1 .. k
<1>0. Depth \in Int
  BY LayersAssumption
<1>1. at + j - 1 \in 0 .. Depth - 1 /\ at + j - 1 - at + 1 = j
  BY <1>0
<1>2. DOMAIN buf = 0 .. Depth - 1
  BY DEF Whole
<1> QED
  BY <1>1, <1>2 DEF Put

\* Both halves of a word.
LEMMA WordType ==
    ASSUME NEW w \in Words
    PROVE  /\ w[1] \in Nat /\ w[1] <= 65535 /\ w[2] \in Nat /\ w[2] <= 65535
           /\ w = <<w[1], w[2]>>
<1>1. w[1] \in Shorts /\ w[2] \in Shorts /\ w = <<w[1], w[2]>>
  BY DEF Words
<1> DEFINE m == R - 1
<1>2. Shorts = 0 .. m
  BY DEF Shorts
<1>3. m = 65535
  BY DEF R
<1> HIDE DEF m
<1>4. ASSUME NEW x \in 0 .. m PROVE x \in Nat /\ x <= m
  OBVIOUS
<1>5. /\ w[1] \in Nat /\ w[1] <= m /\ w[2] \in Nat /\ w[2] <= m
  BY ONLY <1>1, <1>2, <1>4
<1> QED
  BY ONLY <1>1, <1>3, <1>5

\* The numbers of a datagram.
LEMMA TotalRange ==
    ASSUME NEW f \in Datagrams
    PROVE  TotalLen(f) \in Nat /\ 28 <= TotalLen(f) /\ TotalLen(f) <= 65535
<1>1. TotalLen(f) >= 28 /\ f \in Seq(Words) /\ Len(f) >= 7
  BY LayersAssumption
<1>2. f[1] \in Words
  BY <1>1
<1> QED
  BY <1>1, <1>2, WordType DEF TotalLen

LEMMA Sizes ==
    ASSUME NEW f \in Datagrams
    PROVE  /\ WordsFor(TotalLen(f)) \in Nat /\ WordsFor(TotalLen(f)) <= Len(f)
           /\ Len(f) \in Nat /\ Len(f) >= 7 /\ Len(f) <= Depth /\ Depth \in Nat
<1>1. /\ f \in Seq(Words) /\ Len(f) >= 7 /\ WordsFor(TotalLen(f)) <= Len(f) /\ Len(f) <= Depth
      /\ Depth \in Nat
  BY LayersAssumption
<1>2. Len(f) \in Nat
  <2>1. f \in Seq(Words)
    BY <1>1
  <2> QED
    BY ONLY <2>1
<1> DEFINE t == TotalLen(f)
<1>3. t \in Nat
  BY TotalRange
<1> HIDE DEF t
<1>4. WordsFor(t) \in Nat
  BY ONLY <1>3 DEF WordsFor
<1> QED
  BY <1>1, <1>2, <1>4 DEF t

\* Numbers that are shorts already.
LEMMA SmallRest ==
    ASSUME NEW x \in Nat, x <= 65535
    PROVE  x % R = x
<1>1. x % 65536 = x
  OBVIOUS
<1>2. R = 65536
  BY DEF R
<1> QED
  BY <1>1, <1>2

\* The message of a ping is that many words.
LEMMA BlankFacts ==
    ASSUME NEW f \in Datagrams
    PROVE  LET n == WordsFor(TotalLen(f) - 20)
           IN  /\ n \in Nat /\ n >= 2 /\ WordsFor(TotalLen(f)) = n + 5 /\ n + 5 <= Len(f) /\ n + 5 <= Depth
               /\ DOMAIN Blank(f) = 1 .. n
               /\ Blank(f)[1] = Cleared(f[6])
               /\ \A i \in 2 .. n : Blank(f)[i] = f[i + 5]
<1> DEFINE total == TotalLen(f)
           n == WordsFor(total - 20)
           body == SubSeq(Body(f), 1, n)
<1>1. total \in Nat /\ 28 <= total /\ WordsFor(total) <= Len(f) /\ f \in Seq(Words) /\ Len(f) >= 7
  BY TotalRange, DatagramFacts
<1>2. Len(f) <= Depth /\ Depth \in Nat /\ Len(f) \in Nat
  BY Sizes
<1>3. n \in Nat /\ n >= 2 /\ WordsFor(total) = n + 5
  <2> HIDE DEF total
  <2> QED
    BY ONLY <1>1, WordsOfMessage DEF n
<1>4. Blank(f) = [body EXCEPT ![1] = Cleared(@)]
  BY DEF Blank
<1> HIDE DEF total
<1>5. n + 5 <= Len(f) /\ n + 5 <= Depth
  BY ONLY <1>1, <1>2, <1>3
<1> HIDE DEF n
<1>6. Body(f) \in Seq(Words) /\ Len(Body(f)) = Len(f) - 5 /\ \A i \in 1 .. Len(f) - 5 : Body(f)[i] = f[i + 5]
  <2>1. f \in Seq(Words) /\ Len(f) \in Nat /\ Len(f) >= 7
    BY <1>1, <1>2
  <2> QED
    BY ONLY <2>1 DEF Body
<1>7. DOMAIN body = 1 .. n /\ \A i \in 1 .. n : body[i] = f[i + 5]
  <2>1. body \in Seq(Words) /\ Len(body) = n
    BY <1>2, <1>3, <1>5, <1>6
  <2>2. \A i \in 1 .. n : body[i] = Body(f)[i]
    BY <1>2, <1>3, <1>5, <1>6
  <2>3. \A i \in 1 .. n : i \in 1 .. Len(f) - 5
    BY <1>2, <1>3, <1>5
  <2> HIDE DEF body
  <2> QED
    BY <1>6, <2>1, <2>2, <2>3
<1> HIDE DEF body
<1>8. DOMAIN Blank(f) = 1 .. n /\ Blank(f)[1] = Cleared(f[6]) /\ \A i \in 2 .. n : Blank(f)[i] = f[i + 5]
  <2>1. 1 \in 1 .. n /\ \A i \in 2 .. n : i \in 1 .. n /\ i # 1
    BY <1>3
  <2>2. body[1] = f[6]
    BY <1>7, <2>1
  <2> QED
    BY <1>4, <1>7, <2>1, <2>2
<1> QED
  BY <1>3, <1>5, <1>8 DEF n, total

\* The words of a header, and what its checksum is taken of.
HeaderBlank(len, id, ttl, proto, dest) ==
    << <<Join(69, 0), len>>, <<id, Join(64, 0)>>, <<Join(ttl, proto), 0>>, BoardIp, dest >>

LEMMA HeaderFacts ==
    ASSUME NEW len, NEW id, NEW ttl, NEW proto, NEW dest,
           NEW head, head = IpHeader(len, id, ttl, proto, dest)
    PROVE  /\ DOMAIN head = 1 .. 5
           /\ head[1] = <<Join(69, 0), len>> /\ head[2] = <<id, Join(64, 0)>>
           /\ head[3] = <<Join(ttl, proto), Checksum(Flat(HeaderBlank(len, id, ttl, proto, dest)))>>
           /\ head[4] = BoardIp /\ head[5] = dest
<1> DEFINE blank == HeaderBlank(len, id, ttl, proto, dest)
           check == Checksum(Flat(blank))
<1>1. head = [blank EXCEPT ![3][2] = check]
  BY DEF IpHeader, HeaderBlank
<1>2. /\ DOMAIN blank = 1 .. 5 /\ blank[1] = <<Join(69, 0), len>> /\ blank[2] = <<id, Join(64, 0)>>
      /\ blank[3] = <<Join(ttl, proto), 0>> /\ blank[4] = BoardIp /\ blank[5] = dest
  BY DEF HeaderBlank
<1> HIDE DEF blank, check
<1>3. head[3] = [blank[3] EXCEPT ![2] = check] /\ DOMAIN head = 1 .. 5
  BY <1>1, <1>2
<1>4. head[3] = <<Join(ttl, proto), check>>
  BY <1>2, <1>3
<1>5. head[1] = blank[1] /\ head[2] = blank[2] /\ head[4] = blank[4] /\ head[5] = blank[5]
  BY <1>1, <1>2
<1> QED
  BY <1>2, <1>3, <1>4, <1>5 DEF check, blank

\* Words that stand in the buffer from where the request says.
LEMMA CarriesWhen ==
    ASSUME NEW buf, NEW req, NEW n \in Nat, NEW head, NEW message, NEW at \in Nat, req.addr = at,
           WordsFor(req.len) = n + 5,
           \A i \in 1 .. 5 : buf[at + i - 1] = head[i],
           \A i \in 1 .. n : buf[at + 5 + i - 1] = message[i]
    PROVE  Carries(SentOf(buf, req), head, message, n)
<1> DEFINE ws == SentOf(buf, req)
<1>1. ws = [i \in 1 .. n + 5 |-> buf[at + i - 1]]
  BY DEF SentOf
<1> HIDE DEF ws
<1>2. DOMAIN ws = 1 .. n + 5
  BY <1>1
<1>3. ASSUME NEW i \in 1 .. 5 PROVE ws[i] = head[i]
  <2>1. i \in 1 .. n + 5
    OBVIOUS
  <2> QED
    BY <1>1, <2>1
<1>4. ASSUME NEW i \in 1 .. n PROVE ws[i + 5] = message[i]
  <2>1. i + 5 \in 1 .. n + 5 /\ at + (i + 5) - 1 = at + 5 + i - 1
    OBVIOUS
  <2> QED
    BY <1>1, <2>1
<1> QED
  BY <1>2, <1>3, <1>4 DEF Carries, ws

\* A ping is answered by its message behind a header.
LEMMA PingBuilds ==
    ASSUME NEW b, Board(b), NEW f \in Datagrams, Accepts(f),
           NEW wraps \in BOOLEAN, wraps => ~Fits(f)
    PROVE  LET p == PingReply(b, f, wraps)
           IN  \/ p = b
               \/ /\ p.built = [kind |-> "reply", datagram |-> f]
                  /\ p.received = b.received /\ p.ticks = b.ticks /\ p.asked = b.asked
                  /\ Replies(p.buffer, p.request, f, wraps)
<1> DEFINE total == TotalLen(f)
           len   == (total - 20) % R
           n     == WordsFor(total - 20)
           blank == [SubSeq(Body(f), 1, WordsFor(len)) EXCEPT ![1] = Cleared(@)]
           check == MessageSum(InCsumBuf(Flat(blank), wraps), len)
           body  == [blank EXCEPT ![1][2] = check]
           first == Put(b.buffer, 0, body)
           shift == [i \in 1 .. WordsFor(len) |-> first[i - 1]]
           moved == Shifted(first, WordsFor(len))
           head  == IpHeader((20 + len) % R, 0, 128, 1, Source(f))
           last  == Put(moved, 0, head)
           req   == [addr |-> 0, len |-> (20 + len) % R]
           mine  == [kind |-> "reply", datagram |-> f]
           p     == PingReply(b, f, wraps)
<1>1. CASE Body(f)[1][1] # Join(8, 0)
  BY <1>1 DEF PingReply
<1>2. CASE Body(f)[1][1] = Join(8, 0)
  <2>1. total \in Nat /\ 28 <= total /\ total <= 65535
    BY TotalRange
  <2>2. len = total - 20 /\ (20 + len) % R = total
    <3> HIDE DEF total
    <3> DEFINE k == total - 20
    <3>1. len = k % R
      BY DEF len
    <3>2. k \in Nat /\ k <= 65535 /\ 20 + k = total
      BY ONLY <2>1
    <3> HIDE DEF len, k
    <3>3. k % R = k
      BY <3>2, SmallRest
    <3>4. total % R = total
      BY <2>1, SmallRest
    <3>5. len = k /\ (20 + len) % R = total
      BY <3>1, <3>2, <3>3, <3>4
    <3> QED
      BY <3>5 DEF k
  <2>3. p = [b EXCEPT !.buffer = last, !.request = req, !.built = mine]
    BY <1>2 DEF PingReply
  <2>4. blank = Blank(f) /\ body = Message(f, wraps)
    <3>1. blank = Blank(f)
      BY <2>2 DEF Blank
    <3> HIDE DEF blank
    <3> QED
      BY <2>2, <3>1 DEF Message
  <2>5. req = [addr |-> 0, len |-> total] /\ head = IpHeader(total, 0, 128, 1, Source(f))
    BY <2>2
  <2>6. shift = [i \in 1 .. n |-> first[i - 1]] /\ moved = Put(first, 5, shift)
    <3>1. WordsFor(len) = n
      BY <2>2
    <3> HIDE DEF n, first, len
    <3> QED
      BY <3>1 DEF Shifted
  <2>7. /\ n \in Nat /\ n >= 2 /\ WordsFor(total) = n + 5 /\ n + 5 <= Depth
        /\ DOMAIN Blank(f) = 1 .. n
    BY BlankFacts
  <2>8. DOMAIN body = 1 .. n
    BY <2>4, <2>7 DEF Message
  <2> HIDE DEF total, len, n, blank, check, body, head
  <2>9. Whole(first) /\ \A j \in 1 .. n : first[j - 1] = body[j]
    <3>1. Whole(b.buffer) /\ 0 + n <= Depth /\ \A j \in 1 .. n : 0 + j - 1 = j - 1
      BY <2>7, LayersAssumption DEF Board
    <3>2. \A j \in 1 .. n : Put(b.buffer, 0, body)[0 + j - 1] = body[j]
      BY <2>7, <2>8, <3>1, PutAt
    <3> QED
      BY <3>1, <3>2, PutWhole
  <2> HIDE DEF first
  <2>10. DOMAIN shift = 1 .. n /\ \A j \in 1 .. n : shift[j] = body[j]
    BY <2>6, <2>9
  <2> HIDE DEF shift, moved
  <2>11. Whole(moved) /\ \A j \in 1 .. n : moved[5 + j - 1] = body[j]
    <3>1. 5 + n <= Depth
      BY <2>7, LayersAssumption
    <3>2. \A j \in 1 .. n : Put(first, 5, shift)[5 + j - 1] = shift[j]
      BY <2>7, <2>9, <2>10, <3>1, PutAt
    <3>3. Whole(moved)
      BY <2>6, <2>9, PutWhole
    <3> QED
      BY <2>6, <2>10, <3>2, <3>3
  <2>12. DOMAIN head = 1 .. 5
    BY <2>5, HeaderLength
  <2>13. /\ Whole(last)
         /\ \A j \in 1 .. 5 : last[0 + j - 1] = head[j]
         /\ \A j \in 1 .. n : last[0 + 5 + j - 1] = body[j]
    <3>1. 0 + 5 <= Depth /\ Depth \in Nat
      BY LayersAssumption
    <3> DEFINE put == Put(moved, 0, head)
    <3>2. last = put
      OBVIOUS
    <3>3. \A j \in 1 .. 5 : put[0 + j - 1] = head[j]
      <4> DEFINE at == 0  k == 5
      <4>1. at \in Nat /\ k \in Nat /\ DOMAIN head = 1 .. k /\ at + k <= Depth /\ Whole(moved)
        BY <2>11, <2>12, <3>1
      <4> HIDE DEF at, k, moved
      <4>2. \A j \in 1 .. k : Put(moved, at, head)[at + j - 1] = head[j]
        BY ONLY <4>1, PutAt
      <4> QED
        BY <4>2 DEF at, k
    <3>4. Whole(put) /\ \A i \in 0 .. Depth - 1 : i \notin 0 .. 4 => Same(put, moved, i)
      BY <2>11, <2>12, PutHeader
    <3> HIDE DEF last, put
    <3>5. \A j \in 1 .. n : put[0 + 5 + j - 1] = body[j]
      <4> TAKE j \in 1 .. n
      <4>1. 5 + j - 1 \in 0 .. Depth - 1 /\ 5 + j - 1 \notin 0 .. 4 /\ 0 + 5 + j - 1 = 5 + j - 1
        BY <2>7, <3>1
      <4>2. put[5 + j - 1] = moved[5 + j - 1]
        BY <3>4, <4>1 DEF Same
      <4>3. moved[5 + j - 1] = body[j]
        BY <2>11
      <4> QED
        BY <4>1, <4>2, <4>3
    <3> QED
      BY <3>2, <3>3, <3>4, <3>5
  <2> HIDE DEF last
  <2>14. req.addr = 0 /\ WordsFor(req.len) = n + 5
    BY <2>5, <2>7
  <2> HIDE DEF req
  <2>15. Carries(SentOf(last, req), head, body, n)
    BY <2>7, <2>13, <2>14, CarriesWhen
  <2>16. Replies(last, req, f, wraps)
    BY <2>4, <2>5, <2>15 DEF Replies, total, n
  <2> HIDE DEF mine
  <2>17. p.built = mine /\ p.received = b.received /\ p.ticks = b.ticks /\ p.asked = b.asked
         /\ p.buffer = last /\ p.request = req
    BY <2>3 DEF Board, Fields
  <2> QED
    BY <2>16, <2>17 DEF mine
<1> QED
  BY <1>1, <1>2

\* A function on an initial part of the naturals is a sequence.
LEMMA FunctionSeq ==
    ASSUME NEW S, NEW n \in Nat, NEW s \in [1 .. n -> S]
    PROVE  s \in Seq(S) /\ Len(s) = n /\ DOMAIN s = 1 .. n
<1>1. s \in Seq(S)
  BY SeqDef
<1> QED
  BY <1>1, LenProperties

\* A header is a sequence of five words.
LEMMA HeaderSeq ==
    ASSUME NEW len, NEW id, NEW ttl, NEW proto, NEW dest, NEW S,
           \A i \in 1 .. 5 : IpHeader(len, id, ttl, proto, dest)[i] \in S
    PROVE  LET head == IpHeader(len, id, ttl, proto, dest) IN head \in Seq(S) /\ Len(head) = 5
<1> DEFINE blank == << <<Join(69, 0), len>>, <<id, Join(64, 0)>>, <<Join(ttl, proto), 0>>, BoardIp, dest >>
           third == [blank[3] EXCEPT ![2] = Checksum(Flat(blank))]
           head == IpHeader(len, id, ttl, proto, dest)
<1>1. head = [blank EXCEPT ![3] = third]
  BY DEF IpHeader
<1>2. blank \in Seq({blank[i] : i \in 1 .. 5}) /\ Len(blank) = 5 /\ DOMAIN blank = 1 .. 5
  OBVIOUS
<1> HIDE DEF third, blank, head
<1>3. head = [i \in 1 .. 5 |-> head[i]]
  BY <1>1, <1>2
<1>4. \A i \in 1 .. 5 : head[i] \in S
  BY DEF head
<1>5. head \in [1 .. 5 -> S]
  BY <1>3, <1>4
<1>6. head \in Seq(S) /\ Len(head) = 5
  BY <1>5, FunctionSeq
<1> QED
  BY <1>6 DEF head

\* The two words behind the header.
LEMMA BodyFacts ==
    ASSUME NEW f \in Datagrams
    PROVE  Body(f)[1] = f[6] /\ Body(f)[2] = f[7] /\ Len(f) \in Nat /\ f[6] \in Words /\ f[7] \in Words
<1>1. f \in Seq(Words) /\ Len(f) \in Nat /\ Len(f) >= 7
  BY DatagramFacts
<1>2. \A i \in 1 .. Len(f) - 5 : SubSeq(f, 6, Len(f))[i] = f[i + 5]
  BY <1>1
<1>3. 1 \in 1 .. Len(f) - 5 /\ 2 \in 1 .. Len(f) - 5 /\ 6 \in 1 .. Len(f) /\ 7 \in 1 .. Len(f)
  BY <1>1
<1> QED
  BY <1>1, <1>2, <1>3 DEF Body

\* A report is two words behind a header.
LEMMA ReportBuilds ==
    ASSUME NEW b, Board(b), NEW f \in Datagrams, Accepts(f)
    PROVE  LET p == Report(b, f)
           IN  \/ p = b
               \/ /\ p.built = [kind |-> "report", datagram |-> f]
                  /\ p.received = b.received /\ p.ticks = b.ticks /\ p.asked = b.asked
                  /\ Reports(p.buffer, p.request, f)
<1> DEFINE report  == ReportMessage(f)
           first   == Put(b.buffer, 5, report)
           head    == IpHeader(28, 0, 1, 2, Group)
           last    == Put(first, 0, head)
           req     == [addr |-> 0, len |-> 28]
           mine    == [kind |-> "report", datagram |-> f]
           p       == Report(b, f)
<1>1. CASE High(Body(f)[1][1]) # 17 \/ Body(f)[2] \notin {<<0, 0>>, Group}
  BY <1>1 DEF Report
<1>2. CASE ~(High(Body(f)[1][1]) # 17 \/ Body(f)[2] \notin {<<0, 0>>, Group})
  <2>1. p = [b EXCEPT !.buffer = last, !.request = req, !.built = mine]
    BY <1>2 DEF Report, ReportMessage, BlankReport
  <2>2. DOMAIN report = 1 .. 2
    BY DEF ReportMessage, BlankReport
  <2>3. DOMAIN head = 1 .. 5
    BY HeaderLength
  <2> HIDE DEF report, head
  <2>4. Whole(b.buffer) /\ Depth \in Nat /\ Depth >= 12
    BY LayersAssumption DEF Board
  <2> DEFINE at == 5  k == 2  zero == 0
  <2>5. Whole(first) /\ \A j \in 1 .. 2 : first[5 + j - 1] = report[j]
    <3>1. at \in Nat /\ k \in Nat /\ DOMAIN report = 1 .. k /\ at + k <= Depth
      BY <2>2, <2>4
    <3> HIDE DEF at, k
    <3>2. \A j \in 1 .. k : Put(b.buffer, at, report)[at + j - 1] = report[j]
      BY ONLY <2>4, <3>1, PutAt
    <3> QED
      BY <2>4, <3>2, PutWhole DEF at, k
  <2> HIDE DEF first
  <2>6. /\ Whole(last) /\ \A i \in 0 .. Depth - 1 : i \notin 0 .. 4 => Same(last, first, i)
    BY <2>3, <2>5, PutHeader
  <2>7. \A j \in 1 .. 5 : last[0 + j - 1] = head[j]
    <3>1. zero \in Nat /\ at \in Nat /\ DOMAIN head = 1 .. at /\ zero + at <= Depth
      BY <2>3, <2>4
    <3> HIDE DEF at, zero
    <3>2. \A j \in 1 .. at : Put(first, zero, head)[zero + j - 1] = head[j]
      BY ONLY <2>5, <3>1, PutAt
    <3> QED
      BY <3>2 DEF at, zero
  <2> HIDE DEF last
  <2>8. \A j \in 1 .. 2 : last[0 + 5 + j - 1] = report[j]
    <3> TAKE j \in 1 .. 2
    <3>1. 5 + j - 1 \in 0 .. Depth - 1 /\ 5 + j - 1 \notin 0 .. 4 /\ 0 + 5 + j - 1 = 5 + j - 1
      BY <2>4
    <3> QED
      BY <2>5, <2>6, <3>1 DEF Same
  <2>9. req.addr = 0 /\ WordsFor(req.len) = 2 + 5
    BY DEF WordsFor
  <2>10. Reports(last, req, f)
    <3> HIDE DEF req
    <3>1. Carries(SentOf(last, req), head, report, 2)
      BY <2>7, <2>8, <2>9, CarriesWhen
    <3> QED
      BY <3>1 DEF Reports, req, head, report
  <2> HIDE DEF req, mine
  <2>11. p.built = mine /\ p.received = b.received /\ p.ticks = b.ticks /\ p.asked = b.asked
         /\ p.buffer = last /\ p.request = req
    BY <2>1 DEF Board, Fields
  <2> QED
    BY <2>10, <2>11 DEF mine
<1> QED
  BY <1>1, <1>2

\* The payload of a request is put where its echo takes it from.
LEMMA CaptureKeeps ==
    ASSUME NEW b, Board(b), NEW f \in Datagrams, Accepts(f), Proto(f) = 17
    PROVE  LET p == Capture(b, f)
           IN  \/ p = b
               \/ /\ p.built = b.built /\ p.ticks = b.ticks
                  /\ p.asked = [datagram |-> f, spoilt |-> FALSE]
                  /\ Waiting(p.received, p.asked, p.buffer)
<1> DEFINE total == TotalLen(f)
           payload == (Body(f)[2][1] - 8) % R
           k    == WordsFor(total - 28)
           words == SubSeq(f, 8, 7 + WordsFor(payload))
           at   == UdpOffset + 7
           last == Put(b.buffer, at, words)
           from == [ip |-> Source(f), port |-> Body(f)[1][1], len |-> Body(f)[2][1], total |-> TotalLen(f)]
           it   == [datagram |-> f, spoilt |-> FALSE]
           p    == Capture(b, f)
<1>1. CASE Body(f)[1][2] # UdpPort
  BY <1>1 DEF Capture
<1>2. CASE Body(f)[1][2] = UdpPort
  <2>1. p = [b EXCEPT !.buffer = last, !.received = from, !.asked = it]
    BY <1>2 DEF Capture
  <2>2. /\ total \in Nat /\ 28 <= total /\ total <= 65535 /\ WordsFor(total) <= Len(f)
        /\ Len(f) \in Nat /\ Depth \in Nat /\ UdpOffset \in Nat
    BY TotalRange, Sizes, LayersAssumption
  <2>3. Body(f)[2][1] = total - 20 /\ UdpOffset + Len(f) <= Depth
    BY BodyFacts, LayersAssumption
  <2>4. payload = total - 28
    <3> HIDE DEF total
    <3> DEFINE m == total - 28  udp == Body(f)[2][1]
    <3>1. udp = total - 20 /\ payload = (udp - 8) % R
      BY <2>3
    <3> HIDE DEF udp, payload
    <3>2. m \in Nat /\ m <= 65535 /\ udp - 8 = m
      BY ONLY <2>2, <3>1
    <3> HIDE DEF m
    <3>3. m % R = m
      BY <3>2, SmallRest
    <3> QED
      BY <3>1, <3>2, <3>3 DEF m
  <2>5. k \in Nat /\ WordsFor(total) = k + 7
    <3> HIDE DEF total
    <3> QED
      BY ONLY <2>2 DEF WordsFor, k
  <2>6. words = SubSeq(f, 8, 7 + k)
    BY <2>4
  <2> HIDE DEF total, payload, k, words
  <2>7. DOMAIN words = 1 .. k /\ \A i \in 1 .. k : words[i] = f[i + 7]
    <3>1. 7 + k <= Len(f)
      BY ONLY <2>2, <2>5
    <3>2. f \in Seq(Words) /\ Len(f) \in Nat /\ k \in Nat
      BY <2>2, <2>5, DatagramFacts
    <3>3. SubSeq(f, 8, 7 + k) \in Seq(Words) /\ Len(SubSeq(f, 8, 7 + k)) = k
          /\ \A i \in 1 .. k : SubSeq(f, 8, 7 + k)[i] = f[i + 7]
      BY ONLY <3>1, <3>2
    <3> QED
      BY <2>6, <3>3
  <2>8. \A i \in 1 .. k : last[at + i - 1] = words[i]
    <3>0. at \in Nat /\ at + k <= Depth
      BY ONLY <2>2, <2>3, <2>5 DEF at
    <3>1. at \in Nat /\ at + k <= Depth /\ Whole(b.buffer)
      BY <3>0 DEF Board
    <3> DEFINE old == b.buffer
    <3> HIDE DEF at, old
    <3>2. at \in Nat /\ k \in Nat /\ at + k <= Depth /\ Whole(old) /\ DOMAIN words = 1 .. k
      BY <2>5, <2>7, <3>1 DEF old
    <3>3. \A i \in 1 .. k : Put(old, at, words)[at + i - 1] = words[i]
      BY ONLY <3>2, PutAt
    <3> QED
      BY <3>3 DEF old
  <2> HIDE DEF last
  <2>9. PayloadIn(last, f)
    <3> SUFFICES ASSUME NEW i \in 8 .. WordsFor(TotalLen(f)) PROVE last[UdpOffset + i - 1] = f[i]
      BY DEF PayloadIn
    <3>1. i \in 8 .. k + 7
      BY <2>5 DEF total
    <3>2. i - 7 \in 1 .. k /\ at + (i - 7) - 1 = UdpOffset + i - 1 /\ i - 7 + 7 = i
      <4>1. k \in Nat /\ UdpOffset \in Nat
        BY <2>2, <2>5
      <4> QED
        BY ONLY <3>1, <4>1 DEF at
    <3> QED
      BY <2>7, <2>8, <3>2
  <2>10. Waiting(from, it, last)
    BY <2>9 DEF Waiting
  <2> HIDE DEF from, it
  <2>11. p.built = b.built /\ p.ticks = b.ticks /\ p.asked = it /\ p.received = from /\ p.buffer = last
    BY <2>1 DEF Board, Fields
  <2> QED
    BY <2>10, <2>11 DEF it
<1> QED
  BY <1>1, <1>2

\* u is t behind s.
Joined(u, s, t) ==
    /\ Len(u) = Len(s) + Len(t) /\ DOMAIN u = 1 .. Len(s) + Len(t)
    /\ \A i \in 1 .. Len(s) : u[i] = s[i]
    /\ \A i \in 1 .. Len(t) : u[Len(s) + i] = t[i]

LEMMA Concatenated ==
    ASSUME NEW S, NEW s \in Seq(S), NEW t \in Seq(S), NEW u, u = s \o t
    PROVE  u \in Seq(S) /\ Joined(u, s, t)
<1>1. s \o t \in Seq(S) /\ Joined(s \o t, s, t)
  BY DEF Joined
<1> QED
  BY <1>1

\* A header with two words behind it, and more.
Headed(ws, head, two, rest) ==
    /\ DOMAIN ws = 1 .. 7 + Len(rest)
    /\ \A i \in 1 .. 5 : ws[i] = head[i]
    /\ ws[6] = two[1] /\ ws[7] = two[2]
    /\ \A i \in 1 .. Len(rest) : ws[7 + i] = rest[i]

LEMMA HeadWords ==
    ASSUME NEW len, NEW id, NEW dest, NEW S, NEW rest \in Seq(S),
           NEW head, head = IpHeader(len, id, 128, 17, dest),
           NEW x, NEW y, NEW two, two = <<x, y>>,
           NEW ws, ws = head \o two \o rest
    PROVE  Headed(ws, head, two, rest)
<1> DEFINE S1   == {head[i] : i \in 1 .. 5} \cup {x, y} \cup S
           most == head \o two
<1>1. head \in Seq(S1) /\ Len(head) = 5
  <2>1. \A i \in 1 .. 5 : head[i] \in S1
    OBVIOUS
  <2> HIDE DEF S1
  <2> QED
    BY <2>1, HeaderSeq
<1>2. two \in Seq(S1) /\ Len(two) = 2 /\ two[1] = x /\ two[2] = y
  <2>1. x \in S1 /\ y \in S1
    OBVIOUS
  <2> HIDE DEF S1
  <2> QED
    BY <2>1
<1>3. rest \in Seq(S1)
  <2>1. S \subseteq S1
    OBVIOUS
  <2> HIDE DEF S1
  <2> QED
    BY <2>1, SeqMonotonic
<1>4. most = head \o two /\ ws = most \o rest
  OBVIOUS
<1> HIDE DEF S1, most
<1>5. most \in Seq(S1) /\ Joined(most, head, two)
  BY <1>1, <1>2, <1>4, Concatenated
<1>6. Joined(ws, most, rest)
  BY <1>3, <1>4, <1>5, Concatenated
<1>7. /\ Len(most) = 7 /\ \A i \in 1 .. 5 : most[i] = head[i]
      /\ \A i \in 1 .. 2 : most[5 + i] = two[i]
  <2>1. /\ Len(most) = Len(head) + Len(two)
        /\ \A i \in 1 .. Len(head) : most[i] = head[i]
        /\ \A i \in 1 .. Len(two) : most[Len(head) + i] = two[i]
    BY <1>5 DEF Joined
  <2> QED
    BY ONLY <1>1, <1>2, <2>1
<1>8. /\ DOMAIN ws = 1 .. 7 + Len(rest)
      /\ \A i \in 1 .. 7 : ws[i] = most[i]
      /\ \A i \in 1 .. Len(rest) : ws[7 + i] = rest[i]
  BY <1>6, <1>7 DEF Joined
<1>9. ws[6] = most[5 + 1] /\ ws[7] = most[5 + 2] /\ \A i \in 1 .. 5 : ws[i] = most[i]
  BY <1>8
<1>10. two[1] = most[5 + 1] /\ two[2] = most[5 + 2]
  <2>1. 1 \in 1 .. 2 /\ 2 \in 1 .. 2
    OBVIOUS
  <2> QED
    BY <1>7, <2>1
<1> QED
  BY ONLY <1>7, <1>8, <1>9, <1>10 DEF Headed

\* The echo: header and ports in front of the payload that waits.
LEMMA EchoBuilds ==
    ASSUME NEW b, Board(b), b.received # NoClient, Waiting(b.received, b.asked, b.buffer),
           b.asked.spoilt \in BOOLEAN, b.ticks \in Nat, NEW tick, NEW asks
    PROVE  LET p == UdpSend(b, tick, asks)
           IN  /\ p.built = [kind |-> "echo", datagram |-> b.asked.datagram] /\ p.asked = b.asked
               /\ Echoes(p.buffer, p.request, b.asked.datagram, b.ticks, b.asked.spoilt)
<1> DEFINE f    == b.asked.datagram
           total == TotalLen(f)
           n    == WordsFor(total) - 5
           head == IpHeader(total, b.ticks, 128, 17, Source(f))
           two  == << <<UdpPort, Body(f)[1][1]>>, <<Body(f)[2][1], 0>> >>
           ws   == head \o two \o <<>>
           old  == b.buffer
           last == Put(old, UdpOffset, ws)
           req  == [addr |-> UdpOffset, len |-> 20 + Body(f)[2][1]]
           mine == [kind |-> "echo", datagram |-> f]
           p    == UdpSend(b, tick, asks)
<1>1. /\ f \in Datagrams /\ Accepts(f) /\ Proto(f) = 17
      /\ b.received = [ip |-> Source(f), port |-> Body(f)[1][1], len |-> Body(f)[2][1], total |-> total]
      /\ b.asked.spoilt \/ PayloadIn(old, f)
  BY DEF Waiting
<1>2. p = [b EXCEPT !.buffer = last, !.request = req, !.built = mine]
  BY <1>1 DEF UdpSend
<1>3. /\ total \in Nat /\ total >= 28 /\ WordsFor(total) <= Len(f) /\ Len(f) \in Nat
      /\ Depth \in Nat /\ UdpOffset \in Nat /\ UdpOffset + Len(f) <= Depth
      /\ Body(f)[2][1] = total - 20 /\ b.ticks \in Nat
  <2>1. total \in Nat /\ total >= 28 /\ WordsFor(total) <= Len(f) /\ Len(f) \in Nat /\ Depth \in Nat
    BY <1>1, TotalRange, Sizes
  <2>2. UdpOffset \in Nat /\ UdpOffset + Len(f) <= Depth /\ Body(f)[2][1] = total - 20
    BY <1>1, BodyFacts, LayersAssumption
  <2> QED
    BY <2>1, <2>2
<1>4. n \in Nat /\ n >= 2 /\ WordsFor(total) = n + 5
  <2> HIDE DEF total
  <2> QED
    BY ONLY <1>3 DEF WordsFor, n
<1>5. req = [addr |-> UdpOffset, len |-> total]
  <2>1. 20 + Body(f)[2][1] = total
    <3> HIDE DEF f, total
    <3> QED
      BY <1>3
  <2> QED
    BY <2>1
<1>6. /\ DOMAIN ws = 1 .. 7
      /\ \A i \in 1 .. 5 : ws[i] = head[i]
      /\ ws[6] = two[1] /\ ws[7] = two[2]
  <2>1. <<>> \in Seq({}) /\ Len(<<>>) = 0
    OBVIOUS
  <2> DEFINE none == <<>>  nothing == {}
  <2>2. none \in Seq(nothing) /\ Len(none) = 0
    BY <2>1
  <2> DEFINE x == two[1]  y == two[2]  s == Source(f)  k == b.ticks
  <2>3. /\ ws = head \o two \o none /\ head = IpHeader(total, k, 128, 17, s) /\ two = <<x, y>>
    OBVIOUS
  <2> HIDE DEF ws, x, y, total, s, k, head, none, nothing, two
  <2>4. Headed(ws, head, two, none)
    BY ONLY <2>2, <2>3, HeadWords, ZenonT(60)
  <2> QED
    BY <2>2, <2>4 DEF Headed
<1>7. two[1] = <<UdpPort, Body(f)[1][1]>> /\ two[2] = <<Body(f)[2][1], 0>>
  OBVIOUS
<1> DEFINE message == [i \in 1 .. n |-> last[UdpOffset + 5 + i - 1]]
<1> HIDE DEF f, total, n, head, two, ws, req, mine
<1>8. \A j \in 1 .. 7 : last[UdpOffset + j - 1] = ws[j]
  <2> DEFINE k == 7
  <2>1. k \in Nat /\ UdpOffset \in Nat /\ DOMAIN ws = 1 .. k /\ UdpOffset + k <= Depth /\ Whole(old)
    BY <1>3, <1>4, <1>6 DEF Board
  <2> HIDE DEF k, old
  <2>2. \A j \in 1 .. k : Put(old, UdpOffset, ws)[UdpOffset + j - 1] = ws[j]
    BY ONLY <2>1, PutAt
  <2> QED
    BY <2>2 DEF k
<1>9. \A i \in UdpOffset + 7 .. Depth - 1 : last[i] = old[i]
  <2> DEFINE k == 7  end == UdpOffset + 6
  <2>1. k \in Nat /\ end \in Nat /\ end = UdpOffset + k - 1 /\ DOMAIN ws = 1 .. k /\ Whole(old)
    BY <1>3, <1>6 DEF Board
  <2> HIDE DEF k, old
  <2>2. \A i \in 0 .. Depth - 1 : i \notin UdpOffset .. end => Same(Put(old, UdpOffset, ws), old, i)
    BY ONLY <1>3, <2>1, PutFacts
  <2> QED
    BY <1>3, <2>2 DEF Same
<1> HIDE DEF last
<1>10. Carries(SentOf(last, req), head, message, n)
  <2>1. \A i \in 1 .. 5 : last[UdpOffset + i - 1] = head[i]
    BY <1>6, <1>8
  <2>2. \A i \in 1 .. n : last[UdpOffset + 5 + i - 1] = message[i]
    OBVIOUS
  <2>3. req.addr = UdpOffset /\ WordsFor(req.len) = n + 5
    BY <1>4, <1>5
  <2> HIDE DEF message
  <2> QED
    BY <1>3, <1>4, <2>1, <2>2, <2>3, CarriesWhen
<1>11. message[1] = two[1] /\ message[2] = two[2]
  <2>1. 1 \in 1 .. n /\ 2 \in 1 .. n
    BY <1>4
  <2>2. UdpOffset + 5 + 1 - 1 = UdpOffset + 6 - 1 /\ UdpOffset + 5 + 2 - 1 = UdpOffset + 7 - 1
    BY <1>3
  <2>3. message[1] = last[UdpOffset + 6 - 1] /\ message[2] = last[UdpOffset + 7 - 1]
    BY <2>1, <2>2
  <2> QED
    BY <1>6, <1>8, <2>3
<1>12. ASSUME PayloadIn(old, f) PROVE PayloadOf(message, f)
  <2> SUFFICES ASSUME NEW i \in 3 .. n PROVE message[i] = f[i + 5]
    BY DEF PayloadOf, n, total
  <2>1. /\ i \in 1 .. n /\ i + 5 \in 8 .. WordsFor(TotalLen(f)) /\ UdpOffset + 5 + i - 1 = UdpOffset + (i + 5) - 1
        /\ UdpOffset + 5 + i - 1 \in UdpOffset + 7 .. Depth - 1
    <3>1. i \in 1 .. n /\ i + 5 \in 8 .. WordsFor(total) /\ UdpOffset + 5 + i - 1 = UdpOffset + (i + 5) - 1
          /\ UdpOffset + 5 + i - 1 \in UdpOffset + 7 .. Depth - 1
      BY <1>3, <1>4
    <3> QED
      BY <3>1 DEF total
  <2>2. message[i] = old[UdpOffset + 5 + i - 1]
    BY <1>9, <2>1
  <2> QED
    BY <1>12, <2>1, <2>2 DEF PayloadIn
<1>13. Echoes(last, req, f, b.ticks, b.asked.spoilt)
  <2> HIDE DEF message
  <2>1. Carries(SentOf(last, req), IpHeader(TotalLen(f), b.ticks, 128, 17, Source(f)), message, WordsFor(TotalLen(f)) - 5)
    BY <1>10 DEF head, n, total
  <2>2. message[1] = <<UdpPort, Body(f)[1][1]>> /\ message[2] = <<Body(f)[2][1], 0>>
    BY <1>7, <1>11
  <2> QED
    BY <1>1, <1>3, <1>5, <1>12, <2>1, <2>2 DEF Echoes, total
<1>14. p.built = mine /\ p.asked = b.asked /\ p.buffer = last /\ p.request = req
  BY <1>2 DEF Board, Fields
<1> QED
  BY <1>13, <1>14 DEF mine, f

\* A HELLO: header, ports and text.
LEMMA HelloBuilds ==
    ASSUME NEW b, Board(b), b.received = NoClient, b.ticks \in Nat, NEW tick, NEW asks
    PROVE  LET p == UdpSend(b, tick, asks)
           IN  \/ p = b
               \/ /\ p.built = [kind |-> "hello", datagram |-> <<>>] /\ p.asked = b.asked
                  /\ Greets(p.buffer, p.request, b.ticks)
<1> DEFINE head == IpHeader(48, b.ticks, 128, 17, HelloIp)
           x    == <<UdpPort, UdpPort>>
           y    == <<28, 0>>
           two  == <<x, y>>
           ws   == head \o two \o HelloText
           first == IF asks THEN Put(b.buffer, 0, ArpRequest) ELSE b.buffer
           last == Put(first, UdpOffset, ws)
           req  == [addr |-> UdpOffset, len |-> 48]
           mine == [kind |-> "hello", datagram |-> <<>>]
           p    == UdpSend(b, tick, asks)
           message == two \o HelloText
<1>1. CASE ~tick
  BY <1>1 DEF UdpSend
<1>2. CASE tick
  <2>1. p = [b EXCEPT !.buffer = last, !.request = req, !.built = mine]
    BY <1>2 DEF UdpSend
  <2>2. HelloText \in Seq({HelloText[i] : i \in 1 .. 5}) /\ Len(HelloText) = 5
    BY DEF HelloText
  <2> DEFINE S == {HelloText[i] : i \in 1 .. 5} \cup {x, y}
  <2>3. HelloText \in Seq(S) /\ two \in Seq(S) /\ Len(two) = 2
    <3>1. {HelloText[i] : i \in 1 .. 5} \subseteq S /\ x \in S /\ y \in S
      OBVIOUS
    <3> HIDE DEF S, x, y
    <3>2. HelloText \in Seq(S)
      BY <2>2, <3>1, SeqMonotonic
    <3>3. two \in Seq(S) /\ Len(two) = 2
      BY <3>1
    <3> QED
      BY <3>2, <3>3
  <2>4. Headed(ws, head, two, HelloText)
    <3> DEFINE k == b.ticks  n == 48
    <3>1. ws = head \o two \o HelloText /\ head = IpHeader(n, k, 128, 17, HelloIp) /\ two = <<x, y>>
      OBVIOUS
    <3> HIDE DEF S, ws, head, two, x, y, k, n
    <3> QED
      BY ONLY <2>3, <3>1, HeadWords
  <2>5. Joined(message, two, HelloText)
    <3> HIDE DEF S, two
    <3>1. message = two \o HelloText
      OBVIOUS
    <3> HIDE DEF message
    <3> QED
      BY <2>3, <3>1, Concatenated
  <2>6. /\ DOMAIN ws = 1 .. 12 /\ \A i \in 1 .. 5 : ws[i] = head[i]
        /\ \A i \in 1 .. 7 : ws[i + 5] = message[i]
    <3> HIDE DEF S, ws, head, two, message
    <3>1. /\ DOMAIN ws = 1 .. 7 + Len(HelloText) /\ \A i \in 1 .. 5 : ws[i] = head[i]
          /\ ws[6] = two[1] /\ ws[7] = two[2] /\ \A i \in 1 .. Len(HelloText) : ws[7 + i] = HelloText[i]
      BY <2>4 DEF Headed
    <3>2. /\ \A i \in 1 .. Len(two) : message[i] = two[i]
          /\ \A i \in 1 .. Len(HelloText) : message[Len(two) + i] = HelloText[i]
      BY <2>5 DEF Joined
    <3>3. /\ DOMAIN ws = 1 .. 12 /\ \A i \in 1 .. 5 : ws[7 + i] = HelloText[i]
          /\ message[1] = two[1] /\ message[2] = two[2]
          /\ \A i \in 1 .. 5 : message[2 + i] = HelloText[i]
      BY ONLY <2>2, <2>3, <3>1, <3>2
    <3>4. ASSUME NEW i \in 1 .. 7 PROVE ws[i + 5] = message[i]
      <4>1. CASE i \in {1, 2}
        BY <3>1, <3>3, <4>1
      <4>2. CASE i \in 3 .. 7
        <5>1. i - 2 \in 1 .. 5 /\ 7 + (i - 2) = i + 5 /\ 2 + (i - 2) = i
          BY <4>2
        <5> QED
          BY <3>3, <5>1
      <4> QED
        BY <4>1, <4>2
    <3> QED
      BY <3>1, <3>3, <3>4
  <2> HIDE DEF ws, head, two, message
  <2>7. UdpOffset \in Nat /\ Depth \in Nat /\ UdpOffset + 12 <= Depth
    BY LayersAssumption
  <2>8. Whole(first)
    BY PutWhole DEF Board
  <2> HIDE DEF first
  <2>9. \A j \in 1 .. 12 : last[UdpOffset + j - 1] = ws[j]
    <3> DEFINE k == 12
    <3>1. k \in Nat /\ DOMAIN ws = 1 .. k /\ UdpOffset + k <= Depth
      BY <2>6, <2>7
    <3> HIDE DEF k
    <3>2. \A j \in 1 .. k : Put(first, UdpOffset, ws)[UdpOffset + j - 1] = ws[j]
      BY ONLY <2>7, <2>8, <3>1, PutAt
    <3> QED
      BY <3>2 DEF k
  <2> HIDE DEF last
  <2>10. Carries(SentOf(last, req), head, message, 7)
    <3> DEFINE n == 7
    <3>1. n \in Nat /\ UdpOffset \in Nat /\ req.addr = UdpOffset /\ WordsFor(req.len) = n + 5
      BY <2>7 DEF WordsFor
    <3>2. \A i \in 1 .. 5 : last[UdpOffset + i - 1] = head[i]
      BY <2>6, <2>9
    <3>3. ASSUME NEW i \in 1 .. n PROVE last[UdpOffset + 5 + i - 1] = message[i]
      <4>1. i + 5 \in 1 .. 12 /\ UdpOffset + (i + 5) - 1 = UdpOffset + 5 + i - 1 /\ i \in 1 .. 7
        BY <2>7
      <4> QED
        BY <2>6, <2>9, <4>1
    <3> HIDE DEF n, req
    <3>4. Carries(SentOf(last, req), head, message, n)
      BY ONLY <3>1, <3>2, <3>3, CarriesWhen
    <3> QED
      BY <3>4 DEF n
  <2>11. Greets(last, req, b.ticks)
    BY <2>10 DEF Greets, head, message, two
  <2> HIDE DEF req, mine
  <2>12. p.built = mine /\ p.asked = b.asked /\ p.buffer = last /\ p.request = req
    BY <2>1 DEF Board, Fields
  <2> QED
    BY <2>11, <2>12 DEF mine
<1> QED
  BY <1>1, <1>2

-------------------------------------------------------------------------------
(***************************************************************************)
(* A pass.                                                                 *)
(***************************************************************************)
AskedOK(a) == a.spoilt \in BOOLEAN /\ a = [datagram |-> a.datagram, spoilt |-> a.spoilt]

\* Whatever was built in the last pass, the words its request names are those of an
\* answer to the datagram it was built for.
BuiltRight(buf, req, made, a) ==
    \/ made = Nobody
    \/ \E f, wraps : made = [kind |-> "reply", datagram |-> f] /\ Replies(buf, req, f, wraps)
    \/ \E f : made = [kind |-> "report", datagram |-> f] /\ Reports(buf, req, f)
    \/ \E id : /\ made = [kind |-> "echo", datagram |-> a.datagram]
               /\ Echoes(buf, req, a.datagram, id, a.spoilt)
    \/ \E id : made = [kind |-> "hello", datagram |-> <<>>] /\ Greets(buf, req, id)

\* What becomes of `asked` at the end of a pass.
Spoil(b) == [b.asked EXCEPT !.spoilt = @ \/ (b.built.kind = "reply" /\ b.request.len > 4 * (UdpOffset + 7))]

LEMMA SpoilFacts ==
    ASSUME NEW b, AskedOK(b.asked)
    PROVE  /\ AskedOK(Spoil(b)) /\ Spoil(b).datagram = b.asked.datagram
           /\ Spoil(b).spoilt = (b.asked.spoilt \/ (b.built.kind = "reply" /\ b.request.len > 4 * (UdpOffset + 7)))
           /\ b.built.kind # "reply" => Spoil(b) = b.asked
<1> DEFINE a == b.asked  long == b.built.kind = "reply" /\ b.request.len > 4 * (UdpOffset + 7)
<1>1. a.spoilt \in BOOLEAN /\ a = [datagram |-> a.datagram, spoilt |-> a.spoilt]
  BY DEF AskedOK
<1>2. Spoil(b) = [a EXCEPT !.spoilt = a.spoilt \/ long]
  BY DEF Spoil
<1>3. b.built.kind # "reply" => ~long
  OBVIOUS
<1>4. long \in BOOLEAN
  OBVIOUS
<1> HIDE DEF a, long
<1>5. Spoil(b) = [datagram |-> a.datagram, spoilt |-> a.spoilt \/ long]
  BY <1>1, <1>2
<1>6. (a.spoilt \/ long) \in BOOLEAN
  BY <1>1, <1>4
<1>7. Spoil(b).datagram = a.datagram /\ Spoil(b).spoilt = (a.spoilt \/ long)
  BY <1>5
<1>8. AskedOK(Spoil(b))
  BY <1>5, <1>6, <1>7 DEF AskedOK
<1>9. ASSUME ~long PROVE Spoil(b) = a
  <2>1. (a.spoilt \/ long) = a.spoilt
    BY <1>1, <1>9
  <2> QED
    BY <1>1, <1>5, <2>1
<1> QED
  BY <1>3, <1>7, <1>8, <1>9 DEF a, long

\* A payload is in its place as long as its words are.
LEMMA PayloadStays ==
    ASSUME NEW f \in Datagrams, Proto(f) = 17, NEW old, NEW new, PayloadIn(old, f),
           \A i \in UdpOffset + 7 .. Depth - 1 : Same(new, old, i)
    PROVE  PayloadIn(new, f)
<1>1. /\ UdpOffset \in Nat /\ Depth \in Nat /\ UdpOffset + Len(f) <= Depth
      /\ WordsFor(TotalLen(f)) <= Len(f) /\ Len(f) \in Nat
  BY LayersAssumption, BodyFacts
<1>2. WordsFor(TotalLen(f)) \in Nat
  BY BlankFacts
<1> SUFFICES ASSUME NEW i \in 8 .. WordsFor(TotalLen(f)) PROVE new[UdpOffset + i - 1] = f[i]
  BY DEF PayloadIn
<1>3. UdpOffset + i - 1 \in UdpOffset + 7 .. Depth - 1
  BY <1>1, <1>2
<1> QED
  BY <1>3 DEF PayloadIn, Same

\* The processing of a datagram builds a right answer or none, and keeps the request
\* that waits.
Processed(p, b) ==
    /\ Board(p) /\ p.ticks = b.ticks /\ AskedOK(p.asked)
    /\ p.built.kind \in {"none", "reply", "report"}
    /\ p.built.kind # "none" => p.request # NoRequest
    /\ BuiltRight(p.buffer, p.request, p.built, Spoil(p))
    /\ Waiting(p.received, Spoil(p), p.buffer)

LEMMA ProcessKeeps ==
    ASSUME NEW b, Board(b), b.built = Nobody, AskedOK(b.asked), Waiting(b.received, b.asked, b.buffer),
           NEW f \in Datagrams, NEW wraps \in BOOLEAN, wraps => ~Fits(f)
    PROVE  Processed(Process(b, f, wraps), b)
<1> DEFINE p == Process(b, f, wraps)
<1>1. Nobody.kind = "none"
  BY DEF Nobody
<1>2. Board(p) /\ Within(p, b)
  BY ProcessWithin
<1>3. Processed(b, b)
  <2>1. Spoil(b) = b.asked
    BY <1>1, SpoilFacts
  <2> QED
    BY <1>1, <2>1 DEF Processed, BuiltRight
<1>4. UdpOffset \in Nat /\ Depth \in Nat /\ ScratchWords \in Nat /\ UdpOffset >= ScratchWords
  BY LayersAssumption
<1>5. ASSUME p.built.kind = "reply" \/ p.built.kind = "report",
             p.received = b.received, p.asked = b.asked, p.ticks = b.ticks,
             p.built.kind = "reply" => WordsFor(p.request.len) \in Nat /\ p.request.len \in Nat,
             BuiltRight(p.buffer, p.request, p.built, Spoil(p))
      PROVE  Processed(p, b)
  <2>1. AskedOK(Spoil(p)) /\ Spoil(p).datagram = b.asked.datagram
        /\ Spoil(p).spoilt = (b.asked.spoilt \/ (p.built.kind = "reply" /\ p.request.len > 4 * (UdpOffset + 7)))
    BY <1>5, SpoilFacts
  <2> HIDE DEF p
  <2>2. p.request # NoRequest
    BY <1>2, <1>5 DEF Within
  <2>3. ASSUME ~Spoil(p).spoilt, NEW i \in UdpOffset + 7 .. Depth - 1 PROVE Same(p.buffer, b.buffer, i)
    <3>1. i \in 0 .. Depth - 1 /\ i \in ScratchWords .. Depth - 1
      BY <1>4
    <3>2. CASE p.built.kind = "report"
      BY <1>2, <3>1, <3>2 DEF Within
    <3>3. CASE p.built.kind = "reply"
      <4>1. ~(p.request.len > 4 * (UdpOffset + 7))
        BY <2>1, <2>3, <3>3
      <4>2. ~(i < WordsFor(p.request.len))
        BY <1>4, <1>5, <3>3, <4>1 DEF WordsFor
      <4> QED
        BY <1>2, <3>1, <3>3, <4>2 DEF Within
    <3> QED
      BY <1>5, <3>2, <3>3
  <2>4. Waiting(p.received, Spoil(p), p.buffer)
    <3> SUFFICES ASSUME b.received # NoClient PROVE Waiting(b.received, Spoil(p), p.buffer)
      BY <1>5 DEF Waiting
    <3> DEFINE a == b.asked.datagram
    <3>1. /\ a \in Datagrams /\ Accepts(a) /\ Proto(a) = 17
          /\ b.received = [ip |-> Source(a), port |-> Body(a)[1][1], len |-> Body(a)[2][1], total |-> TotalLen(a)]
          /\ b.asked.spoilt \/ PayloadIn(b.buffer, a)
      BY DEF Waiting
    <3> HIDE DEF a
    <3>2. Spoil(p).spoilt \/ PayloadIn(p.buffer, a)
      <4> SUFFICES ASSUME ~Spoil(p).spoilt PROVE PayloadIn(p.buffer, a)
        OBVIOUS
      <4>1. PayloadIn(b.buffer, a)
        BY <2>1, <3>1
      <4>2. \A i \in UdpOffset + 7 .. Depth - 1 : Same(p.buffer, b.buffer, i)
        BY <2>3
      <4> QED
        BY <3>1, <4>1, <4>2, PayloadStays
    <3> QED
      BY <2>1, <3>1, <3>2 DEF Waiting, a
  <2> QED
    BY <1>2, <1>5, <2>2, <2>4 DEF Processed
<1>6. CASE ~Accepts(f)
  <2>1. p = b
    BY <1>6 DEF Process
  <2> QED
    BY <1>3, <2>1
<1>7. CASE Accepts(f) /\ Proto(f) = 1
  <2>1. p = PingReply(b, f, wraps)
    BY <1>7 DEF Process
  <2> HIDE DEF p
  <2>2. \/ p = b
        \/ /\ p.built = [kind |-> "reply", datagram |-> f]
           /\ p.received = b.received /\ p.ticks = b.ticks /\ p.asked = b.asked
           /\ Replies(p.buffer, p.request, f, wraps)
    BY <1>7, <2>1, PingBuilds
  <2>3. ASSUME p # b PROVE Processed(p, b)
    <3>1. p.request.len = TotalLen(f)
      BY <2>2, <2>3 DEF Replies
    <3>3. BuiltRight(p.buffer, p.request, p.built, Spoil(p))
      BY <2>2, <2>3 DEF BuiltRight
    <3>4. WordsFor(p.request.len) \in Nat /\ p.request.len \in Nat
      <4>1. TotalLen(f) \in Nat
        BY TotalRange
      <4> QED
        BY BlankFacts, <3>1, <4>1
    <3>5. p.built.kind = "reply"
      BY <2>2, <2>3
    <3>6. p.received = b.received /\ p.asked = b.asked /\ p.ticks = b.ticks
      BY <2>2, <2>3
    <3> QED
      BY ONLY <1>5, <3>3, <3>4, <3>5, <3>6
  <2> QED
    BY <1>3, <2>3 DEF p
<1>8. CASE Accepts(f) /\ Proto(f) = 2
  <2>1. p = Report(b, f)
    BY <1>8 DEF Process
  <2> HIDE DEF p
  <2>2. \/ p = b
        \/ /\ p.built = [kind |-> "report", datagram |-> f]
           /\ p.received = b.received /\ p.ticks = b.ticks /\ p.asked = b.asked
           /\ Reports(p.buffer, p.request, f)
    BY <1>8, <2>1, ReportBuilds
  <2>3. ASSUME p # b PROVE Processed(p, b)
    <3>1. BuiltRight(p.buffer, p.request, p.built, Spoil(p))
      BY <2>2, <2>3 DEF BuiltRight
    <3> QED
      BY <1>5, <2>2, <2>3, <3>1
  <2> QED
    BY <1>3, <2>3 DEF p
<1>9. CASE Accepts(f) /\ Proto(f) = 17
  <2>1. p = Capture(b, f)
    BY <1>9 DEF Process
  <2> HIDE DEF p
  <2>2. \/ p = b
        \/ /\ p.built = b.built /\ p.ticks = b.ticks
           /\ p.asked = [datagram |-> f, spoilt |-> FALSE]
           /\ Waiting(p.received, p.asked, p.buffer)
    BY <1>9, <2>1, CaptureKeeps
  <2>3. ASSUME p # b PROVE Processed(p, b)
    <3>1. AskedOK(p.asked)
      <4> DEFINE a == p.asked
      <4>1. a = [datagram |-> f, spoilt |-> FALSE]
        BY <2>2, <2>3
      <4> HIDE DEF a
      <4>2. a.datagram = f /\ a.spoilt = FALSE
        BY <4>1
      <4> QED
        BY <4>1, <4>2 DEF AskedOK, a
    <3>2. Spoil(p) = p.asked
      BY <1>1, <2>2, <2>3, <3>1, SpoilFacts
    <3> QED
      BY <1>1, <1>2, <2>2, <2>3, <3>1, <3>2 DEF Processed, BuiltRight
  <2> QED
    BY <1>3, <2>3 DEF p
<1>10. CASE Accepts(f) /\ Proto(f) \notin {1, 2, 17}
  <2>1. p = b
    BY <1>10 DEF Process
  <2> QED
    BY <1>3, <2>1
<1> QED
  BY <1>6, <1>7, <1>8, <1>9, <1>10

-------------------------------------------------------------------------------
\* The inductive invariant.
IInv ==
    /\ Whole(buffer) /\ ticks \in Nat /\ AskedOK(asked)
    /\ Waiting(received, asked, buffer)
    /\ BuiltRight(buffer, request, built, asked)

LEMMA UdpSendTicks ==
    ASSUME NEW b, Board(b), NEW tick, NEW asks
    PROVE  UdpSend(b, tick, asks).ticks = b.ticks
<1> DEFINE echo == b.received # NoClient
           c    == IF echo THEN b.received ELSE [ip |-> HelloIp, port |-> UdpPort, len |-> 28, total |-> 48]
           head == IpHeader(c.total, b.ticks, 128, 17, c.ip) \o << <<UdpPort, c.port>>, <<c.len, 0>> >>
           first == IF asks /\ ~echo THEN Put(b.buffer, 0, ArpRequest) ELSE b.buffer
           last == Put(first, UdpOffset, head \o (IF echo THEN <<>> ELSE HelloText))
           req  == [addr |-> UdpOffset, len |-> 20 + c.len]
           mine == IF echo THEN [kind |-> "echo", datagram |-> b.asked.datagram]
                   ELSE [kind |-> "hello", datagram |-> <<>>]
           p    == UdpSend(b, tick, asks)
<1>1. p = b \/ p = [b EXCEPT !.buffer = last, !.request = req, !.built = mine]
  BY DEF UdpSend
<1> HIDE DEF last, req, mine, p
<1>2. p.ticks = b.ticks
  BY <1>1 DEF Board, Fields
<1> QED
  BY <1>2 DEF p

LEMMA PassSound ==
    ASSUME NEW f \in Datagrams \cup {<<>>}, NEW idle \in BOOLEAN, NEW tick \in BOOLEAN,
           NEW asks \in BOOLEAN, NEW wraps \in BOOLEAN, IInv, Pass(f, idle, tick, asks, wraps)
    PROVE  IInv'
<1> DEFINE now == [buffer |-> buffer, request |-> IF idle THEN NoRequest ELSE request,
                   received |-> received, ticks |-> ticks, asked |-> asked, built |-> Nobody]
           heard == IF f = <<>> THEN now ELSE Process(now, f, wraps)
           turn  == idle /\ request = NoRequest /\ heard.request = NoRequest
           ticked == [heard EXCEPT !.ticks = IF tick THEN @ + 1 ELSE @]
           sent  == UdpSend(ticked, tick, asks)
           done  == [sent EXCEPT !.received = NoClient]
           b == IF turn THEN done ELSE heard
<1>1. /\ wraps => f # <<>> /\ 4 * WordsFor(TotalLen(f) - 20) > CsumBytes
      /\ buffer' = b.buffer /\ request' = b.request /\ received' = b.received
      /\ ticks' = b.ticks /\ built' = b.built /\ asked' = Spoil(b)
  BY DEF Pass, Spoil
<1>2. /\ Whole(buffer) /\ ticks \in Nat /\ AskedOK(asked) /\ Waiting(received, asked, buffer)
  BY DEF IInv
<1>3. /\ Board(now) /\ now.built = Nobody /\ now.buffer = buffer /\ now.asked = asked
      /\ now.received = received /\ now.ticks = ticks
  BY <1>2 DEF Board, Fields
<1> HIDE DEF now
<1>4. Processed(heard, now)
  <2>1. CASE f = <<>>
    <3>1. heard = now
      BY <2>1
    <3>2. Nobody.kind = "none"
      BY DEF Nobody
    <3>3. Spoil(now) = now.asked
      BY <1>2, <1>3, <3>2, SpoilFacts
    <3> HIDE DEF heard
    <3> QED
      BY <1>2, <1>3, <3>1, <3>2, <3>3 DEF Processed, BuiltRight
  <2>2. CASE f # <<>>
    <3>1. heard = Process(now, f, wraps) /\ f \in Datagrams
      BY <2>2
    <3>2. wraps => ~Fits(f)
      <4> SUFFICES ASSUME wraps PROVE ~Fits(f)
        OBVIOUS
      <4> DEFINE n == 4 * WordsFor(TotalLen(f) - 20)
      <4>1. n > CsumBytes
        BY <1>1
      <4>2. n \in Nat /\ CsumBytes \in Nat
        <5> DEFINE m == WordsFor(TotalLen(f) - 20)
        <5>1. m \in Nat
          BY <3>1, BlankFacts
        <5>2. CsumBytes \in Nat
          BY LayersAssumption
        <5> HIDE DEF m
        <5>3. 4 * m \in Nat
          BY <5>1
        <5> QED
          BY <5>2, <5>3 DEF m
      <4> HIDE DEF n
      <4>3. ~(n <= CsumBytes)
        BY <4>1, <4>2
      <4> QED
        BY <4>3 DEF Fits, n
    <3> HIDE DEF heard
    <3>3. Processed(Process(now, f, wraps), now)
      BY <1>2, <1>3, <3>1, <3>2, ProcessKeeps
    <3> QED
      BY <3>1, <3>3
  <2> QED
    BY <2>1, <2>2
<1> HIDE DEF heard
<1>5. CASE turn
  <2>1. heard.built.kind = "none"
    BY <1>4, <1>5 DEF Processed
  <2>2. AskedOK(heard.asked) /\ Spoil(heard) = heard.asked
    BY <1>4, <2>1, SpoilFacts DEF Processed
  <2>3. /\ Board(ticked) /\ ticked.built = heard.built /\ ticked.asked = heard.asked
        /\ ticked.received = heard.received /\ ticked.buffer = heard.buffer
        /\ ticked.ticks \in Nat
    <3>1. heard.ticks \in Nat /\ Board(heard)
      BY <1>2, <1>3, <1>4 DEF Processed
    <3>2. (IF tick THEN heard.ticks + 1 ELSE heard.ticks) \in Nat
      BY <3>1
    <3> DEFINE k == IF tick THEN heard.ticks + 1 ELSE heard.ticks
    <3>3. ticked = [heard EXCEPT !.ticks = k] /\ k \in Nat
      BY <3>2
    <3> HIDE DEF k, ticked
    <3> QED
      BY <3>1, <3>3 DEF Board, Fields
  <2> HIDE DEF ticked
  <2>4. Waiting(ticked.received, ticked.asked, ticked.buffer) /\ AskedOK(ticked.asked)
    BY <1>4, <2>2, <2>3 DEF Processed
  <2>5. Board(sent)
    BY <2>3, UdpSendFacts
  <2>6. /\ sent.asked = ticked.asked /\ sent.built.kind # "reply"
        /\ BuiltRight(sent.buffer, sent.request, sent.built, sent.asked)
    <3> DEFINE a == ticked.asked.datagram
    <3>1. CASE ticked.received # NoClient
      <4>1. ticked.asked.spoilt \in BOOLEAN
        BY <2>4 DEF AskedOK
      <4>2. /\ sent.built = [kind |-> "echo", datagram |-> a] /\ sent.asked = ticked.asked
            /\ Echoes(sent.buffer, sent.request, a, ticked.ticks, ticked.asked.spoilt)
        BY <2>3, <2>4, <3>1, <4>1, EchoBuilds
      <4>3. sent.built.kind # "reply"
        BY <4>2
      <4> HIDE DEF sent
      <4> QED
        BY <4>2, <4>3 DEF BuiltRight, a
    <3>2. CASE ticked.received = NoClient
      <4>1. \/ sent = ticked
            \/ /\ sent.built = [kind |-> "hello", datagram |-> <<>>] /\ sent.asked = ticked.asked
               /\ Greets(sent.buffer, sent.request, ticked.ticks)
        BY <2>3, <3>2, HelloBuilds
      <4> HIDE DEF sent
      <4>2. CASE sent = ticked
        <5>1. BuiltRight(heard.buffer, heard.request, heard.built, Spoil(heard))
          BY <1>4 DEF Processed
        <5>2. heard.built = Nobody
          <6>1. \/ heard.built = Nobody
                \/ \E k, d : heard.built = [kind |-> k, datagram |-> d] /\ k \in {"reply", "report", "echo", "hello"}
            BY <5>1 DEF BuiltRight
          <6>2. ASSUME NEW k, NEW d, heard.built = [kind |-> k, datagram |-> d],
                       k \in {"reply", "report", "echo", "hello"}
                PROVE  FALSE
            <7>1. heard.built.kind = k
              BY <6>2
            <7> QED
              BY <2>1, <6>2, <7>1
          <6> QED
            BY <6>1, <6>2
        <5> QED
          BY <2>1, <2>3, <4>2, <5>2 DEF BuiltRight
      <4>3. CASE sent # ticked
        <5>1. sent.built.kind # "reply"
          BY <4>1, <4>3
        <5> QED
          BY <4>1, <4>3, <5>1 DEF BuiltRight
      <4> QED
        BY <4>2, <4>3
    <3> QED
      BY <3>1, <3>2
  <2>7. sent.ticks = ticked.ticks
    BY <2>3, UdpSendTicks
  <2> HIDE DEF sent
  <2>8. /\ done.buffer = sent.buffer /\ done.built = sent.built /\ done.request = sent.request
        /\ done.ticks = sent.ticks /\ done.asked = sent.asked /\ done.received = NoClient
    BY <2>5 DEF Board, Fields
  <2>9. b = done
    BY <1>5
  <2> HIDE DEF done, b, turn
  <2>10. AskedOK(done.asked) /\ Spoil(done) = done.asked
    BY <2>4, <2>6, <2>8, SpoilFacts
  <2>11. Whole(buffer') /\ ticks' \in Nat /\ AskedOK(asked')
    BY <1>1, <2>3, <2>5, <2>7, <2>8, <2>9, <2>10 DEF Board
  <2>12. Waiting(received', asked', buffer')
    BY <1>1, <2>8, <2>9 DEF Waiting
  <2>13. BuiltRight(buffer', request', built', asked')
    BY <1>1, <2>6, <2>8, <2>9, <2>10
  <2> QED
    BY <2>11, <2>12, <2>13 DEF IInv, Whole, AskedOK, Waiting, BuiltRight
<1>6. CASE ~turn
  <2>1. b = heard
    BY <1>6
  <2> HIDE DEF b, turn
  <2>2. /\ Board(heard) /\ heard.ticks = ticks /\ AskedOK(heard.asked)
        /\ BuiltRight(heard.buffer, heard.request, heard.built, Spoil(heard))
        /\ Waiting(heard.received, Spoil(heard), heard.buffer)
    BY <1>3, <1>4 DEF Processed
  <2>3. Whole(buffer') /\ ticks' \in Nat /\ AskedOK(asked')
    BY <1>1, <1>2, <2>1, <2>2, SpoilFacts DEF Board
  <2>4. Waiting(received', asked', buffer') /\ BuiltRight(buffer', request', built', asked')
    BY <1>1, <2>1, <2>2
  <2> QED
    BY <2>3, <2>4 DEF IInv, Whole, AskedOK, Waiting, BuiltRight
<1> QED
  BY <1>5, <1>6

-------------------------------------------------------------------------------
(***************************************************************************)
(* What the receiver of an answer reads.                                   *)
(***************************************************************************)
\* What stands behind the header.
LEMMA BodyOf ==
    ASSUME NEW n \in Nat, n >= 2, NEW ws, ws = [i \in 1 .. n + 5 |-> ws[i]], NEW head, NEW message,
           Carries(ws, head, message, n)
    PROVE  Len(Body(ws)) = n /\ DOMAIN Body(ws) = 1 .. n /\ \A i \in 1 .. n : Body(ws)[i] = message[i]
<1> DEFINE S == {ws[i] : i \in 1 .. n + 5}  k == n + 5
<1>1. k \in Nat /\ ws \in [1 .. k -> S]
  <2>1. \A i \in 1 .. n + 5 : ws[i] \in S
    OBVIOUS
  <2> HIDE DEF S
  <2> QED
    BY <2>1
<1> HIDE DEF S
<1>2. ws \in Seq(S) /\ Len(ws) = n + 5
  <2> HIDE DEF k
  <2>1. ws \in Seq(S) /\ Len(ws) = k
    BY <1>1, FunctionSeq
  <2> QED
    BY <2>1 DEF k
<1> HIDE DEF k
<1>3. /\ Body(ws) \in Seq(S) /\ Len(Body(ws)) = Len(ws) - 5
      /\ \A i \in 1 .. Len(ws) - 5 : Body(ws)[i] = ws[i + 5]
  <2>1. ws \in Seq(S) /\ Len(ws) \in Nat /\ Len(ws) >= 7
    BY ONLY <1>2, n \in Nat, n >= 2
  <2> QED
    BY ONLY <2>1 DEF Body
<1>4. Len(ws) - 5 = n
  BY ONLY <1>2, n \in Nat, n >= 2
<1>5. DOMAIN Body(ws) = 1 .. Len(Body(ws))
  BY ONLY <1>3
<1> QED
  BY <1>3, <1>4, <1>5 DEF Carries

\* A byte of some words.
ByteAt(ws, i) ==
    LET s == ws[(i + 3) \div 4][IF i % 4 \in {1, 2} THEN 1 ELSE 2]
    IN  IF i % 2 = 1 THEN High(s) ELSE Low(s)

LEMMA CutBytes ==
    ASSUME NEW ws, NEW len \in Nat
    PROVE  DOMAIN Cut(ws, len) = 1 .. len /\ \A i \in 1 .. len : Cut(ws, len)[i] = ByteAt(ws, i)
  BY DEF Cut, ByteAt

LEMMA SameBytes ==
    ASSUME NEW us, NEW ws, NEW i \in Nat, us[(i + 3) \div 4] = ws[(i + 3) \div 4]
    PROVE  ByteAt(us, i) = ByteAt(ws, i)
  BY DEF ByteAt

\* Rests of equal bytes.
LEMMA SameRest ==
    ASSUME NEW len \in Nat, len >= 28, NEW us, NEW ws, \A i \in 29 .. len : ByteAt(us, i) = ByteAt(ws, i)
    PROVE  SubSeq(Cut(us, len), 29, len) = SubSeq(Cut(ws, len), 29, len)
<1> DEFINE a == Cut(us, len)  b == Cut(ws, len)
<1>1. \A i \in 29 .. len : a[i] = b[i]
  BY CutBytes
<1> HIDE DEF a, b
<1>2. \A i \in 1 .. 1 + len - 29 : a[i + 29 - 1] = b[i + 29 - 1]
  BY <1>1
<1> QED
  BY <1>2 DEF a, b

\* The word a byte is in.
LEMMA WordOf ==
    ASSUME NEW len \in Nat, NEW i \in 1 .. len
    PROVE  /\ (i + 3) \div 4 \in 1 .. WordsFor(len)
           /\ i > 4 => (i + 3) \div 4 >= 2
           /\ i <= 4 => (i + 3) \div 4 = 1
  BY DEF WordsFor

\* The low byte of a byte.
LEMMA ByteOfByte ==
    ASSUME NEW x \in Nat
    PROVE  Low(Join(0, Low(x))) = Low(x) /\ High(Join(0, Low(x))) = 0
  BY DEF Low, High, Join

LEMMA SentIs ==
    Sent = SentOf(buffer, request) /\ Sent = [i \in 1 .. WordsFor(request.len) |-> Sent[i]]
  BY DEF Sent, SentOf

\* The words of the message of a reply.
LEMMA MessageWords ==
    ASSUME NEW f \in Datagrams, NEW wraps
    PROVE  LET n == WordsFor(TotalLen(f) - 20)
           IN  /\ DOMAIN Message(f, wraps) = 1 .. n
               /\ Message(f, wraps)[1][1] = Cleared(f[6])[1]
               /\ \A i \in 2 .. n : Message(f, wraps)[i] = f[i + 5]
<1> DEFINE n == WordsFor(TotalLen(f) - 20)
           check == MessageSum(InCsumBuf(Flat(Blank(f)), wraps), TotalLen(f) - 20)
           first == [Blank(f)[1] EXCEPT ![2] = check]
<1>1. /\ n \in Nat /\ n >= 2 /\ DOMAIN Blank(f) = 1 .. n /\ Blank(f)[1] = Cleared(f[6])
      /\ \A i \in 2 .. n : Blank(f)[i] = f[i + 5]
  BY BlankFacts
<1>2. Message(f, wraps) = [Blank(f) EXCEPT ![1] = first]
  BY DEF Message
<1>3. first[1] = Blank(f)[1][1]
  BY <1>1 DEF Cleared
<1> HIDE DEF n, first
<1>4. DOMAIN Message(f, wraps) = 1 .. n /\ Message(f, wraps)[1] = first
      /\ \A i \in 2 .. n : Message(f, wraps)[i] = Blank(f)[i]
  BY <1>1, <1>2
<1> QED
  BY <1>1, <1>3, <1>4 DEF n

\* A reply returns its message.
LEMMA ReplyReturns ==
    ASSUME NEW f, NEW wraps, built = [kind |-> "reply", datagram |-> f],
           Replies(buffer, request, f, wraps)
    PROVE  ReplyReturnsMessage
<1> DEFINE total == TotalLen(f)
           len == total - 20
           n == WordsFor(len)
           message == Message(f, wraps)
           head == IpHeader(total, 0, 128, 1, Source(f))
<1>1. f \in Datagrams /\ request.len = total /\ Carries(Sent, head, message, n)
  BY SentIs DEF Replies
<1>2. /\ total \in Nat /\ 28 <= total /\ n \in Nat /\ n >= 2 /\ WordsFor(total) = n + 5 /\ n + 5 <= Len(f)
      /\ f \in Seq(Words) /\ Len(f) \in Nat
  BY <1>1, TotalRange, BlankFacts, DatagramFacts, BodyFacts
<1>3. len \in Nat /\ 20 + len = total
  <2> HIDE DEF total
  <2> QED
    BY <1>2
<1>4. Sent = [i \in 1 .. n + 5 |-> Sent[i]]
  BY <1>1, <1>2, SentIs
<1>5. /\ message[1][1] = Cleared(f[6])[1] /\ \A i \in 2 .. n : message[i] = f[i + 5]
  BY <1>1, MessageWords
<1>6. head[5] = Source(f)
  BY HeaderFacts
<1> HIDE DEF message, head, n, len, total
<1>7. \A i \in 1 .. n : Body(Sent)[i] = message[i]
  BY <1>1, <1>2, <1>4, BodyOf
<1>8. \A i \in 1 .. n : Body(f)[i] = f[i + 5]
  <2>1. \A i \in 1 .. Len(f) - 5 : SubSeq(f, 6, Len(f))[i] = f[i + 5]
    <3>1. Len(f) >= 7
      BY <1>1, DatagramFacts
    <3> QED
      BY <1>2, <3>1
  <2> QED
    BY <1>2, <2>1 DEF Body
<1>9. Dest(Sent) = Source(f)
  BY <1>1, <1>6 DEF Carries, Dest
<1>10. f[6] \in Words /\ f[6][1] \in Nat
  <2>1. f[6] \in Words
    BY <1>1, BodyFacts
  <2> QED
    BY <2>1, WordType
<1>11. Body(Sent)[1][1] = Join(0, Low(f[6][1])) /\ Body(f)[1] = f[6]
  <2>1. 1 \in 1 .. n
    BY <1>2
  <2> QED
    BY <1>5, <1>7, <1>8, <2>1 DEF Cleared
<1>12. High(Body(Sent)[1][1]) = 0
  BY <1>10, <1>11, ByteOfByte
<1> DEFINE reply == Cut(Body(Sent), len)  ping == Cut(Body(f), len)
<1>13. ASSUME NEW i \in (1 .. len) \ {1, 3, 4} PROVE reply[i] = ping[i]
  <2>1. i \in 1 .. len /\ i \in Nat /\ reply[i] = ByteAt(Body(Sent), i) /\ ping[i] = ByteAt(Body(f), i)
    BY <1>3, CutBytes
  <2>2. /\ (i + 3) \div 4 \in 1 .. n
        /\ i > 4 => (i + 3) \div 4 >= 2
        /\ i <= 4 => (i + 3) \div 4 = 1
    BY <1>3, <2>1, WordOf DEF n
  <2>3. CASE i > 4
    <3> DEFINE j == (i + 3) \div 4
    <3>1. j \in 1 .. n /\ j \in 2 .. n
      BY <1>2, <2>2, <2>3
    <3> HIDE DEF j
    <3>2. Body(Sent)[j] = f[j + 5] /\ Body(f)[j] = f[j + 5]
      BY <1>5, <1>7, <1>8, <3>1
    <3>3. Body(Sent)[(i + 3) \div 4] = Body(f)[(i + 3) \div 4]
      BY <3>2 DEF j
    <3> QED
      BY <2>1, <3>3, SameBytes
  <2>4. CASE ~(i > 4)
    <3>1. i = 2 /\ (i + 3) \div 4 = 1 /\ i % 4 = 2 /\ i % 2 # 1
      BY <2>1, <2>2, <2>4
    <3>2. ByteAt(Body(Sent), i) = Low(Body(Sent)[1][1]) /\ ByteAt(Body(f), i) = Low(Body(f)[1][1])
      BY <3>1 DEF ByteAt
    <3> QED
      BY <1>10, <1>11, <2>1, <3>2, ByteOfByte
  <2> QED
    BY <2>3, <2>4
<1> HIDE DEF reply, ping
<1>14. \A i \in (1 .. len) \ {1, 3, 4} : reply[i] = ping[i]
  BY <1>13
<1> QED
  BY <1>1, <1>3, <1>9, <1>12, <1>14 DEF ReplyReturnsMessage, reply, ping, len, total

\* An echo carries the payload of its request.
LEMMA EchoCarries ==
    ASSUME NEW id, built = [kind |-> "echo", datagram |-> asked.datagram],
           Echoes(buffer, request, asked.datagram, id, asked.spoilt)
    PROVE  UdpCarriesItsPayload
<1> DEFINE f == asked.datagram
           total == TotalLen(f)
           n == WordsFor(total) - 5
           head == IpHeader(total, id, 128, 17, Source(f))
<1>1. PICK message :
         /\ f \in Datagrams /\ request.len = total /\ Carries(Sent, head, message, n)
         /\ message[1] = <<UdpPort, Body(f)[1][1]>> /\ message[2] = <<Body(f)[2][1], 0>>
         /\ asked.spoilt \/ PayloadOf(message, f)
  BY SentIs DEF Echoes
<1>2. /\ total \in Nat /\ 28 <= total /\ n \in Nat /\ n >= 2 /\ WordsFor(total) = n + 5 /\ n + 5 <= Len(f)
      /\ f \in Seq(Words) /\ Len(f) \in Nat
  <2> DEFINE m == WordsFor(total - 20)
  <2>1. /\ total \in Nat /\ 28 <= total /\ m \in Nat /\ m >= 2 /\ WordsFor(total) = m + 5 /\ m + 5 <= Len(f)
        /\ f \in Seq(Words) /\ Len(f) \in Nat
    BY <1>1, TotalRange, BlankFacts, DatagramFacts, BodyFacts
  <2> HIDE DEF m, f, total
  <2>2. n = m
    BY <2>1
  <2> QED
    BY <2>1, <2>2
<1>3. Sent = [i \in 1 .. n + 5 |-> Sent[i]]
  BY <1>1, <1>2, SentIs
<1>4. /\ head[1] = <<Join(69, 0), total>> /\ head[5] = Source(f)
  BY HeaderFacts
<1> HIDE DEF head, n, total, f
<1>5. \A i \in 1 .. n : Body(Sent)[i] = message[i]
  BY ONLY <1>1, <1>2, <1>3, BodyOf
<1>6. Sent[1] = head[1] /\ Sent[5] = head[5] /\ \A i \in 1 .. n : Sent[i + 5] = message[i]
  BY <1>1 DEF Carries
<1>7. Dest(Sent) = Source(f) /\ TotalLen(Sent) = total
  BY <1>4, <1>6 DEF Dest, TotalLen
<1>8. Body(Sent)[1] = message[1] /\ Body(Sent)[2] = message[2]
  <2>1. 1 \in 1 .. n /\ 2 \in 1 .. n
    BY <1>2
  <2> QED
    BY <1>5, <2>1
<1>9. ASSUME ~asked.spoilt
      PROVE  SubSeq(Cut(Sent, total), 29, total) = SubSeq(Cut(f, total), 29, total)
  <2>1. ASSUME NEW i \in 29 .. total PROVE ByteAt(Sent, i) = ByteAt(f, i)
    <3> DEFINE j == (i + 3) \div 4
    <3>1. i \in Nat /\ i \in 1 .. total /\ i >= 29
      BY <1>2, <2>1
    <3>2. j \in 1 .. WordsFor(total) /\ j >= 8
      <4>1. j \in 1 .. WordsFor(total)
        BY <1>2, <3>1, WordOf
      <4>2. j >= 8
        BY <3>1
      <4> QED
        BY <4>1, <4>2
    <3> HIDE DEF j
    <3>3. j - 5 \in 3 .. n /\ j - 5 \in 1 .. n /\ j - 5 + 5 = j
      BY <1>2, <3>2
    <3>4. message[j - 5] = f[j - 5 + 5]
      <4>1. PayloadOf(message, f)
        BY <1>1, <1>9
      <4>2. \A k \in 3 .. n : message[k] = f[k + 5]
        BY <4>1 DEF PayloadOf, n, total
      <4> QED
        BY <3>3, <4>2
    <3>5. Sent[j - 5 + 5] = message[j - 5]
      BY <1>6, <3>3
    <3>6. Sent[(i + 3) \div 4] = f[(i + 3) \div 4]
      BY <3>3, <3>4, <3>5 DEF j
    <3> QED
      BY <3>1, <3>6, SameBytes
  <2> QED
    BY <1>2, <2>1, SameRest
<1>10. built.kind = "echo"
  OBVIOUS
<1> DEFINE sent == SubSeq(Cut(Sent, total), 29, total)  asks == SubSeq(Cut(f, total), 29, total)
<1>11. ~asked.spoilt => sent = asks
  BY <1>9
<1> HIDE DEF sent, asks
<1>12. /\ Body(Sent)[1] = <<UdpPort, Body(f)[1][1]>> /\ Body(Sent)[2][1] = Body(f)[2][1]
  BY <1>1, <1>8
<1> QED
  BY <1>1, <1>7, <1>10, <1>11, <1>12 DEF UdpCarriesItsPayload, sent, asks, f, total

\* A HELLO carries its text.
LEMMA HelloCarries ==
    ASSUME NEW id, built = [kind |-> "hello", datagram |-> <<>>], Greets(buffer, request, id)
    PROVE  UdpCarriesItsPayload
<1> DEFINE x == <<UdpPort, UdpPort>>
           y == <<28, 0>>
           two == <<x, y>>
           message == two \o HelloText
           head == IpHeader(48, id, 128, 17, HelloIp)
<1>1. request.len = 48 /\ Carries(Sent, head, message, 7)
  BY SentIs DEF Greets
<1>2. WordsFor(48) = 12
  BY DEF WordsFor
<1>3. Sent = [i \in 1 .. 12 |-> Sent[i]]
  BY <1>1, <1>2, SentIs
<1> DEFINE S == {HelloText[i] : i \in 1 .. 5} \cup {x, y}
<1>4. HelloText \in Seq({HelloText[i] : i \in 1 .. 5}) /\ Len(HelloText) = 5
  BY DEF HelloText
<1>5. HelloText \in Seq(S) /\ two \in Seq(S) /\ Len(two) = 2
  <2>1. {HelloText[i] : i \in 1 .. 5} \subseteq S /\ x \in S /\ y \in S
    OBVIOUS
  <2> HIDE DEF S, x, y
  <2>2. HelloText \in Seq(S)
    BY <1>4, <2>1, SeqMonotonic
  <2>3. two \in Seq(S) /\ Len(two) = 2
    BY <2>1
  <2> QED
    BY <2>2, <2>3
<1>6. Joined(message, two, HelloText)
  <2> HIDE DEF S, two
  <2>1. message = two \o HelloText
    OBVIOUS
  <2> HIDE DEF message
  <2> QED
    BY <1>5, <2>1, Concatenated
<1> HIDE DEF message, two, S, head
<1>7. \A i \in 1 .. 5 : message[2 + i] = HelloText[i]
  <2>1. \A i \in 1 .. Len(HelloText) : message[Len(two) + i] = HelloText[i]
    BY <1>6 DEF Joined
  <2> QED
    BY ONLY <1>4, <1>5, <2>1
<1>8. \A i \in 1 .. 7 : Sent[i + 5] = message[i]
  BY <1>1 DEF Carries
<1>9. \A i \in 1 .. 5 : Sent[7 + i] = HelloText[i]
  <2> TAKE i \in 1 .. 5
  <2>1. 2 + i \in 1 .. 7 /\ 2 + i + 5 = 7 + i
    OBVIOUS
  <2> QED
    BY <1>7, <1>8, <2>1
<1>10. SubSeq(Sent, 8, 12) = HelloText
  <2>1. SubSeq(Sent, 8, 12) = [i \in 1 .. 5 |-> Sent[7 + i]]
    <3>1. 1 + 12 - 8 = 5 /\ \A i \in 1 .. 5 : i + 8 - 1 = 7 + i
      OBVIOUS
    <3>2. SubSeq(Sent, 8, 12) = [i \in 1 .. 1 + 12 - 8 |-> Sent[i + 8 - 1]]
      OBVIOUS
    <3> QED
      BY <3>1, <3>2
  <2>2. HelloText = [i \in 1 .. 5 |-> HelloText[i]]
    BY DEF HelloText
  <2> QED
    BY <1>9, <2>1, <2>2
<1>11. built.kind = "hello" /\ built.kind # "echo"
  OBVIOUS
<1> QED
  BY <1>10, <1>11 DEF UdpCarriesItsPayload

LEMMA InitSound == Init => IInv
<1> SUFFICES ASSUME Init PROVE IInv
  OBVIOUS
<1> DEFINE zero == [i \in 0 .. Depth - 1 |-> <<0, 0>>]
<1>1. Whole(zero)
  BY DEF Whole
<1> HIDE DEF zero
<1>2. buffer = Put(zero, UdpOffset + 7, HelloText)
  BY DEF Init, zero
<1>3. Whole(buffer)
  BY <1>1, <1>2, PutWhole
<1>4. AskedOK(asked)
  BY DEF Init, AskedOK
<1> QED
  BY <1>3, <1>4 DEF Init, IInv, Waiting, BuiltRight

LEMMA NextSound == IInv /\ [Next]_vars => IInv'
<1> SUFFICES ASSUME IInv, [Next]_vars PROVE IInv'
  OBVIOUS
<1>1. CASE Next
  <2>1. PICK f \in Datagrams \cup {<<>>}, idle \in BOOLEAN, tick \in BOOLEAN,
            asks \in BOOLEAN, wraps \in BOOLEAN : Pass(f, idle, tick, asks, wraps)
    BY <1>1 DEF Next
  <2> QED
    BY <2>1, PassSound
<1>2. CASE UNCHANGED vars
  BY <1>2 DEF vars, IInv, Whole, AskedOK, Waiting, BuiltRight
<1> QED
  BY <1>1, <1>2

LEMMA SoundIsRight == IInv => ReplyReturnsMessage /\ UdpCarriesItsPayload
<1> SUFFICES ASSUME IInv PROVE ReplyReturnsMessage /\ UdpCarriesItsPayload
  OBVIOUS
<1>1. BuiltRight(buffer, request, built, asked)
  BY DEF IInv
<1>2. \A k : built.kind = k /\ k # "reply" => ReplyReturnsMessage
  BY DEF ReplyReturnsMessage
<1>3. \A k : built.kind = k /\ k \notin {"echo", "hello"} => UdpCarriesItsPayload
  BY DEF UdpCarriesItsPayload
<1>4. CASE built = Nobody
  BY <1>2, <1>3, <1>4 DEF Nobody
<1>5. ASSUME NEW f, NEW wraps, built = [kind |-> "reply", datagram |-> f], Replies(buffer, request, f, wraps)
      PROVE  ReplyReturnsMessage /\ UdpCarriesItsPayload
  BY <1>3, <1>5, ReplyReturns
<1>6. ASSUME NEW f, built = [kind |-> "report", datagram |-> f]
      PROVE  ReplyReturnsMessage /\ UdpCarriesItsPayload
  BY <1>2, <1>3, <1>6
<1>7. ASSUME NEW id, built = [kind |-> "echo", datagram |-> asked.datagram],
             Echoes(buffer, request, asked.datagram, id, asked.spoilt)
      PROVE  ReplyReturnsMessage /\ UdpCarriesItsPayload
  BY <1>2, <1>7, EchoCarries
<1>8. ASSUME NEW id, built = [kind |-> "hello", datagram |-> <<>>], Greets(buffer, request, id)
      PROVE  ReplyReturnsMessage /\ UdpCarriesItsPayload
  BY <1>2, <1>8, HelloCarries
<1> QED
  BY <1>1, <1>4, <1>5, <1>6, <1>7, <1>8 DEF BuiltRight

\* layer_icmp.cpp:84-130: for every set of datagrams and every order of passes, a reply
\* goes back to the sender of the ping with the bytes of its message behind the
\* checksum, although message and header are moved over each other in one region.
THEOREM MessageComesBack == Spec => []ReplyReturnsMessage
<1>1. Init => IInv
  BY InitSound
<1>2. IInv /\ [Next]_vars => IInv'
  BY NextSound
<1>3. IInv => ReplyReturnsMessage
  BY SoundIsRight
<1> QED
  BY <1>1, <1>2, <1>3, PTL DEF Spec

\* udp_echo.cpp:168-211, layer_udp.cpp: likewise an echo carries the payload, the length
\* and the port of the request it answers, whatever is received while the request
\* waits, unless a ping longer than the regions in front of the payload comes in
\* between; and a HELLO carries its text.
THEOREM PayloadComesBack == Spec => []UdpCarriesItsPayload
<1>1. Init => IInv
  BY InitSound
<1>2. IInv /\ [Next]_vars => IInv'
  BY NextSound
<1>3. IInv => UdpCarriesItsPayload
  BY SoundIsRight
<1> QED
  BY <1>1, <1>2, <1>3, PTL DEF Spec

-------------------------------------------------------------------------------
(***************************************************************************)
(* Sums.  The library's induction theorems take an operator; what is used  *)
(* here is that a set of naturals has a least element.                     *)
(***************************************************************************)
LEMMA Least ==
    ASSUME NEW T, T \subseteq Nat, T # {}
    PROVE  \E x \in T : \A y \in T : x <= y
<1> DEFINE L == OpToRel(<, Nat)
<1>1. IsWellFoundedOn(L, Nat)
  BY NatLessThanWellFounded
<1>2. \A x, y \in Nat : <<y, x>> \in L <=> y < x
  BY DEF OpToRel
<1> HIDE DEF L
<1>3. PICK x \in T : \A y \in T : ~ (<<y, x>> \in L)
  BY <1>1, WFMin
<1>4. x \in Nat /\ \A y \in T : y \in Nat /\ ~(y < x)
  BY <1>2, <1>3
<1> QED
  BY <1>4, <1>3

\* A set with 0 in it, and with each natural the next one, has them all.
LEMMA SetInduction ==
    ASSUME NEW T, 0 \in T, \A n \in Nat : n \in T => n + 1 \in T
    PROVE  \A n \in Nat : n \in T
<1> DEFINE U == Nat \ T
<1>1. SUFFICES ASSUME U # {} PROVE FALSE
  OBVIOUS
<1>2. U \subseteq Nat
  OBVIOUS
<1> HIDE DEF U
<1>3. PICK x \in U : \A y \in U : x <= y
  BY <1>1, <1>2, Least
<1>4. x \in Nat /\ x # 0 /\ x \notin T
  BY <1>3 DEF U
<1>5. x - 1 \in Nat /\ ~(x <= x - 1)
  BY <1>4
<1>6. x - 1 \in T
  BY <1>3, <1>5 DEF U
<1>7. x - 1 + 1 \in T
  BY <1>5, <1>6
<1> QED
  BY <1>4, <1>7

\* g adds up s from the first to the last.
Adds(g, s, n) ==
    /\ DOMAIN g = 0 .. n /\ g[0] = 0
    /\ \A i \in 1 .. n : g[i] \in Nat /\ g[i] = g[i - 1] + s[i]

\* There are such sums,
LEMMA SumsExist ==
    ASSUME NEW n \in Nat, NEW s, \A i \in 1 .. n : s[i] \in Nat
    PROVE  \E g : g = [i \in 0 .. n |-> g[i]] /\ Adds(g, s, n)
<1> DEFINE T == {k \in Nat : k <= n => \E g : Adds(g, s, k)}
<1>1. 0 \in T
  <2> DEFINE g == [i \in 0 .. 0 |-> 0]
  <2>1. Adds(g, s, 0)
    BY DEF Adds
  <2> HIDE DEF g
  <2> QED
    BY <2>1
<1>2. ASSUME NEW k \in Nat, k \in T PROVE k + 1 \in T
  <2> SUFFICES ASSUME k + 1 <= n PROVE \E g : Adds(g, s, k + 1)
    BY <1>2
  <2>1. PICK h : Adds(h, s, k)
    BY <1>2
  <2>2. h[k] \in Nat
    <3>1. CASE k = 0
      BY <2>1, <3>1 DEF Adds
    <3>2. CASE k # 0
      <4>1. k \in 1 .. k
        BY <3>2
      <4> QED
        BY <2>1, <4>1 DEF Adds
    <3> QED
      BY <3>1, <3>2
  <2>3. s[k + 1] \in Nat
    BY <1>2
  <2> DEFINE g == [i \in 0 .. k + 1 |-> IF i = k + 1 THEN h[k] + s[k + 1] ELSE h[i]]
  <2>4. DOMAIN g = 0 .. k + 1 /\ g[k + 1] = h[k] + s[k + 1] /\ \A i \in 0 .. k : g[i] = h[i]
    OBVIOUS
  <2> HIDE DEF g
  <2>5. ASSUME NEW i \in 1 .. k + 1 PROVE g[i] \in Nat /\ g[i] = g[i - 1] + s[i]
    <3>1. CASE i = k + 1
      <4>1. i - 1 = k /\ k \in 0 .. k
        BY <3>1
      <4> QED
        BY <2>2, <2>3, <2>4, <3>1, <4>1
    <3>2. CASE i # k + 1
      <4>1. i \in 1 .. k /\ i - 1 \in 0 .. k /\ i \in 0 .. k
        BY <3>2
      <4> QED
        BY <2>1, <2>4, <4>1 DEF Adds
    <3> QED
      BY <3>1, <3>2
  <2>6. g[0] = 0
    <3>1. 0 \in 0 .. k
      OBVIOUS
    <3> QED
      BY <2>1, <2>4, <3>1 DEF Adds
  <2>7. Adds(g, s, k + 1)
    BY <2>4, <2>5, <2>6 DEF Adds
  <2> QED
    BY <2>7
<1> HIDE DEF T
<1>3. n \in T
  BY <1>1, <1>2, SetInduction
<1>4. PICK h : Adds(h, s, n)
  BY <1>3 DEF T
<1> DEFINE g == [i \in 0 .. n |-> h[i]]
<1>5. g = [i \in 0 .. n |-> g[i]] /\ \A i \in 0 .. n : g[i] = h[i]
  OBVIOUS
<1> HIDE DEF g
<1>6. Adds(g, s, n)
  <2>1. 0 \in 0 .. n /\ \A i \in 1 .. n : i \in 0 .. n /\ i - 1 \in 0 .. n
    OBVIOUS
  <2>2. DOMAIN g = 0 .. n
    BY <1>5
  <2> QED
    BY <1>4, <1>5, <2>1, <2>2 DEF Adds
<1> QED
  BY <1>5, <1>6

\* and Sum is the last of them.
LEMMA SumIs ==
    ASSUME NEW n \in Nat, NEW s, Len(s) = n, \A i \in 1 .. n : s[i] \in Nat
    PROVE  \E g : Adds(g, s, n) /\ Sum(s) = g[n]
<1> DEFINE Step(f) == [i \in 0 .. n |-> IF i = 0 THEN 0 ELSE f[i - 1] + s[i]]
           c == CHOOSE f : f = Step(f)
<1>1. Sum(s) = c[n]
  BY DEF Sum
<1>2. PICK h : h = [i \in 0 .. n |-> h[i]] /\ Adds(h, s, n)
  BY SumsExist
<1>3. h = Step(h)
  <2>1. \A i \in 0 .. n : h[i] = IF i = 0 THEN 0 ELSE h[i - 1] + s[i]
    <3> TAKE i \in 0 .. n
    <3>1. i = 0 \/ i \in 1 .. n
      OBVIOUS
    <3> QED
      BY <1>2, <3>1 DEF Adds
  <2> QED
    BY <1>2, <2>1
<1>4. c = Step(c)
  <2> HIDE DEF Step
  <2> QED
    BY <1>3
<1> HIDE DEF c
<1>5. DOMAIN c = 0 .. n /\ c[0] = 0 /\ \A i \in 1 .. n : c[i] = c[i - 1] + s[i]
  <2>1. 0 \in 0 .. n /\ \A i \in 1 .. n : i \in 0 .. n /\ i # 0
    OBVIOUS
  <2> QED
    BY <1>4, <2>1
<1> HIDE DEF Step
<1> DEFINE T == {k \in Nat : k <= n => c[k] \in Nat}
<1>6. 0 \in T
  BY <1>5
<1>7. ASSUME NEW k \in Nat, k \in T PROVE k + 1 \in T
  <2> SUFFICES ASSUME k + 1 <= n PROVE c[k + 1] \in Nat
    BY <1>7
  <2>1. k + 1 \in 1 .. n /\ k + 1 - 1 = k /\ c[k] \in Nat
    BY <1>7
  <2> QED
    BY <1>5, <2>1
<1> HIDE DEF T
<1>8. \A k \in Nat : k \in T
  BY <1>6, <1>7, SetInduction
<1>9. Adds(c, s, n)
  <2>1. \A i \in 1 .. n : c[i] \in Nat
    BY <1>8 DEF T
  <2> QED
    BY <1>5, <2>1 DEF Adds
<1> QED
  BY <1>1, <1>9

\* A summand that was zero adds its value.
LEMMA SumUpdate ==
    ASSUME NEW n \in Nat, NEW s, Len(s) = n, NEW t, Len(t) = n, NEW p \in 1 .. n, NEW c \in Nat,
           \A i \in 1 .. n : s[i] \in Nat, s[p] = 0, t[p] = c, \A i \in 1 .. n : i # p => t[i] = s[i]
    PROVE  Sum(t) = Sum(s) + c /\ Sum(s) \in Nat
<1>1. \A i \in 1 .. n : t[i] \in Nat
  OBVIOUS
<1>2. PICK g : Adds(g, s, n) /\ Sum(s) = g[n]
  BY SumIs
<1>3. PICK h : Adds(h, t, n) /\ Sum(t) = h[n]
  BY <1>1, SumIs
<1> DEFINE T == {k \in Nat : k <= n => h[k] = g[k] + (IF k >= p THEN c ELSE 0)}
<1>4. 0 \in T
  BY <1>2, <1>3 DEF Adds
<1>5. ASSUME NEW k \in Nat, k \in T PROVE k + 1 \in T
  <2> SUFFICES ASSUME k + 1 <= n PROVE h[k + 1] = g[k + 1] + (IF k + 1 >= p THEN c ELSE 0)
    BY <1>5
  <2>1. k + 1 \in 1 .. n /\ k + 1 - 1 = k
    OBVIOUS
  <2>2. g[k + 1] = g[k] + s[k + 1] /\ h[k + 1] = h[k] + t[k + 1] /\ s[k + 1] \in Nat /\ t[k + 1] \in Nat
        /\ g[k + 1] \in Nat
    BY <1>1, <1>2, <1>3, <2>1 DEF Adds
  <2>3. g[k] \in Nat
    <3>1. CASE k = 0
      BY <1>2, <3>1 DEF Adds
    <3>2. CASE k # 0
      <4>1. k \in 1 .. n
        BY <3>2
      <4> QED
        BY <1>2, <4>1 DEF Adds
    <3> QED
      BY <3>1, <3>2
  <2>4. h[k] = g[k] + (IF k >= p THEN c ELSE 0)
    BY <1>5
  <2>5. CASE k + 1 = p
    <3>1. ~(k >= p) /\ k + 1 >= p
      BY <2>5
    <3>2. s[k + 1] = 0 /\ t[k + 1] = c
      BY <2>5
    <3> QED
      BY <2>2, <2>3, <2>4, <3>1, <3>2
  <2>6. CASE k + 1 # p
    <3>1. t[k + 1] = s[k + 1] /\ (k >= p <=> k + 1 >= p)
      BY <2>1, <2>6
    <3> QED
      BY <2>2, <2>3, <2>4, <3>1
  <2> QED
    BY <2>5, <2>6
<1> HIDE DEF T
<1>6. n \in T
  BY <1>4, <1>5, SetInduction
<1>7. h[n] = g[n] + c
  <2>1. n >= p
    OBVIOUS
  <2> QED
    BY <1>6, <2>1 DEF T
<1>8. g[n] \in Nat
  <2>1. n \in 1 .. n
    OBVIOUS
  <2> QED
    BY <1>2, <2>1 DEF Adds
<1> QED
  BY <1>2, <1>3, <1>7, <1>8

\* Shorts and their high and low bytes.
Splits(s, h, l, n, m) ==
    /\ Len(s) = n /\ Len(h) = n /\ Len(l) = m
    /\ \A i \in 1 .. n : h[i] \in Nat
    /\ \A i \in 1 .. m : l[i] \in Nat
    /\ \A i \in 1 .. m : s[i] = 256 * h[i] + l[i]
    /\ \A i \in m + 1 .. n : s[i] = 256 * h[i]

\* Shorts add up as their bytes do; the last may lack its low byte.
LEMMA SumOfPairs ==
    ASSUME NEW n \in Nat, NEW m \in Nat, m = n \/ m + 1 = n, NEW s, NEW h, NEW l, Splits(s, h, l, n, m)
    PROVE  Sum(s) = 256 * Sum(h) + Sum(l)
<1> USE DEF Splits
<1>1. \A i \in 1 .. n : s[i] \in Nat
  <2> TAKE i \in 1 .. n
  <2>1. i \in 1 .. m \/ i \in m + 1 .. n
    OBVIOUS
  <2>2. h[i] \in Nat
    OBVIOUS
  <2>3. CASE i \in 1 .. m
    <3>1. l[i] \in Nat /\ s[i] = 256 * h[i] + l[i]
      BY <2>3
    <3> QED
      BY ONLY <2>2, <3>1
  <2>4. CASE i \in m + 1 .. n
    <3>1. s[i] = 256 * h[i]
      BY <2>4
    <3> QED
      BY ONLY <2>2, <3>1
  <2> QED
    BY <2>1, <2>3, <2>4
<1>2. PICK a : Adds(a, s, n) /\ Sum(s) = a[n]
  BY <1>1, SumIs
<1>3. PICK b : Adds(b, h, n) /\ Sum(h) = b[n]
  <2>1. Len(h) = n /\ \A i \in 1 .. n : h[i] \in Nat
    OBVIOUS
  <2> QED
    BY ONLY <2>1, n \in Nat, SumIs
<1>4. PICK c : Adds(c, l, m) /\ Sum(l) = c[m]
  <2>1. Len(l) = m /\ \A i \in 1 .. m : l[i] \in Nat
    OBVIOUS
  <2> QED
    BY ONLY <2>1, m \in Nat, SumIs
<1>5. \A k \in 0 .. n : b[k] \in Nat
  <2> TAKE k \in 0 .. n
  <2>1. k = 0 \/ k \in 1 .. n
    OBVIOUS
  <2> QED
    BY <1>3, <2>1 DEF Adds
<1>6. \A k \in 0 .. m : c[k] \in Nat
  <2> TAKE k \in 0 .. m
  <2>1. k = 0 \/ k \in 1 .. m
    OBVIOUS
  <2> QED
    BY <1>4, <2>1 DEF Adds
<1> DEFINE T == {k \in Nat : k <= m => a[k] = 256 * b[k] + c[k]}
<1>7. 0 \in T
  BY <1>2, <1>3, <1>4 DEF Adds
<1>8. ASSUME NEW k \in Nat, k \in T PROVE k + 1 \in T
  <2> SUFFICES ASSUME k + 1 <= m PROVE a[k + 1] = 256 * b[k + 1] + c[k + 1]
    BY <1>8
  <2>1. k + 1 \in 1 .. n /\ k + 1 \in 1 .. m /\ k + 1 - 1 = k /\ k \in 0 .. n /\ k \in 0 .. m
    OBVIOUS
  <2>2. a[k + 1] = a[k] + s[k + 1] /\ b[k + 1] = b[k] + h[k + 1] /\ c[k + 1] = c[k] + l[k + 1]
    <3>1. a[k + 1] = a[k] + s[k + 1]
      BY <1>2, <2>1 DEF Adds
    <3>2. b[k + 1] = b[k] + h[k + 1]
      BY <1>3, <2>1 DEF Adds
    <3>3. c[k + 1] = c[k] + l[k + 1]
      BY <1>4, <2>1 DEF Adds
    <3> QED
      BY <3>1, <3>2, <3>3
  <2>3. s[k + 1] = 256 * h[k + 1] + l[k + 1] /\ h[k + 1] \in Nat /\ l[k + 1] \in Nat
        /\ b[k] \in Nat /\ c[k] \in Nat
    BY <1>5, <1>6, <2>1
  <2>4. a[k] = 256 * b[k] + c[k]
    BY <1>8
  <2> DEFINE b0 == b[k]  c0 == c[k]  h1 == h[k + 1]  l1 == l[k + 1]
  <2>5. /\ a[k + 1] = 256 * b0 + c0 + (256 * h1 + l1) /\ b[k + 1] = b0 + h1 /\ c[k + 1] = c0 + l1
        /\ b0 \in Nat /\ c0 \in Nat /\ h1 \in Nat /\ l1 \in Nat
    BY <2>2, <2>3, <2>4
  <2> HIDE DEF b0, c0, h1, l1
  <2>6. 256 * b0 + c0 + (256 * h1 + l1) = 256 * (b0 + h1) + (c0 + l1)
    BY ONLY <2>5
  <2> QED
    BY ONLY <2>5, <2>6
<1> HIDE DEF T
<1>9. m \in T
  BY <1>7, <1>8, SetInduction
<1>10. a[m] = 256 * b[m] + c[m]
  BY <1>9 DEF T
<1>11. CASE m = n
  BY <1>2, <1>3, <1>4, <1>10, <1>11
<1>12. CASE m + 1 = n
  <2>1. n \in 1 .. n /\ n - 1 = m /\ m \in 0 .. n /\ m \in 0 .. m /\ n \in m + 1 .. n
    BY <1>12
  <2>2. a[n] = a[m] + s[n] /\ b[n] = b[m] + h[n]
    BY <1>2, <1>3, <2>1 DEF Adds
  <2>3. s[n] = 256 * h[n] /\ h[n] \in Nat /\ b[m] \in Nat /\ c[m] \in Nat
    BY <1>5, <1>6, <2>1
  <2>4. a[n] = 256 * b[n] + c[m]
    BY <1>10, <2>2, <2>3
  <2> QED
    BY <1>2, <1>3, <1>4, <2>4
<1> QED
  BY <1>11, <1>12

\* The carries that are added back change the sum by a multiple of 2^16 - 1, and leave
\* zero only of zero.
Folded(s, f) ==
    /\ f \in Nat /\ f <= 65535 /\ (s > 0 => f > 0)
    /\ \E q \in Nat : s = 65535 * q + f

LEMMA FoldIs ==
    ASSUME NEW sum \in Nat
    PROVE  Folded(sum, Fold(sum))
<1> DEFINE Step(f) == [s \in Nat |-> IF s < R THEN s ELSE f[(s % R) + (s \div R)]]
           c == CHOOSE f : f = Step(f)
<1>1. Fold(sum) = c[sum]
  BY DEF Fold
<1>2. R = 65536
  BY DEF R
<1> DEFINE h == [s \in Nat |-> IF s = 0 THEN 0 ELSE ((s - 1) % 65535) + 1]
<1>3. h = Step(h)
  <2>1. ASSUME NEW s \in Nat PROVE h[s] = IF s < R THEN s ELSE h[(s % R) + (s \div R)]
    <3>1. CASE s < 65536
      <4>1. s # 0 => (s - 1) % 65535 = s - 1
        BY <3>1
      <4> QED
        BY <1>2, <3>1, <4>1
    <3>2. CASE ~(s < 65536)
      <4> DEFINE r == s % 65536  q == s \div 65536
      <4>1. r \in Nat /\ q \in Nat /\ s = 65536 * q + r /\ q >= 1
        BY <3>2
      <4>2. h[s] = ((s - 1) % 65535) + 1
        BY <3>2
      <4> HIDE DEF r, q
      <4> DEFINE t == r + q
      <4>3. t \in Nat /\ t # 0 /\ (s - 1) % 65535 = (t - 1) % 65535
        BY <4>1
      <4> HIDE DEF t
      <4>4. h[t] = ((t - 1) % 65535) + 1
        BY <4>3
      <4>5. h[s] = h[t]
        BY <4>2, <4>3, <4>4
      <4>6. t = (s % R) + (s \div R)
        BY <1>2 DEF t, r, q
      <4> HIDE DEF h
      <4> QED
        BY <1>2, <3>2, <4>5, <4>6
    <3> QED
      BY <3>1, <3>2
  <2> HIDE DEF h
  <2>2. h = [s \in Nat |-> h[s]]
    BY DEF h
  <2> QED
    BY <2>1, <2>2
<1>4. c = Step(c)
  <2> HIDE DEF Step, h
  <2> QED
    BY <1>3
<1> HIDE DEF c
<1>5. \A s \in Nat : c[s] = IF s < 65536 THEN s ELSE c[(s % 65536) + (s \div 65536)]
  BY <1>2, <1>4
<1> HIDE DEF Step
<1> DEFINE U == {s \in Nat : ~Folded(s, c[s])}
<1>6. U = {}
  <2> SUFFICES ASSUME U # {} PROVE FALSE
    OBVIOUS
  <2>1. U \subseteq Nat
    OBVIOUS
  <2> HIDE DEF U
  <2>2. PICK s \in U : \A y \in U : s <= y
    BY <2>1, Least
  <2>3. s \in Nat /\ ~Folded(s, c[s])
    BY <2>2 DEF U
  <2>4. CASE s < 65536
    <3>1. c[s] = s
      BY <1>5, <2>3, <2>4
    <3>2. s = 65535 * 0 + s /\ 0 \in Nat
      BY <2>3
    <3> QED
      BY <2>3, <2>4, <3>1, <3>2 DEF Folded
  <2>5. CASE ~(s < 65536)
    <3> DEFINE r == s % 65536  q == s \div 65536
    <3>1. r \in Nat /\ q \in Nat /\ s = 65536 * q + r /\ q >= 1
      BY <2>3, <2>5
    <3>2. c[s] = c[r + q]
      BY <1>5, <2>3, <2>5
    <3> HIDE DEF r, q
    <3>3. r + q \in Nat /\ r + q > 0 /\ ~(s <= r + q)
      BY <3>1
    <3>4. Folded(r + q, c[r + q])
      BY <2>2, <3>3 DEF U
    <3>5. PICK k \in Nat : r + q = 65535 * k + c[r + q]
      BY <3>4 DEF Folded
    <3>6. c[r + q] \in Nat /\ c[r + q] <= 65535 /\ c[r + q] > 0
      BY <3>3, <3>4 DEF Folded
    <3>7. k + q \in Nat /\ s = 65535 * (k + q) + c[r + q]
      BY <3>1, <3>5, <3>6
    <3>8. Folded(s, c[r + q])
      BY <3>6, <3>7 DEF Folded
    <3> QED
      BY <2>3, <3>2, <3>8
  <2> QED
    BY <2>4, <2>5
<1>7. Folded(sum, c[sum])
  BY <1>6
<1> QED
  BY <1>1, <1>7

-------------------------------------------------------------------------------
(***************************************************************************)
(* What verifies.                                                          *)
(***************************************************************************)
\* A short of some words, and the shorts of their first len bytes.
ShortAt(ws, i) == ws[(i + 1) \div 2][2 - (i % 2)]

Pairs(ws, n) == \A i \in 1 .. n : ws[i][1] \in Nat /\ ws[i][2] \in Nat

Padded(s, ws, len) ==
    /\ Len(s) = (len + 1) \div 2
    /\ \A i \in 1 .. len \div 2 : s[i] = ShortAt(ws, i)
    /\ \A i \in len \div 2 + 1 .. (len + 1) \div 2 : s[i] = 256 * High(ShortAt(ws, i))

\* Shorts that add up to all ones.
Balanced(s) == Sum(s) > 0 /\ Sum(s) % 65535 = 0

LEMMA LengthOf ==
    ASSUME NEW k \in Nat, NEW s, s = [i \in 1 .. k |-> s[i]]
    PROVE  Len(s) = k
<1> DEFINE S == {s[i] : i \in 1 .. k}
<1>1. \A i \in 1 .. k : s[i] \in S
  OBVIOUS
<1> HIDE DEF S
<1>2. s \in [1 .. k -> S]
  BY <1>1
<1> QED
  BY <1>2, FunctionSeq

LEMMA ShortType ==
    ASSUME NEW n \in Nat, NEW ws, Pairs(ws, n), NEW i \in 1 .. 2 * n
    PROVE  ShortAt(ws, i) \in Nat
<1>1. (i + 1) \div 2 \in 1 .. n /\ 2 - (i % 2) \in {1, 2}
  OBVIOUS
<1> DEFINE j == (i + 1) \div 2  k == 2 - (i % 2)
<1> HIDE DEF j, k
<1>2. ws[j][k] \in Nat
  BY <1>1 DEF Pairs, j, k
<1> QED
  BY <1>2 DEF ShortAt, j, k

\* The bytes of a short.
LEMMA BytesOfShort ==
    ASSUME NEW ws, NEW i \in Nat, i >= 1
    PROVE  ByteAt(ws, 2 * i - 1) = High(ShortAt(ws, i)) /\ ByteAt(ws, 2 * i) = Low(ShortAt(ws, i))
<1>1. (2 * i - 1 + 3) \div 4 = (i + 1) \div 2 /\ (2 * i + 3) \div 4 = (i + 1) \div 2
  OBVIOUS
<1>2. (2 * i - 1) % 2 = 1 /\ (2 * i) % 2 = 0
  OBVIOUS
<1>3. CASE i % 2 = 1
  <2>1. (2 * i - 1) % 4 = 1 /\ (2 * i) % 4 = 2 /\ 2 - (i % 2) = 1
    BY <1>3
  <2> QED
    BY <1>1, <1>2, <2>1 DEF ByteAt, ShortAt
<1>4. CASE i % 2 = 0
  <2>1. (2 * i - 1) % 4 = 3 /\ (2 * i) % 4 = 0 /\ 2 - (i % 2) = 2
    BY <1>4
  <2> QED
    BY <1>1, <1>2, <2>1 DEF ByteAt, ShortAt
<1> QED
  BY <1>3, <1>4

\* Balanced shorts are bytes that verify.
LEMMA VerifiesWhen ==
    ASSUME NEW n \in Nat, NEW ws, Pairs(ws, n), NEW len \in Nat, len <= 4 * n,
           NEW s, Padded(s, ws, len), Balanced(s)
    PROVE  Verifies(Cut(ws, len))
<1> DEFINE bytes == Cut(ws, len)
           a == (len + 1) \div 2
           b == len \div 2
           h == [i \in 1 .. (Len(bytes) + 1) \div 2 |-> bytes[2 * i - 1]]
           l == [i \in 1 .. Len(bytes) \div 2 |-> bytes[2 * i]]
<1>1. Len(bytes) = len
  <2>1. bytes = [i \in 1 .. len |-> bytes[i]]
    BY DEF Cut
  <2> HIDE DEF bytes
  <2> QED
    BY <2>1, LengthOf
<1>2. \A i \in 1 .. len : bytes[i] = ByteAt(ws, i)
  BY CutBytes
<1>3. /\ a \in Nat /\ b \in Nat /\ (b = a \/ b + 1 = a) /\ a <= 2 * n
      /\ \A i \in 1 .. a : 2 * i - 1 \in 1 .. len
      /\ \A i \in 1 .. b : 2 * i \in 1 .. len /\ i \in 1 .. a
  OBVIOUS
<1> HIDE DEF bytes
<1>4. h = [i \in 1 .. a |-> bytes[2 * i - 1]] /\ l = [i \in 1 .. b |-> bytes[2 * i]]
  BY <1>1
<1>5. Verifies(bytes) <=> 256 * Sum(h) + Sum(l) > 0 /\ (256 * Sum(h) + Sum(l)) % (R - 1) = 0
  BY DEF Verifies
<1> HIDE DEF h, l
<1>6. Len(h) = a /\ Len(l) = b
  <2>1. h = [i \in 1 .. a |-> h[i]] /\ l = [i \in 1 .. b |-> l[i]]
    BY <1>4
  <2> HIDE DEF a, b
  <2> QED
    BY <1>3, <2>1, LengthOf
<1>7. ASSUME NEW i \in 1 .. a
      PROVE  ShortAt(ws, i) \in Nat /\ h[i] = High(ShortAt(ws, i))
  <2>1. i \in 1 .. 2 * n /\ i \in Nat /\ i >= 1
    BY <1>3
  <2>2. h[i] = ByteAt(ws, 2 * i - 1)
    BY <1>2, <1>3, <1>4
  <2> QED
    BY <2>1, <2>2, ShortType, BytesOfShort
<1>8. ASSUME NEW i \in 1 .. b PROVE l[i] = Low(ShortAt(ws, i))
  <2>1. i \in Nat /\ i >= 1
    BY <1>3
  <2>2. l[i] = ByteAt(ws, 2 * i)
    BY <1>2, <1>3, <1>4
  <2> QED
    BY <2>1, <2>2, BytesOfShort
<1>9. \A i \in 1 .. a : h[i] \in Nat
  BY <1>7 DEF High
<1>10. \A i \in 1 .. b : l[i] \in Nat /\ s[i] = 256 * h[i] + l[i]
  <2> TAKE i \in 1 .. b
  <2>1. i \in 1 .. a
    BY <1>3
  <2> DEFINE x == ShortAt(ws, i)
  <2>2. x \in Nat /\ h[i] = x \div 256 /\ l[i] = x % 256 /\ s[i] = x
    BY <1>7, <1>8, <2>1 DEF High, Low, Padded
  <2> HIDE DEF x
  <2> QED
    BY ONLY <2>2
<1>11. \A i \in b + 1 .. a : s[i] = 256 * h[i]
  <2> TAKE i \in b + 1 .. a
  <2>1. i \in 1 .. a
    BY <1>3
  <2> QED
    BY <1>7, <2>1 DEF Padded
<1>12. Len(s) = a
  BY DEF Padded
<1> HIDE DEF a, b
<1>13. Sum(s) = 256 * Sum(h) + Sum(l)
  <2>1. a \in Nat /\ b \in Nat /\ (b = a \/ b + 1 = a)
    BY <1>3
  <2>2. \A i \in 1 .. b : l[i] \in Nat
    BY <1>10
  <2>3. \A i \in 1 .. b : s[i] = 256 * h[i] + l[i]
    BY <1>10
  <2> QED
    <3>1. Splits(s, h, l, a, b)
      BY ONLY <1>6, <1>9, <1>11, <1>12, <2>2, <2>3 DEF Splits
    <3> QED
      BY <2>1, <3>1, SumOfPairs
<1>14. R - 1 = 65535
  BY DEF R
<1> QED
  BY <1>5, <1>13, <1>14 DEF Balanced, bytes

\* A checksum in the place of a zero balances, and
Seals(t, s, p, n) ==
    /\ Len(s) = n /\ Len(t) = n /\ s[p] = 0 /\ t[p] = Checksum(s)
    /\ \A i \in 1 .. n : s[i] \in Nat
    /\ \A i \in 1 .. n : i # p => t[i] = s[i]

LEMMA Balances ==
    ASSUME NEW n \in Nat, NEW p \in 1 .. n, NEW s, NEW t, Seals(t, s, p, n)
    PROVE  Balanced(t) /\ Checksum(s) \in Nat
<1> USE DEF Seals
<1> DEFINE c == Checksum(s)  f == Fold(Sum(s))
<1>1. PICK g : Adds(g, s, n) /\ Sum(s) = g[n]
  BY SumIs
<1>2. Sum(s) \in Nat
  BY <1>1 DEF Adds
<1>3. c = 65535 - f
  BY DEF Checksum, R
<1>4. Folded(Sum(s), f)
  BY <1>2, FoldIs
<1> HIDE DEF c, f
<1>5. f \in Nat /\ f <= 65535 /\ c \in Nat
  BY <1>3, <1>4 DEF Folded
<1>6. PICK q \in Nat : Sum(s) = 65535 * q + f
  BY <1>4 DEF Folded
<1>7. t[p] = c
  BY DEF c
<1>8. Sum(t) = Sum(s) + c
  BY <1>5, <1>7, SumUpdate
<1>9. Sum(t) = 65535 * (q + 1)
  BY <1>3, <1>5, <1>6, <1>8
<1>10. 65535 * (q + 1) > 0 /\ (65535 * (q + 1)) % 65535 = 0
  BY <1>6
<1> QED
  BY <1>5, <1>9, <1>10 DEF Balanced, c

\* what has the checksum zero balances.
LEMMA ZeroBalances ==
    ASSUME NEW n \in Nat, NEW s, Len(s) = n, \A i \in 1 .. n : s[i] \in Nat, Checksum(s) = 0
    PROVE  Balanced(s)
<1> DEFINE f == Fold(Sum(s))
<1>1. PICK g : Adds(g, s, n) /\ Sum(s) = g[n]
  BY SumIs
<1>2. Sum(s) \in Nat
  <2>1. n = 0 \/ n \in 1 .. n
    OBVIOUS
  <2> QED
    BY <1>1, <2>1 DEF Adds
<1>3. 0 = 65535 - f
  BY DEF Checksum, R
<1>4. Folded(Sum(s), f)
  BY <1>2, FoldIs
<1> HIDE DEF f
<1>5. f = 65535
  BY <1>3, <1>4 DEF Folded
<1>6. PICK q \in Nat : Sum(s) = 65535 * q + f
  BY <1>4 DEF Folded
<1>7. Sum(s) = 65535 * (q + 1) /\ 65535 * (q + 1) > 0 /\ (65535 * (q + 1)) % 65535 = 0
  BY <1>5, <1>6
<1> QED
  BY <1>7 DEF Balanced

\* The shorts of words.
LEMMA FlatIs ==
    ASSUME NEW n \in Nat, NEW ws, ws = [i \in 1 .. n |-> ws[i]]
    PROVE  /\ Flat(ws) = [i \in 1 .. 2 * n |-> ShortAt(ws, i)] /\ Len(Flat(ws)) = 2 * n
           /\ Padded(Flat(ws), ws, 4 * n)
<1>1. Len(ws) = n
  BY LengthOf
<1> DEFINE s == Flat(ws)
<1>2. s = [i \in 1 .. 2 * Len(ws) |-> ShortAt(ws, i)]
  BY DEF Flat, ShortAt
<1> HIDE DEF s
<1>3. s = [i \in 1 .. 2 * n |-> ShortAt(ws, i)]
  BY <1>1, <1>2
<1> DEFINE k == 2 * n
<1>4. k \in Nat /\ s = [i \in 1 .. k |-> s[i]]
  BY <1>3
<1> HIDE DEF k
<1>5. Len(s) = k
  BY <1>4, LengthOf
<1>6. \A i \in 1 .. k : s[i] = ShortAt(ws, i)
  BY <1>3 DEF k
<1>7. (4 * n + 1) \div 2 = k /\ (4 * n) \div 2 = k /\ k + 1 .. k = {}
  BY DEF k
<1>8. Padded(s, ws, 4 * n)
  BY <1>5, <1>6, <1>7 DEF Padded
<1> QED
  BY <1>3, <1>5, <1>8 DEF s, k

\* Words whose checksum is that of the same words without it verify.
Sealed(ws, blank, s, k, n) ==
    /\ blank[k][2] = 0 /\ ws[k][1] = blank[k][1] /\ ws[k][2] = Checksum(s)
    /\ \A i \in 1 .. n : i # k => ws[i] = blank[i]

LEMMA SealedVerifies ==
    ASSUME NEW n \in Nat, NEW blank, Pairs(blank, n), NEW k \in 1 .. n,
           NEW len \in Nat, len <= 4 * n, 4 * k <= len, NEW s, Padded(s, blank, len),
           NEW ws, Sealed(ws, blank, s, k, n)
    PROVE  Verifies(Cut(ws, len))
<1> USE DEF Sealed
<1> DEFINE a == (len + 1) \div 2
           b == len \div 2
           p == 2 * k
           c == Checksum(s)
           t == [i \in 1 .. a |-> IF i = p THEN c ELSE s[i]]
<1>1. /\ a \in Nat /\ b \in Nat /\ p \in 1 .. b /\ p \in 1 .. a /\ a <= 2 * n /\ b <= a
      /\ \A i \in 1 .. a : i \in 1 .. b \/ i \in b + 1 .. a
  OBVIOUS
<1>2. /\ t = [i \in 1 .. a |-> t[i]] /\ t[p] = c /\ \A i \in 1 .. a : i # p => t[i] = s[i]
  BY <1>1
<1>3. /\ Len(s) = a /\ \A i \in 1 .. b : s[i] = ShortAt(blank, i)
      /\ \A i \in b + 1 .. a : s[i] = 256 * High(ShortAt(blank, i))
  BY DEF Padded
<1>4. ShortAt(blank, p) = blank[k][2] /\ ShortAt(ws, p) = ws[k][2]
  <2>1. (p + 1) \div 2 = k /\ 2 - (p % 2) = 2
    OBVIOUS
  <2> QED
    BY <2>1 DEF ShortAt
<1>5. ASSUME NEW i \in 1 .. a, i # p PROVE ShortAt(ws, i) = ShortAt(blank, i)
  <2> DEFINE j == (i + 1) \div 2
  <2>1. j \in 1 .. n
    BY <1>1
  <2>2. j = k => 2 - (i % 2) = 1
    BY <1>5
  <2> HIDE DEF j
  <2>3. CASE j = k
    BY <2>2, <2>3 DEF ShortAt, j
  <2>4. CASE j # k
    <3>1. ws[j] = blank[j]
      BY <2>1, <2>4
    <3> QED
      BY <3>1 DEF ShortAt, j
  <2> QED
    BY <2>3, <2>4
<1> HIDE DEF t, c, p
<1>6. Len(t) = a
  <2> HIDE DEF a
  <2> QED
    BY <1>1, <1>2, LengthOf
<1>7. \A i \in 1 .. a : s[i] \in Nat
  <2> TAKE i \in 1 .. a
  <2>1. ShortAt(blank, i) \in Nat
    <3>1. i \in 1 .. 2 * n
      BY <1>1
    <3> QED
      BY <3>1, ShortType
  <2> QED
    BY <1>1, <1>3, <2>1 DEF High
<1>8. s[p] = 0
  BY <1>1, <1>3, <1>4
<1>9. Balanced(t) /\ c \in Nat
  <2> HIDE DEF a, b
  <2>1. t[p] = Checksum(s)
    BY <1>2 DEF c
  <2> QED
    <3>1. Seals(t, s, p, a)
      BY <1>2, <1>3, <1>6, <1>7, <1>8, <2>1 DEF Seals
    <3> QED
      BY <1>1, <3>1, Balances DEF c
<1>10. Padded(t, ws, len)
  <2>1. \A i \in 1 .. b : t[i] = ShortAt(ws, i)
    <3> TAKE i \in 1 .. b
    <3>1. i \in 1 .. a
      BY <1>1
    <3>2. i = p => ShortAt(ws, i) = c
      BY <1>4 DEF c
    <3> QED
      BY <1>2, <1>3, <1>5, <3>1, <3>2
  <2>2. \A i \in b + 1 .. a : t[i] = 256 * High(ShortAt(ws, i))
    <3> TAKE i \in b + 1 .. a
    <3>1. i \in 1 .. a /\ i # p
      BY <1>1
    <3> QED
      BY <1>2, <1>3, <1>5, <3>1
  <2> QED
    BY <1>6, <2>1, <2>2 DEF Padded
<1>11. Pairs(ws, n)
  <2> SUFFICES ASSUME NEW i \in 1 .. n PROVE ws[i][1] \in Nat /\ ws[i][2] \in Nat
    BY DEF Pairs
  <2>1. blank[i][1] \in Nat /\ blank[i][2] \in Nat /\ blank[k][1] \in Nat
    BY DEF Pairs
  <2>2. ws[k][2] \in Nat
    BY <1>9 DEF c
  <2> QED
    BY <2>1, <2>2
<1> QED
  BY <1>9, <1>10, <1>11, VerifiesWhen

\* Every header verifies.
LEMMA HeaderVerifies ==
    ASSUME NEW len \in Nat, NEW id \in Nat, NEW ttl \in Nat, NEW proto \in Nat,
           NEW dest, dest[1] \in Nat, dest[2] \in Nat,
           NEW head, head = IpHeader(len, id, ttl, proto, dest),
           NEW ws, NEW message, NEW k \in Nat, Carries(ws, head, message, k)
    PROVE  Verifies(Cut(ws, 20))
<1>0. \A i \in 1 .. 5 : ws[i] = head[i]
  BY DEF Carries
<1> DEFINE blank == HeaderBlank(len, id, ttl, proto, dest)
           s == Flat(blank)
           n == 5  p == 3  l == 20
<1>1. /\ blank[1] = <<Join(69, 0), len>> /\ blank[2] = <<id, Join(64, 0)>>
      /\ blank[3] = <<Join(ttl, proto), 0>> /\ blank[4] = BoardIp /\ blank[5] = dest
      /\ blank = [i \in 1 .. n |-> blank[i]]
  BY DEF HeaderBlank
<1>2. /\ head[1] = <<Join(69, 0), len>> /\ head[2] = <<id, Join(64, 0)>>
      /\ head[3] = <<Join(ttl, proto), Checksum(s)>> /\ head[4] = BoardIp /\ head[5] = dest
  BY HeaderFacts
<1> HIDE DEF blank
<1>3. Pairs(blank, n)
  <2>1. Join(69, 0) \in Nat /\ Join(64, 0) \in Nat /\ Join(ttl, proto) \in Nat
    BY DEF Join
  <2>2. BoardIp[1] \in Nat /\ BoardIp[2] \in Nat
    BY DEF BoardIp, Join
  <2> SUFFICES ASSUME NEW i \in 1 .. n PROVE blank[i][1] \in Nat /\ blank[i][2] \in Nat
    BY DEF Pairs
  <2>3. i \in {1, 2, 3, 4, 5}
    OBVIOUS
  <2> QED
    BY <1>1, <2>1, <2>2, <2>3
<1>4. n \in Nat /\ p \in 1 .. n /\ l \in Nat /\ l <= 4 * n /\ 4 * p <= l /\ l = 4 * n
  OBVIOUS
<1>5. blank[p][2] = 0
  BY <1>1
<1>6. ws[p][1] = blank[p][1] /\ ws[p][2] = Checksum(s)
  BY <1>0, <1>1, <1>2
<1>7. \A i \in 1 .. n : i # p => ws[i] = blank[i]
  <2> TAKE i \in 1 .. n
  <2>1. i \in {1, 2, 3, 4, 5}
    OBVIOUS
  <2> QED
    BY <1>0, <1>1, <1>2, <2>1
<1> HIDE DEF n, p
<1>8. Padded(s, blank, l)
  <2> HIDE DEF l
  <2> QED
    BY <1>1, <1>4, FlatIs
<1> HIDE DEF s, l
<1>9. Verifies(Cut(ws, l))
  <2>1. Sealed(ws, blank, s, p, n)
    BY <1>5, <1>6, <1>7 DEF Sealed
  <2> QED
    BY <1>3, <1>4, <1>8, <2>1, SealedVerifies
<1> QED
  BY <1>9 DEF l

\* The shorts a message is summed over.
Shaped(ws, n) == ws = [i \in 1 .. n |-> ws[i]] /\ Pairs(ws, n)

LEMMA MessageSumIs ==
    ASSUME NEW n \in Nat, NEW ws, Shaped(ws, n), NEW len \in Nat, len <= 4 * n
    PROVE  \E s : Padded(s, ws, len) /\ MessageSum(Flat(ws), len) = Checksum(s)
<1> DEFINE b == len \div 2
           flat == Flat(ws)
           last == Join(High(flat[b + 1]), 0)
           odd == IF len % 2 = 1 THEN <<last>> ELSE <<>>
           front == SubSeq(flat, 1, b)
           s == front \o odd
<1>1. MessageSum(flat, len) = Checksum(s)
  BY DEF MessageSum
<1>2. flat = [i \in 1 .. 2 * n |-> ShortAt(ws, i)] /\ Len(flat) = 2 * n
  BY FlatIs DEF Shaped
<1>3. b \in Nat /\ b <= 2 * n /\ (len % 2 = 1 => b + 1 <= 2 * n /\ (len + 1) \div 2 = b + 1)
      /\ (len % 2 # 1 => (len + 1) \div 2 = b)
  <2>1. b \in Nat /\ (len % 2 = 1 => len = 2 * b + 1) /\ (len % 2 # 1 => len = 2 * b)
    BY ONLY len \in Nat DEF b
  <2> HIDE DEF b
  <2>2. CASE len % 2 = 1
    <3>1. len = 2 * b + 1
      BY <2>1, <2>2
    <3>2. b <= 2 * n /\ b + 1 <= 2 * n /\ (len + 1) \div 2 = b + 1
      BY ONLY <2>1, <3>1, n \in Nat, len <= 4 * n
    <3> QED
      BY <2>1, <2>2, <3>2
  <2>3. CASE len % 2 # 1
    <3>1. len = 2 * b
      BY <2>1, <2>3
    <3>2. b <= 2 * n /\ (len + 1) \div 2 = b
      BY ONLY <2>1, <3>1, n \in Nat, len <= 4 * n
    <3> QED
      BY <2>1, <2>3, <3>2
  <2> QED
    BY <2>2, <2>3
<1> HIDE DEF flat
<1>4. \A i \in 1 .. 2 * n : flat[i] \in Nat
  BY <1>2, ShortType DEF Shaped
<1>5. flat \in Seq(Nat)
  <2> DEFINE m == 2 * n
  <2>1. m \in Nat
    OBVIOUS
  <2>2. flat = [i \in 1 .. m |-> flat[i]] /\ \A i \in 1 .. m : flat[i] \in Nat
    BY <1>2, <1>4
  <2> HIDE DEF m
  <2>3. flat \in [1 .. m -> Nat]
    BY <2>2
  <2> QED
    BY <2>1, <2>3, FunctionSeq
<1> HIDE DEF b
<1>6. front \in Seq(Nat) /\ Len(front) = b /\ \A i \in 1 .. b : front[i] = flat[i]
  <2>1. b \in Nat /\ flat \in Seq(Nat) /\ b <= Len(flat)
    BY <1>2, <1>3, <1>5
  <2> QED
    BY ONLY <2>1
<1> HIDE DEF front
<1>7. len % 2 = 1 => last \in Nat /\ last = 256 * High(flat[b + 1])
  <2> SUFFICES ASSUME len % 2 = 1 PROVE last \in Nat /\ last = 256 * High(flat[b + 1])
    OBVIOUS
  <2>1. b + 1 \in 1 .. 2 * n
    BY <1>3
  <2>2. flat[b + 1] \in Nat
    BY <1>4, <2>1
  <2> DEFINE x == flat[b + 1]
  <2> HIDE DEF x
  <2>3. x \in Nat /\ last = Join(High(x), 0)
    BY <2>2 DEF x
  <2>4. High(x) \in Nat
    BY <2>3 DEF High
  <2> QED
    BY <2>3, <2>4 DEF Join, x
<1> HIDE DEF last
<1>8. /\ odd \in Seq(Nat)
      /\ len % 2 = 1 => Len(odd) = 1 /\ odd[1] = last
      /\ len % 2 # 1 => Len(odd) = 0
  BY <1>7
<1> HIDE DEF odd
<1>9. s \in Seq(Nat) /\ Joined(s, front, odd)
  BY <1>6, <1>8, Concatenated
<1> HIDE DEF s
<1>10. Padded(s, ws, len)
  <2>1. Len(s) = b + Len(odd) /\ \A i \in 1 .. b : s[i] = front[i]
    BY <1>6, <1>9 DEF Joined
  <2>2. Len(s) = (len + 1) \div 2
    <3>1. CASE len % 2 = 1
      BY <1>3, <1>8, <2>1, <3>1
    <3>2. CASE len % 2 # 1
      BY <1>3, <1>8, <2>1, <3>2
    <3> QED
      BY <3>1, <3>2
  <2>3. \A i \in 1 .. b : s[i] = ShortAt(ws, i)
    <3> TAKE i \in 1 .. b
    <3>1. i \in 1 .. 2 * n
      BY <1>3
    <3> QED
      BY <1>2, <1>6, <2>1, <3>1
  <2>4. ASSUME NEW i \in b + 1 .. (len + 1) \div 2 PROVE s[i] = 256 * High(ShortAt(ws, i))
    <3>1. len % 2 = 1 /\ i = b + 1
      BY <1>3
    <3>2. 1 \in 1 .. Len(odd) /\ odd[1] = last
      <4>1. Len(odd) = 1 /\ odd[1] = last
        BY <1>8, <3>1
      <4> QED
        BY <4>1
    <3>3. s[Len(front) + 1] = odd[1]
      BY <1>9, <3>2 DEF Joined
    <3>4. s[i] = 256 * High(flat[i])
      BY <1>6, <1>7, <3>1, <3>2, <3>3
    <3>5. i \in 1 .. 2 * n
      BY <1>3, <3>1
    <3> QED
      BY <1>2, <3>4, <3>5
  <2> QED
    BY <2>2, <2>3, <2>4 DEF Padded, b
<1> QED
  BY <1>1, <1>10 DEF flat

\* Words with the checksum of their message in the first of them verify.
Signed(ws, blank, n, len) ==
    /\ Shaped(blank, n) /\ blank[1][2] = 0
    /\ ws[1][1] = blank[1][1] /\ ws[1][2] = MessageSum(Flat(blank), len)
    /\ \A i \in 2 .. n : ws[i] = blank[i]

LEMMA MessageVerifies ==
    ASSUME NEW n \in Nat, NEW len \in Nat, len <= 4 * n, 4 <= len,
           NEW blank, NEW ws, Signed(ws, blank, n, len)
    PROVE  Verifies(Cut(ws, len))
<1>1. PICK s : Padded(s, blank, len) /\ MessageSum(Flat(blank), len) = Checksum(s)
  <2>1. Shaped(blank, n)
    BY DEF Signed
  <2> QED
    BY <2>1, MessageSumIs
<1> DEFINE k == 1
<1>2. k \in 1 .. n /\ 4 * k <= len
  OBVIOUS
<1>3. \A i \in 1 .. n : i # k => ws[i] = blank[i]
  <2> TAKE i \in 1 .. n
  <2>1. i # k => i \in 2 .. n
    OBVIOUS
  <2> QED
    BY <2>1 DEF Signed
<1>4. blank[k][2] = 0 /\ ws[k][1] = blank[k][1] /\ ws[k][2] = Checksum(s)
  BY <1>1 DEF Signed
<1> HIDE DEF k
<1>5. Pairs(blank, n)
  BY DEF Signed, Shaped
<1> QED
  <2>1. Sealed(ws, blank, s, k, n)
    BY ONLY <1>3, <1>4 DEF Sealed
  <2> QED
    BY <1>1, <1>2, <1>5, <2>1, SealedVerifies

\* What was heard and accepted verifies.
LEMMA HeardVerifies ==
    ASSUME NEW f \in Datagrams, Accepts(f)
    PROVE  Verifies(Cut(f, 20)) /\ Dest(f) \in {BoardIp, BroadcastIp}
<1> DEFINE ws == SubSeq(f, 1, 5)
           s == Flat(ws)
           n == 5  len == 20  m == 10
<1>1. f \in Seq(Words) /\ Len(f) \in Nat /\ Len(f) >= 7
  BY DatagramFacts, BodyFacts
<1>2. ws = [i \in 1 .. n |-> ws[i]] /\ \A i \in 1 .. n : ws[i] = f[i]
  <2>1. ws = [i \in 1 .. 1 + 5 - 1 |-> f[i + 1 - 1]]
    OBVIOUS
  <2>2. \A i \in 1 .. 1 + 5 - 1 : i + 1 - 1 = i
    OBVIOUS
  <2> QED
    BY <2>1, <2>2
<1>3. Checksum(s) = 0 /\ Dest(f) \in {BoardIp, BroadcastIp}
  BY DEF Accepts
<1>4. Pairs(f, n)
  <2> SUFFICES ASSUME NEW i \in 1 .. n PROVE f[i][1] \in Nat /\ f[i][2] \in Nat
    BY DEF Pairs
  <2>1. f[i] \in Words
    BY <1>1
  <2> QED
    BY <2>1, WordType
<1> HIDE DEF ws
<1>5. n \in Nat /\ len \in Nat /\ len <= 4 * n /\ len = 4 * n /\ m = 2 * n /\ m \in Nat
      /\ (len + 1) \div 2 = m /\ len \div 2 = m /\ m + 1 .. m = {}
      /\ \A i \in 1 .. m : (i + 1) \div 2 \in 1 .. n
  OBVIOUS
<1> HIDE DEF n, len, m
<1>6. Len(s) = m /\ \A i \in 1 .. m : s[i] = ShortAt(ws, i)
  <2>1. s = [i \in 1 .. 2 * n |-> ShortAt(ws, i)] /\ Len(s) = 2 * n
    BY <1>2, <1>5, FlatIs
  <2> HIDE DEF s
  <2> QED
    BY <1>5, <2>1
<1>7. \A i \in 1 .. m : ShortAt(ws, i) = ShortAt(f, i)
  BY <1>2, <1>5 DEF ShortAt
<1> HIDE DEF s
<1>8. \A i \in 1 .. m : s[i] \in Nat
  <2> TAKE i \in 1 .. m
  <2>1. ShortAt(f, i) \in Nat
    BY <1>4, <1>5, ShortType
  <2> QED
    BY <1>6, <1>7, <2>1
<1>9. Padded(s, f, len)
  BY <1>5, <1>6, <1>7 DEF Padded
<1>10. Balanced(s)
  BY <1>3, <1>5, <1>6, <1>8, ZeroBalances
<1>11. Verifies(Cut(f, len))
  BY <1>4, <1>5, <1>9, <1>10, VerifiesWhen
<1> QED
  BY <1>3, <1>11 DEF len

\* What is sent behind a header of the board verifies in its header.
LEMMA SentVerifies ==
    ASSUME NEW len \in Nat, NEW id \in Nat, NEW ttl \in Nat, NEW proto \in Nat,
           NEW dest, dest[1] \in Nat, dest[2] \in Nat, request.len = len,
           NEW head, head = IpHeader(len, id, ttl, proto, dest), NEW message, NEW n \in Nat,
           Carries(Sent, head, message, n)
    PROVE  Verifies(Cut(Sent, 20)) /\ Sent[1][2] = request.len
<1>1. \A i \in 1 .. 5 : Sent[i] = head[i]
  BY DEF Carries
<1>2. head[1] = <<Join(69, 0), len>>
  BY HeaderFacts
<1>3. Verifies(Cut(Sent, 20))
  BY HeaderVerifies
<1>4. 1 \in 1 .. 5
  OBVIOUS
<1> QED
  BY <1>1, <1>2, <1>3, <1>4

\* The message of a ping as pairs of numbers.
LEMMA BlankPairs ==
    ASSUME NEW f \in Datagrams
    PROVE  LET n == WordsFor(TotalLen(f) - 20)
           IN  Blank(f) = [i \in 1 .. n |-> Blank(f)[i]] /\ Pairs(Blank(f), n) /\ Blank(f)[1][2] = 0
<1> DEFINE n == WordsFor(TotalLen(f) - 20)
<1>1. /\ n \in Nat /\ n + 5 <= Len(f) /\ DOMAIN Blank(f) = 1 .. n
      /\ Blank(f)[1] = Cleared(f[6])
      /\ \A i \in 2 .. n : Blank(f)[i] = f[i + 5]
  BY BlankFacts
<1>2. f \in Seq(Words) /\ Len(f) \in Nat /\ f[6] \in Words
  BY DatagramFacts, BodyFacts
<1>3. Blank(f)[1][1] \in Nat /\ Blank(f)[1][2] = 0
  <2>1. f[6][1] \in Nat
    BY <1>2, WordType
  <2>2. Blank(f)[1][1] = Join(0, Low(f[6][1])) /\ Blank(f)[1][2] = 0
    BY <1>1 DEF Cleared
  <2> DEFINE x == f[6][1]
  <2>3. x \in Nat => Join(0, Low(x)) \in Nat
    BY DEF Join, Low
  <2> QED
    BY <2>1, <2>2, <2>3
<1>4. Blank(f) = [i \in 1 .. n |-> Blank(f)[i]]
  <2> HIDE DEF n
  <2>1. Blank(f) = [i \in DOMAIN Blank(f) |-> Blank(f)[i]]
    BY DEF Blank
  <2> QED
    BY <1>1, <2>1
<1> HIDE DEF n
<1>5. Pairs(Blank(f), n)
  <2> SUFFICES ASSUME NEW i \in 1 .. n PROVE Blank(f)[i][1] \in Nat /\ Blank(f)[i][2] \in Nat
    BY DEF Pairs
  <2>1. CASE i = 1
    BY <1>3, <2>1
  <2>2. CASE i # 1
    <3>1. i \in 2 .. n /\ i + 5 \in 1 .. Len(f)
      BY <1>1, <1>2, <2>2
    <3>2. Blank(f)[i] = f[i + 5] /\ f[i + 5] \in Words
      BY <1>1, <1>2, <3>1
    <3> QED
      BY <3>2, WordType
  <2> QED
    BY <2>1, <2>2
<1> QED
  BY <1>3, <1>4, <1>5 DEF n

\* The source of a datagram is a pair of numbers.
LEMMA SourcePair ==
    ASSUME NEW f \in Datagrams
    PROVE  Source(f)[1] \in Nat /\ Source(f)[2] \in Nat
<1>1. f \in Seq(Words) /\ Len(f) \in Nat /\ Len(f) >= 7
  BY DatagramFacts, BodyFacts
<1>2. f[4] \in Words
  BY <1>1
<1> QED
  BY <1>2, WordType DEF Source

\* Every answer verifies.
LEMMA ReplyVerifies ==
    ASSUME NEW f, NEW wraps, built = [kind |-> "reply", datagram |-> f],
           Replies(buffer, request, f, wraps)
    PROVE  AnswersVerify
<1> DEFINE total == TotalLen(f)
           len == total - 20
           n == WordsFor(len)
           message == Message(f, wraps)
           source == Source(f)
           zero == 0  ttl == 128  icmp == 1
           head == IpHeader(total, zero, ttl, icmp, source)
           blank == Blank(f)
<1>1. /\ f \in Datagrams /\ Accepts(f) /\ request.len = total /\ Carries(Sent, head, message, n)
      /\ (wraps => ~Fits(f))
  BY SentIs DEF Replies
<1>2. /\ total \in Nat /\ 28 <= total /\ n \in Nat /\ n >= 2 /\ WordsFor(total) = n + 5
  BY <1>1, TotalRange, BlankFacts
<1>3. len \in Nat /\ 8 <= len /\ len <= 4 * n /\ total - 20 = len
  <2> HIDE DEF total
  <2>1. len \in Nat /\ 8 <= len /\ total - 20 = len
    BY <1>2
  <2> HIDE DEF len
  <2>2. len <= 4 * n
    BY <2>1 DEF WordsFor
  <2> QED
    BY <2>1, <2>2
<1>4. Sent = [i \in 1 .. n + 5 |-> Sent[i]]
  BY <1>1, <1>2, SentIs
<1>5. blank = [i \in 1 .. n |-> blank[i]] /\ Pairs(blank, n) /\ blank[1][2] = 0
  BY <1>1, BlankPairs
<1>6. source[1] \in Nat /\ source[2] \in Nat
  BY <1>1, SourcePair
<1>7. zero \in Nat /\ ttl \in Nat /\ icmp \in Nat
  OBVIOUS
<1>8. head = IpHeader(total, zero, ttl, icmp, source)
  OBVIOUS
<1>9. ~wraps => message = [blank EXCEPT ![1] = [blank[1] EXCEPT ![2] = MessageSum(Flat(blank), len)]]
  BY DEF Message, InCsumBuf
<1>10. blank[1] = <<blank[1][1], blank[1][2]>>
  BY <1>1, BlankFacts DEF Cleared
<1> HIDE DEF message, head, zero, ttl, icmp, source, n, len, total, blank
<1>11. Verifies(Cut(Sent, 20)) /\ Sent[1][2] = request.len
  BY <1>1, <1>2, <1>6, <1>7, <1>8, SentVerifies
<1>12. Verifies(Cut(f, 20)) /\ Dest(f) \in {BoardIp, BroadcastIp}
  BY <1>1, HeardVerifies
<1>13. ASSUME Fits(f) PROVE Verifies(Cut(Body(Sent), len))
  <2> DEFINE ws == Body(Sent)  check == MessageSum(Flat(blank), len)
  <2>1. \A i \in 1 .. n : ws[i] = message[i]
    BY <1>1, <1>2, <1>4, BodyOf
  <2> HIDE DEF ws, check
  <2>2. message = [blank EXCEPT ![1] = [blank[1] EXCEPT ![2] = check]]
    BY <1>1, <1>9, <1>13 DEF check
  <2>3. DOMAIN blank = 1 .. n /\ 1 \in 1 .. n /\ \A i \in 2 .. n : i \in 1 .. n /\ i # 1
    BY <1>2, <1>5
  <2> DEFINE first == [blank[1] EXCEPT ![2] = check]
  <2>4. first[1] = blank[1][1] /\ first[2] = check
    BY <1>10
  <2> HIDE DEF first
  <2>5. message[1] = first /\ \A i \in 2 .. n : message[i] = blank[i]
    BY <2>2, <2>3 DEF first
  <2>6. ws[1][1] = blank[1][1] /\ ws[1][2] = check /\ \A i \in 2 .. n : ws[i] = blank[i]
    BY <2>1, <2>3, <2>4, <2>5
  <2>7. Verifies(Cut(ws, len))
    <3>1. Signed(ws, blank, n, len)
      BY <1>5, <2>6 DEF Signed, Shaped, check
    <3> QED
      BY <1>2, <1>3, <3>1, MessageVerifies
  <2> QED
    BY <2>7 DEF ws
<1> QED
  BY <1>1, <1>3, <1>11, <1>12, <1>13 DEF AnswersVerify, total

LEMMA ReportVerifies ==
    ASSUME NEW f, built = [kind |-> "report", datagram |-> f], Reports(buffer, request, f)
    PROVE  AnswersVerify
<1> DEFINE total == 28
           len == 8
           n == 2
           message == ReportMessage(f)
           dest == Group
           zero == 0  ttl == 1  igmp == 2
           head == IpHeader(total, zero, ttl, igmp, dest)
           blank == BlankReport(f)
           type == Join(IF Low(Body(f)[1][1]) = 0 THEN 18 ELSE 22, 0)
<1>1. f \in Datagrams /\ Accepts(f) /\ request.len = total /\ Carries(Sent, head, message, n)
  BY SentIs DEF Reports
<1>2. /\ total \in Nat /\ n \in Nat /\ n >= 2 /\ WordsFor(total) = n + 5 /\ total - 20 = len
      /\ len \in Nat /\ len <= 4 * n /\ 4 <= len
  BY DEF WordsFor
<1>3. Sent = [i \in 1 .. n + 5 |-> Sent[i]]
  <2>1. WordsFor(request.len) = n + 5
    BY <1>1, <1>2
  <2> QED
    BY <2>1, SentIs
<1>4. dest[1] \in Nat /\ dest[2] \in Nat /\ type \in Nat
  BY DEF Group, Join
<1>5. blank = <<<<type, 0>>, dest>>
  BY DEF BlankReport
<1>6. message = [blank EXCEPT ![1] = [blank[1] EXCEPT ![2] = MessageSum(Flat(blank), len)]]
  BY DEF ReportMessage
<1>7. zero \in Nat /\ ttl \in Nat /\ igmp \in Nat /\ head = IpHeader(total, zero, ttl, igmp, dest)
  OBVIOUS
<1> HIDE DEF blank, type, message, head, dest
<1>8. /\ blank = [i \in 1 .. n |-> blank[i]] /\ blank[1] = <<type, 0>> /\ blank[2] = dest
  BY <1>5
<1>9. Pairs(blank, n)
  <2> SUFFICES ASSUME NEW i \in 1 .. n PROVE blank[i][1] \in Nat /\ blank[i][2] \in Nat
    BY DEF Pairs
  <2>1. i = 1 \/ i = 2
    OBVIOUS
  <2> QED
    BY <1>4, <1>8, <2>1
<1> DEFINE ws == Body(Sent)  check == MessageSum(Flat(blank), len)
           first == [blank[1] EXCEPT ![2] = check]
<1>10. first[1] = blank[1][1] /\ first[2] = check /\ blank[1][2] = 0
  BY <1>8
<1>11. message[1] = first /\ message[2] = blank[2]
  BY <1>6, <1>8
<1> HIDE DEF total, len, n, zero, ttl, igmp, first, check, ws
<1>12. \A i \in 1 .. n : ws[i] = message[i]
  BY <1>1, <1>2, <1>3, BodyOf DEF ws
<1>13. ws[1][1] = blank[1][1] /\ ws[1][2] = check /\ \A i \in 2 .. n : ws[i] = blank[i]
  <2>1. 1 \in 1 .. n /\ 2 \in 1 .. n /\ \A i \in 2 .. n : i = 2
    BY DEF n
  <2> QED
    BY <1>10, <1>11, <1>12, <2>1
<1>14. Verifies(Cut(ws, len))
  <2>1. Signed(ws, blank, n, len)
    BY <1>8, <1>9, <1>10, <1>13 DEF Signed, Shaped, check
  <2> QED
    BY <1>2, <2>1, MessageVerifies
<1>15. Verifies(Cut(Sent, 20)) /\ Sent[1][2] = request.len
  BY <1>1, <1>2, <1>4, <1>7, SentVerifies
<1>16. Verifies(Cut(f, 20)) /\ Dest(f) \in {BoardIp, BroadcastIp}
  BY <1>1, HeardVerifies
<1>17. Verifies(Cut(Body(Sent), request.len - 20))
  BY <1>1, <1>2, <1>14 DEF ws
<1> QED
  BY <1>15, <1>16, <1>17 DEF AnswersVerify

LEMMA EchoVerifies ==
    ASSUME NEW id, built = [kind |-> "echo", datagram |-> asked.datagram],
           Echoes(buffer, request, asked.datagram, id, asked.spoilt)
    PROVE  AnswersVerify
<1> DEFINE f == asked.datagram
           total == TotalLen(f)
           n == WordsFor(total) - 5
           source == Source(f)
           ttl == 128  udp == 17
           head == IpHeader(total, id, ttl, udp, source)
<1>1. PICK message :
         f \in Datagrams /\ Accepts(f) /\ id \in Nat /\ request.len = total /\ Carries(Sent, head, message, n)
  BY SentIs DEF Echoes
<1>2. total \in Nat /\ WordsFor(total) = WordsFor(total - 20) + 5 /\ WordsFor(total - 20) \in Nat
  BY <1>1, TotalRange, BlankFacts
<1>3. n \in Nat /\ ttl \in Nat /\ udp \in Nat
  BY <1>2
<1>4. source[1] \in Nat /\ source[2] \in Nat
  BY <1>1, SourcePair
<1>5. Verifies(Cut(f, 20)) /\ Dest(f) \in {BoardIp, BroadcastIp}
  BY <1>1, HeardVerifies
<1>6. head = IpHeader(total, id, ttl, udp, source) /\ built.kind = "echo" /\ built.datagram = f
  OBVIOUS
<1> HIDE DEF head, ttl, udp, source, n, total, f
<1>7. Verifies(Cut(Sent, 20)) /\ Sent[1][2] = request.len
  BY <1>1, <1>2, <1>3, <1>4, <1>6, SentVerifies
<1> QED
  BY <1>5, <1>6, <1>7 DEF AnswersVerify

LEMMA HelloVerifies ==
    ASSUME NEW id, built = [kind |-> "hello", datagram |-> <<>>], Greets(buffer, request, id)
    PROVE  AnswersVerify
<1> DEFINE total == 48
           message == << <<UdpPort, UdpPort>>, <<28, 0>> >> \o HelloText
           dest == HelloIp
           ttl == 128  udp == 17  n == 7
           head == IpHeader(total, id, ttl, udp, dest)
<1>1. id \in Nat /\ request.len = total /\ Carries(Sent, head, message, n)
  BY SentIs DEF Greets
<1>2. total \in Nat /\ ttl \in Nat /\ udp \in Nat /\ n \in Nat /\ head = IpHeader(total, id, ttl, udp, dest)
  OBVIOUS
<1>3. dest[1] \in Nat /\ dest[2] \in Nat
  BY DEF HelloIp, Join
<1> HIDE DEF total, message, dest, ttl, udp, n, head
<1>4. Verifies(Cut(Sent, 20)) /\ Sent[1][2] = request.len
  BY <1>1, <1>2, <1>3, SentVerifies
<1>5. built.kind = "hello"
  OBVIOUS
<1> QED
  BY <1>4, <1>5 DEF AnswersVerify

LEMMA SoundVerifies == IInv => AnswersVerify
<1> SUFFICES ASSUME IInv PROVE AnswersVerify
  OBVIOUS
<1>1. BuiltRight(buffer, request, built, asked)
  BY DEF IInv
<1>2. CASE built = Nobody
  BY <1>2 DEF AnswersVerify
<1>3. ASSUME NEW f, NEW wraps, built = [kind |-> "reply", datagram |-> f], Replies(buffer, request, f, wraps)
      PROVE  AnswersVerify
  BY <1>3, ReplyVerifies
<1>4. ASSUME NEW f, built = [kind |-> "report", datagram |-> f], Reports(buffer, request, f)
      PROVE  AnswersVerify
  BY <1>4, ReportVerifies
<1>5. ASSUME NEW id, built = [kind |-> "echo", datagram |-> asked.datagram],
             Echoes(buffer, request, asked.datagram, id, asked.spoilt)
      PROVE  AnswersVerify
  BY <1>5, EchoVerifies
<1>6. ASSUME NEW id, built = [kind |-> "hello", datagram |-> <<>>], Greets(buffer, request, id)
      PROVE  AnswersVerify
  BY <1>6, HelloVerifies
<1> QED
  BY <1>1, <1>2, <1>3, <1>4, <1>5, <1>6 DEF BuiltRight

\* layer_ip.cpp, layer_icmp.cpp, layer_igmp.cpp: for every set of datagrams, of any length, and
\* every order of passes, whatever the board builds has a header whose checksum its
\* receiver finds right and whose length is that of what is sent; so has the message of
\* a report, and that of a reply which fits csum_buf, for odd lengths as well; and what
\* it answers had a right checksum and was addressed to the board or to everybody.
THEOREM AnswersCheckOut == Spec => []AnswersVerify
<1>1. Init => IInv
  BY InitSound
<1>2. IInv /\ [Next]_vars => IInv'
  BY NextSound
<1>3. IInv => AnswersVerify
  BY SoundVerifies
<1> QED
  BY <1>1, <1>2, <1>3, PTL DEF Spec
=============================================================================
