------------------------------- MODULE IpLayers -------------------------------
(***************************************************************************)
(* What the IP layers compute: layer_ip.cpp, layer_icmp.cpp, layer_igmp.cpp *)
(* and layer_udp.cpp, called in a pass of udp_echo.cpp, with the contents  *)
(* of the transmit regions of buffer[].                                    *)
(*                                                                         *)
(* A 32-bit word is a pair of 16-bit shorts, a datagram is the sequence of *)
(* words that was staged in frame_buf.  When which layer runs and who      *)
(* reads a region while it is written is the subject of TxPath; here the   *)
(* transmitter takes a request between two passes.  Whether ARP knows an   *)
(* address is left open.                                                   *)
(***************************************************************************)
EXTENDS Integers, Sequences

CONSTANTS Datagrams,     \* what may be received
          ScratchWords,  \* words of TX_SCRATCH (64)
          UdpOffset,     \* TX_UDP_BASE - TX_SCRATCH_BASE (192)
          Depth,         \* words from TX_SCRATCH_BASE to the end of buffer[] (448)
          CsumBytes,     \* bytes of csum_buf (256)
          MaxTicks       \* HELLO ticks, in the model

R      == 2^16
Shorts == 0 .. R - 1
Words  == Shorts \X Shorts
Join(high, low) == high * 256 + low
High(s) == s \div 256
Low(s)  == s % 256

BoardIp     == <<Join(192, 168), Join(100, 2)>>
HelloIp     == <<Join(192, 168), Join(100, 1)>>
BroadcastIp == <<R - 1, R - 1>>
Group       == <<Join(239, 0), Join(0, 1)>>
UdpPort     == 8080
HelloText   == << <<18501, 19532>>, <<20256, 8224>>, <<8224, 8224>>, <<20549, 21062>>,
                  <<22604, 16706>> >>

\* A datagram as the layers see it.
TotalLen(f) == f[1][2]
Proto(f)    == Low(f[3][1])
Source(f)   == f[4]
Dest(f)     == f[5]
Body(f)     == SubSeq(f, 6, Len(f))
WordsFor(bytes) == (bytes + 3) \div 4

ASSUME LayersAssumption ==
    /\ \A f \in Datagrams :
         /\ f \in Seq(Words) /\ Len(f) >= 7
         /\ TotalLen(f) >= 28 /\ WordsFor(TotalLen(f)) <= Len(f) /\ Len(f) <= Depth
         /\ Proto(f) = 17 => f[7][1] = TotalLen(f) - 20 /\ UdpOffset + Len(f) <= Depth
    /\ ScratchWords \in Nat /\ UdpOffset \in Nat /\ Depth \in Nat
    /\ ScratchWords >= 7 /\ UdpOffset >= ScratchWords
    /\ Depth >= UdpOffset + 12 /\ CsumBytes \in Nat /\ MaxTicks \in Nat

VARIABLES buffer,    \* buffer[], from TX_SCRATCH_BASE on
          request,   \* buf_addr and buf_len of tx_req, or NoRequest
          received,  \* data_received with rx_udp_len, rx_ip_len, rx_src_*, or NoClient
          ticks,     \* tx_ip_id
          asked,     \* history: the last UDP datagram that was accepted, and whether a
                     \*          long ping has written over its payload
          built      \* history: what this pass built, and for which datagram

vars == <<buffer, request, received, ticks, asked, built>>

NoRequest == [addr |-> 0, len |-> 0]
NoClient  == [ip |-> BoardIp, port |-> 0, len |-> 0, total |-> 0]
Nobody    == [kind |-> "none", datagram |-> <<>>]

-------------------------------------------------------------------------------
(***************************************************************************)
(* Checksums.                                                              *)
(***************************************************************************)
Flat(ws) == [i \in 1 .. 2 * Len(ws) |-> ws[(i + 1) \div 2][2 - (i % 2)]]
Sum(shorts) ==
    LET f[i \in 0 .. Len(shorts)] == IF i = 0 THEN 0 ELSE f[i - 1] + shorts[i] IN f[Len(shorts)]

\* The carries are added back until none is left.
Fold(sum) == LET f[s \in Nat] == IF s < R THEN s ELSE f[(s % R) + (s \div R)] IN f[sum]

Checksum(shorts) == R - 1 - Fold(Sum(shorts))

\* icmp_checksum of the first len bytes; an odd last byte is padded.
MessageSum(shorts, len) ==
    LET odd == IF len % 2 = 1 THEN <<Join(High(shorts[len \div 2 + 1]), 0)>> ELSE <<>>
    IN  Checksum(SubSeq(shorts, 1, len \div 2) \o odd)

\* csum_buf holds CsumBytes bytes.  What is written behind its end is either there
\* when it is read back, or the index wraps and it has replaced the beginning.
InCsumBuf(shorts, wraps) ==
    LET size == CsumBytes \div 2
        n == Len(shorts)
    IN  IF ~wraps THEN shorts
        ELSE [i \in 1 .. n |-> shorts[i + size * ((n - i) \div size)]]

-------------------------------------------------------------------------------
(***************************************************************************)
(* The layers.  A builder maps buffer and request, as a record b.          *)
(***************************************************************************)
Put(buf, at, ws) == [i \in DOMAIN buf |-> IF i - at + 1 \in DOMAIN ws THEN ws[i - at + 1] ELSE buf[i]]

\* The 20 bytes in front of every answer.
IpHeader(len, id, ttl, proto, dest) ==
    LET blank == << <<Join(69, 0), len>>, <<id, Join(64, 0)>>, <<Join(ttl, proto), 0>>, BoardIp, dest >>
    IN  [blank EXCEPT ![3][2] = Checksum(Flat(blank))]

\* ip_rx_process: version and header length, checksum, destination.
Accepts(f) ==
    /\ High(f[1][1]) \div 16 = 4 /\ High(f[1][1]) % 16 = 5
    /\ Checksum(Flat(SubSeq(f, 1, 5))) = 0
    /\ Dest(f) \in {BoardIp, BroadcastIp}

\* Fault: only the upper byte of the old checksum is cleared.
Cleared_Half(w) == <<Join(0, Low(w[1])), Low(w[2])>>

\* The type becomes that of a reply and the old checksum is cleared.
Cleared(w) == <<Join(0, Low(w[1])), 0>>

\* Fault: the words are moved from the first to the last, each over one that is still
\* to be moved.
Shifted_Upwards(buf, n) == Put(buf, 5, [i \in 1 .. n |-> buf[(i - 1) % 5]])

\* Fault: the move begins behind the last word.
Shifted_OneMore(buf, n) == Put(buf, 5, [i \in 1 .. n + 1 |-> buf[i - 1]])

\* The message makes room for the header in front of it, from the last word down.
Shifted(buf, n) == Put(buf, 5, [i \in 1 .. n |-> buf[i - 1]])

\* icmp_rx_process: the message is copied, changed, summed and moved in place.
PingReply(b, f, wraps) ==
    LET len   == (TotalLen(f) - 20) % R
        n     == WordsFor(len)
        blank == [SubSeq(Body(f), 1, n) EXCEPT ![1] = Cleared(@)]
        check == MessageSum(InCsumBuf(Flat(blank), wraps), len)
        moved == Shifted(Put(b.buffer, 0, [blank EXCEPT ![1][2] = check]), n)
    IN  IF Body(f)[1][1] # Join(8, 0) THEN b
        ELSE [b EXCEPT !.buffer = Put(moved, 0, IpHeader((20 + len) % R, 0, 128, 1, Source(f))),
                       !.request = [addr |-> 0, len |-> (20 + len) % R],
                       !.built = [kind |-> "reply", datagram |-> f]]

\* igmp_rx_process: a query for all groups or for ours is answered in its version.
Report(b, f) ==
    LET version == IF Low(Body(f)[1][1]) = 0 THEN 18 ELSE 22
        blank   == << <<Join(version, 0), 0>>, Group >>
        report  == [blank EXCEPT ![1][2] = MessageSum(Flat(blank), 8)]
    IN  IF High(Body(f)[1][1]) # 17 \/ Body(f)[2] \notin {<<0, 0>>, Group} THEN b
        ELSE [b EXCEPT !.buffer = Put(Put(@, 5, report), 0, IpHeader(28, 0, 1, 2, Group)),
                       !.request = [addr |-> 0, len |-> 28],
                       !.built = [kind |-> "report", datagram |-> f]]

\* Fault: the payload is copied before the port is looked at.
Capture_Early(b, f) ==
    LET copied == [b EXCEPT !.buffer = Put(@, UdpOffset + 7, SubSeq(f, 8, Len(f)))]
    IN  IF Body(f)[1][2] # UdpPort THEN copied
        ELSE [copied EXCEPT !.received = [ip |-> Source(f), port |-> Body(f)[1][1],
                                          len |-> Body(f)[2][1], total |-> TotalLen(f)],
                            !.asked = [datagram |-> f, spoilt |-> FALSE]]

\* udp_rx_process and the copy behind it: the payload waits in the UDP region.
Capture(b, f) ==
    LET payload == (Body(f)[2][1] - 8) % R
    IN  IF Body(f)[1][2] # UdpPort THEN b
        ELSE [b EXCEPT !.buffer = Put(@, UdpOffset + 7, SubSeq(f, 8, 7 + WordsFor(payload))),
                       !.received = [ip |-> Source(f), port |-> Body(f)[1][1],
                                     len |-> Body(f)[2][1], total |-> TotalLen(f)],
                       !.asked = [datagram |-> f, spoilt |-> FALSE]]

\* The dispatch of a datagram.
Process(b, f, wraps) ==
    CASE ~Accepts(f)                       -> b
      [] Accepts(f) /\ Proto(f) = 1        -> PingReply(b, f, wraps)
      [] Accepts(f) /\ Proto(f) = 2        -> Report(b, f)
      [] Accepts(f) /\ Proto(f) = 17       -> Capture(b, f)
      [] Accepts(f) /\ Proto(f) \notin {1, 2, 17} -> b

\* arp_send_request, which is for the address of HELLO only.
ArpRequest ==
    << <<1, 2048>>, <<Join(6, 4), 1>>, <<Join(0, 10), Join(53, 1)>>, <<Join(254, 192), BoardIp[1]>>,
       <<BoardIp[2], 0>>, <<0, 0>>, HelloIp >>

\* udp_tx_process: the echo of the request that waits, else a HELLO at its tick.  The
\* payload of an echo is in the region already.  A HELLO may first ask for its address:
\* that request is replaced by its own, but the scratch region has been written.
UdpSend(b, tick, asks) ==
    LET echo  == b.received # NoClient
        c     == IF echo THEN b.received ELSE [ip |-> HelloIp, port |-> UdpPort, len |-> 28, total |-> 48]
        head  == IpHeader(c.total, b.ticks, 128, 17, c.ip) \o << <<UdpPort, c.port>>, <<c.len, 0>> >>
        first == IF asks /\ ~echo THEN Put(b.buffer, 0, ArpRequest) ELSE b.buffer
    IN  IF ~echo /\ ~tick THEN b
        ELSE [b EXCEPT !.buffer = Put(first, UdpOffset, head \o (IF echo THEN <<>> ELSE HelloText)),
                       !.request = [addr |-> UdpOffset, len |-> 20 + c.len],
                       !.built = IF echo THEN [kind |-> "echo", datagram |-> b.asked.datagram]
                                 ELSE [kind |-> "hello", datagram |-> <<>>]]

\* A pass: the transmitter takes a request if it is idle; the datagram is processed;
\* the UDP sender has its turn if the transmitter was idle and nothing is requested.
Pass(f, idle, tick, asks, wraps) ==
    LET now == [buffer |-> buffer, request |-> IF idle THEN NoRequest ELSE request,
                received |-> received, ticks |-> ticks, asked |-> asked, built |-> Nobody]
        heard == IF f = <<>> THEN now ELSE Process(now, f, wraps)
        turn  == idle /\ request = NoRequest /\ heard.request = NoRequest
        ticked == [heard EXCEPT !.ticks = IF tick THEN @ + 1 ELSE @]
        b == IF turn THEN [UdpSend(ticked, tick, asks) EXCEPT !.received = NoClient] ELSE heard
    IN  /\ wraps => f # <<>> /\ Proto(f) = 1 /\ 4 * WordsFor(TotalLen(f) - 20) > CsumBytes
        /\ tick => turn /\ ticks < MaxTicks
        /\ asks => tick /\ heard.received = NoClient
        /\ buffer' = b.buffer /\ request' = b.request /\ received' = b.received
        /\ ticks' = b.ticks /\ built' = b.built
        /\ asked' = [b.asked EXCEPT
             !.spoilt = @ \/ (b.built.kind = "reply" /\ b.request.len > 4 * (UdpOffset + 7))]

Init ==
    /\ buffer = Put([i \in 0 .. Depth - 1 |-> <<0, 0>>], UdpOffset + 7, HelloText)
    /\ request = NoRequest /\ received = NoClient /\ ticks = 0
    /\ asked = [datagram |-> <<>>, spoilt |-> FALSE] /\ built = Nobody

Next ==
    \E f \in Datagrams \cup {<<>>}, idle, tick, asks, wraps \in BOOLEAN :
        Pass(f, idle, tick, asks, wraps)

Spec == Init /\ [][Next]_vars

-------------------------------------------------------------------------------
(***************************************************************************)
(* Properties.  What is requested, as its receiver sees it.                *)
(***************************************************************************)
Sent == [i \in 1 .. WordsFor(request.len) |-> buffer[request.addr + i - 1]]

\* The first len bytes of some words; the rest of the last word is not sent.
Cut(ws, len) ==
    [i \in 1 .. len |-> LET s == ws[(i + 3) \div 4][IF i % 4 \in {1, 2} THEN 1 ELSE 2]
                        IN  IF i % 2 = 1 THEN High(s) ELSE Low(s)]

\* The receiver's check: a multiple of 2^16 - 1 in one's complement is all ones.
Verifies(bytes) ==
    LET high == Sum([i \in 1 .. (Len(bytes) + 1) \div 2 |-> bytes[2 * i - 1]])
        low  == Sum([i \in 1 .. Len(bytes) \div 2 |-> bytes[2 * i]])
        sum  == 256 * high + low
    IN  sum > 0 /\ sum % (R - 1) = 0

Fits(f) == 4 * WordsFor(TotalLen(f) - 20) <= CsumBytes

\* Everything the board sends passes the checks of its receiver: the header always,
\* the message of a reply or report too, for odd lengths as well, unless the message
\* does not fit csum_buf ("enough for any ICMP message", layer_icmp.cpp:104).  What it
\* answers has passed them too, and was addressed to the board or to everybody: a
\* membership query as routers send it, to 224.0.0.1 or to the group, is not answered.
AnswersVerify ==
    built # Nobody =>
        /\ built.kind # "hello" => /\ Verifies(Cut(built.datagram, 20))
                                  /\ Dest(built.datagram) \in {BoardIp, BroadcastIp}
        /\ Verifies(Cut(Sent, 20)) /\ Sent[1][2] = request.len
        /\ built.kind = "report" \/ (built.kind = "reply" /\ Fits(built.datagram)) =>
             Verifies(Cut(Body(Sent), request.len - 20))

\* A reply goes to the sender of the ping and is, byte for byte, its message behind
\* type and checksum, whatever lay in the scratch region before.
ReplyReturnsMessage ==
    built.kind = "reply" =>
        LET len == TotalLen(built.datagram) - 20
        IN  /\ request.len = 20 + len /\ Dest(Sent) = Source(built.datagram)
            /\ High(Body(Sent)[1][1]) = 0
            /\ LET reply == Cut(Body(Sent), len)  ping == Cut(Body(built.datagram), len)
               IN  \A i \in (1 .. len) \ {1, 3, 4} : reply[i] = ping[i]

\* An echo carries the payload, the length and the port of the request it answers,
\* whatever was received and built while it waited, unless a ping longer than the
\* regions in front of the payload came in between; a HELLO carries its text after
\* any number of echoes from the same region.
UdpCarriesItsPayload ==
    /\ built.kind = "echo" /\ ~asked.spoilt =>
         LET f == asked.datagram
         IN  /\ Dest(Sent) = Source(f) /\ TotalLen(Sent) = TotalLen(f)
             /\ Body(Sent)[1] = <<UdpPort, Body(f)[1][1]>> /\ Body(Sent)[2][1] = Body(f)[2][1]
             /\ SubSeq(Cut(Sent, TotalLen(f)), 29, TotalLen(f))
                  = SubSeq(Cut(f, TotalLen(f)), 29, TotalLen(f))
             /\ request.len = TotalLen(f)
    /\ built.kind = "hello" => SubSeq(Sent, 8, 12) = HelloText

\* The scratch region is left only by the reply to a ping that is longer than it
\* ("its own disjoint space", eth_types.h:149), and no further than
\* the reply reaches.
RegionsKept ==
    [][ built'.kind \in {"reply", "report"} =>
          \A i \in ScratchWords .. Depth - 1 :
            buffer'[i] # buffer[i] => built'.kind = "reply" /\ i < WordsFor(request'.len) ]_vars
===============================================================================
