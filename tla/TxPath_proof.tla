----------------------------- MODULE TxPath_proof -----------------------------
(***************************************************************************)
(* Proofs about the arbitration of the transmitter, for any clients, any   *)
(* length of the TCP queue and any number of DHCP repetitions.  The parts  *)
(* of a pass map records to records: a lemma per part says what it leaves  *)
(* alone and what it builds, and the invariant follows from their chain.   *)
(***************************************************************************)
EXTENDS TxPath, TLAPS

DhcpStates == {"idle", "discover", "wait offer", "request", "wait ack", "done", "failed"}
Parts    == [head : Marks, body : Marks]
Requests == {NoRequest} \cup [region : Regions, mark : Marks]
Macs     == {IdleMac} \cup [region : Regions, mark : Marks, left : 0 .. 2, seen : SUBSET Marks]
State    == [region : [Regions -> Parts], request : Requests, mac : Macs,
             received : Clients \cup {NoClient}, arpPending : BOOLEAN,
             chunks : 0 .. QueueMax, dhcp : [state : DhcpStates, tries : 0 .. Retries]]

Echoes == {Echo(c) : c \in Clients}

\* What the other senders may leave in a gated frame.
Intruders == {Control} \cup Echoes

\* A gated request is pending while the transmitter is idle.
GateHeld(b) == b.request.mark \in Gated => b.mac = IdleMac

\* The payload that waits, or is requested, for an echo.
PayloadKept(b) ==
    /\ b.received \in Clients => b.region["udp"].body \in {Echo(b.received), Control}
    /\ \A c \in Clients : b.request.mark = Echo(c) => b.region["udp"].body \in {Echo(c), Control}

\* The region of a gated frame that is requested or under way, and what of it went out.
GatedKept(b) ==
    /\ b.request.mark \in Gated =>
         /\ b.request.region = "udp"
         /\ b.region["udp"].head \in {b.request.mark} \cup Intruders
         /\ b.region["udp"].body \in {b.request.mark} \cup Intruders
    /\ b.mac.mark \in Gated =>
         /\ b.mac.region = "udp"
         /\ b.region["udp"].head \in {b.mac.mark} \cup Intruders
         /\ b.region["udp"].body \in {b.mac.mark} \cup Intruders
         /\ b.mac.seen \subseteq {b.mac.mark} \cup Intruders

\* The same for a DHCP message, which nobody disturbs.
DhcpKept(b) ==
    /\ b.request.mark = Dhcp => b.request.region = "dhcp" /\ b.region["dhcp"] = [head |-> Dhcp, body |-> Dhcp]
    /\ b.mac.mark = Dhcp =>
         /\ b.mac.region = "dhcp" /\ b.region["dhcp"] = [head |-> Dhcp, body |-> Dhcp]
         /\ b.mac.seen \subseteq {Dhcp}

\* The messages built so far, by the state of the client.
Counted(d, n) ==
    /\ d.state \in {"idle", "discover", "wait offer", "failed"}
    /\ d.state = "idle" => n = 0 /\ d.tries = 0
    /\ d.state = "discover" => n = d.tries
    /\ d.state = "wait offer" => n = d.tries + 1
    /\ d.state = "failed" => n = Retries + 1

IInv ==
    /\ Now \in State /\ asks \in Nat
    /\ GateHeld(Now) /\ PayloadKept(Now) /\ GatedKept(Now) /\ DhcpKept(Now)
    /\ Counted(dhcp, asks)

-------------------------------------------------------------------------------
\* The marks are told apart by their kind.
LEMMA MarksDiffer ==
    /\ {Boot, Hello, Arp, Answer, Dhcp, Tcp, Control} \cup Echoes = Marks
    /\ Boot \notin Gated /\ Arp \notin Gated /\ Answer \notin Gated /\ Dhcp \notin Gated
    /\ Control \notin Gated /\ Hello \in Gated /\ Tcp \in Gated
    /\ Boot # Dhcp /\ Hello # Dhcp /\ Tcp # Dhcp /\ Answer # Dhcp /\ Control # Dhcp /\ Arp # Dhcp
    /\ \A c : /\ Echo(c) # Boot /\ Echo(c) # Dhcp /\ Echo(c) # Hello /\ Echo(c) # Tcp
              /\ Echo(c) # Control /\ Echo(c) # Answer
    /\ \A c \in Clients : Echo(c) \in Gated
    /\ \A c, d \in Clients : Echo(c) = Echo(d) => c = d
  BY DEF Echoes, Marks, Boot, Hello, Arp, Answer, Dhcp, Tcp, Control, Echo, Mark, Gated

\* An idle transmitter is one without a region, a request names a region.
LEMMA IdleHasNoRegion ==
    /\ \A m \in Macs : m.region = "none" <=> m = IdleMac
    /\ \A q \in Requests : q = NoRequest <=> q.region = "none"
    /\ NoRequest \in Requests /\ IdleMac \in Macs /\ NoRequest.mark = Boot /\ IdleMac.mark = Boot
  BY DEF Macs, Requests, IdleMac, NoRequest, Regions

-------------------------------------------------------------------------------
\* A builder changes a region and the request.
LEMMA BuildFacts ==
    ASSUME NEW b \in State, NEW r \in Regions, NEW m \in Marks
    PROVE  /\ Build(b, r, m) \in State
           /\ Build(b, r, m).region = [b.region EXCEPT ![r] = [head |-> m, body |-> m]]
           /\ Build(b, r, m).request = [region |-> r, mark |-> m]
           /\ Build(b, r, m).mac = b.mac /\ Build(b, r, m).received = b.received
           /\ Build(b, r, m).chunks = b.chunks /\ Build(b, r, m).dhcp = b.dhcp
           /\ Build(b, r, m).arpPending = b.arpPending
<1> DEFINE reg == [b.region EXCEPT ![r] = [head |-> m, body |-> m]]
           req == [region |-> r, mark |-> m]
<1>1. reg \in [Regions -> Parts] /\ req \in Requests
  BY DEF State, Parts, Requests
<1>2. Build(b, r, m) = [[b EXCEPT !.region = reg] EXCEPT !.request = req]
  BY DEF Build
<1> HIDE DEF reg, req
<1>3. Build(b, r, m) = [region |-> reg, request |-> req, mac |-> b.mac, received |-> b.received,
                        arpPending |-> b.arpPending, chunks |-> b.chunks, dhcp |-> b.dhcp]
  BY <1>2 DEF State
<1>4. Build(b, r, m) \in State
  BY <1>1, <1>3 DEF State
<1>5. /\ Build(b, r, m).region = reg /\ Build(b, r, m).request = req
      /\ Build(b, r, m).mac = b.mac /\ Build(b, r, m).received = b.received
      /\ Build(b, r, m).chunks = b.chunks /\ Build(b, r, m).dhcp = b.dhcp
      /\ Build(b, r, m).arpPending = b.arpPending
  BY <1>3
<1> QED
  BY <1>1, <1>4, <1>5 DEF reg, req

\* A step of the transmitter takes the request, goes on with its frame or ends it.
LEMMA TransmitFacts ==
    ASSUME NEW b \in State, NEW advance \in BOOLEAN
    PROVE  LET t == Transmit(b, advance)
           IN  /\ t \in State
               /\ t.region = b.region /\ t.received = b.received /\ t.dhcp = b.dhcp /\ t.chunks = b.chunks
               /\ b.mac = IdleMac /\ b.request = NoRequest => t = b
               /\ b.mac = IdleMac /\ b.request # NoRequest =>
                    /\ t.request = NoRequest
                    /\ t.mac = [region |-> b.request.region, mark |-> b.request.mark,
                                left |-> 2, seen |-> {}]
               /\ b.mac # IdleMac =>
                    /\ t.request = b.request
                    /\ \/ t.mac = IdleMac
                       \/ /\ t.mac.region = b.mac.region /\ t.mac.mark = b.mac.mark
                          /\ t.mac.seen \subseteq b.mac.seen \cup {b.region[b.mac.region].head,
                                                                   b.region[b.mac.region].body}
<1> DEFINE m == b.mac
           t == Transmit(b, advance)
<1>1. CASE m = IdleMac /\ b.request # NoRequest
  <2> DEFINE taken == [region |-> b.request.region, mark |-> b.request.mark, left |-> 2, seen |-> {}]
  <2>1. taken \in Macs
    BY <1>1 DEF State, Requests, Macs
  <2>2. t = [b EXCEPT !.request = NoRequest, !.mac = taken]
    BY <1>1 DEF Transmit
  <2> HIDE DEF taken
  <2>3. t = [region |-> b.region, request |-> NoRequest, mac |-> taken, received |-> b.received,
             arpPending |-> b.arpPending, chunks |-> b.chunks, dhcp |-> b.dhcp]
    BY <2>2 DEF State
  <2> QED
    BY <1>1, <2>1, <2>3, IdleHasNoRegion DEF State, taken
<1>2. CASE m # IdleMac /\ advance /\ m.left \in {1, 2}
  <2> DEFINE p == b.region[m.region]
             next == IF m.left = 2 THEN [m EXCEPT !.left = 1, !.seen = {p.head}]
                     ELSE [m EXCEPT !.left = 0, !.seen = @ \cup {p.body}]
  <2>1. /\ m \in [region : Regions, mark : Marks, left : 0 .. 2, seen : SUBSET Marks]
        /\ p \in Parts
    BY <1>2 DEF State, Macs
  <2>2. t = [b EXCEPT !.mac = next]
    BY <1>2 DEF Transmit
  <2>3. p.head \in Marks /\ p.body \in Marks
    BY <2>1 DEF Parts
  <2>4. /\ next \in [region : Regions, mark : Marks, left : 0 .. 2, seen : SUBSET Marks]
        /\ next.region = m.region /\ next.mark = m.mark
        /\ next.seen \subseteq m.seen \cup {p.head, p.body}
    <3> HIDE DEF m, p
    <3>1. CASE m.left = 2
      <4>1. next = [region |-> m.region, mark |-> m.mark, left |-> 1, seen |-> {p.head}]
        BY <2>1, <3>1
      <4> QED
        BY <2>1, <2>3, <4>1
    <3>2. CASE m.left # 2
      <4>1. next = [region |-> m.region, mark |-> m.mark, left |-> 0, seen |-> m.seen \cup {p.body}]
        BY <2>1, <3>2
      <4> QED
        BY <2>1, <2>3, <4>1
    <3> QED
      BY <3>1, <3>2
  <2>6. next \in Macs
    BY <2>4 DEF Macs
  <2> HIDE DEF next
  <2>7. t = [region |-> b.region, request |-> b.request, mac |-> next, received |-> b.received,
             arpPending |-> b.arpPending, chunks |-> b.chunks, dhcp |-> b.dhcp]
    BY <2>2 DEF State
  <2>8. t \in State
    BY <2>6, <2>7 DEF State
  <2>9. /\ t.region = b.region /\ t.received = b.received /\ t.dhcp = b.dhcp /\ t.chunks = b.chunks
        /\ t.request = b.request /\ t.mac = next
    BY <2>7
  <2> QED
    BY <1>2, <2>4, <2>8, <2>9
<1>3. CASE m # IdleMac /\ advance /\ m.left = 0
  <2>1. t = [b EXCEPT !.mac = IdleMac]
    BY <1>3 DEF Transmit
  <2>2. t = [region |-> b.region, request |-> b.request, mac |-> IdleMac, received |-> b.received,
             arpPending |-> b.arpPending, chunks |-> b.chunks, dhcp |-> b.dhcp]
    BY <2>1 DEF State
  <2>3. t \in State
    BY <2>2, IdleHasNoRegion DEF State
  <2>4. /\ t.region = b.region /\ t.received = b.received /\ t.dhcp = b.dhcp /\ t.chunks = b.chunks
        /\ t.request = b.request /\ t.mac = IdleMac
    BY <2>2
  <2> QED
    BY <1>3, <2>3, <2>4
<1>4. CASE (m = IdleMac /\ b.request = NoRequest) \/ (m # IdleMac /\ ~advance)
  <2>1. t = b
    BY <1>4 DEF Transmit
  <2> QED
    BY <1>4, <2>1
<1>5. m # IdleMac => m.left \in {0, 1, 2}
  BY DEF State, Macs
<1> QED
  BY <1>1, <1>2, <1>3, <1>4, <1>5

-------------------------------------------------------------------------------
\* A received frame is answered from the scratch region, leaves the payload of a UDP
\* request, joins the TCP queue, is answered from the UDP region, or does nothing.
LEMMA ProcessFacts ==
    ASSUME NEW b \in State, NEW f \in Frames
    PROVE  LET p == Process(b, f)
           IN  /\ p \in State /\ p.mac = b.mac /\ p.dhcp = b.dhcp
               /\ p.region["dhcp"] = b.region["dhcp"]
               /\ \/ /\ p.region["udp"] = b.region["udp"] /\ p.received = b.received
                     /\ p.request = b.request \/ p.request = [region |-> "scratch", mark |-> Answer]
                  \/ /\ f.client \in Clients /\ p.received = f.client /\ p.request = b.request
                     /\ p.region["udp"] = [head |-> b.region["udp"].head, body |-> Echo(f.client)]
                  \/ /\ p.region["udp"] = [head |-> Control, body |-> Control]
                     /\ p.received = b.received /\ p.request = [region |-> "udp", mark |-> Control]
<1> DEFINE p == Process(b, f)
<1>1. CASE f.kind \in {"none", "offer", "ack"}
  <2>1. p = b
    BY <1>1 DEF Process, PortOpen
  <2> QED
    BY <2>1
<1>2. CASE f.kind = "answered"
  <2>1. p = Build(b, "scratch", Answer)
    BY <1>2 DEF Process
  <2>2. Answer \in Marks /\ "scratch" \in Regions
    BY MarksDiffer DEF Regions
  <2>3. /\ p \in State /\ p.request = [region |-> "scratch", mark |-> Answer]
        /\ p.region = [b.region EXCEPT !["scratch"] = [head |-> Answer, body |-> Answer]]
        /\ p.mac = b.mac /\ p.dhcp = b.dhcp /\ p.received = b.received
    BY <2>1, <2>2, BuildFacts
  <2>4. /\ p.region["dhcp"] = b.region["dhcp"]
        /\ p.region["udp"] = b.region["udp"]
    BY <2>3 DEF State, Regions
  <2> QED
    BY <2>3, <2>4
<1>3. CASE f.kind = "udp"
  <2>1. f.client \in Clients /\ Echo(f.client) \in Marks /\ "udp" \in Regions
    BY <1>3 DEF Frames, Marks, Regions
  <2> DEFINE reg == [b.region EXCEPT !["udp"].body = Echo(f.client)]
  <2>2. p = [[b EXCEPT !.region = reg] EXCEPT !.received = f.client]
    BY <1>3 DEF Process
  <2>3. /\ reg \in [Regions -> Parts]
        /\ reg["udp"] = [head |-> b.region["udp"].head, body |-> Echo(f.client)]
        /\ reg["dhcp"] = b.region["dhcp"]
    BY <2>1 DEF State, Parts, Regions
  <2> HIDE DEF reg
  <2>4. p = [region |-> reg, request |-> b.request, mac |-> b.mac, received |-> f.client,
             arpPending |-> b.arpPending, chunks |-> b.chunks, dhcp |-> b.dhcp]
    BY <2>2 DEF State
  <2>5. p \in State
    BY <2>1, <2>3, <2>4 DEF State
  <2>6. /\ p.region = reg /\ p.request = b.request /\ p.mac = b.mac /\ p.received = f.client
        /\ p.dhcp = b.dhcp
    BY <2>4
  <2> QED
    BY <2>1, <2>3, <2>5, <2>6
<1>4. CASE f.kind = "tcp data"
  <2> DEFINE n == IF b.chunks < QueueMax THEN b.chunks + 1 ELSE b.chunks
  <2>1. p = [b EXCEPT !.chunks = n]
    BY <1>4 DEF Process
  <2>2. n \in 0 .. QueueMax
    BY PathAssumption DEF State
  <2> HIDE DEF n
  <2>3. p = [region |-> b.region, request |-> b.request, mac |-> b.mac, received |-> b.received,
             arpPending |-> b.arpPending, chunks |-> n, dhcp |-> b.dhcp]
    BY <2>1 DEF State
  <2>4. p \in State
    BY <2>2, <2>3 DEF State
  <2>5. /\ p.region = b.region /\ p.request = b.request /\ p.mac = b.mac
        /\ p.received = b.received /\ p.dhcp = b.dhcp
    BY <2>3
  <2> QED
    BY <2>4, <2>5
<1>5. CASE f.kind = "tcp control"
  <2>1. p = Build(b, "udp", Control)
    BY <1>5 DEF Process
  <2>2. Control \in Marks /\ "udp" \in Regions
    BY MarksDiffer DEF Regions
  <2>3. /\ p \in State /\ p.request = [region |-> "udp", mark |-> Control]
        /\ p.region = [b.region EXCEPT !["udp"] = [head |-> Control, body |-> Control]]
        /\ p.mac = b.mac /\ p.dhcp = b.dhcp /\ p.received = b.received
    BY <2>1, <2>2, BuildFacts
  <2>4. /\ p.region["dhcp"] = b.region["dhcp"]
        /\ p.region["udp"] = [head |-> Control, body |-> Control]
    BY <2>3 DEF State, Regions
  <2> QED
    BY <2>3, <2>4
<1>6. f.kind \in Kinds
  BY PathAssumption DEF Frames
<1> QED
  BY <1>1, <1>2, <1>3, <1>4, <1>5, <1>6 DEF Kinds

\* DHCP changes its state, or builds a message if nothing is requested.
LEMMA DhcpFacts ==
    ASSUME NEW b \in State, NEW timer \in Timers
    PROVE  LET d == DhcpTurn(b, timer)
           IN  /\ d \in State /\ d.mac = b.mac /\ d.received = b.received
               /\ d.region["udp"] = b.region["udp"]
               /\ \A n \in Nat : Counted(b.dhcp, n) =>
                    Counted(d.dhcp, IF d.request.mark = Dhcp /\ b.request = NoRequest THEN n + 1 ELSE n)
               /\ \/ d.region = b.region /\ d.request = b.request
                  \/ /\ b.request = NoRequest /\ d.request = [region |-> "dhcp", mark |-> Dhcp]
                     /\ d.region["dhcp"] = [head |-> Dhcp, body |-> Dhcp]
<1> DEFINE d == DhcpTurn(b, timer)
           state == IF timer = "start" /\ b.dhcp.state = "idle" THEN "discover" ELSE b.dhcp.state
           late  == timer = "timeout" /\ state \in {"wait offer", "wait ack"}
           again == IF state = "wait offer" THEN "discover" ELSE "request"
           next  == IF b.dhcp.tries < Retries THEN [state |-> again, tries |-> b.dhcp.tries + 1]
                    ELSE [state |-> "failed", tries |-> 0]
           after == IF state = "discover" THEN "wait offer" ELSE "wait ack"
           asked == [b.dhcp EXCEPT !.state = after]
<1>0. /\ b.dhcp \in [state : DhcpStates, tries : 0 .. Retries] /\ state \in DhcpStates
      /\ Retries \in Nat
  BY PathAssumption DEF State, DhcpStates
<1>1. CASE b.request # NoRequest
  <2>1. d = b
    BY <1>1 DEF DhcpTurn
  <2> QED
    BY <1>1, <2>1
<1>2. CASE b.request = NoRequest /\ late
  <2>1. d = [b EXCEPT !.dhcp = next]
    BY <1>2 DEF DhcpTurn
  <2>2. next \in [state : DhcpStates, tries : 0 .. Retries]
    <3>1. again \in DhcpStates /\ "failed" \in DhcpStates /\ b.dhcp.tries \in 0 .. Retries
      BY <1>0 DEF DhcpStates
    <3> HIDE DEF again
    <3> QED
      BY <1>0, <3>1
  <2>3. \A n \in Nat : Counted(b.dhcp, n) => Counted(next, n)
    <3> SUFFICES ASSUME NEW n \in Nat, Counted(b.dhcp, n) PROVE Counted(next, n)
      OBVIOUS
    <3>1. state = "wait offer" /\ b.dhcp.state = "wait offer" /\ n = b.dhcp.tries + 1
      BY <1>2, <1>0 DEF Counted
    <3>2. CASE b.dhcp.tries < Retries
      <4>1. next = [state |-> "discover", tries |-> b.dhcp.tries + 1]
        BY <3>1, <3>2
      <4> QED
        BY <3>1, <4>1 DEF Counted
    <3>3. CASE ~(b.dhcp.tries < Retries)
      <4>1. next = [state |-> "failed", tries |-> 0] /\ b.dhcp.tries = Retries
        BY <1>0, <3>3
      <4> QED
        BY <3>1, <4>1 DEF Counted
    <3> QED
      BY <3>2, <3>3
  <2> HIDE DEF next
  <2>4. d = [region |-> b.region, request |-> b.request, mac |-> b.mac, received |-> b.received,
             arpPending |-> b.arpPending, chunks |-> b.chunks, dhcp |-> next]
    BY <2>1 DEF State
  <2>5. d \in State
    BY <2>2, <2>4 DEF State
  <2>6. /\ d.region = b.region /\ d.request = b.request /\ d.mac = b.mac
        /\ d.received = b.received /\ d.dhcp = next
    BY <2>4
  <2>7. d.request.mark # Dhcp
    BY <1>2, <2>6, MarksDiffer, IdleHasNoRegion
  <2> QED
    BY <2>3, <2>5, <2>6, <2>7
<1>3. CASE b.request = NoRequest /\ ~late /\ state \in {"discover", "request"}
  <2> DEFINE c == Build(b, "dhcp", Dhcp)
  <2>1. Dhcp \in Marks /\ "dhcp" \in Regions
    BY MarksDiffer DEF Regions
  <2>2. /\ c \in State /\ c.dhcp = b.dhcp /\ c.mac = b.mac /\ c.received = b.received
        /\ c.request = [region |-> "dhcp", mark |-> Dhcp]
        /\ c.region = [b.region EXCEPT !["dhcp"] = [head |-> Dhcp, body |-> Dhcp]]
    BY <2>1, BuildFacts
  <2>3. d = [c EXCEPT !.dhcp = [c.dhcp EXCEPT !.state = after]]
    BY <1>3 DEF DhcpTurn
  <2> HIDE DEF c
  <2>4. d = [c EXCEPT !.dhcp = asked]
    <3>1. [c.dhcp EXCEPT !.state = after] = asked
      BY <2>2
    <3> QED
      BY <2>3, <3>1
  <2>5. asked = [state |-> after, tries |-> b.dhcp.tries]
    <3> HIDE DEF after
    <3> QED
      BY <1>0
  <2>6. asked \in [state : DhcpStates, tries : 0 .. Retries]
    BY <1>0, <2>5 DEF DhcpStates
  <2>7. \A n \in Nat : Counted(b.dhcp, n) => Counted(asked, n + 1)
    <3> SUFFICES ASSUME NEW n \in Nat, Counted(b.dhcp, n) PROVE Counted(asked, n + 1)
      OBVIOUS
    <3>1. state = "discover" /\ n = b.dhcp.tries
      BY <1>3, <1>0 DEF Counted
    <3>2. asked = [state |-> "wait offer", tries |-> n]
      BY <2>5, <3>1
    <3> QED
      BY <3>2 DEF Counted
  <2> HIDE DEF asked
  <2>8. d = [region |-> c.region, request |-> c.request, mac |-> c.mac, received |-> c.received,
             arpPending |-> c.arpPending, chunks |-> c.chunks, dhcp |-> asked]
    BY <2>2, <2>4 DEF State
  <2>9. d \in State
    <3> HIDE DEF d
    <3> QED
      BY <2>2, <2>6, <2>8 DEF State
  <2>10. /\ d.region = c.region /\ d.request = c.request /\ d.mac = c.mac
         /\ d.received = c.received /\ d.dhcp = asked
    BY <2>8
  <2>11. d.region["udp"] = b.region["udp"] /\ d.region["dhcp"] = [head |-> Dhcp, body |-> Dhcp]
    BY <2>2, <2>10 DEF State, Regions
  <2>12. d.request.mark = Dhcp
    BY <2>2, <2>10
  <2> QED
    BY <1>3, <2>2, <2>7, <2>9, <2>10, <2>11, <2>12
<1>4. CASE b.request = NoRequest /\ ~late /\ state \notin {"discover", "request"}
  <2>1. d = b
    BY <1>4 DEF DhcpTurn
  <2>2. d.request.mark # Dhcp
    BY <1>4, <2>1, MarksDiffer, IdleHasNoRegion
  <2> QED
    BY <2>1, <2>2
<1> QED
  BY <1>1, <1>2, <1>3, <1>4

\* The UDP sender consumes the flag whenever the gate is open, and sends an echo of
\* what the flag names, or a HELLO.
LEMMA UdpFacts ==
    ASSUME NEW b \in State, NEW busy \in BOOLEAN, NEW hello \in BOOLEAN, NEW known \in BOOLEAN
    PROVE  LET u == UdpTurn(b, busy, hello, known)
           IN  /\ u \in State /\ u.mac = b.mac /\ u.dhcp = b.dhcp
               /\ u.region["dhcp"] = b.region["dhcp"]
               /\ \/ u = b /\ (b.request # NoRequest \/ busy)
                  \/ /\ b.request = NoRequest /\ ~busy /\ u.received = NoClient
                     /\ \/ u.request = NoRequest /\ u.region["udp"] = b.region["udp"]
                        \/ /\ u.request = [region |-> "udp", mark |-> Hello]
                           /\ u.region["udp"] = [head |-> Hello, body |-> Hello]
                        \/ /\ b.received \in Clients
                           /\ u.request = [region |-> "udp", mark |-> Echo(b.received)]
                           /\ u.region["udp"] = [head |-> Echo(b.received),
                                                 body |-> b.region["udp"].body]
<1> DEFINE u == UdpTurn(b, busy, hello, known)
           s == UdpSend(b, hello, known)
           miss  == ~known /\ b.received = NoClient /\ ~b.arpPending
           asked == IF miss THEN Build(b, "scratch", Arp) ELSE b
           head  == IF b.received # NoClient THEN Echo(b.received) ELSE Hello
           body  == IF b.received = NoClient THEN Hello ELSE asked.region["udp"].body
           open  == IF known THEN FALSE ELSE asked.arpPending \/ miss
           reg   == [asked.region EXCEPT !["udp"] = [head |-> head, body |-> body]]
           req   == [region |-> "udp", mark |-> head]
<1>1. CASE b.request # NoRequest \/ busy
  <2>1. u = b
    BY <1>1 DEF UdpTurn
  <2> QED
    BY <1>1, <2>1
<1>2. CASE b.request = NoRequest /\ ~busy
  <2>1. u = [s EXCEPT !.received = NoClient]
    BY <1>2 DEF UdpTurn
  <2>2. Arp \in Marks /\ Hello \in Marks /\ "scratch" \in Regions /\ "udp" \in Regions /\ "dhcp" \in Regions
    BY MarksDiffer DEF Regions
  <2>3. /\ asked \in State /\ asked.mac = b.mac /\ asked.received = b.received
        /\ asked.dhcp = b.dhcp /\ asked.chunks = b.chunks
        /\ asked.region["udp"] = b.region["udp"] /\ asked.region["dhcp"] = b.region["dhcp"]
    <3>1. CASE miss
      <4>1. asked = Build(b, "scratch", Arp)
        BY <3>1
      <4>2. /\ asked \in State /\ asked.mac = b.mac /\ asked.received = b.received
            /\ asked.dhcp = b.dhcp /\ asked.chunks = b.chunks
            /\ asked.region = [b.region EXCEPT !["scratch"] = [head |-> Arp, body |-> Arp]]
        <5> DEFINE c == Build(b, "scratch", Arp)
        <5>0. Arp \in Marks /\ "scratch" \in Regions
          BY <2>2
        <5>1. /\ c \in State /\ c.mac = b.mac /\ c.received = b.received
              /\ c.dhcp = b.dhcp /\ c.chunks = b.chunks
              /\ c.region = [b.region EXCEPT !["scratch"] = [head |-> Arp, body |-> Arp]]
          <6> HIDE DEF u, s, miss, asked, head, body, open, reg, req
          <6>1. c \in State
            BY <5>0, BuildFacts
          <6>2. c.mac = b.mac /\ c.received = b.received /\ c.dhcp = b.dhcp /\ c.chunks = b.chunks
            BY <5>0, BuildFacts
          <6>3. c.region = [b.region EXCEPT !["scratch"] = [head |-> Arp, body |-> Arp]]
            BY <5>0, BuildFacts
          <6> QED
            BY <6>1, <6>2, <6>3
        <5>2. asked = c
          BY <4>1
        <5> HIDE DEF asked, c
        <5> QED
          BY <5>1, <5>2
      <4>3. asked.region["udp"] = b.region["udp"] /\ asked.region["dhcp"] = b.region["dhcp"]
        BY <4>2 DEF State, Regions
      <4> QED
        BY <4>2, <4>3
    <3>2. CASE ~miss
      BY <3>2
    <3> QED
      BY <3>1, <3>2
  <2>4. CASE b.received = NoClient /\ ~hello
    <3>1. u = [b EXCEPT !.received = NoClient]
      BY <2>1, <2>4 DEF UdpSend
    <3>2. u = b
      BY <3>1, <2>4 DEF State
    <3> QED
      BY <1>2, <2>4, <3>2
  <2>5. CASE ~(b.received = NoClient /\ ~hello)
    <3>1. s = [asked EXCEPT !.arpPending = open, !.region = reg, !.request = req]
      BY <2>5 DEF UdpSend
    <3>2. head \in Marks /\ body \in Marks /\ open \in BOOLEAN
      BY <2>2, <2>3 DEF State, Parts, Marks
    <3>3. /\ reg \in [Regions -> Parts] /\ req \in Requests
          /\ reg["udp"] = [head |-> head, body |-> body] /\ reg["dhcp"] = b.region["dhcp"]
      <4> HIDE DEF asked, head, body
      <4> QED
        BY <2>2, <2>3, <3>2 DEF State, Parts, Requests, Regions
    <3> HIDE DEF asked, open, reg, req
    <3>4. s = [region |-> reg, request |-> req, mac |-> asked.mac, received |-> asked.received,
               arpPending |-> open, chunks |-> asked.chunks, dhcp |-> asked.dhcp]
      BY <2>3, <3>1 DEF State
    <3>5. u = [region |-> reg, request |-> req, mac |-> b.mac, received |-> NoClient,
               arpPending |-> open, chunks |-> b.chunks, dhcp |-> b.dhcp]
      <4> HIDE DEF s
      <4> QED
        BY <2>1, <2>3, <3>4
    <3>6. u \in State
      BY <3>2, <3>3, <3>5 DEF State
    <3>7. /\ u.region = reg /\ u.request = req /\ u.mac = b.mac /\ u.received = NoClient
          /\ u.dhcp = b.dhcp
      BY <3>5
    <3>8. CASE b.received = NoClient
      <4>1. req = [region |-> "udp", mark |-> Hello] /\ reg["udp"] = [head |-> Hello, body |-> Hello]
        BY <3>3, <3>8 DEF req
      <4> QED
        BY <1>2, <3>3, <3>6, <3>7, <4>1
    <3>9. CASE b.received # NoClient
      <4>1. /\ req = [region |-> "udp", mark |-> Echo(b.received)]
            /\ reg["udp"] = [head |-> Echo(b.received), body |-> b.region["udp"].body]
            /\ b.received \in Clients
        BY <2>3, <3>3, <3>9 DEF req, State
      <4> QED
        BY <1>2, <3>3, <3>6, <3>7, <4>1
    <3> QED
      BY <3>8, <3>9
  <2> QED
    BY <2>4, <2>5
<1> QED
  BY <1>1, <1>2

\* The TCP queue is served if nobody requested before.
LEMMA TcpFacts ==
    ASSUME NEW b \in State, NEW busy \in BOOLEAN
    PROVE  LET v == TcpTurn(b, busy)
           IN  /\ v \in State /\ v.mac = b.mac /\ v.dhcp = b.dhcp /\ v.received = b.received
               /\ v.region["dhcp"] = b.region["dhcp"]
               /\ \/ v = b
                  \/ /\ b.request = NoRequest /\ ~busy
                     /\ v.request = [region |-> "udp", mark |-> Tcp]
                     /\ v.region["udp"] = [head |-> Tcp, body |-> Tcp]
<1> DEFINE v == TcpTurn(b, busy)
           c == Build(b, "udp", Tcp)
           n == c.chunks - 1
<1>1. CASE b.request = NoRequest /\ ~busy /\ b.chunks > 0
  <2>1. Tcp \in Marks /\ "udp" \in Regions
    BY MarksDiffer DEF Regions
  <2>2. /\ c \in State /\ c.dhcp = b.dhcp /\ c.mac = b.mac /\ c.received = b.received
        /\ c.request = [region |-> "udp", mark |-> Tcp] /\ c.chunks = b.chunks
        /\ c.region = [b.region EXCEPT !["udp"] = [head |-> Tcp, body |-> Tcp]]
    BY <2>1, BuildFacts
  <2>3. v = [c EXCEPT !.chunks = n]
    BY <1>1 DEF TcpTurn
  <2>4. n \in 0 .. QueueMax
    BY <1>1, <2>2, PathAssumption DEF State
  <2> HIDE DEF c, n
  <2>5. v = [region |-> c.region, request |-> c.request, mac |-> c.mac, received |-> c.received,
             arpPending |-> c.arpPending, chunks |-> n, dhcp |-> c.dhcp]
    BY <2>2, <2>3 DEF State
  <2>6. v \in State
    <3> HIDE DEF v
    <3> QED
      BY <2>2, <2>4, <2>5 DEF State
  <2>7. /\ v.region = c.region /\ v.request = c.request /\ v.mac = c.mac
        /\ v.received = c.received /\ v.dhcp = c.dhcp
    BY <2>5
  <2>8. c.region["udp"] = [head |-> Tcp, body |-> Tcp] /\ c.region["dhcp"] = b.region["dhcp"]
    BY <2>2 DEF State, Regions
  <2> QED
    BY <1>1, <2>2, <2>6, <2>7, <2>8
<1>2. CASE ~(b.request = NoRequest /\ ~busy /\ b.chunks > 0)
  <2>1. v = b
    BY <1>2 DEF TcpTurn
  <2> QED
    BY <2>1
<1> QED
  BY <1>1, <1>2

-------------------------------------------------------------------------------
\* The transmitter takes a gated request: none is left for the parts behind it.
LEMMA TransmitKeeps ==
    ASSUME NEW b \in State, NEW advance \in BOOLEAN,
           GateHeld(b), PayloadKept(b), GatedKept(b), DhcpKept(b)
    PROVE  LET t == Transmit(b, advance)
           IN  t.request.mark \notin Gated /\ PayloadKept(t) /\ GatedKept(t) /\ DhcpKept(t)
<1> DEFINE t == Transmit(b, advance)
<1>1. CASE b.mac = IdleMac /\ b.request = NoRequest
  <2>1. t = b
    BY <1>1, TransmitFacts
  <2>2. b.request.mark \notin Gated
    BY <1>1, MarksDiffer, IdleHasNoRegion
  <2> QED
    BY <2>1, <2>2
<1>2. CASE b.mac = IdleMac /\ b.request # NoRequest
  <2>0. /\ t.region = b.region /\ t.received = b.received /\ t.request = NoRequest
        /\ t.mac = [region |-> b.request.region, mark |-> b.request.mark, left |-> 2, seen |-> {}]
    BY <1>2, TransmitFacts
  <2>1. /\ t.region = b.region /\ t.received = b.received /\ t.request = NoRequest
        /\ t.mac.region = b.request.region /\ t.mac.mark = b.request.mark /\ t.mac.seen = {}
    <3> HIDE DEF t
    <3> QED
      BY <2>0
  <2>2. t.request.mark = Boot
    BY <2>1, IdleHasNoRegion
  <2> HIDE DEF t
  <2>3. PayloadKept(t)
    BY <2>1, <2>2, MarksDiffer DEF PayloadKept
  <2>4. GatedKept(t)
    BY <2>1, <2>2, MarksDiffer DEF GatedKept
  <2>5. DhcpKept(t)
    BY <2>1, <2>2, MarksDiffer DEF DhcpKept
  <2> QED
    BY <2>2, <2>3, <2>4, <2>5, MarksDiffer DEF t
<1>3. CASE b.mac # IdleMac
  <2>1. /\ t.region = b.region /\ t.received = b.received /\ t.request = b.request
        /\ \/ t.mac = IdleMac
           \/ /\ t.mac.region = b.mac.region /\ t.mac.mark = b.mac.mark
              /\ t.mac.seen \subseteq b.mac.seen \cup {b.region[b.mac.region].head,
                                                       b.region[b.mac.region].body}
    BY <1>3, TransmitFacts
  <2>2. t.request.mark \notin Gated
    BY <1>3, <2>1 DEF GateHeld
  <2>3. IdleMac.mark = Boot
    BY IdleHasNoRegion
  <2> HIDE DEF t
  <2>4. PayloadKept(t)
    BY <2>1 DEF PayloadKept
  <2>5. GatedKept(t)
    BY <2>1, <2>2, <2>3, MarksDiffer DEF GatedKept
  <2>6. DhcpKept(t)
    BY <2>1, <2>3, MarksDiffer DEF DhcpKept
  <2> QED
    BY <2>2, <2>4, <2>5, <2>6 DEF t
<1> QED
  BY <1>1, <1>2, <1>3

\* What is received and what DHCP builds keep it so.
LEMMA InputKeeps ==
    ASSUME NEW b \in State, NEW f \in Frames,
           b.request.mark \notin Gated, PayloadKept(b), GatedKept(b), DhcpKept(b)
    PROVE  LET p == Process(b, f)
           IN  p.request.mark \notin Gated /\ PayloadKept(p) /\ GatedKept(p) /\ DhcpKept(p)
<1> DEFINE p == Process(b, f)
<1>1. /\ p.mac = b.mac /\ p.region["dhcp"] = b.region["dhcp"]
      /\ \/ /\ p.region["udp"] = b.region["udp"] /\ p.received = b.received
            /\ p.request = b.request \/ p.request = [region |-> "scratch", mark |-> Answer]
         \/ /\ f.client \in Clients /\ p.received = f.client /\ p.request = b.request
            /\ p.region["udp"] = [head |-> b.region["udp"].head, body |-> Echo(f.client)]
         \/ /\ p.region["udp"] = [head |-> Control, body |-> Control]
            /\ p.received = b.received /\ p.request = [region |-> "udp", mark |-> Control]
  BY ProcessFacts
<1>2. \A c \in Clients : Echo(c) \in Intruders /\ Control \in Intruders
  BY DEF Intruders, Echoes
<1> HIDE DEF p
<1>3. p.request.mark \notin Gated
  BY <1>1, MarksDiffer
<1>4. PayloadKept(p)
  <2>1. \A c \in Clients : p.request.mark # Echo(c)
    BY <1>3, MarksDiffer
  <2>2. p.received \in Clients => p.region["udp"].body \in {Echo(p.received), Control}
    BY <1>1 DEF PayloadKept
  <2> QED
    BY <2>1, <2>2 DEF PayloadKept
<1>5. GatedKept(p)
  <2> SUFFICES ASSUME b.mac.mark \in Gated
               PROVE  /\ p.mac.region = "udp" /\ p.mac.seen \subseteq {p.mac.mark} \cup Intruders
                      /\ p.region["udp"].head \in {p.mac.mark} \cup Intruders
                      /\ p.region["udp"].body \in {p.mac.mark} \cup Intruders
    BY <1>1, <1>3 DEF GatedKept
  <2>1. /\ p.mac.region = "udp" /\ p.mac.seen \subseteq {p.mac.mark} \cup Intruders
        /\ b.region["udp"].head \in {p.mac.mark} \cup Intruders
        /\ b.region["udp"].body \in {p.mac.mark} \cup Intruders
    BY <1>1 DEF GatedKept
  <2>2. \/ p.region["udp"] = b.region["udp"]
        \/ /\ f.client \in Clients
           /\ p.region["udp"] = [head |-> b.region["udp"].head, body |-> Echo(f.client)]
        \/ p.region["udp"] = [head |-> Control, body |-> Control]
    BY <1>1
  <2>3. Control \in Intruders
    BY DEF Intruders
  <2> QED
    BY <1>2, <2>1, <2>2, <2>3
<1>6. DhcpKept(p)
  BY <1>1, MarksDiffer DEF DhcpKept
<1> QED
  BY <1>3, <1>4, <1>5, <1>6 DEF p

LEMMA DhcpKeeps ==
    ASSUME NEW b \in State, NEW timer \in Timers,
           b.request.mark \notin Gated, PayloadKept(b), GatedKept(b), DhcpKept(b)
    PROVE  LET d == DhcpTurn(b, timer)
           IN  d.request.mark \notin Gated /\ PayloadKept(d) /\ GatedKept(d) /\ DhcpKept(d)
<1> DEFINE d == DhcpTurn(b, timer)
<1>1. /\ d.mac = b.mac /\ d.received = b.received /\ d.region["udp"] = b.region["udp"]
      /\ \/ d.region["dhcp"] = b.region["dhcp"] /\ d.request = b.request
         \/ /\ d.request = [region |-> "dhcp", mark |-> Dhcp]
            /\ d.region["dhcp"] = [head |-> Dhcp, body |-> Dhcp]
  BY DhcpFacts
<1> HIDE DEF d
<1>2. d.request.mark \notin Gated
  BY <1>1, MarksDiffer
<1>3. PayloadKept(d)
  BY <1>1, <1>2, MarksDiffer DEF PayloadKept
<1>4. GatedKept(d)
  BY <1>1, <1>2 DEF GatedKept
<1>5. DhcpKept(d)
  BY <1>1 DEF DhcpKept
<1> QED
  BY <1>2, <1>3, <1>4, <1>5 DEF d

\* The gated senders build only while the transmitter is idle, and TCP only behind an
\* open gate of UDP that left no flag and no request.
LEMMA SendersKeep ==
    ASSUME NEW b \in State, NEW busy \in BOOLEAN, NEW hello \in BOOLEAN, NEW known \in BOOLEAN,
           busy \/ b.mac = IdleMac,
           b.request.mark \notin Gated, PayloadKept(b), GatedKept(b), DhcpKept(b)
    PROVE  LET v == TcpTurn(UdpTurn(b, busy, hello, known), busy)
           IN  /\ v \in State /\ v.mac = b.mac /\ v.dhcp = b.dhcp
               /\ GateHeld(v) /\ PayloadKept(v) /\ GatedKept(v) /\ DhcpKept(v)
<1> DEFINE u == UdpTurn(b, busy, hello, known)
           v == TcpTurn(u, busy)
           sent == /\ b.request = NoRequest /\ ~busy /\ u.received = NoClient
                   /\ \/ u.request = NoRequest /\ u.region["udp"] = b.region["udp"]
                      \/ /\ u.request = [region |-> "udp", mark |-> Hello]
                         /\ u.region["udp"] = [head |-> Hello, body |-> Hello]
                      \/ /\ b.received \in Clients
                         /\ u.request = [region |-> "udp", mark |-> Echo(b.received)]
                         /\ u.region["udp"] = [head |-> Echo(b.received),
                                               body |-> b.region["udp"].body]
<1>1. /\ u \in State /\ u.mac = b.mac /\ u.dhcp = b.dhcp
      /\ u.region["dhcp"] = b.region["dhcp"]
      /\ (u = b /\ (b.request # NoRequest \/ busy)) \/ sent
  BY UdpFacts
<1>2. /\ v \in State /\ v.mac = u.mac /\ v.dhcp = u.dhcp /\ v.received = u.received /\ v.region["dhcp"] = u.region["dhcp"]
      /\ \/ v = u
         \/ /\ u.request = NoRequest /\ ~busy /\ v.request = [region |-> "udp", mark |-> Tcp]
            /\ v.region["udp"] = [head |-> Tcp, body |-> Tcp]
  <2> HIDE DEF u, sent
  <2> QED
    BY <1>1, TcpFacts
<1>3. IdleMac.mark = Boot /\ NoRequest.mark = Boot /\ NoClient \notin Clients
  BY IdleHasNoRegion, PathAssumption
<1>4. \A c \in Clients : Echo(c) \in Intruders /\ Control \in Intruders
  BY DEF Intruders, Echoes
<1> SUFFICES GateHeld(v) /\ PayloadKept(v) /\ GatedKept(v) /\ DhcpKept(v)
  <2>1. v \in State /\ v.mac = b.mac /\ v.dhcp = b.dhcp
    <3> HIDE DEF u, v, sent
    <3> QED
      BY <1>1, <1>2
  <2> QED
    BY <2>1
<1> HIDE DEF u, v
<1>5. GateHeld(u) /\ PayloadKept(u) /\ GatedKept(u) /\ DhcpKept(u)
  <2>1. CASE u = b
    BY <2>1 DEF GateHeld
  <2>2. CASE sent
    <3>1. u.mac = IdleMac /\ u.received \notin Clients
      BY <1>1, <1>3, <2>2
    <3>2. PayloadKept(u)
      BY <1>3, <2>2, <3>1, MarksDiffer DEF PayloadKept
    <3>3. GatedKept(u)
      <4>1. CASE u.request = NoRequest
        BY <1>3, <3>1, <4>1, MarksDiffer DEF GatedKept
      <4>2. CASE /\ u.request = [region |-> "udp", mark |-> Hello]
                 /\ u.region["udp"] = [head |-> Hello, body |-> Hello]
        BY <1>3, <3>1, <4>2, MarksDiffer DEF GatedKept
      <4>3. CASE /\ b.received \in Clients
                 /\ u.request = [region |-> "udp", mark |-> Echo(b.received)]
                 /\ u.region["udp"] = [head |-> Echo(b.received), body |-> b.region["udp"].body]
        <5>1. b.region["udp"].body \in Intruders
          BY <1>4, <4>3 DEF PayloadKept
        <5> QED
          BY <1>3, <3>1, <4>3, <5>1, MarksDiffer DEF GatedKept
      <4> QED
        BY <2>2, <4>1, <4>2, <4>3
    <3>4. DhcpKept(u)
      BY <1>1, <1>3, <2>2, <3>1, MarksDiffer DEF DhcpKept
    <3> QED
      BY <3>1, <3>2, <3>3, <3>4 DEF GateHeld
  <2> QED
    BY <1>1, <2>1, <2>2
<1>6. CASE v = u
  BY <1>5, <1>6
<1>7. CASE /\ u.request = NoRequest /\ ~busy /\ v.request = [region |-> "udp", mark |-> Tcp]
           /\ v.region["udp"] = [head |-> Tcp, body |-> Tcp]
  <2>1. v.mac = IdleMac /\ v.received \notin Clients
    BY <1>1, <1>2, <1>3, <1>7
  <2>2. PayloadKept(v)
    BY <1>7, <2>1, MarksDiffer DEF PayloadKept
  <2>3. GatedKept(v)
    BY <1>3, <1>7, <2>1, MarksDiffer DEF GatedKept
  <2>4. DhcpKept(v)
    BY <1>3, <1>7, <2>1, MarksDiffer DEF DhcpKept
  <2> QED
    BY <2>1, <2>2, <2>3, <2>4 DEF GateHeld
<1> QED
  BY <1>2, <1>6, <1>7

-------------------------------------------------------------------------------
LEMMA InitIInv == Init => IInv
<1> SUFFICES ASSUME Init PROVE IInv
  OBVIOUS
<1> DEFINE boot == [head |-> Boot, body |-> Boot]
<1>1. Now = [region |-> [r \in Regions |-> boot], request |-> NoRequest, mac |-> IdleMac,
             received |-> NoClient, arpPending |-> FALSE, chunks |-> 0,
             dhcp |-> [state |-> "idle", tries |-> 0]]
  BY DEF Init, Now
<1>2. boot \in Parts
  BY MarksDiffer DEF Parts
<1>3. Now \in State
  <2> HIDE DEF boot
  <2> QED
    BY <1>1, <1>2, PathAssumption, IdleHasNoRegion DEF State, DhcpStates
<1>4. /\ Now.mac.mark = Boot /\ Now.request.mark = Boot /\ Now.mac = IdleMac
      /\ Now.received \notin Clients
  BY <1>1, IdleHasNoRegion, PathAssumption
<1> HIDE DEF boot
<1>5. GateHeld(Now) /\ PayloadKept(Now) /\ GatedKept(Now) /\ DhcpKept(Now)
  BY <1>4, MarksDiffer DEF GateHeld, PayloadKept, GatedKept, DhcpKept
<1>6. Counted(dhcp, asks) /\ asks \in Nat
  BY DEF Init, Counted
<1> QED
  BY <1>3, <1>5, <1>6 DEF IInv

\* Every pass keeps the invariant, and takes a gated request.
LEMMA PassKeeps ==
    ASSUME IInv, NEW f \in Frames, NEW advance \in BOOLEAN, NEW timer \in Timers,
           NEW known \in BOOLEAN, Pass(f, advance, timer, known)
    PROVE  IInv' /\ (request.mark \in Gated => mac'.mark = request.mark /\ mac'.left = 2)
<1>0. /\ Now \in State /\ asks \in Nat /\ GateHeld(Now) /\ PayloadKept(Now)
      /\ GatedKept(Now) /\ DhcpKept(Now) /\ Counted(dhcp, asks)
  BY DEF IInv
<1>1. PICK busy, hello \in BOOLEAN : (busy <=> Busy) /\ hello = (timer = "hello")
  BY DEF Busy
<1>2. /\ Now.mac = mac /\ Now.request = request /\ Now.dhcp = dhcp
      /\ Now.mac' = mac' /\ Now.dhcp' = dhcp'
  BY DEF Now
<1> DEFINE t == Transmit(Now, advance)
           p == Process(t, f)
           d == DhcpTurn(p, timer)
           u == UdpTurn(d, busy, hello, known)
           v == TcpTurn(u, busy)
           n == IF d.request.mark = Dhcp /\ p.request = NoRequest THEN asks + 1 ELSE asks
<1>3. /\ region' = v.region /\ request' = v.request /\ mac' = v.mac
      /\ received' = v.received /\ arpPending' = v.arpPending
      /\ chunks' = v.chunks /\ dhcp' = v.dhcp /\ asks' = n
  <2>1. busy = Busy
    BY <1>1 DEF Busy
  <2> QED
    BY <1>1, <2>1, Zenon DEF Pass, Senders
<1>4. /\ t \in State /\ t.dhcp = dhcp
      /\ t.request.mark \notin Gated /\ PayloadKept(t) /\ GatedKept(t) /\ DhcpKept(t)
  <2>1. t \in State /\ t.dhcp = Now.dhcp
    BY <1>0, TransmitFacts
  <2>2. t.request.mark \notin Gated /\ PayloadKept(t) /\ GatedKept(t) /\ DhcpKept(t)
    BY <1>0, TransmitKeeps
  <2> HIDE DEF t
  <2> QED
    BY <1>2, <2>1, <2>2
<1>5. mac = IdleMac /\ request = NoRequest => t.mac = IdleMac
  BY <1>0, <1>2, TransmitFacts
<1>6. mac = IdleMac /\ request # NoRequest => t.mac.mark = request.mark /\ t.mac.left = 2
  <2> SUFFICES ASSUME mac = IdleMac, request # NoRequest
               PROVE  t.mac.mark = request.mark /\ t.mac.left = 2
    OBVIOUS
  <2>1. t.mac = [region |-> Now.request.region, mark |-> Now.request.mark, left |-> 2, seen |-> {}]
    BY <1>0, <1>2, TransmitFacts
  <2> HIDE DEF t
  <2> QED
    BY <1>2, <2>1
<1> HIDE DEF t
<1>7. /\ p \in State /\ p.dhcp = t.dhcp /\ p.mac = t.mac
      /\ p.request.mark \notin Gated /\ PayloadKept(p) /\ GatedKept(p) /\ DhcpKept(p)
  <2>1. p \in State /\ p.dhcp = t.dhcp /\ p.mac = t.mac
    BY <1>4, ProcessFacts
  <2>2. p.request.mark \notin Gated /\ PayloadKept(p) /\ GatedKept(p) /\ DhcpKept(p)
    BY <1>4, InputKeeps
  <2> QED
    BY <2>1, <2>2
<1> HIDE DEF p
<1>8. /\ d \in State /\ d.mac = p.mac /\ Counted(d.dhcp, n)
      /\ d.request.mark \notin Gated /\ PayloadKept(d) /\ GatedKept(d) /\ DhcpKept(d)
  <2>1. d \in State /\ d.mac = p.mac
    BY <1>7, DhcpFacts
  <2>2. Counted(p.dhcp, asks)
    BY <1>0, <1>4, <1>7
  <2>3. Counted(d.dhcp, n)
    BY <1>0, <1>7, <2>2, DhcpFacts
  <2>4. d.request.mark \notin Gated /\ PayloadKept(d) /\ GatedKept(d) /\ DhcpKept(d)
    BY <1>7, DhcpKeeps
  <2> QED
    BY <2>1, <2>3, <2>4
<1>9. n \in Nat
  BY <1>0
<1> HIDE DEF d, n
<1>10. busy \/ d.mac = IdleMac
  <2> SUFFICES ASSUME ~Busy PROVE d.mac = IdleMac
    BY <1>1
  <2>1. mac = IdleMac /\ request = NoRequest
    BY <1>0, <1>2, IdleHasNoRegion DEF Busy, State
  <2> QED
    BY <1>5, <1>7, <1>8, <2>1
<1>11. /\ v \in State /\ v.mac = d.mac /\ v.dhcp = d.dhcp
       /\ GateHeld(v) /\ PayloadKept(v) /\ GatedKept(v) /\ DhcpKept(v)
  BY <1>8, <1>10, SendersKeep
<1> HIDE DEF v
<1>12. Now' = v
  BY <1>3, <1>11 DEF Now, State
<1>13. Counted(dhcp', asks') /\ asks' \in Nat
  BY <1>3, <1>8, <1>9, <1>11
<1>14. request.mark \in Gated => mac'.mark = request.mark /\ mac'.left = 2
  <2> SUFFICES ASSUME request.mark \in Gated PROVE mac'.mark = request.mark /\ mac'.left = 2
    OBVIOUS
  <2>1. mac = IdleMac /\ request # NoRequest
    BY <1>0, <1>2, MarksDiffer, IdleHasNoRegion DEF GateHeld
  <2> QED
    BY <1>3, <1>6, <1>7, <1>8, <1>11, <2>1
<1>15. IInv'
  BY <1>11, <1>12, <1>13 DEF IInv, GateHeld, PayloadKept, GatedKept, DhcpKept, Counted
<1> QED
  BY <1>14, <1>15

LEMMA NextIInv == IInv /\ [Next]_vars => IInv'
<1> SUFFICES ASSUME IInv, [Next]_vars PROVE IInv'
  OBVIOUS
<1>1. CASE Next
  BY <1>1, PassKeeps DEF Next
<1>2. CASE UNCHANGED vars
  BY <1>2 DEF vars, IInv, Now, GateHeld, PayloadKept, GatedKept, DhcpKept, Counted
<1> QED
  BY <1>1, <1>2

LEMMA Invariance == Spec => []IInv
  BY InitIInv, NextIInv, PTL DEF Spec

\* IInv, whose parts are about the record Now, in terms of the variables.
LEMMA PartsOfIInv ==
    ASSUME IInv
    PROVE  TypeOK /\ EchoHasItsPayload /\ GatedFrameDisturbedByInputOnly /\ DiscoversEnd /\ NeverConfigured
<1>1. /\ region = Now.region /\ request = Now.request /\ mac = Now.mac /\ received = Now.received
      /\ arpPending = Now.arpPending /\ chunks = Now.chunks /\ dhcp = Now.dhcp
  BY DEF Now
<1>2. TypeOK
  <2>1. /\ region \in [Regions -> Parts] /\ request \in Requests /\ mac \in Macs
        /\ received \in Clients \cup {NoClient} /\ arpPending \in BOOLEAN /\ chunks \in 0 .. QueueMax
        /\ dhcp \in [state : DhcpStates, tries : 0 .. Retries] /\ asks \in Nat
    BY <1>1 DEF IInv, State
  <2>2. IdleMac \in [region : Regions \cup {"none"}, mark : Marks, left : 0 .. 2, seen : SUBSET Marks]
    BY MarksDiffer DEF IdleMac
  <2>3. mac \in [region : Regions \cup {"none"}, mark : Marks, left : 0 .. 2, seen : SUBSET Marks]
    BY <2>1, <2>2 DEF Macs
  <2> QED
    BY <2>1, <2>3 DEF TypeOK, Parts, Requests, DhcpStates
<1>3. EchoHasItsPayload
  BY <1>1 DEF IInv, PayloadKept, EchoHasItsPayload
<1>4. GatedFrameDisturbedByInputOnly
  <2>1. GatedKept(Now) /\ DhcpKept(Now)
    BY DEF IInv
  <2>2. {mac.mark} \cup Intruders = {mac.mark, Control} \cup {Echo(c) : c \in Clients}
    BY DEF Intruders, Echoes
  <2>3. mac.mark \in Gated => mac.seen \subseteq {mac.mark} \cup Intruders
    BY <1>1, <2>1 DEF GatedKept
  <2>4. mac.mark = Dhcp => mac.seen \subseteq {Dhcp}
    BY <1>1, <2>1 DEF DhcpKept
  <2> QED
    BY <2>2, <2>3, <2>4 DEF GatedFrameDisturbedByInputOnly
<1>5. DiscoversEnd /\ NeverConfigured
  <2>1. dhcp \in [state : DhcpStates, tries : 0 .. Retries] /\ asks \in Nat /\ Counted(dhcp, asks)
    BY <1>1 DEF IInv, State
  <2>2. dhcp.tries \in 0 .. Retries /\ dhcp.state \in DhcpStates /\ Retries \in Nat
    BY <2>1, PathAssumption
  <2>3. dhcp.state \notin {"request", "wait ack", "done"}
    BY <2>1 DEF Counted
  <2>4. asks <= Retries + 1 /\ (dhcp.state = "failed" => asks = Retries + 1)
    <3>1. \/ dhcp.state = "idle" /\ asks = 0
          \/ dhcp.state = "discover" /\ asks = dhcp.tries
          \/ dhcp.state = "wait offer" /\ asks = dhcp.tries + 1
          \/ dhcp.state = "failed" /\ asks = Retries + 1
      BY <2>1 DEF Counted
    <3>2. asks <= Retries + 1
      <4>1. PICK k \in 0 .. Retries : k = dhcp.tries
        BY <2>2
      <4>2. asks = 0 \/ asks = k \/ asks = k + 1 \/ asks = Retries + 1
        BY <3>1, <4>1
      <4> QED
        BY <2>2, <4>2
    <3>3. dhcp.state = "failed" => asks = Retries + 1
      BY <3>1
    <3> QED
      BY <3>2, <3>3
  <2> QED
    BY <2>2, <2>3, <2>4 DEF DiscoversEnd, NeverConfigured
<1> QED
  BY <1>2, <1>3, <1>4, <1>5

-------------------------------------------------------------------------------
\* No part of a pass leaves the mark of an ARP request: the HELLO replaces it at once.
LEMMA PassAsksInVain ==
    ASSUME IInv, HelloAsksInVain, NEW f \in Frames, NEW advance \in BOOLEAN, NEW timer \in Timers,
           NEW known \in BOOLEAN, Pass(f, advance, timer, known)
    PROVE  HelloAsksInVain'
<1>0. /\ Now \in State /\ Now.request = request /\ Now.mac = mac
      /\ request.mark # Arp /\ mac.mark # Arp
  BY DEF IInv, Now, HelloAsksInVain
<1>1. PICK busy, hello \in BOOLEAN : busy = Busy /\ hello = (timer = "hello")
  BY DEF Busy
<1>2. /\ Arp \notin {Boot, Hello, Answer, Dhcp, Tcp, Control}
      /\ \A c : Echo(c) # Arp
      /\ NoRequest.mark = Boot /\ IdleMac.mark = Boot
  BY DEF Boot, Hello, Arp, Answer, Dhcp, Tcp, Control, Echo, Mark, NoRequest, IdleMac
<1> DEFINE t == Transmit(Now, advance)
           p == Process(t, f)
           d == DhcpTurn(p, timer)
           u == UdpTurn(d, busy, hello, known)
           v == TcpTurn(u, busy)
<1>3. request' = v.request /\ mac' = v.mac
  BY <1>1, Zenon DEF Pass, Senders
<1>4. t \in State /\ t.request.mark # Arp /\ t.mac.mark # Arp
  <2>1. /\ t \in State
        /\ \/ t = Now
           \/ /\ t.request = NoRequest
              /\ t.mac = [region |-> Now.request.region, mark |-> Now.request.mark,
                          left |-> 2, seen |-> {}]
           \/ t.request = Now.request /\ (t.mac = IdleMac \/ t.mac.mark = Now.mac.mark)
    BY <1>0, TransmitFacts
  <2> HIDE DEF t
  <2> QED
    BY <1>0, <1>2, <2>1
<1> HIDE DEF t
<1>5. p \in State /\ p.request.mark # Arp /\ p.mac.mark # Arp
  <2>1. /\ p \in State /\ p.mac = t.mac
        /\ \/ p.request = t.request
           \/ p.request = [region |-> "scratch", mark |-> Answer]
           \/ p.request = [region |-> "udp", mark |-> Control]
    BY <1>4, ProcessFacts
  <2> HIDE DEF p
  <2> QED
    BY <1>2, <1>4, <2>1
<1> HIDE DEF p
<1>6. d \in State /\ d.request.mark # Arp /\ d.mac.mark # Arp
  <2>1. /\ d \in State /\ d.mac = p.mac
        /\ d.request = p.request \/ d.request = [region |-> "dhcp", mark |-> Dhcp]
    BY <1>5, DhcpFacts
  <2> HIDE DEF d
  <2> QED
    BY <1>2, <1>5, <2>1
<1> HIDE DEF d
<1>7. u \in State /\ u.request.mark # Arp /\ u.mac.mark # Arp
  <2>1. /\ u \in State /\ u.mac = d.mac
        /\ \/ u.request = d.request \/ u.request = NoRequest
           \/ u.request = [region |-> "udp", mark |-> Hello]
           \/ u.request = [region |-> "udp", mark |-> Echo(d.received)]
    <3> DEFINE sent == /\ d.request = NoRequest /\ ~busy /\ u.received = NoClient
                       /\ \/ u.request = NoRequest /\ u.region["udp"] = d.region["udp"]
                          \/ /\ u.request = [region |-> "udp", mark |-> Hello]
                             /\ u.region["udp"] = [head |-> Hello, body |-> Hello]
                          \/ /\ d.received \in Clients
                             /\ u.request = [region |-> "udp", mark |-> Echo(d.received)]
                             /\ u.region["udp"] = [head |-> Echo(d.received),
                                                   body |-> d.region["udp"].body]
    <3>1. u \in State /\ u.mac = d.mac /\ (u = d \/ sent)
      BY <1>6, UdpFacts
    <3> HIDE DEF u
    <3> QED
      BY <3>1
  <2> HIDE DEF u
  <2> QED
    BY <1>2, <1>6, <2>1
<1> HIDE DEF u
<1>8. v.request.mark # Arp /\ v.mac.mark # Arp
  <2>1. /\ v.mac = u.mac
        /\ v = u \/ v.request = [region |-> "udp", mark |-> Tcp]
    BY <1>7, TcpFacts
  <2> HIDE DEF v
  <2> QED
    BY <1>2, <1>7, <2>1
<1> QED
  BY <1>3, <1>8 DEF HelloAsksInVain

-------------------------------------------------------------------------------
\* Regions, request and transmitter hold marks of frames, and the queue its bound:
\* for any clients, queue length and number of repetitions.
THEOREM TypeCorrect == Spec => []TypeOK
  BY Invariance, PartsOfIInv, PTL

\* The echo that is requested carries the payload of the client it goes to.
THEOREM PayloadCorrect == Spec => []EchoHasItsPayload
  BY Invariance, PartsOfIInv, PTL

\* No gated frame and no DHCP message is disturbed under way but by the input.
THEOREM FramesKeptApart == Spec => []GatedFrameDisturbedByInputOnly
  BY Invariance, PartsOfIInv, PTL

\* DHCP asks at most Retries + 1 times and is silent when it has given up.
THEOREM DiscoverFloodStops == Spec => []DiscoversEnd
  BY Invariance, PartsOfIInv, PTL

\* DHCP is never configured, whatever servers send.
THEOREM OffersAreDropped == Spec => []NeverConfigured
  BY Invariance, PartsOfIInv, PTL

\* No ARP request of the board is ever taken by the transmitter.
THEOREM NoRequestForHello == Spec => []HelloAsksInVain
<1>1. Init => HelloAsksInVain
  BY DEF Init, HelloAsksInVain, NoRequest, IdleMac, Boot, Arp, Mark
<1>2. IInv /\ HelloAsksInVain /\ [Next]_vars => HelloAsksInVain'
  <2>1. ASSUME IInv, HelloAsksInVain, Next PROVE HelloAsksInVain'
    BY <2>1, PassAsksInVain DEF Next
  <2>2. ASSUME HelloAsksInVain, UNCHANGED vars PROVE HelloAsksInVain'
    BY <2>2 DEF vars, HelloAsksInVain
  <2> QED
    BY <2>1, <2>2
<1> QED
  BY <1>1, <1>2, Invariance, PTL DEF Spec

\* The request of a gated sender is taken by the transmitter in the next pass.
THEOREM GatedRequestsServed == Spec => GatedRequestTaken
<1>1. IInv /\ [Next]_vars => [request.mark \in Gated => mac'.mark = request.mark /\ mac'.left = 2]_vars
  <2> SUFFICES ASSUME IInv, Next
               PROVE  request.mark \in Gated => mac'.mark = request.mark /\ mac'.left = 2
    OBVIOUS
  <2> QED
    BY PassKeeps DEF Next
<1> QED
  BY <1>1, Invariance, PTL DEF Spec, GatedRequestTaken
===============================================================================
