-------------------------------- MODULE TxPath --------------------------------
(***************************************************************************)
(* How the top-level pass of udp_echo.cpp shares one transmit request, one *)
(* MAC transmitter and the transmit regions of the buffer among the layers *)
(* that build frames.                                                      *)
(*                                                                         *)
(* A pass runs, in this order: a step of the transmitter, the layer of the *)
(* frame just received, DHCP, the UDP sender and the TCP queue.  The last  *)
(* two run only if the pass began with an idle transmitter and nothing was *)
(* requested since; DHCP runs if nothing is requested; the layers of a     *)
(* received frame build their answer whatever the transmitter does.        *)
(*                                                                         *)
(* A region is a header and a payload, as UDP writes them at different     *)
(* times.  A part of a region is abstracted to the mark of the frame it    *)
(* was written for.  The transmitter reads header and payload in later     *)
(* passes: `seen` collects the marks that go out.                          *)
(***************************************************************************)
EXTENDS Naturals, FiniteSets

CONSTANTS Clients,    \* senders of UDP requests (address, port, length)
          NoClient,
          Arrivals,   \* kinds of frames that are received
          QueueMax,   \* chunks in the TCP echo queue
          Retries     \* repetitions of a DHCP message (3)

\* What a pass may have received: nothing to answer, an ARP request, ping or IGMP
\* query, a UDP request, a DHCP answer, TCP data, or a TCP SYN or FIN.
Kinds == {"none", "answered", "udp", "offer", "ack", "tcp data", "tcp control"}
Frames == [kind : Arrivals \ {"udp"}, client : {NoClient}]
            \cup [kind : Arrivals \cap {"udp"}, client : Clients]
Nothing == [kind |-> "none", client |-> NoClient]

\* What may be due in a pass: the start of DHCP, its timeout, a HELLO.
Timers == {"none", "start", "timeout", "hello"}

ASSUME PathAssumption ==
    /\ NoClient \notin Clients
    /\ Arrivals \subseteq Kinds
    /\ QueueMax \in Nat /\ Retries \in Nat

VARIABLES region,     \* marks of the two parts of each transmit region
          request,    \* tx_req, or NoRequest
          mac,        \* the transmitter's frame, or IdleMac
          received,   \* data_received and rx_src_*: the client waiting for its echo
          arpPending, \* arp_pending of udp_tx_process
          chunks,     \* chunks in the TCP echo queue
          dhcp,       \* dhcp_state and retry_cnt
          asks        \* history: messages DHCP has built

vars == <<region, request, mac, received, arpPending, chunks, dhcp, asks>>

Regions == {"scratch", "dhcp", "udp"}

\* Marks: which layer built a part, for which client.
Mark(kind, c) == [kind |-> kind, client |-> c]
Boot    == Mark("boot", NoClient)
Hello   == Mark("hello", NoClient)
Arp     == Mark("arp", NoClient)
Answer  == Mark("answer", NoClient)
Dhcp    == Mark("dhcp", NoClient)
Tcp     == Mark("tcp", NoClient)
Control == Mark("control", NoClient)
Echo(c) == Mark("echo", c)
Marks   == {Boot, Hello, Arp, Answer, Dhcp, Tcp, Control} \cup {Echo(c) : c \in Clients}

\* The gated senders: UDP and the TCP queue.
Gated == {Hello, Tcp} \cup {Echo(c) : c \in Clients}

NoRequest == [region |-> "none", mark |-> Boot]
IdleMac   == [region |-> "none", mark |-> Boot, left |-> 0, seen |-> {}]

Init ==
    /\ region = [r \in Regions |-> [head |-> Boot, body |-> Boot]]
    /\ request = NoRequest
    /\ mac = IdleMac
    /\ received = NoClient
    /\ arpPending = FALSE
    /\ chunks = 0
    /\ dhcp = [state |-> "idle", tries |-> 0] /\ asks = 0

-------------------------------------------------------------------------------
(***************************************************************************)
(* The parts of a pass.  Each maps the variables, as a record b, to their  *)
(* values after it.                                                        *)
(***************************************************************************)
Now == [region |-> region, request |-> request, mac |-> mac, received |-> received,
        arpPending |-> arpPending, chunks |-> chunks, dhcp |-> dhcp]

Busy == mac.region # "none" \/ request # NoRequest

\* A builder fills a region and requests its frame.
Build(b, r, m) == [b EXCEPT !.region[r] = [head |-> m, body |-> m],
                            !.request = [region |-> r, mark |-> m]]

\* mac_tx_process: an idle transmitter takes the request; a busy one sends,
\* behind preamble and MAC header, the header and the payload of the region and then
\* the CRC; each phase takes several passes.
Transmit(b, advance) ==
    LET m == b.mac
    IN  CASE m = IdleMac /\ b.request # NoRequest ->
               [b EXCEPT !.request = NoRequest,
                         !.mac = [region |-> b.request.region, mark |-> b.request.mark,
                                  left |-> 2, seen |-> {}]]
          [] m # IdleMac /\ advance /\ m.left = 2 ->
               [b EXCEPT !.mac = [m EXCEPT !.left = 1, !.seen = {b.region[m.region].head}]]
          [] m # IdleMac /\ advance /\ m.left = 1 ->
               [b EXCEPT !.mac = [m EXCEPT !.left = 0, !.seen = @ \cup {b.region[m.region].body}]]
          [] m # IdleMac /\ advance /\ m.left = 0 -> [b EXCEPT !.mac = IdleMac]
          [] OTHER -> b

\* Fault: UDP lets the port of DHCP pass as well.
PortOpen_Both(kind) == kind \in {"udp", "offer", "ack"}

\* udp_rx_process: the port is that of the echo service.
PortOpen(kind) == kind = "udp"

\* dhcp_rx_process.
DhcpReceive(b, kind) ==
    CASE kind = "offer" /\ b.dhcp.state = "wait offer" -> [b EXCEPT !.dhcp.state = "request"]
      [] kind = "ack" /\ b.dhcp.state = "wait ack"     -> [b EXCEPT !.dhcp.state = "done"]
      [] OTHER -> b

\* The layer of the received frame: ARP, ICMP and IGMP answer from the scratch
\* region; a UDP request leaves its payload in the UDP region for the echo, its
\* source in `received`; TCP data goes to the queue, SYN and FIN are answered at
\* once from the UDP region.
Process(b, f) ==
    CASE f.kind = "none"        -> b
      [] f.kind = "answered"    -> Build(b, "scratch", Answer)
      [] f.kind \in {"offer", "ack"} -> IF PortOpen(f.kind) THEN DhcpReceive(b, f.kind) ELSE b
      [] f.kind = "udp"         -> [b EXCEPT !.region["udp"].body = Echo(f.client),
                                             !.received = f.client]
      [] f.kind = "tcp data"    -> [b EXCEPT !.chunks = IF @ < QueueMax THEN @ + 1 ELSE @]
      [] f.kind = "tcp control" -> Build(b, "udp", Control)

\* Fault: giving up leads back to the idle state, where the start flag is still set.
DhcpTurn_Restarts(b, timer) ==
    LET state == IF timer = "start" /\ b.dhcp.state = "idle" THEN "discover" ELSE b.dhcp.state
    IN  CASE b.request # NoRequest -> b
          [] b.request = NoRequest /\ timer = "timeout" /\ state = "wait offer" ->
               [b EXCEPT !.dhcp = IF @.tries < Retries THEN [state |-> "discover", tries |-> @.tries + 1]
                                  ELSE [state |-> "idle", tries |-> 0]]
          [] b.request = NoRequest /\ state = "discover" ->
               [Build(b, "dhcp", Dhcp) EXCEPT !.dhcp.state = "wait offer"]
          [] OTHER -> b

\* dhcp_tx_process, if nothing is requested: the start leads to a DISCOVER; a timeout
\* to a repetition in a later pass or, with the retries used up, to the end.
DhcpTurn(b, timer) ==
    LET state == IF timer = "start" /\ b.dhcp.state = "idle" THEN "discover" ELSE b.dhcp.state
        late  == timer = "timeout" /\ state \in {"wait offer", "wait ack"}
        again == IF state = "wait offer" THEN "discover" ELSE "request"
    IN  CASE b.request # NoRequest -> b
          [] b.request = NoRequest /\ late ->
               [b EXCEPT !.dhcp = IF @.tries < Retries THEN [state |-> again, tries |-> @.tries + 1]
                                  ELSE [state |-> "failed", tries |-> 0]]
          [] b.request = NoRequest /\ state \in {"discover", "request"} ->
               [Build(b, "dhcp", Dhcp) EXCEPT
                  !.dhcp.state = IF state = "discover" THEN "wait offer" ELSE "wait ack"]
          [] OTHER -> b

\* Fault: the ARP request of a HELLO takes the place of the HELLO.
UdpSend_AsksFirst(b, hello, known) ==
    LET echo == b.received # NoClient
        head == IF echo THEN Echo(b.received) ELSE Hello
    IN  CASE ~echo /\ ~hello -> b
          [] ~echo /\ hello /\ ~known /\ ~b.arpPending ->
               [Build(b, "scratch", Arp) EXCEPT !.arpPending = TRUE]
          [] OTHER -> [b EXCEPT !.arpPending = @ /\ ~known,
                                !.region["udp"] = [head |-> head, body |-> IF echo THEN @.body ELSE Hello],
                                !.request = [region |-> "udp", mark |-> head]]

\* udp_tx_process: the echo of the request received, else a HELLO when its timer
\* has expired.  A HELLO to an address that ARP does not know first builds an ARP
\* request.
UdpSend(b, hello, known) ==
    LET miss  == ~known /\ b.received = NoClient /\ ~b.arpPending
        asked == IF miss THEN Build(b, "scratch", Arp) ELSE b
        head  == IF b.received # NoClient THEN Echo(b.received) ELSE Hello
    IN  IF b.received = NoClient /\ ~hello THEN b
        ELSE [asked EXCEPT !.arpPending = IF known THEN FALSE ELSE asked.arpPending \/ miss,
                           !.region["udp"] = [head |-> head,
                                              body |-> IF b.received = NoClient THEN Hello ELSE @.body],
                           !.request = [region |-> "udp", mark |-> head]]

\* Faults of the gate: an echo waits for the pacing timer of HELLO as well; the gate
\* looks at the request only, as the one of DHCP does.
UdpTurn_Paced(b, busy, hello, known) ==
    IF b.request = NoRequest /\ ~busy /\ (b.received = NoClient \/ hello)
      THEN [UdpSend(b, hello, known) EXCEPT !.received = NoClient] ELSE b
UdpTurn_RequestOnly(b, busy, hello, known) ==
    IF b.request = NoRequest
      THEN [UdpSend(b, hello, known) EXCEPT !.received = NoClient] ELSE b

\* The gate of the UDP sender; the flag is consumed whenever it runs.
UdpTurn(b, busy, hello, known) ==
    IF b.request = NoRequest /\ ~busy
      THEN [UdpSend(b, hello, known) EXCEPT !.received = NoClient] ELSE b

\* Fault: an empty queue is flushed.
TcpTurn_SendsEmpty(b, busy) ==
    IF b.request = NoRequest /\ ~busy
      THEN [Build(b, "udp", Tcp) EXCEPT !.chunks = @ - 1] ELSE b

\* The gate of tcp_maintenance.
TcpTurn(b, busy) ==
    IF b.request = NoRequest /\ ~busy /\ b.chunks > 0
      THEN [Build(b, "udp", Tcp) EXCEPT !.chunks = @ - 1] ELSE b

\* Fault: the TCP queue comes before the UDP sender.
Senders_TcpFirst(b, busy, hello, known) == UdpTurn(TcpTurn(b, busy), busy, hello, known)

\* The gated senders, in the order of the pass.
Senders(b, busy, hello, known) == TcpTurn(UdpTurn(b, busy, hello, known), busy)

\* One pass.  DHCP_TIMEOUT is longer than any frame is under way.
Pass(f, advance, timer, known) ==
    /\ timer = "timeout" => mac.region # "dhcp" /\ request.region # "dhcp"
    /\ LET heard == Process(Transmit(Now, advance), f)
           asked == DhcpTurn(heard, timer)
           b == Senders(asked, Busy, timer = "hello", known)
       IN  /\ region' = b.region /\ request' = b.request /\ mac' = b.mac
           /\ received' = b.received /\ arpPending' = b.arpPending
           /\ chunks' = b.chunks /\ dhcp' = b.dhcp
           /\ asks' = IF asked.request.mark = Dhcp /\ heard.request = NoRequest THEN asks + 1 ELSE asks

\* A pass in which nothing is received and no timer expires.
QuietPass == \E known \in BOOLEAN : Pass(Nothing, TRUE, "none", known)

\* What matters in a pass: the progress of a busy transmitter, a timer that some
\* layer waits for, an address that UDP looks up.
Matters(f, advance, timer, known) ==
    /\ advance => mac # IdleMac
    /\ timer = "start" => dhcp.state = "idle"
    /\ timer = "timeout" => dhcp.state \in {"wait offer", "wait ack"}
    /\ known => timer = "hello" \/ f.kind = "udp" \/ received # NoClient

Next ==
    \E f \in Frames, advance \in BOOLEAN, timer \in Timers, known \in BOOLEAN :
        /\ Matters(f, advance, timer, known)
        /\ Pass(f, advance, timer, known)

Spec == Init /\ [][Next]_vars

\* The transmitter sends a byte per pass; received frames and timers leave quiet
\* passes in between, also when the transmitter is idle.
FairSpec == Spec /\ WF_vars(QuietPass) /\ SF_vars(~Busy /\ QuietPass)

-------------------------------------------------------------------------------
(***************************************************************************)
(* Properties.                                                             *)
(***************************************************************************)

\* Regions hold marks, the request and the transmitter name a region.
TypeOK ==
    /\ region \in [Regions -> [head : Marks, body : Marks]]
    /\ request \in {NoRequest} \cup [region : Regions, mark : Marks]
    /\ mac \in [region : Regions \cup {"none"}, mark : Marks, left : 0 .. 2, seen : SUBSET Marks]
    /\ received \in Clients \cup {NoClient}
    /\ arpPending \in BOOLEAN
    /\ chunks \in 0 .. QueueMax
    /\ dhcp.tries \in 0 .. Retries /\ asks \in Nat
    /\ dhcp.state \in {"idle", "discover", "wait offer", "request", "wait ack", "done", "failed"}

\* The echo that is requested carries the payload of the client it goes to,
\* however long the transmitter was busy and whatever was sent in between; only the
\* answer to a SYN or FIN, built in the same region, may have replaced it.
EchoHasItsPayload ==
    \A c \in Clients : request.mark = Echo(c) => region["udp"].body \in {Echo(c), Control}

\* What the gated senders and DHCP build reaches the wire as it was built, whatever
\* the others and the answers to ARP, pings and IGMP do meanwhile.  A gated frame may
\* be disturbed by the payload of a UDP request and the answer to a SYN or FIN, which
\* are written into its region without the gate.  The regions are disjoint as long as no
\* ping outgrows the scratch region, which IpLayers looks at.
GatedFrameDisturbedByInputOnly ==
    /\ mac.mark \in Gated => mac.seen \subseteq {mac.mark, Control} \cup {Echo(c) : c \in Clients}
    /\ mac.mark = Dhcp => mac.seen \subseteq {Dhcp}

\* The client asks at most once more than it may repeat and is silent when it has
\* given up ("so the DISCOVER flood stops", layer_dhcp.cpp:226-227).
DiscoversEnd ==
    /\ asks <= Retries + 1
    /\ dhcp.state = "failed" => asks = Retries + 1

\* Offers of a server never reach the client, because UDP passes on the echo port
\* only: it repeats its DISCOVER and gives up.
NeverConfigured == dhcp.state \notin {"request", "wait ack", "done"}

\* A HELLO to an address that ARP does not know builds an ARP request, but no ARP
\* request of ours ever gets to the transmitter: the HELLO that follows in the same
\* call takes its place, and arp_pending keeps it from being built again
\* (ARCHITECTURE.md:421 has it sent first).
HelloAsksInVain == request.mark # Arp /\ mac.mark # Arp

\* A frame that a gated sender requests is taken by the transmitter in the very
\* next pass: no other builder gets to replace the request.
GatedRequestTaken ==
    [][request.mark \in Gated => mac'.mark = request.mark /\ mac'.left = 2]_vars

\* A UDP request leads to an echo, its own or that of a later request which took
\* its place, unless answers to ARP requests and pings occupy the transmitter
\* without end.
RequestEchoed ==
    []<>(~Busy) => (received \in Clients ~> request.mark \in {Echo(c) : c \in Clients})

\* udp_echo.cpp:195-201: the gate "prevents the builder from clobbering a frame
\* mid-send": every frame goes out as it was built.
FramesIntact == mac.seen \subseteq {mac.mark}
===============================================================================
