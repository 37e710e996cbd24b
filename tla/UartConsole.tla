------------------------------ MODULE UartConsole ------------------------------
(***************************************************************************)
(* uart_console.cpp at one end of a serial line, a terminal at the other.  *)
(* A call of uart_console() is a cycle of the clock: the receiver, the     *)
(* command matcher and the transmitter each take a step, in this order,    *)
(* with the level of the line as input.                                    *)
(*                                                                         *)
(* A byte is a start cell (low), its bits, least first, and a stop cell    *)
(* (high); a cell takes Div + 1 cycles.  The terminal types whenever it    *)
(* likes, also while the console sends, and decodes what it receives with  *)
(* a receiver of its own that looks at the stop cell until its very end.   *)
(***************************************************************************)
EXTENDS Naturals, Sequences, SequencesExt

CONSTANTS Bits,      \* bits of a byte (8)
          Div,       \* BPS_DIV, cycles of a cell less one (5207)
          Half,      \* BPS_HALF, the cycle in which a cell is sampled (2603)
          Typed,     \* bytes the terminal types
          Enter,     \* those that end a line ('\r' and '\n')
          Response,  \* text of the answer to each command
          Fallback,  \* text of the answer to anything else
          MaxLine,   \* bytes in front of an Enter, in the model
          MaxResets  \* resets, in the model

Commands == DOMAIN Response
Bytes    == [1 .. Bits -> {0, 1}]  \* least bit first
Zero     == [i \in 1 .. Bits |-> 0]
StopCell == Bits + 1            \* number of the stop cell, the start cell being 0

ASSUME ConsoleAssumption ==
    /\ Bits \in Nat \ {0} /\ Div \in Nat \ {0}
    /\ Half \in Nat /\ 2 * Half < Div /\ Div <= 2 * Half + 3   \* the middle of a cell
    /\ Typed \subseteq Bytes /\ Enter \subseteq Typed
    /\ \A c \in Commands : c \in Seq(Bytes \ Enter) /\ c # <<>> /\ Response[c] \in Seq(Bytes)
    /\ Fallback \in Seq(Bytes) /\ MaxLine \in Nat /\ MaxResets \in Nat

VARIABLES prev,      \* sync_sr: the level one cycle ago
          rx,        \* rx_active, rcnt, rnum, rx_byte
          pending,   \* tx_pending and tx_hold: the byte to echo, or None
          tx,        \* tx_active, tcnt, tnum, tx_byte, tx_out
          resp,      \* the first resp_remain bytes of resp_sr
          cmd        \* cmd_st: the part of a command matched so far

consoleVars == <<prev, rx, pending, tx, resp, cmd>>

VARIABLES host,      \* the terminal's transmitter: cycle, byte, and its fate
          screen,    \* the terminal's receiver
          sending,   \* history: the byte the console last began to send
          line,      \* history: the bytes received since the last Enter
          answer,    \* history: the last answer that was loaded, the line it was
                     \*          loaded for, and what the transmitter took of it
          resets     \* resets so far

vars == <<prev, rx, pending, tx, resp, cmd, host, screen, sending, line, answer, resets>>

-------------------------------------------------------------------------------
None == [byte |-> Zero, set |-> FALSE]

RxIdle == [active |-> FALSE, cnt |-> 0, num |-> 0, byte |-> Zero]
TxIdle == [active |-> FALSE, cnt |-> 0, num |-> 0, byte |-> Zero, out |-> 1]

(***************************************************************************)
(* The receiver.                                                           *)
(***************************************************************************)
\* The counters of both sides run over a cell.
NextCnt(c) == IF c = Div THEN 0 ELSE c + 1

\* The cycle in which the stop cell is sampled: the byte is complete.
Complete == rx.active /\ rx.cnt = Half /\ rx.num = StopCell

\* Fault: the counter of the cells is behind by one.
Sample_Late(level) ==
    [rx EXCEPT !.byte = IF rx.num \in 2 .. Bits + 1 THEN [@ EXCEPT ![rx.num - 1] = level] ELSE @,
               !.num = @ + 1]

\* The middle of a cell: a bit is taken, the start cell ignored.
Sample(level) ==
    [rx EXCEPT !.byte = IF rx.num \in 1 .. Bits THEN [@ EXCEPT ![rx.num] = level] ELSE @,
               !.num = @ + 1]

\* An idle receiver waits for a falling edge.
Receive(level) ==
    /\ prev' = level
    /\ rx' = CASE ~rx.active /\ prev = 1 /\ level = 0 -> [RxIdle EXCEPT !.active = TRUE]
               [] ~rx.active /\ ~(prev = 1 /\ level = 0) -> rx
               [] Complete -> [rx EXCEPT !.active = FALSE, !.cnt = NextCnt(@)]
               [] rx.active /\ rx.cnt = Half /\ ~Complete ->
                    [Sample(level) EXCEPT !.cnt = NextCnt(@)]
               [] rx.active /\ rx.cnt # Half -> [rx EXCEPT !.cnt = NextCnt(@)]

(***************************************************************************)
(* The command matcher.                                                    *)
(***************************************************************************)
Partial == UNION {Prefixes(c) : c \in Commands}

\* Fault: a byte that does not go on with a command is skipped.
Match_Skips(c, b) == IF Append(c, b) \in Partial THEN Append(c, b) ELSE c

\* cmd_st: a byte that does not go on with a command starts over behind it.
Match(c, b) == IF Append(c, b) \in Partial THEN Append(c, b) ELSE <<>>

TextFor(c) == IF c \in Commands THEN Response[c] ELSE Fallback

\* Fault: an Enter loads its answer over the one that is being sent.
Load_Always(b) == IF b \in Enter THEN TextFor(cmd) ELSE resp

\* An Enter loads the answer if the last one has been sent, and is lost otherwise.
Load(b) == IF b \in Enter /\ resp = <<>> THEN TextFor(cmd) ELSE resp

(***************************************************************************)
(* The transmitter.                                                        *)
(***************************************************************************)

\* Fault: the byte ends when its stop cell is driven.
Drive_Short ==
    LET bit == CASE tx.num = 0 -> 0 [] tx.num \in 1 .. Bits -> tx.byte[tx.num] [] OTHER -> 1
        driven == IF tx.cnt = Half
                    THEN [tx EXCEPT !.out = bit, !.num = IF @ <= StopCell THEN @ + 1 ELSE @] ELSE tx
    IN  IF driven.num = StopCell + 1 THEN [driven EXCEPT !.cnt = 0, !.active = FALSE]
        ELSE [driven EXCEPT !.cnt = NextCnt(@)]

\* Fault: the number of the cell stops at that of the stop cell.
Drive_Stuck ==
    LET bit == CASE tx.num = 0 -> 0 [] tx.num \in 1 .. Bits -> tx.byte[tx.num] [] OTHER -> 1
        driven == IF tx.cnt = Half
                    THEN [tx EXCEPT !.out = bit, !.num = IF @ < StopCell THEN @ + 1 ELSE @] ELSE tx
    IN  IF tx.cnt = Div
          THEN [driven EXCEPT !.cnt = 0, !.active = driven.num # StopCell + 1]
          ELSE [driven EXCEPT !.cnt = NextCnt(@)]

\* A busy transmitter drives the next cell in the middle of its counter's turn, and
\* ends the byte when the turn of the stop cell is over.
Drive ==
    LET bit == CASE tx.num = 0 -> 0 [] tx.num \in 1 .. Bits -> tx.byte[tx.num] [] OTHER -> 1
        driven == IF tx.cnt = Half
                    THEN [tx EXCEPT !.out = bit, !.num = IF @ <= StopCell THEN @ + 1 ELSE @] ELSE tx
    IN  IF tx.cnt = Div
          THEN [driven EXCEPT !.cnt = 0, !.active = driven.num # StopCell + 1]
          ELSE [driven EXCEPT !.cnt = NextCnt(@)]

\* An idle one takes the echo, else the next byte of the answer.  The arguments are
\* what the receiver has just left.
Transmit(echo, text) ==
    CASE tx.active -> /\ tx' = Drive
                      /\ pending' = echo /\ resp' = text
      [] ~tx.active /\ echo.set ->
           /\ tx' = [TxIdle EXCEPT !.active = TRUE, !.byte = echo.byte]
           /\ pending' = None /\ resp' = text
      [] ~tx.active /\ ~echo.set /\ text # <<>> ->
           /\ tx' = [TxIdle EXCEPT !.active = TRUE, !.byte = Head(text)]
           /\ pending' = echo /\ resp' = Tail(text)
      [] ~tx.active /\ ~echo.set /\ text = <<>> ->
           /\ tx' = [tx EXCEPT !.out = 1]
           /\ pending' = echo /\ resp' = text

\* A complete byte is handed to an idle transmitter, and not echoed otherwise.
Echo == IF Complete /\ ~tx.active THEN [byte |-> rx.byte, set |-> TRUE] ELSE pending

\* One call of uart_console().
Call(level) ==
    /\ Receive(level)
    /\ cmd' = IF ~Complete THEN cmd ELSE IF rx.byte \in Enter THEN <<>> ELSE Match(cmd, rx.byte)
    /\ Transmit(Echo, IF Complete THEN Load(rx.byte) ELSE resp)

-------------------------------------------------------------------------------
(***************************************************************************)
(* The terminal.  Its clock runs as fast as that of the console.           *)
(***************************************************************************)
FrameCycles == (Bits + 2) * (Div + 1)
CellOf(cycle) == (cycle - 1) \div (Div + 1)

HostIdle   == [cycle |-> 0, byte |-> Zero, aligned |-> TRUE, heard |-> "right"]
ScreenIdle == [cycle |-> 0, byte |-> Zero, sure |-> TRUE, ok |-> TRUE]

\* The level that the console sees in a cycle of the byte that is typed.
Level(h) ==
    CASE h.cycle = 0 \/ CellOf(h.cycle) = StopCell -> 1
      [] h.cycle > 0 /\ CellOf(h.cycle) = 0 -> 0
      [] h.cycle > 0 /\ CellOf(h.cycle) \in 1 .. Bits -> h.byte[CellOf(h.cycle)]

\* The terminal begins a byte or is silent; it keeps its lines short.  `aligned`
\* tells whether the console was waiting for the byte.
Begins(b) ==
    /\ host.cycle = 0
    /\ Len(line) >= MaxLine => b \in Enter
    /\ host' = [cycle |-> 1, byte |-> b, aligned |-> ~rx.active, heard |-> "no"]

Silent == host.cycle = 0 /\ UNCHANGED host

\* The terminal goes on with its byte.  `heard` tells what the console made of it.
GoesOn ==
    /\ host.cycle > 0
    /\ host' = [host EXCEPT
                  !.cycle = IF @ = FrameCycles THEN 0 ELSE @ + 1,
                  !.heard = IF ~Complete THEN @
                            ELSE IF rx.byte = host.byte /\ @ = "no" THEN "right" ELSE "wrong"]

\* The receiver of the terminal.  A byte is ok if its stop cell is high to the end
\* and its bits are those the console meant to send.
Watch(out) ==
    LET cell == CellOf(screen.cycle)
        mid  == (screen.cycle - 1) % (Div + 1) = Half
        next == IF screen.cycle = FrameCycles THEN 0 ELSE screen.cycle + 1
    IN  CASE screen.cycle = 0 ->
               IF out = 0 THEN [ScreenIdle EXCEPT !.cycle = 2, !.ok = screen.ok] ELSE screen
          [] screen.cycle > 0 /\ cell <= Bits ->
               [screen EXCEPT !.cycle = next,
                              !.byte = IF cell > 0 /\ mid THEN [@ EXCEPT ![cell] = out] ELSE @]
          [] screen.cycle > 0 /\ cell = StopCell ->
               [screen EXCEPT !.cycle = next,
                  !.ok = @ /\ (screen.sure => out = 1 /\ (mid => screen.byte = sending))]

\* What the histories record of a cycle.
Record ==
    LET enters == Complete /\ rx.byte \in Enter
        begins == ~tx.active /\ tx'.active
    IN  /\ screen' = Watch(tx.out)
        /\ sending' = IF begins THEN tx'.byte ELSE sending
        /\ line' = CASE enters -> <<>>
                     [] Complete /\ ~enters -> Append(line, rx.byte)
                     [] ~Complete -> line
        /\ answer' = CASE enters /\ resp = <<>> ->
                            [for |-> line, text |-> Load(rx.byte), taken |-> <<>>]
                       [] begins /\ ~Echo.set -> [answer EXCEPT !.taken = Append(@, tx'.byte)]
                       [] OTHER -> answer

NoAnswer == [for |-> <<>>, text |-> <<>>, taken |-> <<>>]

Init ==
    /\ prev = 1 /\ rx = RxIdle /\ pending = None /\ tx = TxIdle /\ resp = <<>> /\ cmd = <<>>
    /\ host = HostIdle /\ screen = ScreenIdle /\ sending = Zero
    /\ line = <<>> /\ answer = NoAnswer /\ resets = 0

\* A cycle of both.
Cycle ==
    /\ GoesOn \/ Silent \/ \E b \in Typed : Begins(b)
    /\ Call(IF host.cycle = 0 /\ host'.cycle = 1 THEN 0 ELSE Level(host))
    /\ Record
    /\ UNCHANGED resets

\* rst_n: the console starts over while the terminal goes on.
Reset ==
    /\ resets < MaxResets /\ resets' = resets + 1
    /\ prev' = 1 /\ rx' = RxIdle /\ pending' = None /\ tx' = TxIdle
    /\ resp' = <<>> /\ cmd' = <<>>
    /\ host' = IF host.cycle = 0 THEN host
               ELSE [host EXCEPT !.cycle = IF @ = FrameCycles THEN 0 ELSE @ + 1, !.aligned = FALSE]
    /\ screen' = [Watch(tx.out) EXCEPT !.sure = FALSE]
    /\ line' = <<>> /\ answer' = NoAnswer
    /\ UNCHANGED sending

Next == Cycle \/ Reset
Spec == Init /\ [][Next]_vars

\* The clock of the console never stops.
FairSpec == Spec /\ WF_vars(Cycle)

-------------------------------------------------------------------------------
\* However close together the bytes are typed and whatever the console is sending,
\* a byte it was waiting for is received once and as it was typed; and it waits for
\* every one, unless a reset hit the middle of one (the receiver is always armed).
HeardAsTyped ==
    /\ host.aligned => host.heard # "wrong" /\ (host.cycle = 0 => host.heard = "right")
    /\ resets = 0 => host.aligned

\* Echo and answer bytes reach the terminal with whole stop cells and the bits that
\* were meant, in bursts too (the comment in the transmitter on late samplers).
ScreenReadsRight == screen.ok

\* The bytes taken by the transmitter and those still queued are the answer that was
\* loaded, until its end: a later Enter neither cuts nor mixes it (1-deep response).
AnswerIntact == answer.taken \o resp = answer.text

\* The answer is that of the command on the line, though the matcher never sees the
\* line as a whole; a line that does not end with a command gets the fallback.
CommandAnswered ==
    answer # NoAnswer =>
        /\ answer.for \in Commands => answer.text = Response[answer.for]
        /\ (\A c \in Commands : ~IsSuffix(c, answer.for)) => answer.text = Fallback

\* Once the terminal stops typing, an answer is sent to its end.
AnswerEnds == <>[](host.cycle = 0) => (resp # <<>> ~> resp = <<>>)
===============================================================================
