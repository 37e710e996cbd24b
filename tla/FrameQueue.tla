------------------------------ MODULE FrameQueue ------------------------------
(***************************************************************************)
(* What the transmit bridge of wrapper_1g.v promises to the GMII side: a   *)
(* bounded queue of words, each marked with `last` when it ends a frame.   *)
(* A word leaves in the order it came; sending begins only when a whole    *)
(* frame is queued, sends one word every clock, and pauses only behind a   *)
(* word that ends a frame.                                                 *)
(***************************************************************************)
EXTENDS Naturals, Sequences

CONSTANTS Word,       \* words with a field `last`
          Capacity    \* words the queue accepts

VARIABLES queue,      \* words accepted and not sent yet
          sending     \* the head of `queue` is on the wire in this clock

vars == <<queue, sending>>

\* The words that may arrive in one clock: none or one.
Arrivals == {<<>>} \cup {<<w>> : w \in Word}

\* A whole frame is queued.
HoldsFrame(q) == \E i \in DOMAIN q : q[i].last

Init ==
    /\ queue = <<>>
    /\ sending = FALSE

\* The word on the wire leaves; behind the end of a frame the sender may go on
\* only with another whole frame.
Send(in) ==
    /\ sending
    /\ queue # <<>>
    /\ queue' = Tail(queue) \o in
    /\ \/ sending' = TRUE /\ (Head(queue).last => HoldsFrame(Tail(queue) \o in))
       \/ sending' = FALSE /\ Head(queue).last

\* Nothing is on the wire; a whole frame lets sending begin.
Pause(in) ==
    /\ ~sending
    /\ queue' = queue \o in
    /\ \/ sending' = TRUE /\ HoldsFrame(queue)
       \/ sending' = FALSE

\* The board's reset drops everything.
Clear ==
    /\ queue' = <<>>
    /\ sending' = FALSE

Next ==
    \/ \E in \in Arrivals :
         /\ Len(queue) + Len(in) <= Capacity
         /\ Send(in) \/ Pause(in)
    \/ Clear

Spec == Init /\ [][Next]_vars
===============================================================================
