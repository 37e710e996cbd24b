-------------------------------- MODULE LruList --------------------------------
(***************************************************************************)
(* What the first level of the ARP cache promises: a list of bindings, the *)
(* most recently used first, no address twice.  Using or relearning an     *)
(* address moves it to the front; a new one enters at the front and, when  *)
(* the list is full, pushes out the least recently used one.               *)
(***************************************************************************)
EXTENDS Naturals, Sequences

CONSTANTS Ip, Mac,
          Size        \* bindings the list can hold

VARIABLE order        \* <<[ip, mac], ...>>, most recently used first

Binding(ip, mac) == [ip |-> ip, mac |-> mac]
Known(ip) == \E k \in DOMAIN order : order[k].ip = ip

Init == order = <<>>

\* `ip` is used, or learned again with a new `mac`.
Use(ip, mac) ==
    \E k \in DOMAIN order :
        /\ order[k].ip = ip
        /\ order' = <<Binding(ip, mac)>> \o SubSeq(order, 1, k - 1)
                                         \o SubSeq(order, k + 1, Len(order))

\* `ip` enters; a full list forgets its last binding.
Enter(ip, mac) ==
    /\ ~Known(ip)
    /\ order' = <<Binding(ip, mac)>>
                \o (IF Len(order) = Size THEN SubSeq(order, 1, Size - 1) ELSE order)

Next == \E ip \in Ip, mac \in Mac : Use(ip, mac) \/ Enter(ip, mac)

Spec == Init /\ [][Next]_order
===============================================================================
