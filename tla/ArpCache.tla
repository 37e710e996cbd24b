------------------------------- MODULE ArpCache -------------------------------
(***************************************************************************)
(* The two-level ARP cache of layer_arp.cpp.  Level 1 is a small cache     *)
(* with an age per slot; level 2 takes what level 1 evicts and is scanned  *)
(* on a miss.  arp_update runs for every ARP frame received, arp_lookup    *)
(* for every UDP and TCP frame built and every ICMP reply; top-level       *)
(* passes are sequential, so each call is one step.                        *)
(*                                                                         *)
(* Nothing ever clears a level 2 slot.  The branch of arp_rx_process that  *)
(* clears both levels runs only if the layer is called while reset_n is    *)
(* low; the top level calls it for a received frame only, and there is     *)
(* none in reset.                                                          *)
(*                                                                         *)
(* `latest` and `fromL2` are history variables: the binding last learned,  *)
(* and the addresses whose level 1 entry was copied back from level 2      *)
(* after they were last learned.                                           *)
(***************************************************************************)
EXTENDS Naturals, FiniteSets, Sequences

CONSTANTS L1Size,     \* L1_SIZE (8)
          L2Size,     \* L2_SIZE (256)
          AgeMod,     \* ages are taken modulo this, 2^L1_AGE_BITS (8)
          Ip, Mac,
          NoIp, NoMac \* the zero fields of a slot never written

ASSUME CacheAssumption ==
    /\ L1Size \in Nat /\ L2Size \in Nat /\ AgeMod \in Nat
    /\ 0 < L1Size /\ L1Size <= AgeMod
    /\ NoIp \notin Ip /\ NoMac \notin Mac

VARIABLES l1,         \* l1_cache
          age,        \* l1_age
          l2,         \* l2_table
          latest, fromL2

vars == <<l1, age, l2, latest, fromL2>>

L1Slots == 0 .. L1Size - 1
L2Slots == 0 .. L2Size - 1
Entry   == [valid : BOOLEAN, ip : Ip \cup {NoIp}, mac : Mac \cup {NoMac}]
Unused  == [valid |-> FALSE, ip |-> NoIp, mac |-> NoMac]
Ages    == 0 .. AgeMod - 1

Filled(ip, mac) == [valid |-> TRUE, ip |-> ip, mac |-> mac]

\* The first slot of a nonempty set, as the scanning loops find it.
First(S) == CHOOSE i \in S : \A j \in S : i <= j

\* Slots of a level that hold an address.
Hits1(ip) == {i \in L1Slots : l1[i].valid /\ l1[i].ip = ip}
Hits2(ip) == {i \in L2Slots : l2[i].valid /\ l2[i].ip = ip}
Free1 == {i \in L1Slots : ~l1[i].valid}
Free2 == {i \in L2Slots : ~l2[i].valid}

-------------------------------------------------------------------------------
Init ==
    /\ l1 = [i \in L1Slots |-> Unused]
    /\ age = [i \in L1Slots |-> 0]
    /\ l2 = [i \in L2Slots |-> Unused]
    /\ latest = [ip \in Ip |-> NoMac]
    /\ fromL2 = {}

\* Ages are L1_AGE_BITS wide.
Older(a) == IF a = AgeMod - 1 THEN 0 ELSE a + 1

\* Faults: every other slot grows older, as ARCHITECTURE.md:255 puts it; only
\* strictly younger slots grow older.
Touched_All(idx) == [i \in L1Slots |-> IF i = idx THEN 0 ELSE age[i] + 1]
Touched_Strict(idx) ==
    [i \in L1Slots |-> CASE i = idx -> 0
                         [] i # idx /\ age[i] < age[idx] -> Older(age[i])
                         [] OTHER -> age[i]]

\* l1_lru_touch: the slot becomes the newest, the slots not older than it was
\* grow older by one.
Touched(idx) ==
    [i \in L1Slots |-> CASE i = idx -> 0
                         [] i # idx /\ age[i] <= age[idx] -> Older(age[i])
                         [] OTHER -> age[i]]

\* The oldest slot; of several, the loop keeps the last one.
Oldest == CHOOSE i \in L1Slots :
            \A j \in L1Slots : age[j] < age[i] \/ (age[j] = age[i] /\ j <= i)

\* Fault: the victim of a full cache is the first slot, whatever its age.
Victim_First == IF Free1 # {} THEN First(Free1) ELSE First(L1Slots)

\* The slot l1_insert takes.
Victim == IF Free1 # {} THEN First(Free1) ELSE Oldest

\* Fault: the evicted entry overwrites the first slot of level 2.
Insert_Overwrites(ip, mac) ==
    /\ l2' = IF l1[Victim].valid /\ L2Size > 0 THEN [l2 EXCEPT ![0] = l1[Victim]] ELSE l2
    /\ l1' = [l1 EXCEPT ![Victim] = Filled(ip, mac)]
    /\ age' = Touched(Victim)

\* l1_insert: an evicted entry goes to the first free slot of level 2, and is
\* lost when there is none.
Insert(ip, mac) ==
    /\ l2' = IF l1[Victim].valid /\ Free2 # {}
               THEN [l2 EXCEPT ![First(Free2)] = l1[Victim]]
               ELSE l2
    /\ l1' = [l1 EXCEPT ![Victim] = Filled(ip, mac)]
    /\ age' = Touched(Victim)

\* Fault: an address that is cached already keeps its old MAC.
Refresh_KeepsMac(ip, mac) ==
    /\ age' = Touched(First(Hits1(ip)))
    /\ UNCHANGED <<l1, l2>>

\* arp_update on an address that is in level 1.
Refresh(ip, mac) ==
    /\ l1' = [l1 EXCEPT ![First(Hits1(ip))].mac = mac]
    /\ age' = Touched(First(Hits1(ip)))
    /\ UNCHANGED l2

\* arp_update: every received ARP frame teaches its sender's binding.
Update(ip, mac) ==
    /\ IF Hits1(ip) # {} THEN Refresh(ip, mac) ELSE Insert(ip, mac)
    /\ latest' = [latest EXCEPT ![ip] = mac]
    /\ fromL2' = fromL2 \ {ip}

\* arp_lookup, found in level 1.
LookupL1(ip) ==
    /\ Hits1(ip) # {}
    /\ age' = Touched(First(Hits1(ip)))
    /\ UNCHANGED <<l1, l2, latest, fromL2>>

\* arp_lookup, found in level 2 only: the first copy is promoted.
LookupL2(ip) ==
    /\ Hits1(ip) = {} /\ Hits2(ip) # {}
    /\ Insert(ip, l2[First(Hits2(ip))].mac)
    /\ fromL2' = fromL2 \cup {ip}
    /\ UNCHANGED latest

\* A lookup that misses both levels changes nothing.
Next ==
    \/ \E ip \in Ip, mac \in Mac : Update(ip, mac)
    \/ \E ip \in Ip : LookupL1(ip) \/ LookupL2(ip)

Spec == Init /\ [][Next]_vars

-------------------------------------------------------------------------------
(***************************************************************************)
(* Properties.                                                             *)
(***************************************************************************)

\* The tables hold entries, ages have their width.
TypeOK ==
    /\ l1 \in [L1Slots -> Entry]
    /\ age \in [L1Slots -> Ages]
    /\ l2 \in [L2Slots -> Entry]
    /\ latest \in [Ip -> Mac \cup {NoMac}]
    /\ fromL2 \subseteq Ip

\* The number of slots in use; they are filled from the front.
Used == Cardinality(L1Slots \ Free1)

\* The ages of the slots in use are the ranks 0, 1, 2, ... of a recency order
\* without ties, and every slot never used has the age the next one filled will
\* need: so the age counter never wraps and the victim is never ambiguous.
AgesAreRanks ==
    /\ \A i \in L1Slots : l1[i].valid <=> i < Used
    /\ \A i \in L1Slots : l1[i].valid => age[i] < Used
    /\ \A i, j \in L1Slots :
         l1[i].valid /\ l1[j].valid /\ age[i] = age[j] => i = j
    /\ \A i \in L1Slots : ~l1[i].valid => age[i] = Used

\* While level 2 has room, no address ever learned is lost, however often it is
\* evicted, promoted and learned again.
NoneLostWhileRoom ==
    Free2 # {} => \A ip \in Ip : latest[ip] # NoMac => Hits1(ip) \cup Hits2(ip) # {}

\* Level 1 answers with the binding last learned, unless it copied the entry back
\* from level 2: level 2 may hold an older copy in front of the newer one.
FreshUnlessPromoted ==
    \A i \in L1Slots :
        l1[i].valid /\ l1[i].ip \notin fromL2 => l1[i].mac = latest[l1[i].ip]

\* Slots and ages of level 1 implement a list in order of use: what is evicted
\* is the least recently used binding, and no address occurs twice.
Rank(k)  == CHOOSE i \in L1Slots : l1[i].valid /\ age[i] = k
Bindings == [k \in 1 .. Used |-> [ip |-> l1[Rank(k - 1)].ip, mac |-> l1[Rank(k - 1)].mac]]
Lru == INSTANCE LruList WITH order <- Bindings, Size <- L1Size
ImplementsLruList == Lru!Spec
===============================================================================
