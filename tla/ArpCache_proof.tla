---------------------------- MODULE ArpCache_proof ----------------------------
(***************************************************************************)
(* Proofs about the ARP cache for every size of its levels, age width and  *)
(* set of addresses: its ages, what it holds, and that level 1 implements  *)
(* the list of LruList.                                                    *)
(***************************************************************************)
EXTENDS ArpCache, FiniteSetTheorems, WellFoundedInduction, TLAPS

\* The first k slots are in use, their ages are distinct ranks below k, and every
\* other slot has the age k.
Ranked(k) ==
    /\ \A i \in L1Slots : l1[i].valid <=> i < k
    /\ \A i \in L1Slots : i < k => age[i] < k
    /\ \A i, j \in L1Slots : i < k /\ j < k /\ age[i] = age[j] => i = j
    /\ \A i \in L1Slots : ~(i < k) => age[i] = k

\* The same of any slots and ages, so that it can be said of a state and of its
\* successor alike.
Ranks(L, A, k) ==
    /\ \A i \in L1Slots : L[i].valid <=> i < k
    /\ \A i \in L1Slots : i < k => A[i] < k
    /\ \A i, j \in L1Slots : i < k /\ j < k /\ A[i] = A[j] => i = j

IInv == TypeOK /\ \E k \in 0 .. L1Size : Ranked(k)

-------------------------------------------------------------------------------
\* A nonempty set of naturals has a least element, which First finds.
LEMMA LeastNatural ==
    ASSUME NEW S \in SUBSET Nat, S # {}
    PROVE  First(S) \in S /\ \A j \in S : First(S) <= j
<1> DEFINE LT == {ss \in Nat \X Nat : ss[1] < ss[2]}
<1>1. IsWellFoundedOn(LT, Nat)
  BY NatLessThanWellFounded DEF OpToRel
<1>2. PICK x \in S : \A y \in S : <<y, x>> \notin LT
  BY <1>1, WFMin
<1>3. \A y \in S : x <= y
  <2> SUFFICES ASSUME NEW y \in S, y < x PROVE FALSE
    OBVIOUS
  <2>1. <<y, x>> \in LT
    OBVIOUS
  <2> QED
    BY <1>2, <2>1
<1> QED
  BY <1>3 DEF First

\* The slot found for an address holds it.
LEMMA HitSlot ==
    ASSUME NEW ip, Hits1(ip) # {}
    PROVE  First(Hits1(ip)) \in L1Slots /\ l1[First(Hits1(ip))].valid /\ l1[First(Hits1(ip))].ip = ip
<1>1. Hits1(ip) \in SUBSET Nat
  BY CacheAssumption DEF Hits1, L1Slots
<1>2. First(Hits1(ip)) \in Hits1(ip)
  BY <1>1, LeastNatural
<1> QED
  BY <1>2 DEF Hits1

\* With k slots in use, Used is k.
LEMMA UsedIsK ==
    ASSUME NEW k \in 0 .. L1Size, Ranked(k)
    PROVE  Used = k
<1>1. L1Slots \ Free1 = 0 .. k - 1
  BY CacheAssumption DEF L1Slots, Free1, Ranked
<1>2. Cardinality(0 .. k - 1) = k
  BY FS_Interval, CacheAssumption
<1> QED
  BY <1>1, <1>2 DEF Used

\* In a cache with k slots in use every rank below k is some slot's: the ages are
\* an injection of those slots into themselves.
LEMMA EveryRank ==
    ASSUME NEW L, NEW A \in [L1Slots -> Ages], NEW k \in 0 .. L1Size, Ranks(L, A, k)
    PROVE  \A r \in 0 .. k - 1 : \E i \in L1Slots : i < k /\ A[i] = r
<1> DEFINE S == 0 .. k - 1
           a == [i \in S |-> A[i]]
<1>1. k \in Nat /\ L1Size \in Nat /\ k <= L1Size /\ AgeMod \in Nat
  BY CacheAssumption
<1>2. S \subseteq L1Slots /\ \A i \in S : i < k
  BY <1>1 DEF L1Slots
<1>3. \A i \in S : A[i] \in S
  BY <1>1, <1>2 DEF Ranks, Ages
<1>4. a \in Injection(S, S)
  <2>1. a \in [S -> S]
    BY <1>3
  <2>2. \A i, j \in S : a[i] = a[j] => i = j
    BY <1>2 DEF Ranks
  <2> HIDE DEF a, S
  <2> QED
    BY <2>1, <2>2 DEF Injection, IsInjective
<1>5. IsFiniteSet(S)
  BY FS_Interval, <1>1
<1>6. a \in Surjection(S, S)
  <2> HIDE DEF a, S
  <2> QED
    BY <1>4, <1>5, FS_Injection
<1>7. \A r \in S : \E i \in S : a[i] = r
  <2> HIDE DEF a, S
  <2> QED
    BY <1>6 DEF Surjection
<1> QED
  BY <1>2, <1>7

\* The victim is the first free slot, or in a full cache the slot of the greatest
\* rank: the one used least recently.
LEMMA VictimRank ==
    ASSUME TypeOK, NEW k \in 0 .. L1Size, Ranked(k)
    PROVE  /\ Victim \in L1Slots
           /\ k < L1Size => Victim = k
           /\ k = L1Size => age[Victim] = L1Size - 1
<1>1. CASE k < L1Size
  <2>1. k \in Free1 /\ \A j \in Free1 : k <= j
    BY <1>1, CacheAssumption DEF Free1, Ranked, L1Slots
  <2>2. Free1 \subseteq Nat
    BY CacheAssumption DEF Free1, L1Slots
  <2>3. First(Free1) = k
    <3>1. First(Free1) \in Free1 /\ First(Free1) <= k
      BY <2>1, <2>2, LeastNatural
    <3>2. First(Free1) \in Nat
      BY <2>2, <3>1
    <3>3. k \in Nat /\ k <= First(Free1)
      BY <2>1, <2>2, <3>1
    <3> QED
      BY <3>1, <3>2, <3>3
  <2> QED
    BY <1>1, <2>1, <2>3 DEF Victim, Free1
<1>2. CASE k = L1Size
  <2>1. Free1 = {}
    BY <1>2, CacheAssumption DEF Free1, Ranked, L1Slots
  <2>2. PICK g \in L1Slots : age[g] = L1Size - 1
    <3>1. Ranks(l1, age, L1Size) /\ L1Size - 1 \in 0 .. L1Size - 1 /\ L1Size \in 0 .. L1Size
      BY <1>2, CacheAssumption DEF Ranks, Ranked
    <3> QED
      BY <3>1, EveryRank DEF TypeOK
  <2>3. \A j \in L1Slots : age[j] < age[g] \/ (age[j] = age[g] /\ j <= g)
    BY <1>2, <2>2, CacheAssumption DEF Ranked, L1Slots, TypeOK, Ages
  <2>4. /\ Oldest \in L1Slots
        /\ \A j \in L1Slots : age[j] < age[Oldest] \/ (age[j] = age[Oldest] /\ j <= Oldest)
    BY <2>3 DEF Oldest
  <2>5. age[Oldest] = L1Size - 1
    BY <1>2, <2>2, <2>4, CacheAssumption DEF Ranked, L1Slots, TypeOK, Ages
  <2> QED
    BY <1>2, <2>1, <2>4, <2>5 DEF Victim
<1> QED
  BY <1>1, <1>2, CacheAssumption

\* What touching a slot of age m does to the age a of another slot.
Grown(a, m) == IF a <= m THEN a + 1 ELSE a

LEMMA GrownFacts ==
    ASSUME NEW m \in Nat, NEW a \in Nat, NEW b \in Nat
    PROVE  /\ Grown(a, m) # 0
           /\ a # m /\ b # m /\ Grown(a, m) = Grown(b, m) => a = b
<1>1. CASE a <= m /\ b <= m
  BY <1>1 DEF Grown
<1>2. CASE a <= m /\ ~(b <= m)
  BY <1>2 DEF Grown
<1>3. CASE ~(a <= m) /\ b <= m
  BY <1>3 DEF Grown
<1>4. CASE ~(a <= m) /\ ~(b <= m)
  BY <1>4 DEF Grown
<1> QED
  BY <1>1, <1>2, <1>3, <1>4

\* Touching a slot in use permutes the ranks.
LEMMA TouchUsed ==
    ASSUME TypeOK, NEW k \in 0 .. L1Size, Ranked(k),
           NEW idx \in L1Slots, idx < k,
           age' = Touched(idx),
           \A i \in L1Slots : l1'[i].valid <=> l1[i].valid
    PROVE  Ranked(k)' /\ age' \in [L1Slots -> Ages]
<1>1. age \in [L1Slots -> Ages] /\ k \in Nat /\ k <= AgeMod /\ AgeMod \in Nat /\ L1Size \in Nat
  BY CacheAssumption DEF TypeOK
<1>2. \A i \in L1Slots : age'[i] = IF i = idx THEN 0
                                   ELSE IF age[i] <= age[idx] THEN age[i] + 1 ELSE age[i]
  BY <1>1 DEF Touched, Older, Ranked, Ages, L1Slots
<1>3. age' \in [L1Slots -> Ages]
  BY <1>1, <1>2 DEF Touched, Ages, Ranked, L1Slots
<1>4. \A i \in L1Slots : i < k => age'[i] < k
  BY <1>1, <1>2 DEF Ranked, Ages, L1Slots
<1>5. \A i, j \in L1Slots : i < k /\ j < k /\ age'[i] = age'[j] => i = j
  <2> SUFFICES ASSUME NEW i \in L1Slots, NEW j \in L1Slots, i < k, j < k, age'[i] = age'[j]
               PROVE  i = j
    OBVIOUS
  <2>1. age[i] \in Nat /\ age[j] \in Nat /\ age[idx] \in Nat
    BY <1>1 DEF Ages
  <2>2. /\ age[i] = age[j] => i = j
        /\ age[i] = age[idx] => i = idx
        /\ age[j] = age[idx] => j = idx
    BY DEF Ranked
  <2>3. /\ age'[i] = IF i = idx THEN 0 ELSE Grown(age[i], age[idx])
        /\ age'[j] = IF j = idx THEN 0 ELSE Grown(age[j], age[idx])
    BY <1>2 DEF Grown
  <2>4. CASE i = idx
    <3>1. age'[j] = 0
      BY <2>3, <2>4
    <3>2. j # idx => age'[j] # 0
      BY <2>1, <2>3, GrownFacts
    <3> QED
      BY <2>4, <3>1, <3>2
  <2>5. CASE j = idx
    <3>1. age'[i] = 0
      BY <2>3, <2>5
    <3>2. i # idx => age'[i] # 0
      BY <2>1, <2>3, GrownFacts
    <3> QED
      BY <2>5, <3>1, <3>2
  <2>6. CASE i # idx /\ j # idx
    <3>1. age[i] # age[idx] /\ age[j] # age[idx]
      BY <2>2, <2>6
    <3>2. age'[i] = Grown(age[i], age[idx]) /\ age'[j] = Grown(age[j], age[idx])
      BY <2>3, <2>6
    <3>3. age[i] = age[j]
      BY <2>1, <3>1, <3>2, GrownFacts
    <3> QED
      BY <2>2, <3>3
  <2> QED
    BY <2>4, <2>5, <2>6
<1>6. \A i \in L1Slots : ~(i < k) => age'[i] = k
  BY <1>1, <1>2 DEF Ranked, Ages, L1Slots
<1> QED
  BY <1>3, <1>4, <1>5, <1>6 DEF Ranked

\* Filling a free slot makes every other binding older by one.
LEMMA FillFree ==
    ASSUME TypeOK, NEW k \in 0 .. L1Size, Ranked(k), k < L1Size,
           age' = Touched(Victim),
           \A i \in L1Slots : l1'[i].valid <=> (l1[i].valid \/ i = Victim)
    PROVE  /\ Ranked(k + 1)'
           /\ \A i \in L1Slots : i < k => age'[i] = age[i] + 1
           /\ age' \in [L1Slots -> Ages]
<1>1. Victim = k /\ k \in L1Slots
  BY VictimRank
<1>2. age \in [L1Slots -> Ages] /\ k + 1 \in 0 .. L1Size /\ L1Size <= AgeMod /\ AgeMod \in Nat
  BY CacheAssumption DEF TypeOK
<1>3. \A i \in L1Slots : age[i] <= k /\ (age[i] = k => ~(i < k))
  BY <1>2, CacheAssumption DEF Ranked, L1Slots, Ages
<1>4. age[k] = k
  BY <1>1 DEF Ranked, L1Slots
<1>5. \A i \in L1Slots : i # k => age[i] + 1 < AgeMod
  <2> SUFFICES ASSUME NEW i \in L1Slots, i # k PROVE age[i] + 1 < AgeMod
    OBVIOUS
  <2>1. i \in Nat /\ k \in Nat /\ age[i] \in Nat /\ L1Size \in Nat /\ AgeMod \in Nat
    BY <1>2, CacheAssumption DEF L1Slots, Ages
  <2>2. i <= L1Size - 1 /\ k + 1 <= L1Size /\ L1Size <= AgeMod
    BY <1>2, <2>1 DEF L1Slots
  <2>3. CASE i < k
    <3>1. age[i] < k
      BY <2>3 DEF Ranked
    <3> QED
      BY <2>1, <2>2, <3>1
  <2>4. CASE k < i
    <3>1. age[i] = k
      BY <2>1, <2>4 DEF Ranked
    <3> QED
      BY <2>1, <2>2, <2>4, <3>1
  <2> QED
    BY <2>1, <2>3, <2>4
<1>6. \A i \in L1Slots : age'[i] = IF i = k THEN 0 ELSE age[i] + 1
  BY <1>1, <1>2, <1>3, <1>4, <1>5 DEF Touched, Older, Ages
<1>7. age' \in [L1Slots -> Ages]
  BY <1>1, <1>2, <1>5, <1>6 DEF Touched, Ages
<1>8. Ranked(k + 1)'
  <2>1. k \in Nat /\ L1Slots \subseteq Nat /\ \A i \in L1Slots : age[i] \in Nat
    BY <1>2, CacheAssumption DEF L1Slots, Ages
  <2>2. \A i \in L1Slots : l1'[i].valid <=> i < k + 1
    <3> SUFFICES ASSUME NEW i \in L1Slots PROVE l1'[i].valid <=> i < k + 1
      OBVIOUS
    <3>1. l1'[i].valid <=> (i < k \/ i = k)
      BY <1>1 DEF Ranked
    <3>2. (i < k \/ i = k) <=> i < k + 1
      BY <2>1
    <3> QED
      BY <3>1, <3>2
  <2>3. \A i \in L1Slots : i < k + 1 => age'[i] < k + 1
    BY <1>6, <2>1 DEF Ranked
  <2>4. \A i, j \in L1Slots : i < k + 1 /\ j < k + 1 /\ age'[i] = age'[j] => i = j
    BY <1>6, <2>1 DEF Ranked
  <2>5. \A i \in L1Slots : ~(i < k + 1) => age'[i] = k + 1
    BY <1>6, <2>1 DEF Ranked
  <2> QED
    BY <2>2, <2>3, <2>4, <2>5 DEF Ranked
<1>9. \A i \in L1Slots : i < k => age'[i] = age[i] + 1
  BY <1>2, <1>6, CacheAssumption DEF L1Slots
<1> QED
  BY <1>7, <1>8, <1>9

\* Filling a slot adds a rank while there is a free slot, and permutes the ranks
\* of a full cache.
LEMMA FillVictim ==
    ASSUME TypeOK, NEW k \in 0 .. L1Size, Ranked(k),
           age' = Touched(Victim),
           \A i \in L1Slots : l1'[i].valid <=> (l1[i].valid \/ i = Victim)
    PROVE  /\ \E n \in 0 .. L1Size : Ranked(n)'
           /\ age' \in [L1Slots -> Ages]
<1>1. CASE k = L1Size
  <2>1. Victim \in L1Slots /\ Victim < k
    BY <1>1, VictimRank DEF L1Slots
  <2>2. \A i \in L1Slots : l1'[i].valid <=> l1[i].valid
    BY <2>1 DEF Ranked
  <2> QED
    BY <1>1, <2>1, <2>2, TouchUsed
<1>2. CASE k < L1Size
  <2>1. Ranked(k + 1)' /\ age' \in [L1Slots -> Ages]
    BY <1>2, FillFree
  <2>2. k + 1 \in 0 .. L1Size
    BY <1>2, CacheAssumption
  <2> QED
    BY <2>1, <2>2
<1> QED
  BY <1>1, <1>2, CacheAssumption

-------------------------------------------------------------------------------
\* What the slots hold is typed, whatever is inserted.
LEMMA InsertTyped ==
    ASSUME TypeOK, NEW ip \in Ip, NEW mac \in Mac \cup {NoMac}, Insert(ip, mac),
           Victim \in L1Slots
    PROVE  /\ l1' \in [L1Slots -> Entry]
           /\ l2' \in [L2Slots -> Entry]
           /\ \A i \in L1Slots : l1'[i].valid <=> (l1[i].valid \/ i = Victim)
<1>1. Filled(ip, mac) \in Entry /\ Filled(ip, mac).valid
  BY DEF Filled, Entry
<1>2. l1' \in [L1Slots -> Entry]
  BY <1>1 DEF Insert, TypeOK
<1>3. l2' \in [L2Slots -> Entry]
  BY DEF Insert, TypeOK
<1>4. \A i \in L1Slots : l1'[i] = IF i = Victim THEN Filled(ip, mac) ELSE l1[i]
  BY DEF Insert, TypeOK
<1> QED
  BY <1>1, <1>2, <1>3, <1>4

\* Inserting keeps the ranks.
LEMMA InsertKeeps ==
    ASSUME IInv, NEW ip \in Ip, NEW mac \in Mac \cup {NoMac}, Insert(ip, mac)
    PROVE  /\ \E n \in 0 .. L1Size : Ranked(n)'
           /\ l1' \in [L1Slots -> Entry]
           /\ age' \in [L1Slots -> Ages]
           /\ l2' \in [L2Slots -> Entry]
<1>1. PICK k \in 0 .. L1Size : Ranked(k)
  BY DEF IInv
<1>2. TypeOK /\ Victim \in L1Slots
  BY <1>1, VictimRank DEF IInv
<1>3. /\ l1' \in [L1Slots -> Entry]
      /\ l2' \in [L2Slots -> Entry]
      /\ \A i \in L1Slots : l1'[i].valid <=> (l1[i].valid \/ i = Victim)
  BY <1>2, InsertTyped
<1>4. age' = Touched(Victim)
  BY DEF Insert
<1> QED
  BY <1>1, <1>2, <1>3, <1>4, FillVictim

\* Touching the slot that holds an address keeps the ranks.
LEMMA TouchHit ==
    ASSUME IInv, NEW ip \in Ip, Hits1(ip) # {},
           age' = Touched(First(Hits1(ip))),
           \A i \in L1Slots : l1'[i].valid <=> l1[i].valid
    PROVE  /\ First(Hits1(ip)) \in L1Slots
           /\ \E n \in 0 .. L1Size : Ranked(n)'
           /\ age' \in [L1Slots -> Ages]
<1>1. PICK k \in 0 .. L1Size : Ranked(k)
  BY DEF IInv
<1>2. First(Hits1(ip)) \in L1Slots /\ l1[First(Hits1(ip))].valid
  BY HitSlot
<1>3. First(Hits1(ip)) \in L1Slots /\ First(Hits1(ip)) < k
  BY <1>1, <1>2 DEF Ranked
<1> QED
  BY <1>1, <1>3, TouchUsed DEF IInv

-------------------------------------------------------------------------------
LEMMA InitIInv == Init => IInv
<1> SUFFICES ASSUME Init PROVE IInv
  OBVIOUS
<1>1. TypeOK
  BY CacheAssumption DEF Init, TypeOK, Entry, Unused, Ages
<1>2. Ranked(0) /\ 0 \in 0 .. L1Size
  BY CacheAssumption DEF Init, Ranked, Unused, L1Slots
<1> QED
  BY <1>1, <1>2 DEF IInv

LEMMA UpdateIInv ==
    ASSUME IInv, NEW ip \in Ip, NEW mac \in Mac, Update(ip, mac)
    PROVE  IInv'
<1>1. latest' \in [Ip -> Mac \cup {NoMac}] /\ fromL2' \subseteq Ip
  BY DEF Update, IInv, TypeOK
<1>2. CASE Hits1(ip) # {}
  <2>1. Refresh(ip, mac)
    BY <1>2 DEF Update
  <2>2. l1' \in [L1Slots -> Entry] /\ \A i \in L1Slots : l1'[i].valid <=> l1[i].valid
    <3> DEFINE h == First(Hits1(ip))
    <3>1. h \in L1Slots
      BY <1>2, HitSlot
    <3>2. l1' = [l1 EXCEPT ![h].mac = mac] /\ l1 \in [L1Slots -> Entry]
      BY <2>1 DEF Refresh, IInv, TypeOK
    <3> HIDE DEF h
    <3>3. l1[h] \in Entry
      BY <3>1, <3>2
    <3>4. [l1[h] EXCEPT !.mac = mac] \in Entry
      BY <3>3, Zenon DEF Entry
    <3>5. [l1[h] EXCEPT !.mac = mac].valid = l1[h].valid
      BY <3>3 DEF Entry
    <3>6. l1' = [l1 EXCEPT ![h] = [l1[h] EXCEPT !.mac = mac]]
      BY <3>2
    <3> QED
      BY <3>1, <3>2, <3>4, <3>5, <3>6
  <2>3. /\ \E n \in 0 .. L1Size : Ranked(n)'
        /\ age' \in [L1Slots -> Ages]
    BY <1>2, <2>1, <2>2, TouchHit DEF Refresh
  <2> QED
    BY <1>1, <2>1, <2>2, <2>3 DEF IInv, TypeOK, Refresh
<1>3. CASE Hits1(ip) = {}
  BY <1>1, <1>3, InsertKeeps DEF IInv, TypeOK, Update
<1> QED
  BY <1>2, <1>3

LEMMA LookupL1IInv ==
    ASSUME IInv, NEW ip \in Ip, LookupL1(ip)
    PROVE  IInv'
  BY TouchHit DEF IInv, TypeOK, LookupL1

LEMMA LookupL2IInv ==
    ASSUME IInv, NEW ip \in Ip, LookupL2(ip)
    PROVE  IInv'
<1>1. Hits2(ip) # {} /\ Hits2(ip) \in SUBSET Nat
  BY CacheAssumption DEF LookupL2, Hits2, L2Slots
<1>2. First(Hits2(ip)) \in Hits2(ip)
  BY <1>1, LeastNatural
<1>3. First(Hits2(ip)) \in L2Slots
  BY <1>2 DEF Hits2
<1>4. l2[First(Hits2(ip))].mac \in Mac \cup {NoMac}
  BY <1>3 DEF IInv, TypeOK, Entry
<1>5. fromL2' \subseteq Ip /\ latest' = latest /\ Insert(ip, l2[First(Hits2(ip))].mac)
  BY DEF LookupL2, IInv, TypeOK
<1> QED
  BY <1>4, <1>5, InsertKeeps DEF IInv, TypeOK

LEMMA NextIInv == IInv /\ [Next]_vars => IInv'
<1> SUFFICES ASSUME IInv, [Next]_vars PROVE IInv'
  OBVIOUS
<1>1. ASSUME NEW ip \in Ip, NEW mac \in Mac, Update(ip, mac) PROVE IInv'
  BY <1>1, UpdateIInv
<1>2. ASSUME NEW ip \in Ip, LookupL1(ip) PROVE IInv'
  BY <1>2, LookupL1IInv
<1>3. ASSUME NEW ip \in Ip, LookupL2(ip) PROVE IInv'
  BY <1>3, LookupL2IInv
<1>4. CASE UNCHANGED vars
  BY <1>4 DEF IInv, TypeOK, Ranked, vars
<1> QED
  BY <1>1, <1>2, <1>3, <1>4 DEF Next

-------------------------------------------------------------------------------
\* Every slot of both levels holds an entry or nothing, and every age fits its
\* width, for every cache size.
THEOREM TypeCorrect == Spec => []TypeOK
<1>1. IInv => TypeOK
  BY DEF IInv
<1> QED
  BY InitIInv, NextIInv, <1>1, PTL DEF Spec

\* The ages of the slots in use are the ranks of a recency order without ties, so
\* the age counter of L1_AGE_BITS never wraps and the victim is unambiguous.
THEOREM AgesCorrect == Spec => []AgesAreRanks
<1>1. IInv => AgesAreRanks
  <2> SUFFICES ASSUME IInv PROVE AgesAreRanks
    OBVIOUS
  <2>1. PICK k \in 0 .. L1Size : Ranked(k)
    BY DEF IInv
  <2>2. Used = k
    BY <2>1, UsedIsK
  <2> QED
    BY <2>1, <2>2 DEF Ranked, AgesAreRanks
<1> QED
  BY InitIInv, NextIInv, <1>1, PTL DEF Spec

-------------------------------------------------------------------------------
\* What the slots in use hold: bindings of real addresses, in level 1 no address
\* twice.  The first matters because a zero field is never a binding, the second
\* because a refresh changes only the first slot that holds the address.
Held ==
    /\ \A i \in L1Slots : l1[i].valid => l1[i].ip \in Ip /\ l1[i].mac \in Mac
    /\ \A i \in L2Slots : l2[i].valid => l2[i].ip \in Ip /\ l2[i].mac \in Mac
    /\ \A i, j \in L1Slots : l1[i].valid /\ l1[j].valid /\ l1[i].ip = l1[j].ip => i = j

CInv == IInv /\ Held /\ NoneLostWhileRoom /\ FreshUnlessPromoted

\* Where an inserted entry and the one it evicts go.
LEMMA InsertPlaces ==
    ASSUME IInv, NEW ip \in Ip, NEW mac, Insert(ip, mac)
    PROVE  /\ Victim \in L1Slots
           /\ \A i \in L1Slots : l1'[i] = IF i = Victim THEN Filled(ip, mac) ELSE l1[i]
           /\ \/ ~l1[Victim].valid /\ l2' = l2
              \/ Free2 = {} /\ l2' = l2
              \/ /\ First(Free2) \in L2Slots /\ ~l2[First(Free2)].valid
                 /\ l1[Victim].valid
                 /\ \A j \in L2Slots : l2'[j] = IF j = First(Free2) THEN l1[Victim] ELSE l2[j]
<1>1. Victim \in L1Slots
  BY VictimRank DEF IInv
<1>2. \A i \in L1Slots : l1'[i] = IF i = Victim THEN Filled(ip, mac) ELSE l1[i]
  BY DEF Insert, IInv, TypeOK
<1>3. ASSUME l1[Victim].valid, Free2 # {}
      PROVE  /\ First(Free2) \in L2Slots /\ ~l2[First(Free2)].valid
             /\ \A j \in L2Slots : l2'[j] = IF j = First(Free2) THEN l1[Victim] ELSE l2[j]
  <2>1. Free2 \in SUBSET Nat
    BY CacheAssumption DEF Free2, L2Slots
  <2>2. First(Free2) \in Free2
    BY <1>3, <2>1, LeastNatural
  <2>3. First(Free2) \in L2Slots /\ ~l2[First(Free2)].valid
    BY <2>2 DEF Free2
  <2>4. l2' = [l2 EXCEPT ![First(Free2)] = l1[Victim]]
    BY <1>3 DEF Insert
  <2> QED
    BY <2>3, <2>4 DEF IInv, TypeOK
<1>4. ~(l1[Victim].valid /\ Free2 # {}) => l2' = l2
  BY DEF Insert
<1> QED
  BY <1>1, <1>2, <1>3, <1>4

\* A new address enters the slots, and nothing leaves them while level 2 has room.
LEMMA InsertHeld ==
    ASSUME CInv, NEW ip \in Ip, NEW mac \in Mac, Insert(ip, mac), Hits1(ip) = {}
    PROVE  /\ Held'
           /\ Free2' # {} => \A x \in Ip : (Hits1(x) \cup Hits2(x) # {} \/ x = ip)
                                             => Hits1(x)' \cup Hits2(x)' # {}
           /\ Free2' # {} => Free2 # {}
<1>1. /\ Victim \in L1Slots
      /\ \A i \in L1Slots : l1'[i] = IF i = Victim THEN Filled(ip, mac) ELSE l1[i]
      /\ \/ ~l1[Victim].valid /\ l2' = l2
         \/ Free2 = {} /\ l2' = l2
         \/ /\ First(Free2) \in L2Slots /\ ~l2[First(Free2)].valid
            /\ l1[Victim].valid
            /\ \A j \in L2Slots : l2'[j] = IF j = First(Free2) THEN l1[Victim] ELSE l2[j]
  BY InsertPlaces DEF CInv
<1>2. Filled(ip, mac).valid /\ Filled(ip, mac).ip = ip /\ Filled(ip, mac).mac = mac
  BY DEF Filled
<1>3. \A i \in L1Slots : l1[i].valid => l1[i].ip # ip
  BY DEF Hits1
<1>4. Held'
  <2>1. \A i \in L1Slots : l1'[i].valid => l1'[i].ip \in Ip /\ l1'[i].mac \in Mac
    BY <1>1, <1>2 DEF CInv, Held
  <2>2. \A i \in L2Slots : l2'[i].valid => l2'[i].ip \in Ip /\ l2'[i].mac \in Mac
    BY <1>1 DEF CInv, Held
  <2>3. \A i, j \in L1Slots : l1'[i].valid /\ l1'[j].valid /\ l1'[i].ip = l1'[j].ip => i = j
    BY <1>1, <1>2, <1>3 DEF CInv, Held
  <2> QED
    BY <2>1, <2>2, <2>3 DEF Held
<1>5. Free2' # {} => Free2 # {}
  BY <1>1 DEF Free2
<1>6. ASSUME Free2' # {}, NEW x \in Ip, Hits1(x) \cup Hits2(x) # {} \/ x = ip
      PROVE  Hits1(x)' \cup Hits2(x)' # {}
  <2>1. CASE x = ip
    <3>1. Victim \in Hits1(x)'
      BY <1>1, <1>2, <2>1 DEF Hits1
    <3> QED
      BY <3>1
  <2>2. ASSUME NEW i \in Hits1(x), i # Victim PROVE i \in Hits1(x)'
    BY <1>1, <2>2 DEF Hits1
  <2>3. ASSUME Victim \in Hits1(x) PROVE First(Free2) \in Hits2(x)'
    <3>1. l1[Victim].valid /\ l1[Victim].ip = x
      BY <2>3 DEF Hits1
    <3>2. First(Free2) \in L2Slots /\ l2'[First(Free2)] = l1[Victim]
      BY <1>1, <1>5, <1>6, <3>1
    <3> QED
      BY <3>1, <3>2 DEF Hits2
  <2>4. ASSUME NEW i \in Hits2(x) PROVE i \in Hits2(x)'
    <3>1. i \in L2Slots /\ l2[i].valid /\ l2[i].ip = x
      BY <2>4 DEF Hits2
    <3>2. l2'[i] = l2[i]
      BY <1>1, <3>1
    <3> QED
      BY <3>1, <3>2 DEF Hits2
  <2> QED
    BY <1>6, <2>1, <2>2, <2>3, <2>4
<1> QED
  BY <1>4, <1>5, <1>6

\* Refreshing the slot of an address gives it the new binding and no other slot.
LEMMA RefreshHeld ==
    ASSUME CInv, NEW ip \in Ip, NEW mac \in Mac, Hits1(ip) # {}, Refresh(ip, mac)
    PROVE  /\ Held'
           /\ \A i \in L1Slots :
                /\ l1'[i].valid = l1[i].valid /\ l1'[i].ip = l1[i].ip
                /\ l1[i].valid => l1'[i].mac = IF l1[i].ip = ip THEN mac ELSE l1[i].mac
<1> DEFINE h == First(Hits1(ip))
<1>1. h \in L1Slots /\ l1[h].valid /\ l1[h].ip = ip
  BY HitSlot
<1> HIDE DEF h
<1>2. l1' = [l1 EXCEPT ![h].mac = mac] /\ l2' = l2
  BY DEF Refresh, h
<1>3. \A i \in L1Slots : /\ l1'[i].valid = l1[i].valid /\ l1'[i].ip = l1[i].ip
                         /\ l1'[i].mac = IF i = h THEN mac ELSE l1[i].mac
  BY <1>1, <1>2 DEF CInv, IInv, TypeOK, Entry
<1>4. \A i \in L1Slots : l1[i].valid => (l1[i].ip = ip <=> i = h)
  BY <1>1 DEF CInv, Held
<1>5. Held'
  BY <1>2, <1>3 DEF CInv, Held
<1> QED
  BY <1>3, <1>4, <1>5

LEMMA UpdateCInv ==
    ASSUME CInv, NEW ip \in Ip, NEW mac \in Mac, Update(ip, mac)
    PROVE  CInv'
<1>1. IInv'
  BY UpdateIInv DEF CInv
<1>2. /\ latest \in [Ip -> Mac \cup {NoMac}] /\ latest' = [latest EXCEPT ![ip] = mac]
      /\ fromL2' = fromL2 \ {ip}
  BY DEF CInv, IInv, TypeOK, Update
<1>3. CASE Hits1(ip) # {}
  <2>1. Refresh(ip, mac)
    BY <1>3 DEF Update
  <2>2. /\ Held'
        /\ \A i \in L1Slots :
             /\ l1'[i].valid = l1[i].valid /\ l1'[i].ip = l1[i].ip
             /\ l1[i].valid => l1'[i].mac = IF l1[i].ip = ip THEN mac ELSE l1[i].mac
    BY <1>3, <2>1, RefreshHeld
  <2>3. l2' = l2
    BY <2>1 DEF Refresh
  <2>4. NoneLostWhileRoom'
    <3>1. \A x : Hits1(x)' = Hits1(x) /\ Hits2(x)' = Hits2(x)
      BY <2>2, <2>3 DEF Hits1, Hits2
    <3>2. Free2' = Free2
      BY <2>3 DEF Free2
    <3>3. \A x \in Ip : latest'[x] # NoMac => latest[x] # NoMac \/ x = ip
      BY <1>2
    <3> QED
      BY <1>3, <3>1, <3>2, <3>3 DEF CInv, NoneLostWhileRoom
  <2>5. FreshUnlessPromoted'
    BY <1>2, <2>2 DEF CInv, Held, FreshUnlessPromoted
  <2> QED
    BY <1>1, <2>2, <2>4, <2>5 DEF CInv
<1>4. CASE Hits1(ip) = {}
  <2>1. Insert(ip, mac)
    BY <1>4 DEF Update
  <2>2. /\ Held'
        /\ Free2' # {} => \A x \in Ip : (Hits1(x) \cup Hits2(x) # {} \/ x = ip)
                                          => Hits1(x)' \cup Hits2(x)' # {}
        /\ Free2' # {} => Free2 # {}
    BY <1>4, <2>1, InsertHeld
  <2>3. NoneLostWhileRoom'
    <3>1. \A x \in Ip : latest'[x] # NoMac => latest[x] # NoMac \/ x = ip
      BY <1>2
    <3> QED
      BY <2>2, <3>1 DEF CInv, NoneLostWhileRoom
  <2>4. FreshUnlessPromoted'
    <3>1. \A i \in L1Slots : l1'[i] = Filled(ip, mac) \/ (l1'[i] = l1[i] /\ l1[i] = l1[i])
      BY <2>1, InsertPlaces DEF CInv
    <3>2. Filled(ip, mac).ip = ip /\ Filled(ip, mac).mac = mac
      BY DEF Filled
    <3>3. \A i \in L1Slots : l1[i].valid => l1[i].ip \in Ip /\ l1[i].ip # ip
      BY <1>4 DEF CInv, Held, Hits1
    <3> QED
      BY <1>2, <3>1, <3>2, <3>3 DEF CInv, FreshUnlessPromoted
  <2> QED
    BY <1>1, <2>2, <2>3, <2>4 DEF CInv
<1> QED
  BY <1>3, <1>4

LEMMA LookupL2CInv ==
    ASSUME CInv, NEW ip \in Ip, LookupL2(ip)
    PROVE  CInv'
<1> DEFINE mac == l2[First(Hits2(ip))].mac
<1>1. IInv'
  BY LookupL2IInv DEF CInv
<1>2. mac \in Mac
  <2>1. Hits2(ip) # {} /\ Hits2(ip) \in SUBSET Nat
    BY CacheAssumption DEF LookupL2, Hits2, L2Slots
  <2>2. First(Hits2(ip)) \in Hits2(ip)
    BY <2>1, LeastNatural
  <2> QED
    BY <2>2 DEF CInv, Held, Hits2
<1>3. Insert(ip, mac) /\ Hits1(ip) = {} /\ latest' = latest /\ fromL2' = fromL2 \cup {ip}
  BY DEF LookupL2
<1> HIDE DEF mac
<1>4. /\ Held'
      /\ Free2' # {} => \A x \in Ip : (Hits1(x) \cup Hits2(x) # {} \/ x = ip)
                                        => Hits1(x)' \cup Hits2(x)' # {}
      /\ Free2' # {} => Free2 # {}
  BY <1>2, <1>3, InsertHeld
<1>5. NoneLostWhileRoom'
  BY <1>3, <1>4 DEF CInv, NoneLostWhileRoom
<1>6. FreshUnlessPromoted'
  <2>1. \A i \in L1Slots : l1'[i] = Filled(ip, mac) \/ l1'[i] = l1[i]
    BY <1>3, InsertPlaces DEF CInv
  <2>2. Filled(ip, mac).ip = ip
    BY DEF Filled
  <2> QED
    BY <1>3, <2>1, <2>2 DEF CInv, FreshUnlessPromoted
<1> QED
  BY <1>1, <1>4, <1>5, <1>6 DEF CInv

LEMMA InitCInv == Init => CInv
<1> SUFFICES ASSUME Init PROVE CInv
  OBVIOUS
<1>1. IInv
  BY InitIInv
<1>2. Held /\ FreshUnlessPromoted
  BY DEF Init, Held, Unused, FreshUnlessPromoted
<1>3. NoneLostWhileRoom
  BY DEF Init, NoneLostWhileRoom
<1> QED
  BY <1>1, <1>2, <1>3 DEF CInv

LEMMA NextCInv == CInv /\ [Next]_vars => CInv'
<1> SUFFICES ASSUME CInv, [Next]_vars PROVE CInv'
  OBVIOUS
<1>1. ASSUME NEW ip \in Ip, NEW mac \in Mac, Update(ip, mac) PROVE CInv'
  BY <1>1, UpdateCInv
<1>2. ASSUME NEW ip \in Ip, LookupL1(ip) PROVE CInv'
  <2>1. IInv'
    BY <1>2, LookupL1IInv DEF CInv
  <2>2. l1' = l1 /\ l2' = l2 /\ latest' = latest /\ fromL2' = fromL2
    BY <1>2 DEF LookupL1
  <2>3. Held' /\ NoneLostWhileRoom' /\ FreshUnlessPromoted'
    BY <2>2 DEF CInv, Held, NoneLostWhileRoom, FreshUnlessPromoted, Hits1, Hits2, Free2
  <2> QED
    BY <2>1, <2>3 DEF CInv
<1>3. ASSUME NEW ip \in Ip, LookupL2(ip) PROVE CInv'
  BY <1>3, LookupL2CInv
<1>4. CASE UNCHANGED vars
  <2>1. IInv'
    BY NextIInv DEF CInv
  <2>2. l1' = l1 /\ l2' = l2 /\ latest' = latest /\ fromL2' = fromL2
    BY <1>4 DEF vars
  <2>3. Held' /\ NoneLostWhileRoom' /\ FreshUnlessPromoted'
    BY <2>2 DEF CInv, Held, NoneLostWhileRoom, FreshUnlessPromoted, Hits1, Hits2, Free2
  <2> QED
    BY <2>1, <2>3 DEF CInv
<1> QED
  BY <1>1, <1>2, <1>3, <1>4 DEF Next

-------------------------------------------------------------------------------
\* The list of bindings that slots and ages stand for, of a state or its successor.
RankIn(L, A, r)  == CHOOSE i \in L1Slots : L[i].valid /\ A[i] = r
ListOf(L, A, k) == [n \in 1 .. k |-> [ip  |-> L[RankIn(L, A, n - 1)].ip,
                                      mac |-> L[RankIn(L, A, n - 1)].mac]]

\* The list has the binding of the slot of age a at place a + 1, and those places
\* are all there are.
LEMMA ListFacts ==
    ASSUME NEW L, NEW A \in [L1Slots -> Ages], NEW k \in 0 .. L1Size, Ranks(L, A, k)
    PROVE  /\ \A i \in L1Slots : i < k =>
                /\ A[i] + 1 \in 1 .. k
                /\ ListOf(L, A, k)[A[i] + 1] = [ip |-> L[i].ip, mac |-> L[i].mac]
           /\ \A n \in 1 .. k : \E i \in L1Slots : i < k /\ A[i] = n - 1
<1>1. k \in Nat /\ L1Size \in Nat /\ AgeMod \in Nat
  BY CacheAssumption
<1>2. ASSUME NEW i \in L1Slots, i < k
      PROVE  /\ A[i] + 1 \in 1 .. k
             /\ ListOf(L, A, k)[A[i] + 1] = [ip |-> L[i].ip, mac |-> L[i].mac]
  <2>1. A[i] \in Nat /\ A[i] < k
    BY <1>1, <1>2 DEF Ranks, Ages
  <2>2. A[i] + 1 \in 1 .. k /\ (A[i] + 1) - 1 = A[i]
    BY <1>1, <2>1
  <2>3. RankIn(L, A, A[i]) = i
    <3>1. L[i].valid /\ A[i] = A[i]
      BY <1>2 DEF Ranks
    <3>2. \A j \in L1Slots : L[j].valid /\ A[j] = A[i] => j = i
      BY <1>2 DEF Ranks
    <3> QED
      BY <3>1, <3>2 DEF RankIn
  <2>4. ListOf(L, A, k)[A[i] + 1] = [ip  |-> L[RankIn(L, A, (A[i] + 1) - 1)].ip,
                                     mac |-> L[RankIn(L, A, (A[i] + 1) - 1)].mac]
    BY <2>2 DEF ListOf
  <2> QED
    BY <2>2, <2>3, <2>4
<1>3. ASSUME NEW n \in 1 .. k PROVE \E i \in L1Slots : i < k /\ A[i] = n - 1
  <2>1. n - 1 \in 0 .. k - 1
    BY <1>1
  <2> QED
    BY <2>1, EveryRank
<1> QED
  BY <1>2, <1>3

\* What is read out of the slots and ages is a sequence of that many bindings.
LEMMA BindingsList ==
    ASSUME NEW k \in 0 .. L1Size, Ranked(k)
    PROVE  /\ Bindings = ListOf(l1, age, k)
           /\ Ranks(l1, age, k)
<1>1. Used = k
  BY UsedIsK
<1>2. Bindings = ListOf(l1, age, k)
  BY <1>1 DEF Bindings, Rank, ListOf, RankIn
<1> QED
  BY <1>2 DEF Ranked, Ranks

\* The same of the next state.
LEMMA BindingsNext ==
    ASSUME NEW k \in 0 .. L1Size, Ranked(k)'
    PROVE  /\ Bindings' = ListOf(l1', age', k)
           /\ Ranks(l1', age', k)
<1>1. (L1Slots \ Free1)' = 0 .. k - 1
  BY CacheAssumption DEF L1Slots, Free1, Ranked
<1>2. Cardinality(0 .. k - 1) = k
  BY FS_Interval, CacheAssumption
<1>3. Used' = k
  BY <1>1, <1>2 DEF Used
<1>4. Bindings' = ListOf(l1', age', k)
  BY <1>3 DEF Bindings, Rank, ListOf, RankIn
<1> QED
  BY <1>4 DEF Ranked, Ranks

LEMMA ConcatLength ==
    ASSUME NEW S, NEW v \in Seq(S), NEW w \in Seq(S)
    PROVE  w \o v \in Seq(S) /\ Len(w \o v) = Len(w) + Len(v)
  OBVIOUS

\* A list without its place m + 1, and with b in front.
LEMMA MovedToFront ==
    ASSUME NEW S, NEW s \in Seq(S), NEW k \in Nat, Len(s) = k, NEW m \in Nat, m < k, NEW b \in S
    PROVE  LET t == <<b>> \o SubSeq(s, 1, m) \o SubSeq(s, m + 2, k)
           IN  /\ t \in Seq(S) /\ Len(t) = k
               /\ t[1] = b
               /\ \A n \in 1 .. m : t[n + 1] = s[n]
               /\ \A n \in m + 2 .. k : t[n] = s[n]
<1> DEFINE u == SubSeq(s, 1, m)
           v == SubSeq(s, m + 2, k)
           w == <<b>> \o u
           t == w \o v
<1>1. u \in Seq(S) /\ Len(u) = m /\ \A n \in 1 .. m : u[n] = s[n]
  OBVIOUS
<1>2. v \in Seq(S) /\ Len(v) = k - (m + 1) /\ \A n \in 1 .. k - (m + 1) : v[n] = s[n + (m + 1)]
  OBVIOUS
<1> HIDE DEF u, v
<1>3. w \in Seq(S) /\ Len(w) = m + 1 /\ w[1] = b /\ \A n \in 1 .. m : w[n + 1] = u[n]
  BY <1>1
<1> HIDE DEF w
<1>4. t \in Seq(S) /\ Len(t) = k
  <2>1. w \in Seq(S) /\ v \in Seq(S)
    BY <1>2, <1>3
  <2>3. t \in Seq(S) /\ Len(t) = Len(w) + Len(v)
    BY ONLY <2>1, ConcatLength
  <2>2. (m + 1) + (k - (m + 1)) = k
    OBVIOUS
  <2> QED
    BY <1>2, <1>3, <2>3, <2>2
<1>5. t[1] = b /\ \A n \in 1 .. m : t[n + 1] = w[n + 1]
  BY <1>2, <1>3
<1>6. \A n \in m + 2 .. k : t[n] = s[n]
  <2> SUFFICES ASSUME NEW n \in m + 2 .. k PROVE t[n] = s[n]
    OBVIOUS
  <2> DEFINE j == n - (m + 1)
  <2>1. j \in 1 .. k - (m + 1) /\ j + (m + 1) = n
    OBVIOUS
  <2>2. t[n] = v[n - Len(w)]
    BY <1>2, <1>3
  <2> HIDE DEF j
  <2>3. n - Len(w) = j
    BY <1>3 DEF j
  <2> QED
    BY <1>2, <2>1, <2>2, <2>3
<1> QED
  BY <1>1, <1>3, <1>4, <1>5, <1>6 DEF t, u, v, w

\* An element in front of the first m of a list, or of all of it.
LEMMA InFront ==
    ASSUME NEW S, NEW s \in Seq(S), NEW k \in Nat, Len(s) = k, k - 1 \in Nat, NEW b \in S
    PROVE  LET t == <<b>> \o SubSeq(s, 1, k - 1)
           IN  t \in Seq(S) /\ Len(t) = k /\ t[1] = b /\ \A n \in 1 .. k - 1 : t[n + 1] = s[n]
<1> DEFINE u == SubSeq(s, 1, k - 1)
<1>1. u \in Seq(S) /\ Len(u) = k - 1 /\ \A n \in 1 .. k - 1 : u[n] = s[n]
  OBVIOUS
<1> HIDE DEF u
<1>2. /\ <<b>> \o u \in Seq(S) /\ Len(<<b>> \o u) = k /\ (<<b>> \o u)[1] = b
      /\ \A n \in 1 .. k - 1 : (<<b>> \o u)[n + 1] = u[n]
  BY <1>1
<1> QED
  BY <1>1, <1>2 DEF u

LEMMA InFrontAll ==
    ASSUME NEW S, NEW s \in Seq(S), NEW k \in Nat, Len(s) = k, NEW b \in S
    PROVE  LET t == <<b>> \o s
           IN  t \in Seq(S) /\ Len(t) = k + 1 /\ t[1] = b /\ \A n \in 1 .. k : t[n + 1] = s[n]
  OBVIOUS


BindingSet == [ip : Ip, mac : Mac]

\* The list is a sequence of bindings, one for each slot in use.
LEMMA BindingsTyped ==
    ASSUME CInv, NEW k \in 0 .. L1Size, Ranked(k)
    PROVE  Bindings \in Seq(BindingSet) /\ Len(Bindings) = k
<1>1. Bindings = ListOf(l1, age, k) /\ Ranks(l1, age, k) /\ age \in [L1Slots -> Ages]
  BY BindingsList DEF CInv, IInv, TypeOK
<1>2. /\ \A i \in L1Slots : i < k =>
           ListOf(l1, age, k)[age[i] + 1] = [ip |-> l1[i].ip, mac |-> l1[i].mac]
      /\ \A n \in 1 .. k : \E i \in L1Slots : i < k /\ age[i] = n - 1
  BY <1>1, ListFacts
<1>3. \A i \in L1Slots : i < k => [ip |-> l1[i].ip, mac |-> l1[i].mac] \in BindingSet
  BY <1>1 DEF CInv, Held, Ranks, BindingSet
<1>4. ASSUME NEW n \in 1 .. k PROVE Bindings[n] \in BindingSet
  <2>1. PICK i \in L1Slots : i < k /\ age[i] = n - 1
    BY <1>2
  <2>2. age[i] + 1 = n
    BY <2>1
  <2> QED
    BY <1>1, <1>2, <1>3, <2>1, <2>2
<1>5. k \in Nat /\ DOMAIN Bindings = 1 .. k
  BY <1>1, CacheAssumption DEF ListOf
<1>6. Bindings \in [1 .. k -> BindingSet]
  <2>1. Bindings = [n \in 1 .. k |-> Bindings[n]]
    BY <1>1 DEF ListOf
  <2> QED
    BY <1>4, <2>1
<1> QED
  BY <1>5, <1>6

\* Touching a slot moves its binding to the front of the list.
LEMMA TouchMoves ==
    ASSUME CInv, NEW k \in 0 .. L1Size, Ranked(k), Ranked(k)', age' \in [L1Slots -> Ages],
           NEW h \in L1Slots, h < k, age' = Touched(h),
           NEW b, b = [ip |-> l1'[h].ip, mac |-> l1'[h].mac],
           \A i \in L1Slots : i # h => l1'[i].ip = l1[i].ip /\ l1'[i].mac = l1[i].mac
    PROVE  /\ age[h] \in 0 .. k - 1
           /\ Bindings[age[h] + 1] = [ip |-> l1[h].ip, mac |-> l1[h].mac]
           /\ Bindings' = [n \in 1 .. k |-> Bindings'[n]]
           /\ Bindings'[1] = b
           /\ \A n \in 1 .. age[h] : Bindings'[n + 1] = Bindings[n]
           /\ \A n \in age[h] + 2 .. k : Bindings'[n] = Bindings[n]
<1>1. /\ age \in [L1Slots -> Ages] /\ k \in Nat /\ k <= AgeMod /\ AgeMod \in Nat /\ L1Size \in Nat
      /\ L1Slots \subseteq Nat
  BY CacheAssumption DEF CInv, IInv, TypeOK, L1Slots
<1>2. \A i \in L1Slots : age'[i] = IF i = h THEN 0
                                   ELSE IF age[i] <= age[h] THEN age[i] + 1 ELSE age[i]
  BY <1>1 DEF Touched, Older, Ranked, Ages, L1Slots
<1>3. Bindings = ListOf(l1, age, k) /\ Ranks(l1, age, k)
  BY BindingsList
<1>4. Bindings' = ListOf(l1', age', k) /\ Ranks(l1', age', k)
  BY BindingsNext
<1>5. /\ \A i \in L1Slots : i < k =>
           /\ age[i] + 1 \in 1 .. k
           /\ Bindings[age[i] + 1] = [ip |-> l1[i].ip, mac |-> l1[i].mac]
      /\ \A n \in 1 .. k : \E i \in L1Slots : i < k /\ age[i] = n - 1
  BY <1>1, <1>3, ListFacts
<1>6. \A i \in L1Slots : i < k =>
           /\ age'[i] + 1 \in 1 .. k
           /\ Bindings'[age'[i] + 1] = [ip |-> l1'[i].ip, mac |-> l1'[i].mac]
  BY <1>4, ListFacts
<1>7. age[h] \in 0 .. k - 1
  BY <1>1 DEF Ranked, Ages
<1>8. Bindings'[1] = b
  <2>1. age'[h] + 1 = 1
    BY <1>2
  <2> QED
    BY <1>6, <2>1
<1>9. ASSUME NEW i \in L1Slots, i < k, i # h
      PROVE  Bindings'[age'[i] + 1] = Bindings[age[i] + 1]
  <2>1. Bindings[age[i] + 1] = [ip |-> l1[i].ip, mac |-> l1[i].mac]
    BY <1>5, <1>9
  <2>2. Bindings'[age'[i] + 1] = [ip |-> l1'[i].ip, mac |-> l1'[i].mac]
    BY <1>6, <1>9
  <2>3. l1'[i].ip = l1[i].ip /\ l1'[i].mac = l1[i].mac
    BY <1>9
  <2> QED
    BY ONLY <2>1, <2>2, <2>3
<1>10. ASSUME NEW n \in 1 .. age[h] PROVE Bindings'[n + 1] = Bindings[n]
  <2>1. n \in 1 .. k /\ n <= age[h] /\ n - 1 < age[h]
    BY <1>1, <1>7
  <2>2. PICK i \in L1Slots : i < k /\ age[i] = n - 1
    BY <1>5, <2>1
  <2>3. i # h /\ age[i] <= age[h] /\ age[i] + 1 = n
    BY <1>7, <2>1, <2>2
  <2>4. age'[i] = n
    BY <1>2, <2>3
  <2> QED
    BY <1>9, <2>2, <2>3, <2>4
<1>11. ASSUME NEW n \in age[h] + 2 .. k PROVE Bindings'[n] = Bindings[n]
  <2>1. n \in 1 .. k /\ ~(n - 1 <= age[h])
    BY <1>1, <1>7
  <2>2. PICK i \in L1Slots : i < k /\ age[i] = n - 1
    BY <1>5, <2>1
  <2>3. i # h /\ ~(age[i] <= age[h]) /\ age[i] + 1 = n
    BY <1>7, <2>1, <2>2
  <2>4. age'[i] + 1 = n
    BY <1>2, <2>3
  <2> QED
    BY <1>9, <2>2, <2>3, <2>4
<1>12. Bindings' = [n \in 1 .. k |-> Bindings'[n]]
  BY <1>4 DEF ListOf
<1>13. Bindings[age[h] + 1] = [ip |-> l1[h].ip, mac |-> l1[h].mac]
  BY <1>5
<1> QED
  BY <1>7, <1>8, <1>10, <1>11, <1>12, <1>13

\* Using or refreshing an address is Use of the list.
LEMMA TouchImplements ==
    ASSUME CInv, NEW ip \in Ip, NEW mac \in Mac, Hits1(ip) # {},
           age' = Touched(First(Hits1(ip))),
           \A i \in L1Slots :
             /\ l1'[i].valid = l1[i].valid /\ l1'[i].ip = l1[i].ip
             /\ l1'[i].mac = IF i = First(Hits1(ip)) THEN mac ELSE l1[i].mac
    PROVE  Lru!Use(ip, mac)
<1> DEFINE h == First(Hits1(ip))
           b == [ip |-> ip, mac |-> mac]
<1>1. PICK k \in 0 .. L1Size : Ranked(k)
  BY DEF CInv, IInv
<1>2. h \in L1Slots /\ l1[h].valid /\ l1[h].ip = ip
  BY HitSlot
<1>3. h < k
  BY <1>1, <1>2 DEF Ranked
<1>4. age' = Touched(h)
  OBVIOUS
<1>5. /\ \A i \in L1Slots : l1'[i].valid <=> l1[i].valid
      /\ \A i \in L1Slots : i # h => l1'[i].ip = l1[i].ip /\ l1'[i].mac = l1[i].mac
      /\ b = [ip |-> l1'[h].ip, mac |-> l1'[h].mac]
  BY <1>2
<1> HIDE DEF h
<1>6. Ranked(k)' /\ age' \in [L1Slots -> Ages]
  BY <1>1, <1>2, <1>3, <1>4, <1>5, TouchUsed DEF CInv, IInv
<1> DEFINE m == age[h]
<1>7. /\ m \in 0 .. k - 1
      /\ Bindings[m + 1] = [ip |-> l1[h].ip, mac |-> l1[h].mac]
      /\ Bindings' = [n \in 1 .. k |-> Bindings'[n]]
      /\ Bindings'[1] = b
      /\ \A n \in 1 .. m : Bindings'[n + 1] = Bindings[n]
      /\ \A n \in m + 2 .. k : Bindings'[n] = Bindings[n]
  BY <1>1, <1>2, <1>3, <1>4, <1>5, <1>6, TouchMoves
<1>8. Bindings \in Seq(BindingSet) /\ Len(Bindings) = k
  BY <1>1, BindingsTyped
<1> DEFINE t == <<b>> \o SubSeq(Bindings, 1, m) \o SubSeq(Bindings, m + 2, k)
<1>9. k \in Nat /\ m \in Nat /\ m < k /\ b \in BindingSet
  BY <1>7, CacheAssumption DEF BindingSet
<1> HIDE DEF m, b
<1>10. /\ t \in Seq(BindingSet) /\ Len(t) = k
       /\ t[1] = b
       /\ \A n \in 1 .. m : t[n + 1] = Bindings[n]
       /\ \A n \in m + 2 .. k : t[n] = Bindings[n]
  BY <1>8, <1>9, MovedToFront
<1> HIDE DEF t
<1>11. \A n \in 1 .. k : Bindings'[n] = t[n]
  <2> SUFFICES ASSUME NEW n \in 1 .. k PROVE Bindings'[n] = t[n]
    OBVIOUS
  <2>1. CASE n = 1
    BY <1>7, <1>10, <2>1
  <2>2. CASE n # 1 /\ n <= m + 1
    <3>1. n - 1 \in 1 .. m /\ (n - 1) + 1 = n
      BY <1>9, <2>2
    <3> QED
      BY <1>7, <1>10, <3>1
  <2>3. CASE ~(n <= m + 1)
    <3>1. n \in m + 2 .. k
      BY <1>9, <2>3
    <3> QED
      BY <1>7, <1>10, <3>1
  <2> QED
    BY <2>1, <2>2, <2>3
<1>12. Bindings' = t
  <2>1. t = [n \in 1 .. k |-> t[n]]
    BY <1>10
  <2> QED
    BY <1>7, <1>11, <2>1
<1>13. m + 1 \in DOMAIN Bindings /\ Bindings[m + 1].ip = ip
  BY <1>2, <1>7, <1>8, <1>9
<1>14. Bindings' = <<[ip |-> ip, mac |-> mac]>> \o SubSeq(Bindings, 1, (m + 1) - 1)
                                              \o SubSeq(Bindings, (m + 1) + 1, Len(Bindings))
  <2>1. (m + 1) - 1 = m /\ (m + 1) + 1 = m + 2
    BY <1>9
  <2> QED
    BY <1>8, <1>12, <2>1 DEF t, b
<1> QED
  BY <1>13, <1>14 DEF Lru!Use, Lru!Binding

\* A new address enters the list at its front; from a full one the last binding goes.
LEMMA InsertImplements ==
    ASSUME CInv, NEW ip \in Ip, NEW mac \in Mac, Insert(ip, mac), Hits1(ip) = {}
    PROVE  Lru!Enter(ip, mac)
<1> DEFINE v == Victim
           b == [ip |-> ip, mac |-> mac]
<1>1. PICK k \in 0 .. L1Size : Ranked(k)
  BY DEF CInv, IInv
<1>2. /\ v \in L1Slots
      /\ \A i \in L1Slots : l1'[i] = IF i = v THEN Filled(ip, mac) ELSE l1[i]
  BY InsertPlaces DEF CInv
<1>3. /\ k < L1Size => v = k
      /\ k = L1Size => age[v] = L1Size - 1
  BY <1>1, VictimRank DEF CInv, IInv
<1>4. age' = Touched(v)
  BY DEF Insert
<1> HIDE DEF v
<1>5. /\ \A i \in L1Slots : l1'[i].valid <=> (l1[i].valid \/ i = v)
      /\ \A i \in L1Slots : i # v => l1'[i].ip = l1[i].ip /\ l1'[i].mac = l1[i].mac
      /\ b = [ip |-> l1'[v].ip, mac |-> l1'[v].mac]
  BY <1>2 DEF Filled
<1>6. age' \in [L1Slots -> Ages]
  BY <1>1, <1>4, <1>5, FillVictim DEF CInv, IInv, v
<1>7. Bindings \in Seq(BindingSet) /\ Len(Bindings) = k
  BY <1>1, BindingsTyped
<1>8. k \in Nat /\ L1Size \in Nat /\ k <= L1Size /\ b \in BindingSet
  BY CacheAssumption DEF BindingSet
<1>9. ~Lru!Known(ip)
  <2> SUFFICES ASSUME NEW n \in 1 .. k, Bindings[n].ip = ip PROVE FALSE
    BY <1>7 DEF Lru!Known
  <2>1. Bindings = ListOf(l1, age, k) /\ Ranks(l1, age, k) /\ age \in [L1Slots -> Ages]
    BY <1>1, BindingsList DEF CInv, IInv, TypeOK
  <2>2. PICK i \in L1Slots : i < k /\ age[i] = n - 1
    BY <2>1, ListFacts
  <2>3. ListOf(l1, age, k)[age[i] + 1] = [ip |-> l1[i].ip, mac |-> l1[i].mac]
    BY <2>1, <2>2, ListFacts
  <2>4. age[i] + 1 = n
    BY <1>8, <2>2
  <2>5. l1[i].ip = ip /\ l1[i].valid
    BY <2>1, <2>2, <2>3, <2>4 DEF Ranks
  <2> QED
    BY <2>5 DEF Hits1
<1>10. Bindings' = <<b>> \o (IF k = L1Size THEN SubSeq(Bindings, 1, L1Size - 1) ELSE Bindings)
  <2>1. CASE k = L1Size
    <3>1. v < k
      BY <1>2, <1>8, <2>1 DEF L1Slots
    <3>2. \A i \in L1Slots : l1'[i].valid <=> l1[i].valid
      BY <1>1, <1>5, <3>1 DEF Ranked
    <3>3. Ranked(k)'
      BY <1>1, <1>2, <1>4, <3>1, <3>2, TouchUsed DEF CInv, IInv
    <3>4. /\ age[v] \in 0 .. k - 1
          /\ Bindings[age[v] + 1] = [ip |-> l1[v].ip, mac |-> l1[v].mac]
          /\ Bindings' = [n \in 1 .. k |-> Bindings'[n]]
          /\ Bindings'[1] = b
          /\ \A n \in 1 .. age[v] : Bindings'[n + 1] = Bindings[n]
          /\ \A n \in age[v] + 2 .. k : Bindings'[n] = Bindings[n]
      BY <1>1, <1>2, <1>4, <1>5, <1>6, <3>1, <3>3, TouchMoves
    <3>5. age[v] = k - 1
      BY <1>3, <2>1
    <3> DEFINE t == <<b>> \o SubSeq(Bindings, 1, k - 1)
    <3>6. k - 1 \in Nat
      BY <1>8, <3>4, <3>5
    <3>7. t \in Seq(BindingSet) /\ Len(t) = k /\ t[1] = b /\ \A n \in 1 .. k - 1 : t[n + 1] = Bindings[n]
      <4> HIDE DEF b
      <4> QED
        BY <1>7, <1>8, <3>6, InFront
    <3> HIDE DEF t, b
    <3>8. \A n \in 1 .. k : Bindings'[n] = t[n]
      <4> SUFFICES ASSUME NEW n \in 1 .. k PROVE Bindings'[n] = t[n]
        OBVIOUS
      <4>1. CASE n = 1
        BY <3>4, <3>7, <4>1
      <4>2. CASE n # 1
        <5>1. n - 1 \in 1 .. k - 1 /\ (n - 1) + 1 = n
          BY <1>8, <4>2
        <5> QED
          BY <3>4, <3>5, <3>7, <5>1
      <4> QED
        BY <4>1, <4>2
    <3>9. t = [n \in 1 .. k |-> t[n]]
      BY <3>7
    <3>10. Bindings' = t
      BY <3>4, <3>8, <3>9
    <3> QED
      BY <2>1, <3>10 DEF t
  <2>2. CASE k # L1Size
    <3>1. k < L1Size /\ v = k /\ k + 1 \in 0 .. L1Size
      BY <1>3, <1>8, <2>2
    <3>2. Ranked(k + 1)' /\ \A i \in L1Slots : i < k => age'[i] = age[i] + 1
      BY <1>1, <1>4, <1>5, <3>1, FillFree DEF CInv, IInv, v
    <3>3. Bindings = ListOf(l1, age, k) /\ Ranks(l1, age, k) /\ age \in [L1Slots -> Ages]
      BY <1>1, BindingsList DEF CInv, IInv, TypeOK
    <3>4. Bindings' = ListOf(l1', age', k + 1) /\ Ranks(l1', age', k + 1)
      BY <3>1, <3>2, BindingsNext
    <3>5. /\ \A i \in L1Slots : i < k =>
               Bindings[age[i] + 1] = [ip |-> l1[i].ip, mac |-> l1[i].mac]
          /\ \A n \in 1 .. k : \E i \in L1Slots : i < k /\ age[i] = n - 1
      BY <3>3, ListFacts
    <3>6. \A i \in L1Slots : i < k + 1 =>
               Bindings'[age'[i] + 1] = [ip |-> l1'[i].ip, mac |-> l1'[i].mac]
      BY <1>6, <3>1, <3>4, ListFacts
    <3>7. Bindings'[1] = b
      <4>1. age'[v] = 0 /\ v < k + 1
        BY <1>2, <1>4, <1>8, <3>1 DEF Touched
      <4>2. Bindings'[age'[v] + 1] = [ip |-> l1'[v].ip, mac |-> l1'[v].mac]
        BY <1>2, <3>6, <4>1
      <4>3. age'[v] + 1 = 1
        BY <4>1
      <4> QED
        BY <1>5, <4>2, <4>3
    <3>8. ASSUME NEW n \in 1 .. k PROVE Bindings'[n + 1] = Bindings[n]
      <4>1. PICK i \in L1Slots : i < k /\ age[i] = n - 1
        BY <3>5
      <4>2. i \in Nat /\ i # v /\ i < k + 1
        BY <1>8, <3>1, <4>1 DEF L1Slots
      <4>3. age'[i] = n /\ age[i] + 1 = n
        BY <1>8, <3>2, <4>1
      <4>4. Bindings'[n + 1] = [ip |-> l1'[i].ip, mac |-> l1'[i].mac]
        BY <3>6, <4>2, <4>3
      <4>5. Bindings[n] = [ip |-> l1[i].ip, mac |-> l1[i].mac]
        BY <3>5, <4>1, <4>3
      <4>6. l1'[i].ip = l1[i].ip /\ l1'[i].mac = l1[i].mac
        BY <1>5, <4>2
      <4> QED
        BY ONLY <4>4, <4>5, <4>6
    <3> DEFINE t == <<b>> \o Bindings
    <3>9. t \in Seq(BindingSet) /\ Len(t) = k + 1 /\ t[1] = b /\ \A n \in 1 .. k : t[n + 1] = Bindings[n]
      <4> HIDE DEF b
      <4> QED
        BY <1>7, <1>8, InFrontAll
    <3> HIDE DEF t, b
    <3>10. \A n \in 1 .. k + 1 : Bindings'[n] = t[n]
      <4> SUFFICES ASSUME NEW n \in 1 .. k + 1 PROVE Bindings'[n] = t[n]
        OBVIOUS
      <4>1. CASE n = 1
        BY <3>7, <3>9, <4>1
      <4>2. CASE n # 1
        <5>1. n - 1 \in 1 .. k /\ (n - 1) + 1 = n
          BY <1>8, <4>2
        <5> QED
          BY <3>8, <3>9, <5>1
      <4> QED
        BY <4>1, <4>2
    <3>11. t = [n \in 1 .. k + 1 |-> t[n]]
      BY <3>9
    <3>12. Bindings' = [n \in 1 .. k + 1 |-> Bindings'[n]]
      BY <3>4 DEF ListOf
    <3>13. Bindings' = t
      BY <3>10, <3>11, <3>12
    <3> QED
      BY <2>2, <3>13 DEF t
  <2> QED
    BY <2>1, <2>2
<1> QED
  BY <1>7, <1>9, <1>10 DEF Lru!Enter, Lru!Binding, b

\* Every step of the cache is a step of the list or leaves it as it is.
LEMMA StepImplements == CInv /\ [Next]_vars => [Lru!Next]_Bindings
<1> SUFFICES ASSUME CInv, [Next]_vars PROVE [Lru!Next]_Bindings
  OBVIOUS
<1>1. ASSUME NEW ip \in Ip, NEW mac \in Mac, Update(ip, mac) PROVE Lru!Next
  <2>1. CASE Hits1(ip) # {}
    <3>1. Refresh(ip, mac)
      BY <1>1, <2>1 DEF Update
    <3>2. First(Hits1(ip)) \in L1Slots
      BY <2>1, HitSlot
    <3>3. /\ age' = Touched(First(Hits1(ip)))
          /\ l1' = [l1 EXCEPT ![First(Hits1(ip))].mac = mac]
      BY <3>1 DEF Refresh
    <3> DEFINE h == First(Hits1(ip))
    <3>4. \A i \in L1Slots :
            /\ l1'[i].valid = l1[i].valid /\ l1'[i].ip = l1[i].ip
            /\ l1'[i].mac = IF i = h THEN mac ELSE l1[i].mac
      <4> HIDE DEF h
      <4>1. l1' = [l1 EXCEPT ![h].mac = mac] /\ h \in L1Slots
        BY <3>2, <3>3 DEF h
      <4> QED
        BY <4>1 DEF CInv, IInv, TypeOK, Entry
    <3>5. Lru!Use(ip, mac)
      BY <2>1, <3>3, <3>4, TouchImplements
    <3> QED
      BY <3>5 DEF Lru!Next
  <2>2. CASE Hits1(ip) = {}
    <3>1. Insert(ip, mac)
      BY <1>1, <2>2 DEF Update
    <3>2. Lru!Enter(ip, mac)
      BY <2>2, <3>1, InsertImplements
    <3> QED
      BY <3>2 DEF Lru!Next
  <2> QED
    BY <2>1, <2>2
<1>2. ASSUME NEW ip \in Ip, LookupL1(ip) PROVE Lru!Next
  <2>1. Hits1(ip) # {} /\ age' = Touched(First(Hits1(ip))) /\ l1' = l1
    BY <1>2 DEF LookupL1
  <2> DEFINE h   == First(Hits1(ip))
             mac == l1[h].mac
  <2>2. h \in L1Slots /\ l1[h].valid
    BY <2>1, HitSlot
  <2>3. mac \in Mac
    BY <2>2 DEF CInv, Held
  <2>4. \A i \in L1Slots :
            /\ l1'[i].valid = l1[i].valid /\ l1'[i].ip = l1[i].ip
            /\ l1'[i].mac = IF i = h THEN mac ELSE l1[i].mac
    BY <2>1
  <2> HIDE DEF mac
  <2>5. Lru!Use(ip, mac)
    BY <2>1, <2>3, <2>4, TouchImplements
  <2> QED
    BY <2>3, <2>5 DEF Lru!Next
<1>3. ASSUME NEW ip \in Ip, LookupL2(ip) PROVE Lru!Next
  <2> DEFINE mac == l2[First(Hits2(ip))].mac
  <2>1. Hits1(ip) = {} /\ Insert(ip, mac)
    BY <1>3 DEF LookupL2
  <2>2. mac \in Mac
    <3>1. Hits2(ip) # {} /\ Hits2(ip) \in SUBSET Nat
      BY <1>3, CacheAssumption DEF LookupL2, Hits2, L2Slots
    <3>2. First(Hits2(ip)) \in Hits2(ip)
      BY <3>1, LeastNatural
    <3> QED
      BY <3>2 DEF CInv, Held, Hits2
  <2> HIDE DEF mac
  <2>3. Lru!Enter(ip, mac)
    BY <2>1, <2>2, InsertImplements
  <2> QED
    BY <2>2, <2>3 DEF Lru!Next
<1>4. CASE UNCHANGED vars
  <2>1. l1' = l1 /\ age' = age
    BY <1>4 DEF vars
  <2>2. Bindings' = Bindings
    BY <2>1 DEF Bindings, Rank, Used, Free1
  <2> QED
    BY <2>2
<1> QED
  BY <1>1, <1>2, <1>3, <1>4 DEF Next

\* No address ever learned is lost while level 2 has room, however often it is
\* evicted, promoted and learned again (l1_insert, arp_lookup).
THEOREM NothingLost == Spec => []NoneLostWhileRoom
<1>1. CInv => NoneLostWhileRoom
  BY DEF CInv
<1> QED
  BY InitCInv, NextCInv, <1>1, PTL DEF Spec

\* Level 1 answers with the binding last learned, but for entries copied back from
\* level 2 (arp_update, arp_lookup).
THEOREM FreshAnswers == Spec => []FreshUnlessPromoted
<1>1. CInv => FreshUnlessPromoted
  BY DEF CInv
<1> QED
  BY InitCInv, NextCInv, <1>1, PTL DEF Spec

\* Slots and ages of level 1 implement a list in order of use (l1_insert,
\* l1_lru_touch, arp_update, arp_lookup).
THEOREM ImplementsList == Spec => ImplementsLruList
<1>1. Init => Lru!Init
  <2> SUFFICES ASSUME Init PROVE Bindings = <<>>
    BY DEF Lru!Init
  <2>1. Ranked(0) /\ 0 \in 0 .. L1Size
    BY CacheAssumption DEF Init, Ranked, Unused, L1Slots
  <2>2. Bindings = ListOf(l1, age, 0)
    BY <2>1, BindingsList
  <2> QED
    BY <2>2 DEF ListOf
<1> QED
  BY InitCInv, NextCInv, StepImplements, <1>1, PTL DEF Spec, ImplementsLruList, Lru!Spec
===============================================================================
