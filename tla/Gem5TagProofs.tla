--------------------------- MODULE Gem5TagProofs ---------------------------
(* Proofs about the tag stores of gem5.  TSInv, at the end, is the          *)
(* inductive invariant of Gem5TagStore.  For FALRU it says that the list is *)
(* a sequence q of all blocks (IsList), in the order of use (Ordered), with *)
(* the hash and the counters of its blocks (FaData).  For the stores that   *)
(* are indexed by set it is StoreOK: the blocks and the sectors agree with  *)
(* their counters, no two blocks of a set hold one address, the partitions  *)
(* are charged for what they hold, and the replacement data has its shape   *)
(* (RpOK), which is all that a victim among the candidates needs.           *)
EXTENDS Gem5TagStore, FiniteSetTheorems, WellFoundedInduction, TLAPS

-----------------------------------------------------------------------------
(* Natural numbers *)

(* Induction, with a set in place of the predicate.                        *)
LEMMA Inductive ==
  ASSUME NEW G, 0 \in G, \A n \in Nat : n \in G => n + 1 \in G
  PROVE  Nat \subseteq G
<1> SUFFICES ASSUME Nat \ G # {}
             PROVE  FALSE
  OBVIOUS
<1>1. PICK x \in Nat \ G : \A y \in Nat \ G : ~(<<y, x>> \in OpToRel(<, Nat))
  BY NatLessThanWellFounded, WFMin
<1>2. \A y \in Nat \ G : ~(y < x)
  BY <1>1 DEF OpToRel
<1>3. x # 0
  OBVIOUS
<1>4. x - 1 \in Nat /\ x - 1 < x
  BY <1>3
<1>5. x - 1 \in G
  BY <1>2, <1>4
<1> QED
  BY <1>4, <1>5

FaConfigs == {c \in Configs : c.kind = "falru"}
NumBlocks(s) == 2^(s.c.tracked + 1)

(* A tracked cache has room for two blocks at least and is smaller than    *)
(* the store.                                                              *)
LEMMA TrackedSizes ==
  ASSUME NEW c \in FaConfigs
  PROVE  /\ 2^(c.tracked + 1) \in Nat /\ 2^(c.tracked + 1) >= 2
         /\ \A k \in 0..c.tracked - 1 : 2^(k + 1) \in 2..2^(c.tracked + 1) - 1
<1>1. c.tracked \in Nat /\ \A k \in 1..c.tracked : 2^(k + 1) = 2 * 2^k
  BY ConfigsAssumption DEF FaConfigs
<1>2. \A n \in Nat : 2^n \in Int
  OBVIOUS
<1> DEFINE P == [n \in Nat |-> 2^(n + 1)]
<1>3. /\ P \in [Nat -> Int] /\ P[0] = 2
      /\ \A n \in Nat : n < c.tracked => P[n + 1] = 2 * P[n]
  <2>1. P[0] = 2 /\ P \in [Nat -> Int]
    BY <1>2
  <2>2. ASSUME NEW n \in Nat, n < c.tracked
        PROVE  P[n + 1] = 2 * P[n]
    <3>1. n + 1 \in 1..c.tracked
      BY <1>1, <2>2
    <3> QED
      BY <1>1, <3>1
  <2> QED
    BY <2>1, <2>2
<1>4. \A n \in Nat : P[n] = 2^(n + 1)
  OBVIOUS
<1> HIDE DEF P
<1>5. \A n \in Nat : n <= c.tracked => P[n] >= 2
  <2> DEFINE G == {n \in Nat : n <= c.tracked => P[n] >= 2}
  <2>1. 0 \in G
    BY <1>3
  <2>2. \A n \in Nat : n \in G => n + 1 \in G
    BY <1>1, <1>3
  <2>3. Nat \subseteq G
    <3> HIDE DEF G
    <3> QED
      BY <2>1, <2>2, Inductive
  <2> QED
    BY <2>3
<1>6. ASSUME NEW k \in Nat
      PROVE  \A d \in Nat : k + d + 1 <= c.tracked => P[k] < P[k + d + 1]
  <2> DEFINE G == {d \in Nat : k + d + 1 <= c.tracked => P[k] < P[k + d + 1]}
  <2>1. 0 \in G
    <3>1. k + 1 <= c.tracked => P[k + 1] = 2 * P[k] /\ P[k] >= 2 /\ P[k] \in Int
      BY <1>1, <1>3, <1>5
    <3> QED
      BY <3>1
  <2>2. \A d \in Nat : d \in G => d + 1 \in G
    <3> SUFFICES ASSUME NEW d \in Nat, d \in G, k + (d + 1) + 1 <= c.tracked
                 PROVE  P[k] < P[k + (d + 1) + 1]
      OBVIOUS
    <3>1. k + d + 1 \in Nat /\ k + (d + 1) + 1 = (k + d + 1) + 1
          /\ k + d + 1 < c.tracked
      BY <1>1
    <3>2. P[(k + d + 1) + 1] = 2 * P[k + d + 1] /\ P[k + d + 1] >= 2
          /\ P[k + d + 1] \in Int /\ P[k] \in Int
      BY <1>1, <1>3, <1>5, <3>1
    <3>3. P[k] < P[k + d + 1]
      BY <1>1, <3>1
    <3> QED
      BY <3>1, <3>2, <3>3
  <2>3. Nat \subseteq G
    <3> HIDE DEF G
    <3> QED
      BY <2>1, <2>2, Inductive
  <2> QED
    BY <2>3
<1>7. ASSUME NEW k \in 0..c.tracked - 1
      PROVE  P[k] \in 2..P[c.tracked] - 1
  <2>1. k \in Nat
    BY <1>1
  <2>2. PICK d \in Nat : k + d + 1 = c.tracked
    <3>1. c.tracked - k - 1 \in Nat /\ k + (c.tracked - k - 1) + 1 = c.tracked
      BY <1>1
    <3> QED
      BY <3>1
  <2>3. P[k] < P[c.tracked]
    <3>1. k + d + 1 <= c.tracked => P[k] < P[k + d + 1]
      BY <1>6, <2>1
    <3> QED
      BY <1>1, <2>2, <3>1
  <2> QED
    BY <1>1, <1>3, <1>5, <2>1, <2>3
<1>8. P[c.tracked] = 2^(c.tracked + 1) /\ P[c.tracked] >= 2 /\ P[c.tracked] \in Int
  BY <1>1, <1>3, <1>4, <1>5
<1>9. \A k \in 0..c.tracked - 1 : P[k] = 2^(k + 1)
  BY <1>1, <1>4
<1> QED
  BY <1>7, <1>8, <1>9

-----------------------------------------------------------------------------
(* The list of FALRU *)

FaFields == {"c", "blk", "prev", "next", "head", "tail", "mask", "boundaries", "tagHash",
             "inUse", "bad"}

IsFa(s) ==
  /\ DOMAIN s = FaFields /\ s.c \in FaConfigs
  /\ FaBlocks(s) = 1..NumBlocks(s) /\ Tracked(s) = 0..s.c.tracked - 1
  /\ DOMAIN s.prev = FaBlocks(s) /\ DOMAIN s.next = FaBlocks(s) /\ DOMAIN s.mask = FaBlocks(s)
  /\ s.bad \in BOOLEAN

(* q gives the block at each place of the list.                            *)
Places(s, q) ==
  /\ q \in [1..NumBlocks(s) -> 1..NumBlocks(s)]
  /\ \A i, j \in 1..NumBlocks(s) : q[i] = q[j] => i = j
  /\ \A b \in FaBlocks(s) : \E i \in 1..NumBlocks(s) : q[i] = b

Linked(s, q) ==
  /\ s.head = q[1] /\ s.tail = q[NumBlocks(s)]
  /\ \A i \in 1..NumBlocks(s) :
       /\ s.next[q[i]] = IF i = NumBlocks(s) THEN nullptr ELSE q[i + 1]
       /\ s.prev[q[i]] = IF i = 1 THEN nullptr ELSE q[i - 1]

Bounded(s, q) ==
  /\ \A i \in 1..NumBlocks(s) : s.mask[q[i]] = {k \in Tracked(s) : i <= 2^(k + 1)}
  /\ \A k \in Tracked(s) : s.boundaries[k] = q[2^(k + 1)]

IsList(s, q) == Places(s, q) /\ Linked(s, q) /\ Bounded(s, q)

(* Where the block comes from that is at place i of n after the block at   *)
(* place m has gone to the head, to the tail.                              *)
FrontFrom(m, i)   == IF i = 1 THEN m ELSE IF i <= m THEN i - 1 ELSE i
BackFrom(m, n, i) == IF i = n THEN m ELSE IF i < m THEN i ELSE i + 1
Fronted(q, m, n)  == [i \in 1..n |-> q[FrontFrom(m, i)]]
Backed(q, m, n)   == [i \in 1..n |-> q[BackFrom(m, n, i)]]

(* moveToHead touches neither the blocks nor the hash.                     *)
SameData(s, t) == t.c = s.c /\ t.blk = s.blk /\ t.tagHash = s.tagHash /\ t.inUse = s.inUse

(* The places of the boundaries are in the list, none at its ends.          *)
LEMMA Sizes2 ==
  ASSUME NEW s, IsFa(s)
  PROVE  /\ NumBlocks(s) \in Nat /\ NumBlocks(s) >= 2
         /\ \A k \in Tracked(s) : 2^(k + 1) \in 2..NumBlocks(s) - 1
BY TrackedSizes DEF IsFa, NumBlocks

(* Moving a place to the head leaves a sequence of all blocks.              *)
LEMMA FrontedPlaces ==
  ASSUME NEW s, IsFa(s), NEW q, Places(s, q), NEW m \in 1..NumBlocks(s)
  PROVE  Places(s, Fronted(q, m, NumBlocks(s)))
<1> DEFINE N == NumBlocks(s)
           r == Fronted(q, m, N)
<1>1. N \in Nat /\ N >= 2 /\ FaBlocks(s) = 1..N /\ m \in 1..N
  BY Sizes2 DEF IsFa
<1>2. /\ q \in [1..N -> 1..N] /\ \A i, j \in 1..N : q[i] = q[j] => i = j
      /\ \A b \in 1..N : \E i \in 1..N : q[i] = b
  BY <1>1 DEF Places
<1>3. \A i \in 1..N : r[i] = q[FrontFrom(m, i)]
  BY DEF Fronted
<1>4. r = [i \in 1..N |-> r[i]]
  BY DEF Fronted
<1> HIDE DEF N, r
<1>5. \A i \in 1..N : FrontFrom(m, i) \in 1..N
  BY <1>1 DEF FrontFrom
<1>6. \A i, j \in 1..N : FrontFrom(m, i) = FrontFrom(m, j) => i = j
  BY <1>1 DEF FrontFrom
<1>7. \A j \in 1..N : \E i \in 1..N : FrontFrom(m, i) = j
  <2> SUFFICES ASSUME NEW j \in 1..N
               PROVE  \E i \in 1..N : FrontFrom(m, i) = j
    OBVIOUS
  <2>1. 1 \in 1..N /\ FrontFrom(m, 1) = m
    BY <1>1 DEF FrontFrom
  <2>2. j < m => j + 1 \in 1..N /\ FrontFrom(m, j + 1) = j
    BY <1>1 DEF FrontFrom
  <2>3. j > m => FrontFrom(m, j) = j
    BY <1>1 DEF FrontFrom
  <2> QED
    BY <1>1, <2>1, <2>2, <2>3
<1>8. \A i \in 1..N : r[i] \in 1..N
  BY <1>2, <1>3, <1>5
<1>9. \A i, j \in 1..N : r[i] = r[j] => i = j
  BY <1>2, <1>3, <1>5, <1>6
<1>10. \A b \in 1..N : \E i \in 1..N : r[i] = b
  <2> SUFFICES ASSUME NEW b \in 1..N
               PROVE  \E i \in 1..N : r[i] = b
    OBVIOUS
  <2>1. PICK j \in 1..N : q[j] = b
    BY <1>2
  <2> QED
    BY <1>3, <1>7, <2>1
<1> QED
  BY <1>1, <1>4, <1>8, <1>9, <1>10 DEF Places, N, r

(* Moving a place to the tail leaves a sequence of all blocks.              *)
LEMMA BackedPlaces ==
  ASSUME NEW s, IsFa(s), NEW q, Places(s, q), NEW m \in 1..NumBlocks(s)
  PROVE  Places(s, Backed(q, m, NumBlocks(s)))
<1> DEFINE N == NumBlocks(s)
           r == Backed(q, m, N)
<1>1. N \in Nat /\ N >= 2 /\ FaBlocks(s) = 1..N /\ m \in 1..N
  BY Sizes2 DEF IsFa
<1>2. /\ q \in [1..N -> 1..N] /\ \A i, j \in 1..N : q[i] = q[j] => i = j
      /\ \A b \in 1..N : \E i \in 1..N : q[i] = b
  BY <1>1 DEF Places
<1>3. \A i \in 1..N : r[i] = q[BackFrom(m, N, i)]
  BY DEF Backed
<1>4. r = [i \in 1..N |-> r[i]]
  BY DEF Backed
<1> HIDE DEF N, r
<1>5. \A i \in 1..N : BackFrom(m, N, i) \in 1..N
  BY <1>1 DEF BackFrom
<1>6. \A i, j \in 1..N : BackFrom(m, N, i) = BackFrom(m, N, j) => i = j
  BY <1>1 DEF BackFrom
<1>7. \A j \in 1..N : \E i \in 1..N : BackFrom(m, N, i) = j
  <2> SUFFICES ASSUME NEW j \in 1..N
               PROVE  \E i \in 1..N : BackFrom(m, N, i) = j
    OBVIOUS
  <2>1. N \in 1..N /\ BackFrom(m, N, N) = m
    BY <1>1 DEF BackFrom
  <2>2. j > m => j - 1 \in 1..N /\ BackFrom(m, N, j - 1) = j
    BY <1>1 DEF BackFrom
  <2>3. j < m => BackFrom(m, N, j) = j
    BY <1>1 DEF BackFrom
  <2> QED
    BY <1>1, <2>1, <2>2, <2>3
<1>8. \A i \in 1..N : r[i] \in 1..N
  BY <1>2, <1>3, <1>5
<1>9. \A i, j \in 1..N : r[i] = r[j] => i = j
  BY <1>2, <1>3, <1>5, <1>6
<1>10. \A b \in 1..N : \E i \in 1..N : r[i] = b
  <2> SUFFICES ASSUME NEW b \in 1..N
               PROVE  \E i \in 1..N : r[i] = b
    OBVIOUS
  <2>1. PICK j \in 1..N : q[j] = b
    BY <1>2
  <2> QED
    BY <1>3, <1>7, <2>1
<1> QED
  BY <1>1, <1>4, <1>8, <1>9, <1>10 DEF Places, N, r

(* What taking a block out of the list (the first half of moveToHead and    *)
(* moveToTail) does to the links.                                           *)
LEMMA Unlinked ==
  ASSUME NEW s, IsFa(s), NEW q, Places(s, q), Linked(s, q), NEW m \in 1..NumBlocks(s),
         NEW t, t = unlink(s, q[m])
  PROVE  /\ DOMAIN t = FaFields /\ SameData(s, t)
         /\ t.mask = s.mask /\ t.boundaries = s.boundaries
         /\ t.bad = s.bad
         /\ DOMAIN t.prev = FaBlocks(s) /\ DOMAIN t.next = FaBlocks(s)
         /\ t.head = IF m = 1 THEN s.next[q[m]] ELSE s.head
         /\ t.tail = IF m = NumBlocks(s) THEN s.prev[q[m]] ELSE s.tail
         /\ \A i \in 1..NumBlocks(s) :
              /\ t.next[q[i]] = IF i = m - 1 THEN s.next[q[m]] ELSE s.next[q[i]]
              /\ t.prev[q[i]] = IF i = m + 1 THEN s.prev[q[m]] ELSE s.prev[q[i]]
<1> DEFINE N == NumBlocks(s)
           b == q[m]
           p == s.prev[b]
           n == s.next[b]
<1>1. N \in Nat /\ N >= 2 /\ FaBlocks(s) = 1..N /\ m \in 1..N
  BY Sizes2 DEF IsFa
<1>2. /\ q \in [1..N -> 1..N] /\ \A i, j \in 1..N : q[i] = q[j] => i = j
  BY DEF Places
<1>3. /\ s.head = q[1] /\ s.tail = q[N]
      /\ n = IF m = N THEN nullptr ELSE q[m + 1]
      /\ p = IF m = 1 THEN nullptr ELSE q[m - 1]
  BY DEF Linked
<1>4. t = [s EXCEPT !.head = IF b = s.head THEN n ELSE @,
            !.tail = IF b = s.tail THEN p ELSE @,
            !.next = [x \in FaBlocks(s) |-> IF x = p THEN n ELSE @[x]],
            !.prev = [x \in FaBlocks(s) |-> IF x = n THEN p ELSE @[x]],
            !.bad  = @ \/ (b = s.tail /\ n # nullptr) \/ (b = s.head /\ p # nullptr)]
  BY DEF unlink
<1> HIDE DEF N, b, p, n
<1>5. /\ DOMAIN t = FaFields /\ SameData(s, t)
      /\ t.mask = s.mask /\ t.boundaries = s.boundaries
      /\ t.head = (IF b = s.head THEN n ELSE s.head)
      /\ t.tail = (IF b = s.tail THEN p ELSE s.tail)
      /\ t.next = [x \in FaBlocks(s) |-> IF x = p THEN n ELSE s.next[x]]
      /\ t.prev = [x \in FaBlocks(s) |-> IF x = n THEN p ELSE s.prev[x]]
      /\ t.bad = (s.bad \/ (b = s.tail /\ n # nullptr) \/ (b = s.head /\ p # nullptr))
  BY <1>4 DEF IsFa, FaFields, SameData
<1>6. (b = s.head <=> m = 1) /\ (b = s.tail <=> m = N)
  BY <1>1, <1>2, <1>3 DEF b
<1>7. \A i \in 1..N : /\ q[i] = p <=> i = m - 1
                      /\ q[i] = n <=> i = m + 1
  <2>1. \A i \in 1..N : q[i] # nullptr
    BY <1>1, <1>2 DEF nullptr
  <2>2. m # 1 => m - 1 \in 1..N
    BY <1>1
  <2>3. m # N => m + 1 \in 1..N
    BY <1>1
  <2>4. \A i \in 1..N : q[i] = p <=> i = m - 1
    <3>1. CASE m = 1
      BY <1>1, <1>3, <2>1, <3>1
    <3>2. CASE m # 1
      BY <1>1, <1>2, <1>3, <2>2, <3>2
    <3> QED
      BY <3>1, <3>2
  <2>5. \A i \in 1..N : q[i] = n <=> i = m + 1
    <3>1. CASE m = N
      BY <1>1, <1>3, <2>1, <3>1
    <3>2. CASE m # N
      BY <1>1, <1>2, <1>3, <2>3, <3>2
    <3> QED
      BY <3>1, <3>2
  <2> QED
    BY <2>4, <2>5
<1>8. t.bad = s.bad
  <2>1. ~(b = s.tail /\ n # nullptr) /\ ~(b = s.head /\ p # nullptr)
    BY <1>3, <1>6
  <2>2. s.bad \in BOOLEAN
    BY DEF IsFa
  <2> QED
    BY <1>5, <2>1, <2>2
<1>9. /\ t.head = IF m = 1 THEN n ELSE s.head
      /\ t.tail = IF m = N THEN p ELSE s.tail
  BY <1>5, <1>6
<1>10. \A i \in 1..N : /\ t.next[q[i]] = IF i = m - 1 THEN n ELSE s.next[q[i]]
                       /\ t.prev[q[i]] = IF i = m + 1 THEN p ELSE s.prev[q[i]]
  BY <1>1, <1>2, <1>5, <1>7, SMTT(30)
<1> QED
  BY <1>1, <1>5, <1>8, <1>9, <1>10 DEF N, b, p, n

(* The tracked caches follow the block to the head.                        *)
LEMMA TrackedToHead ==
  ASSUME NEW s, IsFa(s), NEW q, IsList(s, q), NEW m \in 2..NumBlocks(s),
         NEW t, t = moveBlockToHead(s, q[m])
  PROVE  /\ IsFa(t) /\ SameData(s, t) /\ t.bad = s.bad
         /\ t.head = s.head /\ t.tail = s.tail /\ t.next = s.next /\ t.prev = s.prev
         /\ Bounded(t, Fronted(q, m, NumBlocks(s)))
<1> DEFINE N == NumBlocks(s)
           b == q[m]
           r == Fronted(q, m, N)
           shift == Tracked(s) \ s.mask[b]
<1>1. /\ N \in Nat /\ N >= 2 /\ FaBlocks(s) = 1..N /\ m \in 2..N
      /\ \A k \in Tracked(s) : 2^(k + 1) \in 2..N - 1
  BY Sizes2 DEF IsFa
<1>2. /\ q \in [1..N -> 1..N] /\ \A i, j \in 1..N : q[i] = q[j] => i = j
      /\ \A x \in 1..N : \E i \in 1..N : q[i] = x
  BY <1>1 DEF IsList, Places
<1>3. /\ \A i \in 1..N : s.mask[q[i]] = {k \in Tracked(s) : i <= 2^(k + 1)}
      /\ \A k \in Tracked(s) : s.boundaries[k] = q[2^(k + 1)]
      /\ \A i \in 1..N : s.prev[q[i]] = IF i = 1 THEN nullptr ELSE q[i - 1]
  BY DEF IsList, Bounded, Linked
<1>4. t = [s EXCEPT !.boundaries = [i \in Tracked(s) |->
              IF i \in shift \/ @[i] = b THEN s.prev[@[i]] ELSE @[i]],
            !.mask = [x \in FaBlocks(s) |->
              IF x = b THEN Tracked(s)
              ELSE @[x] \ {i \in shift : s.boundaries[i] = x}]]
  BY DEF moveBlockToHead
<1>5. \A i \in 1..N : r[i] = q[FrontFrom(m, i)]
  BY DEF Fronted
<1>0. \A i \in 1..N : q[i] = b <=> i = m
  <2>1. m \in 1..N
    BY <1>1
  <2> QED
    BY <1>2, <2>1
<1> HIDE DEF N, b, r, shift
<1>6. /\ DOMAIN t = FaFields /\ SameData(s, t) /\ t.bad = s.bad
      /\ t.head = s.head /\ t.tail = s.tail /\ t.next = s.next /\ t.prev = s.prev
      /\ t.boundaries = [i \in Tracked(s) |->
              IF i \in shift \/ s.boundaries[i] = b THEN s.prev[s.boundaries[i]]
              ELSE s.boundaries[i]]
      /\ t.mask = [x \in FaBlocks(s) |->
              IF x = b THEN Tracked(s)
              ELSE s.mask[x] \ {i \in shift : s.boundaries[i] = x}]
  BY <1>4 DEF IsFa, FaFields, SameData
<1>7. IsFa(t) /\ Tracked(t) = Tracked(s) /\ NumBlocks(t) = N
  BY <1>6 DEF IsFa, SameData, FaBlocks, Tracked, NumBlocks, N
<1>8. \A k \in Tracked(s) : k \in shift <=> m > 2^(k + 1)
  <2>1. \A k \in Tracked(s) : k \in s.mask[b] <=> m <= 2^(k + 1)
    BY <1>1, <1>3 DEF b
  <2> QED
    BY <1>1, <2>1 DEF shift
<1>9. ASSUME NEW k \in Tracked(s)
      PROVE  t.boundaries[k] = r[2^(k + 1)]
  <2> DEFINE P == 2^(k + 1)
  <2>1. P \in 2..N - 1 /\ s.boundaries[k] = q[P] /\ s.prev[q[P]] = q[P - 1]
    BY <1>1, <1>3
  <2>2. (k \in shift \/ s.boundaries[k] = b) <=> P <= m
    <3>1. P \in 1..N /\ (q[P] = b <=> P = m) /\ (k \in shift <=> m > P)
      BY <1>0, <1>1, <1>8, <2>1
    <3> QED
      BY <1>1, <2>1, <3>1
  <2>3. t.boundaries[k] = IF P <= m THEN q[P - 1] ELSE q[P]
    BY <1>6, <2>1, <2>2
  <2> HIDE DEF P
  <2>4. FrontFrom(m, P) = IF P <= m THEN P - 1 ELSE P
    BY <1>1, <2>1 DEF FrontFrom
  <2>5. r[P] = IF P <= m THEN q[P - 1] ELSE q[P]
    BY <1>1, <1>5, <2>1, <2>4
  <2> QED
    BY <2>3, <2>5 DEF P
<1>10. ASSUME NEW i \in 1..N
       PROVE  t.mask[r[i]] = {k \in Tracked(s) : i <= 2^(k + 1)}
  <2> DEFINE j == FrontFrom(m, i)
  <2>1. j \in 1..N /\ r[i] = q[j] /\ r[i] \in FaBlocks(s)
    <3>1. j \in 1..N
      BY <1>1 DEF FrontFrom
    <3> QED
      BY <1>1, <1>2, <1>5, <3>1
  <2>2. t.mask[q[j]] = IF q[j] = b THEN Tracked(s)
                       ELSE s.mask[q[j]] \ {k \in shift : s.boundaries[k] = q[j]}
    BY <1>6, <2>1
  <2>3. j = IF i = 1 THEN m ELSE IF i <= m THEN i - 1 ELSE i
    BY DEF FrontFrom
  <2> HIDE DEF j
  <2>4. q[j] = b <=> j = m
    BY <1>0, <2>1
  <2>5. CASE i = 1
    <3>1. t.mask[q[j]] = Tracked(s)
      BY <2>2, <2>3, <2>4, <2>5
    <3>2. \A k \in Tracked(s) : 1 <= 2^(k + 1)
      BY <1>1
    <3> QED
      BY <2>1, <2>5, <3>1, <3>2
  <2>6. CASE i # 1
    <3>1. j # m
      BY <1>1, <2>3, <2>6
    <3>2. t.mask[r[i]] = s.mask[q[j]] \ {k \in shift : s.boundaries[k] = q[j]}
      BY <2>1, <2>2, <2>4, <3>1
    <3>3. \A k \in Tracked(s) : s.boundaries[k] = q[j] <=> 2^(k + 1) = j
      <4>1. \A k \in Tracked(s) : 2^(k + 1) \in 1..N
        BY <1>1
      <4>2. \A p \in 1..N : q[p] = q[j] <=> p = j
        BY <1>2, <2>1
      <4> QED
        BY <1>3, <4>1, <4>2
    <3>4. \A k \in Tracked(s) :
            (j <= 2^(k + 1) /\ ~(m > 2^(k + 1) /\ 2^(k + 1) = j)) <=> i <= 2^(k + 1)
      BY <1>1, <2>3, <2>6
    <3>5. s.mask[q[j]] = {k \in Tracked(s) : j <= 2^(k + 1)}
      BY <1>3, <2>1
    <3>6. shift \subseteq Tracked(s)
      BY DEF shift
    <3> QED
      BY <1>8, <3>2, <3>3, <3>4, <3>5, <3>6
  <2> QED
    BY <2>5, <2>6
<1> QED
  BY <1>6, <1>7, <1>9, <1>10 DEF Bounded, N, r

(* The tracked caches that held the block take the one behind it instead.  *)
LEMMA TrackedToTail ==
  ASSUME NEW s, IsFa(s), NEW q, IsList(s, q), NEW m \in 1..NumBlocks(s) - 1,
         NEW t, t = moveBlockToTail(s, q[m])
  PROVE  /\ IsFa(t) /\ SameData(s, t) /\ t.bad = s.bad
         /\ t.head = s.head /\ t.tail = s.tail /\ t.next = s.next /\ t.prev = s.prev
         /\ Bounded(t, Backed(q, m, NumBlocks(s)))
<1> DEFINE N == NumBlocks(s)
           b == q[m]
           r == Backed(q, m, N)
           n(i)  == s.next[s.boundaries[i]]
           to(i) == IF n(i) = b THEN s.next[b] ELSE n(i)
<1>1. /\ N \in Nat /\ N >= 2 /\ FaBlocks(s) = 1..N /\ m \in 1..N - 1
      /\ \A k \in Tracked(s) : 2^(k + 1) \in 2..N - 1
  BY Sizes2 DEF IsFa
<1>2. /\ q \in [1..N -> 1..N] /\ \A i, j \in 1..N : q[i] = q[j] => i = j
      /\ \A x \in 1..N : \E i \in 1..N : q[i] = x
  BY <1>1 DEF IsList, Places
<1>3. /\ \A i \in 1..N : s.mask[q[i]] = {k \in Tracked(s) : i <= 2^(k + 1)}
      /\ \A k \in Tracked(s) : s.boundaries[k] = q[2^(k + 1)]
      /\ \A i \in 1..N : s.next[q[i]] = IF i = N THEN nullptr ELSE q[i + 1]
  BY DEF IsList, Bounded, Linked
<1>4. t = [s EXCEPT !.boundaries = [i \in Tracked(s) |-> IF i \in s.mask[b] THEN to(i) ELSE @[i]],
                !.mask = [x \in FaBlocks(s) |->
                  IF x = b THEN {} ELSE @[x] \cup {i \in s.mask[b] : to(i) = x}]]
  BY DEF moveBlockToTail
<1>5. \A i \in 1..N : r[i] = q[BackFrom(m, N, i)]
  BY DEF Backed
<1>6. \A k \in Tracked(s) : n(k) = q[2^(k + 1) + 1]
  BY <1>1, <1>3
<1>0. \A i \in 1..N : q[i] = b <=> i = m
  <2>1. m \in 1..N
    BY <1>1
  <2> QED
    BY <1>2, <2>1
<1> HIDE DEF N, b, r, n
<1>7. \A k \in s.mask[b] : k \in Tracked(s) /\ m <= 2^(k + 1) /\ to(k) = q[2^(k + 1) + 1]
  <2> SUFFICES ASSUME NEW k \in s.mask[b]
               PROVE  k \in Tracked(s) /\ m <= 2^(k + 1) /\ to(k) = q[2^(k + 1) + 1]
    OBVIOUS
  <2>1. k \in Tracked(s) /\ m <= 2^(k + 1) /\ 2^(k + 1) + 1 \in 1..N
    BY <1>1, <1>3 DEF b
  <2>2. n(k) # b
    BY <1>1, <1>0, <1>6, <2>1
  <2> QED
    BY <1>6, <2>1, <2>2
<1>8. /\ DOMAIN t = FaFields /\ SameData(s, t) /\ t.bad = s.bad
      /\ t.head = s.head /\ t.tail = s.tail /\ t.next = s.next /\ t.prev = s.prev
      /\ t.boundaries = [i \in Tracked(s) |-> IF i \in s.mask[b] THEN to(i) ELSE s.boundaries[i]]
      /\ t.mask = [x \in FaBlocks(s) |->
                     IF x = b THEN {} ELSE s.mask[x] \cup {i \in s.mask[b] : to(i) = x}]
  BY <1>4 DEF IsFa, FaFields, SameData
<1> HIDE DEF to
<1>9. IsFa(t) /\ Tracked(t) = Tracked(s) /\ NumBlocks(t) = N
  BY <1>8 DEF IsFa, SameData, FaBlocks, Tracked, NumBlocks, N
<1>10. \A k \in Tracked(s) : k \in s.mask[b] <=> m <= 2^(k + 1)
  BY <1>1, <1>3 DEF b
<1>11. ASSUME NEW k \in Tracked(s)
       PROVE  t.boundaries[k] = r[2^(k + 1)]
  <2> DEFINE P == 2^(k + 1)
  <2>1. P \in 2..N - 1 /\ s.boundaries[k] = q[P]
    BY <1>1, <1>3
  <2>2. t.boundaries[k] = IF m <= P THEN q[P + 1] ELSE q[P]
    BY <1>7, <1>8, <1>10, <2>1
  <2> HIDE DEF P
  <2>3. BackFrom(m, N, P) = IF m <= P THEN P + 1 ELSE P
    BY <1>1, <2>1 DEF BackFrom
  <2>4. r[P] = IF m <= P THEN q[P + 1] ELSE q[P]
    BY <1>1, <1>5, <2>1, <2>3
  <2> QED
    BY <2>2, <2>4 DEF P
<1>12. ASSUME NEW i \in 1..N
       PROVE  t.mask[r[i]] = {k \in Tracked(s) : i <= 2^(k + 1)}
  <2> DEFINE j == BackFrom(m, N, i)
  <2>1. j \in 1..N /\ r[i] = q[j] /\ r[i] \in FaBlocks(s)
    <3>1. j \in 1..N
      BY <1>1 DEF BackFrom
    <3> QED
      BY <1>1, <1>2, <1>5, <3>1
  <2>2. t.mask[q[j]] = IF q[j] = b THEN {}
                       ELSE s.mask[q[j]] \cup {k \in s.mask[b] : to(k) = q[j]}
    BY <1>8, <2>1
  <2>3. j = IF i = N THEN m ELSE IF i < m THEN i ELSE i + 1
    BY DEF BackFrom
  <2> HIDE DEF j
  <2>4. q[j] = b <=> j = m
    BY <1>0, <2>1
  <2>5. CASE i = N
    <3>1. t.mask[q[j]] = {}
      BY <2>2, <2>3, <2>4, <2>5
    <3>2. \A k \in Tracked(s) : ~(N <= 2^(k + 1))
      BY <1>1
    <3> QED
      BY <2>1, <2>5, <3>1, <3>2
  <2>6. CASE i # N
    <3>1. j # m
      BY <1>1, <2>3, <2>6
    <3>2. t.mask[r[i]] = s.mask[q[j]] \cup {k \in s.mask[b] : to(k) = q[j]}
      BY <2>1, <2>2, <2>4, <3>1
    <3>3. \A k \in s.mask[b] : to(k) = q[j] <=> 2^(k + 1) + 1 = j
      <4>1. \A k \in s.mask[b] : 2^(k + 1) + 1 \in 1..N
        BY <1>1, <1>7
      <4>2. \A p \in 1..N : q[p] = q[j] <=> p = j
        BY <1>2, <2>1
      <4> QED
        BY <1>7, <4>1, <4>2
    <3>4. \A k \in Tracked(s) :
            (j <= 2^(k + 1) \/ (m <= 2^(k + 1) /\ 2^(k + 1) + 1 = j)) <=> i <= 2^(k + 1)
      BY <1>1, <2>3, <2>6
    <3>5. s.mask[q[j]] = {k \in Tracked(s) : j <= 2^(k + 1)}
      BY <1>3, <2>1
    <3> QED
      BY <1>7, <1>10, <3>2, <3>3, <3>4, <3>5
  <2> QED
    BY <2>5, <2>6
<1> QED
  BY <1>8, <1>9, <1>11, <1>12 DEF Bounded, N, r

(* moveToHead gives the list with the block in front.                      *)
LEMMA MovedToHead ==
  ASSUME NEW s, IsFa(s), NEW q, IsList(s, q), NEW m \in 1..NumBlocks(s),
         NEW t, t = moveToHead(s, q[m])
  PROVE  /\ IsFa(t) /\ SameData(s, t) /\ t.bad = s.bad
         /\ IsList(t, Fronted(q, m, NumBlocks(s)))
<1> DEFINE N == NumBlocks(s)
           b == q[m]
           r == Fronted(q, m, N)
<1>1. N \in Nat /\ N >= 2 /\ FaBlocks(s) = 1..N /\ m \in 1..N
  BY Sizes2 DEF IsFa
<1>2. /\ q \in [1..N -> 1..N] /\ \A i, j \in 1..N : q[i] = q[j] => i = j
  BY DEF IsList, Places
<1>3. \A i \in 1..N : q[i] = b <=> i = m
  BY <1>1, <1>2
<1>4. /\ s.head = q[1] /\ s.tail = q[N]
      /\ \A i \in 1..N : /\ s.next[q[i]] = IF i = N THEN nullptr ELSE q[i + 1]
                         /\ s.prev[q[i]] = IF i = 1 THEN nullptr ELSE q[i - 1]
  BY DEF IsList, Linked
<1>5. \A i \in 1..N : r[i] = q[FrontFrom(m, i)]
  BY DEF Fronted
<1>6. b = s.head <=> m = 1
  BY <1>1, <1>3, <1>4
<1>7. Places(s, r)
  BY FrontedPlaces DEF IsList
<1>8. CASE m = 1
  <2>1. t = s
    BY <1>6, <1>8 DEF moveToHead
  <2>2. r = q
    <3>1. \A i \in 1..N : FrontFrom(m, i) = i
      BY <1>1, <1>8 DEF FrontFrom
    <3>2. r = [i \in 1..N |-> r[i]] /\ q = [i \in 1..N |-> q[i]]
      BY <1>2 DEF Fronted
    <3>3. \A i \in 1..N : r[i] = q[i]
      BY <1>5, <3>1
    <3> HIDE DEF r
    <3> QED
      BY <3>2, <3>3
  <2> QED
    BY <2>1, <2>2 DEF SameData
<1>9. CASE m # 1
  <2> DEFINE v == moveBlockToHead(s, b)
             u == unlink(v, b)
  <2>1. m \in 2..N
    BY <1>1, <1>9
  <2>2. /\ IsFa(v) /\ SameData(s, v) /\ v.bad = s.bad
        /\ v.head = s.head /\ v.tail = s.tail /\ v.next = s.next /\ v.prev = s.prev
        /\ Bounded(v, r)
    BY <2>1, TrackedToHead
  <2>3. NumBlocks(v) = N /\ FaBlocks(v) = 1..N /\ Tracked(v) = Tracked(s)
    BY <1>1, <2>2 DEF SameData, NumBlocks, FaBlocks, IsFa, Tracked
  <2>4. Places(v, q) /\ Linked(v, q)
    BY <2>2, <2>3, <1>1 DEF Places, Linked, IsList
  <2>5. /\ DOMAIN u = FaFields /\ SameData(v, u)
        /\ u.mask = v.mask /\ u.boundaries = v.boundaries /\ u.bad = v.bad
        /\ DOMAIN u.prev = 1..N /\ DOMAIN u.next = 1..N
        /\ u.head = v.head
        /\ u.tail = IF m = N THEN v.prev[b] ELSE v.tail
        /\ \A i \in 1..N :
              /\ u.next[q[i]] = IF i = m - 1 THEN v.next[b] ELSE v.next[q[i]]
              /\ u.prev[q[i]] = IF i = m + 1 THEN v.prev[b] ELSE v.prev[q[i]]
    BY <1>9, <2>2, <2>3, <2>4, Unlinked
  <2>6. t = [u EXCEPT !.next[b] = u.head, !.prev[b] = nullptr, !.prev[u.head] = b, !.head = b]
    BY <1>6, <1>9 DEF moveToHead
  <2> HIDE DEF v, u
  <2>7. /\ DOMAIN t = FaFields /\ SameData(u, t)
        /\ t.mask = u.mask /\ t.boundaries = u.boundaries /\ t.bad = u.bad
        /\ t.head = b /\ t.tail = u.tail
        /\ t.next = [u.next EXCEPT ![b] = u.head]
        /\ t.prev = [[u.prev EXCEPT ![b] = nullptr] EXCEPT ![u.head] = b]
    BY <2>5, <2>6 DEF FaFields, SameData
  <2>8. IsFa(t) /\ SameData(s, t) /\ t.bad = s.bad
    BY <2>2, <2>3, <2>5, <2>7 DEF IsFa, SameData, FaBlocks, Tracked, NumBlocks
  <2>9. NumBlocks(t) = N /\ FaBlocks(t) = 1..N /\ Tracked(t) = Tracked(s)
    BY <1>1, <2>8, <2>5, <2>7, <2>2, <2>3 DEF SameData, NumBlocks, FaBlocks, Tracked
  <2> HIDE DEF N, b, r
  <2>10. Places(t, r) /\ Bounded(t, r)
    <3>1. Places(t, r)
      BY <1>7, <1>1, <2>9 DEF Places, N
    <3>2. Bounded(t, r)
      BY <2>2, <2>3, <2>5, <2>7, <2>9 DEF Bounded
    <3> QED
      BY <3>1, <3>2
  <2>11. u.head = q[1] /\ q[1] # b /\ q[1] \in 1..N /\ b \in 1..N
    BY <1>1, <1>2, <1>3, <1>4, <1>9, <2>2, <2>5 DEF b
  <2>12. \A i \in 1..N : FrontFrom(m, i) = IF i = 1 THEN m ELSE IF i <= m THEN i - 1 ELSE i
    BY DEF FrontFrom
  <2>13. /\ r[1] = b /\ r[2] = q[1]
         /\ \A i \in 2..m : r[i] = q[i - 1]
         /\ \A i \in 2..N : i > m => r[i] = q[i]
    BY <1>1, <1>5, <2>1, <2>12 DEF b
  <2>14. t.tail = r[N]
    <3>1. t.tail = IF m = N THEN q[N - 1] ELSE q[N]
      BY <1>1, <1>4, <2>1, <2>2, <2>5, <2>7 DEF b
    <3> QED
      BY <1>1, <2>1, <2>13, <3>1
  <2>15. \A i \in 1..N : i # m =>
            /\ t.next[q[i]] = IF i = m - 1 THEN s.next[b] ELSE s.next[q[i]]
            /\ i # 1 => t.prev[q[i]] = IF i = m + 1 THEN s.prev[b] ELSE s.prev[q[i]]
    <3> SUFFICES ASSUME NEW i \in 1..N, i # m
                 PROVE  /\ t.next[q[i]] = IF i = m - 1 THEN s.next[b] ELSE s.next[q[i]]
                        /\ i # 1 => t.prev[q[i]] = IF i = m + 1 THEN s.prev[b] ELSE s.prev[q[i]]
      OBVIOUS
    <3>1. q[i] # b /\ q[i] \in 1..N /\ (i # 1 => q[i] # q[1])
      BY <1>1, <1>2, <1>3
    <3>2. t.next[q[i]] = u.next[q[i]]
      BY <2>5, <2>7, <3>1
    <3>3. i # 1 => t.prev[q[i]] = u.prev[q[i]]
      BY <2>5, <2>7, <2>11, <3>1
    <3> QED
      BY <2>2, <2>5, <3>2, <3>3
  <2>16. ASSUME NEW i \in 1..N
         PROVE  t.next[r[i]] = IF i = N THEN nullptr ELSE r[i + 1]
    <3>1. CASE i = 1
      BY <1>1, <2>5, <2>7, <2>11, <2>13, <3>1
    <3>2. CASE i \in 2..m - 1
      <4>1. i - 1 \in 1..N /\ i - 1 # m /\ i - 1 # m - 1 /\ i \in 2..m /\ i + 1 \in 2..m /\ i # N
        BY <1>1, <2>1, <3>2
      <4>2. t.next[q[i - 1]] = s.next[q[i - 1]]
        BY <2>15, <4>1
      <4>3. s.next[q[i - 1]] = q[(i - 1) + 1] /\ (i - 1) + 1 = i /\ (i + 1) - 1 = i
        BY <1>4, <4>1
      <4> QED
        BY <2>13, <4>1, <4>2, <4>3
    <3>3. CASE i = m
      <4>1. m - 1 \in 1..N /\ m - 1 # m /\ m \in 2..m
        BY <1>1, <2>1
      <4>2. t.next[q[m - 1]] = s.next[b]
        BY <2>15, <4>1
      <4>3. m # N => m + 1 \in 2..N /\ m + 1 > m
        BY <1>1, <2>1
      <4> QED
        BY <1>1, <1>4, <2>13, <3>3, <4>1, <4>2, <4>3 DEF b
    <3>4. CASE i > m
      <4>1. i \in 2..N /\ i # m /\ i # m - 1 /\ (i # N => i + 1 \in 2..N /\ i + 1 > m)
        BY <1>1, <2>1, <3>4
      <4> QED
        BY <1>4, <2>13, <2>15, <3>4, <4>1
    <3> QED
      BY <1>1, <2>1, <3>1, <3>2, <3>3, <3>4
  <2>17. ASSUME NEW i \in 1..N
         PROVE  t.prev[r[i]] = IF i = 1 THEN nullptr ELSE r[i - 1]
    <3>0. t.prev[b] = nullptr /\ t.prev[q[1]] = b
      <4>1. [u.prev EXCEPT ![b] = nullptr][b] = nullptr
        BY <2>5, <2>11
      <4>2. t.prev[q[1]] = b
        BY <2>5, <2>7, <2>11
      <4>3. t.prev[b] = [u.prev EXCEPT ![b] = nullptr][b]
        BY <2>5, <2>7, <2>11
      <4> QED
        BY <4>1, <4>2, <4>3
    <3>1. CASE i = 1
      BY <2>13, <3>0, <3>1
    <3>2. CASE i = 2
      BY <2>13, <3>0, <3>2
    <3>3. CASE i \in 3..m
      <4>1. i - 1 \in 2..N /\ i - 1 # m /\ i - 1 # 1 /\ i - 1 # m + 1 /\ i \in 2..m /\ i - 1 \in 2..m
        BY <1>1, <2>1, <3>3
      <4>2. t.prev[q[i - 1]] = s.prev[q[i - 1]]
        BY <2>15, <4>1
      <4>3. s.prev[q[i - 1]] = q[(i - 1) - 1]
        BY <1>4, <4>1
      <4> QED
        BY <2>13, <4>1, <4>2, <4>3
    <3>4. CASE i = m + 1
      <4>1. m + 1 \in 2..N /\ m \in 2..m /\ (m + 1) - 1 = m
        BY <1>1, <2>1, <3>4
      <4>2. t.prev[q[m + 1]] = s.prev[b] /\ s.prev[b] = q[m - 1]
        BY <1>1, <1>4, <2>1, <2>15, <4>1 DEF b
      <4> QED
        BY <2>13, <3>4, <4>1, <4>2
    <3>5. CASE i > m + 1
      <4>1. i \in 2..N /\ i # m /\ i # 1 /\ i # m + 1 /\ i - 1 \in 2..N /\ i - 1 > m /\ i > m
        BY <1>1, <2>1, <3>5
      <4> QED
        BY <1>4, <2>13, <2>15, <4>1
    <3> QED
      BY <1>1, <2>1, <3>1, <3>2, <3>3, <3>4, <3>5
  <2>18. Linked(t, r)
    BY <2>7, <2>9, <2>13, <2>14, <2>16, <2>17 DEF Linked
  <2> QED
    BY <2>8, <2>10, <2>18 DEF IsList, N, r
<1> QED
  BY <1>8, <1>9

(* moveToTail gives the list with the block at the end.                    *)
LEMMA MovedToTail ==
  ASSUME NEW s, IsFa(s), NEW q, IsList(s, q), NEW m \in 1..NumBlocks(s),
         NEW t, t = moveToTail(s, q[m])
  PROVE  /\ IsFa(t) /\ SameData(s, t) /\ t.bad = s.bad
         /\ IsList(t, Backed(q, m, NumBlocks(s)))
<1> DEFINE N == NumBlocks(s)
           b == q[m]
           r == Backed(q, m, N)
<1>1. N \in Nat /\ N >= 2 /\ FaBlocks(s) = 1..N /\ m \in 1..N
  BY Sizes2 DEF IsFa
<1>2. /\ q \in [1..N -> 1..N] /\ \A i, j \in 1..N : q[i] = q[j] => i = j
  BY DEF IsList, Places
<1>3. \A i \in 1..N : q[i] = b <=> i = m
  BY <1>1, <1>2
<1>4. /\ s.head = q[1] /\ s.tail = q[N]
      /\ \A i \in 1..N : /\ s.next[q[i]] = IF i = N THEN nullptr ELSE q[i + 1]
                         /\ s.prev[q[i]] = IF i = 1 THEN nullptr ELSE q[i - 1]
  BY DEF IsList, Linked
<1>5. \A i \in 1..N : r[i] = q[BackFrom(m, N, i)]
  BY DEF Backed
<1>6. b = s.tail <=> m = N
  BY <1>1, <1>3, <1>4
<1>7. Places(s, r)
  BY BackedPlaces DEF IsList
<1>8. CASE m = N
  <2>1. t = s
    BY <1>6, <1>8 DEF moveToTail
  <2>2. r = q
    <3>1. \A i \in 1..N : BackFrom(m, N, i) = i
      BY <1>1, <1>8 DEF BackFrom
    <3>2. r = [i \in 1..N |-> r[i]] /\ q = [i \in 1..N |-> q[i]]
      BY <1>2 DEF Backed
    <3>3. \A i \in 1..N : r[i] = q[i]
      BY <1>5, <3>1
    <3> HIDE DEF r
    <3> QED
      BY <3>2, <3>3
  <2> QED
    BY <2>1, <2>2 DEF SameData
<1>9. CASE m # N
  <2> DEFINE v == moveBlockToTail(s, b)
             u == unlink(v, b)
  <2>1. m \in 1..N - 1
    BY <1>1, <1>9
  <2>2. /\ IsFa(v) /\ SameData(s, v) /\ v.bad = s.bad
        /\ v.head = s.head /\ v.tail = s.tail /\ v.next = s.next /\ v.prev = s.prev
        /\ Bounded(v, r)
    BY <2>1, TrackedToTail
  <2>3. NumBlocks(v) = N /\ FaBlocks(v) = 1..N /\ Tracked(v) = Tracked(s)
    BY <1>1, <2>2 DEF SameData, NumBlocks, FaBlocks, IsFa, Tracked
  <2>4. Places(v, q) /\ Linked(v, q)
    BY <2>2, <2>3, <1>1 DEF Places, Linked, IsList
  <2>5. /\ DOMAIN u = FaFields /\ SameData(v, u)
        /\ u.mask = v.mask /\ u.boundaries = v.boundaries /\ u.bad = v.bad
        /\ DOMAIN u.prev = 1..N /\ DOMAIN u.next = 1..N
        /\ u.head = IF m = 1 THEN v.next[b] ELSE v.head
        /\ u.tail = v.tail
        /\ \A i \in 1..N :
              /\ u.next[q[i]] = IF i = m - 1 THEN v.next[b] ELSE v.next[q[i]]
              /\ u.prev[q[i]] = IF i = m + 1 THEN v.prev[b] ELSE v.prev[q[i]]
    BY <1>9, <2>2, <2>3, <2>4, Unlinked
  <2>6. t = [u EXCEPT !.prev[b] = u.tail, !.next[b] = nullptr, !.next[u.tail] = b, !.tail = b]
    BY <1>6, <1>9 DEF moveToTail
  <2> HIDE DEF v, u
  <2>7. /\ DOMAIN t = FaFields /\ SameData(u, t)
        /\ t.mask = u.mask /\ t.boundaries = u.boundaries /\ t.bad = u.bad
        /\ t.tail = b /\ t.head = u.head
        /\ t.prev = [u.prev EXCEPT ![b] = u.tail]
        /\ t.next = [[u.next EXCEPT ![b] = nullptr] EXCEPT ![u.tail] = b]
    BY <2>5, <2>6 DEF FaFields, SameData
  <2>8. IsFa(t) /\ SameData(s, t) /\ t.bad = s.bad
    BY <2>2, <2>3, <2>5, <2>7 DEF IsFa, SameData, FaBlocks, Tracked, NumBlocks
  <2>9. NumBlocks(t) = N /\ FaBlocks(t) = 1..N /\ Tracked(t) = Tracked(s)
    BY <1>1, <2>8, <2>5, <2>7, <2>2, <2>3 DEF SameData, NumBlocks, FaBlocks, Tracked
  <2> HIDE DEF N, b, r
  <2>10. Places(t, r) /\ Bounded(t, r)
    <3>1. Places(t, r)
      BY <1>7, <1>1, <2>9 DEF Places, N
    <3>2. Bounded(t, r)
      BY <2>2, <2>3, <2>5, <2>7, <2>9 DEF Bounded
    <3> QED
      BY <3>1, <3>2
  <2>11. u.tail = q[N] /\ q[N] # b /\ q[N] \in 1..N /\ b \in 1..N
    BY <1>1, <1>2, <1>3, <1>4, <1>9, <2>2, <2>5 DEF b
  <2>12. \A i \in 1..N : BackFrom(m, N, i) = IF i = N THEN m ELSE IF i < m THEN i ELSE i + 1
    BY DEF BackFrom
  <2>13. /\ r[N] = b /\ r[N - 1] = q[N]
         /\ \A i \in m..N - 1 : r[i] = q[i + 1]
         /\ \A i \in 1..N : i < m => r[i] = q[i]
    <3>1. N \in 1..N /\ N - 1 \in 1..N /\ N - 1 >= m
      BY <1>1, <2>1
    <3>2. \A i \in m..N - 1 : i \in 1..N /\ i # N /\ ~(i < m)
      BY <1>1, <2>1
    <3>3. \A i \in 1..N : i < m => i # N
      BY <1>1, <2>1
    <3>4. r[N] = b
      BY <1>5, <2>12, <3>1 DEF b
    <3>5. \A i \in m..N - 1 : r[i] = q[i + 1]
      BY <1>5, <2>12, <3>2
    <3>6. N - 1 \in m..N - 1 /\ (N - 1) + 1 = N
      BY <1>1, <2>1
    <3>7. r[N - 1] = q[N]
      BY <3>5, <3>6
    <3> QED
      BY <1>5, <2>12, <3>3, <3>4, <3>5, <3>7
  <2>14. t.head = r[1]
    <3>1. t.head = IF m = 1 THEN q[2] ELSE q[1]
      BY <1>1, <1>4, <2>1, <2>2, <2>5, <2>7 DEF b
    <3>2. 1 \in 1..N /\ (m = 1 => 1 \in m..N - 1) /\ (m # 1 => 1 < m)
      BY <1>1, <2>1
    <3> QED
      BY <2>13, <3>1, <3>2
  <2>15. \A i \in 1..N : i # m =>
            /\ t.prev[q[i]] = IF i = m + 1 THEN s.prev[b] ELSE s.prev[q[i]]
            /\ i # N => t.next[q[i]] = IF i = m - 1 THEN s.next[b] ELSE s.next[q[i]]
    <3> SUFFICES ASSUME NEW i \in 1..N, i # m
                 PROVE  /\ t.prev[q[i]] = IF i = m + 1 THEN s.prev[b] ELSE s.prev[q[i]]
                        /\ i # N => t.next[q[i]] = IF i = m - 1 THEN s.next[b] ELSE s.next[q[i]]
      OBVIOUS
    <3>1. q[i] # b /\ q[i] \in 1..N /\ (i # N => q[i] # q[N])
      BY <1>1, <1>2, <1>3
    <3>2. t.prev[q[i]] = u.prev[q[i]]
      BY <2>5, <2>7, <3>1
    <3>3. i # N => t.next[q[i]] = u.next[q[i]]
      BY <2>5, <2>7, <2>11, <3>1
    <3> QED
      BY <2>2, <2>5, <3>2, <3>3
  <2>16. ASSUME NEW i \in 1..N
         PROVE  t.prev[r[i]] = IF i = 1 THEN nullptr ELSE r[i - 1]
    <3>1. CASE i = N
      BY <1>1, <2>5, <2>7, <2>11, <2>13, <3>1
    <3>2. CASE i \in m + 1..N - 1
      <4>1. i + 1 \in 1..N /\ i + 1 # m /\ i + 1 # m + 1 /\ i \in m..N - 1 /\ i - 1 \in m..N - 1 /\ i # 1
            /\ i + 1 # 1
        BY <1>1, <2>1, <3>2
      <4>2. t.prev[q[i + 1]] = s.prev[q[i + 1]]
        BY <2>15, <4>1
      <4>3. s.prev[q[i + 1]] = q[(i + 1) - 1] /\ (i + 1) - 1 = i /\ (i - 1) + 1 = i
        BY <1>4, <4>1
      <4> QED
        BY <2>13, <4>1, <4>2, <4>3
    <3>3. CASE i = m
      <4>1. m + 1 \in 1..N /\ m + 1 # m /\ m \in m..N - 1
        BY <1>1, <2>1
      <4>2. t.prev[q[m + 1]] = s.prev[b]
        BY <2>15, <4>1
      <4>3. m # 1 => m - 1 \in 1..N /\ m - 1 < m
        BY <1>1, <2>1
      <4> QED
        BY <1>1, <1>4, <2>13, <3>3, <4>1, <4>2, <4>3 DEF b
    <3>4. CASE i < m
      <4>1. i # m /\ i # m + 1 /\ (i # 1 => i - 1 \in 1..N /\ i - 1 < m)
        BY <1>1, <2>1, <3>4
      <4> QED
        BY <1>4, <2>13, <2>15, <3>4, <4>1
    <3> QED
      BY <1>1, <2>1, <3>1, <3>2, <3>3, <3>4
  <2>17. ASSUME NEW i \in 1..N
         PROVE  t.next[r[i]] = IF i = N THEN nullptr ELSE r[i + 1]
    <3>1. CASE i = N
      BY <2>5, <2>7, <2>11, <2>13, <3>1
    <3>2. CASE i = N - 1
      BY <1>1, <2>5, <2>7, <2>11, <2>13, <3>2
    <3>3. CASE i \in m..N - 2
      <4>1. i + 1 \in 1..N /\ i + 1 # m /\ i + 1 # N /\ i + 1 # m - 1 /\ i \in m..N - 1
            /\ i + 1 \in m..N - 1 /\ i # N
        BY <1>1, <2>1, <3>3
      <4>2. t.next[q[i + 1]] = s.next[q[i + 1]]
        BY <2>15, <4>1
      <4>3. s.next[q[i + 1]] = q[(i + 1) + 1]
        BY <1>4, <4>1
      <4> QED
        BY <2>13, <4>1, <4>2, <4>3
    <3>4. CASE i = m - 1 /\ i # N - 1
      <4>1. m - 1 \in 1..N /\ m - 1 < m /\ m \in m..N - 1 /\ (m - 1) + 1 = m /\ m - 1 # m
            /\ m - 1 # N
        BY <1>1, <2>1, <3>4
      <4>2. t.next[q[m - 1]] = s.next[b] /\ s.next[b] = q[m + 1]
        BY <1>1, <1>4, <2>1, <2>15, <4>1, <1>9 DEF b
      <4> QED
        BY <2>13, <3>4, <4>1, <4>2
    <3>5. CASE i < m - 1
      <4>1. i # m /\ i # N /\ i # m - 1 /\ i + 1 \in 1..N /\ i + 1 < m /\ i < m
        BY <1>1, <2>1, <3>5
      <4> QED
        BY <1>4, <2>13, <2>15, <4>1
    <3> QED
      BY <1>1, <2>1, <3>1, <3>2, <3>3, <3>4, <3>5
  <2>18. Linked(t, r)
    BY <2>7, <2>9, <2>13, <2>14, <2>16, <2>17 DEF Linked
  <2> QED
    BY <2>8, <2>10, <2>18 DEF IsList, N, r
<1> QED
  BY <1>8, <1>9

-----------------------------------------------------------------------------
(* Blocks, hash and list together *)

ValidBlocks(s) == {b \in FaBlocks(s) : s.blk[b].valid}

FaData(s) ==
  /\ \A b \in FaBlocks(s) : s.blk[b].valid \in BOOLEAN
  /\ DOMAIN s.tagHash = {keyOf(s, b) : b \in ValidBlocks(s)}
  /\ \A b \in ValidBlocks(s) : s.tagHash[keyOf(s, b)] = b
  /\ s.inUse = Cardinality(ValidBlocks(s))

(* The valid blocks come first, the last used at the head.                 *)
Ordered(s, h, q) ==
  \A i \in 2..NumBlocks(s) :
    s.blk[q[i]].valid => s.blk[q[i - 1]].valid /\ h[q[i - 1]].op > h[q[i]].op

(* A store in good order with the list q, and h the accesses so far.       *)
FaOK(s, h, q) ==
  /\ IsFa(s) /\ s.bad = FALSE /\ FaData(s) /\ IsList(s, q) /\ Ordered(s, h, q)
  /\ \A b \in FaBlocks(s) : h[b].op \in Nat

(* The hash and the counter read the blocks only, not the list.             *)
LEMMA DataKept ==
  ASSUME NEW s, FaData(s), NEW t, SameData(s, t)
  PROVE  FaData(t)
BY DEF SameData, FaData, ValidBlocks, FaBlocks, keyOf

(* A valid block is dropped: the key it leaves was in the hash for it only. *)
LEMMA FaInvalidated ==
  ASSUME NEW s, NEW h, NEW q, FaOK(s, h, q), NEW m \in 1..NumBlocks(s), s.blk[q[m]].valid,
         NEW t, t = faInvalidate(s, q[m])
  PROVE  /\ FaOK(t, h, Backed(q, m, NumBlocks(s))) /\ t.c = s.c
         /\ t.blk = [s.blk EXCEPT ![q[m]] = NoFaBlk]
         /\ DOMAIN t.tagHash \subseteq DOMAIN s.tagHash
<1> DEFINE N == NumBlocks(s)
           b == q[m]
           r == Backed(q, m, N)
           u == [s EXCEPT !.tagHash = [k \in DOMAIN @ \ {keyOf(s, b)} |-> @[k]],
                      !.bad = @ \/ keyOf(s, b) \notin DOMAIN s.tagHash \/ ~s.blk[b].valid,
                      !.blk[b] = NoFaBlk, !.inUse = @ - 1]
<1>1. N \in Nat /\ N >= 2 /\ FaBlocks(s) = 1..N /\ m \in 1..N
  BY Sizes2 DEF IsFa, FaOK
<1>2. /\ q \in [1..N -> 1..N] /\ \A i, j \in 1..N : q[i] = q[j] => i = j
  BY DEF FaOK, IsList, Places
<1>3. b \in FaBlocks(s) /\ b \in ValidBlocks(s) /\ s.blk[b].valid = TRUE
  BY <1>1, <1>2 DEF ValidBlocks, FaOK, FaData
<1>4. keyOf(s, b) \in DOMAIN s.tagHash
  BY <1>3 DEF FaOK, FaData
<1> HIDE DEF N, b, r
<1>5. /\ DOMAIN u = FaFields /\ u.c = s.c /\ u.bad = FALSE
      /\ u.head = s.head /\ u.tail = s.tail /\ u.next = s.next /\ u.prev = s.prev
      /\ u.mask = s.mask /\ u.boundaries = s.boundaries
      /\ u.blk = [s.blk EXCEPT ![b] = NoFaBlk] /\ u.inUse = s.inUse - 1
      /\ u.tagHash = [k \in DOMAIN s.tagHash \ {keyOf(s, b)} |-> s.tagHash[k]]
  BY <1>3, <1>4 DEF FaOK, IsFa, FaFields
<1>6. t = moveToTail(u, b)
  BY DEF faInvalidate, b
<1> HIDE DEF u
<1>7. NumBlocks(u) = N /\ FaBlocks(u) = 1..N /\ Tracked(u) = Tracked(s)
  BY <1>1, <1>5 DEF NumBlocks, FaBlocks, Tracked, N
<1>8. IsFa(u)
  BY <1>5, <1>7, <1>1 DEF FaOK, IsFa, FaBlocks, Tracked, N
<1>9. IsList(u, q)
  BY <1>5, <1>7, <1>1 DEF FaOK, IsList, Places, Linked, Bounded, N
<1>10. FaData(u)
  <2>1. ValidBlocks(u) = ValidBlocks(s) \ {b}
    BY <1>1, <1>3, <1>5, <1>7 DEF ValidBlocks, NoFaBlk, FaBlocks
  <2>2. \A x \in ValidBlocks(u) : x \in ValidBlocks(s) /\ x # b /\ keyOf(u, x) = keyOf(s, x)
    BY <1>3, <1>5, <2>1 DEF keyOf, ValidBlocks, FaBlocks
  <2>3. \A x \in ValidBlocks(u) : keyOf(s, x) # keyOf(s, b)
    BY <1>3, <2>2 DEF FaOK, FaData
  <2>4. DOMAIN u.tagHash = {keyOf(u, x) : x \in ValidBlocks(u)}
    <3>1. DOMAIN u.tagHash = {keyOf(s, x) : x \in ValidBlocks(s)} \ {keyOf(s, b)}
      BY <1>5 DEF FaOK, FaData
    <3> QED
      BY <1>3, <2>1, <2>2, <2>3, <3>1
  <2>5. \A x \in ValidBlocks(u) : u.tagHash[keyOf(u, x)] = x
    BY <1>5, <2>2, <2>3 DEF FaOK, FaData
  <2>6. IsFiniteSet(ValidBlocks(s))
    <3>1. IsFiniteSet(1..N)
      BY <1>1, FS_Interval
    <3> QED
      BY <1>1, <3>1, FS_Subset DEF ValidBlocks
  <2>7. u.inUse = Cardinality(ValidBlocks(u))
    BY <1>3, <1>5, <2>1, <2>6, FS_RemoveElement DEF FaOK, FaData
  <2>8. \A x \in FaBlocks(u) : u.blk[x].valid \in BOOLEAN
    <3> SUFFICES ASSUME NEW x \in FaBlocks(u)
                 PROVE  u.blk[x].valid \in BOOLEAN
      OBVIOUS
    <3>1. x = b => u.blk[x] = NoFaBlk
      BY <1>3, <1>5 DEF FaBlocks
    <3>2. x # b => u.blk[x] = s.blk[x]
      BY <1>1, <1>5, <1>7 DEF FaBlocks
    <3>3. NoFaBlk.valid \in BOOLEAN
      BY DEF NoFaBlk
    <3>4. s.blk[x].valid \in BOOLEAN
      BY <1>1, <1>7 DEF FaOK, FaData
    <3> QED
      BY <3>1, <3>2, <3>3, <3>4
  <2> QED
    BY <2>4, <2>5, <2>7, <2>8 DEF FaData
<1>11. /\ IsFa(t) /\ SameData(u, t) /\ t.bad = u.bad
       /\ IsList(t, r)
  BY <1>6, <1>7, <1>8, <1>9, MovedToTail DEF b, r, N
<1>12. FaData(t)
  BY <1>10, <1>11, DataKept
<1>13. t.c = s.c /\ NumBlocks(t) = N /\ FaBlocks(t) = 1..N
       /\ t.blk = [s.blk EXCEPT ![b] = NoFaBlk]
  BY <1>5, <1>7, <1>11 DEF SameData, NumBlocks, FaBlocks
<1>14. Ordered(t, h, r)
  <2> SUFFICES ASSUME NEW i \in 2..N, t.blk[r[i]].valid
               PROVE  t.blk[r[i - 1]].valid /\ h[r[i - 1]].op > h[r[i]].op
    BY <1>13 DEF Ordered
  <2>1. \A j \in 1..N : r[j] = q[BackFrom(m, N, j)]
    BY DEF Backed, r
  <2>2. i # N
    <3>1. i = N => r[i] = b
      BY <1>1, <2>1 DEF BackFrom, b
    <3>2. t.blk[b] = NoFaBlk
      BY <1>3, <1>13 DEF FaBlocks
    <3> QED
      BY <3>1, <3>2 DEF NoFaBlk
  <2> DEFINE j == BackFrom(m, N, i)
             p == BackFrom(m, N, i - 1)
  <2>3. /\ r[i] = q[j] /\ r[i - 1] = q[p] /\ j \in 1..N /\ p \in 1..N
        /\ j # m /\ p # m
        /\ p = IF i - 1 < m THEN i - 1 ELSE i
        /\ j = IF i < m THEN i ELSE i + 1
    <3>1. i \in 1..N /\ i - 1 \in 1..N /\ i - 1 # N
      BY <1>1
    <3>2. p = (IF i - 1 < m THEN i - 1 ELSE i) /\ j = (IF i < m THEN i ELSE i + 1)
      BY <2>2, <3>1 DEF BackFrom
    <3>3. r[i] = q[j] /\ r[i - 1] = q[p]
      BY <2>1, <3>1
    <3> HIDE DEF j, p
    <3>4. j \in 1..N /\ p \in 1..N /\ j # m /\ p # m
      BY <1>1, <2>2, <3>2
    <3> QED
      BY <3>2, <3>3, <3>4
  <2> HIDE DEF j, p
  <2>4. q[j] # b /\ q[p] # b /\ q[j] \in 1..N /\ q[p] \in 1..N /\ q[m] \in 1..N
    BY <1>1, <1>2, <2>3 DEF b
  <2>5. t.blk[q[j]] = s.blk[q[j]] /\ t.blk[q[p]] = s.blk[q[p]]
    BY <1>1, <1>13, <2>4 DEF FaBlocks
  <2>6. \A k \in 2..N : s.blk[q[k]].valid => s.blk[q[k - 1]].valid /\ h[q[k - 1]].op > h[q[k]].op
    BY DEF FaOK, Ordered, N
  <2>7. \A x \in 1..N : h[x].op \in Nat
    BY <1>1 DEF FaOK
  <2>8. s.blk[q[j]].valid
    BY <2>3, <2>5
  <2>9. s.blk[q[p]].valid /\ h[q[p]].op > h[q[j]].op
    <3>1. CASE i = m
      <4>1. j = m + 1 /\ p = m - 1 /\ m + 1 \in 2..N /\ m \in 2..N /\ (m + 1) - 1 = m
        BY <1>1, <2>2, <2>3, <3>1
      <4>2. s.blk[q[m]].valid /\ h[q[m]].op > h[q[j]].op
        BY <2>6, <2>8, <4>1
      <4>3. s.blk[q[p]].valid /\ h[q[p]].op > h[q[m]].op
        BY <2>6, <4>1, <4>2
      <4> QED
        BY <2>4, <2>7, <4>2, <4>3
    <3>2. CASE i # m
      <4>1. j \in 2..N /\ p = j - 1
        BY <1>1, <2>2, <2>3, <3>2
      <4> QED
        BY <2>6, <2>8, <4>1
    <3> QED
      BY <3>1, <3>2
  <2> QED
    BY <2>3, <2>5, <2>9
<1>15. \A x \in FaBlocks(t) : h[x].op \in Nat
  BY <1>1, <1>13 DEF FaOK
<1> QED
  BY <1>5, <1>11, <1>12, <1>13, <1>14, <1>15 DEF FaOK, SameData, N, b, r

(* A block that is used goes in front of all blocks used before it.        *)
LEMMA FrontOrdered ==
  ASSUME NEW s, NEW h, NEW q, IsFa(s), Places(s, q), Ordered(s, h, q),
         NEW m \in 1..NumBlocks(s), NEW t, t.c = s.c, NEW g, t.blk[q[m]].valid,
         \A x \in FaBlocks(s) : h[x].op \in Nat,
         \A x \in FaBlocks(s) \ {q[m]} : g[x] = h[x] /\ t.blk[x] = s.blk[x] /\ g[q[m]].op > h[x].op,
         s.blk[q[m]].valid \/ m = NumBlocks(s)
  PROVE  Ordered(t, g, Fronted(q, m, NumBlocks(s)))
<1> DEFINE N == NumBlocks(s)
           b == q[m]
           r == Fronted(q, m, N)
<1>1. N \in Nat /\ N >= 2 /\ FaBlocks(s) = 1..N /\ m \in 1..N /\ NumBlocks(t) = N
  BY Sizes2 DEF IsFa, NumBlocks
<1>2. /\ q \in [1..N -> 1..N] /\ \A i, j \in 1..N : q[i] = q[j] => i = j
  BY DEF Places
<1>3. \A j \in 1..N : r[j] = q[FrontFrom(m, j)]
  BY DEF Fronted
<1>4. \A k \in 2..N : s.blk[q[k]].valid => s.blk[q[k - 1]].valid /\ h[q[k - 1]].op > h[q[k]].op
  BY DEF Ordered
<1>5. \A x \in 1..N : x # b => g[x] = h[x] /\ t.blk[x] = s.blk[x] /\ g[b].op > h[x].op
  BY <1>1
<1>6. t.blk[b].valid /\ (s.blk[b].valid \/ m = N)
  OBVIOUS
<1>7. \A x \in 1..N : h[x].op \in Nat
  BY <1>1
<1>8. \A k \in 1..N : q[k] = b <=> k = m
  BY <1>1, <1>2
<1>9. b = q[m]
  OBVIOUS
<1> HIDE DEF N, b, r
<1> SUFFICES ASSUME NEW i \in 2..N, t.blk[r[i]].valid
             PROVE  t.blk[r[i - 1]].valid /\ g[r[i - 1]].op > g[r[i]].op
  BY <1>1 DEF Ordered, N, r
<1> DEFINE j == FrontFrom(m, i)
           p == FrontFrom(m, i - 1)
<1>10. r[i] = q[j] /\ r[i - 1] = q[p]
  <2>1. i \in 1..N /\ i - 1 \in 1..N
    BY <1>1
  <2> QED
    BY <1>3, <2>1
<1>11. /\ j = IF i <= m THEN i - 1 ELSE i
       /\ p = IF i = 2 THEN m ELSE IF i - 1 <= m THEN i - 2 ELSE i - 1
  BY <1>1 DEF FrontFrom
<1> HIDE DEF j, p
<1>12. j \in 1..N /\ p \in 1..N /\ j # m
  BY <1>1, <1>11
<1>13. q[j] # b /\ q[j] \in 1..N /\ q[p] \in 1..N /\ q[m] \in 1..N
  BY <1>1, <1>2, <1>8, <1>12
<1>14. s.blk[q[j]].valid /\ g[q[j]] = h[q[j]]
  BY <1>5, <1>10, <1>13
<1>15. CASE i = 2
  <2>1. q[p] = b
    BY <1>9, <1>11, <1>15
  <2> QED
    BY <1>5, <1>6, <1>10, <1>13, <1>14, <2>1
<1>16. CASE i # 2
  <2>1. p # m
    BY <1>1, <1>11, <1>16
  <2>2. q[p] # b /\ t.blk[q[p]] = s.blk[q[p]] /\ g[q[p]] = h[q[p]]
    BY <1>5, <1>8, <1>12, <1>13, <2>1
  <2>3. s.blk[q[p]].valid /\ h[q[p]].op > h[q[j]].op
    <3>1. CASE i = m + 1
      <4>1. j = m + 1 /\ p = m - 1 /\ m + 1 \in 2..N /\ m \in 2..N /\ (m + 1) - 1 = m
        BY <1>1, <1>11, <1>16, <3>1
      <4>2. s.blk[q[m]].valid /\ h[q[m]].op > h[q[j]].op
        BY <1>4, <1>14, <4>1
      <4>3. s.blk[q[p]].valid /\ h[q[p]].op > h[q[m]].op
        BY <1>4, <4>1, <4>2
      <4> QED
        BY <1>7, <1>13, <4>2, <4>3
    <3>2. CASE i # m + 1
      <4>1. j \in 2..N /\ p = j - 1
        BY <1>1, <1>11, <1>16, <3>2
      <4> QED
        BY <1>4, <1>14, <4>1
    <3> QED
      BY <3>1, <3>2
  <2> QED
    BY <1>10, <1>14, <2>2, <2>3
<1> QED
  BY <1>15, <1>16

(* A valid block is used: it goes to the head.                             *)
LEMMA FaUsed ==
  ASSUME NEW s, NEW h, NEW q, FaOK(s, h, q), NEW m \in 1..NumBlocks(s), s.blk[q[m]].valid,
         NEW t, t = faAccessBlock(s, q[m]), NEW g,
         g[q[m]].op \in Nat,
         \A x \in FaBlocks(s) \ {q[m]} : g[x] = h[x] /\ g[q[m]].op > h[x].op
  PROVE  FaOK(t, g, Fronted(q, m, NumBlocks(s))) /\ t.c = s.c
<1>1. q[m] \in 1..NumBlocks(s) /\ FaBlocks(s) = 1..NumBlocks(s) /\ NumBlocks(s) \in Nat
  BY Sizes2 DEF FaOK, IsFa, IsList, Places
<1>2. t = moveToHead(s, q[m])
  BY <1>1 DEF faAccessBlock, nullptr
<1>3. /\ IsFa(t) /\ SameData(s, t) /\ t.bad = s.bad
      /\ IsList(t, Fronted(q, m, NumBlocks(s)))
  BY <1>2, MovedToHead DEF FaOK
<1>4. FaData(t)
  BY <1>3, DataKept DEF FaOK
<1>5. Ordered(t, g, Fronted(q, m, NumBlocks(s)))
  BY <1>3, FrontOrdered DEF FaOK, SameData, IsList
<1>6. \A x \in FaBlocks(t) : g[x].op \in Nat
  BY <1>3 DEF FaOK, SameData, FaBlocks
<1> QED
  BY <1>3, <1>4, <1>5, <1>6 DEF FaOK, SameData

(* A new key goes into the last block, which is invalid.                   *)
LEMMA FaInserted ==
  ASSUME NEW s, NEW h, NEW q, FaOK(s, h, q), NEW key, key \notin DOMAIN s.tagHash,
         key = [addr |-> key.addr, secure |-> key.secure],
         ~s.blk[q[NumBlocks(s)]].valid,
         NEW t, t = faInsertBlock(s, q[NumBlocks(s)], key), NEW g,
         g[q[NumBlocks(s)]].op \in Nat,
         \A x \in FaBlocks(s) \ {q[NumBlocks(s)]} :
            g[x] = h[x] /\ g[q[NumBlocks(s)]].op > h[x].op
  PROVE  FaOK(t, g, Fronted(q, NumBlocks(s), NumBlocks(s))) /\ t.c = s.c
<1> DEFINE N == NumBlocks(s)
           b == q[N]
           r == Fronted(q, N, N)
           B == [valid |-> TRUE, addr |-> key.addr, secure |-> key.secure]
           u == [s EXCEPT !.blk[b] = [valid |-> TRUE, addr |-> key.addr, secure |-> key.secure],
                          !.bad = @ \/ s.mask[b] # {} \/ s.blk[b].valid,
                          !.inUse = @ + 1]
           v == moveToHead(u, b)
<1>0. IsFa(s)
  BY DEF FaOK
<1>1. N \in Nat /\ N >= 2 /\ FaBlocks(s) = 1..N /\ N \in 1..N
  BY <1>0, Sizes2 DEF IsFa
<1>2. /\ q \in [1..N -> 1..N] /\ \A i, j \in 1..N : q[i] = q[j] => i = j
  BY DEF FaOK, IsList, Places
<1>3. b \in 1..N /\ s.blk[b].valid = FALSE /\ b \notin ValidBlocks(s)
  BY <1>1, <1>2 DEF ValidBlocks, FaOK, FaData
<1>4. s.mask[b] = {}
  <2>1. s.mask[b] = {k \in Tracked(s) : N <= 2^(k + 1)}
    BY <1>1 DEF FaOK, IsList, Bounded
  <2>2. \A k \in Tracked(s) : 2^(k + 1) \in 2..N - 1
    BY <1>0, Sizes2
  <2> QED
    BY <1>1, <2>1, <2>2
<1>5. t = [v EXCEPT !.tagHash = [k \in DOMAIN @ \cup {key} |-> IF k = key THEN b ELSE @[k]]]
  BY DEF faInsertBlock
<1> HIDE DEF N, b, r, v
<1>6. /\ DOMAIN u = FaFields /\ u.c = s.c /\ u.bad = FALSE
      /\ u.head = s.head /\ u.tail = s.tail /\ u.next = s.next /\ u.prev = s.prev
      /\ u.mask = s.mask /\ u.boundaries = s.boundaries
      /\ u.blk = [s.blk EXCEPT ![b] = B] /\ u.inUse = s.inUse + 1
      /\ u.tagHash = s.tagHash
  BY <1>3, <1>4 DEF FaOK, IsFa, FaFields
<1> HIDE DEF u
<1>7. NumBlocks(u) = N /\ FaBlocks(u) = 1..N /\ Tracked(u) = Tracked(s)
  BY <1>1, <1>6 DEF NumBlocks, FaBlocks, Tracked, N
<1>8. IsFa(u)
  BY <1>6, <1>7, <1>1 DEF FaOK, IsFa, FaBlocks, Tracked, N
<1>9. IsList(u, q)
  BY <1>6, <1>7, <1>1, SMTT(30) DEF FaOK, IsList, Places, Linked, Bounded, N
<1>10. /\ IsFa(v) /\ SameData(u, v) /\ v.bad = u.bad
       /\ IsList(v, r)
  BY <1>1, <1>7, <1>8, <1>9, MovedToHead DEF b, r, v
<1>11. /\ DOMAIN t = FaFields /\ t.c = s.c /\ t.bad = FALSE
       /\ t.head = v.head /\ t.tail = v.tail /\ t.next = v.next /\ t.prev = v.prev
       /\ t.mask = v.mask /\ t.boundaries = v.boundaries
       /\ t.blk = [s.blk EXCEPT ![b] = B] /\ t.inUse = s.inUse + 1
       /\ t.tagHash = [k \in DOMAIN s.tagHash \cup {key} |->
                         IF k = key THEN b ELSE s.tagHash[k]]
  BY <1>5, <1>6, <1>10, SMTT(30) DEF IsFa, FaFields, SameData
<1>12. NumBlocks(t) = N /\ FaBlocks(t) = 1..N /\ Tracked(t) = Tracked(v) /\ NumBlocks(v) = N
       /\ FaBlocks(v) = 1..N
  BY <1>1, <1>6, <1>7, <1>10, <1>11 DEF NumBlocks, FaBlocks, Tracked, SameData, N
<1>13. IsFa(t)
  BY <1>6, <1>10, <1>11, <1>12 DEF IsFa, SameData
<1>14. IsList(t, r)
  BY <1>10, <1>11, <1>12 DEF IsList, Places, Linked, Bounded
<1>15. t.blk[b] = B /\ \A x \in 1..N : x # b => t.blk[x] = s.blk[x]
  BY <1>1, <1>3, <1>11 DEF FaBlocks
<1>16. ValidBlocks(t) = ValidBlocks(s) \cup {b}
  BY <1>1, <1>3, <1>12, <1>15 DEF ValidBlocks
<1>17. keyOf(t, b) = key /\ \A x \in ValidBlocks(s) : keyOf(t, x) = keyOf(s, x)
  BY <1>1, <1>3, <1>15 DEF keyOf, ValidBlocks
<1>18. FaData(t)
  <2>1. \A x \in ValidBlocks(s) : keyOf(s, x) \in DOMAIN s.tagHash /\ keyOf(s, x) # key
    BY DEF FaOK, FaData
  <2>2. DOMAIN t.tagHash = {keyOf(t, x) : x \in ValidBlocks(t)}
    BY <1>11, <1>16, <1>17 DEF FaOK, FaData
  <2>3. \A x \in ValidBlocks(t) : t.tagHash[keyOf(t, x)] = x
    BY <1>11, <1>16, <1>17, <2>1 DEF FaOK, FaData
  <2>4. IsFiniteSet(ValidBlocks(s))
    <3>1. IsFiniteSet(1..N)
      <4>1. 1 \in Int /\ N \in Int
        BY <1>1
      <4> QED
        BY <4>1, FS_Interval
    <3> QED
      BY <1>1, <3>1, FS_Subset DEF ValidBlocks
  <2>5. t.inUse = Cardinality(ValidBlocks(t))
    BY <1>3, <1>11, <1>16, <2>4, FS_AddElement DEF FaOK, FaData
  <2>6. \A x \in FaBlocks(t) : t.blk[x].valid \in BOOLEAN
    <3>1. \A x \in 1..N : s.blk[x].valid \in BOOLEAN
      BY <1>1 DEF FaOK, FaData
    <3>2. B.valid \in BOOLEAN
      OBVIOUS
    <3> HIDE DEF B
    <3> QED
      BY <1>12, <1>15, <3>1, <3>2
  <2> QED
    BY <2>2, <2>3, <2>5, <2>6 DEF FaData
<1>19. Ordered(t, g, r)
  <2>1. t.blk[b].valid
    BY <1>15
  <2>2. \A x \in FaBlocks(s) \ {b} : g[x] = h[x] /\ t.blk[x] = s.blk[x] /\ g[b].op > h[x].op
    BY <1>1, <1>15 DEF b, N
  <2>3. IsFa(s) /\ Places(s, q) /\ Ordered(s, h, q) /\ \A x \in FaBlocks(s) : h[x].op \in Nat
    BY DEF FaOK, IsList
  <2>4. t.c = s.c /\ N \in 1..N
    BY <1>1, <1>11
  <2> QED
    BY <2>1, <2>2, <2>3, <2>4, FrontOrdered DEF b, N, r
<1>20. \A x \in FaBlocks(t) : g[x].op \in Nat
  <2>1. \A x \in 1..N : x # b => g[x] = h[x]
    BY <1>1 DEF b, N
  <2>2. g[b].op \in Nat
    BY DEF b, N
  <2> QED
    BY <1>1, <1>12, <2>1, <2>2 DEF FaOK
<1> QED
  BY <1>11, <1>13, <1>14, <1>18, <1>19, <1>20 DEF FaOK, N, r

-----------------------------------------------------------------------------
(* The invariant of FALRU *)

HistOK ==
  /\ ops \in Nat
  /\ DOMAIN hist = {"e", "search", "streak"}
  /\ DOMAIN hist.e = FaBlocks(tags)
  /\ \A b \in FaBlocks(tags) : /\ DOMAIN hist.e[b] = {"use", "op", "ins", "n"}
                               /\ hist.e[b].op \in 0..ops

FaInv == IsFaLru => HistOK /\ \E q : FaOK(tags, hist.e, q)

(* FALRU starts with its blocks in the order of their numbers.              *)
LEMMA FaInitOK ==
  ASSUME TSInit
  PROVE  tags.c \in Configs /\ FaInv
<1>1. PICK c \in Configs :
        /\ tags = IF c.kind = "falru" THEN faInit(c) ELSE tagsInit(c)
        /\ hist = [e |-> [u \in Units(c) |-> NoHist],
                   search |-> [s \in 0..c.sets - 1 |-> 0],
                   streak |-> [team |-> "none", n |-> 0]]
  BY DEF TSInit
<1>2. tags.c = c
  BY <1>1 DEF faInit, tagsInit
<1>3. ASSUME c.kind = "falru"
      PROVE  HistOK /\ \E q : FaOK(tags, hist.e, q)
  <2> DEFINE N == 2^(c.tracked + 1)
             q == [i \in 1..N |-> i]
             T == 0..c.tracked - 1
  <2>0. c \in FaConfigs
    BY <1>3 DEF FaConfigs
  <2>1. N \in Nat /\ N >= 2 /\ \A k \in T : 2^(k + 1) \in 2..N - 1
    BY <2>0, TrackedSizes
  <2>2. tags = [c |-> c,
       blk   |-> [b \in 1..N |-> NoFaBlk],
       prev  |-> [b \in 1..N |-> b - 1],
       next  |-> [b \in 1..N |-> IF b = N THEN nullptr ELSE b + 1],
       head  |-> 1, tail |-> N,
       mask  |-> [b \in 1..N |-> {i \in T : b <= 2^(i + 1)}],
       boundaries |-> [i \in T |-> 2^(i + 1)],
       tagHash |-> <<>>, inUse |-> 0, bad |-> FALSE]
    BY <1>1, <1>3 DEF faInit, trackingInit
  <2> HIDE DEF N, T
  <2>3. /\ NumBlocks(tags) = N /\ FaBlocks(tags) = 1..N /\ Tracked(tags) = T
    BY <2>2 DEF NumBlocks, FaBlocks, Tracked, N
  <2>4. IsFa(tags)
    BY <2>0, <2>2, <2>3 DEF IsFa, FaFields, T
  <2>5. Places(tags, q)
    BY <2>1, <2>3 DEF Places
  <2>6. Linked(tags, q)
    <3>1. /\ tags.head = q[1] /\ tags.tail = q[N]
      BY <2>1, <2>2
    <3>2. ASSUME NEW i \in 1..N
          PROVE  /\ tags.next[q[i]] = IF i = N THEN nullptr ELSE q[i + 1]
                 /\ tags.prev[q[i]] = IF i = 1 THEN nullptr ELSE q[i - 1]
      <4>1. q[i] = i /\ tags.next[i] = (IF i = N THEN nullptr ELSE i + 1) /\ tags.prev[i] = i - 1
        BY <2>2
      <4>2. i # N => q[i + 1] = i + 1
        BY <2>1
      <4>3. i # 1 => q[i - 1] = i - 1
        BY <2>1
      <4>4. i = 1 => i - 1 = nullptr
        BY DEF nullptr
      <4> HIDE DEF q
      <4> QED
        BY <4>1, <4>2, <4>3, <4>4
    <3> QED
      BY <2>3, <3>1, <3>2 DEF Linked
  <2>7. Bounded(tags, q)
    <3>1. \A i \in 1..N : tags.mask[q[i]] = {k \in T : i <= 2^(k + 1)}
      BY <2>2
    <3>2. \A k \in T : tags.boundaries[k] = q[2^(k + 1)]
      <4> SUFFICES ASSUME NEW k \in T
                   PROVE  tags.boundaries[k] = q[2^(k + 1)]
        OBVIOUS
      <4>1. 2^(k + 1) \in 1..N
        BY <2>1
      <4> QED
        BY <2>2, <4>1
    <3> QED
      BY <2>3, <3>1, <3>2 DEF Bounded
  <2>8. \A b \in 1..N : tags.blk[b].valid = FALSE
    BY <2>2 DEF NoFaBlk
  <2>9. FaData(tags)
    <3>1. ValidBlocks(tags) = {}
      BY <2>3, <2>8 DEF ValidBlocks
    <3>2. Cardinality({}) = 0
      BY FS_EmptySet
    <3>3. DOMAIN tags.tagHash = {} /\ tags.inUse = 0
      BY <2>2
    <3> QED
      BY <2>3, <2>8, <3>1, <3>2, <3>3 DEF FaData
  <2>10. Ordered(tags, hist.e, q)
    BY <2>1, <2>3, <2>8 DEF Ordered
  <2>11. hist.e = [b \in 1..N |-> NoHist] /\ DOMAIN hist = {"e", "search", "streak"}
    BY <1>1, <1>3 DEF Units, N
  <2>12. HistOK
    <3>1. ops = 0
      BY DEF TSInit
    <3>2. \A b \in 1..N : hist.e[b] = NoHist
      BY <2>11
    <3> QED
      BY <2>3, <2>11, <3>1, <3>2 DEF HistOK, NoHist
  <2>13. \A b \in FaBlocks(tags) : hist.e[b].op \in Nat
    BY <2>3, <2>11 DEF NoHist
  <2>14. tags.bad = FALSE
    BY <2>2
  <2> HIDE DEF q
  <2>15. FaOK(tags, hist.e, q)
    BY <2>4, <2>5, <2>6, <2>7, <2>9, <2>10, <2>13, <2>14 DEF FaOK, IsList
  <2> QED
    BY <2>12, <2>15
<1> QED
  BY <1>2, <1>3 DEF FaInv, IsFaLru

(* What an operation does to the accesses so far.                          *)
LEMMA HistNext ==
  ASSUME HistOK, ops' = ops + 1, NEW b \in FaBlocks(tags), NEW h,
         DOMAIN h = {"use", "op", "ins", "n"}, h.op = ops',
         hist' = [hist EXCEPT !.e[b] = h], FaBlocks(tags') = FaBlocks(tags)
  PROVE  /\ HistOK' /\ hist'.e[b].op \in Nat
         /\ \A x \in FaBlocks(tags) \ {b} :
              hist'.e[x] = hist.e[x] /\ hist'.e[b].op > hist.e[x].op
<1>1. /\ DOMAIN hist' = {"e", "search", "streak"}
      /\ hist'.e = [hist.e EXCEPT ![b] = h]
  BY DEF HistOK
<1>2. /\ hist'.e[b] = h /\ DOMAIN hist'.e = FaBlocks(tags)
      /\ \A x \in FaBlocks(tags) \ {b} : hist'.e[x] = hist.e[x]
  BY <1>1 DEF HistOK
<1>3. ops \in Nat /\ \A x \in FaBlocks(tags) : hist.e[x].op \in 0..ops
  BY DEF HistOK
<1>4. HistOK'
  <2>1. \A x \in FaBlocks(tags) : /\ DOMAIN hist'.e[x] = {"use", "op", "ins", "n"}
                                  /\ hist'.e[x].op \in 0..ops'
    <3> SUFFICES ASSUME NEW x \in FaBlocks(tags)
                 PROVE  /\ DOMAIN hist'.e[x] = {"use", "op", "ins", "n"}
                        /\ hist'.e[x].op \in 0..ops'
      OBVIOUS
    <3>1. CASE x = b
      BY <1>2, <1>3, <3>1
    <3>2. CASE x # b
      BY <1>2, <1>3, <3>2 DEF HistOK
    <3> QED
      BY <3>1, <3>2
  <2> QED
    BY <1>1, <1>2, <1>3, <2>1 DEF HistOK
<1> QED
  BY <1>2, <1>3, <1>4

(* A hit moves a block to the head (accessBlock).                           *)
LEMMA FaHitStep ==
  ASSUME tags.c \in Configs, FaInv, NEW key \in tags.c.keys, FaHit(key)
  PROVE  tags'.c = tags.c /\ FaInv'
<1>1. PICK q : FaOK(tags, hist.e, q)
  BY DEF FaInv, FaHit
<1> DEFINE b == faFindBlock(tags, key)
           h == Used(hist.e[b])
<1>2. /\ b # nullptr /\ tags' = faAccessBlock(tags, b)
      /\ hist' = [hist EXCEPT !.e[b] = Used(@)] /\ ops' = ops + 1 /\ HistOK
  BY DEF FaHit, Tick, FaInv
<1>3. b \in ValidBlocks(tags)
  BY <1>1, <1>2 DEF FaOK, FaData, faFindBlock
<1> HIDE DEF b
<1>4. b \in FaBlocks(tags) /\ tags.blk[b].valid
  BY <1>3 DEF ValidBlocks
<1>5. PICK m \in 1..NumBlocks(tags) : q[m] = b
  BY <1>1, <1>4 DEF FaOK, IsList, Places
<1>6. hist' = [hist EXCEPT !.e[b] = h]
  BY <1>2, <1>4 DEF HistOK
<1>7. DOMAIN h = {"use", "op", "ins", "n"} /\ h.op = ops'
  BY <1>2, <1>4 DEF HistOK, Used
<1> HIDE DEF h
<1>8. tags' = moveToHead(tags, b)
  BY <1>2, <1>4 DEF faAccessBlock
<1>9. IsFa(tags) /\ IsList(tags, q)
  BY <1>1 DEF FaOK
<1>10. SameData(tags, tags')
  BY <1>5, <1>8, <1>9, MovedToHead
<1>11. FaBlocks(tags') = FaBlocks(tags)
  BY <1>10 DEF SameData, FaBlocks
<1>12. /\ HistOK' /\ hist'.e[b].op \in Nat
       /\ \A x \in FaBlocks(tags) \ {b} :
            hist'.e[x] = hist.e[x] /\ hist'.e[b].op > hist.e[x].op
  BY <1>2, <1>4, <1>6, <1>7, <1>11, HistNext
<1>13. FaOK(tags', hist'.e, Fronted(q, m, NumBlocks(tags))) /\ tags'.c = tags.c
  <2>1. tags' = faAccessBlock(tags, q[m]) /\ tags.blk[q[m]].valid
    BY <1>2, <1>4, <1>5
  <2>2. /\ hist'.e[q[m]].op \in Nat
        /\ \A x \in FaBlocks(tags) \ {q[m]} :
             hist'.e[x] = hist.e[x] /\ hist'.e[q[m]].op > hist.e[x].op
    BY <1>5, <1>12
  <2> DEFINE g == hist'.e
  <2>3. /\ g[q[m]].op \in Nat
        /\ \A x \in FaBlocks(tags) \ {q[m]} : g[x] = hist.e[x] /\ g[q[m]].op > hist.e[x].op
    BY <2>2
  <2> HIDE DEF g
  <2>4. FaOK(tags', g, Fronted(q, m, NumBlocks(tags))) /\ tags'.c = tags.c
    BY <1>1, <2>1, <2>3, FaUsed
  <2> QED
    BY <2>4 DEF g
<1> QED
  BY <1>12, <1>13 DEF FaInv

(* A miss takes the block at the tail and moves it to the head              *)
(* (findVictim, insertBlock).                                               *)
LEMMA FaMissStep ==
  ASSUME tags.c \in Configs, FaInv, NEW key \in tags.c.keys, FaMiss(key)
  PROVE  tags'.c = tags.c /\ FaInv'
<1>1. PICK q : FaOK(tags, hist.e, q)
  BY DEF FaInv, FaMiss
<1> DEFINE N == NumBlocks(tags)
           v == tags.tail
           h == Inserted(hist.e[v])
           s == IF tags.blk[v].valid THEN faInvalidate(tags, v) ELSE tags
<1>2. /\ faFindBlock(tags, key) = nullptr /\ tags' = faInsertBlock(s, v, key)
      /\ hist' = [hist EXCEPT !.e[v] = Inserted(@)] /\ ops' = ops + 1 /\ HistOK
  BY DEF FaMiss, faAllocateBlock, Tick, FaInv
<1>3. N \in Nat /\ N >= 2 /\ N \in 1..N /\ FaBlocks(tags) = 1..N
  BY <1>1, Sizes2 DEF FaOK, IsFa
<1>4. v = q[N] /\ v \in 1..N
  BY <1>1, <1>3 DEF FaOK, IsList, Linked, Places
<1>5. key \notin DOMAIN tags.tagHash
  <2>1. \A k \in DOMAIN tags.tagHash : tags.tagHash[k] \in 1..N
    BY <1>1, <1>3 DEF FaOK, FaData, ValidBlocks
  <2> QED
    BY <1>2, <1>3, <2>1 DEF faFindBlock, nullptr
<1>6. key = [addr |-> key.addr, secure |-> key.secure]
  BY ConfigsAssumption
<1> HIDE DEF N, v, s
<1>7. PICK p : /\ FaOK(s, hist.e, p) /\ s.c = tags.c /\ p[N] = v /\ ~s.blk[v].valid
               /\ FaBlocks(s) = 1..N
               /\ DOMAIN s.tagHash \subseteq DOMAIN tags.tagHash
  <2>1. CASE tags.blk[v].valid
    <3>1. s = faInvalidate(tags, q[N])
      BY <1>4, <2>1 DEF s, v
    <3>2. tags.blk[q[N]].valid /\ N \in 1..NumBlocks(tags)
      BY <1>3, <1>4, <2>1 DEF N
    <3>3. /\ FaOK(s, hist.e, Backed(q, N, N)) /\ s.c = tags.c
          /\ s.blk = [tags.blk EXCEPT ![q[N]] = NoFaBlk]
          /\ DOMAIN s.tagHash \subseteq DOMAIN tags.tagHash
      BY <1>1, <3>1, <3>2, FaInvalidated DEF N
    <3>4. Backed(q, N, N)[N] = v
      BY <1>3, <1>4 DEF Backed, BackFrom
    <3>5. ~s.blk[v].valid
      BY <1>3, <1>4, <3>3 DEF FaBlocks, NoFaBlk
    <3>6. FaBlocks(s) = 1..N
      BY <1>3, <3>3 DEF FaBlocks
    <3> QED
      BY <3>3, <3>4, <3>5, <3>6
  <2>2. CASE ~tags.blk[v].valid
    BY <1>1, <1>3, <1>4, <2>2 DEF s
  <2> QED
    BY <2>1, <2>2
<1>8. NumBlocks(s) = N
  BY <1>7 DEF NumBlocks, N
<1>9. DOMAIN h = {"use", "op", "ins", "n"} /\ h.op = ops'
  BY DEF Inserted
<1>10. hist' = [hist EXCEPT !.e[v] = h]
  BY <1>2, <1>3, <1>4 DEF HistOK, Inserted
<1> HIDE DEF h
<1>11. DOMAIN (hist.e) = 1..N
  BY <1>2, <1>3 DEF HistOK
<1>12. /\ hist'.e[v].op \in Nat
       /\ \A x \in 1..N : x # v => hist'.e[x] = hist.e[x] /\ hist'.e[v].op > hist.e[x].op
  <2>1. hist'.e = [hist.e EXCEPT ![v] = h]
    BY <1>2, <1>10 DEF HistOK
  <2>2. hist'.e[v] = h /\ \A x \in 1..N : x # v => hist'.e[x] = hist.e[x]
    BY <1>4, <1>11, <2>1
  <2>3. ops \in Nat /\ \A x \in 1..N : hist.e[x].op \in 0..ops
    BY <1>2, <1>3 DEF HistOK
  <2> QED
    BY <1>2, <1>9, <2>2, <2>3
<1>13. FaOK(tags', hist'.e, Fronted(p, N, N)) /\ tags'.c = s.c
  <2>1. key \notin DOMAIN s.tagHash
    BY <1>5, <1>7
  <2>2. \A x \in FaBlocks(s) \ {v} : hist'.e[x] = hist.e[x] /\ hist'.e[v].op > hist.e[x].op
    BY <1>7, <1>12
  <2>3. tags' = faInsertBlock(s, p[N], key) /\ ~s.blk[p[N]].valid
    BY <1>2, <1>7
  <2>4. hist'.e[v].op \in Nat /\ p[N] = v
    BY <1>7, <1>12
  <2> DEFINE g == hist'.e
  <2>5. /\ g[p[N]].op \in Nat
        /\ \A x \in FaBlocks(s) \ {p[N]} : g[x] = hist.e[x] /\ g[p[N]].op > hist.e[x].op
    BY <2>2, <2>4
  <2>6. FaOK(s, hist.e, p) /\ NumBlocks(s) = N
    BY <1>7, <1>8
  <2> HIDE DEF g
  <2>7. FaOK(tags', g, Fronted(p, NumBlocks(s), NumBlocks(s))) /\ tags'.c = s.c
    BY <1>6, <2>1, <2>3, <2>5, <2>6, FaInserted
  <2> QED
    BY <2>6, <2>7 DEF g
<1>14. FaBlocks(tags') = FaBlocks(tags)
  <2>1. IsFa(tags')
    BY <1>13 DEF FaOK
  <2>2. NumBlocks(tags') = N
    BY <1>7, <1>13 DEF NumBlocks, N
  <2> QED
    BY <1>3, <2>1, <2>2 DEF IsFa
<1>15. HistOK'
  BY <1>2, <1>3, <1>4, <1>9, <1>10, <1>14, HistNext
<1> QED
  BY <1>7, <1>13, <1>15 DEF FaInv

(* An invalidated block goes to the tail (invalidate).                      *)
LEMMA FaInvalidateStep ==
  ASSUME tags.c \in Configs, FaInv, NEW b \in FaBlocks(tags), FaInvalidate(b)
  PROVE  tags'.c = tags.c /\ FaInv'
<1>1. PICK q : FaOK(tags, hist.e, q)
  BY DEF FaInv, FaInvalidate
<1>2. /\ tags.blk[b].valid /\ tags' = faInvalidate(tags, b)
      /\ hist' = hist /\ ops' = ops + 1 /\ HistOK
  BY DEF FaInvalidate, Tick, FaInv
<1>3. PICK m \in 1..NumBlocks(tags) : q[m] = b
  BY <1>1 DEF FaOK, IsList, Places
<1>4. /\ FaOK(tags', hist.e, Backed(q, m, NumBlocks(tags))) /\ tags'.c = tags.c
      /\ tags'.blk = [tags.blk EXCEPT ![b] = NoFaBlk]
  BY <1>1, <1>2, <1>3, FaInvalidated
<1>5. FaBlocks(tags') = FaBlocks(tags)
  BY <1>4 DEF FaBlocks
<1>6. HistOK'
  <2>1. \A x \in FaBlocks(tags) : hist'.e[x].op \in 0..ops'
    BY <1>2, SMTT(30) DEF HistOK
  <2> QED
    BY <1>2, <1>5, <2>1 DEF HistOK
<1> QED
  BY <1>2, <1>4, <1>6 DEF FaInv

(* The list of the invariant is the one that FaLruTracked walks along.      *)
LEMMA FaTracked ==
  ASSUME tags.c \in Configs, FaInv
  PROVE  FaLruTracked
<1> SUFFICES ASSUME IsFaLru
             PROVE  FaLruTracked
  BY DEF FaLruTracked
<1>1. PICK q : FaOK(tags, hist.e, q)
  BY DEF FaInv
<1> DEFINE N == Cardinality(FaBlocks(tags))
           at[i \in 1..N] == IF i = 1 THEN tags.head
                             ELSE IF at[i - 1] = nullptr THEN nullptr ELSE tags.next[at[i - 1]]
<1>2. NumBlocks(tags) \in Nat /\ NumBlocks(tags) >= 2 /\ FaBlocks(tags) = 1..NumBlocks(tags)
      /\ \A k \in Tracked(tags) : 2^(k + 1) \in 2..NumBlocks(tags) - 1
  BY <1>1, Sizes2 DEF FaOK, IsFa
<1>3. N = NumBlocks(tags)
  <2>1. Cardinality(1..NumBlocks(tags)) = NumBlocks(tags)
    <3>1. 1 \in Int /\ NumBlocks(tags) \in Int /\ ~(1 > NumBlocks(tags))
      BY <1>2
    <3>2. Cardinality(1..NumBlocks(tags)) = NumBlocks(tags) - 1 + 1
      BY <3>1, FS_Interval
    <3> QED
      BY <1>2, <3>2
  <2> QED
    BY <1>2, <2>1
<1> HIDE DEF N
<1>4. /\ q \in [1..N -> 1..N] /\ \A i, j \in 1..N : q[i] = q[j] => i = j
      /\ \A b \in 1..N : \E i \in 1..N : q[i] = b
  BY <1>1, <1>2, <1>3 DEF FaOK, IsList, Places
<1>5. /\ tags.head = q[1] /\ tags.tail = q[N]
      /\ \A i \in 1..N : /\ tags.next[q[i]] = IF i = N THEN nullptr ELSE q[i + 1]
                         /\ tags.prev[q[i]] = IF i = 1 THEN nullptr ELSE q[i - 1]
  BY <1>1, <1>3 DEF FaOK, IsList, Linked
<1>6. /\ \A i \in 1..N : tags.mask[q[i]] = {k \in Tracked(tags) : i <= 2^(k + 1)}
      /\ \A k \in Tracked(tags) : tags.boundaries[k] = q[2^(k + 1)]
  BY <1>1, <1>3 DEF FaOK, IsList, Bounded
<1>7. \A i \in 2..N : tags.blk[q[i]].valid
                        => tags.blk[q[i - 1]].valid /\ hist.e[q[i - 1]].op > hist.e[q[i]].op
  BY <1>1, <1>3 DEF FaOK, Ordered
<1> DEFINE follow(g, i) == IF i = 1 THEN tags.head
                           ELSE IF g[i - 1] = nullptr THEN nullptr ELSE tags.next[g[i - 1]]
<1>8. \A i \in 1..N : q[i] = follow(q, i)
  <2> SUFFICES ASSUME NEW i \in 1..N
               PROVE  q[i] = follow(q, i)
    OBVIOUS
  <2>1. CASE i = 1
    BY <1>5, <2>1
  <2>2. CASE i # 1
    <3>1. i - 1 \in 1..N /\ i - 1 # N /\ (i - 1) + 1 = i
      BY <1>2, <1>3, <2>2
    <3>2. q[i - 1] # nullptr
      <4>1. q[i - 1] \in 1..N
        BY <1>4, <3>1
      <4> QED
        BY <1>2, <1>3, <4>1 DEF nullptr
    <3>3. tags.next[q[i - 1]] = q[i]
      BY <1>5, <3>1
    <3> QED
      BY <2>2, <3>2, <3>3
  <2> QED
    BY <2>1, <2>2
<1>9. at = [i \in 1..N |-> follow(at, i)]
  <2>1. q = [i \in 1..N |-> follow(q, i)]
    <3>1. q = [i \in 1..N |-> q[i]]
      BY <1>4
    <3> HIDE DEF follow
    <3> QED
      BY <1>8, <3>1
  <2> QED
    BY <2>1
<1> HIDE DEF at
<1>10. \A i \in 1..N : at[i] = q[i]
  <2> DEFINE G == {n \in Nat : n + 1 <= N => at[n + 1] = q[n + 1]}
  <2>0. \A i \in 1..N : at[i] = follow(at, i)
    <3> HIDE DEF follow
    <3> QED
      BY <1>9
  <2>1. 0 \in G
    <3>1. 1 \in 1..N
      BY <1>2, <1>3
    <3>2. at[1] = tags.head
      BY <2>0, <3>1
    <3> QED
      BY <1>5, <3>2
  <2>2. \A n \in Nat : n \in G => n + 1 \in G
    <3> SUFFICES ASSUME NEW n \in Nat, n \in G, (n + 1) + 1 <= N
                 PROVE  at[(n + 1) + 1] = q[(n + 1) + 1]
      OBVIOUS
    <3> DEFINE j == (n + 1) + 1
    <3>1. at[n + 1] = q[n + 1]
      BY <1>2, <1>3
    <3>2. j \in 1..N /\ j # 1 /\ j - 1 = n + 1
      BY <1>2, <1>3
    <3> HIDE DEF j
    <3>3. follow(at, j) = follow(q, j)
      BY <3>1, <3>2
    <3>4. at[j] = follow(at, j) /\ q[j] = follow(q, j)
      <4> HIDE DEF follow
      <4> QED
        BY <1>8, <2>0, <3>2
    <3>5. at[j] = q[j]
      BY <3>3, <3>4
    <3> QED
      BY <3>5 DEF j
  <2>3. Nat \subseteq G
    <3> HIDE DEF G
    <3> QED
      BY <2>1, <2>2, Inductive
  <2>4. \A i \in 1..N : i - 1 \in Nat /\ (i - 1) + 1 = i /\ (i - 1) + 1 <= N
    BY <1>2, <1>3
  <2>5. \A n \in Nat : n + 1 <= N => at[n + 1] = q[n + 1]
    BY <2>3
  <2> HIDE DEF G
  <2> SUFFICES ASSUME NEW i \in 1..N
               PROVE  at[i] = q[i]
    OBVIOUS
  <2>6. at[(i - 1) + 1] = q[(i - 1) + 1]
    BY <2>4, <2>5
  <2> QED
    BY <2>4, <2>6
<1>11. at = q
  <2>1. at = [i \in 1..N |-> at[i]]
    <3> HIDE DEF follow
    <3> QED
      BY <1>9
  <2>2. q = [i \in 1..N |-> q[i]]
    BY <1>4
  <2> QED
    BY <1>10, <2>1, <2>2
<1>12. 1 \in 1..N /\ N \in 1..N
  BY <1>2, <1>3
<1>13. {at[i] : i \in 1..N} = FaBlocks(tags) /\ at[N] = tags.tail
  <2>1. FaBlocks(tags) = 1..N
    BY <1>2, <1>3
  <2>2. \A x : x \in {q[i] : i \in 1..N} <=> x \in 1..N
    BY <1>4
  <2> QED
    BY <1>5, <1>11, <2>1, <2>2
<1>14. tags.next[tags.tail] = nullptr /\ tags.prev[tags.head] = nullptr
  BY <1>5, <1>12
<1>15. \A i \in 2..N :
         /\ tags.prev[at[i]] = at[i - 1]
         /\ tags.blk[at[i]].valid =>
              tags.blk[at[i - 1]].valid /\ hist.e[at[i - 1]].op > hist.e[at[i]].op
  <2>1. \A i \in 2..N : i \in 1..N /\ i # 1
    BY <1>2, <1>3
  <2> QED
    BY <1>5, <1>7, <1>11, <2>1
<1>16. /\ \A i \in 1..N : tags.mask[at[i]] = {k \in Tracked(tags) : i <= 2^(k + 1)}
       /\ \A k \in Tracked(tags) : tags.boundaries[k] = at[2^(k + 1)]
  BY <1>6, <1>11
<1> QED
  BY <1>13, <1>14, <1>15, <1>16, ZenonT(60) DEF FaLruTracked, N, at

(* The hash leads to each valid block and to nothing else.                  *)
LEMMA FaExact ==
  ASSUME FaInv, IsFaLru
  PROVE  OneCopy /\ CountsExact /\ TagsAssertionsHold
<1>1. PICK q : FaOK(tags, hist.e, q)
  BY DEF FaInv
<1>2. \A b \in FaBlocks(tags) : tags.blk[b].valid =>
        keyOf(tags, b) \in DOMAIN tags.tagHash /\ tags.tagHash[keyOf(tags, b)] = b
  BY <1>1 DEF FaOK, FaData, ValidBlocks
<1>3. OneCopy
  BY <1>2 DEF OneCopy, faFindBlock
<1>4. CountsExact
  BY <1>1 DEF CountsExact, FaOK, FaData, ValidBlocks
<1>5. TagsAssertionsHold
  BY <1>1 DEF TagsAssertionsHold, FaOK
<1> QED
  BY <1>3, <1>4, <1>5

-----------------------------------------------------------------------------
(* The replacement policies *)

DataFields == {"tick", "n", "occ", "valid", "chance", "rrpv", "sig", "out"}
DataOK(x) == /\ DOMAIN x = DataFields
             /\ x.tick \in Int /\ x.n \in Int /\ x.rrpv \in Int /\ x.occ = 0

RpFields == {"pol", "ways", "d", "ticks", "shct", "tree"}
PlainOK(R, E, n) ==
  /\ DOMAIN R = RpFields
  /\ R.pol \in PlainPolicies /\ R.ways = n /\ R.ticks \in Int
  /\ DOMAIN R.d = E /\ \A e \in E : DataOK(R.d[e])

(* The record of one entry changes.                                        *)
LEMMA DataChanged ==
  ASSUME NEW E, NEW n, NEW R, PlainOK(R, E, n), NEW e \in E, NEW x, DataOK(x), NEW S,
         DOMAIN S = RpFields, S.pol = R.pol, S.ways = R.ways, S.ticks \in Int,
         S.d = [R.d EXCEPT ![e] = x]
  PROVE  PlainOK(S, E, n) /\ S.pol = R.pol
BY DEF PlainOK

(* invalidate of each policy keeps the shape of its data.                   *)
LEMMA BaseInvalidated ==
  ASSUME NEW E, NEW n, NEW R, PlainOK(R, E, n), NEW e \in E
  PROVE  PlainOK(baseInvalidate(R, e), E, n) /\ baseInvalidate(R, e).pol = R.pol
<1> DEFINE S == baseInvalidate(R, e)
           x == R.d[e]
<1>1. DataOK(x) /\ DOMAIN x = DataFields /\ DOMAIN R = RpFields /\ R.ticks \in Int /\ DOMAIN R.d = E
  BY DEF PlainOK, DataOK
<1>2. ASSUME R.pol \in {"LRU", "WeightedLRU", "BIP", "MRU", "FIFO"}
      PROVE  PlainOK(S, E, n) /\ S.pol = R.pol
  <2>1. S = SetTick(R, e, 0)
    BY <1>2 DEF baseInvalidate, lruInvalidate, mruInvalidate, fifoInvalidate
  <2>2. DataOK([x EXCEPT !.tick = 0])
    BY <1>1 DEF DataOK, DataFields
  <2>3. /\ DOMAIN S = RpFields /\ S.pol = R.pol /\ S.ways = R.ways /\ S.ticks \in Int
        /\ S.d = [R.d EXCEPT ![e] = [x EXCEPT !.tick = 0]]
    BY <1>1, <2>1 DEF SetTick, RpFields, DataFields
  <2> HIDE DEF S
  <2> QED
    BY <2>2, <2>3, DataChanged
<1>3. ASSUME R.pol = "LFU"
      PROVE  PlainOK(S, E, n) /\ S.pol = R.pol
  <2>1. S = lfuInvalidate(R, e)
    BY <1>3 DEF baseInvalidate
  <2>2. DataOK([x EXCEPT !.n = 0])
    BY <1>1 DEF DataOK, DataFields
  <2>3. /\ DOMAIN S = RpFields /\ S.pol = R.pol /\ S.ways = R.ways /\ S.ticks \in Int
        /\ S.d = [R.d EXCEPT ![e] = [x EXCEPT !.n = 0]]
    BY <1>1, <2>1 DEF lfuInvalidate, RpFields, DataFields
  <2> HIDE DEF S
  <2> QED
    BY <2>2, <2>3, DataChanged
<1>4. ASSUME R.pol \in {"Random", "BRRIP"}
      PROVE  PlainOK(S, E, n) /\ S.pol = R.pol
  <2>1. S = [R EXCEPT !.d[e].valid = FALSE]
    BY <1>4 DEF baseInvalidate, randomInvalidate, brripInvalidate
  <2>2. DataOK([x EXCEPT !.valid = FALSE])
    BY <1>1 DEF DataOK, DataFields
  <2>3. /\ DOMAIN S = RpFields /\ S.pol = R.pol /\ S.ways = R.ways /\ S.ticks \in Int
        /\ S.d = [R.d EXCEPT ![e] = [x EXCEPT !.valid = FALSE]]
    BY <1>1, <2>1 DEF RpFields, DataFields
  <2> HIDE DEF S
  <2> QED
    BY <2>2, <2>3, DataChanged
<1>5. ASSUME R.pol = "SecondChance"
      PROVE  PlainOK(S, E, n) /\ S.pol = R.pol
  <2>1. S = [SetTick(R, e, 0) EXCEPT !.d[e].chance = FALSE]
    BY <1>5 DEF baseInvalidate, secondChanceInvalidate, fifoInvalidate
  <2>2. DataOK([x EXCEPT !.tick = 0, !.chance = FALSE])
    BY <1>1 DEF DataOK, DataFields
  <2>3. /\ DOMAIN S = RpFields /\ S.pol = R.pol /\ S.ways = R.ways /\ S.ticks \in Int
        /\ S.d = [R.d EXCEPT ![e] = [x EXCEPT !.tick = 0, !.chance = FALSE]]
    BY <1>1, <2>1, ZenonT(60) DEF SetTick, RpFields, DataFields
  <2> HIDE DEF S
  <2> QED
    BY <2>2, <2>3, DataChanged
<1>6. ASSUME R.pol = "SHiP"
      PROVE  PlainOK(S, E, n) /\ S.pol = R.pol
  <2>1. S = shipInvalidate(R, e)
    BY <1>6 DEF baseInvalidate
  <2>2. DataOK([x EXCEPT !.valid = FALSE])
    BY <1>1 DEF DataOK, DataFields
  <2>3. /\ DOMAIN S = RpFields /\ S.pol = R.pol /\ S.ways = R.ways /\ S.ticks \in Int
        /\ S.d = [R.d EXCEPT ![e] = [x EXCEPT !.valid = FALSE]]
    BY <1>1, <2>1 DEF shipInvalidate, brripInvalidate, RpFields, DataFields
  <2> HIDE DEF S
  <2> QED
    BY <2>2, <2>3, DataChanged
<1>7. ASSUME R.pol = "TreePLRU"
      PROVE  PlainOK(S, E, n) /\ S.pol = R.pol
  <2>1. S = treeInvalidate(R, e)
    BY <1>7 DEF baseInvalidate
  <2> QED
    BY <1>1, <2>1 DEF treeInvalidate, RpFields, PlainOK
<1>8. R.pol \in PlainPolicies
  BY DEF PlainOK
<1> QED
  BY <1>2, <1>3, <1>4, <1>5, <1>6, <1>7, <1>8 DEF PlainPolicies

(* touch of each policy keeps the shape of its data.                        *)
LEMMA BaseTouched ==
  ASSUME NEW E, NEW n, NEW R, PlainOK(R, E, n), NEW e \in E, NEW tick \in Int, NEW sig
  PROVE  PlainOK(baseTouch(R, e, tick, sig), E, n) /\ baseTouch(R, e, tick, sig).pol = R.pol
<1> DEFINE S == baseTouch(R, e, tick, sig)
           x == R.d[e]
<1>1. DataOK(x) /\ DOMAIN x = DataFields /\ DOMAIN R = RpFields /\ R.ticks \in Int /\ DOMAIN R.d = E
  BY DEF PlainOK, DataOK
<1>2. ASSUME R.pol \in {"LRU", "WeightedLRU", "BIP", "MRU"}
      PROVE  PlainOK(S, E, n) /\ S.pol = R.pol
  <2>1. S = SetTick(R, e, tick)
    BY <1>2 DEF baseTouch, lruTouch, mruTouch
  <2>2. DataOK([x EXCEPT !.tick = tick])
    BY <1>1 DEF DataOK, DataFields
  <2>3. /\ DOMAIN S = RpFields /\ S.pol = R.pol /\ S.ways = R.ways /\ S.ticks \in Int
        /\ S.d = [R.d EXCEPT ![e] = [x EXCEPT !.tick = tick]]
    BY <1>1, <2>1 DEF SetTick, RpFields, DataFields
  <2> HIDE DEF S
  <2> QED
    BY <2>2, <2>3, DataChanged
<1>3. ASSUME R.pol = "LFU"
      PROVE  PlainOK(S, E, n) /\ S.pol = R.pol
  <2>1. S = lfuTouch(R, e)
    BY <1>3 DEF baseTouch
  <2>2. DataOK([x EXCEPT !.n = @ + 1])
    BY <1>1 DEF DataOK, DataFields
  <2>3. /\ DOMAIN S = RpFields /\ S.pol = R.pol /\ S.ways = R.ways /\ S.ticks \in Int
        /\ S.d = [R.d EXCEPT ![e] = [x EXCEPT !.n = @ + 1]]
    BY <1>1, <2>1 DEF lfuTouch, RpFields, DataFields
  <2> HIDE DEF S
  <2> QED
    BY <2>2, <2>3, DataChanged
<1>4. ASSUME R.pol \in {"Random", "FIFO"}
      PROVE  PlainOK(S, E, n) /\ S.pol = R.pol
  BY <1>4 DEF baseTouch, fifoTouch
<1>5. ASSUME R.pol = "SecondChance"
      PROVE  PlainOK(S, E, n) /\ S.pol = R.pol
  <2>1. S = [R EXCEPT !.d[e].chance = TRUE]
    BY <1>5 DEF baseTouch, secondChanceTouch, fifoTouch
  <2>2. DataOK([x EXCEPT !.chance = TRUE])
    BY <1>1 DEF DataOK, DataFields
  <2>3. /\ DOMAIN S = RpFields /\ S.pol = R.pol /\ S.ways = R.ways /\ S.ticks \in Int
        /\ S.d = [R.d EXCEPT ![e] = [x EXCEPT !.chance = TRUE]]
    BY <1>1, <2>1 DEF RpFields, DataFields
  <2> HIDE DEF S
  <2> QED
    BY <2>2, <2>3, DataChanged
<1>6. ASSUME R.pol \in {"BRRIP", "SHiP"}
      PROVE  PlainOK(S, E, n) /\ S.pol = R.pol
  <2>1. CASE R.pol = "BRRIP"
    <3>1. S = brripTouch(R, e)
      BY <2>1 DEF baseTouch
    <3>2. DataOK([x EXCEPT !.rrpv = IF HitPriority THEN 0 ELSE dec(@)])
      BY <1>1 DEF DataOK, DataFields, dec
    <3> QED
      BY <1>1, <3>1, <3>2, DataChanged DEF brripTouch, RpFields
  <2>2. CASE R.pol = "SHiP"
    <3>1. S = shipTouch(R, e, sig)
      BY <2>2 DEF baseTouch
    <3>2. DataOK([x EXCEPT !.out = TRUE, !.rrpv = IF HitPriority THEN 0 ELSE dec(@)])
      BY <1>1 DEF DataOK, DataFields, dec
    <3>3. /\ DOMAIN S = RpFields /\ S.pol = R.pol /\ S.ways = R.ways /\ S.ticks \in Int
          /\ S.d = [R.d EXCEPT ![e] =
                      [x EXCEPT !.out = TRUE, !.rrpv = IF HitPriority THEN 0 ELSE dec(@)]]
      <4> DEFINE F == [R EXCEPT !.shct[sig] = inc(@, RrpvBits), !.d[e].out = TRUE]
                 y == [x EXCEPT !.out = TRUE]
      <4>1. /\ DOMAIN F = RpFields /\ F.pol = R.pol /\ F.ways = R.ways /\ F.ticks \in Int
            /\ F.d = [R.d EXCEPT ![e] = y]
        BY <1>1 DEF RpFields
      <4>2. S = [F EXCEPT !.d[e].rrpv = IF HitPriority THEN 0 ELSE dec(@)]
        BY <3>1 DEF shipTouch, brripTouch
      <4> HIDE DEF F
      <4>3. F.d[e] = y
        BY <1>1, <4>1
      <4>4. S.d = [F.d EXCEPT ![e] = [y EXCEPT !.rrpv = IF HitPriority THEN 0 ELSE dec(@)]]
        BY <1>1, <4>1, <4>2, <4>3 DEF RpFields
      <4>5. [y EXCEPT !.rrpv = IF HitPriority THEN 0 ELSE dec(@)]
              = [x EXCEPT !.out = TRUE, !.rrpv = IF HitPriority THEN 0 ELSE dec(@)]
        BY <1>1 DEF DataFields
      <4> HIDE DEF y
      <4>6. DOMAIN S = RpFields /\ S.pol = R.pol /\ S.ways = R.ways /\ S.ticks \in Int
        BY <4>1, <4>2 DEF RpFields
      <4>7. S.d = [R.d EXCEPT ![e] = [y EXCEPT !.rrpv = IF HitPriority THEN 0 ELSE dec(@)]]
        BY <1>1, <4>1, <4>4
      <4> QED
        BY <4>5, <4>6, <4>7
    <3> HIDE DEF S
    <3> QED
      BY <3>2, <3>3, DataChanged
  <2> QED
    BY <1>6, <2>1, <2>2
<1>7. ASSUME R.pol = "TreePLRU"
      PROVE  PlainOK(S, E, n) /\ S.pol = R.pol
  <2>1. S = treeTouch(R, e)
    BY <1>7 DEF baseTouch
  <2> QED
    BY <1>1, <2>1 DEF treeTouch, RpFields, PlainOK
<1>8. R.pol \in PlainPolicies
  BY DEF PlainOK
<1> QED
  BY <1>2, <1>3, <1>4, <1>5, <1>6, <1>7, <1>8 DEF PlainPolicies

(* reset of each policy keeps the shape of its data.                        *)
LEMMA BaseReset ==
  ASSUME NEW E, NEW n, NEW R, PlainOK(R, E, n), NEW e \in E, NEW tick \in Int, NEW sig, NEW rnd
  PROVE  /\ PlainOK(baseReset(R, e, tick, sig, rnd), E, n)
         /\ baseReset(R, e, tick, sig, rnd).pol = R.pol
<1> DEFINE S == baseReset(R, e, tick, sig, rnd)
           x == R.d[e]
           max == maxVal(RrpvBits)
<1>1. DataOK(x) /\ DOMAIN x = DataFields /\ DOMAIN R = RpFields /\ R.ticks \in Int /\ DOMAIN R.d = E
  BY DEF PlainOK, DataOK
<1>2. ASSUME R.pol \in {"LRU", "WeightedLRU", "BIP", "MRU"}
      PROVE  PlainOK(S, E, n) /\ S.pol = R.pol
  <2>1. PICK t \in Int : S = SetTick(R, e, t)
    BY <1>2 DEF baseReset, lruReset, mruReset, bipReset
  <2>2. DataOK([x EXCEPT !.tick = t])
    BY <1>1 DEF DataOK, DataFields
  <2>3. /\ DOMAIN S = RpFields /\ S.pol = R.pol /\ S.ways = R.ways /\ S.ticks \in Int
        /\ S.d = [R.d EXCEPT ![e] = [x EXCEPT !.tick = t]]
    BY <1>1, <2>1 DEF SetTick, RpFields, DataFields
  <2> HIDE DEF S
  <2> QED
    BY <2>2, <2>3, DataChanged
<1>3. ASSUME R.pol = "LFU"
      PROVE  PlainOK(S, E, n) /\ S.pol = R.pol
  <2>1. S = lfuReset(R, e)
    BY <1>3 DEF baseReset
  <2>2. DataOK([x EXCEPT !.n = 1])
    BY <1>1 DEF DataOK, DataFields
  <2>3. /\ DOMAIN S = RpFields /\ S.pol = R.pol /\ S.ways = R.ways /\ S.ticks \in Int
        /\ S.d = [R.d EXCEPT ![e] = [x EXCEPT !.n = 1]]
    BY <1>1, <2>1 DEF lfuReset, RpFields, DataFields
  <2> HIDE DEF S
  <2> QED
    BY <2>2, <2>3, DataChanged
<1>4. ASSUME R.pol = "Random"
      PROVE  PlainOK(S, E, n) /\ S.pol = R.pol
  <2>1. S = randomReset(R, e)
    BY <1>4 DEF baseReset
  <2>2. DataOK([x EXCEPT !.valid = TRUE])
    BY <1>1 DEF DataOK, DataFields
  <2>3. /\ DOMAIN S = RpFields /\ S.pol = R.pol /\ S.ways = R.ways /\ S.ticks \in Int
        /\ S.d = [R.d EXCEPT ![e] = [x EXCEPT !.valid = TRUE]]
    BY <1>1, <2>1 DEF randomReset, RpFields, DataFields
  <2> HIDE DEF S
  <2> QED
    BY <2>2, <2>3, DataChanged
<1>5. ASSUME R.pol = "FIFO"
      PROVE  PlainOK(S, E, n) /\ S.pol = R.pol
  <2>1. S = fifoReset(R, e)
    BY <1>5 DEF baseReset
  <2>2. DataOK([x EXCEPT !.tick = R.ticks + 1])
    BY <1>1 DEF DataOK, DataFields
  <2>3. /\ DOMAIN S = RpFields /\ S.pol = R.pol /\ S.ways = R.ways /\ S.ticks \in Int
        /\ S.d = [R.d EXCEPT ![e] = [x EXCEPT !.tick = R.ticks + 1]]
    BY <1>1, <2>1 DEF fifoReset, SetTick, RpFields, DataFields
  <2> HIDE DEF S
  <2> QED
    BY <2>2, <2>3, DataChanged
<1>6. ASSUME R.pol = "SecondChance"
      PROVE  PlainOK(S, E, n) /\ S.pol = R.pol
  <2>1. S = secondChanceReset(R, e)
    BY <1>6 DEF baseReset
  <2>2. DataOK([x EXCEPT !.tick = R.ticks + 1, !.chance = FALSE])
    BY <1>1 DEF DataOK, DataFields
  <2>3. /\ DOMAIN S = RpFields /\ S.pol = R.pol /\ S.ways = R.ways /\ S.ticks \in Int
        /\ S.d = [R.d EXCEPT ![e] = [x EXCEPT !.tick = R.ticks + 1, !.chance = FALSE]]
    <3> DEFINE F == fifoReset(R, e)
               y == [x EXCEPT !.tick = R.ticks + 1]
    <3>1. /\ DOMAIN F = RpFields /\ F.pol = R.pol /\ F.ways = R.ways /\ F.ticks \in Int
          /\ F.d = [R.d EXCEPT ![e] = y]
      BY <1>1 DEF fifoReset, SetTick, RpFields
    <3>2. S = [F EXCEPT !.d[e].chance = FALSE]
      BY <2>1 DEF secondChanceReset
    <3> HIDE DEF F
    <3>3. F.d[e] = y
      BY <1>1, <3>1
    <3>4. S.d = [F.d EXCEPT ![e] = [y EXCEPT !.chance = FALSE]]
      BY <1>1, <3>1, <3>2, <3>3 DEF RpFields
    <3>5. [y EXCEPT !.chance = FALSE] = [x EXCEPT !.tick = R.ticks + 1, !.chance = FALSE]
      OBVIOUS
    <3> HIDE DEF y
    <3>6. S.d = [R.d EXCEPT ![e] = [y EXCEPT !.chance = FALSE]]
      BY <1>1, <3>1, <3>4
    <3>7. DOMAIN S = RpFields /\ S.pol = R.pol /\ S.ways = R.ways /\ S.ticks \in Int
      BY <3>1, <3>2 DEF RpFields
    <3> QED
      BY <3>5, <3>6, <3>7
  <2> HIDE DEF S
  <2> QED
    BY <2>2, <2>3, DataChanged
<1>7. max \in Int /\ dec(max) \in Int
  BY PolicyAssumption DEF maxVal, dec
<1> HIDE DEF max
<1>8. ASSUME R.pol = "BRRIP"
      PROVE  PlainOK(S, E, n) /\ S.pol = R.pol
  <2> DEFINE r == IF rnd THEN dec(max) ELSE max
  <2>1. S = brripReset(R, e, rnd)
    BY <1>8 DEF baseReset
  <2>2. DataOK([x EXCEPT !.rrpv = r, !.valid = TRUE])
    BY <1>1, <1>7 DEF DataOK, DataFields
  <2>3. /\ DOMAIN S = RpFields /\ S.pol = R.pol /\ S.ways = R.ways /\ S.ticks \in Int
        /\ S.d = [R.d EXCEPT ![e] = [x EXCEPT !.rrpv = r, !.valid = TRUE]]
    <3>1. S = [R EXCEPT !.d[e].rrpv = r, !.d[e].valid = TRUE]
      BY <2>1 DEF brripReset, max
    <3> HIDE DEF r
    <3> QED
      BY <1>1, <3>1, ZenonT(60) DEF RpFields, DataFields
  <2> HIDE DEF S
  <2> QED
    BY <2>2, <2>3, DataChanged
<1>9. ASSUME R.pol = "SHiP"
      PROVE  PlainOK(S, E, n) /\ S.pol = R.pol
  <2> DEFINE r == IF rnd THEN dec(max) ELSE max
             y == [x EXCEPT !.sig = sig, !.out = FALSE, !.rrpv = r, !.valid = TRUE]
             R1 == brripReset([R EXCEPT !.d[e].sig = sig, !.d[e].out = FALSE], e, rnd)
  <2>1. S = IF R.shct[sig] * 100 >= InsertThreshold * max
            THEN [R1 EXCEPT !.d[e].rrpv = dec(@)] ELSE R1
    BY <1>9 DEF baseReset, shipReset, max
  <2>2. /\ DOMAIN R1 = RpFields /\ R1.pol = R.pol /\ R1.ways = R.ways /\ R1.ticks = R.ticks
        /\ R1.d = [R.d EXCEPT ![e] = y]
    BY <1>1 DEF brripReset, RpFields, DataFields, max
  <2>3. DataOK(y) /\ y.rrpv = r /\ DOMAIN y = DataFields
    BY <1>1, <1>7 DEF DataOK, DataFields
  <2> HIDE DEF y
  <2>4. DataOK([y EXCEPT !.rrpv = dec(@)])
    <3>1. dec(r) \in Int
      BY <1>7 DEF dec
    <3> QED
      BY <2>3, <3>1 DEF DataOK, DataFields
  <2> HIDE DEF R1
  <2>5. PlainOK(R1, E, n)
    BY <1>1, <2>2, <2>3, DataChanged
  <2>6. R1.d[e] = y /\ DOMAIN R1.d = E
    BY <1>1, <2>2
  <2>7. PlainOK([R1 EXCEPT !.d[e].rrpv = dec(@)], E, n) /\ [R1 EXCEPT !.d[e].rrpv = dec(@)].pol = R1.pol
    BY <1>1, <2>2, <2>4, <2>5, <2>6, DataChanged DEF RpFields
  <2> QED
    BY <2>1, <2>2, <2>5, <2>7
<1>10. ASSUME R.pol = "TreePLRU"
      PROVE  PlainOK(S, E, n) /\ S.pol = R.pol
  <2>1. S = treeTouch(R, e)
    BY <1>10 DEF baseReset, treeReset
  <2> QED
    BY <1>1, <2>1 DEF treeTouch, RpFields, PlainOK
<1>11. R.pol \in PlainPolicies
  BY DEF PlainOK
<1> QED
  BY <1>2, <1>3, <1>4, <1>5, <1>6, <1>8, <1>9, <1>10, <1>11 DEF PlainPolicies

(* The first of the smallest values of a sequence.                         *)
LEMMA FirstSmallest ==
  ASSUME NEW n \in Nat \ {0}, NEW g \in [1..n -> Int]
  PROVE  \E i \in 1..n : \A j \in 1..n : g[i] < g[j] \/ (g[i] = g[j] /\ i <= j)
<1> DEFINE G == {m \in Nat : m + 1 <= n =>
                   \E i \in 1..m + 1 : \A j \in 1..m + 1 :
                      g[i] < g[j] \/ (g[i] = g[j] /\ i <= j)}
<1>1. 0 \in G
  <2>1. 1 \in 1..1 /\ \A j \in 1..1 : j = 1
    OBVIOUS
  <2>2. \E i \in 1..1 : \A j \in 1..1 : g[i] < g[j] \/ (g[i] = g[j] /\ i <= j)
    BY <2>1
  <2> QED
    BY <2>2
<1>2. \A m \in Nat : m \in G => m + 1 \in G
  <2> SUFFICES ASSUME NEW m \in Nat, m \in G, (m + 1) + 1 <= n
               PROVE  \E i \in 1..(m + 1) + 1 : \A j \in 1..(m + 1) + 1 :
                        g[i] < g[j] \/ (g[i] = g[j] /\ i <= j)
    OBVIOUS
  <2>1. PICK i \in 1..m + 1 : \A j \in 1..m + 1 : g[i] < g[j] \/ (g[i] = g[j] /\ i <= j)
    OBVIOUS
  <2> DEFINE l == (m + 1) + 1
  <2>2. /\ l \in 1..n /\ i \in 1..n /\ i < l
        /\ \A j \in 1..l : j \in 1..n /\ (j \in 1..m + 1 \/ j = l)
    BY <2>1
  <2> HIDE DEF l
  <2>3. CASE g[l] < g[i]
    <3>1. \A j \in 1..l : g[l] < g[j] \/ (g[l] = g[j] /\ l <= j)
      BY <2>1, <2>2, <2>3
    <3>2. l \in 1..l
      BY <2>2
    <3> QED
      BY <3>1, <3>2 DEF l
  <2>4. CASE ~(g[l] < g[i])
    <3>1. \A j \in 1..l : g[i] < g[j] \/ (g[i] = g[j] /\ i <= j)
      BY <2>1, <2>2, <2>4
    <3>2. i \in 1..l
      BY <2>2
    <3> QED
      BY <3>1, <3>2 DEF l
  <2> QED
    BY <2>3, <2>4
<1>3. Nat \subseteq G
  <2> HIDE DEF G
  <2> QED
    BY <1>1, <1>2, Inductive
<1> DEFINE m == n - 1
<1>4. m \in Nat /\ m + 1 = n /\ m + 1 <= n
  OBVIOUS
<1> HIDE DEF m
<1>5. \E i \in 1..m + 1 : \A j \in 1..m + 1 : g[i] < g[j] \/ (g[i] = g[j] /\ i <= j)
  BY <1>3, <1>4
<1> QED
  BY <1>4, <1>5

(* The members of a sequence of candidates.                                 *)
LEMMA Candidates ==
  ASSUME NEW E, NEW cs \in Seq(E), cs # <<>>
  PROVE  /\ Len(cs) \in Nat \ {0} /\ DOMAIN cs = 1..Len(cs) /\ \A i \in 1..Len(cs) : cs[i] \in E
         /\ Members(cs) \subseteq E
BY DEF Members

(* The victim of LRU, BIP and FIFO.                                        *)
LEMMA OldestVictim ==
  ASSUME NEW E, NEW n, NEW R, PlainOK(R, E, n), NEW cs \in Seq(E), cs # <<>>
  PROVE  lruVictim(R, cs) \in Members(cs) /\ fifoVictim(R, cs) \in Members(cs)
<1> DEFINE g == [i \in 1..Len(cs) |-> R.d[cs[i]].tick]
<1>1. /\ Len(cs) \in Nat \ {0} /\ DOMAIN cs = 1..Len(cs) /\ \A i \in 1..Len(cs) : cs[i] \in E
  BY Candidates
<1>2. g \in [1..Len(cs) -> Int]
  BY <1>1 DEF PlainOK, DataOK
<1>3. \E i \in 1..Len(cs) : \A j \in 1..Len(cs) : g[i] < g[j] \/ (g[i] = g[j] /\ i <= j)
  <2> HIDE DEF g
  <2> QED
    BY <1>1, <1>2, FirstSmallest
<1>4. \E i \in DOMAIN cs : \A j \in DOMAIN cs :
        R.d[cs[i]].tick < R.d[cs[j]].tick \/ (R.d[cs[i]].tick = R.d[cs[j]].tick /\ i <= j)
  BY <1>1, <1>3
<1> HIDE DEF g
<1> QED
  BY <1>1, <1>4 DEF lruVictim, fifoVictim, FirstMin, Members

(* The victim of WeightedLRU.                                               *)
LEMMA WeightedVictim ==
  ASSUME NEW E, NEW n, NEW R, PlainOK(R, E, n), NEW cs \in Seq(E), cs # <<>>
  PROVE  weightedVictim(R, cs) \in Members(cs)
<1> DEFINE g == [i \in 1..Len(cs) |-> R.d[cs[i]].tick]
           d(i) == R.d[cs[i]]
           before(i, j) == \/ d(i).occ < d(j).occ
                           \/ /\ d(i).occ = d(j).occ
                              /\ d(i).tick < d(j).tick \/ (d(i).tick = d(j).tick /\ i <= j)
<1>1. /\ Len(cs) \in Nat \ {0} /\ DOMAIN cs = 1..Len(cs) /\ \A i \in 1..Len(cs) : cs[i] \in E
  BY Candidates
<1>2. g \in [1..Len(cs) -> Int]
  BY <1>1 DEF PlainOK, DataOK
<1>3. \E i \in 1..Len(cs) : \A j \in 1..Len(cs) : g[i] < g[j] \/ (g[i] = g[j] /\ i <= j)
  <2> HIDE DEF g
  <2> QED
    BY <1>1, <1>2, FirstSmallest
<1>4. \A i \in 1..Len(cs) : d(i).occ = 0 /\ g[i] = d(i).tick
  BY <1>1 DEF PlainOK, DataOK
<1>5. \E i \in DOMAIN cs : \A j \in DOMAIN cs : before(i, j)
  <2> HIDE DEF g, d
  <2> QED
    BY <1>1, <1>3, <1>4
<1>6. weightedVictim(R, cs) = cs[CHOOSE i \in DOMAIN cs : \A j \in DOMAIN cs : before(i, j)]
  BY DEF weightedVictim
<1> HIDE DEF before
<1> QED
  BY <1>1, <1>5, <1>6 DEF Members

(* The victim of MRU.                                                       *)
LEMMA NewestVictim ==
  ASSUME NEW E, NEW n, NEW R, PlainOK(R, E, n), NEW cs \in Seq(E), cs # <<>>
  PROVE  mruVictim(R, cs) \in Members(cs)
<1> DEFINE g == [i \in 1..Len(cs) |-> -R.d[cs[i]].tick]
           f(e) == -R.d[e].tick
<1>1. /\ Len(cs) \in Nat \ {0} /\ DOMAIN cs = 1..Len(cs) /\ \A i \in 1..Len(cs) : cs[i] \in E
  BY Candidates
<1>2. g \in [1..Len(cs) -> Int]
  <2>1. \A i \in 1..Len(cs) : -R.d[cs[i]].tick \in Int
    BY <1>1 DEF PlainOK, DataOK
  <2> QED
    BY <2>1
<1>3. \E i \in 1..Len(cs) : \A j \in 1..Len(cs) : g[i] < g[j] \/ (g[i] = g[j] /\ i <= j)
  <2> HIDE DEF g
  <2> QED
    BY <1>1, <1>2, FirstSmallest
<1>4. \E i \in DOMAIN cs : \A j \in DOMAIN cs :
        f(cs[i]) < f(cs[j]) \/ (f(cs[i]) = f(cs[j]) /\ i <= j)
  BY <1>1, <1>3
<1>5. FirstMin(cs, f) = cs[CHOOSE i \in DOMAIN cs : \A j \in DOMAIN cs :
                              f(cs[i]) < f(cs[j]) \/ (f(cs[i]) = f(cs[j]) /\ i <= j)]
  BY DEF FirstMin
<1>6. mruVictim(R, cs) \in {lruVictim(R, cs), FirstMin(cs, f)}
  BY DEF mruVictim
<1>7. lruVictim(R, cs) \in Members(cs)
  BY OldestVictim
<1> HIDE DEF f
<1>8. FirstMin(cs, f) \in Members(cs)
  BY <1>4, <1>5 DEF Members
<1> QED
  BY <1>6, <1>7, <1>8

(* The victim of LFU.                                                       *)
LEMMA LeastUsedVictim ==
  ASSUME NEW E, NEW n, NEW R, PlainOK(R, E, n), NEW cs \in Seq(E), cs # <<>>
  PROVE  lfuVictim(R, cs) \in Members(cs)
<1> DEFINE g == [i \in 1..Len(cs) |-> R.d[cs[i]].n]
<1>1. /\ Len(cs) \in Nat \ {0} /\ DOMAIN cs = 1..Len(cs) /\ \A i \in 1..Len(cs) : cs[i] \in E
  BY Candidates
<1>2. g \in [1..Len(cs) -> Int]
  BY <1>1 DEF PlainOK, DataOK
<1>3. \E i \in 1..Len(cs) : \A j \in 1..Len(cs) : g[i] < g[j] \/ (g[i] = g[j] /\ i <= j)
  <2> HIDE DEF g
  <2> QED
    BY <1>1, <1>2, FirstSmallest
<1>4. \E i \in DOMAIN cs : \A j \in DOMAIN cs :
        R.d[cs[i]].n < R.d[cs[j]].n \/ (R.d[cs[i]].n = R.d[cs[j]].n /\ i <= j)
  BY <1>1, <1>3
<1> HIDE DEF g
<1> QED
  BY <1>1, <1>4 DEF lfuVictim, FirstMin, Members

(* The entry that Random takes before it draws.                             *)
LEMMA InvalidVictim ==
  ASSUME NEW E, NEW R, NEW cs \in Seq(E), cs # <<>>
  PROVE  firstInvalid(R, cs) \in Members(cs)
<1> DEFINE f(e) == IF R.d[e].valid THEN 1 ELSE 0
           g == [i \in 1..Len(cs) |-> f(cs[i])]
<1>1. /\ Len(cs) \in Nat \ {0} /\ DOMAIN cs = 1..Len(cs) /\ \A i \in 1..Len(cs) : cs[i] \in E
  BY Candidates
<1>2. g \in [1..Len(cs) -> Int]
  OBVIOUS
<1>3. \E i \in 1..Len(cs) : \A j \in 1..Len(cs) : g[i] < g[j] \/ (g[i] = g[j] /\ i <= j)
  <2> HIDE DEF g
  <2> QED
    BY <1>1, <1>2, FirstSmallest
<1>4. \E i \in DOMAIN cs : \A j \in DOMAIN cs :
        f(cs[i]) < f(cs[j]) \/ (f(cs[i]) = f(cs[j]) /\ i <= j)
  <2> HIDE DEF f
  <2> QED
    BY <1>1, <1>3
<1>5. firstInvalid(R, cs) = cs[CHOOSE i \in DOMAIN cs : \A j \in DOMAIN cs :
                              f(cs[i]) < f(cs[j]) \/ (f(cs[i]) = f(cs[j]) /\ i <= j)]
  BY DEF firstInvalid, FirstMin
<1> HIDE DEF f, g
<1> QED
  BY <1>4, <1>5 DEF Members

(* What a search answers: a candidate, and the policy as it then is.       *)
Found(R, E, n, cs, x) ==
  x.v \in Members(cs) /\ PlainOK(x.R, E, n) /\ x.R.pol = R.pol

(* SecondChance goes around the candidates, taking their chances, and       *)
(* ends.                                                                    *)
LEMMA SecondChanceFound ==
  ASSUME NEW E, NEW n, NEW R, PlainOK(R, E, n), NEW cs \in Seq(E), cs # <<>>
  PROVE  Found(R, E, n, cs, secondChanceVictim(R, cs))
<1> DEFINE fresh == {e \in Members(cs) : ~R.d[e].chance}
           f(e) == R.d[e].tick + IF e \in fresh THEN 0 ELSE R.ticks + 1
           g == [i \in 1..Len(cs) |-> f(cs[i])]
           v == IF fresh = {} THEN fifoVictim(R, cs) ELSE FirstMin(cs, f)
           passed == {e \in Members(cs) \ fresh : fresh = {} \/ R.d[e].tick < R.d[v].tick}
           rank(e) == Cardinality({x \in passed : R.d[x].tick <= R.d[e].tick})
           D == [e \in DOMAIN R.d |->
                   IF e \in passed THEN [R.d[e] EXCEPT !.tick = R.ticks + rank(e), !.chance = FALSE]
                   ELSE R.d[e]]
           S == [R EXCEPT !.ticks = @ + Cardinality(passed), !.d = D]
           x == secondChanceVictim(R, cs)
<1>1. /\ Len(cs) \in Nat \ {0} /\ DOMAIN cs = 1..Len(cs) /\ \A i \in 1..Len(cs) : cs[i] \in E
  BY Candidates
<1>2. DOMAIN R = RpFields /\ R.ticks \in Int /\ DOMAIN R.d = E /\ \A e \in E : DataOK(R.d[e])
  BY DEF PlainOK
<1>3. g \in [1..Len(cs) -> Int]
  <2>1. \A i \in 1..Len(cs) : f(cs[i]) \in Int
    BY <1>1, <1>2 DEF DataOK
  <2> HIDE DEF f
  <2> QED
    BY <2>1
<1>4. \E i \in 1..Len(cs) : \A j \in 1..Len(cs) : g[i] < g[j] \/ (g[i] = g[j] /\ i <= j)
  <2> HIDE DEF g
  <2> QED
    BY <1>1, <1>3, FirstSmallest
<1> HIDE DEF fresh
<1>5. FirstMin(cs, f) \in Members(cs)
  <2>1. FirstMin(cs, f) = cs[CHOOSE i \in DOMAIN cs : \A j \in DOMAIN cs :
                              f(cs[i]) < f(cs[j]) \/ (f(cs[i]) = f(cs[j]) /\ i <= j)]
    BY DEF FirstMin
  <2> HIDE DEF f
  <2>2. \E i \in DOMAIN cs : \A j \in DOMAIN cs :
          f(cs[i]) < f(cs[j]) \/ (f(cs[i]) = f(cs[j]) /\ i <= j)
    BY <1>1, <1>4
  <2> QED
    BY <2>1, <2>2 DEF Members
<1> HIDE DEF f, g
<1>6. v \in Members(cs)
  BY <1>5, OldestVictim
<1>7. x = [v |-> v, R |-> IF R.d[v].tick = 0 THEN R ELSE S]
  BY DEF secondChanceVictim, fresh, f
<1> HIDE DEF v
<1>8. IsFiniteSet(Members(cs))
  <2>1. IsFiniteSet(1..Len(cs))
    BY <1>1, FS_Interval
  <2>2. cs \in Surjection(1..Len(cs), Members(cs))
    <3>1. cs \in [1..Len(cs) -> Members(cs)]
      <4>1. cs = [i \in 1..Len(cs) |-> cs[i]]
        BY <1>1
      <4> QED
        BY <1>1, <4>1 DEF Members
    <3>2. \A e \in Members(cs) : \E i \in 1..Len(cs) : cs[i] = e
      BY <1>1 DEF Members
    <3> QED
      BY <3>1, <3>2 DEF Surjection
  <2> QED
    BY <2>1, <2>2, FS_Surjection
<1>9. Cardinality(passed) \in Int /\ \A e : rank(e) \in Int
  <2>1. passed \subseteq Members(cs) /\ \A e : {y \in passed : R.d[y].tick <= R.d[e].tick} \subseteq Members(cs)
    OBVIOUS
  <2>2. \A A \in SUBSET Members(cs) : Cardinality(A) \in Int
    BY <1>8, FS_Subset, FS_CardinalityType
  <2> QED
    BY <2>1, <2>2
<1> HIDE DEF passed, rank
<1>10. DOMAIN D = E /\ \A e \in E : DataOK(D[e])
  <2> SUFFICES ASSUME NEW e \in E
               PROVE  DataOK(D[e])
    BY <1>2
  <2>1. D[e] = IF e \in passed THEN [R.d[e] EXCEPT !.tick = R.ticks + rank(e), !.chance = FALSE]
               ELSE R.d[e]
    BY <1>2
  <2>2. R.ticks + rank(e) \in Int /\ DataOK(R.d[e])
    BY <1>2, <1>9
  <2> HIDE DEF D
  <2> QED
    BY <2>1, <2>2 DEF DataOK, DataFields
<1> HIDE DEF D
<1>11. PlainOK(S, E, n) /\ S.pol = R.pol
  <2>1. /\ DOMAIN S = RpFields /\ S.pol = R.pol /\ S.ways = R.ways /\ S.d = D
        /\ S.ticks = R.ticks + Cardinality(passed)
    BY <1>2 DEF RpFields
  <2>2. S.ticks \in Int
    BY <1>2, <1>9, <2>1
  <2> HIDE DEF S
  <2> QED
    BY <1>10, <2>1, <2>2 DEF PlainOK
<1> HIDE DEF S
<1> QED
  BY <1>6, <1>7, <1>11 DEF Found

(* BRRIP and SHiP age the candidates and answer one of them.                *)
LEMMA BrripFound ==
  ASSUME NEW E, NEW n, NEW R, PlainOK(R, E, n), NEW cs \in Seq(E), cs # <<>>
  PROVE  Found(R, E, n, cs, brripVictim(R, cs))
<1> DEFINE max == maxVal(RrpvBits)
           f(e) == maxVal(RrpvBits) - R.d[e].rrpv
           g == [i \in 1..Len(cs) |-> f(cs[i])]
           v == FirstMin(cs, f)
           D == [e \in DOMAIN R.d |->
                   IF e \in Members(cs) THEN [R.d[e] EXCEPT !.rrpv = plus(R.d[e].rrpv, f(v), RrpvBits)]
                   ELSE R.d[e]]
           S == [R EXCEPT !.d = D]
<1>1. /\ Len(cs) \in Nat \ {0} /\ DOMAIN cs = 1..Len(cs) /\ \A i \in 1..Len(cs) : cs[i] \in E
      /\ Members(cs) \subseteq E
  BY Candidates
<1>2. DOMAIN R = RpFields /\ R.ticks \in Int /\ DOMAIN R.d = E /\ \A e \in E : DataOK(R.d[e])
  BY DEF PlainOK
<1>3. max \in Int /\ \A e : f(e) = max - R.d[e].rrpv
  BY PolicyAssumption DEF maxVal
<1>4. brripVictim(R, cs) \in {[v |-> firstInvalid(R, cs), R |-> R], [v |-> v, R |-> S]}
  <2>1. brripVictim(R, cs) = IF someInvalid(R, cs) THEN [v |-> firstInvalid(R, cs), R |-> R]
                             ELSE [v |-> v, R |-> S]
    BY DEF brripVictim
  <2> HIDE DEF v, S
  <2> QED
    BY <2>1
<1>5. \A e \in E, i \in Int : plus(R.d[e].rrpv, i, RrpvBits) \in Int
  BY <1>2, <1>3 DEF plus, DataOK
<1> HIDE DEF max
<1>6. \A e \in E : f(e) \in Int
  BY <1>2, <1>3 DEF DataOK
<1>7. v = cs[CHOOSE i \in DOMAIN cs : \A j \in DOMAIN cs :
               f(cs[i]) < f(cs[j]) \/ (f(cs[i]) = f(cs[j]) /\ i <= j)]
  BY DEF FirstMin
<1> HIDE DEF f, v
<1>8. \E i \in 1..Len(cs) : \A j \in 1..Len(cs) : g[i] < g[j] \/ (g[i] = g[j] /\ i <= j)
  <2>1. g \in [1..Len(cs) -> Int]
    BY <1>1, <1>6
  <2> HIDE DEF g
  <2> QED
    BY <1>1, <2>1, FirstSmallest
<1>9. v \in Members(cs)
  BY <1>1, <1>7, <1>8 DEF Members
<1>10. DOMAIN D = E /\ \A e \in E : DataOK(D[e])
  <2> SUFFICES ASSUME NEW e \in E
               PROVE  DataOK(D[e])
    BY <1>2
  <2>1. D[e] = IF e \in Members(cs) THEN [R.d[e] EXCEPT !.rrpv = plus(R.d[e].rrpv, f(v), RrpvBits)]
               ELSE R.d[e]
    BY <1>2
  <2>2. plus(R.d[e].rrpv, f(v), RrpvBits) \in Int /\ DataOK(R.d[e])
    BY <1>1, <1>2, <1>5, <1>6, <1>9
  <2> HIDE DEF D
  <2> QED
    BY <2>1, <2>2 DEF DataOK, DataFields
<1> HIDE DEF D
<1>11. PlainOK(S, E, n) /\ S.pol = R.pol
  <2>1. /\ DOMAIN S = RpFields /\ S.pol = R.pol /\ S.ways = R.ways /\ S.d = D /\ S.ticks = R.ticks
    BY <1>2 DEF RpFields
  <2> HIDE DEF S
  <2> QED
    BY <1>2, <1>10, <2>1 DEF PlainOK
<1> HIDE DEF S
<1>12. firstInvalid(R, cs) \in Members(cs)
  BY InvalidVictim
<1> QED
  BY <1>4, <1>9, <1>11, <1>12 DEF Found

(* The search of the PLRU tree ends at a leaf.                             *)
LEMMA TreeLeaf ==
  ASSUME NEW n \in Nat \ {0}, NEW tree
  PROVE  treeVictim(tree, n) \in 0..n - 1
<1> DEFINE M == 2 * n - 2
           child(i) == IF tree[i] THEN 2 * i + 2 ELSE 2 * i + 1
           step(g, i) == IF i >= n - 1 THEN i ELSE g[child(i)]
           down[i \in 0..M] == IF i >= n - 1 THEN i ELSE down[IF tree[i] THEN 2 * i + 2 ELSE 2 * i + 1]
<1>1. treeVictim(tree, n) = down[0] - (n - 1)
  BY DEF treeVictim
<1>2. /\ M \in Nat /\ M >= n - 1
      /\ \A i \in 0..M : i < n - 1 => child(i) \in 0..M /\ child(i) > i
  OBVIOUS
<1> HIDE DEF M, child
<1> DEFINE OK(g, k) == \A i \in 0..M : i + k >= M => g[i] = step(g, i)
<1>3. \A k \in Nat : \E g : DOMAIN g = 0..M /\ OK(g, k)
  <2> DEFINE G == {k \in Nat : \E g : DOMAIN g = 0..M /\ OK(g, k)}
  <2>1. 0 \in G
    <3> DEFINE g == [i \in 0..M |-> M]
    <3>1. DOMAIN g = 0..M /\ OK(g, 0)
      BY <1>2
    <3> QED
      BY <3>1
  <2>2. \A k \in Nat : k \in G => k + 1 \in G
    <3> SUFFICES ASSUME NEW k \in Nat, k \in G
                 PROVE  k + 1 \in G
      OBVIOUS
    <3>0. PICK g : DOMAIN g = 0..M /\ OK(g, k)
      OBVIOUS
    <3> DEFINE l == M - k - 1
               h == [g EXCEPT ![l] = step(g, l)]
    <3>1. DOMAIN h = 0..M
      BY <3>0
    <3>2. \A i \in 0..M : i >= l => step(h, i) = step(g, i)
      BY <1>2
    <3>3. ASSUME NEW i \in 0..M, i + (k + 1) >= M
          PROVE  h[i] = step(h, i)
      <4>1. i >= l
        BY <1>2, <3>3
      <4>2. CASE i = l
        <5>1. h[i] = step(g, i)
          <6> HIDE DEF step, l
          <6> QED
            BY <3>0, <4>2
        <5> QED
          BY <3>2, <4>1, <5>1
      <4>3. CASE i # l
        <5>1. i + k >= M
          BY <1>2, <4>1, <4>3
        <5>2. h[i] = g[i] /\ g[i] = step(g, i)
          BY <3>0, <4>3, <5>1
        <5> QED
          BY <3>2, <4>1, <5>2
      <4> QED
        BY <4>2, <4>3
    <3> HIDE DEF h, step
    <3>4. \E f : DOMAIN f = 0..M /\ OK(f, k + 1)
      BY <3>1, <3>3
    <3> HIDE DEF OK
    <3> QED
      BY <3>4
  <2>3. Nat \subseteq G
    <3> HIDE DEF G
    <3> QED
      BY <2>1, <2>2, Inductive
  <2> QED
    BY <2>3
<1>4. down = [i \in 0..M |-> step(down, i)]
  <2>1. PICK g : DOMAIN g = 0..M /\ OK(g, M)
    BY <1>2, <1>3
  <2> DEFINE h == [i \in 0..M |-> g[i]]
  <2>2. \A i \in 0..M : g[i] = step(g, i)
    BY <1>2, <2>1
  <2>3. \A i \in 0..M : step(h, i) = step(g, i)
    BY <1>2
  <2>4. h = [i \in 0..M |-> step(h, i)]
    <3> HIDE DEF step
    <3>1. \A i \in 0..M : h[i] = step(h, i)
      BY <2>2, <2>3
    <3> QED
      BY <3>1
  <2> HIDE DEF h
  <2> QED
    BY <2>4 DEF child
<1> HIDE DEF down
<1>5. \A i \in 0..M : down[i] = step(down, i)
  <2> HIDE DEF step
  <2> QED
    BY <1>4
<1>6. \A k \in Nat : \A i \in 0..M : i + k >= M => down[i] \in n - 1..M
  <2> DEFINE G == {k \in Nat : \A i \in 0..M : i + k >= M => down[i] \in n - 1..M}
  <2>1. 0 \in G
    <3>1. down[M] = M
      BY <1>2, <1>5
    <3>2. \A i \in 0..M : i + 0 >= M => i = M
      BY <1>2
    <3> QED
      BY <1>2, <3>1, <3>2
  <2>2. \A k \in Nat : k \in G => k + 1 \in G
    <3> SUFFICES ASSUME NEW k \in Nat, k \in G
                 PROVE  k + 1 \in G
      OBVIOUS
    <3> SUFFICES ASSUME NEW i \in 0..M, i + (k + 1) >= M
                 PROVE  down[i] \in n - 1..M
      OBVIOUS
    <3>1. CASE i >= n - 1
      BY <1>2, <1>5, <3>1
    <3>2. CASE ~(i >= n - 1)
      <4>1. child(i) \in 0..M /\ child(i) + k >= M
        BY <1>2, <3>2
      <4>2. down[child(i)] \in n - 1..M
        BY <4>1
      <4> QED
        BY <1>5, <3>2, <4>2
    <3> QED
      BY <3>1, <3>2
  <2>3. Nat \subseteq G
    <3> HIDE DEF G
    <3> QED
      BY <2>1, <2>2, Inductive
  <2> QED
    BY <2>3
<1>7. down[0] \in n - 1..M
  BY <1>2, <1>6
<1> QED
  BY <1>1, <1>7 DEF M

(* getVictim of every plain policy.                                         *)
LEMMA BaseFound ==
  ASSUME NEW E, NEW n \in Nat \ {0}, NEW R, PlainOK(R, E, n), NEW cs \in Seq(E), cs # <<>>,
         R.pol = "TreePLRU" => Len(cs) = n,
         NEW x \in baseGetVictim(R, cs)
  PROVE  Found(R, E, n, cs, x)
<1>1. ASSUME NEW v, v \in Members(cs), x = [v |-> v, R |-> R]
      PROVE  Found(R, E, n, cs, x)
  BY <1>1 DEF Found
<1>2. ASSUME R.pol \in {"LRU", "BIP"}
      PROVE  Found(R, E, n, cs, x)
  <2>1. x = [v |-> lruVictim(R, cs), R |-> R]
    BY <1>2 DEF baseGetVictim
  <2> QED
    BY <1>1, <2>1, OldestVictim
<1>3. ASSUME R.pol = "WeightedLRU"
      PROVE  Found(R, E, n, cs, x)
  <2>1. x = [v |-> weightedVictim(R, cs), R |-> R]
    BY <1>3 DEF baseGetVictim
  <2> QED
    BY <1>1, <2>1, WeightedVictim
<1>4. ASSUME R.pol = "FIFO"
      PROVE  Found(R, E, n, cs, x)
  <2>1. x = [v |-> fifoVictim(R, cs), R |-> R]
    BY <1>4 DEF baseGetVictim
  <2> QED
    BY <1>1, <2>1, OldestVictim
<1>5. ASSUME R.pol = "MRU"
      PROVE  Found(R, E, n, cs, x)
  <2>1. x = [v |-> mruVictim(R, cs), R |-> R]
    BY <1>5 DEF baseGetVictim
  <2> QED
    BY <1>1, <2>1, NewestVictim
<1>6. ASSUME R.pol = "LFU"
      PROVE  Found(R, E, n, cs, x)
  <2>1. x = [v |-> lfuVictim(R, cs), R |-> R]
    BY <1>6 DEF baseGetVictim
  <2> QED
    BY <1>1, <2>1, LeastUsedVictim
<1>7. ASSUME R.pol = "Random"
      PROVE  Found(R, E, n, cs, x)
  <2>1. PICK v \in randomVictims(R, cs) : x = [v |-> v, R |-> R]
    BY <1>7 DEF baseGetVictim
  <2>2. v \in Members(cs)
    BY InvalidVictim DEF randomVictims
  <2> QED
    BY <1>1, <2>1, <2>2
<1>8. ASSUME R.pol = "SecondChance"
      PROVE  Found(R, E, n, cs, x)
  <2>1. x = secondChanceVictim(R, cs)
    BY <1>8 DEF baseGetVictim
  <2> QED
    BY <2>1, SecondChanceFound
<1>9. ASSUME R.pol \in {"BRRIP", "SHiP"}
      PROVE  Found(R, E, n, cs, x)
  <2>1. x = brripVictim(R, cs)
    BY <1>9 DEF baseGetVictim
  <2> QED
    BY <2>1, BrripFound
<1>10. ASSUME R.pol = "TreePLRU"
       PROVE  Found(R, E, n, cs, x)
  <2> DEFINE tree == R.tree[cs[1][1]]
             l == treeVictim(tree, n)
  <2>1. x = [v |-> cs[l + 1], R |-> R]
    BY <1>10 DEF baseGetVictim, PlainOK
  <2>2. l \in 0..n - 1
    BY TreeLeaf
  <2>3. DOMAIN cs = 1..n
    BY <1>10
  <2> HIDE DEF l
  <2>4. cs[l + 1] \in Members(cs)
    BY <2>2, <2>3 DEF Members
  <2> QED
    BY <1>1, <2>1, <2>4
<1>11. R.pol \in PlainPolicies
  BY DEF PlainOK
<1> QED
  BY <1>2, <1>3, <1>4, <1>5, <1>6, <1>7, <1>8, <1>9, <1>10, <1>11 DEF PlainPolicies

DuelFields == {"pol", "sets", "a", "b", "selector", "winner"}

(* The data of the policy of configuration c is in order.                  *)
RpOK(R, c) ==
  IF c.pol = "Dueling"
  THEN /\ DOMAIN R = DuelFields /\ R.pol = "Dueling"
       /\ PlainOK(R.a, Entries(c), c.ways) /\ R.a.pol = "LRU"
       /\ PlainOK(R.b, Entries(c), c.ways) /\ R.b.pol = "MRU"
  ELSE PlainOK(R, Entries(c), c.ways) /\ R.pol = c.pol

(* The duelling policy steps when both of its policies do.                  *)
LEMMA DuelStep ==
  ASSUME NEW c, c.pol = "Dueling", NEW R, RpOK(R, c), NEW a, NEW b,
         PlainOK(a, Entries(c), c.ways), a.pol = R.a.pol,
         PlainOK(b, Entries(c), c.ways), b.pol = R.b.pol
  PROVE  RpOK([R EXCEPT !.a = a, !.b = b], c)
BY DEF RpOK, DuelFields

(* A policy object keeps the policy of its configuration.                   *)
LEMMA PlainPol ==
  ASSUME NEW c, NEW R, RpOK(R, c)
  PROVE  R.pol = c.pol /\ (c.pol = "Dueling" <=> R.pol = "Dueling")
BY DEF RpOK

(* invalidate, duelling or not.                                             *)
LEMMA RpInvalidated ==
  ASSUME NEW c, NEW R, RpOK(R, c), NEW e \in Entries(c)
  PROVE  RpOK(rpInvalidate(R, e), c)
<1>1. CASE c.pol = "Dueling"
  <2>1. rpInvalidate(R, e) = [R EXCEPT !.a = baseInvalidate(R.a, e), !.b = baseInvalidate(R.b, e)]
    BY <1>1, PlainPol DEF rpInvalidate
  <2>2. PlainOK(R.a, Entries(c), c.ways) /\ PlainOK(R.b, Entries(c), c.ways)
    BY <1>1 DEF RpOK
  <2> DEFINE a == baseInvalidate(R.a, e)
             b == baseInvalidate(R.b, e)
  <2>3. PlainOK(a, Entries(c), c.ways) /\ a.pol = R.a.pol
    BY <2>2, BaseInvalidated
  <2>4. PlainOK(b, Entries(c), c.ways) /\ b.pol = R.b.pol
    BY <2>2, BaseInvalidated
  <2>5. rpInvalidate(R, e) = [R EXCEPT !.a = a, !.b = b]
    BY <2>1
  <2> HIDE DEF a, b
  <2>6. RpOK([R EXCEPT !.a = a, !.b = b], c)
    BY <1>1, <2>3, <2>4, DuelStep
  <2> QED
    BY <2>5, <2>6
<1>2. CASE c.pol # "Dueling"
  BY <1>2, BaseInvalidated DEF RpOK, rpInvalidate
<1> QED
  BY <1>1, <1>2

(* touch, duelling or not.                                                  *)
LEMMA RpTouched ==
  ASSUME NEW c, NEW R, RpOK(R, c), NEW e \in Entries(c), NEW tick \in Int, NEW sig
  PROVE  RpOK(rpTouch(R, e, tick, sig), c)
<1>1. CASE c.pol = "Dueling"
  <2>1. rpTouch(R, e, tick, sig)
          = [R EXCEPT !.a = baseTouch(R.a, e, tick, sig), !.b = baseTouch(R.b, e, tick, sig)]
    BY <1>1, PlainPol DEF rpTouch
  <2>2. PlainOK(R.a, Entries(c), c.ways) /\ PlainOK(R.b, Entries(c), c.ways)
    BY <1>1 DEF RpOK
  <2> DEFINE a == baseTouch(R.a, e, tick, sig)
             b == baseTouch(R.b, e, tick, sig)
  <2>3. PlainOK(a, Entries(c), c.ways) /\ a.pol = R.a.pol
    BY <2>2, BaseTouched
  <2>4. PlainOK(b, Entries(c), c.ways) /\ b.pol = R.b.pol
    BY <2>2, BaseTouched
  <2>5. rpTouch(R, e, tick, sig) = [R EXCEPT !.a = a, !.b = b]
    BY <2>1
  <2> HIDE DEF a, b
  <2>6. RpOK([R EXCEPT !.a = a, !.b = b], c)
    BY <1>1, <2>3, <2>4, DuelStep
  <2> QED
    BY <2>5, <2>6
<1>2. CASE c.pol # "Dueling"
  BY <1>2, BaseTouched DEF RpOK, rpTouch
<1> QED
  BY <1>1, <1>2

(* reset, duelling or not.                                                  *)
LEMMA RpReset ==
  ASSUME NEW c, NEW R, RpOK(R, c), NEW e \in Entries(c), NEW tick \in Int, NEW sig, NEW rnd
  PROVE  RpOK(rpReset(R, e, tick, sig, rnd), c)
<1>1. CASE c.pol = "Dueling"
  <2> DEFINE S == [R EXCEPT !.a = baseReset(R.a, e, tick, sig, rnd),
                            !.b = baseReset(R.b, e, tick, sig, rnd)]
  <2>1. rpReset(R, e, tick, sig, rnd) = sample(S, e)
    BY <1>1, PlainPol DEF rpReset
  <2>2. PlainOK(R.a, Entries(c), c.ways) /\ PlainOK(R.b, Entries(c), c.ways)
    BY <1>1 DEF RpOK
  <2>3. RpOK(S, c)
    <3> DEFINE a == baseReset(R.a, e, tick, sig, rnd)
               b == baseReset(R.b, e, tick, sig, rnd)
    <3>1. PlainOK(a, Entries(c), c.ways) /\ a.pol = R.a.pol
      BY <2>2, BaseReset
    <3>2. PlainOK(b, Entries(c), c.ways) /\ b.pol = R.b.pol
      BY <2>2, BaseReset
    <3>3. S = [R EXCEPT !.a = a, !.b = b]
      OBVIOUS
    <3> HIDE DEF a, b, S
    <3>4. RpOK([R EXCEPT !.a = a, !.b = b], c)
      BY <1>1, <3>1, <3>2, DuelStep
    <3> QED
      BY <3>3, <3>4
  <2> HIDE DEF S
  <2> DEFINE T == sample(S, e)
  <2>4. DOMAIN T = DOMAIN S /\ (DOMAIN S = DuelFields => T.pol = S.pol /\ T.a = S.a /\ T.b = S.b)
    BY DEF sample, DuelFields
  <2> HIDE DEF T
  <2>5. RpOK(T, c)
    BY <1>1, <2>3, <2>4 DEF RpOK
  <2> QED
    BY <2>1, <2>5 DEF T
<1>2. CASE c.pol # "Dueling"
  BY <1>2, BaseReset DEF RpOK, rpReset
<1> QED
  BY <1>1, <1>2

(* getVictim, duelling or not: the victim is one of the candidates.         *)
LEMMA RpFound ==
  ASSUME NEW c, c.ways \in Nat \ {0}, NEW R, RpOK(R, c), NEW cs \in Seq(Entries(c)), cs # <<>>,
         c.pol = "TreePLRU" => Len(cs) = c.ways,
         NEW x \in getVictim(R, cs)
  PROVE  x.v \in Members(cs) /\ RpOK(x.R, c)
<1>1. CASE c.pol = "Dueling"
  <2>1. PlainOK(R.a, Entries(c), c.ways) /\ PlainOK(R.b, Entries(c), c.ways)
        /\ R.a.pol = "LRU" /\ R.b.pol = "MRU" /\ R.pol = "Dueling" /\ DOMAIN R = DuelFields
    BY <1>1 DEF RpOK
  <2>2. x \in duelingGetVictim(R, cs)
    BY <2>1 DEF getVictim
  <2>3. CASE usesA(R, cs)
    <3>1. PICK y \in baseGetVictim(R.a, cs) : x = [v |-> y.v, R |-> [R EXCEPT !.a = y.R]]
      BY <2>2, <2>3 DEF duelingGetVictim
    <3>2. Found(R.a, Entries(c), c.ways, cs, y)
      BY <2>1, BaseFound
    <3> QED
      BY <1>1, <2>1, <3>1, <3>2 DEF Found, RpOK, DuelFields
  <2>4. CASE ~usesA(R, cs)
    <3>1. PICK y \in baseGetVictim(R.b, cs) : x = [v |-> y.v, R |-> [R EXCEPT !.b = y.R]]
      BY <2>2, <2>4 DEF duelingGetVictim
    <3>2. Found(R.b, Entries(c), c.ways, cs, y)
      BY <2>1, BaseFound
    <3> QED
      BY <1>1, <2>1, <3>1, <3>2 DEF Found, RpOK, DuelFields
  <2> QED
    BY <2>3, <2>4
<1>2. CASE c.pol # "Dueling"
  <2>1. PlainOK(R, Entries(c), c.ways) /\ R.pol = c.pol
    BY <1>2 DEF RpOK
  <2>2. x \in baseGetVictim(R, cs)
    BY <1>2, <2>1 DEF getVictim
  <2>3. Found(R, Entries(c), c.ways, cs, x)
    BY <2>1, <2>2, BaseFound
  <2> QED
    BY <1>2, <2>1, <2>3 DEF Found, RpOK
<1> QED
  BY <1>1, <1>2

(* The policies as the stores create them.                                 *)
LEMMA RpInitOK ==
  ASSUME NEW c, {c.sets, c.ways} \subseteq Nat \ {0}, c.pol \in PlainPolicies \cup {"Dueling"}
  PROVE  RpOK(tagsInit(c).rp, c)
<1>1. ASSUME NEW pol \in PlainPolicies
      PROVE  PlainOK(policyInit(pol, c.sets, c.ways), Entries(c), c.ways)
             /\ policyInit(pol, c.sets, c.ways).pol = pol
  BY DEF PlainOK, policyInit, instantiateEntry, Entries, DataOK, DataFields, RpFields
<1>2. CASE c.pol = "Dueling"
  <2> DEFINE R == duelingInit("LRU", "MRU", c.sets, c.ways)
  <2>1. tagsInit(c).rp = R
    BY <1>2 DEF tagsInit
  <2>2. DOMAIN R = DuelFields /\ R.pol = "Dueling" /\ R.a = policyInit("LRU", c.sets, c.ways)
        /\ R.b = policyInit("MRU", c.sets, c.ways)
    BY DEF duelingInit, DuelFields
  <2>3. "LRU" \in PlainPolicies /\ "MRU" \in PlainPolicies
    BY DEF PlainPolicies
  <2> HIDE DEF R
  <2> QED
    BY <1>1, <1>2, <2>1, <2>2, <2>3 DEF RpOK
<1>3. CASE c.pol # "Dueling"
  <2>1. tagsInit(c).rp = policyInit(c.pol, c.sets, c.ways)
    BY <1>3 DEF tagsInit
  <2> QED
    BY <1>1, <1>3, <2>1 DEF RpOK
<1> QED
  BY <1>2, <1>3

-----------------------------------------------------------------------------
(* The stores that are indexed by set *)

SetConfigs == {c \in Configs : c.kind # "falru"}

(* What the constructors accept, for one configuration.                     *)
LEMMA SetShape ==
  ASSUME NEW c \in SetConfigs
  PROVE  /\ c.kind \in {"setassoc", "sector", "compressed"}
         /\ c.sets \in Nat \ {0} /\ c.ways \in Nat \ {0} /\ c.offs \in Nat \ {0}
         /\ c.keys \subseteq [addr : Nat, secure : BOOLEAN]
         /\ c.pol \in PlainPolicies \cup {"Dueling"}
         /\ c.parts \subseteq {"max", "way"}
         /\ c.pol \in {"TreePLRU", "Dueling"} => c.parts = {}
         /\ c.kind = "setassoc" => c.offs = 1
         /\ c.kind # "setassoc" => "max" \notin c.parts
<1>1. c \in Configs /\ c.kind # "falru"
  BY DEF SetConfigs
<1>2. /\ c.kind \in {"setassoc", "sector", "compressed", "falru"}
      /\ c.keys \subseteq [addr : Nat, secure : BOOLEAN]
      /\ {c.sets, c.ways, c.offs} \subseteq Nat \ {0}
      /\ c.pol \in PlainPolicies \cup {"Dueling"}
      /\ c.parts \subseteq {"max", "way"}
      /\ c.pol \in {"TreePLRU", "Dueling"} => c.parts = {}
      /\ IF c.kind = "setassoc" THEN c.offs = 1 ELSE "max" \notin c.parts
  BY <1>1, ConfigsAssumption
<1> QED
  BY <1>1, <1>2

(* The entries and the frames are finitely many.                           *)
LEMMA FiniteStore ==
  ASSUME NEW c, c.sets \in Nat \ {0}, c.ways \in Nat \ {0}, c.offs \in Nat \ {0}
  PROVE  /\ IsFiniteSet(Entries(c)) /\ Cardinality(Entries(c)) = c.sets * c.ways
         /\ IsFiniteSet(Frames(c))
         /\ \A e \in Entries(c) : IsFiniteSet(FramesIn(c, e)) /\ FramesIn(c, e) \subseteq Frames(c)
<1> DEFINE S == 0..c.sets - 1
           W == 0..c.ways - 1
           O == 0..c.offs - 1
<1>1. ASSUME NEW m \in Nat \ {0}
      PROVE  IsFiniteSet(0..m - 1) /\ Cardinality(0..m - 1) = m
  <2>1. IsFiniteSet(0..m - 1)
        /\ Cardinality(0..m - 1) = IF 0 > m - 1 THEN 0 ELSE m - 1 - 0 + 1
    <3>1. 0 \in Int /\ m - 1 \in Int
      OBVIOUS
    <3> QED
      BY <3>1, FS_Interval
  <2> QED
    BY <2>1
<1>2. /\ IsFiniteSet(S) /\ Cardinality(S) = c.sets /\ IsFiniteSet(W) /\ Cardinality(W) = c.ways
      /\ IsFiniteSet(O)
  BY <1>1
<1> HIDE DEF S, W, O
<1>3. IsFiniteSet(S \X W) /\ Cardinality(S \X W) = c.sets * c.ways
  BY <1>2, FS_Product
<1>4. Entries(c) = S \X W /\ Frames(c) = S \X W \X O
  BY DEF Entries, Frames, S, W, O
<1>5. IsFiniteSet(S \X W \X O)
  <2> DEFINE P == (S \X W) \X O
             q == [x \in P |-> <<x[1][1], x[1][2], x[2]>>]
  <2>1. IsFiniteSet(P)
    BY <1>2, <1>3, FS_Product
  <2>2. q \in Surjection(P, S \X W \X O)
    <3>1. q \in [P -> S \X W \X O]
      OBVIOUS
    <3>2. ASSUME NEW f \in S \X W \X O
          PROVE  \E x \in P : q[x] = f
      <4>1. <<<<f[1], f[2]>>, f[3]>> \in P
        OBVIOUS
      <4>2. q[<<<<f[1], f[2]>>, f[3]>>] = f
        BY <4>1
      <4> QED
        BY <4>1, <4>2
    <3> HIDE DEF q
    <3> QED
      BY <3>1, <3>2 DEF Surjection
  <2> HIDE DEF q, P
  <2> QED
    BY <2>1, <2>2, FS_Surjection
<1>6. ASSUME NEW e \in Entries(c)
      PROVE  IsFiniteSet(FramesIn(c, e)) /\ FramesIn(c, e) \subseteq Frames(c)
  <2> DEFINE q == [o \in O |-> <<e[1], e[2], o>>]
  <2>1. q \in Surjection(O, FramesIn(c, e))
    <3>1. q \in [O -> FramesIn(c, e)] /\ \A f \in FramesIn(c, e) : \E o \in O : q[o] = f
      BY DEF FramesIn, O
    <3> HIDE DEF q
    <3> QED
      BY <3>1 DEF Surjection
  <2> HIDE DEF q
  <2>2. IsFiniteSet(FramesIn(c, e))
    BY <1>2, <2>1, FS_Surjection
  <2>3. FramesIn(c, e) \subseteq Frames(c)
    BY DEF FramesIn, Frames, Entries
  <2> QED
    BY <2>2, <2>3
<1> QED
  BY <1>3, <1>4, <1>5, <1>6

(* A frame and the entry it is in.                                         *)
LEMMA FrameOf ==
  ASSUME NEW c, c.sets \in Nat \ {0}, c.ways \in Nat \ {0}, c.offs \in Nat \ {0}
  PROVE  /\ \A f \in Frames(c) :
              /\ f[1] \in 0..c.sets - 1 /\ f[2] \in 0..c.ways - 1 /\ f[3] \in 0..c.offs - 1
              /\ entryOf(f) \in Entries(c) /\ f \in FramesIn(c, entryOf(f))
              /\ f = <<f[1], f[2], f[3]>>
         /\ \A e \in Entries(c) : /\ <<e[1], e[2], 0>> \in Frames(c) /\ e = <<e[1], e[2]>>
                                  /\ \A o \in 0..c.offs - 1 : <<e[1], e[2], o>> \in Frames(c)
         /\ \A e \in Entries(c) : \A f \in FramesIn(c, e) : entryOf(f) = e /\ f \in Frames(c)
BY DEF Frames, Entries, FramesIn, entryOf

(* What is left of the candidates.                                         *)
LEMMA LeftOnly ==
  ASSUME NEW E, NEW cs \in Seq(E), NEW I
  PROVE  Left(cs, I) \in Seq({cs[i] : i \in {j \in DOMAIN cs : j \in I}})
<1> DEFINE L == Len(cs)
           K == {cs[i] : i \in {j \in DOMAIN cs : j \in I}}
           step(g, n) == IF n = 0 THEN <<>>
                         ELSE IF n \in I THEN Append(g[n - 1], cs[n]) ELSE g[n - 1]
           upTo[n \in 0..L] == IF n = 0 THEN <<>>
                               ELSE IF n \in I THEN Append(upTo[n - 1], cs[n]) ELSE upTo[n - 1]
           OK(g, m) == \A n \in 0..L : n <= m => g[n] = step(g, n)
<1>1. Left(cs, I) = upTo[L]
  BY DEF Left
<1>2. L \in Nat /\ DOMAIN cs = 1..L
  OBVIOUS
<1> HIDE DEF L, upTo
<1>3. \A m \in Nat : \E g : DOMAIN g = 0..L /\ OK(g, m)
  <2> DEFINE G == {m \in Nat : \E g : DOMAIN g = 0..L /\ OK(g, m)}
  <2>1. 0 \in G
    <3> DEFINE g == [n \in 0..L |-> <<>>]
    <3>1. DOMAIN g = 0..L /\ OK(g, 0)
      BY <1>2
    <3> HIDE DEF g, OK
    <3>2. \E f : DOMAIN f = 0..L /\ OK(f, 0)
      BY <3>1
    <3> QED
      BY <3>2
  <2>2. \A m \in Nat : m \in G => m + 1 \in G
    <3> SUFFICES ASSUME NEW m \in Nat, m \in G
                 PROVE  m + 1 \in G
      OBVIOUS
    <3>0. PICK g : DOMAIN g = 0..L /\ OK(g, m)
      <4> HIDE DEF OK
      <4> QED
        OBVIOUS
    <3> DEFINE h == [g EXCEPT ![m + 1] = step(g, m + 1)]
    <3>1. DOMAIN h = 0..L
      BY <3>0
    <3>2. \A n \in 0..L : n <= m + 1 => step(h, n) = step(g, n)
      <4>1. \A n \in 0..L : n <= m + 1 /\ n # 0 => h[n - 1] = g[n - 1]
        BY <3>0
      <4> HIDE DEF h
      <4> QED
        BY <4>1
    <3>3. ASSUME NEW n \in 0..L, n <= m + 1
          PROVE  h[n] = step(h, n)
      <4>1. CASE n = m + 1
        <5>1. h[n] = step(g, n)
          <6> HIDE DEF step
          <6> QED
            BY <3>0, <4>1
        <5> QED
          BY <3>2, <3>3, <5>1
      <4>2. CASE n # m + 1
        <5>1. n <= m
          BY <1>2, <3>3, <4>2
        <5>2. h[n] = g[n] /\ g[n] = step(g, n)
          BY <3>0, <4>2, <5>1
        <5> QED
          BY <3>2, <3>3, <5>2
      <4> QED
        BY <4>1, <4>2
    <3> HIDE DEF h, step
    <3>4. \E f : DOMAIN f = 0..L /\ OK(f, m + 1)
      BY <3>1, <3>3
    <3> HIDE DEF OK
    <3> QED
      BY <3>4
  <2>3. Nat \subseteq G
    <3> HIDE DEF G
    <3> QED
      BY <2>1, <2>2, Inductive
  <2> HIDE DEF OK
  <2> QED
    BY <2>3
<1>4. upTo = [n \in 0..L |-> step(upTo, n)]
  <2>1. PICK g : DOMAIN g = 0..L /\ OK(g, L)
    <3> HIDE DEF OK
    <3> QED
      BY <1>2, <1>3
  <2> DEFINE h == [n \in 0..L |-> g[n]]
  <2>2. \A n \in 0..L : g[n] = step(g, n)
    BY <1>2, <2>1
  <2>3. \A n \in 0..L : step(h, n) = step(g, n)
    BY <1>2
  <2>4. h = [n \in 0..L |-> step(h, n)]
    <3> HIDE DEF step
    <3>1. \A n \in 0..L : h[n] = step(h, n)
      BY <2>2, <2>3
    <3> QED
      BY <3>1
  <2> HIDE DEF h
  <2> QED
    BY <2>4 DEF upTo
<1>5. \A n \in 0..L : upTo[n] = step(upTo, n)
  <2> HIDE DEF step
  <2> QED
    BY <1>4
<1>6. \A m \in Nat : m <= L => upTo[m] \in Seq(K)
  <2> DEFINE G == {m \in Nat : m <= L => upTo[m] \in Seq(K)}
  <2>1. 0 \in G
    <3>1. upTo[0] = <<>>
      BY <1>2, <1>5
    <3>2. <<>> \in Seq(K)
      <4> HIDE DEF K
      <4> QED
        OBVIOUS
    <3> HIDE DEF K
    <3> QED
      BY <3>1, <3>2
  <2>2. \A m \in Nat : m \in G => m + 1 \in G
    <3> SUFFICES ASSUME NEW m \in Nat, m \in G, m + 1 <= L
                 PROVE  upTo[m + 1] \in Seq(K)
      OBVIOUS
    <3>1. upTo[m] \in Seq(K) /\ m + 1 \in DOMAIN cs /\ (m + 1) - 1 = m /\ m + 1 # 0
          /\ m + 1 \in 0..L
      BY <1>2
    <3>2. upTo[m + 1] = IF m + 1 \in I THEN Append(upTo[m], cs[m + 1]) ELSE upTo[m]
      BY <1>5, <3>1
    <3>3. m + 1 \in I => cs[m + 1] \in K
      BY <3>1
    <3> HIDE DEF K
    <3> QED
      BY <3>1, <3>2, <3>3
  <2>3. Nat \subseteq G
    <3> HIDE DEF G
    <3> QED
      BY <2>1, <2>2, Inductive
  <2> HIDE DEF K
  <2> QED
    BY <2>3
<1> QED
  BY <1>1, <1>2, <1>6

StoreFields == {"c", "blk", "sec", "rp", "inUse", "cur", "max", "bad"}
BlkFields   == {"valid", "tag", "secure", "part", "size", "compressed"}
SecFields   == {"tag", "secure", "count", "cf"}

BlkOK(b) ==
  /\ DOMAIN b = BlkFields /\ b.valid \in BOOLEAN
  /\ b.valid => b.tag \in Nat /\ b.part \in PartIds
  /\ ~b.valid => b.part = Absent

IsStore(t) ==
  /\ DOMAIN t = StoreFields /\ t.c \in SetConfigs
  /\ DOMAIN t.blk = Frames(t.c) /\ \A f \in Frames(t.c) : BlkOK(t.blk[f])
  /\ DOMAIN t.sec = Entries(t.c) /\ \A e \in Entries(t.c) : DOMAIN t.sec[e] = SecFields
  /\ RpOK(t.rp, t.c)
  /\ DOMAIN t.cur = PartIds /\ DOMAIN t.max = PartIds

(* No two frames of a set and a place in the sector hold the same address. *)
Unique(t) ==
  \A f, g \in Frames(t.c) :
    /\ t.blk[f].valid /\ t.blk[g].valid /\ f[1] = g[1] /\ f[3] = g[3]
    /\ t.blk[f].tag = t.blk[g].tag /\ t.blk[f].secure = t.blk[g].secure
    => f = g

SectorsOK(t) ==
  Sectored(t) => \A e \in Entries(t.c) :
    /\ t.sec[e].count = Cardinality(ValidIn(t, e))
    /\ \A f \in ValidIn(t, e) : /\ t.blk[f].tag = t.sec[e].tag
                                /\ t.blk[f].secure = t.sec[e].secure

Occupied(t) == {e \in Entries(t.c) : entryValid(t, e)}
InUseOK(t)  == t.inUse = Cardinality(Occupied(t))

Held(t, p) == {f \in Frames(t.c) : t.blk[f].valid /\ t.blk[f].part = p}
(* A partition with no room, or that nothing is said of, still gets a block. *)
Limit(p) == IF Capacity[p] > 0 THEN Capacity[p] ELSE 1

CapacityOK(t) ==
  "max" \in t.c.parts => \A p \in PartIds :
    /\ t.cur[p] \in Nat \cup {Absent} /\ orZero(t.cur[p]) = Cardinality(Held(t, p))
    /\ orZero(t.cur[p]) <= Limit(p)
    /\ t.max[p] = Capacity[p] \/ (Capacity[p] = Absent /\ t.max[p] = 0)
    /\ t.max[p] = Absent => t.cur[p] = Absent

WaysOK(t) ==
  "way" \in t.c.parts => \A f \in Frames(t.c) :
    t.blk[f].valid /\ t.blk[f].part \in DOMAIN WaysOf => f[2] \in WaysOf[t.blk[f].part]

StoreOK(t) ==
  /\ IsStore(t) /\ Unique(t) /\ SectorsOK(t) /\ InUseOK(t) /\ CapacityOK(t) /\ WaysOK(t)
  /\ t.bad = FALSE

(* The size of a set without one of its elements.                           *)
LEMMA OneLess ==
  ASSUME NEW S, IsFiniteSet(S), NEW x \in S
  PROVE  /\ Cardinality(S) \in Nat /\ Cardinality(S) >= 1
         /\ Cardinality(S \ {x}) = Cardinality(S) - 1
         /\ Cardinality(S) = 1 => S = {x}
<1>1. Cardinality(S) \in Nat /\ Cardinality(S \ {x}) = Cardinality(S) - 1
      /\ IsFiniteSet(S \ {x})
  BY FS_RemoveElement, FS_CardinalityType
<1>2. Cardinality(S \ {x}) \in Nat
  BY <1>1, FS_CardinalityType
<1>3. Cardinality(S) = 1 => S \ {x} = {}
  BY <1>1, FS_EmptySet
<1> QED
  BY <1>1, <1>2, <1>3

(* The size of a set with one more element.                                 *)
LEMMA OneMore ==
  ASSUME NEW S, IsFiniteSet(S), NEW x, x \notin S
  PROVE  /\ Cardinality(S) \in Nat
         /\ Cardinality(S \cup {x}) = Cardinality(S) + 1
BY FS_AddElement, FS_CardinalityType

(* The sizes of a store, and the finite sets its counters count.            *)
LEMMA StoreShape ==
  ASSUME NEW t, IsStore(t)
  PROVE  /\ t.c \in SetConfigs
         /\ t.c.sets \in Nat \ {0} /\ t.c.ways \in Nat \ {0} /\ t.c.offs \in Nat \ {0}
         /\ ~Sectored(t) => t.c.offs = 1
         /\ Sectored(t) => "max" \notin t.c.parts
         /\ \A e \in Entries(t.c) : IsFiniteSet(ValidIn(t, e))
         /\ \A p : IsFiniteSet(Held(t, p))
         /\ IsFiniteSet(Occupied(t))
<1>1. t.c \in SetConfigs
  BY DEF IsStore
<1>2. /\ t.c.sets \in Nat \ {0} /\ t.c.ways \in Nat \ {0} /\ t.c.offs \in Nat \ {0}
      /\ ~Sectored(t) => t.c.offs = 1
      /\ Sectored(t) => "max" \notin t.c.parts
  BY <1>1, SetShape DEF Sectored
<1>3. /\ IsFiniteSet(Entries(t.c)) /\ IsFiniteSet(Frames(t.c))
      /\ \A e \in Entries(t.c) : IsFiniteSet(FramesIn(t.c, e))
  BY <1>2, FiniteStore
<1>4. /\ \A e : ValidIn(t, e) \subseteq FramesIn(t.c, e)
      /\ \A p : Held(t, p) \subseteq Frames(t.c)
      /\ Occupied(t) \subseteq Entries(t.c)
  BY DEF ValidIn, Held, Occupied
<1> QED
  BY <1>1, <1>2, <1>3, <1>4, FS_Subset

(* What the loss of a block leaves as it was.                              *)
LEMMA Dropped ==
  ASSUME NEW t, StoreOK(t), NEW f \in Frames(t.c), t.blk[f].valid,
         NEW u, u.c = t.c, u.blk = [t.blk EXCEPT ![f] = NoBlk]
  PROVE  /\ \A g \in Frames(t.c) : BlkOK(u.blk[g])
         /\ DOMAIN u.blk = Frames(t.c)
         /\ Unique(u) /\ WaysOK(u)
         /\ \A e \in Entries(t.c) : ValidIn(u, e) = ValidIn(t, e) \ {f}
         /\ \A p : Held(u, p) = Held(t, p) \ {f}
         /\ f \in Held(t, t.blk[f].part) /\ f \in ValidIn(t, entryOf(f))
         /\ Sectored(u) <=> Sectored(t)
<1>1. DOMAIN t.blk = Frames(t.c) /\ \A g \in Frames(t.c) : BlkOK(t.blk[g])
  BY DEF StoreOK, IsStore
<1>2. BlkOK(NoBlk) /\ NoBlk.valid = FALSE
  BY DEF BlkOK, NoBlk, BlkFields
<1>3. /\ u.blk[f] = NoBlk /\ \A g \in Frames(t.c) \ {f} : u.blk[g] = t.blk[g]
      /\ DOMAIN u.blk = Frames(t.c)
  BY <1>1
<1>4. \A g \in Frames(t.c) : u.blk[g].valid => t.blk[g].valid /\ u.blk[g] = t.blk[g]
  BY <1>2, <1>3
<1>5. Unique(u)
  BY <1>4 DEF Unique, StoreOK
<1>6. WaysOK(u)
  BY <1>4 DEF WaysOK, StoreOK
<1>7. ASSUME NEW e \in Entries(t.c)
      PROVE  ValidIn(u, e) = ValidIn(t, e) \ {f}
  <2>1. FramesIn(t.c, e) \subseteq Frames(t.c)
    BY StoreShape, FiniteStore DEF StoreOK
  <2> QED
    BY <1>2, <1>3, <2>1 DEF ValidIn
<1>8. ASSUME NEW p
      PROVE  Held(u, p) = Held(t, p) \ {f}
  BY <1>2, <1>3 DEF Held
<1>9. f \in Held(t, t.blk[f].part) /\ f \in ValidIn(t, entryOf(f))
  <2>1. f \in FramesIn(t.c, entryOf(f))
    BY StoreShape, FrameOf DEF StoreOK
  <2> QED
    BY <2>1 DEF Held, ValidIn
<1> QED
  BY <1>1, <1>2, <1>3, <1>5, <1>6, <1>7, <1>8, <1>9 DEF Sectored

(* BaseSetAssoc::invalidate: the partition and the counters follow the      *)
(* block.                                                                   *)
LEMMA Released ==
  ASSUME NEW t, StoreOK(t), ~Sectored(t), NEW f \in Frames(t.c), t.blk[f].valid,
         NEW u, u = setAssocInvalidate(t, f)
  PROVE  /\ StoreOK(u) /\ u.c = t.c /\ u.blk = [t.blk EXCEPT ![f] = NoBlk] /\ u.max = t.max
         /\ u.cur = IF "max" \in t.c.parts
                    THEN [t.cur EXCEPT ![t.blk[f].part] = orZero(@) - 1] ELSE t.cur
<1> DEFINE p == t.blk[f].part
           e == entryOf(f)
           n == notifyRelease(t, p)
           w == blkInvalidate(n, f)
<1>1. /\ DOMAIN t = StoreFields /\ t.bad = FALSE /\ IsStore(t) /\ p \in PartIds
      /\ DOMAIN t.cur = PartIds /\ DOMAIN t.max = PartIds
      /\ DOMAIN t.sec = Entries(t.c) /\ RpOK(t.rp, t.c)
      /\ \A d \in Entries(t.c) : DOMAIN t.sec[d] = SecFields
  BY DEF StoreOK, IsStore, BlkOK
<1>2. e \in Entries(t.c) /\ f = <<e[1], e[2], 0>>
      /\ \A d \in Entries(t.c) : <<d[1], d[2], 0>> \in Frames(t.c) /\ d = <<d[1], d[2]>>
  <2>1. t.c.offs = 1 /\ f[3] \in 0..t.c.offs - 1 /\ f = <<f[1], f[2], f[3]>> /\ e \in Entries(t.c)
        /\ \A d \in Entries(t.c) : <<d[1], d[2], 0>> \in Frames(t.c) /\ d = <<d[1], d[2]>>
    BY <1>1, StoreShape, FrameOf
  <2> QED
    BY <2>1 DEF entryOf
<1>3. /\ DOMAIN n = StoreFields /\ n.c = t.c /\ n.blk = t.blk /\ n.sec = t.sec /\ n.rp = t.rp
      /\ n.inUse = t.inUse /\ n.max = t.max
      /\ n.cur = IF "max" \in t.c.parts THEN [t.cur EXCEPT ![p] = orZero(@) - 1] ELSE t.cur
      /\ n.bad = ("max" \in t.c.parts /\ orZero(t.cur[p]) <= 0)
  <2> HIDE DEF p
  <2> QED
    BY <1>1 DEF notifyRelease, StoreFields
<1> HIDE DEF n
<1>4. ~Sectored(n)
  BY <1>3 DEF Sectored
<1>5. /\ DOMAIN w = StoreFields /\ w.c = t.c /\ w.blk = [t.blk EXCEPT ![f] = NoBlk]
      /\ DOMAIN w.sec = Entries(t.c) /\ \A d \in Entries(t.c) : DOMAIN w.sec[d] = SecFields
      /\ w.rp = t.rp
      /\ w.inUse = t.inUse /\ w.max = t.max /\ w.cur = n.cur /\ w.bad = n.bad
  <2>1. w = [n EXCEPT !.blk[f] = NoBlk, !.bad = @ \/ ~n.blk[f].valid, !.sec[e] = n.sec[e]]
    BY <1>4 DEF blkInvalidate
  <2>2. /\ DOMAIN w = StoreFields /\ w.c = t.c /\ w.blk = [t.blk EXCEPT ![f] = NoBlk]
        /\ w.sec = [t.sec EXCEPT ![e] = t.sec[e]] /\ w.rp = t.rp
        /\ w.inUse = t.inUse /\ w.max = t.max /\ w.cur = n.cur
        /\ w.bad = (n.bad \/ ~t.blk[f].valid)
    BY <1>3, <2>1 DEF StoreFields
  <2>3. n.bad \in BOOLEAN
    BY <1>3
  <2> HIDE DEF w
  <2> QED
    BY <1>1, <2>2, <2>3
<1> HIDE DEF w
<1>6. u = [w EXCEPT !.inUse = @ - 1, !.rp = rpInvalidate(@, e)]
  BY DEF setAssocInvalidate, w, n
<1>7. /\ DOMAIN u = StoreFields /\ u.c = t.c /\ u.blk = [t.blk EXCEPT ![f] = NoBlk]
      /\ u.sec = w.sec /\ u.rp = rpInvalidate(t.rp, e)
      /\ u.inUse = t.inUse - 1 /\ u.max = t.max /\ u.cur = n.cur /\ u.bad = n.bad
  BY <1>5, <1>6 DEF StoreFields
<1>8. RpOK(u.rp, u.c)
  BY <1>1, <1>2, <1>7, RpInvalidated
<1>9. /\ \A g \in Frames(t.c) : BlkOK(u.blk[g])
      /\ DOMAIN u.blk = Frames(t.c)
      /\ Unique(u) /\ WaysOK(u)
      /\ \A q : Held(u, q) = Held(t, q) \ {f}
      /\ f \in Held(t, p) /\ ~Sectored(u)
  BY <1>7, Dropped
<1>10. IsStore(u)
  <2>1. DOMAIN n.cur = PartIds
    BY <1>1, <1>3
  <2> QED
    BY <1>1, <1>5, <1>7, <1>8, <1>9, <2>1 DEF IsStore
<1>11. InUseOK(u)
  <2>1. e \in Occupied(t)
    BY <1>2 DEF Occupied, entryValid
  <2>2. \A d \in Entries(t.c) : <<d[1], d[2], 0>> = f <=> d = e
    BY <1>2
  <2>3. \A d \in Entries(t.c) : entryValid(u, d) <=> entryValid(t, d) /\ d # e
    <3>1. DOMAIN t.blk = Frames(t.c) /\ NoBlk.valid = FALSE
      BY <1>1 DEF IsStore, NoBlk
    <3> QED
      BY <1>2, <1>7, <1>9, <2>2, <3>1 DEF entryValid
  <2>4. Occupied(u) = Occupied(t) \ {e}
    BY <1>7, <2>3 DEF Occupied
  <2> QED
    BY <1>1, <1>7, <2>1, <2>4, StoreShape, OneLess DEF InUseOK, StoreOK
<1>12. "max" \in t.c.parts =>
         /\ t.cur[p] \in Nat /\ t.cur[p] >= 1 /\ orZero(t.cur[p]) = t.cur[p]
         /\ CapacityOK(u)
  <2> SUFFICES ASSUME "max" \in t.c.parts
               PROVE  /\ t.cur[p] \in Nat /\ t.cur[p] >= 1 /\ orZero(t.cur[p]) = t.cur[p]
                      /\ CapacityOK(u)
    OBVIOUS
  <2>1. \A q \in PartIds :
          /\ t.cur[q] \in Nat \cup {Absent} /\ orZero(t.cur[q]) = Cardinality(Held(t, q))
          /\ orZero(t.cur[q]) <= Limit(q)
          /\ t.max[q] = Capacity[q] \/ (Capacity[q] = Absent /\ t.max[q] = 0)
          /\ t.max[q] = Absent => t.cur[q] = Absent
    BY DEF StoreOK, CapacityOK
  <2>2. Cardinality(Held(t, p)) \in Nat /\ Cardinality(Held(t, p)) >= 1
        /\ Cardinality(Held(t, p) \ {f}) = Cardinality(Held(t, p)) - 1
    BY <1>1, <1>9, StoreShape, OneLess
  <2>3. t.cur[p] \in Nat /\ t.cur[p] >= 1 /\ orZero(t.cur[p]) = t.cur[p]
    BY <1>1, <2>1, <2>2 DEF orZero, Absent
  <2>4. u.cur = [t.cur EXCEPT ![p] = t.cur[p] - 1]
    BY <1>3, <1>7, <2>3
  <2>5. ASSUME NEW q \in PartIds
        PROVE  /\ u.cur[q] \in Nat \cup {Absent} /\ orZero(u.cur[q]) = Cardinality(Held(u, q))
               /\ orZero(u.cur[q]) <= Limit(q)
               /\ u.max[q] = Capacity[q] \/ (Capacity[q] = Absent /\ u.max[q] = 0)
               /\ u.max[q] = Absent => u.cur[q] = Absent
    <3>1. CASE q = p
      <4>1. u.cur[p] = t.cur[p] - 1 /\ u.max[p] = t.max[p]
        BY <1>1, <1>7, <2>4
      <4>2. t.max[p] # Absent
        BY <1>1, <2>1, <2>3 DEF Absent
      <4>3. t.cur[p] <= Limit(p) /\ Limit(p) \in Int
        <5>1. Capacity[p] \in Int
          BY <1>1, PartitionsAssumption DEF Absent
        <5> QED
          BY <1>1, <2>1, <2>3, <5>1 DEF Limit
      <4>4. orZero(u.cur[p]) = t.cur[p] - 1
        BY <2>3, <4>1 DEF orZero, Absent
      <4>5. Held(u, p) = Held(t, p) \ {f}
        BY <1>9
      <4> QED
        BY <1>1, <2>1, <2>2, <2>3, <3>1, <4>1, <4>2, <4>3, <4>4, <4>5
    <3>2. CASE q # p
      <4>1. f \notin Held(t, q)
        BY <3>2 DEF Held
      <4>2. Held(u, q) = Held(t, q)
        BY <1>9, <4>1
      <4>3. u.cur[q] = t.cur[q] /\ u.max[q] = t.max[q]
        BY <1>1, <1>7, <2>4, <3>2
      <4> QED
        BY <2>1, <4>2, <4>3
    <3> QED
      BY <3>1, <3>2
  <2>6. CapacityOK(u)
    BY <2>5 DEF CapacityOK
  <2> QED
    BY <2>3, <2>6
<1>13. CapacityOK(u)
  <2>1. CASE "max" \in t.c.parts
    BY <1>12, <2>1
  <2>2. CASE "max" \notin t.c.parts
    BY <1>7, <2>2 DEF CapacityOK
  <2> QED
    BY <2>1, <2>2
<1>14. u.bad = FALSE
  <2>1. "max" \in t.c.parts => ~(orZero(t.cur[p]) <= 0)
    BY <1>12
  <2> HIDE DEF p
  <2> QED
    BY <1>3, <1>7, <2>1
<1>15. SectorsOK(u)
  BY <1>9 DEF SectorsOK
<1>16. StoreOK(u)
  BY <1>9, <1>10, <1>11, <1>13, <1>14, <1>15 DEF StoreOK
<1> QED
  BY <1>3, <1>7, <1>16

(* SectorTags::invalidate: a sector goes with its last block.               *)
LEMMA SectorLoses ==
  ASSUME NEW t, StoreOK(t), Sectored(t), NEW f \in Frames(t.c), t.blk[f].valid,
         NEW u, u = sectorInvalidate(t, f)
  PROVE  StoreOK(u) /\ u.c = t.c /\ u.blk = [t.blk EXCEPT ![f] = NoBlk]
<1> DEFINE e == entryOf(f)
           w == blkInvalidate(t, f)
           s == IF t.sec[e].count = 1 THEN NoSector
                ELSE [t.sec[e] EXCEPT !.count = t.sec[e].count - 1]
<1>1. /\ DOMAIN t = StoreFields /\ t.bad = FALSE /\ IsStore(t)
      /\ DOMAIN t.sec = Entries(t.c) /\ RpOK(t.rp, t.c)
      /\ \A d \in Entries(t.c) : DOMAIN t.sec[d] = SecFields
      /\ DOMAIN t.cur = PartIds /\ DOMAIN t.max = PartIds
  BY DEF StoreOK, IsStore
<1>2. /\ e \in Entries(t.c) /\ "max" \notin t.c.parts
      /\ \A d \in Entries(t.c) : \A g \in FramesIn(t.c, d) : entryOf(g) = d
      /\ \A d \in Entries(t.c) : IsFiniteSet(ValidIn(t, d))
      /\ IsFiniteSet(Occupied(t))
  BY <1>1, StoreShape, FrameOf
<1>3. /\ t.sec[e].count = Cardinality(ValidIn(t, e)) /\ f \in ValidIn(t, e)
      /\ Cardinality(ValidIn(t, e)) \in Nat /\ Cardinality(ValidIn(t, e)) >= 1
      /\ Cardinality(ValidIn(t, e) \ {f}) = Cardinality(ValidIn(t, e)) - 1
      /\ Cardinality(ValidIn(t, e)) = 1 => ValidIn(t, e) = {f}
  <2>1. f \in ValidIn(t, e)
    <3>1. f \in FramesIn(t.c, e)
      BY <1>1, StoreShape, FrameOf
    <3> QED
      BY <3>1 DEF ValidIn
  <2>2. t.sec[e].count = Cardinality(ValidIn(t, e))
    BY <1>2 DEF StoreOK, SectorsOK
  <2> QED
    BY <1>2, <2>1, <2>2, OneLess
<1>4. /\ DOMAIN w = StoreFields /\ w.c = t.c /\ w.blk = [t.blk EXCEPT ![f] = NoBlk]
      /\ w.sec = [t.sec EXCEPT ![e] = s] /\ w.rp = t.rp
      /\ w.inUse = t.inUse /\ w.max = t.max /\ w.cur = t.cur /\ w.bad = FALSE
  <2>1. w = [t EXCEPT !.blk[f] = NoBlk, !.bad = @ \/ ~t.blk[f].valid, !.sec[e] = s]
    BY DEF blkInvalidate
  <2> HIDE DEF s, e
  <2> QED
    BY <1>1, <2>1 DEF StoreFields
<1>5. DOMAIN s = SecFields /\ s.count = t.sec[e].count - 1
      /\ (s.count # 0 => s.tag = t.sec[e].tag /\ s.secure = t.sec[e].secure)
  <2>1. CASE t.sec[e].count = 1
    BY <2>1 DEF NoSector, SecFields
  <2>2. CASE t.sec[e].count # 1
    BY <1>1, <1>2, <2>2 DEF SecFields
  <2> QED
    BY <2>1, <2>2
<1> HIDE DEF w, s
<1>6. w.sec[e] = s /\ \A d \in Entries(t.c) \ {e} : w.sec[d] = t.sec[d]
  BY <1>1, <1>2, <1>4
<1>7. u = IF s.count > 0 THEN w
          ELSE [w EXCEPT !.inUse = @ - 1, !.bad = @ \/ w.inUse - 1 < 0, !.rp = rpInvalidate(@, e)]
  BY <1>6 DEF sectorInvalidate, w
<1>8. Cardinality(Occupied(t)) \in Nat /\ e \in Occupied(t) /\ t.inUse = Cardinality(Occupied(t))
      /\ t.inUse >= 1 /\ Cardinality(Occupied(t) \ {e}) = t.inUse - 1
  <2>1. e \in Occupied(t)
    BY <1>2, <1>3 DEF Occupied, entryValid
  <2> QED
    BY <1>2, <2>1, OneLess DEF StoreOK, InUseOK
<1>9. /\ DOMAIN u = StoreFields /\ u.c = t.c /\ u.blk = [t.blk EXCEPT ![f] = NoBlk]
      /\ u.sec = w.sec /\ u.rp \in {t.rp, rpInvalidate(t.rp, e)}
      /\ u.inUse = IF s.count > 0 THEN t.inUse ELSE t.inUse - 1
      /\ u.max = t.max /\ u.cur = t.cur /\ u.bad = FALSE
  <2>1. CASE s.count > 0
    BY <1>4, <1>7, <2>1
  <2>2. CASE ~(s.count > 0)
    <3>1. ~(w.inUse - 1 < 0)
      BY <1>4, <1>8
    <3>2. u = [w EXCEPT !.inUse = t.inUse - 1, !.bad = FALSE, !.rp = rpInvalidate(t.rp, e)]
      BY <1>4, <1>7, <2>2, <3>1
    <3> HIDE DEF e
    <3> QED
      BY <1>4, <2>2, <3>2 DEF StoreFields
  <2> QED
    BY <2>1, <2>2
<1>10. RpOK(u.rp, u.c)
  BY <1>1, <1>2, <1>9, RpInvalidated
<1>11. /\ \A g \in Frames(t.c) : BlkOK(u.blk[g])
       /\ DOMAIN u.blk = Frames(t.c)
       /\ Unique(u) /\ WaysOK(u)
       /\ \A d \in Entries(t.c) : ValidIn(u, d) = ValidIn(t, d) \ {f}
       /\ Sectored(u)
  BY <1>9, Dropped
<1>12. \A d \in Entries(t.c) : DOMAIN u.sec[d] = SecFields
  BY <1>1, <1>5, <1>6, <1>9
<1>13. IsStore(u)
  <2>1. DOMAIN u.sec = Entries(t.c)
    BY <1>1, <1>4, <1>9
  <2> QED
    BY <1>1, <1>9, <1>10, <1>11, <1>12, <2>1 DEF IsStore
<1>14. SectorsOK(u)
  <2> SUFFICES ASSUME NEW d \in Entries(t.c)
               PROVE  /\ u.sec[d].count = Cardinality(ValidIn(u, d))
                      /\ \A g \in ValidIn(u, d) : /\ u.blk[g].tag = u.sec[d].tag
                                                  /\ u.blk[g].secure = u.sec[d].secure
    BY <1>9 DEF SectorsOK
  <2>1. t.sec[d].count = Cardinality(ValidIn(t, d))
        /\ \A g \in ValidIn(t, d) : /\ t.blk[g].tag = t.sec[d].tag
                                    /\ t.blk[g].secure = t.sec[d].secure
    BY DEF StoreOK, SectorsOK
  <2>2. ASSUME NEW g \in ValidIn(u, d)
        PROVE  u.blk[g] = t.blk[g] /\ g \in ValidIn(t, d)
    <3>1. g \in ValidIn(t, d) /\ g # f
      BY <1>11, <2>2
    <3>2. DOMAIN t.blk = Frames(t.c)
      BY <1>1 DEF IsStore
    <3>3. g \in Frames(t.c)
      BY <1>1, <3>1, StoreShape, FrameOf DEF ValidIn
    <3> QED
      BY <1>9, <3>1, <3>2, <3>3
  <2>3. CASE d = e
    <3>1. u.sec[d] = s
      BY <1>6, <1>9, <2>3
    <3>2. u.sec[d].count = Cardinality(ValidIn(u, d))
      BY <1>3, <1>5, <1>11, <2>3, <3>1
    <3>3. ASSUME NEW g \in ValidIn(u, d)
          PROVE  u.blk[g].tag = u.sec[d].tag /\ u.blk[g].secure = u.sec[d].secure
      <4>1. s.count # 0
        <5>1. ValidIn(t, e) # {f}
          BY <1>11, <2>3, <3>3
        <5> QED
          BY <1>3, <1>5, <5>1
      <4> QED
        BY <1>5, <2>1, <2>2, <2>3, <3>1, <3>3, <4>1
    <3> QED
      BY <3>2, <3>3
  <2>4. CASE d # e
    <3>1. f \notin ValidIn(t, d)
      BY <1>2, <2>4 DEF ValidIn
    <3>2. ValidIn(u, d) = ValidIn(t, d) /\ u.sec[d] = t.sec[d]
      <4>1. u.sec[d] = t.sec[d]
        BY <1>6, <1>9, <1>11, <2>4
      <4>2. ValidIn(u, d) = ValidIn(t, d) \ {f}
        BY <1>6, <1>9, <1>11, <2>4
      <4> QED
        BY <3>1, <4>1, <4>2
    <3> QED
      BY <2>1, <2>2, <3>2
  <2> QED
    BY <2>3, <2>4
<1>15. InUseOK(u)
  <2>1. \A d \in Entries(t.c) \ {e} : entryValid(u, d) <=> entryValid(t, d)
    BY <1>6, <1>9, <1>11 DEF entryValid
  <2>2. entryValid(u, e) <=> s.count > 0
    BY <1>6, <1>9, <1>11 DEF entryValid
  <2>3. Occupied(u) = IF s.count > 0 THEN Occupied(t) ELSE Occupied(t) \ {e}
    BY <1>2, <1>8, <1>9, <2>1, <2>2 DEF Occupied
  <2> QED
    BY <1>8, <1>9, <2>3 DEF InUseOK
<1>16. CapacityOK(u)
  BY <1>2, <1>9 DEF CapacityOK
<1>17. StoreOK(u)
  BY <1>9, <1>11, <1>13, <1>14, <1>15, <1>16 DEF StoreOK
<1> QED
  BY <1>9, <1>17

(* invalidate takes one block out of any store.                             *)
LEMMA Invalidated ==
  ASSUME NEW t, StoreOK(t), NEW f \in Frames(t.c), t.blk[f].valid,
         NEW u, u = invalidate(t, f)
  PROVE  StoreOK(u) /\ u.c = t.c /\ u.blk = [t.blk EXCEPT ![f] = NoBlk]
<1>1. CASE Sectored(t)
  <2>1. u = sectorInvalidate(t, f)
    BY <1>1 DEF invalidate
  <2> QED
    BY <1>1, <2>1, SectorLoses
<1>2. CASE ~Sectored(t)
  <2>1. u = setAssocInvalidate(t, f)
    BY <1>2 DEF invalidate
  <2>2. /\ StoreOK(u) /\ u.c = t.c /\ u.blk = [t.blk EXCEPT ![f] = NoBlk] /\ u.max = t.max
        /\ u.cur = IF "max" \in t.c.parts
                   THEN [t.cur EXCEPT ![t.blk[f].part] = orZero(@) - 1] ELSE t.cur
    BY <1>2, <2>1, Released
  <2> QED
    BY <2>2
<1> QED
  BY <1>1, <1>2

Evict(f, u) == IF u.blk[f].valid THEN invalidate(u, f) ELSE u

(* The store without the blocks of F.                                      *)
Without(t, F, u) ==
  /\ StoreOK(u) /\ u.c = t.c
  /\ \A f \in F : ~u.blk[f].valid
  /\ \A f \in Frames(t.c) \ F : u.blk[f] = t.blk[f]

(* One more victim has gone.                                                *)
LEMMA EvictedOne ==
  ASSUME NEW t, NEW F \in SUBSET Frames(t.c), NEW f \in F, NEW v, Without(t, F \ {f}, v)
  PROVE  Without(t, F, Evict(f, v))
<1>1. StoreOK(v) /\ v.c = t.c /\ f \in Frames(v.c) /\ DOMAIN v.blk = Frames(t.c)
  BY DEF Without, StoreOK, IsStore
<1>2. CASE v.blk[f].valid
  <2> DEFINE u == invalidate(v, f)
  <2>1. StoreOK(u) /\ u.c = v.c /\ u.blk = [v.blk EXCEPT ![f] = NoBlk]
    BY <1>1, <1>2, Invalidated
  <2>2. Evict(f, v) = u
    BY <1>2 DEF Evict
  <2> HIDE DEF u
  <2>3. \A g \in Frames(t.c) : u.blk[g] = IF g = f THEN NoBlk ELSE v.blk[g]
    BY <1>1, <2>1
  <2> QED
    BY <1>1, <2>1, <2>2, <2>3 DEF Without, NoBlk
<1>3. CASE ~v.blk[f].valid
  BY <1>3 DEF Without, Evict
<1> QED
  BY <1>2, <1>3

(* handleEvictions takes the valid victims out, in whatever order it meets  *)
(* them.                                                                    *)
LEMMA Evicted ==
  ASSUME NEW t, StoreOK(t), NEW F \in SUBSET Frames(t.c), IsFiniteSet(F)
  PROVE  /\ Without(t, F, handleEvictions(t, F))
         /\ \A f : F = {f} => handleEvictions(t, F) = Evict(f, t)
<1> DEFINE pick(s) == CHOOSE x \in s : TRUE
           step(g, s) == IF s = {} THEN t ELSE Evict(pick(s), g[s \ {pick(s)}])
           it[s \in SUBSET F] == IF s = {} THEN t ELSE Evict(pick(s), it[s \ {pick(s)}])
           OK(g, n) == \A s \in SUBSET F : Cardinality(s) <= n => g[s] = step(g, s)
<1>1. handleEvictions(t, F) = it[F]
  BY DEF handleEvictions, FoldSet, MapThenFoldSet, Evict
<1>2. \A s \in SUBSET F : /\ IsFiniteSet(s) /\ Cardinality(s) \in Nat
                          /\ s # {} => /\ pick(s) \in s /\ s \ {pick(s)} \in SUBSET F
                                       /\ Cardinality(s \ {pick(s)}) = Cardinality(s) - 1
                          /\ Cardinality(s) = 0 => s = {}
  <2>1. \A s \in SUBSET F : IsFiniteSet(s)
    BY FS_Subset
  <2>2. \A s \in SUBSET F : s # {} => pick(s) \in s
    OBVIOUS
  <2> HIDE DEF pick
  <2>3. \A s \in SUBSET F : s # {} => Cardinality(s \ {pick(s)}) = Cardinality(s) - 1
    BY <2>1, <2>2, OneLess
  <2> QED
    BY <2>1, <2>2, <2>3, FS_CardinalityType, FS_EmptySet
<1> HIDE DEF it, pick
<1>0. \A s \in SUBSET F : Cardinality(s) <= 0 => s = {}
  <2> SUFFICES ASSUME NEW s \in SUBSET F, Cardinality(s) <= 0
               PROVE  s = {}
    OBVIOUS
  <2>1. Cardinality(s) \in Nat /\ (Cardinality(s) = 0 => s = {})
    BY <1>2
  <2> QED
    BY <2>1
<1>3. \A n \in Nat : \E g : DOMAIN g = SUBSET F /\ OK(g, n)
  <2> DEFINE G == {n \in Nat : \E g : DOMAIN g = SUBSET F /\ OK(g, n)}
  <2>1. 0 \in G
    <3> DEFINE g == [s \in SUBSET F |-> t]
    <3>1. DOMAIN g = SUBSET F /\ OK(g, 0)
      BY <1>0
    <3> HIDE DEF g, OK
    <3>2. \E h : DOMAIN h = SUBSET F /\ OK(h, 0)
      BY <3>1
    <3> QED
      BY <3>2
  <2>2. \A n \in Nat : n \in G => n + 1 \in G
    <3> SUFFICES ASSUME NEW n \in Nat, n \in G
                 PROVE  n + 1 \in G
      OBVIOUS
    <3>0. PICK g : DOMAIN g = SUBSET F /\ OK(g, n)
      <4> HIDE DEF OK
      <4> QED
        OBVIOUS
    <3> DEFINE h == [s \in SUBSET F |-> step(g, s)]
    <3>1. DOMAIN h = SUBSET F
      OBVIOUS
    <3>2. \A s \in SUBSET F : Cardinality(s) <= n => h[s] = g[s]
      <4> HIDE DEF step
      <4> QED
        BY <3>0
    <3> HIDE DEF step, h
    <3>3. \A s \in SUBSET F : Cardinality(s) <= n + 1 => step(h, s) = step(g, s)
      <4> SUFFICES ASSUME NEW s \in SUBSET F, Cardinality(s) <= n + 1
                   PROVE  step(h, s) = step(g, s)
        OBVIOUS
      <4>1. CASE s = {}
        BY <4>1 DEF step
      <4>2. CASE s # {}
        <5>1. s \ {pick(s)} \in SUBSET F /\ Cardinality(s \ {pick(s)}) <= n
          BY <1>2, <4>2
        <5>2. h[s \ {pick(s)}] = g[s \ {pick(s)}]
          BY <3>2, <5>1
        <5> QED
          BY <5>2 DEF step
      <4> QED
        BY <4>1, <4>2
    <3>4. \A s \in SUBSET F : h[s] = step(g, s)
      BY DEF h
    <3>5. OK(h, n + 1)
      BY <3>3, <3>4
    <3> HIDE DEF OK
    <3>6. \E f : DOMAIN f = SUBSET F /\ OK(f, n + 1)
      BY <3>1, <3>5
    <3> QED
      BY <3>6
  <2>3. Nat \subseteq G
    <3> HIDE DEF G
    <3> QED
      BY <2>1, <2>2, Inductive
  <2> HIDE DEF OK
  <2> QED
    BY <2>3
<1>4. it = [s \in SUBSET F |-> step(it, s)]
  <2>1. Cardinality(F) \in Nat /\ \A s \in SUBSET F : Cardinality(s) <= Cardinality(F)
    BY FS_Subset, FS_CardinalityType
  <2>2. PICK g : DOMAIN g = SUBSET F /\ OK(g, Cardinality(F))
    <3> HIDE DEF OK
    <3> QED
      BY <1>3, <2>1
  <2> DEFINE h == [s \in SUBSET F |-> g[s]]
  <2>3. \A s \in SUBSET F : g[s] = step(g, s)
    BY <2>1, <2>2
  <2>4. \A s \in SUBSET F : step(h, s) = step(g, s)
    BY <1>2
  <2>5. h = [s \in SUBSET F |-> step(h, s)]
    <3> HIDE DEF step
    <3>1. \A s \in SUBSET F : h[s] = step(h, s)
      BY <2>3, <2>4
    <3> QED
      BY <3>1
  <2> HIDE DEF h
  <2> QED
    BY <2>5 DEF it
<1>5. \A s \in SUBSET F : it[s] = step(it, s)
  <2> HIDE DEF step
  <2> QED
    BY <1>4
<1>6. \A n \in Nat : \A s \in SUBSET F : Cardinality(s) <= n => Without(t, s, it[s])
  <2> DEFINE G == {n \in Nat : \A s \in SUBSET F : Cardinality(s) <= n => Without(t, s, it[s])}
  <2>0. Without(t, {}, it[{}])
    <3>1. it[{}] = t
      BY <1>5
    <3> QED
      BY <3>1 DEF Without
  <2>1. 0 \in G
    BY <1>0, <2>0
  <2>2. \A n \in Nat : n \in G => n + 1 \in G
    <3> SUFFICES ASSUME NEW n \in Nat, n \in G
                 PROVE  n + 1 \in G
      OBVIOUS
    <3> SUFFICES ASSUME NEW s \in SUBSET F, Cardinality(s) <= n + 1
                 PROVE  Without(t, s, it[s])
      OBVIOUS
    <3>1. CASE s = {}
      BY <2>0, <3>1
    <3>2. CASE s # {}
      <4>1. /\ pick(s) \in s /\ s \ {pick(s)} \in SUBSET F /\ Cardinality(s \ {pick(s)}) <= n
        BY <1>2, <3>2
      <4>2. Without(t, s \ {pick(s)}, it[s \ {pick(s)}])
        BY <4>1
      <4>3. it[s] = Evict(pick(s), it[s \ {pick(s)}])
        BY <1>5, <3>2
      <4> QED
        BY <4>1, <4>2, <4>3, EvictedOne
    <3> QED
      BY <3>1, <3>2
  <2>3. Nat \subseteq G
    <3> HIDE DEF G
    <3> QED
      BY <2>1, <2>2, Inductive
  <2> QED
    BY <2>3
<1>7. Without(t, F, it[F])
  <2>1. Cardinality(F) \in Nat
    BY FS_CardinalityType
  <2> QED
    BY <1>6, <2>1
<1>8. ASSUME NEW f, F = {f}
      PROVE  it[F] = Evict(f, t)
  <2>1. pick(F) = f /\ F \ {pick(F)} = {} /\ F # {}
    BY <1>8 DEF pick
  <2>2. it[{}] = t
    BY <1>5
  <2>3. it[F] = Evict(pick(F), it[F \ {pick(F)}])
    BY <1>5, <2>1
  <2> QED
    BY <2>1, <2>2, <2>3
<1> QED
  BY <1>1, <1>7, <1>8

(* The block that insert puts into a frame, and where it may be put.       *)
NewBlk(c, key, part) ==
  [NoBlk EXCEPT !.valid = TRUE, !.tag = extractTag(c, key.addr), !.secure = key.secure,
                !.part = part]

Free(t, f, key, part) ==
  /\ f \in Frames(t.c) /\ ~t.blk[f].valid
  /\ key \in t.c.keys /\ part \in PartIds
  /\ f[1] = extractSet(t.c, key.addr) /\ f[3] = extractSectorOffset(t.c, key.addr)
  /\ \A g \in Frames(t.c) :
       ~(/\ t.blk[g].valid /\ g[1] = f[1] /\ g[3] = f[3]
         /\ t.blk[g].tag = extractTag(t.c, key.addr) /\ t.blk[g].secure = key.secure)
  /\ "way" \in t.c.parts /\ part \in DOMAIN WaysOf => f[2] \in WaysOf[part]
  /\ "max" \in t.c.parts => orZero(t.cur[part]) < Limit(part)
  /\ Sectored(t) => t.sec[entryOf(f)].count = 0 \/ sectorMatch(t, entryOf(f), key)

Puts(t, f, key, part, u) ==
  u.c = t.c /\ u.blk = [t.blk EXCEPT ![f] = NewBlk(t.c, key, part)]

(* The set, the place and the tag of a key.                                 *)
LEMMA KeyNumbers ==
  ASSUME NEW c \in SetConfigs, NEW key \in c.keys
  PROVE  /\ key.addr \in Nat /\ extractTag(c, key.addr) \in Nat
         /\ extractSet(c, key.addr) \in 0..c.sets - 1
         /\ extractSectorOffset(c, key.addr) \in 0..c.offs - 1
<1>1. key.addr \in Nat /\ c.sets \in Nat \ {0} /\ c.offs \in Nat \ {0}
  BY SetShape
<1>2. key.addr \div c.offs \in Nat
  BY <1>1
<1>3. (key.addr \div c.offs) \div c.sets \in Nat
  BY <1>1, <1>2
<1>4. (key.addr \div c.offs) % c.sets \in 0..c.sets - 1
  BY <1>1, <1>2
<1> QED
  BY <1>1, <1>3, <1>4 DEF extractTag, extractSet, extractSectorOffset

(* What the arrival of a block leaves as it was.                            *)
LEMMA Added ==
  ASSUME NEW t, StoreOK(t), NEW f, NEW key, NEW part, Free(t, f, key, part),
         NEW u, Puts(t, f, key, part, u)
  PROVE  /\ \A g \in Frames(t.c) : BlkOK(u.blk[g])
         /\ DOMAIN u.blk = Frames(t.c) /\ u.blk[f] = NewBlk(t.c, key, part)
         /\ \A g \in Frames(t.c) \ {f} : u.blk[g] = t.blk[g]
         /\ Unique(u) /\ WaysOK(u)
         /\ \A e \in Entries(t.c) : ValidIn(u, e) = IF e = entryOf(f) THEN ValidIn(t, e) \cup {f}
                                                    ELSE ValidIn(t, e)
         /\ \A p : Held(u, p) = IF p = part THEN Held(t, p) \cup {f} ELSE Held(t, p)
         /\ f \notin Held(t, part) /\ f \notin ValidIn(t, entryOf(f))
         /\ (Sectored(u) <=> Sectored(t))
<1> DEFINE b == NewBlk(t.c, key, part)
<1>0. u.c = t.c /\ u.blk = [t.blk EXCEPT ![f] = b]
  BY DEF Puts
<1>1. /\ DOMAIN t.blk = Frames(t.c) /\ \A g \in Frames(t.c) : BlkOK(t.blk[g])
      /\ t.c \in SetConfigs /\ f \in Frames(t.c) /\ ~t.blk[f].valid
      /\ key \in t.c.keys /\ part \in PartIds
  BY DEF StoreOK, IsStore, Free
<1>2. /\ DOMAIN b = BlkFields /\ b.valid = TRUE /\ b.tag = extractTag(t.c, key.addr)
      /\ b.secure = key.secure /\ b.part = part
  BY DEF NewBlk, NoBlk, BlkFields
<1>3. BlkOK(b)
  BY <1>1, <1>2, KeyNumbers DEF BlkOK
<1> HIDE DEF b
<1>4. /\ u.blk[f] = b /\ \A g \in Frames(t.c) \ {f} : u.blk[g] = t.blk[g]
      /\ DOMAIN u.blk = Frames(t.c)
  BY <1>0, <1>1
<1>5. \A g \in Frames(t.c) : BlkOK(u.blk[g])
  BY <1>1, <1>3, <1>4
<1>6. Unique(u)
  <2>1. \A g \in Frames(t.c) :
          ~(/\ t.blk[g].valid /\ g[1] = f[1] /\ g[3] = f[3]
            /\ t.blk[g].tag = b.tag /\ t.blk[g].secure = b.secure)
    BY <1>2 DEF Free
  <2>2. Unique(t)
    BY DEF StoreOK
  <2> SUFFICES ASSUME NEW g \in Frames(t.c), NEW h \in Frames(t.c), u.blk[g].valid, u.blk[h].valid,
                      g[1] = h[1], g[3] = h[3], u.blk[g].tag = u.blk[h].tag,
                      u.blk[g].secure = u.blk[h].secure
               PROVE  g = h
    BY <1>0 DEF Unique
  <2>3. CASE g = f /\ h # f
    BY <1>0, <1>4, <2>1, <2>3
  <2>4. CASE g # f /\ h = f
    BY <1>0, <1>4, <2>1, <2>4
  <2>5. CASE g # f /\ h # f
    BY <1>0, <1>4, <2>2, <2>5 DEF Unique
  <2> QED
    BY <2>3, <2>4, <2>5
<1>7. WaysOK(u)
  <2> SUFFICES ASSUME "way" \in t.c.parts, NEW g \in Frames(t.c),
                      u.blk[g].valid, u.blk[g].part \in DOMAIN WaysOf
               PROVE  g[2] \in WaysOf[u.blk[g].part]
    BY <1>0 DEF WaysOK
  <2>1. CASE g = f
    BY <1>0, <1>2, <1>4, <2>1 DEF Free
  <2>2. CASE g # f
    BY <1>0, <1>4, <2>2 DEF StoreOK, WaysOK
  <2> QED
    BY <2>1, <2>2
<1>8. ASSUME NEW e \in Entries(t.c)
      PROVE  ValidIn(u, e) = IF e = entryOf(f) THEN ValidIn(t, e) \cup {f} ELSE ValidIn(t, e)
  <2>1. FramesIn(t.c, e) \subseteq Frames(t.c) /\ (f \in FramesIn(t.c, e) <=> e = entryOf(f))
    <3>1. t.c.sets \in Nat \ {0} /\ t.c.ways \in Nat \ {0} /\ t.c.offs \in Nat \ {0}
      BY StoreShape DEF StoreOK
    <3> QED
      BY <1>1, <3>1, FrameOf
  <2> QED
    BY <1>0, <1>2, <1>4, <2>1 DEF ValidIn
<1>9. ASSUME NEW p
      PROVE  Held(u, p) = IF p = part THEN Held(t, p) \cup {f} ELSE Held(t, p)
  BY <1>0, <1>1, <1>2, <1>4 DEF Held
<1>10. f \notin Held(t, part) /\ f \notin ValidIn(t, entryOf(f))
  BY <1>1 DEF Held, ValidIn
<1> QED
  BY <1>0, <1>4, <1>5, <1>6, <1>7, <1>8, <1>9, <1>10 DEF Sectored, b

(* BaseSetAssoc::insertBlock: the partition has room for the block.         *)
LEMMA SetInserted ==
  ASSUME NEW t, StoreOK(t), ~Sectored(t), NEW f, NEW key, NEW part, Free(t, f, key, part),
         NEW tick \in Int, NEW rnd, NEW u, u = setAssocInsert(t, f, key, part, tick, rnd)
  PROVE  StoreOK(u) /\ Puts(t, f, key, part, u)
<1> DEFINE e == entryOf(f)
           b == NewBlk(t.c, key, part)
           w == blkInsert(t, f, key, part)
           n == notifyAcquire(w, part)
<1>1. /\ DOMAIN t = StoreFields /\ t.bad = FALSE /\ IsStore(t)
      /\ DOMAIN t.cur = PartIds /\ DOMAIN t.max = PartIds
      /\ DOMAIN t.sec = Entries(t.c) /\ RpOK(t.rp, t.c)
      /\ \A d \in Entries(t.c) : DOMAIN t.sec[d] = SecFields
  BY DEF StoreOK, IsStore
<1>2. f \in Frames(t.c) /\ ~t.blk[f].valid /\ part \in PartIds
  BY DEF Free
<1>3. e \in Entries(t.c) /\ f = <<e[1], e[2], 0>>
      /\ \A d \in Entries(t.c) : <<d[1], d[2], 0>> \in Frames(t.c) /\ d = <<d[1], d[2]>>
  <2>1. t.c.offs = 1 /\ f[3] \in 0..t.c.offs - 1 /\ f = <<f[1], f[2], f[3]>> /\ e \in Entries(t.c)
        /\ \A d \in Entries(t.c) : <<d[1], d[2], 0>> \in Frames(t.c) /\ d = <<d[1], d[2]>>
    BY <1>1, <1>2, StoreShape, FrameOf
  <2> QED
    BY <2>1 DEF entryOf
<1>4. /\ DOMAIN w = StoreFields /\ w.c = t.c /\ w.blk = [t.blk EXCEPT ![f] = b]
      /\ w.sec = t.sec /\ w.rp = t.rp /\ w.inUse = t.inUse /\ w.cur = t.cur /\ w.max = t.max
      /\ w.bad = FALSE
  <2>1. w = [t EXCEPT !.blk[f] = b, !.bad = @ \/ t.blk[f].valid]
    BY DEF blkInsert, NewBlk
  <2> HIDE DEF b
  <2> QED
    BY <1>1, <1>2, <2>1 DEF StoreFields
<1> HIDE DEF w, b
<1>5. /\ DOMAIN n = StoreFields /\ n.c = t.c /\ n.blk = w.blk /\ n.sec = t.sec /\ n.rp = t.rp
      /\ n.inUse = t.inUse
      /\ n.cur = IF "max" \in t.c.parts THEN [t.cur EXCEPT ![part] = orZero(t.cur[part]) + 1]
                 ELSE t.cur
      /\ n.max = IF "max" \in t.c.parts THEN [t.max EXCEPT ![part] = orZero(t.max[part])]
                 ELSE t.max
      /\ n.bad = ("max" \in t.c.parts /\ orZero(t.cur[part]) > orZero(t.max[part]))
  BY <1>4 DEF notifyAcquire, StoreFields
<1> HIDE DEF n
<1>6. u = [n EXCEPT !.inUse = @ + 1, !.rp = rpReset(@, e, tick, Sig(key), rnd)]
  BY DEF setAssocInsert, w, n
<1>7. /\ DOMAIN u = StoreFields /\ u.c = t.c /\ u.blk = [t.blk EXCEPT ![f] = b]
      /\ u.sec = t.sec /\ u.rp = rpReset(t.rp, e, tick, Sig(key), rnd)
      /\ u.inUse = t.inUse + 1 /\ u.max = n.max /\ u.cur = n.cur /\ u.bad = n.bad
  BY <1>4, <1>5, <1>6 DEF StoreFields
<1>8. RpOK(u.rp, u.c)
  BY <1>1, <1>3, <1>7, RpReset
<1>9. /\ \A g \in Frames(t.c) : BlkOK(u.blk[g])
      /\ DOMAIN u.blk = Frames(t.c) /\ u.blk[f] = b
      /\ \A g \in Frames(t.c) \ {f} : u.blk[g] = t.blk[g]
      /\ Unique(u) /\ WaysOK(u)
      /\ \A p : Held(u, p) = IF p = part THEN Held(t, p) \cup {f} ELSE Held(t, p)
      /\ f \notin Held(t, part) /\ ~Sectored(u)
  <2>1. Puts(t, f, key, part, u)
    BY <1>7 DEF b, Puts
  <2> HIDE DEF b
  <2>2. /\ \A g \in Frames(t.c) : BlkOK(u.blk[g])
        /\ DOMAIN u.blk = Frames(t.c) /\ u.blk[f] = NewBlk(t.c, key, part)
        /\ \A g \in Frames(t.c) \ {f} : u.blk[g] = t.blk[g]
    BY <2>1, Added
  <2>3. Unique(u) /\ WaysOK(u)
    BY <2>1, Added
  <2>4. \A p : Held(u, p) = IF p = part THEN Held(t, p) \cup {f} ELSE Held(t, p)
    BY <2>1, Added
  <2>5. f \notin Held(t, part)
    BY <2>1, Added
  <2>6. ~Sectored(u)
    BY <1>7 DEF Sectored
  <2> QED
    BY <2>2, <2>3, <2>4, <2>5, <2>6 DEF b
<1>10. IsStore(u)
  <2>1. DOMAIN n.cur = PartIds /\ DOMAIN n.max = PartIds
    BY <1>1, <1>5
  <2> QED
    BY <1>1, <1>7, <1>8, <1>9, <2>1 DEF IsStore
<1>11. InUseOK(u)
  <2>1. e \notin Occupied(t)
    BY <1>2, <1>3 DEF Occupied, entryValid
  <2>2. \A d \in Entries(t.c) : <<d[1], d[2], 0>> = f <=> d = e
    BY <1>3
  <2>3. b.valid
    BY DEF b, NewBlk, NoBlk
  <2>4. \A d \in Entries(t.c) : entryValid(u, d) <=> entryValid(t, d) \/ d = e
    BY <1>3, <1>9, <2>2, <2>3 DEF entryValid
  <2>5. Occupied(u) = Occupied(t) \cup {e}
    BY <1>3, <1>7, <2>4 DEF Occupied
  <2> QED
    BY <1>1, <1>7, <2>1, <2>5, StoreShape, OneMore DEF InUseOK, StoreOK
<1>12. "max" \in t.c.parts =>
         ~(orZero(t.cur[part]) > orZero(t.max[part])) /\ CapacityOK(u)
  <2> SUFFICES ASSUME "max" \in t.c.parts
               PROVE  ~(orZero(t.cur[part]) > orZero(t.max[part])) /\ CapacityOK(u)
    OBVIOUS
  <2>1. \A q \in PartIds :
          /\ t.cur[q] \in Nat \cup {Absent} /\ orZero(t.cur[q]) = Cardinality(Held(t, q))
          /\ orZero(t.cur[q]) <= Limit(q)
          /\ t.max[q] = Capacity[q] \/ (Capacity[q] = Absent /\ t.max[q] = 0)
          /\ t.max[q] = Absent => t.cur[q] = Absent
    BY DEF StoreOK, CapacityOK
  <2>2. Cardinality(Held(t, part)) \in Nat
        /\ Cardinality(Held(t, part) \cup {f}) = Cardinality(Held(t, part)) + 1
    BY <1>1, <1>9, StoreShape, OneMore
  <2>3. orZero(t.cur[part]) < Limit(part) /\ orZero(t.cur[part]) \in Nat
    BY <1>2, <2>1, <2>2 DEF Free
  <2>4. Capacity[part] \in Nat \cup {Absent}
    BY <1>2, PartitionsAssumption
  <2>5. ~(orZero(t.cur[part]) > orZero(t.max[part]))
    <3>1. CASE Capacity[part] > 0
      <4>1. t.max[part] = Capacity[part] /\ Limit(part) = Capacity[part]
        BY <1>2, <2>1, <3>1 DEF Limit, Absent
      <4> QED
        BY <2>3, <2>4, <3>1, <4>1 DEF orZero, Absent
    <3>2. CASE ~(Capacity[part] > 0)
      <4>1. orZero(t.cur[part]) = 0
        BY <2>3, <3>2 DEF Limit
      <4>2. orZero(t.max[part]) \in Nat
        BY <1>2, <2>1, <2>4 DEF orZero, Absent
      <4> QED
        BY <4>1, <4>2
    <3> QED
      BY <3>1, <3>2
  <2>6. ASSUME NEW q \in PartIds
        PROVE  /\ u.cur[q] \in Nat \cup {Absent} /\ orZero(u.cur[q]) = Cardinality(Held(u, q))
               /\ orZero(u.cur[q]) <= Limit(q)
               /\ u.max[q] = Capacity[q] \/ (Capacity[q] = Absent /\ u.max[q] = 0)
               /\ u.max[q] = Absent => u.cur[q] = Absent
    <3>1. CASE q = part
      <4>1. u.cur[part] = orZero(t.cur[part]) + 1 /\ u.max[part] = orZero(t.max[part])
        BY <1>1, <1>2, <1>5, <1>7
      <4>2. orZero(u.cur[part]) = orZero(t.cur[part]) + 1 /\ u.cur[part] \in Nat
        BY <2>3, <4>1 DEF orZero, Absent
      <4>3. u.max[part] # Absent
        BY <1>2, <2>1, <2>4, <4>1 DEF orZero, Absent
      <4>4. u.max[part] = Capacity[part] \/ (Capacity[part] = Absent /\ u.max[part] = 0)
        BY <1>2, <2>1, <4>1 DEF orZero, Absent
      <4>5. Held(u, part) = Held(t, part) \cup {f}
        BY <1>9
      <4>6. Limit(part) \in Int
        BY <2>4 DEF Limit, Absent
      <4>7. orZero(t.cur[part]) = Cardinality(Held(t, part))
        BY <1>2, <2>1
      <4> QED
        BY <2>2, <2>3, <3>1, <4>2, <4>3, <4>4, <4>5, <4>6, <4>7
    <3>2. CASE q # part
      <4>1. Held(u, q) = Held(t, q)
        BY <1>9, <3>2
      <4>2. u.cur[q] = t.cur[q] /\ u.max[q] = t.max[q]
        BY <1>1, <1>5, <1>7, <3>2
      <4> QED
        BY <2>1, <4>1, <4>2
    <3> QED
      BY <3>1, <3>2
  <2> QED
    BY <2>5, <2>6 DEF CapacityOK
<1>13. CapacityOK(u)
  <2>1. CASE "max" \in t.c.parts
    BY <1>12, <2>1
  <2>2. CASE "max" \notin t.c.parts
    BY <1>7, <2>2 DEF CapacityOK
  <2> QED
    BY <2>1, <2>2
<1>14. u.bad = FALSE
  <2>1. "max" \in t.c.parts => ~(orZero(t.cur[part]) > orZero(t.max[part]))
    BY <1>12
  <2> QED
    BY <1>5, <1>7, <2>1
<1>15. SectorsOK(u)
  BY <1>9 DEF SectorsOK
<1>16. StoreOK(u)
  BY <1>9, <1>10, <1>11, <1>13, <1>14, <1>15 DEF StoreOK
<1> QED
  BY <1>7, <1>16 DEF b, Puts

(* SectorTags::insertBlock: the sector is empty or of the same tag.         *)
LEMMA SectorInserted ==
  ASSUME NEW t, StoreOK(t), Sectored(t), NEW f, NEW key, NEW part, Free(t, f, key, part),
         NEW tick \in Int, NEW rnd, NEW u, u = sectorInsert(t, f, key, part, tick, rnd)
  PROVE  StoreOK(u) /\ Puts(t, f, key, part, u)
<1> DEFINE e == entryOf(f)
           b == NewBlk(t.c, key, part)
           empty == t.sec[e].count = 0
           w == IF t.sec[e].count > 0
                THEN [t EXCEPT !.rp = rpTouch(@, e, tick, Sig(key))]
                ELSE [t EXCEPT !.inUse = @ + 1, !.bad = @ \/ t.inUse + 1 > t.c.sets * t.c.ways,
                               !.rp = rpReset(@, e, tick, Sig(key), rnd)]
           s == [t.sec[e] EXCEPT !.tag = IF empty THEN extractTag(t.c, key.addr) ELSE @,
                                 !.secure = IF empty THEN key.secure ELSE @,
                                 !.count = t.sec[e].count + 1]
<1>1. /\ DOMAIN t = StoreFields /\ t.bad = FALSE /\ IsStore(t)
      /\ DOMAIN t.sec = Entries(t.c) /\ RpOK(t.rp, t.c)
      /\ \A d \in Entries(t.c) : DOMAIN t.sec[d] = SecFields
      /\ DOMAIN t.cur = PartIds /\ DOMAIN t.max = PartIds
  BY DEF StoreOK, IsStore
<1>2. f \in Frames(t.c) /\ ~t.blk[f].valid /\ part \in PartIds
      /\ (empty \/ sectorMatch(t, e, key))
  BY DEF Free
<1>3. /\ e \in Entries(t.c) /\ "max" \notin t.c.parts
      /\ \A d \in Entries(t.c) : \A g \in FramesIn(t.c, d) : entryOf(g) = d /\ g \in Frames(t.c)
      /\ \A d \in Entries(t.c) : IsFiniteSet(ValidIn(t, d))
      /\ IsFiniteSet(Occupied(t))
      /\ t.c.sets \in Nat \ {0} /\ t.c.ways \in Nat \ {0} /\ t.c.offs \in Nat \ {0}
  BY <1>1, <1>2, StoreShape, FrameOf
<1>4. \A d \in Entries(t.c) :
        /\ t.sec[d].count = Cardinality(ValidIn(t, d)) /\ t.sec[d].count \in Nat
        /\ t.sec[d].count = 0 => ValidIn(t, d) = {}
        /\ \A g \in ValidIn(t, d) : /\ t.blk[g].tag = t.sec[d].tag
                                    /\ t.blk[g].secure = t.sec[d].secure
  BY <1>3, FS_CardinalityType, FS_EmptySet DEF StoreOK, SectorsOK
<1>5. empty => e \notin Occupied(t)
  BY <1>3, <1>4 DEF Occupied, entryValid
<1>6. t.inUse = Cardinality(Occupied(t)) /\ t.inUse \in Nat
      /\ (empty => t.inUse + 1 = Cardinality(Occupied(t) \cup {e})
                   /\ ~(t.inUse + 1 > t.c.sets * t.c.ways))
  <2>1. t.inUse = Cardinality(Occupied(t)) /\ t.inUse \in Nat
    BY <1>3, FS_CardinalityType DEF StoreOK, InUseOK
  <2>2. ASSUME empty
        PROVE  t.inUse + 1 = Cardinality(Occupied(t) \cup {e}) /\ ~(t.inUse + 1 > t.c.sets * t.c.ways)
    <3>1. t.inUse + 1 = Cardinality(Occupied(t) \cup {e})
      BY <1>3, <1>5, <2>1, <2>2, OneMore
    <3>2. Occupied(t) \cup {e} \subseteq Entries(t.c)
      BY <1>3 DEF Occupied
    <3>3. IsFiniteSet(Entries(t.c)) /\ Cardinality(Entries(t.c)) = t.c.sets * t.c.ways
      BY <1>3, FiniteStore
    <3>4. Cardinality(Occupied(t) \cup {e}) <= Cardinality(Entries(t.c))
      BY <3>2, <3>3, FS_Subset
    <3>5. Cardinality(Entries(t.c)) \in Nat
      BY <3>3, FS_CardinalityType
    <3> QED
      BY <2>1, <3>1, <3>3, <3>4, <3>5
  <2> QED
    BY <2>1, <2>2
<1>7. /\ DOMAIN w = StoreFields /\ w.c = t.c /\ w.blk = t.blk /\ w.sec = t.sec
      /\ w.rp \in {rpTouch(t.rp, e, tick, Sig(key)), rpReset(t.rp, e, tick, Sig(key), rnd)}
      /\ w.inUse = IF empty THEN t.inUse + 1 ELSE t.inUse
      /\ w.max = t.max /\ w.cur = t.cur /\ w.bad = FALSE
  <2>1. CASE t.sec[e].count > 0
    <3>1. w = [t EXCEPT !.rp = rpTouch(@, e, tick, Sig(key))] /\ ~empty
      BY <1>3, <1>4, <2>1
    <3> HIDE DEF w, e, empty
    <3> QED
      BY <1>1, <3>1 DEF StoreFields
  <2>2. CASE ~(t.sec[e].count > 0)
    <3>1. empty
      BY <1>3, <1>4, <2>2
    <3>2. w = [t EXCEPT !.inUse = @ + 1, !.bad = @ \/ t.inUse + 1 > t.c.sets * t.c.ways,
                        !.rp = rpReset(@, e, tick, Sig(key), rnd)]
      BY <2>2
    <3> HIDE DEF w, e, empty
    <3>3. w = [t EXCEPT !.inUse = @ + 1, !.bad = FALSE,
                        !.rp = rpReset(@, e, tick, Sig(key), rnd)]
      BY <1>1, <1>6, <3>1, <3>2
    <3> QED
      BY <1>1, <3>1, <3>3 DEF StoreFields
  <2> QED
    BY <2>1, <2>2
<1>8. u = blkInsert(w, f, key, part)
  BY DEF sectorInsert
<1> HIDE DEF w
<1>9. Sectored(w) /\ sectorMatch(w, e, key) = sectorMatch(t, e, key)
  BY <1>7 DEF Sectored, sectorMatch
<1>10. /\ DOMAIN u = StoreFields /\ u.c = t.c /\ u.blk = [t.blk EXCEPT ![f] = b]
       /\ u.sec = [t.sec EXCEPT ![e] = s] /\ u.rp = w.rp /\ u.inUse = w.inUse
       /\ u.max = t.max /\ u.cur = t.cur /\ u.bad = FALSE
  <2> DEFINE v == [w EXCEPT !.blk[f] = b, !.bad = @ \/ w.blk[f].valid]
  <2>1. u = [v EXCEPT
               !.bad = @ \/ (w.sec[e].count > 0 /\ ~sectorMatch(w, e, key)),
               !.sec[e].tag    = IF w.sec[e].count = 0 THEN extractTag(w.c, key.addr) ELSE @,
               !.sec[e].secure = IF w.sec[e].count = 0 THEN key.secure ELSE @,
               !.sec[e].count  = @ + 1]
    <3>1. b = NewBlk(w.c, key, part) /\ Sectored(w)
      BY <1>7, <1>9
    <3> HIDE DEF b
    <3>2. u = blkInsert(w, f, key, part)
      BY <1>8
    <3> QED
      BY <3>1, <3>2 DEF blkInsert, NewBlk
  <2> HIDE DEF b
  <2>2. /\ DOMAIN v = StoreFields /\ v.c = t.c /\ v.blk = [t.blk EXCEPT ![f] = b]
        /\ v.sec = t.sec /\ v.rp = w.rp /\ v.inUse = w.inUse /\ v.max = t.max /\ v.cur = t.cur
        /\ v.bad = FALSE
    BY <1>2, <1>7 DEF StoreFields
  <2> HIDE DEF v
  <2>3. ~(w.sec[e].count > 0 /\ ~sectorMatch(w, e, key))
    BY <1>2, <1>3, <1>4, <1>7, <1>9
  <2>4. u = [v EXCEPT !.bad = FALSE,
               !.sec[e].tag    = IF empty THEN extractTag(t.c, key.addr) ELSE @,
               !.sec[e].secure = IF empty THEN key.secure ELSE @,
               !.sec[e].count  = @ + 1]
    BY <1>7, <2>1, <2>2, <2>3
  <2> HIDE DEF e, empty
  <2>5. /\ DOMAIN u = StoreFields /\ u.c = t.c /\ u.blk = [t.blk EXCEPT ![f] = b]
        /\ u.rp = w.rp /\ u.inUse = w.inUse
        /\ u.max = t.max /\ u.cur = t.cur /\ u.bad = FALSE
    BY <2>2, <2>4 DEF StoreFields
  <2>6. u.sec = [t.sec EXCEPT ![e] = s]
    <3> DEFINE F1 == [v.sec EXCEPT ![e] = [v.sec[e] EXCEPT
                        !.tag = IF empty THEN extractTag(t.c, key.addr) ELSE v.sec[e].tag]]
               F2 == [F1 EXCEPT ![e] = [F1[e] EXCEPT
                        !.secure = IF empty THEN key.secure ELSE F1[e].secure]]
               F3 == [F2 EXCEPT ![e] = [F2[e] EXCEPT !.count = F2[e].count + 1]]
    <3>1. u.sec = F3
      BY <2>2, <2>4 DEF StoreFields
    <3>2. e \in DOMAIN t.sec /\ DOMAIN t.sec[e] = SecFields
      BY <1>1, <1>3
    <3>3. F1 = [t.sec EXCEPT ![e] = [t.sec[e] EXCEPT
                 !.tag = IF empty THEN extractTag(t.c, key.addr) ELSE t.sec[e].tag]]
      BY <2>2
    <3>4. F2 = [t.sec EXCEPT ![e] = [t.sec[e] EXCEPT
                 !.tag = IF empty THEN extractTag(t.c, key.addr) ELSE t.sec[e].tag,
                 !.secure = IF empty THEN key.secure ELSE t.sec[e].secure]]
      <4> HIDE DEF F1
      <4> QED
        BY <3>2, <3>3 DEF SecFields
    <3>5. F3 = [t.sec EXCEPT ![e] = s]
      <4> HIDE DEF F2
      <4> QED
        BY <3>2, <3>4 DEF SecFields
    <3> HIDE DEF F3
    <3> QED
      BY <3>1, <3>5
  <2> QED
    BY <2>5, <2>6
<1>11. DOMAIN s = SecFields /\ s.count = t.sec[e].count + 1
       /\ s.tag = extractTag(t.c, key.addr) /\ s.secure = key.secure
  <2>1. CASE empty
    BY <1>1, <1>3, <2>1 DEF SecFields
  <2>2. CASE ~empty
    BY <1>1, <1>2, <1>3, <2>2 DEF SecFields, sectorMatch
  <2> QED
    BY <2>1, <2>2
<1> HIDE DEF s
<1>12. u.sec[e] = s /\ \A d \in Entries(t.c) \ {e} : u.sec[d] = t.sec[d]
  BY <1>1, <1>3, <1>10
<1>13. RpOK(u.rp, u.c)
  BY <1>1, <1>3, <1>7, <1>10, RpReset, RpTouched
<1>14. Puts(t, f, key, part, u)
  BY <1>10 DEF Puts
<1> HIDE DEF b
<1>15. /\ \A g \in Frames(t.c) : BlkOK(u.blk[g])
       /\ DOMAIN u.blk = Frames(t.c) /\ u.blk[f] = NewBlk(t.c, key, part)
       /\ \A g \in Frames(t.c) \ {f} : u.blk[g] = t.blk[g]
       /\ Unique(u) /\ WaysOK(u)
       /\ \A d \in Entries(t.c) : ValidIn(u, d) = IF d = e THEN ValidIn(t, d) \cup {f}
                                                  ELSE ValidIn(t, d)
       /\ f \notin ValidIn(t, e)
       /\ (Sectored(u) <=> Sectored(t))
  <2> HIDE DEF e
  <2>1. /\ \A g \in Frames(t.c) : BlkOK(u.blk[g])
        /\ DOMAIN u.blk = Frames(t.c) /\ u.blk[f] = NewBlk(t.c, key, part)
        /\ \A g \in Frames(t.c) \ {f} : u.blk[g] = t.blk[g]
    BY <1>14, Added
  <2>2. Unique(u) /\ WaysOK(u)
    BY <1>14, Added
  <2>3. /\ \A d \in Entries(t.c) : ValidIn(u, d) = IF d = entryOf(f) THEN ValidIn(t, d) \cup {f}
                                                   ELSE ValidIn(t, d)
        /\ f \notin ValidIn(t, entryOf(f))
    BY <1>14, Added
  <2>4. Sectored(u) <=> Sectored(t)
    BY <1>10 DEF Sectored
  <2> QED
    BY <2>1, <2>2, <2>3, <2>4 DEF e
<1>16. IsStore(u)
  <2>1. DOMAIN u.sec = Entries(t.c) /\ \A d \in Entries(t.c) : DOMAIN u.sec[d] = SecFields
    BY <1>1, <1>3, <1>10, <1>11, <1>12
  <2> QED
    BY <1>1, <1>10, <1>13, <1>15, <2>1 DEF IsStore
<1>17. SectorsOK(u)
  <2> SUFFICES ASSUME NEW d \in Entries(t.c)
               PROVE  /\ u.sec[d].count = Cardinality(ValidIn(u, d))
                      /\ \A g \in ValidIn(u, d) : /\ u.blk[g].tag = u.sec[d].tag
                                                  /\ u.blk[g].secure = u.sec[d].secure
    BY <1>10 DEF SectorsOK
  <2>1. CASE d = e
    <3>1. u.sec[d] = s /\ ValidIn(u, d) = ValidIn(t, e) \cup {f}
      BY <1>12, <1>15, <2>1
    <3>2. u.sec[d].count = Cardinality(ValidIn(u, d))
      <4>1. Cardinality(ValidIn(t, e) \cup {f}) = Cardinality(ValidIn(t, e)) + 1
        BY <1>3, <1>15, OneMore
      <4> QED
        BY <1>3, <1>4, <1>11, <3>1, <4>1
    <3>3. ASSUME NEW g \in ValidIn(u, d)
          PROVE  u.blk[g].tag = u.sec[d].tag /\ u.blk[g].secure = u.sec[d].secure
      <4>1. CASE g = f
        BY <1>11, <1>15, <3>1, <4>1 DEF NewBlk, NoBlk
      <4>2. CASE g # f
        <5>1. g \in ValidIn(t, e)
          BY <3>1, <3>3, <4>2
        <5>2. u.blk[g] = t.blk[g]
          BY <1>3, <1>15, <4>2, <5>1 DEF ValidIn
        <5>3. ~empty
          BY <1>3, <1>4, <5>1
        <5>4. sectorMatch(t, e, key)
          BY <1>2, <5>3
        <5>5. t.sec[e].tag = extractTag(t.c, key.addr) /\ t.sec[e].secure = key.secure
          BY <5>4 DEF sectorMatch
        <5> QED
          BY <1>3, <1>4, <1>11, <3>1, <5>1, <5>2, <5>5
      <4> QED
        BY <4>1, <4>2
    <3> QED
      BY <3>2, <3>3
  <2>2. CASE d # e
    <3>1. ValidIn(u, d) = ValidIn(t, d) /\ u.sec[d] = t.sec[d]
      <4> HIDE DEF e
      <4>1. u.sec[d] = t.sec[d]
        BY <1>12, <2>2
      <4>2. ValidIn(u, d) = ValidIn(t, d)
        BY <1>15, <2>2
      <4> QED
        BY <4>1, <4>2
    <3>2. \A g \in ValidIn(t, d) : u.blk[g] = t.blk[g]
      <4>1. \A g \in ValidIn(t, d) : g # f /\ g \in Frames(t.c)
        BY <1>3, <2>2 DEF ValidIn
      <4> QED
        BY <1>15, <4>1
    <3> QED
      BY <1>4, <3>1, <3>2
  <2> QED
    BY <2>1, <2>2
<1>18. InUseOK(u)
  <2>1. \A d \in Entries(t.c) \ {e} : entryValid(u, d) <=> entryValid(t, d)
    BY <1>12, <1>15 DEF entryValid
  <2>2. entryValid(u, e)
    BY <1>3, <1>4, <1>11, <1>12, <1>15 DEF entryValid
  <2>3. Occupied(u) = Occupied(t) \cup {e}
    BY <1>3, <1>10, <2>1, <2>2 DEF Occupied
  <2>4. ~empty => Occupied(t) \cup {e} = Occupied(t)
    BY <1>3, <1>4 DEF Occupied, entryValid
  <2> QED
    BY <1>6, <1>7, <1>10, <2>3, <2>4 DEF InUseOK
<1>19. CapacityOK(u)
  BY <1>3, <1>10 DEF CapacityOK
<1>20. StoreOK(u)
  BY <1>10, <1>15, <1>16, <1>17, <1>18, <1>19 DEF StoreOK
<1> QED
  BY <1>14, <1>20

(* insertBlock: the block is in the frame it was to go to, and the store is *)
(* as it should be.                                                         *)
LEMMA BlockInserted ==
  ASSUME NEW t, StoreOK(t), NEW f, NEW key, NEW part, Free(t, f, key, part),
         NEW tick \in Int, NEW rnd, NEW u, u = insertBlock(t, f, key, part, tick, rnd)
  PROVE  StoreOK(u) /\ Puts(t, f, key, part, u)
<1>1. CASE Sectored(t)
  <2>1. u = sectorInsert(t, f, key, part, tick, rnd)
    BY <1>1 DEF insertBlock
  <2> QED
    BY <1>1, <2>1, SectorInserted
<1>2. CASE ~Sectored(t)
  <2>1. u = setAssocInsert(t, f, key, part, tick, rnd)
    BY <1>2 DEF insertBlock
  <2> QED
    BY <1>2, <2>1, SetInserted
<1> QED
  BY <1>1, <1>2

(* u holds the blocks of t: they may differ in what the replacement policy  *)
(* and the compressor know of them only.                                    *)
SameBlk(a, b) ==
  DOMAIN b = BlkFields /\ b.valid = a.valid /\ b.tag = a.tag /\ b.secure = a.secure
  /\ b.part = a.part
SameSec(a, b) ==
  DOMAIN b = SecFields /\ b.tag = a.tag /\ b.secure = a.secure /\ b.count = a.count

SameBlocks(t, u) ==
  /\ DOMAIN u = StoreFields /\ u.c = t.c /\ u.inUse = t.inUse /\ u.cur = t.cur /\ u.max = t.max
  /\ u.bad = FALSE
  /\ DOMAIN u.blk = Frames(t.c) /\ \A f \in Frames(t.c) : SameBlk(t.blk[f], u.blk[f])
  /\ DOMAIN u.sec = Entries(t.c) /\ \A e \in Entries(t.c) : SameSec(t.sec[e], u.sec[e])

(* A store with the same blocks and counters is as much in order.           *)
LEMMA SameKept ==
  ASSUME NEW t, StoreOK(t), NEW u, SameBlocks(t, u), RpOK(u.rp, u.c)
  PROVE  StoreOK(u) /\ u.c = t.c
<1>1. /\ DOMAIN u = StoreFields /\ u.c = t.c /\ u.inUse = t.inUse /\ u.cur = t.cur
      /\ u.max = t.max /\ u.bad = FALSE /\ DOMAIN u.blk = Frames(t.c)
      /\ DOMAIN u.sec = Entries(t.c)
  BY DEF SameBlocks
<1>2. \A f \in Frames(t.c) : /\ DOMAIN u.blk[f] = BlkFields /\ u.blk[f].valid = t.blk[f].valid
                             /\ u.blk[f].tag = t.blk[f].tag /\ u.blk[f].secure = t.blk[f].secure
                             /\ u.blk[f].part = t.blk[f].part
  BY DEF SameBlocks, SameBlk
<1>3. \A e \in Entries(t.c) : /\ DOMAIN u.sec[e] = SecFields /\ u.sec[e].tag = t.sec[e].tag
                              /\ u.sec[e].secure = t.sec[e].secure
                              /\ u.sec[e].count = t.sec[e].count
  BY DEF SameBlocks, SameSec
<1>4. IsStore(t) /\ Unique(t) /\ SectorsOK(t) /\ InUseOK(t) /\ CapacityOK(t) /\ WaysOK(t)
  BY DEF StoreOK
<1>5. /\ \A e \in Entries(t.c) : FramesIn(t.c, e) \subseteq Frames(t.c)
      /\ \A e \in Entries(t.c) : <<e[1], e[2], 0>> \in Frames(t.c)
  BY <1>4, StoreShape, FrameOf, FiniteStore
<1>6. \A e \in Entries(t.c) : ValidIn(u, e) = ValidIn(t, e) /\ ValidIn(t, e) \subseteq Frames(t.c)
  BY <1>1, <1>2, <1>5 DEF ValidIn
<1>7. \A p : Held(u, p) = Held(t, p)
  BY <1>1, <1>2 DEF Held
<1>8. Sectored(u) <=> Sectored(t)
  BY <1>1 DEF Sectored
<1>9. IsStore(u)
  <2>1. \A f \in Frames(t.c) : BlkOK(t.blk[f])
    BY <1>4 DEF IsStore
  <2>2. \A f \in Frames(t.c) : BlkOK(u.blk[f])
    BY <1>2, <2>1 DEF BlkOK
  <2> QED
    BY <1>1, <1>3, <1>4, <2>2 DEF IsStore
<1>10. Unique(u)
  BY <1>1, <1>2, <1>4 DEF Unique
<1>11. SectorsOK(u)
  <2> SUFFICES ASSUME Sectored(t), NEW e \in Entries(t.c)
               PROVE  /\ u.sec[e].count = Cardinality(ValidIn(u, e))
                      /\ \A f \in ValidIn(u, e) : /\ u.blk[f].tag = u.sec[e].tag
                                                  /\ u.blk[f].secure = u.sec[e].secure
    BY <1>1, <1>8 DEF SectorsOK
  <2>1. /\ t.sec[e].count = Cardinality(ValidIn(t, e))
        /\ \A f \in ValidIn(t, e) : /\ t.blk[f].tag = t.sec[e].tag
                                    /\ t.blk[f].secure = t.sec[e].secure
    BY <1>4 DEF SectorsOK
  <2> QED
    BY <1>2, <1>3, <1>6, <2>1
<1>12. InUseOK(u)
  <2>1. \A e \in Entries(t.c) : entryValid(u, e) = entryValid(t, e)
    BY <1>2, <1>3, <1>5, <1>8 DEF entryValid
  <2>2. Occupied(u) = Occupied(t)
    BY <1>1, <2>1 DEF Occupied
  <2> QED
    BY <1>1, <1>4, <2>2 DEF InUseOK
<1>13. CapacityOK(u)
  BY <1>1, <1>4, <1>7 DEF CapacityOK
<1>14. WaysOK(u)
  BY <1>1, <1>2, <1>4 DEF WaysOK
<1> QED
  BY <1>1, <1>9, <1>10, <1>11, <1>12, <1>13, <1>14 DEF StoreOK

(* A store has the blocks it has.                                           *)
LEMMA SameRefl ==
  ASSUME NEW t, StoreOK(t)
  PROVE  SameBlocks(t, t)
BY DEF StoreOK, IsStore, SameBlocks, SameBlk, SameSec, BlkOK

(* accessBlock changes the replacement data only.                           *)
LEMMA Accessed ==
  ASSUME NEW t, StoreOK(t), NEW f \in Frames(t.c), NEW key, NEW tick \in Int,
         NEW u, u = accessBlock(t, f, key, tick)
  PROVE  StoreOK(u) /\ u.c = t.c /\ u.blk = t.blk
<1>1. DOMAIN t = StoreFields /\ RpOK(t.rp, t.c) /\ IsStore(t)
  BY DEF StoreOK, IsStore
<1>2. entryOf(f) \in Entries(t.c)
  BY <1>1, StoreShape, FrameOf
<1>3. /\ DOMAIN u = StoreFields /\ u.c = t.c /\ u.blk = t.blk /\ u.sec = t.sec
      /\ u.inUse = t.inUse /\ u.cur = t.cur /\ u.max = t.max /\ u.bad = t.bad
      /\ u.rp = rpTouch(t.rp, entryOf(f), tick, Sig(key))
  BY <1>1 DEF accessBlock, StoreFields
<1>4. RpOK(u.rp, u.c)
  BY <1>1, <1>2, <1>3, RpTouched
<1>5. SameBlocks(t, t)
  BY SameRefl
<1>6. SameBlocks(t, u)
  BY <1>3, <1>5 DEF SameBlocks
<1> QED
  BY <1>3, <1>4, <1>6, SameKept

(* setSizeBits: a valid block takes a size, nothing else changes.          *)
LEMMA Sized ==
  ASSUME NEW t, StoreOK(t), NEW f \in Frames(t.c), t.blk[f].valid, NEW size,
         NEW u, u = setSizeBits(t, f, size)
  PROVE  StoreOK(u) /\ u.c = t.c
<1>1. CASE t.c.kind # "compressed"
  BY <1>1 DEF setSizeBits
<1>2. CASE t.c.kind = "compressed"
  <2> DEFINE e  == entryOf(f)
             z  == IF t.sec[e].count <= 1 THEN calculateCompressionFactor(t, size) # 1
                   ELSE isCompressed(t, e, f)
             cf == IF t.sec[e].count <= 1 THEN calculateCompressionFactor(t, size)
                   ELSE t.sec[e].cf
  <2>1. /\ DOMAIN t = StoreFields /\ IsStore(t) /\ Sectored(t) /\ t.bad = FALSE
        /\ DOMAIN t.blk = Frames(t.c) /\ DOMAIN t.sec = Entries(t.c) /\ RpOK(t.rp, t.c)
        /\ \A g \in Frames(t.c) : DOMAIN t.blk[g] = BlkFields
        /\ \A d \in Entries(t.c) : DOMAIN t.sec[d] = SecFields
    BY <1>2 DEF StoreOK, IsStore, Sectored, BlkOK
  <2>2. e \in Entries(t.c) /\ f \in ValidIn(t, e) /\ IsFiniteSet(ValidIn(t, e))
    BY <2>1, StoreShape, FrameOf DEF ValidIn
  <2>3. t.sec[e].count = Cardinality(ValidIn(t, e))
    BY <2>1, <2>2 DEF StoreOK, SectorsOK
  <2>4. ~(t.sec[e].count < 1)
    <3>1. Cardinality(ValidIn(t, e)) \in Nat /\ Cardinality(ValidIn(t, e)) >= 1
      BY <2>2, OneLess
    <3> QED
      BY <2>3, <3>1
  <2>5. u = [t EXCEPT !.blk[f].size = size, !.blk[f].compressed = z, !.sec[e].cf = cf,
                      !.bad = @ \/ t.sec[e].count < 1]
    BY <1>2 DEF setSizeBits
  <2> HIDE DEF e, z, cf
  <2>6. u = [t EXCEPT !.blk[f].size = size, !.blk[f].compressed = z, !.sec[e].cf = cf,
                      !.bad = FALSE]
    BY <2>1, <2>4, <2>5
  <2> DEFINE B1 == [t.blk EXCEPT ![f] = [t.blk[f] EXCEPT !.size = size]]
             B2 == [B1 EXCEPT ![f] = [B1[f] EXCEPT !.compressed = z]]
             C1 == [t.sec EXCEPT ![e] = [t.sec[e] EXCEPT !.cf = cf]]
  <2>7. /\ DOMAIN u = StoreFields /\ u.c = t.c /\ u.rp = t.rp
        /\ u.inUse = t.inUse /\ u.cur = t.cur /\ u.max = t.max /\ u.bad = FALSE
    BY <2>1, <2>6 DEF StoreFields
  <2>8. u.blk = B2
    BY <2>1, <2>6 DEF StoreFields
  <2>9. u.sec = C1
    BY <2>1, <2>6 DEF StoreFields
  <2>10. /\ DOMAIN B1 = Frames(t.c) /\ \A g \in Frames(t.c) \ {f} : B1[g] = t.blk[g]
         /\ B1[f] = [t.blk[f] EXCEPT !.size = size]
    BY <2>1
  <2> HIDE DEF B1
  <2>11. SameBlk(t.blk[f], B1[f])
    BY <2>1, <2>10 DEF SameBlk, BlkFields
  <2>12. /\ DOMAIN B2 = Frames(t.c) /\ \A g \in Frames(t.c) \ {f} : B2[g] = t.blk[g]
         /\ B2[f] = [B1[f] EXCEPT !.compressed = z]
    BY <2>10
  <2> HIDE DEF B2
  <2>13. SameBlk(t.blk[f], B2[f])
    BY <2>11, <2>12 DEF SameBlk, BlkFields
  <2>14. /\ DOMAIN C1 = Entries(t.c) /\ \A d \in Entries(t.c) \ {e} : C1[d] = t.sec[d]
         /\ C1[e] = [t.sec[e] EXCEPT !.cf = cf]
    BY <2>1, <2>2
  <2> HIDE DEF C1
  <2>15. SameSec(t.sec[e], C1[e])
    BY <2>1, <2>2, <2>14 DEF SameSec, SecFields
  <2>16. SameBlocks(t, t)
    BY SameRefl
  <2>17. \A g \in Frames(t.c) : SameBlk(t.blk[g], u.blk[g])
    BY <2>8, <2>12, <2>13, <2>16 DEF SameBlocks
  <2>18. \A d \in Entries(t.c) : SameSec(t.sec[d], u.sec[d])
    BY <2>9, <2>14, <2>15, <2>16 DEF SameBlocks
  <2>19. SameBlocks(t, u)
    BY <2>7, <2>8, <2>9, <2>12, <2>14, <2>17, <2>18 DEF SameBlocks
  <2> QED
    BY <2>1, <2>7, <2>19, SameKept
<1> QED
  BY <1>1, <1>2

(* A write that changes the size of a block.                                *)
LEMMA Updated ==
  ASSUME NEW t, StoreOK(t), NEW f \in Frames(t.c), t.blk[f].valid, NEW size,
         NEW u, u = updateCompressionData(t, f, size)
  PROVE  StoreOK(u) /\ u.c = t.c
<1> DEFINE e == entryOf(f)
           F == ValidIn(t, e) \ {f}
           w == handleEvictions(t, F)
<1>1. IsStore(t) /\ e \in Entries(t.c)
  BY StoreShape, FrameOf DEF StoreOK
<1>2. F \in SUBSET Frames(t.c) /\ IsFiniteSet(F)
  <2>1. ValidIn(t, e) \subseteq Frames(t.c) /\ IsFiniteSet(ValidIn(t, e))
    BY <1>1, StoreShape, FiniteStore DEF ValidIn
  <2> QED
    BY <2>1, FS_Subset
<1>3. CASE checkExpansionContraction(t, f, size) = "expansion"
  <2>1. Without(t, F, w)
    BY <1>2, Evicted
  <2>2. u = setSizeBits(w, f, size)
    BY <1>3 DEF updateCompressionData
  <2>3. StoreOK(w) /\ w.c = t.c /\ w.blk[f] = t.blk[f]
    BY <2>1 DEF Without
  <2> HIDE DEF w
  <2> QED
    BY <2>2, <2>3, Sized
<1>4. CASE checkExpansionContraction(t, f, size) # "expansion"
  <2>1. u = setSizeBits(t, f, size)
    BY <1>4 DEF updateCompressionData
  <2> QED
    BY <2>1, Sized
<1> QED
  BY <1>3, <1>4

(* The tag of a valid block is that of its sector.                         *)
LEMMA TagOf ==
  ASSUME NEW t, StoreOK(t), NEW f \in Frames(t.c), t.blk[f].valid
  PROVE  getTag(t, f) = t.blk[f].tag
<1>1. CASE Sectored(t)
  <2>1. entryOf(f) \in Entries(t.c) /\ f \in ValidIn(t, entryOf(f))
    BY StoreShape, FrameOf DEF StoreOK, ValidIn
  <2> QED
    BY <1>1, <2>1 DEF StoreOK, SectorsOK, getTag
<1>2. CASE ~Sectored(t)
  BY <1>2 DEF getTag
<1> QED
  BY <1>1, <1>2

(* findBlock, in terms of the blocks.                                       *)
Holds(t, f, key) ==
  /\ t.blk[f].valid /\ f[1] = extractSet(t.c, key.addr) /\ f[3] = extractSectorOffset(t.c, key.addr)
  /\ t.blk[f].tag = extractTag(t.c, key.addr) /\ t.blk[f].secure = key.secure

(* findBlock answers the one block that holds the key, if there is one.     *)
LEMMA FoundBlock ==
  ASSUME NEW t, StoreOK(t), NEW key
  PROVE  /\ \A f \in Frames(t.c) : Holds(t, f, key) => findBlock(t, key) = f
         /\ findBlock(t, key) # NoFrame =>
              findBlock(t, key) \in Frames(t.c) /\ Holds(t, findBlock(t, key), key)
<1> DEFINE hits == {f \in Frames(t.c) : /\ f[1] = extractSet(t.c, key.addr)
                                        /\ f[3] = extractSectorOffset(t.c, key.addr)
                                        /\ match(t, f, key)}
<1>1. \A f \in Frames(t.c) : f \in hits <=> Holds(t, f, key)
  BY TagOf DEF Holds, match
<1>2. findBlock(t, key) = IF hits = {} THEN NoFrame
                          ELSE CHOOSE f \in hits : \A g \in hits : f[2] <= g[2]
  BY DEF findBlock
<1>3. \A f \in hits : f \in Frames(t.c)
  OBVIOUS
<1> HIDE DEF hits
<1>4. ASSUME NEW f \in hits, NEW g \in hits
      PROVE  f = g
  BY <1>1, <1>3 DEF Holds, StoreOK, Unique
<1>5. ASSUME NEW f \in hits
      PROVE  findBlock(t, key) = f
  <2>1. f[2] \in Int
    BY <1>3, StoreShape, FrameOf DEF StoreOK
  <2>2. \A g \in hits : f[2] <= g[2]
    BY <1>4, <2>1
  <2>3. findBlock(t, key) \in hits
    BY <1>2, <2>2
  <2> QED
    BY <1>4, <2>3
<1>6. findBlock(t, key) # NoFrame => findBlock(t, key) \in hits
  BY <1>2, <1>5
<1> QED
  BY <1>1, <1>3, <1>5, <1>6

(* After a miss, no block holds the key.                                    *)
LEMMA NotFound ==
  ASSUME NEW t, StoreOK(t), NEW key, findBlock(t, key) = NoFrame
  PROVE  \A f \in Frames(t.c) : ~Holds(t, f, key)
<1>1. \A f \in Frames(t.c) : f # NoFrame
  <2>1. \A f \in Frames(t.c) : f = <<f[1], f[2], f[3]>>
    BY StoreShape, FrameOf DEF StoreOK
  <2> QED
    BY <2>1 DEF NoFrame
<1> QED
  BY <1>1, FoundBlock

(* The smallest place of a set of places.                                   *)
LEMMA Smallest ==
  ASSUME NEW S \in SUBSET Nat, S # {}
  PROVE  \E i \in S : \A j \in S : i <= j
<1> DEFINE G == {n \in Nat : \A m \in 0..n : m \notin S}
<1> SUFFICES ASSUME \A i \in S : \E j \in S : ~(i <= j)
             PROVE  FALSE
  OBVIOUS
<1>1. 0 \in G
  OBVIOUS
<1>2. \A n \in Nat : n \in G => n + 1 \in G
  <2> SUFFICES ASSUME NEW n \in Nat, n \in G
               PROVE  n + 1 \in G
    OBVIOUS
  <2>1. n + 1 \notin S
    OBVIOUS
  <2> QED
    BY <2>1
<1>3. Nat \subseteq G
  <2> HIDE DEF G
  <2> QED
    BY <1>1, <1>2, Inductive
<1>4. \A n \in Nat : n \notin S
  BY <1>3
<1> QED
  BY <1>4

(* A sequence over a set is one over a larger set.                          *)
LEMMA SeqSub ==
  ASSUME NEW A, NEW B, A \subseteq B, NEW s \in Seq(A)
  PROVE  s \in Seq(B)
OBVIOUS

(* The candidates of a packet, its partition's policies applied.            *)
LEMMA CandidatesLeft ==
  ASSUME NEW t, StoreOK(t), NEW key \in t.c.keys, NEW part \in PartIds,
         NEW cs, cs = filterByPartition(t, getPossibleEntries(t.c, key), part)
  PROVE  /\ cs \in Seq(Entries(t.c))
         /\ t.c.parts = {} => Len(cs) = t.c.ways
         /\ \A e \in Members(cs) :
              /\ e \in Entries(t.c) /\ e[1] = extractSet(t.c, key.addr)
              /\ "way" \in t.c.parts /\ part \in DOMAIN WaysOf => e[2] \in WaysOf[part]
              /\ "max" \in t.c.parts /\ atCapacity(t, part) =>
                   t.blk[<<e[1], e[2], 0>>].part = part
<1> DEFINE s  == extractSet(t.c, key.addr)
           E0 == {e \in Entries(t.c) : e[1] = s}
           E1 == {e \in E0 : "max" \in t.c.parts /\ atCapacity(t, part) =>
                               t.blk[<<e[1], e[2], 0>>].part = part}
           E2 == {e \in E1 : "way" \in t.c.parts /\ part \in DOMAIN WaysOf => e[2] \in WaysOf[part]}
           c0 == getPossibleEntries(t.c, key)
           c1 == filterByCapacity(t, c0, part)
<1>1. t.c.ways \in Nat \ {0} /\ t.c.sets \in Nat \ {0} /\ s \in 0..t.c.sets - 1
  BY StoreShape, KeyNumbers DEF StoreOK
<1>2. c0 \in Seq(E0) /\ Len(c0) = t.c.ways
  <2>1. c0 = [w \in 1..t.c.ways |-> <<s, w - 1>>]
    BY DEF getPossibleEntries
  <2>2. \A w \in 1..t.c.ways : <<s, w - 1>> \in E0
    BY <1>1 DEF Entries
  <2> HIDE DEF c0, E0, s
  <2> QED
    BY <1>1, <2>1, <2>2
<1> HIDE DEF c0
<1>3. c1 \in Seq(E1) /\ (t.c.parts = {} => c1 = c0)
  <2>1. CASE "max" \notin t.c.parts \/ ~atCapacity(t, part)
    <3>1. c1 = c0 /\ E1 = E0
      BY <2>1 DEF filterByCapacity
    <3> QED
      BY <1>2, <3>1
  <2>2. CASE "max" \in t.c.parts /\ atCapacity(t, part)
    <3> DEFINE I == {i \in DOMAIN c0 : t.blk[<<c0[i][1], c0[i][2], 0>>].part = part}
               K == {c0[i] : i \in {j \in DOMAIN c0 : j \in I}}
    <3>1. c1 = Left(c0, I)
      BY <2>2 DEF filterByCapacity
    <3>2. c1 \in Seq(K)
      BY <1>2, <3>1, LeftOnly
    <3>3. K \subseteq E1
      <4>1. ASSUME NEW i \in DOMAIN c0, i \in I
            PROVE  c0[i] \in E1
        <5>1. c0[i] \in E0
          BY <1>2
        <5>2. t.blk[<<c0[i][1], c0[i][2], 0>>].part = part
          BY <4>1
        <5> HIDE DEF E0
        <5> QED
          BY <5>1, <5>2
      <4> HIDE DEF E1, I
      <4> QED
        BY <4>1
    <3> HIDE DEF K, E1, c1
    <3> QED
      BY <2>2, <3>2, <3>3, SeqSub
  <2> QED
    BY <2>1, <2>2
<1> HIDE DEF c1
<1>4. cs \in Seq(E2) /\ (t.c.parts = {} => cs = c1)
  <2>1. cs = filterByWay(t, c1, part)
    BY DEF filterByPartition, c1, c0
  <2>2. CASE "way" \notin t.c.parts \/ part \notin DOMAIN WaysOf
    <3>1. cs = c1 /\ E2 = E1
      BY <2>1, <2>2 DEF filterByWay
    <3> QED
      BY <1>3, <3>1
  <2>3. CASE "way" \in t.c.parts /\ part \in DOMAIN WaysOf
    <3> DEFINE I == {i \in DOMAIN c1 : c1[i][2] \in WaysOf[part]}
               K == {c1[i] : i \in {j \in DOMAIN c1 : j \in I}}
    <3>1. cs = Left(c1, I)
      BY <2>1, <2>3 DEF filterByWay
    <3>2. cs \in Seq(K)
      BY <1>3, <3>1, LeftOnly
    <3>3. K \subseteq E2
      BY <1>3
    <3> HIDE DEF K, E2, E1
    <3> QED
      BY <2>3, <3>2, <3>3, SeqSub
  <2> QED
    BY <2>2, <2>3
<1>5. \A e \in E2 :
        /\ e \in Entries(t.c) /\ e[1] = s
        /\ "way" \in t.c.parts /\ part \in DOMAIN WaysOf => e[2] \in WaysOf[part]
        /\ "max" \in t.c.parts /\ atCapacity(t, part) => t.blk[<<e[1], e[2], 0>>].part = part
  OBVIOUS
<1>6. E2 \subseteq Entries(t.c)
  OBVIOUS
<1> HIDE DEF E0, E1, E2
<1>7. cs \in Seq(Entries(t.c))
  BY <1>4, <1>6, SeqSub
<1>8. \A e \in Members(cs) : e \in E2
  BY <1>4 DEF Members
<1> QED
  BY <1>2, <1>3, <1>4, <1>5, <1>7, <1>8

(* Where a store without the blocks of F may take a block.                  *)
LEMMA RoomMade ==
  ASSUME NEW t, StoreOK(t), NEW F, NEW u, Without(t, F, u), NEW part \in PartIds,
         "max" \in t.c.parts,
         atCapacity(t, part) => \E g \in F : g \in Frames(t.c) /\ t.blk[g].part = part
  PROVE  orZero(u.cur[part]) < Limit(part)
<1>1. /\ StoreOK(u) /\ u.c = t.c /\ IsStore(t) /\ \A f \in F : ~u.blk[f].valid
      /\ \A f \in Frames(t.c) \ F : u.blk[f] = t.blk[f]
      /\ \A f \in Frames(t.c) : BlkOK(t.blk[f])
  BY DEF Without, StoreOK, IsStore
<1>2. /\ orZero(u.cur[part]) = Cardinality(Held(u, part))
      /\ orZero(t.cur[part]) = Cardinality(Held(t, part)) /\ orZero(t.cur[part]) <= Limit(part)
      /\ t.cur[part] \in Nat \cup {Absent}
      /\ t.max[part] = Capacity[part] \/ (Capacity[part] = Absent /\ t.max[part] = 0)
      /\ t.max[part] = Absent => t.cur[part] = Absent
  BY <1>1 DEF StoreOK, CapacityOK
<1>3. IsFiniteSet(Held(t, part)) /\ Held(u, part) \subseteq Held(t, part)
  BY <1>1, StoreShape DEF Held
<1>4. /\ Cardinality(Held(u, part)) <= Cardinality(Held(t, part))
      /\ Cardinality(Held(u, part)) \in Nat /\ Cardinality(Held(t, part)) \in Nat
  BY <1>3, FS_Subset, FS_CardinalityType
<1>5. Capacity[part] \in Nat \cup {Absent} /\ Limit(part) \in Nat \ {0}
  BY PartitionsAssumption DEF Limit, Absent
<1>6. CASE atCapacity(t, part)
  <2>1. PICK g \in F : g \in Frames(t.c) /\ t.blk[g].part = part
    BY <1>6
  <2>2. t.blk[g].valid
    BY <1>1, <2>1, PartitionsAssumption DEF BlkOK, Absent
  <2>3. g \in Held(t, part) /\ g \notin Held(u, part)
    BY <1>1, <2>1, <2>2 DEF Held
  <2>4. Held(u, part) \subseteq Held(t, part) \ {g}
    BY <1>3, <2>3
  <2>5. Cardinality(Held(t, part) \ {g}) = Cardinality(Held(t, part)) - 1
        /\ IsFiniteSet(Held(t, part) \ {g})
    BY <1>3, <2>3, OneLess, FS_Subset
  <2>6. Cardinality(Held(u, part)) <= Cardinality(Held(t, part) \ {g})
    BY <2>4, <2>5, FS_Subset
  <2> QED
    BY <1>2, <1>4, <1>5, <2>5, <2>6
<1>7. CASE ~atCapacity(t, part)
  <2>1. orZero(t.cur[part]) < Limit(part)
    <3>1. t.cur[part] = Absent \/ (t.max[part] # Absent /\ t.cur[part] < t.max[part])
      BY <1>2, <1>5, <1>7 DEF atCapacity, Absent
    <3>2. CASE t.cur[part] = Absent
      BY <1>5, <3>2 DEF orZero, Absent
    <3>3. CASE t.cur[part] # Absent
      <4>1. t.cur[part] \in Nat /\ t.cur[part] < t.max[part] /\ orZero(t.cur[part]) = t.cur[part]
        BY <1>2, <3>1, <3>3 DEF orZero
      <4>2. t.max[part] = Capacity[part] /\ Capacity[part] > 0
        BY <1>2, <1>5, <4>1 DEF Absent
      <4> QED
        BY <4>1, <4>2 DEF Limit
    <3> QED
      BY <3>2, <3>3
  <2> QED
    BY <1>2, <1>4, <1>5, <2>1
<1> QED
  BY <1>6, <1>7

(* Once the victims have gone, the block may go where it is to go.          *)
LEMMA Freed ==
  ASSUME NEW t, StoreOK(t), NEW key \in t.c.keys, NEW part \in PartIds,
         findBlock(t, key) = NoFrame, NEW F, NEW u, Without(t, F, u),
         NEW f \in Frames(t.c), ~u.blk[f].valid,
         f[1] = extractSet(t.c, key.addr), f[3] = extractSectorOffset(t.c, key.addr),
         "way" \in t.c.parts /\ part \in DOMAIN WaysOf => f[2] \in WaysOf[part],
         "max" \in t.c.parts => orZero(u.cur[part]) < Limit(part),
         Sectored(t) => \A g \in ValidIn(u, entryOf(f)) :
                          /\ u.blk[g].tag = extractTag(t.c, key.addr)
                          /\ u.blk[g].secure = key.secure
  PROVE  Free(u, f, key, part)
<1>1. /\ StoreOK(u) /\ u.c = t.c /\ \A g \in F : ~u.blk[g].valid
      /\ \A g \in Frames(t.c) \ F : u.blk[g] = t.blk[g]
  BY DEF Without
<1>2. \A g \in Frames(t.c) : ~Holds(t, g, key)
  BY NotFound
<1>3. \A g \in Frames(t.c) : ~(/\ u.blk[g].valid /\ g[1] = f[1] /\ g[3] = f[3]
                               /\ u.blk[g].tag = extractTag(t.c, key.addr)
                               /\ u.blk[g].secure = key.secure)
  BY <1>1, <1>2 DEF Holds
<1>4. ASSUME Sectored(t)
      PROVE  u.sec[entryOf(f)].count = 0 \/ sectorMatch(u, entryOf(f), key)
  <2> DEFINE e == entryOf(f)
  <2>1. IsStore(u) /\ Sectored(u) /\ e \in Entries(t.c)
    BY <1>1, <1>4, StoreShape, FrameOf DEF StoreOK, Sectored
  <2>2. /\ u.sec[e].count = Cardinality(ValidIn(u, e)) /\ IsFiniteSet(ValidIn(u, e))
        /\ \A g \in ValidIn(u, e) : /\ u.blk[g].tag = u.sec[e].tag
                                    /\ u.blk[g].secure = u.sec[e].secure
    BY <1>1, <2>1, StoreShape DEF StoreOK, SectorsOK
  <2>3. CASE ValidIn(u, e) = {}
    BY <2>2, <2>3, FS_EmptySet
  <2>4. CASE ValidIn(u, e) # {}
    <3>1. PICK g \in ValidIn(u, e) : TRUE
      BY <2>4
    <3>2. Cardinality(ValidIn(u, e)) \in Nat /\ Cardinality(ValidIn(u, e)) >= 1
      BY <2>2, <3>1, OneLess
    <3>3. u.sec[e].tag = extractTag(t.c, key.addr) /\ u.sec[e].secure = key.secure
      BY <1>4, <2>2, <3>1
    <3>4. u.sec[e].count > 0
      BY <2>2, <3>2
    <3> QED
      BY <1>1, <3>3, <3>4 DEF sectorMatch
  <2> QED
    BY <2>3, <2>4
<1>5. Sectored(u) <=> Sectored(t)
  BY <1>1 DEF Sectored
<1> QED
  BY <1>1, <1>3, <1>4, <1>5 DEF Free

(* findVictim: whatever the policy chooses, the block can go there once the *)
(* victims are gone.                                                        *)
Makes(t, x, key, part) ==
  /\ x.bad = FALSE /\ RpOK(x.rp, t.c) /\ x.f \in Frames(t.c)
  /\ x.f[1] = extractSet(t.c, key.addr) /\ x.f[3] = extractSectorOffset(t.c, key.addr)
  /\ x.evict \in SUBSET Frames(t.c) /\ IsFiniteSet(x.evict)
  /\ x.f \in x.evict \/ ~t.blk[x.f].valid
  /\ "way" \in t.c.parts /\ part \in DOMAIN WaysOf => x.f[2] \in WaysOf[part]
  /\ "max" \in t.c.parts /\ atCapacity(t, part) => \E g \in x.evict : t.blk[g].part = part
  /\ Sectored(t) => \A g \in ValidIn(t, entryOf(x.f)) :
                      \/ g \in x.evict
                      \/ /\ t.blk[g].tag = extractTag(t.c, key.addr)
                         /\ t.blk[g].secure = key.secure

(* A place in an entry.                                                    *)
Place(e, o) == <<e[1], e[2], o>>

(* The frame of an entry at an offset.                                      *)
LEMMA PlaceIn ==
  ASSUME NEW t, IsStore(t), NEW e \in Entries(t.c), NEW o \in 0..t.c.offs - 1
  PROVE  LET f == Place(e, o) IN
         /\ f \in Frames(t.c) /\ entryOf(f) = e /\ f \in FramesIn(t.c, e)
         /\ f[1] = e[1] /\ f[2] = e[2] /\ f[3] = o
<1> DEFINE f == <<e[1], e[2], o>>
<1>1. f[1] = e[1] /\ f[2] = e[2] /\ f[3] = o
  OBVIOUS
<1>2. f \in Frames(t.c) /\ e = <<e[1], e[2]>>
  BY StoreShape, FrameOf
<1>3. f \in FramesIn(t.c, e)
  BY DEF FramesIn
<1>4. entryOf(f) = e
  BY <1>1, <1>2 DEF entryOf
<1> HIDE DEF f
<1>5. Place(e, o) = f
  BY DEF Place, f
<1> QED
  BY <1>1, <1>2, <1>3, <1>4, <1>5

(* A sector that the block joins: it keeps its blocks.                      *)
LEMMA Joins ==
  ASSUME NEW t, StoreOK(t), Sectored(t), NEW key \in t.c.keys, NEW part \in PartIds,
         NEW e \in Entries(t.c), e[1] = extractSet(t.c, key.addr),
         "way" \in t.c.parts /\ part \in DOMAIN WaysOf => e[2] \in WaysOf[part],
         sectorMatch(t, e, key),
         NEW x, x.f = Place(e, extractSectorOffset(t.c, key.addr)), x.evict = {}, x.rp = t.rp,
         x.bad = FALSE,
         ~t.blk[x.f].valid
  PROVE  Makes(t, x, key, part)
<1> DEFINE o == extractSectorOffset(t.c, key.addr)
<1>1. IsStore(t) /\ o \in 0..t.c.offs - 1 /\ "max" \notin t.c.parts /\ RpOK(t.rp, t.c)
  BY StoreShape, KeyNumbers DEF StoreOK, IsStore
<1>2. /\ x.f \in Frames(t.c) /\ entryOf(x.f) = e
      /\ x.f[1] = e[1] /\ x.f[2] = e[2] /\ x.f[3] = o
  BY <1>1, PlaceIn
<1>3. \A g \in ValidIn(t, e) : t.blk[g].tag = t.sec[e].tag /\ t.blk[g].secure = t.sec[e].secure
  BY DEF StoreOK, SectorsOK
<1>4. \A g \in ValidIn(t, e) : /\ t.blk[g].tag = extractTag(t.c, key.addr)
                               /\ t.blk[g].secure = key.secure
  BY <1>3 DEF sectorMatch
<1> HIDE DEF o
<1>5. IsFiniteSet({})
  BY FS_EmptySet
<1> QED
  BY <1>1, <1>2, <1>4, <1>5 DEF Makes, o

(* A sector that the block takes over: its blocks go.                       *)
LEMMA TakesOver ==
  ASSUME NEW t, StoreOK(t), Sectored(t), NEW key \in t.c.keys, NEW part \in PartIds,
         NEW e \in Entries(t.c), e[1] = extractSet(t.c, key.addr),
         "way" \in t.c.parts /\ part \in DOMAIN WaysOf => e[2] \in WaysOf[part],
         NEW R, RpOK(R, t.c),
         NEW x, x.f = Place(e, extractSectorOffset(t.c, key.addr)), x.evict = ValidIn(t, e),
         x.rp = R, x.bad = FALSE
  PROVE  Makes(t, x, key, part)
<1> DEFINE o == extractSectorOffset(t.c, key.addr)
<1>1. IsStore(t) /\ o \in 0..t.c.offs - 1 /\ "max" \notin t.c.parts
  BY StoreShape, KeyNumbers DEF StoreOK, IsStore
<1>2. /\ x.f \in Frames(t.c) /\ entryOf(x.f) = e /\ x.f \in FramesIn(t.c, e)
      /\ x.f[1] = e[1] /\ x.f[2] = e[2] /\ x.f[3] = o
  BY <1>1, PlaceIn
<1>3. ValidIn(t, e) \in SUBSET Frames(t.c) /\ IsFiniteSet(ValidIn(t, e))
  BY <1>1, StoreShape, FiniteStore DEF ValidIn
<1>4. x.f \in ValidIn(t, e) \/ ~t.blk[x.f].valid
  BY <1>2 DEF ValidIn
<1> HIDE DEF o
<1> QED
  BY <1>1, <1>2, <1>3, <1>4 DEF Makes, o

(* BaseSetAssoc::findVictim.                                                *)
LEMMA SetMakes ==
  ASSUME NEW t, StoreOK(t), t.c.kind = "setassoc", NEW key \in t.c.keys, NEW part \in PartIds,
         NEW e \in Entries(t.c), e[1] = extractSet(t.c, key.addr),
         "way" \in t.c.parts /\ part \in DOMAIN WaysOf => e[2] \in WaysOf[part],
         "max" \in t.c.parts /\ atCapacity(t, part) => t.blk[Place(e, 0)].part = part,
         NEW R, RpOK(R, t.c),
         NEW x, x.f = Place(e, 0), x.evict = {Place(e, 0)}, x.rp = R, x.bad = FALSE
  PROVE  Makes(t, x, key, part)
<1>1. IsStore(t) /\ t.c.offs = 1 /\ extractSectorOffset(t.c, key.addr) = 0 /\ 0 \in 0..t.c.offs - 1
  <2>1. IsStore(t) /\ ~Sectored(t) /\ t.c \in SetConfigs
    BY DEF StoreOK, IsStore, Sectored
  <2>2. t.c.offs = 1
    BY <2>1, StoreShape
  <2>3. extractSectorOffset(t.c, key.addr) \in 0..t.c.offs - 1
    BY <2>1, KeyNumbers
  <2> QED
    BY <2>1, <2>2, <2>3
<1>2. /\ x.f \in Frames(t.c) /\ x.f[1] = e[1] /\ x.f[2] = e[2] /\ x.f[3] = 0
  BY <1>1, PlaceIn
<1>3. IsFiniteSet({x.f}) /\ x.evict = {x.f}
  BY FS_Singleton
<1>4. ~Sectored(t)
  BY DEF Sectored
<1> QED
  BY <1>1, <1>2, <1>3, <1>4 DEF Makes

(* The first candidate with a property is a candidate with it.              *)
LEMMA FirstOf ==
  ASSUME NEW E, NEW cs \in Seq(E), NEW I \in SUBSET DOMAIN cs, I # {}
  PROVE  \E i \in DOMAIN cs : i \in I /\ \A j \in 1..i - 1 : j \notin I
<1>1. I \in SUBSET Nat /\ DOMAIN cs = 1..Len(cs) /\ Len(cs) \in Nat
  OBVIOUS
<1>2. PICK i \in I : \A j \in I : i <= j
  BY <1>1, Smallest
<1>3. ASSUME NEW j \in 1..i - 1
      PROVE  j \notin I
  BY <1>1, <1>2
<1> QED
  BY <1>3

(* findVictim of the three stores.                                          *)
LEMMA VictimMakes ==
  ASSUME NEW t, StoreOK(t), NEW key \in t.c.keys, NEW part \in PartIds, NEW size,
         findBlock(t, key) = NoFrame, NEW x \in findVictim(t, key, size, part), x.f # NoFrame
  PROVE  Makes(t, x, key, part)
<1> DEFINE cs == filterByPartition(t, getPossibleEntries(t.c, key), part)
           o  == extractSectorOffset(t.c, key.addr)
<1>1. /\ cs \in Seq(Entries(t.c))
      /\ t.c.parts = {} => Len(cs) = t.c.ways
      /\ \A e \in Members(cs) :
           /\ e \in Entries(t.c) /\ e[1] = extractSet(t.c, key.addr)
           /\ "way" \in t.c.parts /\ part \in DOMAIN WaysOf => e[2] \in WaysOf[part]
           /\ "max" \in t.c.parts /\ atCapacity(t, part) => t.blk[<<e[1], e[2], 0>>].part = part
  BY CandidatesLeft
<1>2. cs # <<>>
  BY DEF findVictim, Choice
<1>3. /\ t.c.kind = "setassoc" => x \in setAssocVictim(t, cs)
      /\ t.c.kind = "sector" => x \in sectorVictim(t, cs, key)
      /\ t.c.kind = "compressed" => x \in compressedVictim(t, cs, key, size)
  BY <1>2 DEF findVictim
<1>4. /\ IsStore(t) /\ t.c.kind \in {"setassoc", "sector", "compressed"}
      /\ t.c.ways \in Nat \ {0} /\ RpOK(t.rp, t.c)
      /\ t.c.pol = "TreePLRU" => t.c.parts = {}
      /\ o \in 0..t.c.offs - 1
  BY StoreShape, SetShape, KeyNumbers DEF StoreOK, IsStore
<1> HIDE DEF cs, o
<1>5. ASSUME NEW y \in getVictim(t.rp, cs)
      PROVE  y.v \in Members(cs) /\ RpOK(y.R, t.c)
  BY <1>1, <1>2, <1>4, RpFound
<1>6. CASE t.c.kind = "setassoc"
  <2>1. PICK y \in getVictim(t.rp, cs) :
          x = Choice(<<y.v[1], y.v[2], 0>>, {<<y.v[1], y.v[2], 0>>}, y.R, FALSE)
    BY <1>3, <1>6 DEF setAssocVictim
  <2>2. x = Choice(Place(y.v, 0), {Place(y.v, 0)}, y.R, FALSE)
    BY <2>1 DEF Place
  <2>3. x.f = Place(y.v, 0) /\ x.evict = {Place(y.v, 0)} /\ x.rp = y.R /\ x.bad = FALSE
    BY <2>2 DEF Choice
  <2>4. /\ y.v \in Entries(t.c) /\ y.v[1] = extractSet(t.c, key.addr) /\ RpOK(y.R, t.c)
        /\ "way" \in t.c.parts /\ part \in DOMAIN WaysOf => y.v[2] \in WaysOf[part]
        /\ "max" \in t.c.parts /\ atCapacity(t, part) => t.blk[Place(y.v, 0)].part = part
    BY <1>1, <1>5 DEF Place
  <2> DEFINE e == y.v
             R == y.R
  <2> HIDE DEF e, R
  <2>5. x.f = Place(e, 0) /\ x.evict = {Place(e, 0)} /\ x.rp = R /\ x.bad = FALSE
    BY <2>3 DEF e, R
  <2>6. /\ e \in Entries(t.c) /\ e[1] = extractSet(t.c, key.addr) /\ RpOK(R, t.c)
        /\ "way" \in t.c.parts /\ part \in DOMAIN WaysOf => e[2] \in WaysOf[part]
        /\ "max" \in t.c.parts /\ atCapacity(t, part) => t.blk[Place(e, 0)].part = part
    BY <2>4 DEF e, R
  <2> QED
    BY <1>6, <2>5, <2>6, SetMakes
<1>7. ASSUME Sectored(t), NEW y \in getVictim(t.rp, cs),
             x = Choice(<<y.v[1], y.v[2], o>>, ValidIn(t, y.v), y.R, FALSE)
      PROVE  Makes(t, x, key, part)
  <2> DEFINE e == y.v
             R == y.R
  <2>1. x.f = Place(e, o) /\ x.evict = ValidIn(t, e) /\ x.rp = R /\ x.bad = FALSE
    BY <1>7 DEF Choice, Place
  <2>2. /\ e \in Entries(t.c) /\ e[1] = extractSet(t.c, key.addr) /\ RpOK(R, t.c)
        /\ "way" \in t.c.parts /\ part \in DOMAIN WaysOf => e[2] \in WaysOf[part]
    BY <1>1, <1>5, <1>7
  <2> HIDE DEF e, R
  <2> QED
    BY <1>7, <2>1, <2>2, TakesOver DEF o
<1>8. ASSUME Sectored(t), NEW e \in Members(cs), sectorMatch(t, e, key), ~t.blk[Place(e, o)].valid,
             x.f = Place(e, o), x.evict = {}, x.rp = t.rp, x.bad = FALSE
      PROVE  Makes(t, x, key, part)
  <2>1. /\ e \in Entries(t.c) /\ e[1] = extractSet(t.c, key.addr)
        /\ "way" \in t.c.parts /\ part \in DOMAIN WaysOf => e[2] \in WaysOf[part]
    BY <1>1
  <2> QED
    BY <1>8, <2>1, Joins DEF o
<1>9. ASSUME Sectored(t), NEW e \in Members(cs), sectorMatch(t, e, key)
      PROVE  ~t.blk[Place(e, o)].valid
  <2> SUFFICES ASSUME t.blk[Place(e, o)].valid
               PROVE  FALSE
    OBVIOUS
  <2> DEFINE f == Place(e, o)
  <2>1. /\ e \in Entries(t.c) /\ e[1] = extractSet(t.c, key.addr)
    BY <1>1
  <2>2. f \in Frames(t.c) /\ entryOf(f) = e /\ f[1] = e[1] /\ f[3] = o /\ f \in FramesIn(t.c, e)
    BY <1>4, <2>1, PlaceIn
  <2> HIDE DEF f
  <2>3. f \in ValidIn(t, e)
    BY <2>2 DEF ValidIn, f
  <2>4. t.blk[f].tag = t.sec[e].tag /\ t.blk[f].secure = t.sec[e].secure
    BY <1>9, <2>1, <2>3 DEF StoreOK, SectorsOK
  <2>5. Holds(t, f, key)
    BY <1>9, <2>1, <2>2, <2>4 DEF Holds, sectorMatch, f, o
  <2> QED
    BY <2>2, <2>5, NotFound
<1>11. CASE t.c.kind = "sector"
  <2>1. Sectored(t)
    BY <1>11 DEF Sectored
  <2> DEFINE I == {i \in DOMAIN cs : sectorMatch(t, cs[i], key)}
             k == CHOOSE i \in DOMAIN cs : /\ sectorMatch(t, cs[i], key)
                                           /\ \A j \in 1..i - 1 : ~sectorMatch(t, cs[j], key)
             a == <<cs[k][1], cs[k][2], o>>
  <2>2. CASE \E e \in Members(cs) : sectorMatch(t, e, key)
    <3>1. I \in SUBSET DOMAIN cs /\ I # {}
      BY <2>2 DEF Members
    <3>2. \E i \in DOMAIN cs : i \in I /\ \A j \in 1..i - 1 : j \notin I
      <4> HIDE DEF I
      <4> QED
        BY <1>1, <3>1, FirstOf
    <3>3. \E i \in DOMAIN cs : /\ sectorMatch(t, cs[i], key)
                               /\ \A j \in 1..i - 1 : ~sectorMatch(t, cs[j], key)
      <4>1. PICK i \in DOMAIN cs : i \in I /\ \A j \in 1..i - 1 : j \notin I
        BY <3>2
      <4>2. \A j \in 1..i - 1 : j \in DOMAIN cs
        BY <1>1
      <4> QED
        BY <4>1, <4>2
    <3>4. k \in DOMAIN cs /\ sectorMatch(t, cs[k], key)
      BY <3>3
    <3>5. x \in {Choice(a, {}, t.rp, t.blk[a].valid)}
      BY <1>3, <1>11, <2>2 DEF sectorVictim, First, o
    <3> HIDE DEF k
    <3>6. cs[k] \in Members(cs)
      BY <3>4 DEF Members
    <3>7. a = Place(cs[k], o)
      BY DEF Place
    <3>8. ~t.blk[a].valid
      BY <1>9, <2>1, <3>4, <3>6, <3>7
    <3> HIDE DEF a
    <3>9. x.f = a /\ x.evict = {} /\ x.rp = t.rp /\ x.bad = t.blk[a].valid
      BY <3>5 DEF Choice
    <3>10. t.blk[a].valid = FALSE
      <4>1. a \in Frames(t.c)
        BY <1>1, <1>4, <3>6, <3>7, PlaceIn
      <4> QED
        BY <1>4, <3>8, <4>1 DEF IsStore, BlkOK
    <3> QED
      BY <1>8, <2>1, <3>4, <3>6, <3>7, <3>8, <3>9, <3>10
  <2>3. CASE ~\E e \in Members(cs) : sectorMatch(t, e, key)
    <3>1. PICK y \in getVictim(t.rp, cs) :
            x = Choice(<<y.v[1], y.v[2], o>>, ValidIn(t, y.v), y.R, FALSE)
      BY <1>3, <1>11, <2>3 DEF sectorVictim, o
    <3> QED
      BY <1>7, <2>1, <3>1
  <2> QED
    BY <2>2, <2>3
<1>12. CASE t.c.kind = "compressed"
  <2>1. Sectored(t)
    BY <1>12 DEF Sectored
  <2> DEFINE co(e) == /\ sectorMatch(t, e, key) /\ ~t.blk[<<e[1], e[2], o>>].valid
                      /\ isCompressed(t, e, NoFrame) /\ canCoAllocate(t, e, size)
             I == {i \in DOMAIN cs : co(cs[i])}
             k == CHOOSE i \in DOMAIN cs : co(cs[i]) /\ \A j \in 1..i - 1 : ~co(cs[j])
             a == <<cs[k][1], cs[k][2], o>>
  <2>2. CASE \E e \in Members(cs) : co(e)
    <3>1. I \in SUBSET DOMAIN cs /\ I # {}
      <4> HIDE DEF co
      <4> QED
        BY <2>2 DEF Members
    <3>2. \E i \in DOMAIN cs : i \in I /\ \A j \in 1..i - 1 : j \notin I
      <4> HIDE DEF I
      <4> QED
        BY <1>1, <3>1, FirstOf
    <3>3. \E i \in DOMAIN cs : co(cs[i]) /\ \A j \in 1..i - 1 : ~co(cs[j])
      <4> HIDE DEF co
      <4>1. PICK i \in DOMAIN cs : i \in I /\ \A j \in 1..i - 1 : j \notin I
        BY <3>2
      <4>2. \A j \in 1..i - 1 : j \in DOMAIN cs
        BY <1>1
      <4> QED
        BY <4>1, <4>2
    <3>4. k \in DOMAIN cs /\ co(cs[k])
      <4> HIDE DEF co
      <4> QED
        BY <3>3, SMTT(30)
    <3>5. x \in {Choice(a, {}, t.rp, FALSE)}
      BY <1>3, <1>12, <2>2 DEF compressedVictim, First, o
    <3> HIDE DEF k
    <3>6. cs[k] \in Members(cs)
      BY <3>4 DEF Members
    <3>7. a = Place(cs[k], o)
      BY DEF Place
    <3>8. ~t.blk[a].valid /\ sectorMatch(t, cs[k], key)
      BY <3>4
    <3> HIDE DEF a
    <3>9. x.f = a /\ x.evict = {} /\ x.rp = t.rp /\ x.bad = FALSE
      BY <3>5 DEF Choice
    <3> HIDE DEF co
    <3> QED
      BY <1>8, <2>1, <3>6, <3>7, <3>8, <3>9
  <2>3. CASE ~\E e \in Members(cs) : co(e)
    <3>1. PICK y \in getVictim(t.rp, cs) :
            x = Choice(<<y.v[1], y.v[2], o>>, ValidIn(t, y.v), y.R, FALSE)
      BY <1>3, <1>12, <2>3 DEF compressedVictim, o
    <3> QED
      BY <1>7, <2>1, <3>1
  <2> QED
    BY <2>2, <2>3
<1> QED
  BY <1>4, <1>6, <1>11, <1>12

(* allocateBlock: a victim, the blocks that go and the block that comes.    *)
LEMMA Allocated ==
  ASSUME NEW t, StoreOK(t), NEW key \in t.c.keys, NEW part \in PartIds, NEW size,
         NEW tick \in Int, NEW rnd, findBlock(t, key) = NoFrame,
         NEW u \in allocateBlock(t, key, part, size, tick, rnd)
  PROVE  StoreOK(u) /\ u.c = t.c
<1>1. PICK x \in findVictim(t, key, size, part) :
        u = IF x.f = NoFrame THEN t
            ELSE setSizeBits(
                   insertBlock(handleEvictions([t EXCEPT !.rp = x.rp, !.bad = @ \/ x.bad], x.evict),
                               x.f, key, part, tick, rnd),
                   x.f, size)
  BY DEF allocateBlock
<1>2. CASE x.f = NoFrame
  BY <1>1, <1>2
<1>3. CASE x.f # NoFrame
  <2> DEFINE w == [t EXCEPT !.rp = x.rp, !.bad = @ \/ x.bad]
             v == handleEvictions(w, x.evict)
             s == insertBlock(v, x.f, key, part, tick, rnd)
  <2>1. u = setSizeBits(s, x.f, size)
    BY <1>1, <1>3
  <2>2. Makes(t, x, key, part)
    BY <1>3, VictimMakes
  <2>3. /\ x.bad = FALSE /\ RpOK(x.rp, t.c) /\ x.f \in Frames(t.c)
        /\ x.f[1] = extractSet(t.c, key.addr) /\ x.f[3] = extractSectorOffset(t.c, key.addr)
        /\ x.evict \in SUBSET Frames(t.c) /\ IsFiniteSet(x.evict)
        /\ x.f \in x.evict \/ ~t.blk[x.f].valid
        /\ "way" \in t.c.parts /\ part \in DOMAIN WaysOf => x.f[2] \in WaysOf[part]
        /\ "max" \in t.c.parts /\ atCapacity(t, part) => \E g \in x.evict : t.blk[g].part = part
        /\ Sectored(t) => \A g \in ValidIn(t, entryOf(x.f)) :
                            \/ g \in x.evict
                            \/ /\ t.blk[g].tag = extractTag(t.c, key.addr)
                               /\ t.blk[g].secure = key.secure
    BY <2>2 DEF Makes
  <2>4. DOMAIN t = StoreFields /\ t.bad = FALSE /\ IsStore(t)
    BY DEF StoreOK, IsStore
  <2>5. /\ DOMAIN w = StoreFields /\ w.c = t.c /\ w.blk = t.blk /\ w.sec = t.sec
        /\ w.inUse = t.inUse /\ w.cur = t.cur /\ w.max = t.max /\ w.rp = x.rp
        /\ w.bad = (t.bad \/ x.bad)
    BY <2>4 DEF StoreFields
  <2> HIDE DEF w
  <2>6. w.bad = FALSE
    BY <2>3, <2>4, <2>5
  <2>7. SameBlocks(t, w)
    <3>1. SameBlocks(t, t)
      BY SameRefl
    <3> QED
      BY <2>5, <2>6, <3>1 DEF SameBlocks
  <2>8. StoreOK(w)
    BY <2>3, <2>5, <2>7, SameKept
  <2>9. Without(w, x.evict, v)
    BY <2>3, <2>5, <2>8, Evicted
  <2> HIDE DEF v
  <2>10. Without(t, x.evict, v)
    BY <2>5, <2>9 DEF Without
  <2>11. /\ StoreOK(v) /\ v.c = t.c /\ \A g \in x.evict : ~v.blk[g].valid
         /\ \A g \in Frames(t.c) \ x.evict : v.blk[g] = t.blk[g]
    BY <2>10 DEF Without
  <2>12. ~v.blk[x.f].valid
    BY <2>3, <2>11
  <2>13. "max" \in t.c.parts => orZero(v.cur[part]) < Limit(part)
    BY <2>3, <2>10, RoomMade
  <2>14. Sectored(t) => \A g \in ValidIn(v, entryOf(x.f)) :
                          /\ v.blk[g].tag = extractTag(t.c, key.addr)
                          /\ v.blk[g].secure = key.secure
    <3> SUFFICES ASSUME Sectored(t), NEW g \in ValidIn(v, entryOf(x.f))
                 PROVE  v.blk[g].tag = extractTag(t.c, key.addr) /\ v.blk[g].secure = key.secure
      OBVIOUS
    <3>1. g \in FramesIn(t.c, entryOf(x.f)) /\ v.blk[g].valid
      BY <2>11 DEF ValidIn
    <3>2. g \in Frames(t.c)
      BY <2>3, <2>4, <3>1, StoreShape, FrameOf
    <3>3. g \notin x.evict /\ v.blk[g] = t.blk[g]
      BY <2>11, <3>1, <3>2
    <3>4. g \in ValidIn(t, entryOf(x.f))
      BY <3>1, <3>3 DEF ValidIn
    <3> QED
      BY <2>3, <3>3, <3>4
  <2>15. Free(v, x.f, key, part)
    <3> DEFINE f == x.f
    <3>1. /\ f \in Frames(t.c) /\ ~v.blk[f].valid
          /\ f[1] = extractSet(t.c, key.addr) /\ f[3] = extractSectorOffset(t.c, key.addr)
          /\ "way" \in t.c.parts /\ part \in DOMAIN WaysOf => f[2] \in WaysOf[part]
          /\ Sectored(t) => \A g \in ValidIn(v, entryOf(f)) :
                              /\ v.blk[g].tag = extractTag(t.c, key.addr)
                              /\ v.blk[g].secure = key.secure
      BY <2>3, <2>12, <2>14
    <3> HIDE DEF f
    <3>2. Free(v, f, key, part)
      BY <2>10, <2>13, <3>1, Freed
    <3> QED
      BY <3>2 DEF f
  <2>16. StoreOK(s) /\ Puts(v, x.f, key, part, s)
    BY <2>11, <2>15, BlockInserted
  <2> HIDE DEF s
  <2>17. s.c = t.c /\ s.blk = [v.blk EXCEPT ![x.f] = NewBlk(v.c, key, part)]
    BY <2>11, <2>16 DEF Puts
  <2>18. x.f \in DOMAIN v.blk
    BY <2>3, <2>11 DEF StoreOK, IsStore
  <2>19. s.blk[x.f].valid
    BY <2>17, <2>18 DEF NewBlk, NoBlk
  <2>20. StoreOK(s) /\ s.c = t.c /\ x.f \in Frames(s.c)
    BY <2>3, <2>16, <2>17
  <2> QED
    BY <2>1, <2>19, <2>20, Sized
<1> QED
  BY <1>2, <1>3

(* The stores start empty.                                                  *)
LEMMA StoreInit ==
  ASSUME NEW c \in SetConfigs, NEW t, t = tagsInit(c)
  PROVE  StoreOK(t) /\ t.c = c
<1>1. /\ DOMAIN t = StoreFields /\ t.c = c /\ t.blk = [f \in Frames(c) |-> NoBlk]
      /\ t.sec = [e \in Entries(c) |-> NoSector] /\ t.inUse = 0
      /\ t.cur = [p \in PartIds |-> Absent] /\ t.max = Capacity /\ t.bad = FALSE
  BY DEF tagsInit, StoreFields
<1>2. RpOK(t.rp, c)
  <2>1. {c.sets, c.ways} \subseteq Nat \ {0} /\ c.pol \in PlainPolicies \cup {"Dueling"}
    BY SetShape
  <2> QED
    BY <2>1, RpInitOK
<1> HIDE DEF StoreFields
<1>3. /\ c.sets \in Nat \ {0} /\ c.ways \in Nat \ {0} /\ c.offs \in Nat \ {0}
  BY SetShape
<1>4. /\ \A e \in Entries(c) : FramesIn(c, e) \subseteq Frames(c) /\ <<e[1], e[2], 0>> \in Frames(c)
  BY <1>3, FrameOf, FiniteStore
<1>5. \A f \in Frames(c) : t.blk[f].valid = FALSE /\ BlkOK(t.blk[f])
  <2>1. BlkOK(NoBlk) /\ NoBlk.valid = FALSE
    BY DEF NoBlk, BlkOK, BlkFields
  <2> QED
    BY <1>1, <2>1
<1>6. \A e \in Entries(c) : t.sec[e].count = 0 /\ DOMAIN t.sec[e] = SecFields
  BY <1>1 DEF NoSector, SecFields
<1>7. IsStore(t)
  BY <1>1, <1>2, <1>5, <1>6, PartitionsAssumption DEF IsStore
<1>8. /\ \A e \in Entries(c) : ValidIn(t, e) = {}
      /\ \A p : Held(t, p) = {}
      /\ Occupied(t) = {}
  <2>1. \A e \in Entries(c) : ~entryValid(t, e)
    <3> SUFFICES ASSUME NEW e \in Entries(c)
                 PROVE  ~entryValid(t, e)
      OBVIOUS
    <3>1. ~(t.sec[e].count > 0) /\ ~t.blk[<<e[1], e[2], 0>>].valid
      BY <1>4, <1>5, <1>6
    <3> QED
      BY <3>1 DEF entryValid
  <2>2. \A e \in Entries(c) : ValidIn(t, e) = {}
    BY <1>1, <1>4, <1>5 DEF ValidIn
  <2>3. \A p : Held(t, p) = {}
    BY <1>1, <1>5 DEF Held
  <2> QED
    BY <1>1, <2>1, <2>2, <2>3 DEF Occupied
<1>9. Cardinality({}) = 0
  BY FS_EmptySet
<1>10. Unique(t) /\ WaysOK(t)
  BY <1>1, <1>5 DEF Unique, WaysOK
<1>11. SectorsOK(t)
  BY <1>1, <1>6, <1>8, <1>9 DEF SectorsOK
<1>12. InUseOK(t)
  BY <1>1, <1>8, <1>9 DEF InUseOK
<1>13. CapacityOK(t)
  <2>1. \A p \in PartIds :
          /\ t.cur[p] = Absent /\ t.max[p] = Capacity[p] /\ Capacity[p] \in Nat \cup {Absent}
          /\ Limit(p) \in Nat
    <3>1. \A p \in PartIds : Capacity[p] \in Nat \cup {Absent}
      BY PartitionsAssumption
    <3>2. \A p \in PartIds : Limit(p) \in Nat
      BY <3>1 DEF Limit, Absent
    <3> QED
      BY <1>1, <3>1, <3>2
  <2> QED
    BY <1>8, <1>9, <2>1 DEF CapacityOK, orZero
<1> QED
  BY <1>1, <1>7, <1>10, <1>11, <1>12, <1>13 DEF StoreOK

-----------------------------------------------------------------------------
(* The tag stores as a state machine *)

(* A store keeps its configuration; FALRU's list, hash and trackers are in   *)
(* order, and so are the blocks, counters, policies and partitions of the   *)
(* stores that are indexed by set.                                          *)
TSInv ==
  /\ tags.c \in Configs /\ now \in Nat
  /\ FaInv
  /\ ~IsFaLru => StoreOK(tags)

(* The first state satisfies the invariant.                                 *)
LEMMA TSInvInit == TSInit => TSInv
<1> SUFFICES ASSUME TSInit
             PROVE  TSInv
  OBVIOUS
<1>1. tags.c \in Configs /\ FaInv
  BY FaInitOK
<1>2. now \in Nat
  BY DEF TSInit
<1>3. ~IsFaLru => StoreOK(tags)
  <2>1. PICK c \in Configs : tags = IF c.kind = "falru" THEN faInit(c) ELSE tagsInit(c)
    BY DEF TSInit
  <2>2. CASE c.kind = "falru"
    <3>1. tags.c = c
      BY <2>1, <2>2 DEF faInit
    <3> QED
      BY <2>2, <3>1 DEF IsFaLru
  <2>3. CASE c.kind # "falru"
    <3>1. c \in SetConfigs /\ tags = tagsInit(c)
      BY <2>1, <2>3 DEF SetConfigs
    <3> QED
      BY <3>1, StoreInit
  <2> QED
    BY <2>2, <2>3
<1> QED
  BY <1>1, <1>2, <1>3 DEF TSInv

(* A partition that a packet may carry.                                     *)
LEMMA PartsOfIds ==
  ASSUME NEW p \in PartsOf
  PROVE  p \in PartIds
BY PartitionsAssumption DEF PartsOf

(* Time does not run backwards.                                             *)
LEMMA TickNow ==
  ASSUME now \in Nat, Tick
  PROVE  now' \in Nat /\ now' \in Int
BY DEF Tick

(* An operation on a store that is indexed by set: it keeps the store as it *)
(* should be and has nothing to do with FALRU.                              *)
LEMMA SetStep ==
  ASSUME TSInv, ~IsFaLru, now' \in Nat, StoreOK(tags'), tags'.c = tags.c
  PROVE  TSInv'
<1>1. ~IsFaLru' /\ tags'.c \in Configs
  BY DEF TSInv, IsFaLru
<1>2. FaInv'
  BY <1>1 DEF FaInv
<1> QED
  BY <1>1, <1>2 DEF TSInv

(* An access that hits.                                                     *)
LEMMA HitStep ==
  ASSUME TSInv, NEW key \in tags.c.keys, Hit(key)
  PROVE  TSInv'
<1> DEFINE f == findBlock(tags, key)
<1>1. ~IsFaLru /\ f # NoFrame /\ tags' = accessBlock(tags, f, key, now') /\ now' \in Nat
      /\ now' \in Int
  BY TickNow DEF Hit, TSInv
<1>2. StoreOK(tags)
  BY <1>1 DEF TSInv
<1>3. f \in Frames(tags.c)
  BY <1>1, <1>2, FoundBlock
<1> HIDE DEF f
<1>4. StoreOK(tags') /\ tags'.c = tags.c
  BY <1>1, <1>2, <1>3, Accessed
<1> QED
  BY <1>1, <1>4, SetStep

(* A write that changes the size of a block.                                *)
LEMMA OverwriteStep ==
  ASSUME TSInv, NEW key \in tags.c.keys, NEW size, Overwrite(key, size)
  PROVE  TSInv'
<1> DEFINE f == findBlock(tags, key)
           w == accessBlock(tags, f, key, now')
<1>1. /\ tags.c.kind = "compressed" /\ f # NoFrame /\ tags' = updateCompressionData(w, f, size)
      /\ now' \in Nat /\ now' \in Int
  BY TickNow DEF Overwrite, TSInv
<1>2. ~IsFaLru /\ StoreOK(tags)
  BY <1>1 DEF TSInv, IsFaLru
<1>3. f \in Frames(tags.c) /\ tags.blk[f].valid
  BY <1>1, <1>2, FoundBlock DEF Holds
<1> HIDE DEF f
<1>4. StoreOK(w) /\ w.c = tags.c /\ w.blk = tags.blk
  BY <1>1, <1>2, <1>3, Accessed
<1> HIDE DEF w
<1>5. StoreOK(tags') /\ tags'.c = w.c
  BY <1>1, <1>3, <1>4, Updated
<1> QED
  BY <1>1, <1>2, <1>4, <1>5, SetStep

(* An access that misses, finds a victim, evicts and inserts.               *)
LEMMA MissStep ==
  ASSUME TSInv, NEW key \in tags.c.keys, NEW part \in PartsOf, NEW size, NEW rnd,
         Miss(key, part, size, rnd)
  PROVE  TSInv'
<1>1. /\ ~IsFaLru /\ findBlock(tags, key) = NoFrame
      /\ tags' \in allocateBlock(tags, key, part, size, now', rnd)
      /\ now' \in Nat /\ now' \in Int
  BY TickNow DEF Miss, TSInv
<1>2. StoreOK(tags) /\ part \in PartIds
  BY <1>1, PartsOfIds DEF TSInv
<1>3. StoreOK(tags') /\ tags'.c = tags.c
  BY <1>1, <1>2, Allocated
<1> QED
  BY <1>1, <1>3, SetStep

(* An invalidation.                                                         *)
LEMMA InvalidateStep ==
  ASSUME TSInv, NEW f \in DOMAIN tags.blk, Invalidate(f)
  PROVE  TSInv'
<1>1. /\ ~IsFaLru /\ tags.blk[f].valid /\ tags' = invalidate(tags, f) /\ now' \in Nat
  BY TickNow DEF Invalidate, TSInv
<1>2. StoreOK(tags) /\ f \in Frames(tags.c)
  BY <1>1 DEF TSInv, StoreOK, IsStore
<1>3. StoreOK(tags') /\ tags'.c = tags.c
  BY <1>1, <1>2, Invalidated
<1> QED
  BY <1>1, <1>3, SetStep

(* FALRU's own operations.                                                  *)
LEMMA FaStep ==
  ASSUME TSInv, IsFaLru, Tick, tags'.c = tags.c, FaInv'
  PROVE  TSInv'
<1>1. IsFaLru' /\ tags'.c \in Configs
  BY DEF TSInv, IsFaLru
<1>2. now' \in Nat
  BY TickNow DEF TSInv
<1> QED
  BY <1>1, <1>2 DEF TSInv

(* Every step keeps the invariant.                                          *)
LEMMA TSInvNext == TSInv /\ [TSNext]_tvars => TSInv'
<1> SUFFICES ASSUME TSInv, [TSNext]_tvars
             PROVE  TSInv'
  OBVIOUS
<1>1. tags.c \in Configs /\ FaInv
  BY DEF TSInv
<1>2. ASSUME NEW key \in tags.c.keys, Hit(key)
      PROVE  TSInv'
  BY <1>2, HitStep
<1>3. ASSUME NEW key \in tags.c.keys, FaHit(key)
      PROVE  TSInv'
  <2>1. IsFaLru /\ Tick
    BY <1>3 DEF FaHit
  <2> QED
    BY <1>1, <1>3, <2>1, FaHitStep, FaStep
<1>4. ASSUME NEW key \in tags.c.keys, FaMiss(key)
      PROVE  TSInv'
  <2>1. IsFaLru /\ Tick
    BY <1>4 DEF FaMiss
  <2> QED
    BY <1>1, <1>4, <2>1, FaMissStep, FaStep
<1>5. ASSUME NEW key \in tags.c.keys, NEW size \in SizesOf, Overwrite(key, size)
      PROVE  TSInv'
  BY <1>5, OverwriteStep
<1>6. ASSUME NEW key \in tags.c.keys, NEW size \in SizesOf, NEW part \in PartsOf,
             NEW rnd \in Draws, Miss(key, part, size, rnd)
      PROVE  TSInv'
  BY <1>6, MissStep
<1>7. ASSUME NEW f \in DOMAIN tags.blk, Invalidate(f)
      PROVE  TSInv'
  BY <1>7, InvalidateStep
<1>8. ASSUME NEW f \in DOMAIN tags.blk, FaInvalidate(f)
      PROVE  TSInv'
  <2>1. IsFaLru /\ Tick /\ f \in FaBlocks(tags)
    BY <1>8 DEF FaInvalidate, FaBlocks
  <2> QED
    BY <1>1, <1>8, <2>1, FaInvalidateStep, FaStep
<1>9. CASE UNCHANGED tvars
  <2>1. tags' = tags /\ now' = now /\ ops' = ops /\ hist' = hist
    BY <1>9 DEF tvars
  <2>2. IsFaLru' = IsFaLru /\ FaInv' = FaInv
    BY <2>1 DEF IsFaLru, FaInv, HistOK
  <2> QED
    BY <2>1, <2>2 DEF TSInv
<1> QED
  BY <1>2, <1>3, <1>4, <1>5, <1>6, <1>7, <1>8, <1>9 DEF TSNext

(* The invariant holds of every reachable store.                            *)
THEOREM StoresInOrder == TSSpec => []TSInv
<1> QED
  BY TSInvInit, TSInvNext, PTL DEF TSSpec

-----------------------------------------------------------------------------
(* What follows *)

(* Quotient and remainder give back what was put together.                  *)
LEMMA PutTogether ==
  ASSUME NEW n \in Nat \ {0}, NEW q \in Nat, NEW r \in 0..n - 1
  PROVE  /\ (q * n + r) % n = r /\ (q * n + r) \div n = q /\ q * n + r \in Nat
OBVIOUS

(* The address that a frame stands for is found in that frame.              *)
LEMMA FrameFound ==
  ASSUME StoreOK(tags), NEW f \in Frames(tags.c), tags.blk[f].valid
  PROVE  findBlock(tags, FrameKey(f)) = f
<1> DEFINE c   == tags.c
           tag == tags.blk[f].tag
           key == FrameKey(f)
<1>1. /\ c.sets \in Nat \ {0} /\ c.offs \in Nat \ {0} /\ tag \in Nat
      /\ f[1] \in 0..c.sets - 1 /\ f[3] \in 0..c.offs - 1
  <2>1. IsStore(tags)
    BY DEF StoreOK
  <2>2. c.sets \in Nat \ {0} /\ c.offs \in Nat \ {0} /\ c.ways \in Nat \ {0}
    BY <2>1, StoreShape
  <2>3. tag \in Nat
    BY <2>1 DEF IsStore, BlkOK
  <2> QED
    BY <2>2, <2>3, FrameOf
<1>2. key.addr = (tag * c.sets + f[1]) * c.offs + f[3] /\ key.secure = tags.blk[f].secure
  BY TagOf DEF FrameKey, regenerateAddr
<1> HIDE DEF key, c, tag
<1>3. tag * c.sets + f[1] \in Nat /\ (tag * c.sets + f[1]) % c.sets = f[1]
      /\ (tag * c.sets + f[1]) \div c.sets = tag
  BY <1>1, PutTogether
<1> DEFINE row == tag * c.sets + f[1]
<1>4. key.addr % c.offs = f[3] /\ key.addr \div c.offs = row
  <2> HIDE DEF row
  <2>1. row \in Nat /\ key.addr = row * c.offs + f[3]
    BY <1>2, <1>3 DEF row
  <2> QED
    <3> DEFINE n == c.offs
               r == f[3]
    <3>1. n \in Nat \ {0} /\ r \in 0..n - 1
      BY <1>1
    <3> HIDE DEF n, r
    <3>2. (row * n + r) % n = r /\ (row * n + r) \div n = row
      BY <2>1, <3>1, PutTogether
    <3> QED
      BY <2>1, <3>2 DEF n, r
<1>5. /\ extractSectorOffset(c, key.addr) = f[3] /\ extractSet(c, key.addr) = f[1]
      /\ extractTag(c, key.addr) = tag
  BY <1>3, <1>4 DEF extractSectorOffset, extractSet, extractTag
<1>6. Holds(tags, f, key)
  BY <1>2, <1>5 DEF Holds, c, tag
<1> QED
  BY <1>6, FoundBlock DEF key

(* FALRU's list is in the order of use, and every tracked cache size ends   *)
(* where it should (FALRU and CacheTracking of fa_lru.cc).                  *)
THEOREM FaLruInOrder == TSSpec => []FaLruTracked
<1>1. TSInv => FaLruTracked
  BY FaTracked DEF TSInv
<1> QED
  BY <1>1, StoresInOrder, PTL

(* No address is held twice, and each block is found where it is (findBlock *)
(* and regenerateBlkAddr of every store).                                   *)
THEOREM NoTwoCopies == TSSpec => []OneCopy
<1>1. TSInv => OneCopy
  <2> SUFFICES ASSUME TSInv
               PROVE  OneCopy
    OBVIOUS
  <2>1. CASE IsFaLru
    BY <2>1, FaExact DEF TSInv
  <2>2. CASE ~IsFaLru
    BY <2>2, FrameFound DEF TSInv, OneCopy
  <2> QED
    BY <2>1, <2>2
<1> QED
  BY <1>1, StoresInOrder, PTL

(* tagsInUse, the counters of the sectors, the charges of the partitions    *)
(* and FALRU's hash agree with the blocks.                                  *)
THEOREM CountersAgree == TSSpec => []CountsExact
<1>1. TSInv => CountsExact
  <2> SUFFICES ASSUME TSInv
               PROVE  CountsExact
    OBVIOUS
  <2>1. CASE IsFaLru
    BY <2>1, FaExact DEF TSInv
  <2>2. CASE ~IsFaLru
    <3>1. InUseOK(tags) /\ SectorsOK(tags) /\ CapacityOK(tags)
      BY <2>2 DEF TSInv, StoreOK
    <3>2. tags.inUse = Cardinality({e \in Entries(tags.c) : entryValid(tags, e)})
      BY <3>1 DEF InUseOK, Occupied
    <3>3. "max" \in tags.c.parts => \A p \in PartIds :
            orZero(tags.cur[p]) =
              Cardinality({f \in Frames(tags.c) : tags.blk[f].valid /\ tags.blk[f].part = p})
      BY <3>1 DEF CapacityOK, Held
    <3> QED
      BY <2>2, <3>1, <3>2, <3>3 DEF SectorsOK, CountsExact
  <2> QED
    BY <2>1, <2>2
<1> QED
  BY <1>1, StoresInOrder, PTL

(* No assertion of the tag stores fires.                                    *)
THEOREM TagsAsserted == TSSpec => []TagsAssertionsHold
<1>1. TSInv => TagsAssertionsHold
  BY FaExact DEF TSInv, StoreOK, TagsAssertionsHold
<1> QED
  BY <1>1, StoresInOrder, PTL

(* A partition stays within its blocks and its ways.                        *)
THEOREM PartitionsApart == TSSpec => []PartitionsKept
<1>1. TSInv => PartitionsKept
  <2> SUFFICES ASSUME TSInv, ~IsFaLru
               PROVE  /\ "max" \in tags.c.parts => \A p \in PartIds : Capacity[p] > 0 =>
                           Cardinality(Held(tags, p)) <= Capacity[p]
                      /\ "way" \in tags.c.parts =>
                           \A p \in DOMAIN WaysOf : \A f \in Held(tags, p) : f[2] \in WaysOf[p]
    BY DEF PartitionsKept, Held
  <2>1. CapacityOK(tags) /\ WaysOK(tags)
    BY DEF TSInv, StoreOK
  <2>2. "max" \in tags.c.parts => \A p \in PartIds : Capacity[p] > 0 =>
          Cardinality(Held(tags, p)) <= Capacity[p]
    BY <2>1 DEF CapacityOK, Limit
  <2>3. "way" \in tags.c.parts =>
          \A p \in DOMAIN WaysOf : \A f \in Held(tags, p) : f[2] \in WaysOf[p]
    BY <2>1 DEF WaysOK, Held
  <2> QED
    BY <2>2, <2>3
<1> QED
  BY <1>1, StoresInOrder, PTL
=============================================================================
