------------------------- MODULE SkewedAssociative -------------------------
(* The skewed indexing policy: a block may be in another set in every way.  *)
(* The functions work on block numbers (setShift is zero).  Their parameter *)
(* order says which bits is compiled in: the sources name the highest bit   *)
(* of a field first, as gem5's bits takes them, while that of gem5_stubs    *)
(* shifts by its first argument and takes the lowest bit first.             *)
EXTENDS Integers, Bitwise

NUM_SKEWING_FUNCTIONS == 8

\* bits(val, first, last) of gem5_stubs; bits(val, bit) is the same in both.
bits(val, first, last) == (val \div 2^first) % 2^(last - first + 1)
bitsHighFirst(val, first, last) == (val \div 2^last) % 2^(first - last + 1)
cut(order, val, first, last) ==
  IF order = "stubs" THEN bits(val, first, last) ELSE bitsHighFirst(val, first, last)
bit(val, b) == (val \div 2^b) % 2
insertBit(val, b, v) == val + (v - bit(val, b)) * 2^b

floorLog2(n) == CHOOSE k \in 0 .. n : 2^k <= n /\ n < 2^(k + 1)
msbShift(numSets) == floorLog2(numSets) - 1

hash(addr, msb) == insertBit(addr \div 2, msb, bit(addr, msb) ^^ bit(addr, 0))

dehash(order, addr, msb) ==
  insertBit(2 * cut(order, addr, msb - 1, 0), 0, bit(addr, msb - 1) ^^ bit(addr, msb))

hashTimes(addr, msb, n) ==
  LET h[i \in 0 .. n] == IF i = 0 THEN addr ELSE hash(h[i - 1], msb) IN h[n]
dehashTimes(order, addr, msb, n) ==
  LET h[i \in 0 .. n] == IF i = 0 THEN addr ELSE dehash(order, h[i - 1], msb) IN h[n]

\* The two fields of an address: the bits of the set, and as many above them.
addr1Of(order, addr, msb) == cut(order, addr, msb, 0)
addr2Of(order, addr, msb) == cut(order, addr, 2 * (msb + 1) - 1, msb + 1)

\* The function of a way hashes or dehashes each field, as the bits of the
\* way say, and adds one of the fields once more.
Mixed(order, f, addr2, msb) ==
  IF bit(f, 1) = 0 THEN hash(addr2, msb) ELSE dehash(order, addr2, msb)

skew(order, addr, way, msb) ==
  LET a1 == addr1Of(order, addr, msb)
      a2 == addr2Of(order, addr, msb)
      f  == way % NUM_SKEWING_FUNCTIONS
      first == IF bit(f, 2) = 0 THEN hash(a1, msb) ELSE dehash(order, a1, msb)
      added == IF bit(f, 0) = 0 THEN a2 ELSE a1
  IN  hashTimes((first ^^ Mixed(order, f, a2, msb)) ^^ added, msb, way \div NUM_SKEWING_FUNCTIONS)

\* The inverse; a field added to its own (de)hashed form is found by hashing
\* on until the field comes round.
deskew(order, addr, way, msb) ==
  LET a2 == addr2Of(order, addr, msb)
      f  == way % NUM_SKEWING_FUNCTIONS
      a1 == dehashTimes(order, addr1Of(order, addr, msb), msb, way \div NUM_SKEWING_FUNCTIONS)
              ^^ Mixed(order, f, a2, msb)
  IN  CASE f \in {0, 2} -> dehash(order, a1 ^^ a2, msb)
        [] f \in {4, 6} -> hash(a1 ^^ a2, msb)
        [] f \in {1, 3} -> hashTimes(a1, msb, msb)
        [] f \in {5, 7} -> hashTimes(a1, msb, msb + 1)

skewedSet(order, addr, way, numSets) ==
  skew(order, addr, way, msbShift(numSets)) % numSets
skewedTag(addr, numSets) == addr \div numSets
skewedAddr(order, tag, set, way, numSets) ==
  (tag * numSets) + (deskew(order, (tag * numSets) + set, way, msbShift(numSets)) % numSets)

\* One entry in each way.
skewedEntries(order, addr, assoc, numSets) ==
  {<<skewedSet(order, addr, way, numSets), way>> : way \in 0 .. assoc - 1}

-----------------------------------------------------------------------------
Ways == 0 .. 2 * NUM_SKEWING_FUNCTIONS - 1

(* With the highest bit first, deskew is the inverse of skew in every way,  *)
(* piled-up functions included: the address that is written back is the one *)
(* that was inserted (regenerateAddr).                                      *)
ASSUME DeskewUndoesSkew ==
  \A numSets \in {4, 8, 16} : \A addr \in 0 .. numSets * numSets - 1, way \in Ways :
    skewedAddr("gem5", skewedTag(addr, numSets),
               skewedSet("gem5", addr, way, numSets), way, numSets) = addr

(* Two blocks of one conventional set are apart in some of the ways.        *)
ASSUME SkewSpreads ==
  \A tag1, tag2 \in 0 .. 7 : tag1 # tag2 =>
    \E way \in 0 .. 3 : skewedSet("gem5", 8 * tag1, way, 8) #
                        skewedSet("gem5", 8 * tag2, way, 8)

(* With bits as the stubs have it, all blocks of a cache of four sets go to *)
(* set 0 and those of one tag are taken for each other: the field of the    *)
(* set is empty.  (For more sets the shift count wraps.)                    *)
ASSUME StubLosesTheSet ==
  \A addr \in 0 .. 31, way \in Ways :
    /\ skewedSet("stubs", addr, way, 4) = 0
    /\ skewedAddr("stubs", skewedTag(addr, 4), 0, way, 4) = addr - (addr % 4)
=============================================================================
