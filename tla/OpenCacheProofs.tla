-------------------------- MODULE OpenCacheProofs --------------------------
(* Proofs about OpenCache: the inductive invariant CacheOK of a cache, and   *)
(* the three invariants the run OpenCache checks, for every configuration    *)
(* that meets the assumptions of the module.                                 *)
EXTENDS OpenCache, FiniteSetTheorems, WellFoundedInduction, SequenceTheorems, TLAPS

(***************************************************************************)
(* How often a value occurs in a queue                                      *)
(***************************************************************************)
Times(q, v) == Cardinality(Occurrences(q, v))

\* A value occurs finitely often in a queue.
LEMMA TimesType ==
  ASSUME NEW S, NEW q \in Seq(S), NEW v
  PROVE  IsFiniteSet(Occurrences(q, v)) /\ Times(q, v) \in Nat
<1>1. IsFiniteSet(1..Len(q)) /\ Occurrences(q, v) \subseteq 1..Len(q)
  <2>1. Len(q) \in Nat /\ DOMAIN q = 1..Len(q)
    BY LenProperties
  <2>2. IsFiniteSet(1..Len(q))
    BY <2>1, FS_Interval
  <2> QED
    BY <2>1, <2>2 DEF Occurrences
<1> QED
  BY <1>1, FS_Subset, FS_CardinalityType DEF Times

\* Nothing occurs in an empty queue.
LEMMA TimesEmpty ==
  ASSUME NEW v
  PROVE  Times(<<>>, v) = 0
<1>1. Occurrences(<<>>, v) = {}
  BY DEF Occurrences
<1> QED
  BY <1>1, FS_EmptySet DEF Times

\* An element that is appended counts once more.
LEMMA TimesAppend ==
  ASSUME NEW S, NEW q \in Seq(S), NEW e \in S, NEW v
  PROVE  Times(Append(q, e), v) = IF e = v THEN Times(q, v) + 1 ELSE Times(q, v)
<1>1. /\ Append(q, e) \in Seq(S) /\ Len(Append(q, e)) = Len(q) + 1
      /\ \A i \in 1..Len(q) : Append(q, e)[i] = q[i]
      /\ Append(q, e)[Len(q) + 1] = e
  OBVIOUS
<1>2. Occurrences(Append(q, e), v) = IF e = v THEN Occurrences(q, v) \cup {Len(q) + 1}
                                     ELSE Occurrences(q, v)
  BY <1>1, LenProperties DEF Occurrences
<1>3. Len(q) + 1 \notin Occurrences(q, v)
  BY LenProperties DEF Occurrences
<1> QED
  BY <1>2, <1>3, TimesType, FS_AddElement DEF Times

\* r is q without its element n.
Without(r, q, n) ==
  /\ Len(r) = Len(q) - 1
  /\ \A j \in 1..Len(r) : r[j] = IF j < n THEN q[j] ELSE q[j + 1]

\* Without one of its places a queue holds the value of that place once less.
LEMMA TimesWithout ==
  ASSUME NEW S, NEW q \in Seq(S), NEW r \in Seq(S), NEW n \in 1..Len(q), Without(r, q, n), NEW v
  PROVE  Times(q, v) = IF q[n] = v THEN Times(r, v) + 1 ELSE Times(r, v)
<1> DEFINE R == Occurrences(r, v)
           Q == Occurrences(q, v) \ {n}
           f == [j \in R |-> IF j < n THEN j ELSE j + 1]
<1>1. DOMAIN q = 1..Len(q) /\ DOMAIN r = 1..Len(r) /\ Len(q) \in Nat /\ Len(r) \in Nat
  BY LenProperties
<1>2. f \in [R -> Q]
  BY <1>1 DEF Occurrences, Without
<1>3. \A x, y \in R : f[x] = f[y] => x = y
  BY <1>1 DEF Occurrences
<1>4. ASSUME NEW y \in Q PROVE \E x \in R : f[x] = y
  <2>1. y \in Int /\ n \in Int /\ y # n /\ y \in 1..Len(q) /\ q[y] = v
    BY <1>1 DEF Occurrences
  <2>2. CASE y < n
    <3>1. y \in R
      BY <2>1, <2>2, <1>1 DEF Occurrences, Without
    <3> QED
      BY <2>2, <3>1
  <2>3. CASE n < y
    <3>1. y - 1 \in R /\ ~(y - 1 < n) /\ (y - 1) + 1 = y
      BY <2>1, <2>3, <1>1 DEF Occurrences, Without
    <3> QED
      BY <3>1
  <2>4. y < n \/ n < y
    <3> HIDE DEF Q
    <3> QED
      BY <2>1
  <2> HIDE DEF Q, R, f
  <2> QED
    BY <2>2, <2>3, <2>4
<1>5. f \in Bijection(R, Q)
  <2> HIDE DEF f, R, Q
  <2> QED
    BY <1>2, <1>3, <1>4 DEF Bijection, Injection, Surjection, IsInjective
<1>6. ExistsBijection(R, Q)
  BY <1>5 DEF ExistsBijection
<1>7. IsFiniteSet(R) /\ IsFiniteSet(Occurrences(q, v)) /\ Times(q, v) \in Nat
  BY TimesType
<1>8. Cardinality(Q) = Cardinality(R)
  <2> HIDE DEF f, R, Q
  <2> QED
    BY <1>6, <1>7, FS_Bijection
<1>9. Cardinality(Q) = IF n \in Occurrences(q, v) THEN Times(q, v) - 1 ELSE Times(q, v)
  BY <1>7, FS_RemoveElement DEF Times
<1>10. n \in Occurrences(q, v) <=> q[n] = v
  BY <1>1 DEF Occurrences
<1> QED
  BY <1>7, <1>8, <1>9, <1>10 DEF Times

\* Tail leaves out the first place (cycle, next_ready).
LEMMA TailWithout ==
  ASSUME NEW S, NEW q \in Seq(S), q # <<>>
  PROVE  /\ Tail(q) \in Seq(S) /\ 1 \in 1..Len(q) /\ Head(q) = q[1] /\ Head(q) \in S
         /\ Without(Tail(q), q, 1)
<1>1. Len(q) \in Nat \ {0}
  BY EmptySeq
<1> QED
  BY <1>1, HeadTailProperties DEF Without

\* RemoveAt leaves out its place (a response of the memory).
LEMMA RemoveWithout ==
  ASSUME NEW S, NEW q \in Seq(S), NEW n \in DOMAIN q
  PROVE  RemoveAt(q, n) \in Seq(S) /\ n \in 1..Len(q) /\ q[n] \in S /\ Without(RemoveAt(q, n), q, n)
<1> DEFINE x == SubSeq(q, 1, n - 1)
           y == SubSeq(q, n + 1, Len(q))
<1>1. Len(q) \in Nat /\ DOMAIN q = 1..Len(q) /\ n \in 1..Len(q) /\ q[n] \in S
  BY LenProperties, ElementOfSeq
<1>2. \A i \in 1..Len(q) : q[i] \in S
  BY ElementOfSeq
<1>3. x \in Seq(S) /\ Len(x) = n - 1 /\ \A i \in 1..n - 1 : x[i] = q[i]
  <2>1. \A i \in 1..n - 1 : q[i] \in S
    BY <1>1, <1>2
  <2> QED
    BY <1>1, <2>1, SubSeqProperties
<1>4. y \in Seq(S) /\ Len(y) = Len(q) - n /\ \A i \in 1..Len(q) - n : y[i] = q[n + i]
  <2>1. \A i \in n + 1..Len(q) : q[i] \in S
    BY <1>1, <1>2
  <2> QED
    BY <1>1, <2>1, SubSeqProperties
<1>5. RemoveAt(q, n) = x \o y
  BY DEF RemoveAt
<1> HIDE DEF x, y
<1>6. /\ x \o y \in Seq(S) /\ Len(x \o y) = Len(x) + Len(y)
      /\ \A i \in 1..Len(x) + Len(y) : (x \o y)[i] = IF i <= Len(x) THEN x[i] ELSE y[i - Len(x)]
  BY <1>3, <1>4, ConcatProperties
<1>7. Len(x) + Len(y) = Len(q) - 1 /\ Len(x) = n - 1
  BY <1>1, <1>3, <1>4
<1>8. \A j \in 1..Len(q) - 1 : (x \o y)[j] = IF j < n THEN q[j] ELSE q[j + 1]
  <2> TAKE j \in 1..Len(q) - 1
  <2>1. (x \o y)[j] = IF j <= n - 1 THEN x[j] ELSE y[j - (n - 1)]
    BY <1>6, <1>7
  <2>2. CASE j < n
    BY <2>1, <2>2, <1>1, <1>3
  <2>3. CASE ~(j < n)
    <3>1. j - (n - 1) \in 1..Len(q) - n /\ n + (j - (n - 1)) = j + 1
      BY <2>3, <1>1
    <3>2. y[j - (n - 1)] = q[j + 1]
      BY <3>1, <1>4
    <3> QED
      BY <2>1, <2>3, <3>2, <1>1
  <2> QED
    BY <2>2, <2>3
<1> QED
  BY <1>1, <1>5, <1>6, <1>7, <1>8 DEF Without

(***************************************************************************)
(* The tags                                                                 *)
(***************************************************************************)
Fields == {"c", "line", "lru", "fifo", "dirty", "mshr", "readyList", "extra", "queue",
           "dataPort", "fillPort", "memory", "ops"}
IsCache(s) == s = [f \in Fields |-> s[f]]

Tag        == Nat \cup {-1}
BlockState == {"INVALID", "RESERVED", "VALID", "MODIFIED"}
Block(c) == [tag : Tag, st : [Sectors(c) -> BlockState], readable : [Sectors(c) -> BOOLEAN],
             data : [Sectors(c) -> Nat \cup {NoData}]]
Address(c) == {a \in [blk : Nat, sec : Sectors(c)] : get_set_index(c, a) \in 0..c.sets - 1}
Ways(c)  == 0..c.ways - 1
Sets(c)  == 0..c.sets - 1
Order(c) == [1..c.ways -> Ways(c)]

ModifiedLines(c, line) == {i \in Lines(c) : is_modified(line[i])}
CountModified(s) == Cardinality(ModifiedLines(s.c, s.line))

\* Types of the tag array, and the count of modified lines.
TagTypes(s) ==
  /\ IsCache(s) /\ s.c \in Configs
  /\ s.line \in [Lines(s.c) -> Block(s.c)]
  /\ s.lru \in [Sets(s.c) -> Order(s.c)] /\ s.fifo \in [Sets(s.c) -> Ways(s.c)]
TagsOK(s) == TagTypes(s) /\ s.dirty \in Int /\ s.dirty >= CountModified(s)

\* The lines of a configuration: finitely many, at least one sector each.
LEMMA Geometry ==
  ASSUME NEW c \in Configs
  PROVE  /\ c.sets \in Nat \ {0} /\ c.ways \in Nat \ {0} /\ c.secs \in Nat \ {0}
         /\ c.type = "NORMAL" => c.secs = 1
         /\ 0 \in Sectors(c)
         /\ c.sets * c.ways \in Nat
         /\ Lines(c) \subseteq Nat /\ IsFiniteSet(Lines(c))
<1>1. c.sets \in Nat \ {0} /\ c.ways \in Nat \ {0} /\ c.secs \in Nat \ {0}
      /\ (c.type = "NORMAL" => c.secs = 1)
  BY ConfigsAssumption
<1>2. c.sets * c.ways \in Nat
  BY <1>1
<1>3. 0 \in Sectors(c)
  BY <1>1 DEF Sectors
<1>4. Lines(c) \subseteq Nat /\ IsFiniteSet(Lines(c))
  BY <1>2, FS_Interval DEF Lines
<1> QED
  BY <1>1, <1>2, <1>3, <1>4

\* Products of the line arithmetic.
LEMMA Distribute ==
  ASSUME NEW m \in Nat, NEW n \in Nat, NEW d \in Nat
  PROVE  /\ m * n \in Nat /\ d * n \in Nat
         /\ (m + 1) * n = m * n + n
         /\ (m + 1 + d) * n = (m + 1) * n + d * n
OBVIOUS

\* The ways of the set of an address are lines of the cache.
LEMMA LinesOfSet ==
  ASSUME NEW c \in Configs, NEW a \in Address(c)
  PROVE  /\ LinesOf(c, a) \subseteq Lines(c)
         /\ \A w \in Ways(c) : get_set_index(c, a) * c.ways + w \in LinesOf(c, a)
<1> DEFINE set == get_set_index(c, a)
<1>1. c.sets \in Nat \ {0} /\ c.ways \in Nat \ {0}
  BY ConfigsAssumption
<1>2. set \in 0..c.sets - 1
  BY DEF Address
<1>3. LinesOf(c, a) = set * c.ways..(set + 1) * c.ways - 1
  BY DEF LinesOf
<1> HIDE DEF set
<1>4. set * c.ways \in Nat /\ c.sets * c.ways \in Nat
  BY <1>1, <1>2
<1>5. set * c.ways + c.ways = (set + 1) * c.ways
  <2>1. set \in Nat /\ c.ways \in Nat /\ 0 \in Nat
    BY <1>1, <1>2
  <2> QED
    BY <2>1, Distribute
<1>6. (set + 1) * c.ways <= c.sets * c.ways
  <2>1. PICK d \in Nat : c.sets = set + 1 + d
    <3>1. c.sets - (set + 1) \in Nat /\ c.sets = set + 1 + (c.sets - (set + 1))
      BY <1>1, <1>2
    <3> QED
      BY <3>1
  <2>2. c.sets * c.ways = (set + 1) * c.ways + d * c.ways /\ d * c.ways \in Nat
    BY <1>1, <1>2, <2>1, Distribute
  <2> QED
    BY <2>2, <1>4, <1>5, <1>1
<1>7. \A w \in Ways(c) : set * c.ways + w \in LinesOf(c, a)
  BY <1>1, <1>3, <1>4, <1>5 DEF Ways
<1>8. LinesOf(c, a) \subseteq Lines(c)
  BY <1>1, <1>3, <1>4, <1>5, <1>6 DEF Lines
<1> QED
  BY <1>7, <1>8 DEF set

\* The lowest member of a set of lines is one of them.
LEMMA LowestIn ==
  ASSUME NEW S \in SUBSET Nat, S # {}
  PROVE  Lowest(S) \in S
<1>1. PICK x \in S : \A y \in S : ~(<<y, x>> \in OpToRel(<, Nat))
  BY NatLessThanWellFounded, WFMin
<1>2. \A y \in S : y \in Nat /\ x \in Nat /\ ~(y < x)
  BY <1>1 DEF OpToRel
<1>3. \E i \in S : \A j \in S : i <= j
  <2>1. \A y \in S : x <= y
    BY <1>2
  <2> QED
    BY <2>1
<1> QED
  BY <1>3 DEF Lowest

\* The lowest of one is that one.
LEMMA LowestOne ==
  ASSUME NEW t \in Int
  PROVE  Lowest({t}) = t
BY DEF Lowest

\* One line is replaced.
LEMMA CountPut ==
  ASSUME NEW c \in Configs, NEW f, NEW g, NEW i \in Lines(c),
         \A j \in Lines(c) \ {i} : g[j] = f[j]
  PROVE  /\ Cardinality(ModifiedLines(c, f)) \in Nat /\ Cardinality(ModifiedLines(c, g)) \in Nat
         /\ Cardinality(ModifiedLines(c, g)) - (IF is_modified(g[i]) THEN 1 ELSE 0)
              = Cardinality(ModifiedLines(c, f)) - (IF is_modified(f[i]) THEN 1 ELSE 0)
<1> DEFINE F == ModifiedLines(c, f)
           G == ModifiedLines(c, g)
<1>1. F \ {i} = G \ {i} /\ (i \in F <=> is_modified(f[i])) /\ (i \in G <=> is_modified(g[i]))
  BY DEF ModifiedLines
<1>2. IsFiniteSet(F) /\ IsFiniteSet(G)
  BY Geometry, FS_Subset DEF ModifiedLines
<1> HIDE DEF F, G
<1>3. /\ Cardinality(F \ {i}) = IF i \in F THEN Cardinality(F) - 1 ELSE Cardinality(F)
      /\ Cardinality(G \ {i}) = IF i \in G THEN Cardinality(G) - 1 ELSE Cardinality(G)
      /\ Cardinality(F) \in Nat /\ Cardinality(G) \in Nat
  BY <1>2, FS_RemoveElement, FS_CardinalityType
<1> QED
  BY <1>1, <1>3 DEF F, G

\* A line is replaced and the count of modified lines follows it.
LEMMA PutLine ==
  ASSUME NEW s, TagsOK(s), NEW t, IsCache(t), t.c = s.c,
         t.lru \in [Sets(s.c) -> Order(s.c)], t.fifo \in [Sets(s.c) -> Ways(s.c)],
         NEW i \in Lines(s.c), NEW l \in Block(s.c), t.line = [s.line EXCEPT ![i] = l],
         t.dirty \in Int,
         t.dirty - (IF is_modified(l) THEN 1 ELSE 0)
           >= s.dirty - (IF is_modified(s.line[i]) THEN 1 ELSE 0)
  PROVE  TagsOK(t)
<1>1. s.c \in Configs /\ s.line \in [Lines(s.c) -> Block(s.c)] /\ s.dirty \in Int
      /\ s.dirty >= CountModified(s)
  BY DEF TagsOK, TagTypes
<1>2. t.line \in [Lines(s.c) -> Block(s.c)] /\ t.line[i] = l
      /\ \A j \in Lines(s.c) \ {i} : t.line[j] = s.line[j]
  BY <1>1
<1>3. /\ CountModified(s) \in Nat /\ CountModified(t) \in Nat
      /\ CountModified(t) - (IF is_modified(l) THEN 1 ELSE 0)
           = CountModified(s) - (IF is_modified(s.line[i]) THEN 1 ELSE 0)
  BY <1>1, <1>2, CountPut DEF CountModified
<1>4. t.dirty >= CountModified(t)
  BY <1>1, <1>3
<1> QED
  BY <1>1, <1>2, <1>4 DEF TagsOK, TagTypes

BooksKept(s, t) ==
  /\ t.c = s.c /\ t.mshr = s.mshr /\ t.readyList = s.readyList
  /\ t.extra = s.extra /\ t.queue = s.queue /\ t.memory = s.memory
TagsKept(s, t) ==
  /\ IsCache(t) /\ t.c = s.c /\ t.line = s.line /\ t.dirty = s.dirty
  /\ t.lru = s.lru /\ t.fifo = s.fifo

\* What keeps the tags keeps their types and the count.
LEMMA KeptTags ==
  ASSUME NEW s, NEW t, TagsOK(s), TagsKept(s, t)
  PROVE  TagsOK(t)
BY DEF TagsOK, TagTypes, TagsKept, CountModified

\* allocate, allocate_sector and fill yield blocks.
LEMMA BlockTypes ==
  ASSUME NEW c \in Configs, NEW l \in Block(c), NEW a \in Address(c)
  PROVE  /\ EmptyLine(c) \in Block(c)
         /\ allocate(c, l, a) \in Block(c)
         /\ allocate_sector(l, a.sec) \in Block(c)
         /\ \A mask : fillBlock(c, l, mask, a) \in Block(c)
<1>1. 0 \in Sectors(c) /\ a.sec \in Sectors(c) /\ a.blk \in Nat
  BY Geometry DEF Address
<1>2. EmptyLine(c) \in Block(c)
  BY DEF EmptyLine, Block, Tag, BlockState
<1>3. allocateLine(l, a) \in Block(c)
  BY <1>1 DEF allocateLine, Block, Tag, BlockState
<1>4. allocateSectors(c, a) \in Block(c)
  BY <1>1 DEF allocateSectors, EmptyLine, Block, Tag, BlockState
<1>5. allocate_sector(l, a.sec) \in Block(c)
  BY <1>1 DEF allocate_sector, Block, Tag, BlockState
<1>6. fillLine(l, a) \in Block(c)
  BY <1>1 DEF fillLine, Block, Tag, BlockState
<1>7. ASSUME NEW mask PROVE fillSectors(l, mask, a) \in Block(c)
  BY <1>1 DEF fillSectors, Block, Tag, BlockState
<1> QED
  BY <1>2, <1>3, <1>4, <1>5, <1>6, <1>7 DEF allocate, fillBlock

\* None of them makes a line modified.
LEMMA BlockModified ==
  ASSUME NEW c \in Configs, NEW l \in Block(c), NEW a \in Address(c)
  PROVE  /\ ~is_modified(EmptyLine(c))
         /\ ~is_modified(allocate(c, l, a))
         /\ is_modified(allocate_sector(l, a.sec)) => is_modified(l)
         /\ \A mask : is_modified(fillBlock(c, l, mask, a)) => is_modified(l)
<1>1. 0 \in Sectors(c) /\ a.sec \in Sectors(c) /\ a.blk \in Nat
  BY Geometry DEF Address
<1>2. c.type = "NORMAL" => Sectors(c) = {0}
  BY Geometry DEF Sectors
<1>3. ~is_modified(EmptyLine(c))
  BY DEF is_modified, EmptyLine
<1>4. c.type = "NORMAL" => ~is_modified(allocateLine(l, a))
  BY <1>2 DEF is_modified, allocateLine, Block
<1>5. ~is_modified(allocateSectors(c, a))
  BY <1>1 DEF is_modified, allocateSectors, EmptyLine
<1>6. is_modified(allocate_sector(l, a.sec)) => is_modified(l)
  BY <1>1 DEF is_modified, allocate_sector, Block
<1>7. is_modified(fillLine(l, a)) => is_modified(l)
  BY <1>1 DEF is_modified, fillLine, Block
<1>8. ASSUME NEW mask PROVE is_modified(fillSectors(l, mask, a)) => is_modified(l)
  BY <1>1 DEF is_modified, fillSectors, Block
<1> QED
  BY <1>3, <1>4, <1>5, <1>6, <1>7, <1>8 DEF allocate, fillBlock

\* A promoted order is an order of the ways.
LEMMA PromoteType ==
  ASSUME NEW c \in Configs, NEW order \in Order(c), NEW way \in Ways(c)
  PROVE  lru_promote(order, way) \in Order(c)
<1>1. c.ways \in Nat
  BY ConfigsAssumption
<1>2. \A i \in 1..c.ways : i # 1 => i - 1 \in 1..c.ways
  BY <1>1
<1> QED
  BY <1>2 DEF lru_promote, Order

\* A line is one of the ways of its set.
LEMMA WayOfLine ==
  ASSUME NEW c \in Configs, NEW i \in Lines(c)
  PROVE  i % c.ways \in Ways(c)
<1>1. c.ways \in Nat \ {0} /\ i \in Nat
  BY Geometry
<1> QED
  BY <1>1 DEF Ways

\* Everything but the replacement state.
TouchKept(s, t) == TagsOK(t) /\ BooksKept(s, t) /\ t.line = s.line /\ t.dirty = s.dirty

\* update_replacement_state changes the replacement state only.
LEMMA TouchKeeps ==
  ASSUME NEW s, TagsOK(s), NEW i \in Lines(s.c)
  PROVE  TouchKept(s, touch(s, i))
<1>0. PICK t : t = touch(s, i)
  OBVIOUS
<1>1. CASE s.c.repl \in {"LRU", "PLRU"}
  <2>1. PICK x : x = i \div s.c.ways
    OBVIOUS
  <2>2. PICK o : o = lru_promote(s.lru[x], i % s.c.ways)
    OBVIOUS
  <2>3. t = [s EXCEPT !.lru[x] = o]
    BY <1>0, <1>1, <2>1, <2>2 DEF touch
  <2>4. /\ IsCache(t) /\ BooksKept(s, t) /\ t.line = s.line /\ t.dirty = s.dirty
        /\ t.lru = [s.lru EXCEPT ![x] = o] /\ t.fifo = s.fifo
    BY <2>3 DEF TagsOK, TagTypes, IsCache, Fields, BooksKept
  <2>5. x \in Sets(s.c) => o \in Order(s.c)
    BY <2>2, PromoteType, WayOfLine DEF TagsOK, TagTypes
  <2>6. t.lru \in [Sets(s.c) -> Order(s.c)]
    BY <2>4, <2>5 DEF TagsOK, TagTypes
  <2> QED
    BY <1>0, <2>4, <2>6 DEF TagsOK, TagTypes, TouchKept, CountModified, BooksKept
<1>2. CASE s.c.repl \notin {"LRU", "PLRU"}
  BY <1>2 DEF touch, TouchKept, BooksKept
<1> QED
  BY <1>1, <1>2

\* So do fifo_advance and update_replacement_state at an allocation.
LEMMA TouchNewKeeps ==
  ASSUME NEW s, TagsOK(s), NEW i \in Lines(s.c)
  PROVE  TouchKept(s, touchNew(s, i))
<1>1. PICK x : x = i \div s.c.ways
  OBVIOUS
<1>2. PICK e : e = IF s.c.repl = "FIFO" THEN (s.fifo[x] + 1) % s.c.ways ELSE s.fifo[x]
  OBVIOUS
<1>3. PICK u : u = [s EXCEPT !.fifo[x] = e]
  OBVIOUS
<1>4. touchNew(s, i) = touch(u, i)
  BY <1>1, <1>2, <1>3 DEF touchNew
<1>5. /\ IsCache(u) /\ BooksKept(s, u) /\ u.line = s.line /\ u.dirty = s.dirty
      /\ u.fifo = [s.fifo EXCEPT ![x] = e] /\ u.lru = s.lru
  BY <1>3 DEF TagsOK, TagTypes, IsCache, Fields, BooksKept
<1>6. x \in Sets(s.c) => e \in Ways(s.c)
  <2>1. s.c.ways \in Nat \ {0} /\ (x \in Sets(s.c) => s.fifo[x] \in Ways(s.c))
    BY ConfigsAssumption DEF TagsOK, TagTypes
  <2> QED
    BY <1>2, <2>1 DEF Ways
<1>7. u.fifo \in [Sets(s.c) -> Ways(s.c)]
  BY <1>5, <1>6 DEF TagsOK, TagTypes
<1>8. TagsOK(u) /\ u.c = s.c
  BY <1>5, <1>7 DEF TagsOK, TagTypes, CountModified, BooksKept
<1>9. TouchKept(u, touch(u, i))
  BY <1>8, TouchKeeps
<1> QED
  BY <1>4, <1>5, <1>9 DEF TouchKept, BooksKept

(***************************************************************************)
(* An access of the tags                                                    *)
(***************************************************************************)
Matches(s, i, b) == ~is_invalid(s.line[i]) /\ s.line[i].tag = b
HeldIn(s, l) == \A k \in Sectors(s.c) : Answers(s, l, k) => l.data[k] = l.tag

\* Line i becomes or stays the line of the block of a.
LinePut(s, t, i, a) ==
  /\ t.line = [s.line EXCEPT ![i] = t.line[i]]
  /\ i \in LinesOf(s.c, a) /\ t.line[i].tag = a.blk
  /\ Matches(s, i, a.blk) \/ find_matching_way(s, a) = {}
  /\ (Matches(s, i, a.blk) => HeldIn(s, s.line[i])) => HeldIn(t, t.line[i])

AccessOK(s, a, r) ==
  /\ TagsOK(r.s) /\ BooksKept(s, r.s) /\ LinePut(s, r.s, r.idx, a)
  /\ ~is_invalid(r.s.line[r.idx])
  /\ r.wb = {} \/ \E t \in Tag : r.wb = {t}

\* The ways that match and the ways that are invalid are in the set.
LEMMA WaysFound ==
  ASSUME NEW s, TagsOK(s), NEW a \in Address(s.c)
  PROVE  /\ find_matching_way(s, a) = {i \in LinesOf(s.c, a) : Matches(s, i, a.blk)}
         /\ find_matching_way(s, a) # {} =>
              Lowest(find_matching_way(s, a)) \in find_matching_way(s, a)
         /\ find_invalid_way(s, a) # {} =>
              Lowest(find_invalid_way(s, a)) \in LinesOf(s.c, a)
<1>1. LinesOf(s.c, a) \subseteq Nat
  BY LinesOfSet, Geometry DEF TagsOK, TagTypes
<1>2. find_matching_way(s, a) \subseteq LinesOf(s.c, a)
      /\ find_invalid_way(s, a) \subseteq LinesOf(s.c, a)
  BY DEF find_matching_way, find_invalid_way
<1>3. find_matching_way(s, a) # {} => Lowest(find_matching_way(s, a)) \in find_matching_way(s, a)
  BY <1>1, <1>2, LowestIn
<1>4. find_invalid_way(s, a) # {} => Lowest(find_invalid_way(s, a)) \in find_invalid_way(s, a)
  BY <1>1, <1>2, LowestIn
<1>5. find_matching_way(s, a) = {i \in LinesOf(s.c, a) : Matches(s, i, a.blk)}
  BY DEF find_matching_way, Matches
<1> QED
  BY <1>2, <1>3, <1>4, <1>5

\* Whatever the policy, the victim is in the set.
LEMMA VictimInSet ==
  ASSUME NEW s, TagsOK(s), NEW a \in Address(s.c), NEW pick \in Ways(s.c)
  PROVE  find_victim(s, a, pick) \in LinesOf(s.c, a)
<1> DEFINE set == get_set_index(s.c, a)
<1>1. set \in Sets(s.c)
  BY DEF Address, Sets
<1>2. s.fifo[set] \in Ways(s.c) /\ s.lru[set] \in Order(s.c)
  BY <1>1 DEF TagsOK, TagTypes
<1>3. Last(s.lru[set]) \in Ways(s.c)
  <2>1. s.c.ways \in Nat \ {0}
    BY ConfigsAssumption DEF TagsOK, TagTypes
  <2>2. s.lru[set] \in Seq(Ways(s.c)) /\ DOMAIN s.lru[set] = 1..s.c.ways
    BY <1>2, <2>1, SeqDef DEF Order
  <2>3. Len(s.lru[set]) \in Nat /\ 1..Len(s.lru[set]) = 1..s.c.ways
    BY <2>2, LenProperties
  <2>4. Len(s.lru[set]) = s.c.ways
    BY <2>1, <2>3
  <2>5. s.lru[set][Len(s.lru[set])] \in Ways(s.c)
    BY <2>1, <2>4, <1>2 DEF Order
  <2> QED
    BY <2>5 DEF Last
<1> HIDE DEF set
<1>4. PICK w \in Ways(s.c) : find_victim(s, a, pick) = set * s.c.ways + w
  BY <1>2, <1>3 DEF find_victim, set
<1> QED
  BY <1>4, LinesOfSet DEF set, TagsOK, TagTypes

\* A line that stays as it is stays the line of its block.
LEMMA SamePut ==
  ASSUME NEW s, TagsOK(s), NEW a \in Address(s.c), NEW t, t.line = s.line, t.c = s.c,
         NEW i \in LinesOf(s.c, a), Matches(s, i, a.blk)
  PROVE  LinePut(s, t, i, a) /\ ~is_invalid(t.line[i])
<1>1. i \in Lines(s.c)
  BY LinesOfSet DEF TagsOK, TagTypes
<1>2. s.line = [s.line EXCEPT ![i] = s.line[i]]
  BY <1>1 DEF TagsOK, TagTypes
<1>3. HeldIn(s, s.line[i]) => HeldIn(t, t.line[i])
  BY DEF HeldIn, Answers
<1>4. t.line = [s.line EXCEPT ![i] = t.line[i]]
  BY <1>2
<1>5. t.line[i].tag = a.blk /\ ~is_invalid(t.line[i])
  BY DEF Matches
<1> QED
  BY <1>3, <1>4, <1>5 DEF LinePut

\* A sector of a line that is there is reserved.
LEMMA ReservedHeld ==
  ASSUME NEW s, TagsOK(s), NEW a \in Address(s.c), NEW i \in Lines(s.c), NEW t, t.c = s.c,
         t.line[i] = allocate_sector(s.line[i], a.sec)
  PROVE  /\ t.line[i].tag = s.line[i].tag
         /\ t.line[i].st[a.sec] = "RESERVED" /\ ~is_invalid(t.line[i])
         /\ HeldIn(s, s.line[i]) => HeldIn(t, t.line[i])
<1>0. PICK c \in Configs : c = s.c
  BY DEF TagsOK, TagTypes
<1>1. PICK l \in Block(c) : l = s.line[i]
  BY <1>0 DEF TagsOK, TagTypes
<1>2. PICK m : m = allocate_sector(l, a.sec) /\ m = t.line[i]
  BY <1>1
<1>3. PICK e \in Sectors(c) : e = a.sec
  BY <1>0 DEF Address
<1>4. /\ m.tag = l.tag /\ m.st = [l.st EXCEPT ![e] = "RESERVED"]
      /\ m.readable = [l.readable EXCEPT ![e] = TRUE] /\ m.data = [l.data EXCEPT ![e] = NoData]
  BY <1>2, <1>3 DEF allocate_sector, Block
<1>5. m.tag = l.tag /\ m.st[e] = "RESERVED" /\ e \in DOMAIN m.st
      /\ \A k \in Sectors(c) \ {e} :
           m.st[k] = l.st[k] /\ m.readable[k] = l.readable[k] /\ m.data[k] = l.data[k]
  BY <1>4 DEF Block
<1>6. ~is_invalid(m)
  BY <1>5 DEF is_invalid
<1>7. HeldIn(s, l) => HeldIn(t, m)
  BY <1>0, <1>5 DEF HeldIn, Answers
<1> QED
  BY <1>1, <1>2, <1>3, <1>5, <1>6, <1>7

\* A line just allocated answers nothing yet.
LEMMA AllocatedHeld ==
  ASSUME NEW c \in Configs, NEW l \in Block(c), NEW a \in Address(c), NEW t, t.c = c,
         NEW m, m = allocate(c, l, a)
  PROVE  /\ m.tag = a.blk /\ ~is_invalid(m) /\ HeldIn(t, m)
         /\ c.type = "NORMAL" => m.st[0] = "RESERVED"
<1>1. 0 \in Sectors(c) /\ a.sec \in Sectors(c) /\ (c.type = "NORMAL" => Sectors(c) = {0})
  BY Geometry DEF Address, Sectors
<1>2. CASE c.type = "NORMAL"
  <2>1. m.tag = a.blk /\ m.st[0] = "RESERVED" /\ 0 \in DOMAIN m.st
    BY <1>1, <1>2 DEF allocate, allocateLine, Block
  <2> QED
    BY <2>1, <1>1, <1>2 DEF is_invalid, HeldIn, Answers
<1>3. CASE c.type # "NORMAL"
  <2>1. m = allocateSectors(c, a)
    BY <1>3 DEF allocate
  <2>2. m.tag = a.blk /\ m.st[a.sec] = "RESERVED" /\ DOMAIN m.st = Sectors(c)
        /\ \A k \in Sectors(c) \ {a.sec} : m.st[k] = "INVALID"
    BY <2>1, <1>1 DEF allocateSectors, EmptyLine
  <2> QED
    BY <2>2, <1>1, <1>3 DEF is_invalid, HeldIn, Answers
<1> QED
  BY <1>2, <1>3

\* Line i becomes l and the count d.
LineSet(s, t, i, l, d) ==
  /\ IsCache(t) /\ BooksKept(s, t) /\ t.lru = s.lru /\ t.fifo = s.fifo
  /\ t.line = [s.line EXCEPT ![i] = l] /\ t.dirty = d

\* The line and the count change, nothing else.
LEMMA SetLine ==
  ASSUME NEW s, TagsOK(s), NEW i \in Lines(s.c), NEW l \in Block(s.c), NEW d \in Int,
         d - (IF is_modified(l) THEN 1 ELSE 0)
           >= s.dirty - (IF is_modified(s.line[i]) THEN 1 ELSE 0),
         NEW t, LineSet(s, t, i, l, d)
  PROVE  TagsOK(t) /\ t.line[i] = l
<1>1. IsCache(t) /\ t.c = s.c /\ t.lru = s.lru /\ t.fifo = s.fifo
      /\ t.line = [s.line EXCEPT ![i] = l] /\ t.dirty = d
  BY DEF LineSet, BooksKept
<1>2. s.lru \in [Sets(s.c) -> Order(s.c)] /\ s.fifo \in [Sets(s.c) -> Ways(s.c)]
      /\ s.line \in [Lines(s.c) -> Block(s.c)] /\ s.dirty \in Int
  BY DEF TagsOK, TagTypes
<1>3. TagsOK(t)
  BY <1>1, <1>2, PutLine
<1> QED
  BY <1>1, <1>2, <1>3

\* The same with a touch after it.
LEMMA TouchedPut ==
  ASSUME NEW s, TagsOK(s), NEW a \in Address(s.c), NEW i \in LinesOf(s.c, a), NEW u, NEW t,
         LinePut(s, u, i, a), BooksKept(s, u), ~is_invalid(u.line[i]), TouchKept(u, t)
  PROVE  /\ TagsOK(t) /\ BooksKept(s, t) /\ LinePut(s, t, i, a)
         /\ ~is_invalid(t.line[i]) /\ t.line = u.line
BY DEF LinePut, TouchKept, BooksKept, HeldIn, Answers

\* access finds the block: a touch, or one more sector reserved.
LEMMA AccessLineOK ==
  ASSUME NEW s, TagsOK(s), NEW a \in Address(s.c),
         NEW i \in find_matching_way(s, a), NEW status, NEW r, r = accessLine(s, a, i, status)
  PROVE  /\ AccessOK(s, a, r) /\ r.idx = i /\ r.status = status /\ r.wb = {}
         /\ IF status = "SECTOR_MISS" /\ s.c.alloc = "ON_MISS"
            THEN r.s.line[i].st[a.sec] = "RESERVED" ELSE r.s.line = s.line
<1>1. i \in LinesOf(s.c, a) /\ Matches(s, i, a.blk)
  BY WaysFound
<1>2. i \in Lines(s.c) /\ s.line[i] \in Block(s.c) /\ s.c \in Configs
  BY <1>1, LinesOfSet DEF TagsOK, TagTypes
<1>3. CASE status = "HIT"
  <2>1. r.s = touch(s, i) /\ r.idx = i /\ r.status = status /\ r.wb = {}
    BY <1>3 DEF accessLine, Accessed
  <2>2. TouchKept(s, r.s)
    BY <2>1, <1>2, TouchKeeps
  <2>3. TagsOK(r.s) /\ BooksKept(s, r.s) /\ r.s.line = s.line /\ r.s.c = s.c
    BY <2>2 DEF TouchKept, BooksKept
  <2>4. LinePut(s, r.s, i, a) /\ ~is_invalid(r.s.line[i])
    BY <1>1, <2>3, SamePut
  <2> QED
    BY <1>3, <2>1, <2>3, <2>4 DEF AccessOK
<1>4. CASE status = "SECTOR_MISS" /\ s.c.alloc = "ON_MISS"
  <2>1. PICK l : l = allocate_sector(s.line[i], a.sec)
    OBVIOUS
  <2>2. PICK u : u = [s EXCEPT !.line[i] = l]
    OBVIOUS
  <2>3. r.s = touchNew(u, i) /\ r.idx = i /\ r.status = status /\ r.wb = {}
    BY <1>4, <2>1, <2>2 DEF accessLine, Accessed
  <2>4. LineSet(s, u, i, l, s.dirty)
    BY <2>2 DEF TagsOK, TagTypes, LineSet, IsCache, Fields, BooksKept
  <2>5. l \in Block(s.c) /\ (is_modified(l) => is_modified(s.line[i]))
    BY <2>1, <1>2, BlockTypes, BlockModified
  <2>6. s.dirty \in Int
    BY DEF TagsOK
  <2>7. TagsOK(u) /\ u.line[i] = l /\ u.c = s.c /\ u.line = [s.line EXCEPT ![i] = l] /\ BooksKept(s, u)
    BY <1>2, <2>4, <2>5, <2>6, SetLine DEF LineSet, BooksKept
  <2>8. u.line[i].tag = s.line[i].tag /\ u.line[i].st[a.sec] = "RESERVED" /\ ~is_invalid(u.line[i])
        /\ (HeldIn(s, s.line[i]) => HeldIn(u, u.line[i]))
    <3>1. u.c = s.c /\ u.line[i] = allocate_sector(s.line[i], a.sec)
      BY <2>1, <2>7
    <3> QED
      BY <1>2, <3>1, ReservedHeld
  <2>9. LinePut(s, u, i, a)
    BY <1>1, <2>7, <2>8 DEF LinePut, Matches
  <2>10. TouchKept(u, r.s)
    BY <1>2, <2>3, <2>7, TouchNewKeeps
  <2>11. TagsOK(r.s) /\ BooksKept(s, r.s) /\ LinePut(s, r.s, i, a) /\ ~is_invalid(r.s.line[i])
         /\ r.s.line = u.line
    <3>1. BooksKept(s, u) /\ ~is_invalid(u.line[i])
      BY <2>7, <2>8
    <3>2. PICK v : v = r.s
      OBVIOUS
    <3>3. i \in LinesOf(s.c, a)
      BY <1>1
    <3>4. TouchKept(u, v)
      BY <2>10, <3>2
    <3>5. TagsOK(v) /\ BooksKept(s, v) /\ LinePut(s, v, i, a) /\ ~is_invalid(v.line[i])
          /\ v.line = u.line
      BY <2>9, <3>1, <3>3, <3>4, TouchedPut
    <3> QED
      BY <3>2, <3>5
  <2> QED
    BY <2>3, <2>8, <2>11, <1>4 DEF AccessOK
<1>5. CASE status # "HIT" /\ ~(status = "SECTOR_MISS" /\ s.c.alloc = "ON_MISS")
  <2>1. r.s = s /\ r.idx = i /\ r.status = status /\ r.wb = {}
    BY <1>5 DEF accessLine, Accessed
  <2>2. LinePut(s, r.s, i, a) /\ ~is_invalid(r.s.line[i])
    BY <1>1, <2>1, SamePut
  <2> QED
    BY <1>5, <2>1, <2>2 DEF AccessOK, BooksKept
<1> QED
  BY <1>3, <1>4, <1>5

\* access takes an invalid line or the victim.
LEMMA AllocateOK ==
  ASSUME NEW s, TagsOK(s), NEW a \in Address(s.c), find_matching_way(s, a) = {},
         NEW i \in LinesOf(s.c, a), NEW r, r = allocateVictim(s, a, i)
  PROVE  /\ AccessOK(s, a, r) /\ r.idx = i /\ r.status = "MISS"
         /\ s.c.type = "NORMAL" => r.s.line[i].st[0] = "RESERVED"
<1>1. i \in Lines(s.c) /\ s.line[i] \in Block(s.c) /\ s.c \in Configs /\ s.dirty \in Int
  BY LinesOfSet DEF TagsOK, TagTypes
<1>2. PICK l : l = allocate(s.c, s.line[i], a)
  OBVIOUS
<1>3. PICK d : d = IF is_modified(s.line[i]) THEN s.dirty - 1 ELSE s.dirty
  OBVIOUS
<1>4. PICK e : e = evict(s, i)
  OBVIOUS
<1>5. e = [s EXCEPT !.dirty = d]
  BY <1>3, <1>4 DEF evict
<1>6. IsCache(e) /\ BooksKept(s, e) /\ e.line = s.line /\ e.lru = s.lru /\ e.fifo = s.fifo
      /\ e.dirty = d
  BY <1>5 DEF TagsOK, TagTypes, IsCache, Fields, BooksKept
<1>7. PICK u : u = [e EXCEPT !.line[i] = l]
  OBVIOUS
<1>8. r.s = touchNew(u, i) /\ r.idx = i /\ r.status = "MISS"
      /\ r.wb = IF is_modified(s.line[i]) THEN {s.line[i].tag} ELSE {}
  BY <1>2, <1>4, <1>6, <1>7 DEF allocateVictim, Accessed
<1>9. LineSet(s, u, i, l, d)
  BY <1>6, <1>7 DEF LineSet, IsCache, Fields, BooksKept
<1>10. l \in Block(s.c) /\ ~is_modified(l)
  BY <1>1, <1>2, BlockTypes, BlockModified
<1>11. d \in Int /\ d - (IF is_modified(l) THEN 1 ELSE 0)
                     >= s.dirty - (IF is_modified(s.line[i]) THEN 1 ELSE 0)
  BY <1>1, <1>3, <1>10
<1>12. TagsOK(u) /\ u.line[i] = l
  BY <1>1, <1>9, <1>10, <1>11, SetLine
<1>13. u.c = s.c /\ u.line = [s.line EXCEPT ![i] = l] /\ BooksKept(s, u)
  BY <1>9 DEF LineSet, BooksKept
<1>14. /\ l.tag = a.blk /\ ~is_invalid(l) /\ HeldIn(u, l)
       /\ s.c.type = "NORMAL" => l.st[0] = "RESERVED"
  BY <1>1, <1>2, <1>13, AllocatedHeld
<1>15. LinePut(s, u, i, a)
  BY <1>12, <1>13, <1>14 DEF LinePut
<1>16. TouchKept(u, r.s)
  BY <1>1, <1>8, <1>12, <1>13, TouchNewKeeps
<1>17. TagsOK(r.s) /\ BooksKept(s, r.s) /\ LinePut(s, r.s, i, a) /\ ~is_invalid(r.s.line[i])
       /\ r.s.line = u.line
  <2>1. BooksKept(s, u) /\ ~is_invalid(u.line[i])
    BY <1>12, <1>13, <1>14
  <2> QED
    BY <1>15, <1>16, <2>1, TouchedPut
<1>18. s.line[i].tag \in Tag
  BY <1>1 DEF Block
<1> QED
  BY <1>8, <1>12, <1>14, <1>17, <1>18 DEF AccessOK

\* TagArray::access puts one line, of the set of the address.
LEMMA TagAccessOK ==
  ASSUME NEW s, TagsOK(s), NEW a \in Address(s.c), NEW pick \in Ways(s.c),
         NEW r, r = tagAccess(s, a, pick)
  PROVE  AccessOK(s, a, r)
<1>1. CASE find_matching_way(s, a) # {}
  BY <1>1, WaysFound, AccessLineOK DEF tagAccess
<1>2. CASE find_matching_way(s, a) = {}
  BY <1>2, WaysFound, VictimInSet, AllocateOK DEF tagAccess
<1> QED
  BY <1>1, <1>2

(***************************************************************************)
(* Fills and writes of a line                                               *)
(***************************************************************************)
\* A fill leaves the data of its block in the line.
LEMMA FillHeld ==
  ASSUME NEW s, s.c \in Configs, NEW l \in Block(s.c), NEW a \in Address(s.c), l.tag = a.blk,
         NEW mask, s.c.type = "NORMAL" \/ mask = {a.sec}
  PROVE  /\ fillBlock(s.c, l, mask, a).tag = a.blk
         /\ HeldIn(s, l) => HeldIn(s, fillBlock(s.c, l, mask, a))
<1>1. 0 \in Sectors(s.c) /\ a.sec \in Sectors(s.c) /\ (s.c.type = "NORMAL" => Sectors(s.c) = {0})
  BY Geometry DEF Address, Sectors
<1>0. PICK m : m = fillBlock(s.c, l, mask, a)
  OBVIOUS
<1>2. CASE s.c.type = "NORMAL"
  <2>1. m.tag = a.blk /\ m.data[0] = a.blk
    BY <1>0, <1>1, <1>2 DEF fillBlock, fillLine, Block
  <2> QED
    BY <2>1, <1>0, <1>1, <1>2 DEF HeldIn
<1>3. CASE s.c.type # "NORMAL"
  <2>1. m = fillSectors(l, mask, a)
    BY <1>0, <1>3 DEF fillBlock
  <2>2. /\ m.tag = a.blk /\ m.data[a.sec] = a.blk
        /\ \A k \in Sectors(s.c) \ {a.sec} :
             m.st[k] = l.st[k] /\ m.readable[k] = l.readable[k] /\ m.data[k] = l.data[k]
    BY <2>1, <1>1, <1>3 DEF fillSectors, Block
  <2>3. HeldIn(s, l) => HeldIn(s, m)
    BY <2>2 DEF HeldIn, Answers
  <2> QED
    BY <1>0, <2>2, <2>3
<1> QED
  BY <1>2, <1>3

\* What a line holds depends on the line and the configuration only.
LEMMA SameHeld ==
  ASSUME NEW s, NEW t, t.c = s.c, NEW l
  PROVE  HeldIn(t, l) <=> HeldIn(s, l)
BY DEF HeldIn, Answers

\* A line that matched and still has its tag is the line of the block.
LEMMA SetPut ==
  ASSUME NEW s, TagsOK(s), NEW a \in Address(s.c), NEW i \in LinesOf(s.c, a),
         Matches(s, i, a.blk), NEW l \in Block(s.c), l.tag = a.blk, NEW d, NEW t,
         LineSet(s, t, i, l, d), HeldIn(s, s.line[i]) => HeldIn(t, l)
  PROVE  LinePut(s, t, i, a)
<1>1. i \in Lines(s.c) /\ s.line \in [Lines(s.c) -> Block(s.c)]
  BY LinesOfSet DEF TagsOK, TagTypes
<1>2. t.line = [s.line EXCEPT ![i] = l] /\ t.line[i] = l
  BY <1>1 DEF LineSet
<1> QED
  BY <1>2 DEF LinePut

\* A fill of one line.
LEMMA FillBlockOK ==
  ASSUME NEW s, TagsOK(s), NEW a \in Address(s.c), NEW i \in Lines(s.c), NEW mask,
         NEW t, t = [s EXCEPT !.line[i] = fillBlock(s.c, s.line[i], mask, a)]
  PROVE  /\ TagsOK(t) /\ BooksKept(s, t)
         /\ \/ i \notin LinesOf(s.c, a) \/ ~Matches(s, i, a.blk)
            \/ ~(s.c.type = "NORMAL" \/ mask = {a.sec})
            \/ LinePut(s, t, i, a)
<1>1. s.line[i] \in Block(s.c) /\ s.c \in Configs /\ s.dirty \in Int
  BY DEF TagsOK, TagTypes
<1>2. PICK l : l = fillBlock(s.c, s.line[i], mask, a)
  OBVIOUS
<1>3. l \in Block(s.c) /\ (is_modified(l) => is_modified(s.line[i]))
  BY <1>1, <1>2, BlockTypes, BlockModified
<1>4. LineSet(s, t, i, l, s.dirty)
  BY <1>2 DEF TagsOK, TagTypes, LineSet, IsCache, Fields, BooksKept
<1>5. TagsOK(t) /\ BooksKept(s, t) /\ t.c = s.c
  <2>1. s.dirty - (IF is_modified(l) THEN 1 ELSE 0)
          >= s.dirty - (IF is_modified(s.line[i]) THEN 1 ELSE 0)
    BY <1>1, <1>3
  <2>2. TagsOK(t)
    BY <1>1, <1>3, <1>4, <2>1, SetLine
  <2> QED
    BY <1>4, <2>2 DEF LineSet, BooksKept
<1>6. ASSUME i \in LinesOf(s.c, a), Matches(s, i, a.blk), s.c.type = "NORMAL" \/ mask = {a.sec}
      PROVE  LinePut(s, t, i, a)
  <2>1. s.line[i].tag = a.blk
    BY <1>6 DEF Matches
  <2>2. l.tag = a.blk /\ (HeldIn(s, s.line[i]) => HeldIn(t, l))
    <3>1. l.tag = a.blk /\ (HeldIn(s, s.line[i]) => HeldIn(s, l))
      BY <1>1, <1>2, <1>6, <2>1, FillHeld
    <3>2. HeldIn(t, l) <=> HeldIn(s, l)
      BY <1>5, SameHeld
    <3> QED
      BY <3>1, <3>2
  <2> QED
    BY <1>3, <1>4, <1>6, <2>2, SetPut
<1> QED
  BY <1>5, <1>6

\* A fill by address of a line that matches.
LEMMA FillSectorOK ==
  ASSUME NEW s, TagsOK(s), NEW a \in Address(s.c), NEW i \in LinesOf(s.c, a),
         Matches(s, i, a.blk), NEW t, t = fillSector(s, i, a)
  PROVE  TagsOK(t) /\ BooksKept(s, t) /\ LinePut(s, t, i, a)
<1>1. i \in Lines(s.c)
  BY LinesOfSet DEF TagsOK, TagTypes
<1>2. t = [s EXCEPT !.line[i] = fillBlock(s.c, s.line[i], {a.sec}, a)]
  BY DEF fillSector
<1> QED
  BY <1>1, <1>2, FillBlockOK

\* A fill by index: right only if the line still is that of the block.
LEMMA FillIndexOK ==
  ASSUME NEW s, TagsOK(s), NEW a \in Address(s.c), NEW i \in Lines(s.c),
         NEW t, t = fillIndex(s, i, a)
  PROVE  /\ TagsOK(t) /\ BooksKept(s, t)
         /\ \/ i \notin LinesOf(s.c, a) \/ ~Matches(s, i, a.blk) \/ s.c.type # "NORMAL"
            \/ LinePut(s, t, i, a)
<1>1. t = [s EXCEPT !.line[i] = fillBlock(s.c, s.line[i], Sectors(s.c), a)]
  BY DEF fillIndex
<1> QED
  BY <1>1, FillBlockOK

\* The steps of the lines, one block put at a time.
Puts(s, t, a) ==
  \/ t.line = s.line
  \/ \E i : LinePut(s, t, i, a)
  \/ \E u, i, j : u.c = s.c /\ TagsOK(u) /\ LinePut(s, u, i, a) /\ LinePut(u, t, j, a)

\* TagArray::fill by address: no line, one line, or an allocation and a fill.
LEMMA FillAddrOK ==
  ASSUME NEW s, TagsOK(s), NEW a \in Address(s.c), NEW pick \in Ways(s.c),
         NEW t, t = fillAddr(s, a, pick)
  PROVE  TagsOK(t) /\ BooksKept(s, t) /\ Puts(s, t, a)
<1>1. CASE find_matching_way(s, a) # {}
  <2>1. PICK i : i = Lowest(find_matching_way(s, a))
    OBVIOUS
  <2>2. i \in LinesOf(s.c, a) /\ Matches(s, i, a.blk)
    BY <1>1, <2>1, WaysFound
  <2>3. t = fillSector(s, i, a)
    BY <1>1, <2>1 DEF fillAddr
  <2> QED
    BY <2>2, <2>3, FillSectorOK DEF Puts
<1>2. CASE find_matching_way(s, a) = {} /\ s.c.alloc = "ON_FILL"
  <2>1. PICK r : r = tagAccess(s, a, pick)
    OBVIOUS
  <2>2. AccessOK(s, a, r)
    BY <2>1, TagAccessOK
  <2>3. PICK u, i : u = r.s /\ i = r.idx
    OBVIOUS
  <2>4. TagsOK(u) /\ BooksKept(s, u) /\ LinePut(s, u, i, a) /\ ~is_invalid(u.line[i])
    BY <2>2, <2>3 DEF AccessOK
  <2>5. u.c = s.c /\ i \in LinesOf(u.c, a) /\ Matches(u, i, a.blk)
    BY <2>4 DEF BooksKept, LinePut, Matches
  <2>6. t = fillSector(u, i, a)
    BY <1>2, <2>1, <2>3 DEF fillAddr, fillAllocated
  <2>7. TagsOK(t) /\ BooksKept(u, t) /\ LinePut(u, t, i, a)
    BY <2>4, <2>5, <2>6, FillSectorOK
  <2> QED
    BY <2>4, <2>5, <2>7 DEF Puts, BooksKept
<1>3. CASE find_matching_way(s, a) = {} /\ s.c.alloc # "ON_FILL"
  <2>1. t = s
    BY <1>3 DEF fillAddr
  <2> QED
    BY <2>1 DEF Puts, BooksKept
<1> QED
  BY <1>1, <1>2, <1>3

\* l is the line x after a write of the sector of a.
Written(c, x, l, a, whole) ==
  /\ l \in Block(c) /\ l.tag = x.tag /\ l.st[a.sec] = "MODIFIED" /\ l.readable = x.readable
  /\ l.data[a.sec] = IF whole THEN a.blk ELSE x.data[a.sec]
  /\ \A k \in Sectors(c) \ {a.sec} : l.st[k] = x.st[k] /\ l.data[k] = x.data[k]

\* A write makes a sector MODIFIED and counts the line once.
LEMMA ModifyOK ==
  ASSUME NEW s, TagsOK(s), NEW a \in Address(s.c), NEW i \in Lines(s.c), NEW whole \in BOOLEAN,
         NEW t, t = Modify(s, i, a, whole)
  PROVE  /\ TagsOK(t) /\ BooksKept(s, t)
         /\ \E l, d : LineSet(s, t, i, l, d) /\ d \in Int /\ Written(s.c, s.line[i], l, a, whole)
         /\ i \in LinesOf(s.c, a) /\ Matches(s, i, a.blk)
              /\ (whole \/ Answers(s, s.line[i], a.sec)) => LinePut(s, t, i, a)
<1>1. s.line[i] \in Block(s.c) /\ s.c \in Configs /\ s.dirty \in Int
      /\ a.sec \in Sectors(s.c) /\ a.blk \in Nat
  BY DEF TagsOK, TagTypes, Address
<1>2. PICK e : e = a.sec
  OBVIOUS
<1>3. PICK x : x = s.line[i]
  OBVIOUS
<1>4. PICK b : b = a.blk
  OBVIOUS
<1>5. PICK l : l = [x EXCEPT !.st[e] = "MODIFIED", !.data[e] = IF whole THEN b ELSE @]
  OBVIOUS
<1>6. PICK d : d = IF is_modified(x) THEN s.dirty ELSE s.dirty + 1
  OBVIOUS
<1>7. t = [s EXCEPT !.dirty = d, !.line[i].st[e] = "MODIFIED",
                    !.line[i].data[e] = IF whole THEN b ELSE @]
  BY <1>2, <1>3, <1>4, <1>6 DEF Modify
<1>8. l \in Block(s.c) /\ l.tag = x.tag /\ l.st[e] = "MODIFIED" /\ e \in DOMAIN l.st
      /\ l.data[e] = (IF whole THEN b ELSE x.data[e]) /\ l.readable = x.readable
      /\ \A k \in Sectors(s.c) \ {e} : l.st[k] = x.st[k] /\ l.data[k] = x.data[k]
  BY <1>1, <1>2, <1>3, <1>4, <1>5 DEF Block, BlockState
<1>9. s.line \in [Lines(s.c) -> Block(s.c)] /\ IsCache(s)
  BY DEF TagsOK, TagTypes
<1>10. LineSet(s, t, i, l, d)
  <2>1. IsCache(t) /\ BooksKept(s, t) /\ t.lru = s.lru /\ t.fifo = s.fifo /\ t.dirty = d
    BY <1>7, <1>9 DEF IsCache, Fields, BooksKept
  <2>2. t.line = [s.line EXCEPT ![i].st[e] = "MODIFIED", ![i].data[e] = IF whole THEN b ELSE @]
    BY <1>7, <1>9 DEF IsCache, Fields
  <2>3. t.line = [s.line EXCEPT ![i] = l]
    BY <1>3, <1>5, <1>9, <2>2
  <2> QED
    BY <2>1, <2>3 DEF LineSet
<1>11. is_modified(l)
  BY <1>8 DEF is_modified
<1>12. d \in Int /\ d - (IF is_modified(l) THEN 1 ELSE 0)
                     >= s.dirty - (IF is_modified(s.line[i]) THEN 1 ELSE 0)
  BY <1>1, <1>3, <1>6, <1>11
<1>13. TagsOK(t) /\ BooksKept(s, t) /\ t.c = s.c
  <2>1. TagsOK(t)
    BY <1>8, <1>10, <1>12, SetLine
  <2> QED
    BY <1>10, <2>1 DEF LineSet, BooksKept
<1>14. ASSUME i \in LinesOf(s.c, a), Matches(s, i, a.blk), whole \/ Answers(s, s.line[i], a.sec)
       PROVE  LinePut(s, t, i, a)
  <2>1. x.tag = b /\ (whole \/ Answers(s, x, e))
    BY <1>2, <1>3, <1>4, <1>14 DEF Matches
  <2>2. HeldIn(s, x) => HeldIn(t, l)
    BY <1>1, <1>2, <1>4, <1>8, <1>13, <2>1 DEF HeldIn, Answers
  <2> QED
    BY <1>3, <1>4, <1>8, <1>10, <1>14, <2>1, <2>2, SetPut
<1>15. Written(s.c, s.line[i], l, a, whole)
  BY <1>2, <1>3, <1>4, <1>8 DEF Written
<1> QED
  BY <1>10, <1>12, <1>13, <1>14, <1>15

\* The lazy write also says whether the sector may be read.
LEMMA ModifyReadableOK ==
  ASSUME NEW s, TagsOK(s), NEW a \in Address(s.c), NEW i \in Lines(s.c), NEW whole \in BOOLEAN,
         NEW t, t = ModifyReadable(s, i, a, whole)
  PROVE  /\ TagsOK(t) /\ BooksKept(s, t)
         /\ i \in LinesOf(s.c, a) /\ Matches(s, i, a.blk)
              /\ (whole \/ s.c.type = "SECTOR") => LinePut(s, t, i, a)
<1>1. PICK u : u = Modify(s, i, a, whole)
  OBVIOUS
<1>2. PICK x : x = s.line[i]
  OBVIOUS
<1>3. TagsOK(u) /\ BooksKept(s, u)
  BY <1>1, ModifyOK
<1>4. PICK l, d : LineSet(s, u, i, l, d) /\ d \in Int /\ Written(s.c, x, l, a, whole)
  BY <1>1, <1>2, ModifyOK
<1>5. PICK e : e = a.sec
  OBVIOUS
<1>6. PICK m : m = [l EXCEPT !.readable[e] = whole]
  OBVIOUS
<1>7. s.line \in [Lines(s.c) -> Block(s.c)] /\ IsCache(s) /\ e \in Sectors(s.c) /\ s.c \in Configs
      /\ l \in Block(s.c)
  BY <1>4, <1>5 DEF TagsOK, TagTypes, Address, Written
<1>8. u.c = s.c /\ u.line = [s.line EXCEPT ![i] = l] /\ u.line[i] = l /\ IsCache(u) /\ u.dirty \in Int
  BY <1>3, <1>4, <1>7 DEF LineSet, BooksKept, TagsOK
<1>9. /\ m \in Block(s.c) /\ m.tag = l.tag /\ m.st = l.st /\ m.data = l.data
      /\ m.readable[e] = whole /\ \A k \in Sectors(s.c) \ {e} : m.readable[k] = l.readable[k]
  BY <1>6, <1>7 DEF Block
<1>10. t = [u EXCEPT !.line[i].readable[e] = whole]
  BY <1>1, <1>5 DEF ModifyReadable
<1>11. IsCache(t) /\ BooksKept(u, t) /\ t.lru = u.lru /\ t.fifo = u.fifo /\ t.dirty = u.dirty
       /\ t.line = [u.line EXCEPT ![i].readable[e] = whole]
  BY <1>8, <1>10 DEF IsCache, Fields, BooksKept
<1>12. t.line = [u.line EXCEPT ![i] = m] /\ t.line = [s.line EXCEPT ![i] = m]
  BY <1>6, <1>7, <1>8, <1>11
<1>13. LineSet(u, t, i, m, u.dirty)
  BY <1>11, <1>12 DEF LineSet
<1>14. TagsOK(t)
  <2>1. is_modified(m) <=> is_modified(l)
    BY <1>9 DEF is_modified
  <2>2. i \in Lines(u.c) /\ m \in Block(u.c)
    BY <1>8, <1>9
  <2>3. u.dirty - (IF is_modified(m) THEN 1 ELSE 0)
          >= u.dirty - (IF is_modified(u.line[i]) THEN 1 ELSE 0)
    BY <1>8, <2>1
  <2> QED
    BY <1>3, <1>8, <1>13, <2>2, <2>3, SetLine
<1>15. BooksKept(s, t)
  BY <1>3, <1>11 DEF BooksKept
<1>16. ASSUME i \in LinesOf(s.c, a), Matches(s, i, a.blk), whole \/ s.c.type = "SECTOR"
       PROVE  LinePut(s, t, i, a)
  <2>1. x.tag = a.blk
    BY <1>2, <1>16 DEF Matches
  <2>2. t.line[i] = m
    BY <1>7, <1>12
  <2>3. HeldIn(s, x) => HeldIn(s, m)
    BY <1>4, <1>5, <1>9, <1>16, <2>1 DEF HeldIn, Answers, Written
  <2>4. HeldIn(t, m) <=> HeldIn(s, m)
    BY <1>15, SameHeld DEF BooksKept
  <2>5. m.tag = a.blk
    BY <1>4, <1>9, <2>1 DEF Written
  <2> QED
    BY <1>2, <1>12, <1>16, <2>2, <2>3, <2>4, <2>5 DEF LinePut
<1> QED
  BY <1>14, <1>15, <1>16

\* A write that evicts: the sector becomes INVALID.
EvictSector(s, i, a) == [s EXCEPT !.line[i].st[a.sec] = "INVALID"]

\* Write evict invalidates the sector; the count stays, too high if anything.
LEMMA EvictSectorOK ==
  ASSUME NEW s, TagsOK(s), NEW a \in Address(s.c), NEW i \in LinesOf(s.c, a),
         Matches(s, i, a.blk), NEW t, t = EvictSector(s, i, a)
  PROVE  TagsOK(t) /\ BooksKept(s, t) /\ LinePut(s, t, i, a)
<1>1. i \in Lines(s.c)
  BY LinesOfSet DEF TagsOK, TagTypes
<1>2. PICK x : x = s.line[i]
  OBVIOUS
<1>3. PICK e : e = a.sec
  OBVIOUS
<1>4. s.line \in [Lines(s.c) -> Block(s.c)] /\ IsCache(s) /\ e \in Sectors(s.c) /\ s.c \in Configs
      /\ x \in Block(s.c) /\ s.dirty \in Int /\ x.tag = a.blk
  BY <1>1, <1>2, <1>3 DEF TagsOK, TagTypes, Address, Matches
<1>5. PICK l : l = [x EXCEPT !.st[e] = "INVALID"]
  OBVIOUS
<1>6. /\ l \in Block(s.c) /\ l.tag = x.tag /\ l.readable = x.readable /\ l.data = x.data
      /\ l.st[e] = "INVALID" /\ \A k \in Sectors(s.c) \ {e} : l.st[k] = x.st[k]
      /\ DOMAIN l.st = DOMAIN x.st /\ DOMAIN x.st = Sectors(s.c)
  BY <1>4, <1>5 DEF Block, BlockState
<1>7. is_modified(l) => is_modified(x)
  BY <1>6 DEF is_modified
<1>8. IsCache(t) /\ BooksKept(s, t) /\ t.lru = s.lru /\ t.fifo = s.fifo /\ t.dirty = s.dirty
      /\ t.line = [s.line EXCEPT ![i].st[e] = "INVALID"]
  BY <1>3, <1>4 DEF EvictSector, IsCache, Fields, BooksKept
<1>9. t.line = [s.line EXCEPT ![i] = l]
  BY <1>2, <1>4, <1>5, <1>8
<1>10. LineSet(s, t, i, l, s.dirty)
  BY <1>8, <1>9 DEF LineSet
<1>11. TagsOK(t)
  <2>1. s.dirty - (IF is_modified(l) THEN 1 ELSE 0)
          >= s.dirty - (IF is_modified(s.line[i]) THEN 1 ELSE 0)
    BY <1>2, <1>4, <1>7
  <2> QED
    BY <1>1, <1>4, <1>6, <1>10, <2>1, SetLine
<1>12. HeldIn(s, x) => HeldIn(t, l)
  BY <1>6, <1>8 DEF HeldIn, Answers, BooksKept
<1> QED
  BY <1>2, <1>4, <1>6, <1>8, <1>10, <1>11, <1>12, SetPut

\* flush and invalidate: some sectors become INVALID.
Cleared(s, t) ==
  \A i \in Lines(s.c) :
    /\ t.line[i].tag = s.line[i].tag /\ t.line[i].data = s.line[i].data
    /\ t.line[i].readable = s.line[i].readable
    /\ \A k \in Sectors(s.c) : t.line[i].st[k] \in {s.line[i].st[k], "INVALID"}
    /\ \A k \in Sectors(s.c) : t.line[i].st[k] # "MODIFIED"

\* The replacement state after invalidate.
LEMMA ResetTypes ==
  ASSUME NEW c \in Configs
  PROVE  ResetOrder(c) \in [Sets(c) -> Order(c)] /\ ResetFifo(c) \in [Sets(c) -> Ways(c)]
<1>1. c.ways \in Nat \ {0} /\ c.sets \in Nat \ {0}
  BY ConfigsAssumption
<1>2. \A w \in 1..c.ways : w - 1 \in 0..c.ways - 1
  BY <1>1
<1>3. 0 \in 0..c.ways - 1
  BY <1>1
<1> QED
  BY <1>2, <1>3 DEF ResetOrder, ResetFifo, Sets, Ways, Order

\* No line is modified after flush or invalidate.
LEMMA ClearedCount ==
  ASSUME NEW s, TagsOK(s), NEW t, t.c = s.c, t.line \in [Lines(s.c) -> Block(s.c)], Cleared(s, t)
  PROVE  CountModified(t) = 0 /\ CountModified(s) \in Nat
<1>1. s.c \in Configs
  BY DEF TagsOK, TagTypes
<1>2. ModifiedLines(t.c, t.line) = {}
  BY <1>1 DEF ModifiedLines, is_modified, Cleared, Block
<1>3. CountModified(t) = 0
  BY <1>2, FS_EmptySet DEF CountModified
<1>4. IsFiniteSet(ModifiedLines(s.c, s.line))
  BY <1>1, Geometry, FS_Subset DEF ModifiedLines
<1>5. CountModified(s) \in Nat
  BY <1>4, FS_CardinalityType DEF CountModified
<1> QED
  BY <1>3, <1>5

\* flush keeps the count, which nothing needs any more.
LEMMA FlushOK ==
  ASSUME NEW s, TagsOK(s), NEW t, t = flush(s)
  PROVE  TagsOK(t) /\ BooksKept(s, t) /\ Cleared(s, t)
<1>1. s.line \in [Lines(s.c) -> Block(s.c)] /\ IsCache(s) /\ s.c \in Configs /\ s.dirty \in Int
      /\ s.dirty >= CountModified(s)
  BY DEF TagsOK, TagTypes
<1>2. PICK f : f = [i \in Lines(s.c) |-> [s.line[i] EXCEPT !.st =
                     [k \in Sectors(s.c) |-> IF s.line[i].st[k] = "MODIFIED" THEN "INVALID"
                                             ELSE s.line[i].st[k]]]]
  OBVIOUS
<1>3. t = [s EXCEPT !.line = f]
  BY <1>2 DEF flush
<1>4. IsCache(t) /\ BooksKept(s, t) /\ t.lru = s.lru /\ t.fifo = s.fifo /\ t.dirty = s.dirty
      /\ t.line = f
  BY <1>1, <1>3 DEF IsCache, Fields, BooksKept
<1>5. f \in [Lines(s.c) -> Block(s.c)]
  BY <1>1, <1>2 DEF Block, BlockState
<1>6. Cleared(s, t)
  <2> SUFFICES ASSUME NEW i \in Lines(s.c)
               PROVE  /\ f[i].tag = s.line[i].tag /\ f[i].data = s.line[i].data
                      /\ f[i].readable = s.line[i].readable
                      /\ \A k \in Sectors(s.c) : f[i].st[k] \in {s.line[i].st[k], "INVALID"}
                                                /\ f[i].st[k] # "MODIFIED"
    BY <1>4 DEF Cleared
  <2>1. PICK x \in Block(s.c) : x = s.line[i]
    BY <1>1
  <2>2. PICK g : g = [k \in Sectors(s.c) |-> IF x.st[k] = "MODIFIED" THEN "INVALID" ELSE x.st[k]]
    OBVIOUS
  <2>3. f[i] = [x EXCEPT !.st = g]
    BY <1>2, <2>1, <2>2
  <2>4. f[i].tag = x.tag /\ f[i].data = x.data /\ f[i].readable = x.readable /\ f[i].st = g
    BY <2>3 DEF Block
  <2> QED
    BY <2>1, <2>2, <2>4
<1>7. t.c = s.c
  BY <1>4 DEF BooksKept
<1>8. CountModified(t) = 0 /\ CountModified(s) \in Nat
  BY <1>4, <1>5, <1>6, <1>7, ClearedCount
<1>9. TagTypes(t)
  BY <1>4, <1>5, <1>7 DEF TagsOK, TagTypes
<1> QED
  BY <1>1, <1>4, <1>6, <1>8, <1>9 DEF TagsOK

\* invalidate resets the count too.
LEMMA InvalidateOK ==
  ASSUME NEW s, TagsOK(s), NEW t, t = invalidate(s)
  PROVE  TagsOK(t) /\ BooksKept(s, t) /\ Cleared(s, t)
<1>1. s.line \in [Lines(s.c) -> Block(s.c)] /\ IsCache(s) /\ s.c \in Configs
  BY DEF TagsOK, TagTypes
<1>2. PICK f : f = [i \in Lines(s.c) |-> [s.line[i] EXCEPT !.st = [k \in Sectors(s.c) |-> "INVALID"]]]
  OBVIOUS
<1>3. PICK o, p : o = ResetOrder(s.c) /\ p = ResetFifo(s.c)
  OBVIOUS
<1>4. t = [s EXCEPT !.line = f, !.dirty = 0, !.lru = o, !.fifo = p]
  BY <1>2, <1>3 DEF invalidate
<1>5. IsCache(t) /\ BooksKept(s, t) /\ t.lru = o /\ t.fifo = p /\ t.dirty = 0 /\ t.line = f
  BY <1>1, <1>4 DEF IsCache, Fields, BooksKept
<1>6. f \in [Lines(s.c) -> Block(s.c)]
  BY <1>1, <1>2 DEF Block, BlockState
<1>7. Cleared(s, t)
  BY <1>1, <1>2, <1>5 DEF Cleared, Block
<1>8. t.c = s.c
  BY <1>5 DEF BooksKept
<1>9. CountModified(t) = 0
  BY <1>5, <1>6, <1>7, <1>8, ClearedCount
<1>10. o \in [Sets(s.c) -> Order(s.c)] /\ p \in [Sets(s.c) -> Ways(s.c)]
  BY <1>1, <1>3, ResetTypes
<1> QED
  BY <1>1, <1>5, <1>6, <1>7, <1>8, <1>9, <1>10 DEF TagsOK, TagTypes

(***************************************************************************)
(* A block is in one line, which holds its data                             *)
(***************************************************************************)
Placed(s) == \A i \in Lines(s.c) : ~is_invalid(s.line[i]) =>
               \E a \in Address(s.c) : i \in LinesOf(s.c, a) /\ s.line[i].tag = a.blk
Apart(s)  == \A i, j \in Lines(s.c) :
               ~is_invalid(s.line[i]) /\ Matches(s, j, s.line[i].tag) => i = j
Held(s)   == \A i \in Lines(s.c) : HeldIn(s, s.line[i])
BlocksHeld(s) == Placed(s) /\ Apart(s) /\ Held(s)

\* The set depends on the block only.
LEMMA SameSet ==
  ASSUME NEW c, NEW a, NEW b, a.blk = b.blk
  PROVE  LinesOf(c, a) = LinesOf(c, b)
BY DEF LinesOf, get_set_index

\* Lines that stay keep what they hold.
LEMMA HeldSame ==
  ASSUME NEW s, BlocksHeld(s), NEW t, t.c = s.c, t.line = s.line
  PROVE  BlocksHeld(t)
BY DEF BlocksHeld, Placed, Apart, Held, HeldIn, Answers, Matches

\* A line put in its set, where no other line holds the block.
LEMMA HeldPut ==
  ASSUME NEW s, TagsOK(s), BlocksHeld(s), NEW a \in Address(s.c), NEW i, NEW t, t.c = s.c,
         TagsOK(t), LinePut(s, t, i, a)
  PROVE  BlocksHeld(t)
<1>1. i \in Lines(s.c) /\ i \in LinesOf(s.c, a)
  BY LinesOfSet DEF LinePut, TagsOK, TagTypes
<1>2. \A j \in Lines(s.c) : j # i => t.line[j] = s.line[j]
  BY DEF LinePut, TagsOK, TagTypes
<1>3. t.line[i].tag = a.blk
  BY DEF LinePut
<1>4. Placed(t)
  BY <1>1, <1>2, <1>3 DEF BlocksHeld, Placed
<1>5. ASSUME NEW j \in Lines(s.c), j # i, Matches(s, j, a.blk)
      PROVE  FALSE
  <2>1. PICK b \in Address(s.c) : j \in LinesOf(s.c, b) /\ s.line[j].tag = b.blk
    BY <1>5 DEF BlocksHeld, Placed, Matches
  <2>2. b.blk = a.blk
    BY <1>5, <2>1 DEF Matches
  <2>3. j \in LinesOf(s.c, a)
    BY <2>1, <2>2, SameSet
  <2>4. find_matching_way(s, a) # {}
    BY <1>5, <2>3, WaysFound
  <2>5. Matches(s, i, a.blk)
    BY <2>4 DEF LinePut
  <2> QED
    BY <1>1, <1>5, <2>5 DEF BlocksHeld, Apart, Matches
<1>6. Apart(t)
  <2> SUFFICES ASSUME NEW k \in Lines(s.c), NEW j \in Lines(s.c), ~is_invalid(t.line[k]),
                      Matches(t, j, t.line[k].tag), k # j
               PROVE  FALSE
    BY DEF Apart
  <2>1. CASE k = i
    BY <2>1, <1>2, <1>3, <1>5 DEF Matches
  <2>2. CASE j = i
    BY <2>2, <1>2, <1>3, <1>5 DEF Matches
  <2>3. CASE k # i /\ j # i
    BY <2>3, <1>2 DEF BlocksHeld, Apart, Matches
  <2> QED
    BY <2>1, <2>2, <2>3
<1>7. Held(t)
  <2>1. HeldIn(t, t.line[i])
    BY <1>1 DEF LinePut, BlocksHeld, Held
  <2>2. \A j \in Lines(s.c) : j # i => HeldIn(t, t.line[j])
    <3>1. \A j \in Lines(s.c) : HeldIn(s, s.line[j])
      BY DEF BlocksHeld, Held
    <3>2. \A l : HeldIn(t, l) <=> HeldIn(s, l)
      BY SameHeld
    <3> QED
      BY <1>2, <3>1, <3>2
  <2> QED
    BY <2>1, <2>2 DEF Held
<1> QED
  BY <1>4, <1>6, <1>7 DEF BlocksHeld

\* The same for the line steps of a fill.
LEMMA HeldPuts ==
  ASSUME NEW s, TagsOK(s), BlocksHeld(s), NEW a \in Address(s.c), NEW t, t.c = s.c,
         TagsOK(t), Puts(s, t, a)
  PROVE  BlocksHeld(t)
<1>1. CASE t.line = s.line
  BY <1>1, HeldSame
<1>2. ASSUME NEW i, LinePut(s, t, i, a) PROVE BlocksHeld(t)
  BY <1>2, HeldPut
<1>3. ASSUME NEW u, NEW i, NEW j, u.c = s.c, TagsOK(u), LinePut(s, u, i, a), LinePut(u, t, j, a)
      PROVE  BlocksHeld(t)
  <2>1. BlocksHeld(u)
    BY <1>3, HeldPut
  <2>2. t.c = u.c /\ a \in Address(u.c)
    BY <1>3
  <2> QED
    BY <1>3, <2>1, <2>2, HeldPut
<1> QED
  BY <1>1, <1>2, <1>3 DEF Puts

\* flush and invalidate make no line hold another block.
LEMMA HeldCleared ==
  ASSUME NEW s, TagsOK(s), BlocksHeld(s), NEW t, t.c = s.c, TagsOK(t), Cleared(s, t)
  PROVE  BlocksHeld(t)
<1>1. \A i \in Lines(s.c) : DOMAIN s.line[i].st = Sectors(s.c) /\ DOMAIN t.line[i].st = Sectors(s.c)
  BY DEF TagsOK, TagTypes, Block
<1>2. \A i \in Lines(s.c) : /\ t.line[i].tag = s.line[i].tag
                            /\ is_invalid(s.line[i]) => is_invalid(t.line[i])
  BY <1>1 DEF Cleared, is_invalid
<1>3. Placed(t)
  BY <1>2 DEF BlocksHeld, Placed
<1>4. Apart(t)
  BY <1>2 DEF BlocksHeld, Apart, Matches
<1>5. Held(t)
  BY DEF BlocksHeld, Held, HeldIn, Answers, Cleared
<1> QED
  BY <1>3, <1>4, <1>5 DEF BlocksHeld

\* What LineHoldsItsBlock says of one line.
LEMMA HeldGoal ==
  ASSUME NEW s, TagsOK(s), BlocksHeld(s), NEW i \in Lines(s.c)
  PROVE  /\ ~is_invalid(s.line[i]) =>
              find_matching_way(s, [blk |-> s.line[i].tag, sec |-> 0]) = {i}
         /\ \A k \in Sectors(s.c) : Answers(s, s.line[i], k) => s.line[i].data[k] = s.line[i].tag
<1>1. ASSUME ~is_invalid(s.line[i])
      PROVE  find_matching_way(s, [blk |-> s.line[i].tag, sec |-> 0]) = {i}
  <2>1. PICK a \in Address(s.c) : i \in LinesOf(s.c, a) /\ s.line[i].tag = a.blk
    BY <1>1 DEF BlocksHeld, Placed
  <2>2. PICK b : b = [blk |-> s.line[i].tag, sec |-> 0]
    OBVIOUS
  <2>3. b.blk = a.blk
    BY <2>1, <2>2
  <2>4. LinesOf(s.c, b) = LinesOf(s.c, a)
    BY <2>3, SameSet
  <2>5. find_matching_way(s, b) = {j \in LinesOf(s.c, a) : Matches(s, j, a.blk)}
    BY <2>3, <2>4 DEF find_matching_way, Matches
  <2>6. LinesOf(s.c, a) \subseteq Lines(s.c)
    BY LinesOfSet DEF TagsOK, TagTypes
  <2>7. Matches(s, i, a.blk) /\ \A j \in Lines(s.c) : Matches(s, j, a.blk) => j = i
    BY <1>1, <2>1 DEF BlocksHeld, Apart, Matches
  <2> QED
    BY <2>1, <2>2, <2>5, <2>6, <2>7
<1> QED
  BY <1>1 DEF BlocksHeld, Held, HeldIn

(***************************************************************************)
(* The MSHR table and the queues                                            *)
(***************************************************************************)
Request == {"READ", "WRITE", "WRITE_BACK"}
Entry   == [reqs : Seq(Request), ready : BOOLEAN]
Place   == [blk : Tag, sec : Nat]
Message == [kind : {"fetch", "write", "writeback"}, addr : Place]
FetchOf(a) == [kind |-> "fetch", addr |-> a]

Waiting(s)    == {a \in DOMAIN s.mshr : ~s.mshr[a].ready}
Readied(s)    == DOMAIN s.mshr \ Waiting(s)
Fetches(s, a) == Times(s.queue, FetchOf(a)) + Times(s.memory, a)

\* Types of the table, of the extra fields and of the queues.
BookTypes(s) ==
  /\ DOMAIN s.mshr \subseteq s.c.addrs /\ IsFiniteSet(DOMAIN s.mshr)
  /\ \A a \in DOMAIN s.mshr : s.mshr[a] \in Entry
  /\ \A a \in DOMAIN s.extra : s.extra[a].idx \in Lines(s.c) /\ s.extra[a].pending \in {0, 1}
  /\ s.readyList \in Seq(s.c.addrs) /\ s.memory \in Seq(s.c.addrs) /\ s.queue \in Seq(Message)
  /\ \A i \in 1..Len(s.queue) : s.queue[i].kind = "fetch" => s.queue[i].addr \in s.c.addrs

\* Every entry has its one fetch or is once on the ready list.
BookCounts(s) ==
  /\ DOMAIN s.extra = Waiting(s)
  /\ \A a \in s.c.addrs : /\ Fetches(s, a) = IF a \in Waiting(s) THEN 1 ELSE 0
                          /\ Times(s.readyList, a) = IF a \in Readied(s) THEN 1 ELSE 0
BooksOK(s) == BookTypes(s) /\ BookCounts(s)

\* The addresses of the requests are addresses of the cache.
LEMMA AddrsTyped ==
  ASSUME NEW c \in Configs, NEW a \in c.addrs
  PROVE  a \in Address(c) /\ a \in Place /\ get_block_addr(a) \in Address(c)
         /\ get_block_addr(a).blk = a.blk /\ get_block_addr(a).sec = 0
<1>1. a \in [blk : Nat, sec : 0..c.secs - 1] /\ c.setOf[a.blk] \in 0..c.sets - 1
      /\ c.secs \in Nat \ {0}
  BY ConfigsAssumption
<1>2. a \in Address(c)
  BY <1>1 DEF Address, Sectors, get_set_index
<1>3. a \in Place
  BY <1>1 DEF Place, Tag
<1>4. PICK b : b = [a EXCEPT !.sec = 0]
  OBVIOUS
<1>5. b \in [blk : Nat, sec : 0..c.secs - 1] /\ b.blk = a.blk /\ b.sec = 0
  BY <1>1, <1>4
<1>6. b \in Address(c)
  BY <1>1, <1>5 DEF Address, Sectors, get_set_index
<1> QED
  BY <1>2, <1>3, <1>4, <1>5, <1>6 DEF get_block_addr

\* What keeps the books keeps them in order.
LEMMA BooksSame ==
  ASSUME NEW s, BooksOK(s), NEW t, BooksKept(s, t)
  PROVE  BooksOK(t)
<1>1. BookTypes(t)
  BY DEF BooksOK, BookTypes, BooksKept
<1>2. Waiting(t) = Waiting(s) /\ Readied(t) = Readied(s) /\ \A a : Fetches(t, a) = Fetches(s, a)
  BY DEF BooksKept, Waiting, Readied, Fetches
<1>3. BookCounts(t)
  BY <1>2 DEF BooksOK, BookCounts, BooksKept
<1> QED
  BY <1>1, <1>3 DEF BooksOK

\* The counts of the books are numbers.
LEMMA CountsAreNat ==
  ASSUME NEW s, BookTypes(s), NEW a
  PROVE  Times(s.queue, FetchOf(a)) \in Nat /\ Times(s.memory, a) \in Nat
         /\ Times(s.readyList, a) \in Nat /\ Fetches(s, a) \in Nat
<1>1. Times(s.queue, FetchOf(a)) \in Nat /\ Times(s.memory, a) \in Nat /\ Times(s.readyList, a) \in Nat
  BY TimesType DEF BookTypes
<1> QED
  BY <1>1 DEF Fetches

\* Something else than a fetch is sent.
SentOther(s, t) ==
  /\ TagsKept(s, t) /\ t.mshr = s.mshr /\ t.readyList = s.readyList
  /\ t.extra = s.extra /\ t.memory = s.memory /\ BooksOK(t)

\* A write or a write back in the queue is no fetch.
LEMMA SendOther ==
  ASSUME NEW s, TagsOK(s), BooksOK(s), NEW kind \in {"write", "writeback"}, NEW a \in Place,
         NEW t, t = Send(s, kind, a)
  PROVE  SentOther(s, t)
<1>1. PICK m : m = [kind |-> kind, addr |-> a]
  OBVIOUS
<1>2. t = [s EXCEPT !.queue = Append(s.queue, m)]
  BY <1>1 DEF Send
<1>3. PICK q : q = Append(s.queue, m)
  OBVIOUS
<1>4. TagsKept(s, t) /\ t.mshr = s.mshr /\ t.readyList = s.readyList
      /\ t.extra = s.extra /\ t.memory = s.memory /\ t.queue = q /\ t.c = s.c
  BY <1>2, <1>3 DEF TagsOK, TagTypes, TagsKept, IsCache, Fields
<1>5. m \in Message /\ m.kind # "fetch"
  BY <1>1 DEF Message
<1>6. s.queue \in Seq(Message)
  BY DEF BooksOK, BookTypes
<1>7. q \in Seq(Message) /\ Len(q) = Len(s.queue) + 1 /\ q[Len(s.queue) + 1] = m
      /\ (\A i \in 1..Len(s.queue) : q[i] = s.queue[i]) /\ Len(s.queue) \in Nat
  BY <1>3, <1>5, <1>6
<1>8. \A b : Times(q, FetchOf(b)) = Times(s.queue, FetchOf(b))
  <2> TAKE b
  <2>1. m # FetchOf(b)
    BY <1>5 DEF FetchOf
  <2> QED
    BY <2>1, <1>3, <1>5, <1>6, TimesAppend
<1>9. \A i \in 1..Len(q) : q[i].kind = "fetch" => q[i].addr \in s.c.addrs
  BY <1>5, <1>7 DEF BooksOK, BookTypes
<1>10. BookTypes(t)
  BY <1>4, <1>7, <1>9 DEF BooksOK, BookTypes
<1>11. Waiting(t) = Waiting(s) /\ Readied(t) = Readied(s) /\ \A b : Fetches(t, b) = Fetches(s, b)
  BY <1>4, <1>8 DEF Waiting, Readied, Fetches
<1>12. BookCounts(t)
  BY <1>4, <1>11 DEF BooksOK, BookCounts
<1> QED
  BY <1>4, <1>10, <1>12 DEF BooksOK, SentOther

\* A miss joins the entry of its address; no fetch is sent.
LEMMA JoinEntry ==
  ASSUME NEW s, TagsOK(s), BooksOK(s), NEW a \in DOMAIN s.mshr, NEW type \in Request,
         NEW t, t = mshrAdd(s, a, type)
  PROVE  TagsKept(s, t) /\ BooksOK(t) /\ t.extra = s.extra /\ DOMAIN t.mshr = DOMAIN s.mshr
<1>1. PICK e : e = [s.mshr[a] EXCEPT !.reqs = Append(@, type)]
  OBVIOUS
<1>2. s.mshr[a] \in Entry
  BY DEF BooksOK, BookTypes
<1>3. e \in Entry /\ e.ready = s.mshr[a].ready
  <2>1. PICK x \in Entry : x = s.mshr[a]
    BY <1>2
  <2>2. PICK p : p = Append(x.reqs, type)
    OBVIOUS
  <2>3. p \in Seq(Request)
    BY <2>2 DEF Entry
  <2>4. e = [x EXCEPT !.reqs = p]
    BY <1>1, <2>1, <2>2
  <2> QED
    BY <2>1, <2>3, <2>4 DEF Entry
<1>4. PICK f : f = [x \in DOMAIN s.mshr \cup {a} |-> IF x = a THEN e ELSE s.mshr[x]]
  OBVIOUS
<1>5. t = [s EXCEPT !.mshr = f]
  BY <1>1, <1>4 DEF mshrAdd, mshrProbe
<1>6. TagsKept(s, t) /\ t.mshr = f /\ t.readyList = s.readyList /\ t.queue = s.queue
      /\ t.extra = s.extra /\ t.memory = s.memory /\ t.c = s.c
  BY <1>5 DEF TagsOK, TagTypes, TagsKept, IsCache, Fields
<1>7. DOMAIN f = DOMAIN s.mshr /\ f[a] = e /\ \A x \in DOMAIN s.mshr : x # a => f[x] = s.mshr[x]
  BY <1>4
<1>8. Waiting(t) = Waiting(s)
  BY <1>3, <1>6, <1>7 DEF Waiting
<1>9. Readied(t) = Readied(s) /\ \A b : Fetches(t, b) = Fetches(s, b)
  BY <1>6, <1>7, <1>8 DEF Readied, Fetches
<1>10. BookTypes(t)
  BY <1>3, <1>6, <1>7 DEF BooksOK, BookTypes
<1>11. BookCounts(t)
  BY <1>6, <1>8, <1>9 DEF BooksOK, BookCounts
<1> QED
  BY <1>6, <1>7, <1>10, <1>11 DEF BooksOK

\* A miss opens an entry, notes the extra fields and sends one fetch.
LEMMA NewEntry ==
  ASSUME NEW s, TagsOK(s), BooksOK(s), NEW a \in s.c.addrs, a \notin DOMAIN s.mshr,
         NEW req, req.type \in Request, NEW idx \in Lines(s.c),
         NEW t, t = Send(NoteMiss(s, a, req, idx), "fetch", a)
  PROVE  /\ TagsKept(s, t) /\ BooksOK(t)
         /\ DOMAIN t.extra = DOMAIN s.extra \cup {a} /\ t.extra[a].idx = idx
         /\ DOMAIN t.mshr = DOMAIN s.mshr \cup {a}
         /\ \A b \in DOMAIN s.extra : t.extra[b] = s.extra[b]
<1>0. PICK new : new = [reqs |-> <<>>, ready |-> FALSE]
  OBVIOUS
<1>1. PICK e : e = [new EXCEPT !.reqs = Append(@, req.type)]
  OBVIOUS
<1>2. e \in Entry /\ e.ready = FALSE
  <2>1. PICK p : p = Append(<<>>, req.type)
    OBVIOUS
  <2>2. p \in Seq(Request)
    BY <2>1
  <2>3. e = [new EXCEPT !.reqs = p]
    BY <1>0, <1>1, <2>1
  <2>4. e = [reqs |-> p, ready |-> FALSE]
    BY <1>0, <2>3
  <2> QED
    BY <2>2, <2>4 DEF Entry
<1>3. PICK f : f = [x \in DOMAIN s.mshr \cup {a} |-> IF x = a THEN e ELSE s.mshr[x]]
  OBVIOUS
<1>4. PICK u : u = mshrAdd(s, a, req.type)
  OBVIOUS
<1>5. u = [s EXCEPT !.mshr = f]
  BY <1>0, <1>1, <1>3, <1>4 DEF mshrAdd, mshrProbe
<1>6. PICK n : n = [idx |-> idx, pending |-> IF s.c.mshr = "SECTOR_ASSOC" THEN 1 ELSE 0]
  OBVIOUS
<1>7. PICK g : g = [x \in DOMAIN s.extra \cup {a} |-> IF x = a THEN n ELSE s.extra[x]]
  OBVIOUS
<1>8. IsCache(u) /\ u.extra = s.extra /\ u.mshr = f /\ u.queue = s.queue /\ TagsKept(s, u)
      /\ u.readyList = s.readyList /\ u.memory = s.memory
  BY <1>5 DEF TagsOK, TagTypes, TagsKept, IsCache, Fields
<1>9. PICK v : v = NoteMiss(s, a, req, idx)
  OBVIOUS
<1>10. v = [u EXCEPT !.extra = g]
  BY <1>4, <1>6, <1>7, <1>8, <1>9 DEF NoteMiss
<1>11. PICK q : q = Append(s.queue, FetchOf(a))
  OBVIOUS
<1>12. IsCache(v) /\ v.queue = s.queue /\ v.mshr = f /\ v.extra = g /\ TagsKept(s, v)
       /\ v.readyList = s.readyList /\ v.memory = s.memory
  BY <1>8, <1>10 DEF TagsKept, IsCache, Fields
<1>13. t = [v EXCEPT !.queue = q]
  BY <1>9, <1>11, <1>12 DEF Send, FetchOf
<1>14. TagsKept(s, t) /\ t.c = s.c /\ t.mshr = f /\ t.readyList = s.readyList /\ t.queue = q
       /\ t.extra = g /\ t.memory = s.memory
  BY <1>12, <1>13 DEF TagsKept, IsCache, Fields
<1>15. /\ DOMAIN f = DOMAIN s.mshr \cup {a} /\ f[a] = e
       /\ \A x \in DOMAIN s.mshr : f[x] = s.mshr[x]
       /\ DOMAIN g = DOMAIN s.extra \cup {a} /\ g[a] = n
       /\ \A x \in DOMAIN s.extra : x # a => g[x] = s.extra[x]
  BY <1>3, <1>7
<1>16. Waiting(t) = Waiting(s) \cup {a} /\ Readied(t) = Readied(s) /\ a \notin Waiting(s)
  BY <1>2, <1>14, <1>15 DEF Waiting, Readied
<1>17. s.queue \in Seq(Message) /\ FetchOf(a) \in Message /\ FetchOf(a).kind = "fetch"
       /\ FetchOf(a).addr = a
  BY AddrsTyped DEF BooksOK, BookTypes, TagsOK, TagTypes, FetchOf, Message
<1>18. q \in Seq(Message) /\ Len(q) = Len(s.queue) + 1 /\ q[Len(s.queue) + 1] = FetchOf(a)
       /\ (\A i \in 1..Len(s.queue) : q[i] = s.queue[i]) /\ Len(s.queue) \in Nat
  BY <1>11, <1>17
<1>19. \A b : Times(q, FetchOf(b)) = IF b = a THEN Times(s.queue, FetchOf(b)) + 1
                                     ELSE Times(s.queue, FetchOf(b))
  <2> TAKE b
  <2>1. FetchOf(a) = FetchOf(b) <=> a = b
    BY DEF FetchOf
  <2> QED
    BY <2>1, <1>11, <1>17, TimesAppend
<1>20. \A b \in s.c.addrs : Fetches(t, b) = IF b = a THEN Fetches(s, b) + 1 ELSE Fetches(s, b)
  <2> TAKE b \in s.c.addrs
  <2>1. Times(s.queue, FetchOf(b)) \in Nat /\ Times(s.memory, b) \in Nat
    BY CountsAreNat DEF BooksOK
  <2> QED
    BY <1>14, <1>19, <2>1 DEF Fetches
<1>21. BookCounts(t)
  <2>1. DOMAIN t.extra = Waiting(t)
    BY <1>14, <1>15, <1>16 DEF BooksOK, BookCounts
  <2>2. \A b \in s.c.addrs : Fetches(t, b) = IF b \in Waiting(t) THEN 1 ELSE 0
    BY <1>16, <1>20 DEF BooksOK, BookCounts
  <2>3. \A b \in s.c.addrs : Times(t.readyList, b) = IF b \in Readied(t) THEN 1 ELSE 0
    BY <1>14, <1>16 DEF BooksOK, BookCounts
  <2> QED
    BY <1>14, <2>1, <2>2, <2>3 DEF BookCounts
<1>22. \A i \in 1..Len(q) : q[i].kind = "fetch" => q[i].addr \in s.c.addrs
  BY <1>17, <1>18 DEF BooksOK, BookTypes
<1>23. IsFiniteSet(DOMAIN t.mshr)
  BY <1>14, <1>15, FS_AddElement DEF BooksOK, BookTypes
<1>24. n.idx = idx /\ n.pending \in {0, 1}
  BY <1>6
<1>25. a \notin DOMAIN s.extra
  BY DEF BooksOK, BookCounts, Waiting
<1>26. BookTypes(t)
  BY <1>2, <1>14, <1>15, <1>18, <1>22, <1>23, <1>24 DEF BooksOK, BookTypes
<1> QED
  BY <1>14, <1>15, <1>21, <1>24, <1>25, <1>26 DEF BooksOK

\* An element of the same kind is appended.
LEMMA AppendType ==
  ASSUME NEW S, NEW q \in Seq(S), NEW e \in S
  PROVE  Append(q, e) \in Seq(S)
OBVIOUS

\* Ports and the number of operations are in no book.
LEMMA PortsKept ==
  ASSUME NEW s, IsCache(s), NEW t,
         \/ \E p, q : t = [s EXCEPT !.dataPort = p, !.fillPort = q]
         \/ \E p : t = [s EXCEPT !.dataPort = p]
         \/ \E p : t = [s EXCEPT !.fillPort = p]
         \/ \E p : t = [s EXCEPT !.ops = p]
         \/ t = s
  PROVE  TagsKept(s, t) /\ BooksKept(s, t)
<1>1. ASSUME NEW p, NEW q, t = [s EXCEPT !.dataPort = p, !.fillPort = q]
      PROVE  TagsKept(s, t) /\ BooksKept(s, t)
  BY <1>1 DEF IsCache, Fields, TagsKept, BooksKept
<1>2. ASSUME NEW p, t = [s EXCEPT !.dataPort = p]
      PROVE  TagsKept(s, t) /\ BooksKept(s, t)
  BY <1>2 DEF IsCache, Fields, TagsKept, BooksKept
<1>3. ASSUME NEW p, t = [s EXCEPT !.fillPort = p]
      PROVE  TagsKept(s, t) /\ BooksKept(s, t)
  BY <1>3 DEF IsCache, Fields, TagsKept, BooksKept
<1>4. ASSUME NEW p, t = [s EXCEPT !.ops = p]
      PROVE  TagsKept(s, t) /\ BooksKept(s, t)
  BY <1>4 DEF IsCache, Fields, TagsKept, BooksKept
<1>5. ASSUME t = s
      PROVE  TagsKept(s, t) /\ BooksKept(s, t)
  BY <1>5 DEF TagsKept, BooksKept
<1> QED
  BY <1>1, <1>2, <1>3, <1>4, <1>5

\* replenish_ports
LEMMA ReplenishKeeps ==
  ASSUME NEW s, IsCache(s), NEW t, t = replenish_ports(s)
  PROVE  TagsKept(s, t) /\ BooksKept(s, t)
<1>1. PICK p, q : p = replenish(s.dataPort) /\ q = replenish(s.fillPort)
  OBVIOUS
<1>2. t = [s EXCEPT !.dataPort = p, !.fillPort = q]
  BY <1>1 DEF replenish_ports
<1> QED
  BY <1>2, PortsKept

\* use_fill_port
LEMMA FillPortKeeps ==
  ASSUME NEW s, IsCache(s), NEW t, t = use_fill_port(s)
  PROVE  TagsKept(s, t) /\ BooksKept(s, t)
<1>1. PICK p : p = [free |-> FALSE, busy |-> s.fillPort.busy + 1]
  OBVIOUS
<1>2. t = [s EXCEPT !.fillPort = p]
  BY <1>1 DEF use_fill_port
<1> QED
  BY <1>2, PortsKept

\* use_data_port
LEMMA DataPortKeeps ==
  ASSUME NEW s, IsCache(s), NEW status, NEW t, t = use_data_port(s, status)
  PROVE  TagsKept(s, t) /\ BooksKept(s, t)
<1>1. PICK p : p = [free |-> FALSE, busy |-> s.dataPort.busy + 1]
  OBVIOUS
<1>2. t = [s EXCEPT !.dataPort = p] \/ t = s
  BY <1>1 DEF use_data_port
<1> QED
  BY <1>2, PortsKept

\* The bound on the operations.
LEMMA CountKeeps ==
  ASSUME NEW s, IsCache(s), NEW t, t = Count(s)
  PROVE  TagsKept(s, t) /\ BooksKept(s, t)
<1>1. PICK p : p = s.ops + 1
  OBVIOUS
<1>2. t = [s EXCEPT !.ops = p]
  BY <1>1 DEF Count
<1> QED
  BY <1>2, PortsKept

\* The oldest request leaves for the memory.
LEMMA CycleOK ==
  ASSUME NEW s, TagsOK(s), BooksOK(s), NEW accepts \in BOOLEAN, NEW t, t = cycle(s, accepts)
  PROVE  TagsKept(s, t) /\ BooksOK(t) /\ t.extra = s.extra /\ t.mshr = s.mshr
<1>0. IsCache(s)
  BY DEF TagsOK, TagTypes
<1>1. CASE s.queue = <<>> \/ ~accepts
  <2>1. t = replenish_ports(s)
    BY <1>1 DEF cycle
  <2>2. TagsKept(s, t) /\ BooksKept(s, t)
    BY <1>0, <2>1, ReplenishKeeps
  <2> QED
    BY <2>2, BooksSame DEF BooksKept
<1>2. CASE ~(s.queue = <<>> \/ ~accepts)
  <2>1. PICK h : h = Head(s.queue)
    OBVIOUS
  <2>2. PICK q : q = Tail(s.queue)
    OBVIOUS
  <2>3. PICK m : m = IF h.kind = "fetch" THEN Append(s.memory, h.addr) ELSE s.memory
    OBVIOUS
  <2>4. PICK u : u = [s EXCEPT !.queue = q, !.memory = m]
    OBVIOUS
  <2>5. t = replenish_ports(u)
    BY <1>2, <2>1, <2>2, <2>3, <2>4 DEF cycle
  <2>6. TagsKept(s, u) /\ IsCache(u) /\ u.c = s.c /\ u.queue = q /\ u.memory = m
        /\ u.mshr = s.mshr /\ u.readyList = s.readyList /\ u.extra = s.extra
    BY <1>0, <2>4 DEF TagsKept, IsCache, Fields
  <2>7. s.queue \in Seq(Message) /\ s.memory \in Seq(s.c.addrs) /\ s.queue # <<>>
    BY <1>2 DEF BooksOK, BookTypes
  <2>8. q \in Seq(Message) /\ 1 \in 1..Len(s.queue) /\ h = s.queue[1] /\ h \in Message
        /\ Without(q, s.queue, 1)
    BY <2>1, <2>2, <2>7, TailWithout
  <2>9. h.kind = "fetch" => h.addr \in s.c.addrs
    BY <2>8 DEF BooksOK, BookTypes
  <2>10. m \in Seq(s.c.addrs)
    <3>1. CASE h.kind = "fetch"
      <4>1. PICK d \in s.c.addrs : d = h.addr
        BY <2>9, <3>1
      <4>2. m = Append(s.memory, d)
        BY <2>3, <3>1, <4>1
      <4> QED
        BY <2>7, <4>2, AppendType
    <3>2. CASE h.kind # "fetch"
      BY <2>3, <2>7, <3>2
    <3> QED
      BY <3>1, <3>2
  <2>11. \A b : Times(s.queue, FetchOf(b)) = IF h = FetchOf(b) THEN Times(q, FetchOf(b)) + 1
                                             ELSE Times(q, FetchOf(b))
    BY <2>7, <2>8, TimesWithout
  <2>12. \A b : Times(m, b) = IF h.kind = "fetch" /\ h.addr = b THEN Times(s.memory, b) + 1
                              ELSE Times(s.memory, b)
    <3> TAKE b
    <3>1. h.kind = "fetch" => Times(m, b) = IF h.addr = b THEN Times(s.memory, b) + 1
                                            ELSE Times(s.memory, b)
      BY <2>3, <2>7, <2>9, TimesAppend
    <3>2. h.kind # "fetch" => Times(m, b) = Times(s.memory, b)
      BY <2>3
    <3> QED
      BY <3>1, <3>2
  <2>13. \A b : Fetches(u, b) = Fetches(s, b)
    <3> TAKE b
    <3>1. h = FetchOf(b) <=> h.kind = "fetch" /\ h.addr = b
      BY <2>8 DEF FetchOf, Message
    <3>2. Times(q, FetchOf(b)) \in Nat /\ Times(s.memory, b) \in Nat
      BY <2>7, <2>8, TimesType
    <3> QED
      BY <2>6, <2>11, <2>12, <3>1, <3>2 DEF Fetches
  <2>14. \A i \in 1..Len(q) : q[i].kind = "fetch" => q[i].addr \in s.c.addrs
    <3> TAKE i \in 1..Len(q)
    <3>1. Len(s.queue) \in Nat /\ Len(q) = Len(s.queue) - 1 /\ Len(q) \in Nat
      BY <2>7, <2>8, LenProperties DEF Without
    <3>2. q[i] = s.queue[i + 1] /\ i + 1 \in 1..Len(s.queue)
      BY <2>8, <3>1 DEF Without
    <3> QED
      BY <3>2 DEF BooksOK, BookTypes
  <2>15. BookTypes(u)
    BY <2>6, <2>8, <2>10, <2>14 DEF BooksOK, BookTypes
  <2>16. Waiting(u) = Waiting(s) /\ Readied(u) = Readied(s)
    BY <2>6 DEF Waiting, Readied
  <2>17. BookCounts(u)
    BY <2>6, <2>13, <2>16 DEF BooksOK, BookCounts
  <2>18. TagsKept(u, t) /\ BooksKept(u, t)
    BY <2>5, <2>6, ReplenishKeeps
  <2>19. BooksOK(t)
    BY <2>15, <2>17, <2>18, BooksSame DEF BooksOK
  <2> QED
    BY <2>6, <2>18, <2>19 DEF TagsKept, BooksKept
<1> QED
  BY <1>1, <1>2

\* The first ready entry leaves the table.
LEMMA NextReadyOK ==
  ASSUME NEW s, TagsOK(s), BooksOK(s), s.readyList # <<>>, NEW t, t = next_ready(s)
  PROVE  TagsKept(s, t) /\ BooksOK(t) /\ t.extra = s.extra /\ DOMAIN t.mshr \subseteq DOMAIN s.mshr
<1>1. PICK a : a = Head(s.readyList)
  OBVIOUS
<1>2. PICK q : q = Tail(s.readyList)
  OBVIOUS
<1>3. PICK f : f = [x \in DOMAIN s.mshr \ {a} |-> s.mshr[x]]
  OBVIOUS
<1>4. t = [s EXCEPT !.readyList = q, !.mshr = f]
  BY <1>1, <1>2, <1>3 DEF next_ready
<1>5. TagsKept(s, t) /\ t.c = s.c /\ t.queue = s.queue /\ t.memory = s.memory
      /\ t.mshr = f /\ t.readyList = q /\ t.extra = s.extra
  BY <1>4 DEF TagsOK, TagTypes, TagsKept, IsCache, Fields
<1>6. s.readyList \in Seq(s.c.addrs)
  BY DEF BooksOK, BookTypes
<1>7. q \in Seq(s.c.addrs) /\ a \in s.c.addrs /\ a = s.readyList[1] /\ 1 \in 1..Len(s.readyList)
      /\ Without(q, s.readyList, 1)
  BY <1>1, <1>2, <1>6, TailWithout
<1>8. \A b : Times(s.readyList, b) = IF a = b THEN Times(q, b) + 1 ELSE Times(q, b)
  BY <1>6, <1>7, TimesWithout
<1>9. \A b : Times(q, b) \in Nat
  BY <1>7, TimesType
<1>10. Times(s.readyList, a) = 1 /\ a \in Readied(s) /\ Times(q, a) = 0
  BY <1>7, <1>8, <1>9 DEF BooksOK, BookCounts
<1>11. DOMAIN f = DOMAIN s.mshr \ {a} /\ \A x \in DOMAIN f : f[x] = s.mshr[x]
  BY <1>3
<1>12. Waiting(t) = Waiting(s) /\ Readied(t) = Readied(s) \ {a}
  BY <1>5, <1>10, <1>11 DEF Waiting, Readied
<1>13. \A b : Fetches(t, b) = Fetches(s, b)
  BY <1>5 DEF Fetches
<1>14. \A b \in s.c.addrs : Times(t.readyList, b) = IF b \in Readied(t) THEN 1 ELSE 0
  BY <1>5, <1>8, <1>10, <1>12 DEF BooksOK, BookCounts
<1>15. BookCounts(t)
  BY <1>5, <1>12, <1>13, <1>14 DEF BooksOK, BookCounts
<1>16. IsFiniteSet(DOMAIN f)
  <2>1. IsFiniteSet(DOMAIN s.mshr)
    BY DEF BooksOK, BookTypes
  <2>2. IsFiniteSet(DOMAIN s.mshr \ {a})
    BY <2>1, FS_RemoveElement
  <2> QED
    BY <1>11, <2>2
<1>17. BookTypes(t)
  BY <1>5, <1>7, <1>11, <1>16 DEF BooksOK, BookTypes
<1> QED
  BY <1>5, <1>11, <1>15, <1>17 DEF BooksOK

\* The memory answers one fetch of the address, in any order.
LEMMA AnswerCount ==
  ASSUME NEW s, BooksOK(s), NEW i \in DOMAIN s.memory, NEW m, m = RemoveAt(s.memory, i), NEW b
  PROVE  Times(s.memory, b) = IF s.memory[i] = b THEN Times(m, b) + 1 ELSE Times(m, b)
<1>1. s.memory \in Seq(s.c.addrs)
  BY DEF BooksOK, BookTypes
<1>2. m \in Seq(s.c.addrs) /\ i \in 1..Len(s.memory) /\ Without(m, s.memory, i)
  BY <1>1, RemoveWithout
<1> QED
  BY <1>1, <1>2, TimesWithout

\* The address is in the table, waiting, with its extra fields.
LEMMA AnswerWaits ==
  ASSUME NEW s, BooksOK(s), NEW i \in DOMAIN s.memory, NEW a, a = s.memory[i],
         NEW m, m = RemoveAt(s.memory, i)
  PROVE  a \in s.c.addrs /\ a \in Waiting(s) /\ a \in DOMAIN s.extra /\ m \in Seq(s.c.addrs)
<1>1. s.memory \in Seq(s.c.addrs) /\ s.queue \in Seq(Message)
  BY DEF BooksOK, BookTypes
<1>3. m \in Seq(s.c.addrs) /\ i \in 1..Len(s.memory) /\ a \in s.c.addrs /\ Without(m, s.memory, i)
  BY <1>1, RemoveWithout
<1>4. Times(s.memory, a) = Times(m, a) + 1
  BY AnswerCount
<1>5. Times(m, a) \in Nat /\ Times(s.queue, FetchOf(a)) \in Nat
  BY <1>1, <1>3, TimesType
<1>6. a \in Waiting(s)
  BY <1>3, <1>4, <1>5 DEF BooksOK, BookCounts, Fetches
<1>7. a \in DOMAIN s.extra
  BY <1>6 DEF BooksOK, BookCounts
<1> QED
  BY <1>3, <1>4, <1>6, <1>7

\* mark_ready and the extra fields erased: the entry has no fetch and is once on the ready list.
LEMMA ReadyEntry ==
  ASSUME NEW s, BooksOK(s), NEW i \in DOMAIN s.memory, NEW a, a = s.memory[i],
         NEW v, IsCache(v), v.c = s.c, v.mshr = s.mshr, v.readyList = s.readyList,
         v.extra = s.extra, v.queue = s.queue, v.memory = RemoveAt(s.memory, i),
         NEW t, t = use_fill_port(Forget(mark_ready(v, a), a))
  PROVE  /\ TagsKept(v, t) /\ BooksOK(t)
         /\ DOMAIN t.extra = DOMAIN s.extra \ {a} /\ DOMAIN t.mshr = DOMAIN s.mshr
         /\ \A b \in DOMAIN t.extra : t.extra[b] = s.extra[b]
<1>1. PICK m : m = RemoveAt(s.memory, i)
  OBVIOUS
<1>2. /\ a \in s.c.addrs /\ a \in Waiting(s) /\ a \in DOMAIN s.extra /\ m \in Seq(s.c.addrs)
      /\ \A b : Times(s.memory, b) = IF a = b THEN Times(m, b) + 1 ELSE Times(m, b)
  <2>1. a \in s.c.addrs /\ a \in Waiting(s) /\ a \in DOMAIN s.extra /\ m \in Seq(s.c.addrs)
    BY <1>1, AnswerWaits
  <2>2. ASSUME NEW b
        PROVE  Times(s.memory, b) = IF a = b THEN Times(m, b) + 1 ELSE Times(m, b)
    BY <1>1, AnswerCount
  <2> QED
    BY <2>1, <2>2
<1>3. PICK f : f = [s.mshr EXCEPT ![a].ready = TRUE]
  OBVIOUS
<1>4. PICK l : l = Append(s.readyList, a)
  OBVIOUS
<1>5. PICK w : w = [v EXCEPT !.mshr = f, !.readyList = l]
  OBVIOUS
<1>6. mark_ready(v, a) = w
  <2>1. a \in DOMAIN v.mshr
    BY <1>2 DEF Waiting
  <2>2. mark_ready(v, a) = [v EXCEPT !.mshr[a].ready = TRUE, !.readyList = Append(@, a)]
    BY <2>1 DEF mark_ready, mshrProbe
  <2> QED
    BY <2>2, <1>3, <1>4, <1>5 DEF IsCache, Fields
<1>7. PICK g : g = [x \in DOMAIN s.extra \ {a} |-> s.extra[x]]
  OBVIOUS
<1>8. IsCache(w) /\ TagsKept(v, w) /\ w.mshr = f /\ w.readyList = l /\ w.extra = s.extra
      /\ w.queue = s.queue /\ w.memory = m
  BY <1>1, <1>5 DEF TagsKept, IsCache, Fields
<1>9. PICK x : x = Forget(w, a)
  OBVIOUS
<1>10. x = [w EXCEPT !.extra = g]
  BY <1>7, <1>8, <1>9 DEF Forget
<1>11. IsCache(x) /\ TagsKept(v, x) /\ x.mshr = f /\ x.readyList = l /\ x.extra = g
       /\ x.queue = s.queue /\ x.memory = m /\ x.c = s.c
  BY <1>8, <1>10 DEF TagsKept, IsCache, Fields
<1>12. t = use_fill_port(x)
  BY <1>6, <1>9
<1>13. TagsKept(x, t) /\ BooksKept(x, t)
  BY <1>11, <1>12, FillPortKeeps
<1>14. /\ DOMAIN f = DOMAIN s.mshr /\ a \in DOMAIN f /\ f[a].ready = TRUE
       /\ \A b \in DOMAIN f : f[b] \in Entry /\ (b # a => f[b] = s.mshr[b])
  <2>1. a \in DOMAIN s.mshr /\ \A b \in DOMAIN s.mshr : s.mshr[b] \in Entry
    BY <1>2 DEF Waiting, BooksOK, BookTypes
  <2>2. PICK e \in Entry : e = s.mshr[a]
    BY <2>1
  <2>3. PICK y : y = [e EXCEPT !.ready = TRUE]
    OBVIOUS
  <2>4. y \in Entry /\ y.ready = TRUE
    BY <2>3 DEF Entry
  <2>5. f = [s.mshr EXCEPT ![a] = y]
    BY <1>3, <2>2, <2>3
  <2> QED
    BY <2>1, <2>4, <2>5
<1>15. Waiting(x) = Waiting(s) \ {a} /\ Readied(x) = Readied(s) \cup {a} /\ a \notin Readied(s)
  BY <1>2, <1>11, <1>14 DEF Waiting, Readied
<1>16. s.readyList \in Seq(s.c.addrs)
  BY DEF BooksOK, BookTypes
<1>17. l \in Seq(s.c.addrs)
       /\ \A b : Times(l, b) = IF a = b THEN Times(s.readyList, b) + 1 ELSE Times(s.readyList, b)
  <2>1. a \in s.c.addrs
    BY <1>2
  <2>2. l \in Seq(s.c.addrs)
    BY <1>4, <1>16, <2>1, AppendType
  <2>3. \A b : Times(l, b) = IF a = b THEN Times(s.readyList, b) + 1 ELSE Times(s.readyList, b)
    BY <1>4, <1>16, <2>1, TimesAppend
  <2> QED
    BY <2>2, <2>3
<1>18. \A b : Times(s.queue, FetchOf(b)) \in Nat /\ Times(m, b) \in Nat
  BY <1>2, TimesType DEF BooksOK, BookTypes
<1>19. \A b \in s.c.addrs : Fetches(x, b) = IF b \in Waiting(x) THEN 1 ELSE 0
  <2> TAKE b \in s.c.addrs
  <2>1. Fetches(s, b) = Times(s.queue, FetchOf(b)) + Times(s.memory, b)
        /\ Fetches(x, b) = Times(s.queue, FetchOf(b)) + Times(m, b)
    BY <1>11 DEF Fetches
  <2>2. Fetches(s, b) = IF b \in Waiting(s) THEN 1 ELSE 0
    BY DEF BooksOK, BookCounts
  <2> QED
    BY <1>2, <1>15, <1>18, <2>1, <2>2
<1>20. \A b \in s.c.addrs : Times(l, b) = IF b \in Readied(x) THEN 1 ELSE 0
  BY <1>15, <1>17 DEF BooksOK, BookCounts
<1>21. DOMAIN g = DOMAIN s.extra \ {a} /\ \A b \in DOMAIN g : g[b] = s.extra[b]
  BY <1>7
<1>22. BookCounts(x)
  BY <1>11, <1>15, <1>19, <1>20, <1>21 DEF BooksOK, BookCounts
<1>23. BookTypes(x)
  BY <1>2, <1>11, <1>14, <1>17, <1>21 DEF BooksOK, BookTypes
<1>24. BooksOK(t)
  BY <1>13, <1>22, <1>23, BooksSame DEF BooksOK
<1> QED
  BY <1>11, <1>13, <1>14, <1>21, <1>24 DEF TagsKept, BooksKept

(***************************************************************************)
(* The inductive invariant                                                  *)
(***************************************************************************)
\* With one miss at a time, the line that was noted waits for its block.
Noted(s) == \A a \in DOMAIN s.extra : /\ s.line[s.extra[a].idx].tag = a.blk
                                      /\ s.line[s.extra[a].idx].st[0] = "RESERVED"
Single(s) == \A a, b \in DOMAIN s.mshr : a = b
OneMissSafe(c) == FillsAreSafe(c) /\ c.alloc = "ON_MISS"
LinesOK(s) == /\ FillsAreSafe(s.c) => BlocksHeld(s)
              /\ OneMissSafe(s.c) => Noted(s) /\ Single(s)
CacheOK(s) == TagsOK(s) /\ BooksOK(s) /\ LinesOK(s)

\* The two ways in which fills are safe.
LEMMA SafeCases ==
  ASSUME NEW c, FillsAreSafe(c)
  PROVE  \/ /\ c.alloc = "ON_FILL" /\ ~OneMissSafe(c)
            /\ c.walloc = "LAZY_FETCH_ON_READ" => c.type = "SECTOR"
         \/ /\ OneMissSafe(c) /\ c.type = "NORMAL" /\ c.mshrs = 1 /\ ~c.flushes
            /\ c.walloc \in {"NO_WRITE_ALLOCATE", "WRITE_ALLOCATE"}
            /\ \A r \in c.reqs : r.type # "WRITE_BACK"
BY DEF FillsAreSafe, OneMissSafe

\* Steps of the books only.
LEMMA TagsKeptOK ==
  ASSUME NEW s, CacheOK(s), NEW t, TagsKept(s, t), BooksOK(t), t.extra = s.extra,
         DOMAIN t.mshr \subseteq DOMAIN s.mshr
  PROVE  CacheOK(t) /\ t.c = s.c
<1>1. TagsOK(s) /\ LinesOK(s) /\ t.c = s.c /\ t.line = s.line
  BY DEF CacheOK, TagsKept
<1>2. TagsOK(t)
  BY <1>1, KeptTags
<1>3. FillsAreSafe(t.c) => BlocksHeld(t)
  BY <1>1, HeldSame DEF LinesOK
<1>4. OneMissSafe(t.c) => Noted(t) /\ Single(t)
  BY <1>1 DEF LinesOK, Noted, Single
<1> QED
  BY <1>1, <1>2, <1>3, <1>4 DEF CacheOK, LinesOK

\* Steps of the ports only.
LEMMA BothKeptOK ==
  ASSUME NEW s, CacheOK(s), NEW t, TagsKept(s, t), BooksKept(s, t)
  PROVE  CacheOK(t) /\ t.c = s.c
<1>1. BooksOK(t) /\ t.extra = s.extra /\ t.mshr = s.mshr
  BY BooksSame DEF BooksKept, CacheOK
<1> QED
  BY <1>1, TagsKeptOK

\* Steps of the replacement state only.
LEMMA TouchOK ==
  ASSUME NEW s, CacheOK(s), NEW t, TouchKept(s, t)
  PROVE  CacheOK(t) /\ t.c = s.c
<1>1. TagsOK(t) /\ BooksKept(s, t) /\ t.line = s.line /\ t.c = s.c /\ t.extra = s.extra
      /\ t.mshr = s.mshr
  BY DEF TouchKept, BooksKept
<1>2. BooksOK(t)
  BY <1>1, BooksSame DEF CacheOK
<1>3. FillsAreSafe(t.c) => BlocksHeld(t)
  BY <1>1, HeldSame DEF CacheOK, LinesOK
<1>4. OneMissSafe(t.c) => Noted(t) /\ Single(t)
  BY <1>1 DEF CacheOK, LinesOK, Noted, Single
<1> QED
  BY <1>1, <1>2, <1>3, <1>4 DEF CacheOK, LinesOK

\* Lines are put where fills look the address up, or nothing is claimed.
LEMMA PutsOK ==
  ASSUME NEW s, CacheOK(s), NEW a \in Address(s.c), NEW t, TagsOK(t), BooksKept(s, t),
         ~OneMissSafe(s.c), FillsAreSafe(s.c) => Puts(s, t, a)
  PROVE  CacheOK(t) /\ t.c = s.c
<1>1. t.c = s.c /\ BooksOK(t)
  BY BooksSame DEF BooksKept, CacheOK
<1>2. FillsAreSafe(t.c) => BlocksHeld(t)
  BY <1>1, HeldPuts DEF CacheOK, LinesOK
<1> QED
  BY <1>1, <1>2 DEF CacheOK, LinesOK

\* One line is put, and the noted lines keep waiting.
LEMMA PutOK ==
  ASSUME NEW s, CacheOK(s), NEW a \in Address(s.c), NEW t, TagsOK(t), BooksKept(s, t),
         NEW i, LinePut(s, t, i, a), OneMissSafe(s.c) => Noted(t)
  PROVE  CacheOK(t) /\ t.c = s.c
<1>1. t.c = s.c /\ BooksOK(t) /\ t.mshr = s.mshr
  BY BooksSame DEF BooksKept, CacheOK
<1>2. FillsAreSafe(t.c) => BlocksHeld(t)
  BY <1>1, HeldPut DEF CacheOK, LinesOK
<1>3. OneMissSafe(t.c) => Noted(t) /\ Single(t)
  BY <1>1 DEF CacheOK, LinesOK, Single
<1> QED
  BY <1>1, <1>2, <1>3 DEF CacheOK, LinesOK

\* A line that is hit.
HitLine(s, a, i) == i \in LinesOf(s.c, a) /\ Matches(s, i, a.blk) /\ Answers(s, s.line[i], a.sec)

\* The line that a hit finds.
LEMMA HitFound ==
  ASSUME NEW s, TagsOK(s), NEW a \in Address(s.c), probe(s, a) = "HIT"
  PROVE  HitLine(s, a, Lowest(find_matching_way(s, a)))
<1>1. find_matching_way(s, a) # {}
  BY DEF probe
<1>2. PICK i : i = Lowest(find_matching_way(s, a))
  OBVIOUS
<1>3. i \in LinesOf(s.c, a) /\ Matches(s, i, a.blk)
  BY <1>1, <1>2, WaysFound
<1>4. Answers(s, s.line[i], a.sec)
  BY <1>1, <1>2 DEF probe
<1> QED
  BY <1>2, <1>3, <1>4 DEF HitLine

\* A write to a line that is hit: no noted line is hit, they are RESERVED.
LEMMA HitPutOK ==
  ASSUME NEW s, CacheOK(s), NEW a \in Address(s.c), NEW i, HitLine(s, a, i),
         NEW t, TagsOK(t), BooksKept(s, t), LinePut(s, t, i, a)
  PROVE  CacheOK(t) /\ t.c = s.c
<1>1. s.c \in Configs /\ t.extra = s.extra
  BY DEF CacheOK, TagsOK, TagTypes, BooksKept
<1>2. ASSUME OneMissSafe(s.c) PROVE Noted(t)
  <2>1. s.c.type = "NORMAL"
    BY <1>2, SafeCases DEF OneMissSafe
  <2>2. a.sec = 0
    BY <1>1, <2>1, Geometry DEF Address, Sectors
  <2>3. s.line[i].st[0] # "RESERVED"
    BY <2>2 DEF HitLine, Answers
  <2>4. Noted(s) /\ \A b \in DOMAIN s.extra : s.extra[b].idx \in Lines(s.c)
    BY <1>2 DEF CacheOK, LinesOK, BooksOK, BookTypes
  <2>5. \A j \in Lines(s.c) : j # i => t.line[j] = s.line[j]
    BY DEF LinePut, CacheOK, TagsOK, TagTypes
  <2>6. \A b \in DOMAIN s.extra : s.extra[b].idx # i
    BY <2>3, <2>4 DEF Noted
  <2> QED
    BY <1>1, <2>4, <2>5, <2>6 DEF Noted
<1> QED
  BY <1>2, PutOK

(***************************************************************************)
(* A request to the memory                                                  *)
(***************************************************************************)
\* A NORMAL cache has one sector per line.
LEMMA BlockAddrNormal ==
  ASSUME NEW c \in Configs, NEW a \in Address(c), c.type = "NORMAL"
  PROVE  get_block_addr(a) = a /\ a.sec = 0
<1>1. a.sec = 0 /\ a \in [blk : Nat, sec : Sectors(c)]
  BY Geometry DEF Address, Sectors
<1>2. [a EXCEPT !.sec = 0] = a
  BY <1>1
<1> QED
  BY <1>1, <1>2 DEF get_block_addr

\* A miss of an ON_MISS cache leaves its line RESERVED.
LEMMA AccessReserves ==
  ASSUME NEW s, TagsOK(s), NEW a \in Address(s.c), NEW pick \in Ways(s.c),
         s.c.type = "NORMAL", s.c.alloc = "ON_MISS", probe(s, a) # "HIT",
         NEW r, r = tagAccess(s, a, pick)
  PROVE  r.s.line[r.idx].st[0] = "RESERVED"
<1>1. s.c \in Configs /\ a.sec = 0
  BY BlockAddrNormal DEF TagsOK, TagTypes
<1>2. CASE find_matching_way(s, a) = {}
  BY <1>2, WaysFound, VictimInSet, AllocateOK DEF tagAccess
<1>3. CASE find_matching_way(s, a) # {}
  <2>1. PICK i : i = Lowest(find_matching_way(s, a))
    OBVIOUS
  <2>2. i \in find_matching_way(s, a) /\ i \in LinesOf(s.c, a)
    BY <1>3, <2>1, WaysFound
  <2>3. i \in Lines(s.c)
    BY <2>2, LinesOfSet, <1>1
  <2>4. s.line[i].st[0] \in BlockState
    BY <1>1, <2>3, Geometry DEF TagsOK, TagTypes, Block
  <2>5. r = accessLine(s, a, i, probe(s, a))
    BY <1>3, <2>1 DEF tagAccess
  <2>6. /\ r.idx = i
        /\ IF probe(s, a) = "SECTOR_MISS" /\ s.c.alloc = "ON_MISS"
           THEN r.s.line[i].st[a.sec] = "RESERVED" ELSE r.s.line = s.line
    BY <2>2, <2>5, AccessLineOK
  <2>7. CASE probe(s, a) = "SECTOR_MISS"
    BY <1>1, <2>6, <2>7
  <2>8. CASE probe(s, a) # "SECTOR_MISS"
    <3>1. s.line[i].st[0] = "RESERVED"
      BY <1>1, <1>3, <2>1, <2>4, <2>8 DEF probe, Answers, BlockState
    <3> QED
      BY <2>6, <2>8, <3>1
  <2> QED
    BY <2>7, <2>8
<1> QED
  BY <1>2, <1>3

IsWriteBack(wb) == wb = {} \/ \E t \in Tag : wb = {t}

\* The address of a request and the address of its block.
LEMMA ConfigFacts ==
  ASSUME NEW c \in Configs, NEW a \in c.addrs
  PROVE  /\ a \in Address(c) /\ a \in Place /\ get_block_addr(a) \in Address(c)
         /\ get_block_addr(a).blk = a.blk
         /\ LinesOf(c, get_block_addr(a)) = LinesOf(c, a)
         /\ c.type = "NORMAL" => get_block_addr(a) = a
BY AddrsTyped, BlockAddrNormal, SameSet

\* What LinePut says of the block address holds of the address.
LEMMA PutAddr ==
  ASSUME NEW s, TagsOK(s), NEW a \in s.c.addrs, NEW b, b = get_block_addr(a), NEW t, NEW i,
         LinePut(s, t, i, b)
  PROVE  LinePut(s, t, i, a)
<1>1. b.blk = a.blk /\ LinesOf(s.c, b) = LinesOf(s.c, a)
  BY ConfigFacts DEF TagsOK, TagTypes
<1>2. find_matching_way(s, b) = find_matching_way(s, a)
  BY <1>1 DEF find_matching_way
<1> QED
  BY <1>1, <1>2 DEF LinePut

\* A write or a write back is sent.
LEMMA SendOtherOK ==
  ASSUME NEW s, CacheOK(s), NEW kind \in {"write", "writeback"}, NEW a \in Place,
         NEW t, t = Send(s, kind, a)
  PROVE  CacheOK(t) /\ t.c = s.c /\ t.line = s.line /\ t.mshr = s.mshr
<1>1. SentOther(s, t)
  BY SendOther DEF CacheOK
<1>2. TagsKept(s, t) /\ BooksOK(t) /\ t.extra = s.extra /\ t.mshr = s.mshr /\ t.line = s.line
  BY <1>1 DEF SentOther, TagsKept
<1> QED
  BY <1>2, TagsKeptOK

\* The write back of an evicted line, if there is one.
LEMMA WriteBackOK ==
  ASSUME NEW s, CacheOK(s), NEW wb, IsWriteBack(wb), NEW t, t = SendWriteBack(s, wb)
  PROVE  CacheOK(t) /\ t.c = s.c
<1>1. CASE wb = {} \/ s.c.write = "WRITE_THROUGH"
  BY <1>1 DEF SendWriteBack
<1>2. CASE ~(wb = {} \/ s.c.write = "WRITE_THROUGH")
  <2>1. PICK x \in Tag : wb = {x}
    BY <1>2 DEF IsWriteBack
  <2>2. Lowest(wb) = x
    BY <2>1, LowestOne DEF Tag
  <2>3. PICK p : p = [blk |-> x, sec |-> 0]
    OBVIOUS
  <2>4. p \in Place
    BY <2>3 DEF Place
  <2>5. t = Send(s, "writeback", p)
    BY <1>2, <2>2, <2>3 DEF SendWriteBack
  <2> QED
    BY <2>4, <2>5, SendOtherOK
<1> QED
  BY <1>1, <1>2

\* The tags are accessed for a read: with one miss at a time no other entry waits.
LEMMA ReadAccess ==
  ASSUME NEW s, CacheOK(s), NEW a \in s.c.addrs, NEW pick \in Ways(s.c), ~mshrFull(s, a),
         OneMissSafe(s.c) => probe(s, a) # "HIT",
         NEW r, r = tagAccess(s, get_block_addr(a), pick)
  PROVE  /\ CacheOK(r.s) /\ BooksKept(s, r.s) /\ r.idx \in Lines(s.c) /\ IsWriteBack(r.wb)
         /\ r.s.line[r.idx].tag = a.blk
         /\ OneMissSafe(s.c) => /\ r.s.line[r.idx].st[0] = "RESERVED"
                                /\ \A b \in DOMAIN s.mshr : b = a
<1>1. TagsOK(s) /\ BooksOK(s) /\ LinesOK(s) /\ s.c \in Configs
  BY DEF CacheOK, TagsOK, TagTypes
<1>2. PICK b : b = get_block_addr(a)
  OBVIOUS
<1>3. b \in Address(s.c) /\ b.blk = a.blk /\ LinesOf(s.c, b) = LinesOf(s.c, a)
      /\ (s.c.type = "NORMAL" => b = a)
  BY <1>1, <1>2, ConfigFacts
<1>4. AccessOK(s, b, r)
  BY <1>1, <1>2, <1>3, TagAccessOK
<1>5. PICK u, i : u = r.s /\ i = r.idx
  OBVIOUS
<1>6. TagsOK(u) /\ BooksKept(s, u) /\ LinePut(s, u, i, b) /\ IsWriteBack(r.wb)
  BY <1>4, <1>5 DEF AccessOK, IsWriteBack
<1>7. i \in Lines(s.c) /\ u.line[i].tag = a.blk
      /\ \A j \in Lines(s.c) : j # i => u.line[j] = s.line[j]
  <2>1. i \in LinesOf(s.c, b) /\ u.line[i].tag = b.blk /\ u.line = [s.line EXCEPT ![i] = u.line[i]]
    BY <1>6 DEF LinePut
  <2>2. i \in Lines(s.c)
    BY <1>1, <1>3, <2>1, LinesOfSet
  <2> QED
    BY <1>1, <1>3, <2>1, <2>2 DEF TagsOK, TagTypes
<1>8. ASSUME OneMissSafe(s.c)
      PROVE  /\ u.line[i].st[0] = "RESERVED" /\ \A x \in DOMAIN s.mshr : x = a
             /\ Noted(u)
  <2>1. s.c.type = "NORMAL" /\ s.c.mshrs = 1 /\ s.c.alloc = "ON_MISS" /\ probe(s, a) # "HIT"
    BY <1>8, SafeCases DEF OneMissSafe
  <2>2. u.line[i].st[0] = "RESERVED"
    BY <1>1, <1>2, <1>3, <1>5, <2>1, AccessReserves
  <2>3. ASSUME NEW x \in DOMAIN s.mshr PROVE x = a
    <3>1. CASE mshrProbe(s, a)
      BY <1>1, <1>8, <2>3, <3>1 DEF LinesOK, Single, mshrProbe
    <3>2. CASE ~mshrProbe(s, a)
      <4>1. IsFiniteSet(DOMAIN s.mshr)
        BY <1>1 DEF BooksOK, BookTypes
      <4>2. Cardinality(DOMAIN s.mshr) \in Nat /\ ~(Cardinality(DOMAIN s.mshr) >= 1)
        BY <2>1, <3>2, <4>1, FS_CardinalityType DEF mshrFull
      <4>3. Cardinality(DOMAIN s.mshr) = 0
        BY <4>2
      <4>4. DOMAIN s.mshr = {}
        BY <4>1, <4>3, FS_EmptySet
      <4> QED
        BY <2>3, <4>4
    <3> QED
      BY <3>1, <3>2
  <2>4. DOMAIN s.extra \subseteq DOMAIN s.mshr /\ u.extra = s.extra
        /\ \A x \in DOMAIN s.extra : s.extra[x].idx \in Lines(s.c)
    BY <1>1, <1>6 DEF BooksOK, BookTypes, BookCounts, Waiting, BooksKept
  <2>5. Noted(s)
    BY <1>1, <1>8 DEF LinesOK
  <2>6. Noted(u)
    BY <1>7, <2>2, <2>3, <2>4, <2>5 DEF Noted
  <2> QED
    BY <2>2, <2>3, <2>6
<1>9. CacheOK(u)
  BY <1>3, <1>6, <1>8, PutOK
<1> QED
  BY <1>5, <1>6, <1>7, <1>8, <1>9

\* What send_read_request yields.
SentOK(s, r) == /\ CacheOK(r.s) /\ r.s.c = s.c /\ IsWriteBack(r.wb)
                /\ r = [s |-> r.s, miss |-> r.miss, wb |-> r.wb]

\* send_read_request: refused, joined to an entry, or a new entry.
LEMMA SendReadOK ==
  ASSUME NEW s, CacheOK(s), NEW a \in s.c.addrs, NEW req \in s.c.reqs, NEW pick \in Ways(s.c),
         OneMissSafe(s.c) => probe(s, a) # "HIT",
         NEW r, r = send_read_request(s, a, req, pick)
  PROVE  SentOK(s, r)
<1>1. CASE mshrFull(s, a) \/ (~mshrProbe(s, a) /\ miss_queue_full(s, 1))
  <2>1. r = Sent(s, FALSE, {}) \/ r = Sent(s, TRUE, {})
    BY <1>1 DEF send_read_request
  <2> QED
    BY <2>1 DEF Sent, SentOK, IsWriteBack
<1>2. CASE ~(mshrFull(s, a) \/ (~mshrProbe(s, a) /\ miss_queue_full(s, 1)))
  <2>1. PICK x : x = tagAccess(s, get_block_addr(a), pick)
    OBVIOUS
  <2>2. r = sendAllocated(s, a, req, x)
    BY <1>2, <2>1 DEF send_read_request
  <2>3. PICK u, i, wb : u = x.s /\ i = x.idx /\ wb = x.wb
    OBVIOUS
  <2>4. /\ CacheOK(u) /\ BooksKept(s, u) /\ i \in Lines(s.c) /\ IsWriteBack(wb)
        /\ u.line[i].tag = a.blk
        /\ OneMissSafe(s.c) => u.line[i].st[0] = "RESERVED" /\ \A b \in DOMAIN s.mshr : b = a
    BY <1>2, <2>1, <2>3, ReadAccess
  <2>5. u.c = s.c /\ u.mshr = s.mshr /\ u.extra = s.extra
    BY <2>4 DEF BooksKept
  <2>6. req.type \in Request
    BY ConfigsAssumption DEF CacheOK, TagsOK, TagTypes, Request
  <2>7. CASE mshrProbe(s, a)
    <3>1. PICK t : t = mshrAdd(u, a, req.type)
      OBVIOUS
    <3>2. r = [s |-> t, miss |-> TRUE, wb |-> wb]
      BY <2>2, <2>3, <2>7, <3>1 DEF sendAllocated, Sent
    <3>3. a \in DOMAIN u.mshr
      BY <2>5, <2>7 DEF mshrProbe
    <3>4. TagsKept(u, t) /\ BooksOK(t) /\ t.extra = u.extra /\ DOMAIN t.mshr = DOMAIN u.mshr
      BY <2>4, <2>6, <3>1, <3>3, JoinEntry DEF CacheOK
    <3>5. CacheOK(t) /\ t.c = u.c
      BY <2>4, <3>4, TagsKeptOK
    <3> QED
      BY <2>4, <2>5, <3>2, <3>5 DEF SentOK
  <2>8. CASE ~mshrProbe(s, a) /\ x.status = "RESERVATION_FAIL"
    <3>1. r = [s |-> u, miss |-> FALSE, wb |-> {}]
      BY <2>2, <2>3, <2>8 DEF sendAllocated, Sent
    <3> QED
      BY <2>4, <2>5, <3>1 DEF SentOK, IsWriteBack
  <2>9. CASE ~mshrProbe(s, a) /\ x.status # "RESERVATION_FAIL"
    <3>1. PICK t : t = Send(NoteMiss(u, a, req, i), "fetch", a)
      OBVIOUS
    <3>2. r = [s |-> t, miss |-> TRUE, wb |-> wb]
      BY <2>2, <2>3, <2>9, <3>1 DEF sendAllocated, Sent
    <3>3. a \notin DOMAIN u.mshr /\ a \in u.c.addrs /\ i \in Lines(u.c) /\ TagsOK(u) /\ BooksOK(u)
          /\ LinesOK(u)
      BY <2>4, <2>5, <2>9 DEF mshrProbe, CacheOK
    <3>4. /\ TagsKept(u, t) /\ BooksOK(t) /\ DOMAIN t.mshr = DOMAIN u.mshr \cup {a}
          /\ DOMAIN t.extra = DOMAIN u.extra \cup {a} /\ t.extra[a].idx = i
          /\ \A b \in DOMAIN u.extra : t.extra[b] = u.extra[b]
      BY <2>6, <3>1, <3>3, NewEntry
    <3>5. TagsOK(t) /\ t.c = u.c /\ t.line = u.line
      BY <3>3, <3>4, KeptTags DEF TagsKept
    <3>6. FillsAreSafe(t.c) => BlocksHeld(t)
      BY <3>3, <3>5, HeldSame DEF LinesOK
    <3>7. ASSUME OneMissSafe(t.c) PROVE Noted(t) /\ Single(t)
      <4>1. DOMAIN t.mshr = {a} /\ u.line[i].st[0] = "RESERVED" /\ u.line[i].tag = a.blk
        BY <2>4, <2>5, <3>4, <3>5, <3>7
      <4>2. DOMAIN t.extra \subseteq {a}
        BY <3>4, <4>1 DEF BooksOK, BookCounts, Waiting
      <4>3. Noted(t)
        BY <3>4, <3>5, <4>1, <4>2 DEF Noted
      <4> QED
        BY <4>1, <4>3 DEF Single
    <3>8. CacheOK(t)
      BY <3>4, <3>5, <3>6, <3>7 DEF CacheOK, LinesOK
    <3> QED
      BY <2>4, <2>5, <3>2, <3>5, <3>8 DEF SentOK
  <2> QED
    BY <2>7, <2>8, <2>9
<1> QED
  BY <1>1, <1>2

\* A status does not change the cache.
LEMMA MissOrFailS ==
  ASSUME NEW r
  PROVE  MissOrFail(r).s = r.s
BY DEF MissOrFail, Result

\* A fetch and the write back that follows it.
LEMMA FetchOK ==
  ASSUME NEW s, CacheOK(s), NEW a \in s.c.addrs, NEW req \in s.c.reqs, NEW pick \in Ways(s.c),
         OneMissSafe(s.c) => probe(s, a) # "HIT",
         NEW t, t = Fetch(s, a, req, pick).s
  PROVE  CacheOK(t) /\ t.c = s.c
<1>1. PICK r : r = send_read_request(s, a, req, pick)
  OBVIOUS
<1>2. SentOK(s, r)
  BY <1>1, SendReadOK
<1>3. PICK u : u = IF r.miss THEN SendWriteBack(r.s, r.wb) ELSE r.s
  OBVIOUS
<1>4. CacheOK(u) /\ u.c = s.c
  BY <1>2, <1>3, WriteBackOK DEF SentOK
<1>5. PICK q : q = [r EXCEPT !.s = u]
  OBVIOUS
<1>6. Fetch(s, a, req, pick) = MissOrFail(q)
  BY <1>1, <1>3, <1>5 DEF Fetch, FinishFetch
<1>7. q.s = u
  BY <1>2, <1>5 DEF SentOK
<1> QED
  BY <1>4, <1>6, <1>7, MissOrFailS

(***************************************************************************)
(* The handlers of reads and writes                                         *)
(***************************************************************************)
\* wr_hit_wb: the sector is modified and the line touched.
LEMMA WriteHitWb ==
  ASSUME NEW s, CacheOK(s), NEW a \in Address(s.c), NEW i, HitLine(s, a, i),
         NEW t, t = wr_hit_wb(s, i, a).s
  PROVE  CacheOK(t) /\ t.c = s.c
<1>1. TagsOK(s) /\ s.c \in Configs /\ i \in LinesOf(s.c, a) /\ Matches(s, i, a.blk)
      /\ Answers(s, s.line[i], a.sec)
  BY DEF CacheOK, TagsOK, TagTypes, HitLine
<1>2. i \in Lines(s.c)
  BY <1>1, LinesOfSet
<1>3. PICK u : u = Modify(s, i, a, FALSE)
  OBVIOUS
<1>4. FALSE \in BOOLEAN
  OBVIOUS
<1>5. TagsOK(u) /\ BooksKept(s, u) /\ LinePut(s, u, i, a)
  BY <1>1, <1>2, <1>3, <1>4, ModifyOK
<1>6. CacheOK(u) /\ u.c = s.c
  BY <1>5, HitPutOK
<1>7. t = touch(u, i)
  BY <1>3 DEF wr_hit_wb, Result
<1>8. TouchKept(u, t)
  BY <1>2, <1>5, <1>6, <1>7, TouchKeeps
<1> QED
  BY <1>6, <1>8, TouchOK

\* wr_hit_wt: the same, and the write is sent.
LEMMA WriteHitWt ==
  ASSUME NEW s, CacheOK(s), NEW a \in Address(s.c), a \in Place, NEW i, HitLine(s, a, i),
         NEW t, t = wr_hit_wt(s, i, a).s
  PROVE  CacheOK(t) /\ t.c = s.c
<1>1. PICK u : u = wr_hit_wb(s, i, a).s
  OBVIOUS
<1>2. CacheOK(u) /\ u.c = s.c
  BY <1>1, WriteHitWb
<1>3. t = s \/ t = Send(u, "write", a)
  BY <1>1 DEF wr_hit_wt, Result
<1>4. "write" \in {"write", "writeback"}
  OBVIOUS
<1> QED
  BY <1>2, <1>3, <1>4, SendOtherOK

\* wr_hit_we: the sector is invalidated and the write sent.
LEMMA WriteHitWe ==
  ASSUME NEW s, CacheOK(s), NEW a \in Address(s.c), a \in Place, NEW i, HitLine(s, a, i),
         NEW t, t = wr_hit_we(s, i, a).s
  PROVE  CacheOK(t) /\ t.c = s.c
<1>1. PICK u : u = EvictSector(s, i, a)
  OBVIOUS
<1>2. TagsOK(u) /\ BooksKept(s, u) /\ LinePut(s, u, i, a)
  BY <1>1, EvictSectorOK DEF HitLine, CacheOK
<1>3. CacheOK(u) /\ u.c = s.c
  BY <1>2, HitPutOK
<1>4. t = s \/ t = Send(u, "write", a)
  BY <1>1 DEF wr_hit_we, Result, EvictSector
<1>5. "write" \in {"write", "writeback"}
  OBVIOUS
<1> QED
  BY <1>3, <1>4, <1>5, SendOtherOK

\* The write hit of each policy.
LEMMA WriteHit ==
  ASSUME NEW s, CacheOK(s), s.c.write # "READ_ONLY", NEW a \in Address(s.c), a \in Place,
         NEW i, HitLine(s, a, i), NEW req, NEW t, t = wr_hit(s, i, a, req).s
  PROVE  CacheOK(t) /\ t.c = s.c
<1>1. s.c.write \in {"WRITE_BACK", "WRITE_THROUGH", "WRITE_EVICT", "LOCAL_WB_GLOBAL_WT"}
  BY ConfigsAssumption DEF CacheOK, TagsOK, TagTypes
<1>2. \/ t = wr_hit_wb(s, i, a).s \/ t = wr_hit_wt(s, i, a).s \/ t = wr_hit_we(s, i, a).s
  BY <1>1 DEF wr_hit
<1> QED
  BY <1>2, WriteHitWb, WriteHitWt, WriteHitWe

\* wr_miss_no_wa: the write is sent.
LEMMA WriteMissSent ==
  ASSUME NEW s, CacheOK(s), NEW a \in Place, NEW t, t = wr_miss_no_wa(s, a).s
  PROVE  CacheOK(t) /\ t.c = s.c
BY SendOtherOK DEF wr_miss_no_wa, Result

\* A request in the queue does not change what a probe finds.
LEMMA SentProbe ==
  ASSUME NEW s, NEW t, t.c = s.c, t.line = s.line, NEW a
  PROVE  probe(t, a) = probe(s, a)
<1>1. find_matching_way(t, a) = find_matching_way(s, a)
  BY DEF find_matching_way
<1>2. \A l : Answers(t, l, a.sec) <=> Answers(s, l, a.sec)
  BY DEF Answers
<1> QED
  BY <1>1, <1>2 DEF probe

\* wr_miss_wa_naive: the write is sent and the line fetched.
LEMMA WriteMissNaive ==
  ASSUME NEW s, CacheOK(s), NEW a \in s.c.addrs, NEW req \in s.c.reqs, NEW pick \in Ways(s.c),
         probe(s, a) # "HIT", NEW t, t = wr_miss_wa_naive(s, a, req, pick).s
  PROVE  CacheOK(t) /\ t.c = s.c
<1>1. PICK u : u = Send(s, "write", a)
  OBVIOUS
<1>2. a \in Place /\ "write" \in {"write", "writeback"}
  BY ConfigFacts DEF CacheOK, TagsOK, TagTypes
<1>3. CacheOK(u) /\ u.c = s.c /\ u.line = s.line
  BY <1>1, <1>2, SendOtherOK
<1>4. probe(u, a) # "HIT"
  BY <1>3, SentProbe
<1>5. t = s \/ t = Fetch(u, a, req, pick).s
  BY <1>1 DEF wr_miss_wa_naive, Result
<1> QED
  BY <1>3, <1>4, <1>5, FetchOK

\* Fills look the address up, so lines may be taken while a miss is outstanding.
LEMMA AccessedOK ==
  ASSUME NEW s, CacheOK(s), ~OneMissSafe(s.c), NEW a \in s.c.addrs, NEW pick \in Ways(s.c),
         NEW r, r = tagAccess(s, get_block_addr(a), pick), NEW u, u = r.s, NEW i, i = r.idx
  PROVE  /\ CacheOK(u) /\ u.c = s.c /\ IsWriteBack(r.wb)
         /\ i \in LinesOf(u.c, a) /\ Matches(u, i, a.blk) /\ i \in Lines(u.c)
         /\ a \in Address(u.c)
<1>1. TagsOK(s) /\ s.c \in Configs
  BY DEF CacheOK, TagsOK, TagTypes
<1>2. PICK b : b = get_block_addr(a)
  OBVIOUS
<1>3. b \in Address(s.c) /\ a \in Address(s.c)
  BY <1>1, <1>2, ConfigFacts
<1>4. AccessOK(s, b, r)
  BY <1>1, <1>2, <1>3, TagAccessOK
<1>6. /\ TagsOK(u) /\ BooksKept(s, u) /\ LinePut(s, u, i, b) /\ ~is_invalid(u.line[i])
      /\ IsWriteBack(r.wb)
  BY <1>4 DEF AccessOK, IsWriteBack
<1>7. LinePut(s, u, i, a) /\ u.c = s.c
  BY <1>1, <1>2, <1>6, PutAddr DEF BooksKept
<1>8. i \in LinesOf(u.c, a) /\ Matches(u, i, a.blk) /\ i \in Lines(u.c) /\ a \in Address(u.c)
  BY <1>1, <1>3, <1>6, <1>7, LinesOfSet DEF LinePut, Matches
<1>9. CacheOK(u)
  BY <1>3, <1>6, <1>7, PutsOK DEF Puts
<1> QED
  BY <1>6, <1>7, <1>8, <1>9

\* The line that was taken is written; a sector written in part is not readable.
Wrote(c, r, a, whole, t) ==
  \/ t = Modify(r.s, r.idx, a, whole) /\ whole = TRUE
  \/ t = ModifyReadable(r.s, r.idx, a, whole) /\ (FillsAreSafe(c) => c.type = "SECTOR")

\* The line that was taken holds what was written.
LEMMA WrittenOK ==
  ASSUME NEW s, CacheOK(s), ~OneMissSafe(s.c), NEW a \in s.c.addrs, NEW pick \in Ways(s.c),
         NEW r, r = tagAccess(s, get_block_addr(a), pick), NEW whole \in BOOLEAN,
         NEW t, Wrote(s.c, r, a, whole, t)
  PROVE  CacheOK(t) /\ t.c = s.c /\ IsWriteBack(r.wb)
<1>5. PICK u, i : u = r.s /\ i = r.idx
  OBVIOUS
<1>9. CacheOK(u) /\ u.c = s.c /\ IsWriteBack(r.wb)
  BY <1>5, AccessedOK
<1>8. /\ i \in LinesOf(u.c, a) /\ Matches(u, i, a.blk) /\ i \in Lines(u.c)
      /\ a \in Address(u.c) /\ TagsOK(u)
  BY <1>5, AccessedOK DEF CacheOK
<1>10. /\ TagsOK(t) /\ BooksKept(u, t)
       /\ FillsAreSafe(s.c) => LinePut(u, t, i, a)
  <2>1. CASE t = Modify(r.s, r.idx, a, whole) /\ whole = TRUE
    BY <1>5, <1>8, <2>1, ModifyOK
  <2>2. CASE /\ t = ModifyReadable(r.s, r.idx, a, whole)
             /\ FillsAreSafe(s.c) => s.c.type = "SECTOR"
    BY <1>5, <1>8, <1>9, <2>2, ModifyReadableOK
  <2> QED
    BY <2>1, <2>2 DEF Wrote
<1>11. CacheOK(t) /\ t.c = u.c
  BY <1>8, <1>9, <1>10, PutsOK DEF Puts
<1> QED
  BY <1>9, <1>11

\* A whole atom written without a fetch (fetch on write).
LEMMA WriteWholeOK ==
  ASSUME NEW s, CacheOK(s), ~OneMissSafe(s.c), NEW a \in s.c.addrs, NEW pick \in Ways(s.c),
         NEW t, t = WriteWhole(s, a, pick).s
  PROVE  CacheOK(t) /\ t.c = s.c
<1>1. PICK r : r = tagAccess(s, get_block_addr(a), pick)
  OBVIOUS
<1>2. PICK whole \in BOOLEAN : whole = TRUE
  OBVIOUS
<1>3. PICK u : u = Modify(r.s, r.idx, a, whole)
  OBVIOUS
<1>4. CacheOK(u) /\ u.c = s.c /\ IsWriteBack(r.wb)
  <2>1. Wrote(s.c, r, a, whole, u)
    BY <1>2, <1>3 DEF Wrote
  <2> QED
    BY <1>1, <2>1, WrittenOK
<1>5. CASE r.status = "RESERVATION_FAIL"
  BY <1>1, <1>5, AccessedOK DEF WriteWhole, writeAllocated, Result
<1>6. CASE r.status # "RESERVATION_FAIL"
  <2>2. t = SendWriteBack(u, r.wb)
    BY <1>1, <1>2, <1>3, <1>6 DEF WriteWhole, writeAllocated, Result
  <2> QED
    BY <1>4, <2>2, WriteBackOK
<1> QED
  BY <1>5, <1>6

\* wr_miss_wa_lazy_fetch_on_read: the line is taken and written in part.
LEMMA WriteLazilyOK ==
  ASSUME NEW s, CacheOK(s), s.c.walloc = "LAZY_FETCH_ON_READ", NEW a \in s.c.addrs,
         NEW req \in s.c.reqs, NEW pick \in Ways(s.c),
         NEW t, t = wr_miss_wa_lazy_fetch_on_read(s, a, req, pick).s
  PROVE  CacheOK(t) /\ t.c = s.c
<1>1. ~OneMissSafe(s.c) /\ (FillsAreSafe(s.c) => s.c.type = "SECTOR")
  BY SafeCases DEF OneMissSafe
<1>2. req.whole \in BOOLEAN
  BY ConfigsAssumption DEF CacheOK, TagsOK, TagTypes
<1>3. PICK r : r = tagAccess(s, get_block_addr(a), pick)
  OBVIOUS
<1>4. PICK u : u = ModifyReadable(r.s, r.idx, a, req.whole)
  OBVIOUS
<1>5. CacheOK(u) /\ u.c = s.c /\ IsWriteBack(r.wb)
  <2>1. Wrote(s.c, r, a, req.whole, u)
    BY <1>1, <1>4 DEF Wrote
  <2> QED
    BY <1>1, <1>2, <1>3, <2>1, WrittenOK
<1>6. CASE r.status = "RESERVATION_FAIL"
  <2>1. t = r.s
    BY <1>3, <1>6 DEF wr_miss_wa_lazy_fetch_on_read, writeLazily, Result
  <2> QED
    BY <1>1, <1>3, <2>1, AccessedOK
<1>7. CASE r.status # "RESERVATION_FAIL"
  <2>1. t = SendWriteBack(u, r.wb)
    BY <1>3, <1>4, <1>7 DEF wr_miss_wa_lazy_fetch_on_read, writeLazily, Result
  <2> QED
    BY <1>5, <2>1, WriteBackOK
<1> QED
  BY <1>6, <1>7

\* wr_miss_wa_fetch_on_write: written as a whole, or fetched.
LEMMA FetchOnWriteOK ==
  ASSUME NEW s, CacheOK(s), s.c.walloc = "FETCH_ON_WRITE", NEW a \in s.c.addrs,
         NEW req \in s.c.reqs, NEW pick \in Ways(s.c), probe(s, a) # "HIT",
         NEW t, t = wr_miss_wa_fetch_on_write(s, a, req, pick).s
  PROVE  CacheOK(t) /\ t.c = s.c
<1>1. ~OneMissSafe(s.c)
  BY SafeCases DEF OneMissSafe
<1>2. req.whole \in BOOLEAN
  BY ConfigsAssumption DEF CacheOK, TagsOK, TagTypes
<1>3. t = s \/ t = WriteWhole(s, a, pick).s \/ t = Fetch(s, a, req, pick).s
  BY <1>2 DEF wr_miss_wa_fetch_on_write, Result
<1> QED
  BY <1>1, <1>3, WriteWholeOK, FetchOK

\* The write miss of each policy.
LEMMA WriteMiss ==
  ASSUME NEW s, CacheOK(s), NEW a \in s.c.addrs, NEW req \in s.c.reqs, NEW pick \in Ways(s.c),
         probe(s, a) # "HIT", NEW t, t = wr_miss(s, a, req, pick).s
  PROVE  CacheOK(t) /\ t.c = s.c
<1>1. s.c.walloc \in {"NO_WRITE_ALLOCATE", "WRITE_ALLOCATE", "FETCH_ON_WRITE",
                     "LAZY_FETCH_ON_READ"} /\ a \in Place
  BY ConfigsAssumption, ConfigFacts DEF CacheOK, TagsOK, TagTypes
<1>2. CASE s.c.walloc = "NO_WRITE_ALLOCATE"
  <2>1. t = wr_miss_no_wa(s, a).s
    BY <1>2 DEF wr_miss
  <2> QED
    BY <1>1, <2>1, WriteMissSent
<1>3. CASE s.c.walloc = "WRITE_ALLOCATE"
  <2>1. t = wr_miss_wa_naive(s, a, req, pick).s
    BY <1>3 DEF wr_miss
  <2> QED
    BY <2>1, WriteMissNaive
<1>4. CASE s.c.walloc = "FETCH_ON_WRITE"
  <2>1. t = wr_miss_wa_fetch_on_write(s, a, req, pick).s
    BY <1>4 DEF wr_miss
  <2> QED
    BY <1>4, <2>1, FetchOnWriteOK
<1>5. CASE s.c.walloc = "LAZY_FETCH_ON_READ"
  <2>1. t = wr_miss_wa_lazy_fetch_on_read(s, a, req, pick).s
    BY <1>5 DEF wr_miss
  <2> QED
    BY <1>5, <2>1, WriteLazilyOK
<1> QED
  BY <1>1, <1>2, <1>3, <1>4, <1>5

\* A read hit touches its line.
LEMMA ReadHit ==
  ASSUME NEW s, CacheOK(s), NEW a \in Address(s.c), NEW i, HitLine(s, a, i),
         NEW t, t = rd_hit_base(s, i).s
  PROVE  CacheOK(t) /\ t.c = s.c
<1>1. TagsOK(s) /\ s.c \in Configs /\ i \in LinesOf(s.c, a)
  BY DEF CacheOK, TagsOK, TagTypes, HitLine
<1>2. i \in Lines(s.c)
  BY <1>1, LinesOfSet
<1>3. TouchKept(s, t)
  BY <1>1, <1>2, TouchKeeps DEF rd_hit_base, Result
<1> QED
  BY <1>3, TouchOK

\* A write back from above is no request of a cache with one miss at a time.
LEMMA ProcessOK ==
  ASSUME NEW s, CacheOK(s), s.c.write # "READ_ONLY", NEW a \in s.c.addrs, NEW req \in s.c.reqs,
         req.type # "WRITE_BACK", NEW pick \in Ways(s.c),
         NEW t, t = process_tag_probe(s, a, req, pick).s
  PROVE  CacheOK(t) /\ t.c = s.c
<1>1. req.type \in {"READ", "WRITE"} /\ a \in Address(s.c) /\ a \in Place /\ TagsOK(s)
  BY ConfigsAssumption, ConfigFacts DEF CacheOK, TagsOK, TagTypes
<1>2. CASE probe(s, a) = "HIT"
  <2>1. PICK i : i = Lowest(find_matching_way(s, a))
    OBVIOUS
  <2>2. HitLine(s, a, i)
    BY <1>1, <1>2, <2>1, HitFound
  <2>3. t = wr_hit(s, i, a, req).s \/ t = rd_hit_base(s, i).s
    BY <1>1, <1>2, <2>1 DEF process_tag_probe
  <2> QED
    BY <1>1, <2>2, <2>3, WriteHit, ReadHit
<1>3. CASE probe(s, a) # "HIT"
  <2>1. t = wr_miss(s, a, req, pick).s \/ t = s \/ t = Fetch(s, a, req, pick).s
    BY <1>1, <1>3 DEF process_tag_probe, rd_miss_base, Result
  <2> QED
    BY <1>3, <2>1, WriteMiss, FetchOK
<1> QED
  BY <1>2, <1>3

\* DataCache::access, the write backs of the level above included.
LEMMA DataAccessOK ==
  ASSUME NEW s, CacheOK(s), s.c.write # "READ_ONLY", NEW a \in s.c.addrs, NEW req \in s.c.reqs,
         NEW pick \in Ways(s.c), NEW t, t = dataAccess(s, a, req, pick).s
  PROVE  CacheOK(t) /\ t.c = s.c
<1>1. a \in Address(s.c) /\ TagsOK(s)
  BY ConfigFacts DEF CacheOK, TagsOK, TagTypes
<1>2. CASE req.type = "WRITE_BACK"
  <2>1. ~OneMissSafe(s.c)
    BY <1>2, SafeCases DEF OneMissSafe
  <2>2. t = fillAddr(s, a, pick)
    BY <1>2 DEF dataAccess, Result
  <2>3. TagsOK(t) /\ BooksKept(s, t) /\ Puts(s, t, a)
    BY <1>1, <2>2, FillAddrOK
  <2> QED
    BY <1>1, <2>1, <2>3, PutsOK
<1>3. CASE req.type # "WRITE_BACK"
  <2>1. PICK r : r = process_tag_probe(s, a, req, pick)
    OBVIOUS
  <2>2. PICK u : u = r.s
    OBVIOUS
  <2>3. CacheOK(u) /\ u.c = s.c
    BY <1>3, <2>1, <2>2, ProcessOK
  <2>4. t = use_data_port(u, r.status)
    BY <1>3, <2>1, <2>2 DEF dataAccess, usePort, Result
  <2>5. IsCache(u)
    BY <2>3 DEF CacheOK, TagsOK, TagTypes
  <2>6. TagsKept(u, t) /\ BooksKept(u, t)
    BY <2>4, <2>5, DataPortKeeps
  <2> QED
    BY <2>3, <2>6, BothKeptOK
<1> QED
  BY <1>2, <1>3

\* ReadOnlyCache::access
LEMMA ReadOnlyAccessOK ==
  ASSUME NEW s, CacheOK(s), NEW a \in s.c.addrs, NEW req \in s.c.reqs,
         NEW pick \in Ways(s.c), NEW t, t = readOnlyAccess(s, a, req, pick).s
  PROVE  CacheOK(t) /\ t.c = s.c
<1>1. CASE probe(s, a) = "HIT"
  <2>1. t = use_data_port(s, "HIT")
    BY <1>1 DEF readOnlyAccess, Result
  <2>2. IsCache(s)
    BY DEF CacheOK, TagsOK, TagTypes
  <2>3. TagsKept(s, t) /\ BooksKept(s, t)
    BY <2>1, <2>2, DataPortKeeps
  <2> QED
    BY <2>3, BothKeptOK
<1>2. CASE probe(s, a) = "RESERVATION_FAIL"
  BY <1>2 DEF readOnlyAccess, Result
<1>3. CASE probe(s, a) \notin {"HIT", "RESERVATION_FAIL"}
  <2>1. PICK r : r = send_read_request(s, a, req, pick)
    OBVIOUS
  <2>2. t = MissOrFail(r).s
    BY <1>3, <2>1 DEF readOnlyAccess
  <2>3. SentOK(s, r)
    BY <1>3, <2>1, SendReadOK
  <2> QED
    BY <2>2, <2>3, MissOrFailS DEF SentOK
<1> QED
  BY <1>1, <1>2, <1>3

\* An operation is counted.
LEMMA CountedOK ==
  ASSUME NEW s, CacheOK(s), NEW t, t = Count(s)
  PROVE  CacheOK(t) /\ t.c = s.c
<1>1. IsCache(s)
  BY DEF CacheOK, TagsOK, TagTypes
<1> QED
  BY <1>1, CountKeeps, BothKeptOK

(***************************************************************************)
(* The memory answers                                                       *)
(***************************************************************************)
\* A response finds its fill ready to go: no entry waits for another one.
LEMMA FillIsLast ==
  ASSUME NEW s, CacheOK(s), NEW i \in DOMAIN s.memory, NEW a, a = s.memory[i],
         NEW pick, NEW m, m = [s EXCEPT !.memory = RemoveAt(s.memory, i)]
  PROVE  /\ fill(m, a, pick) = use_fill_port(Forget(mark_ready(fillTags(m, a, pick), a), a))
         /\ TagsKept(s, m) /\ m.mshr = s.mshr /\ m.readyList = s.readyList /\ m.extra = s.extra
         /\ m.queue = s.queue /\ m.memory = RemoveAt(s.memory, i)
<1>1. PICK q : q = RemoveAt(s.memory, i)
  OBVIOUS
<1>2. IsCache(s)
  BY DEF CacheOK, TagsOK, TagTypes
<1>3. m = [s EXCEPT !.memory = q]
  BY <1>1
<1>4. /\ TagsKept(s, m) /\ m.mshr = s.mshr /\ m.readyList = s.readyList /\ m.extra = s.extra
      /\ m.queue = s.queue /\ m.memory = q
  BY <1>2, <1>3 DEF TagsKept, IsCache, Fields
<1>5. a \in DOMAIN m.extra => ~(m.extra[a].pending - 1 > 0)
  BY <1>4 DEF CacheOK, BooksOK, BookTypes
<1> QED
  BY <1>1, <1>4, <1>5 DEF fill

\* The tags take the data: with one miss at a time the line that was noted
\* waits for it.
LEMMA FillTagsOK ==
  ASSUME NEW s, TagsOK(s), LinesOK(s), NEW a \in s.c.addrs, a \in DOMAIN s.extra,
         s.extra[a].idx \in Lines(s.c), NEW pick \in Ways(s.c),
         NEW t, t = fillTags(s, a, pick)
  PROVE  TagsOK(t) /\ BooksKept(s, t) /\ (FillsAreSafe(s.c) => BlocksHeld(t))
<1>1. a \in Address(s.c) /\ s.c \in Configs /\ s.c.alloc \in {"ON_MISS", "ON_FILL"}
  BY ConfigFacts, ConfigsAssumption DEF TagsOK, TagTypes
<1>2. CASE s.c.alloc = "ON_FILL"
  <2>1. TagsOK(t) /\ BooksKept(s, t) /\ Puts(s, t, a)
    BY <1>1, <1>2, FillAddrOK DEF fillTags
  <2> QED
    BY <1>1, <2>1, HeldPuts DEF LinesOK, BooksKept
<1>3. CASE s.c.alloc = "ON_MISS"
  <2>1. PICK i : i = s.extra[a].idx
    OBVIOUS
  <2>2. t = fillIndex(s, i, a) /\ i \in Lines(s.c)
    BY <1>3, <2>1 DEF fillTags
  <2>3. /\ TagsOK(t) /\ BooksKept(s, t)
        /\ \/ i \notin LinesOf(s.c, a) \/ ~Matches(s, i, a.blk) \/ s.c.type # "NORMAL"
           \/ LinePut(s, t, i, a)
    BY <1>1, <2>2, FillIndexOK
  <2>4. ASSUME FillsAreSafe(s.c) PROVE BlocksHeld(t)
    <3>1. OneMissSafe(s.c) /\ s.c.type = "NORMAL" /\ BlocksHeld(s) /\ Noted(s)
      BY <1>3, <2>4, SafeCases DEF OneMissSafe, LinesOK
    <3>2. s.line[i].tag = a.blk /\ s.line[i].st[0] = "RESERVED"
      BY <2>1, <3>1 DEF Noted
    <3>3. 0 \in Sectors(s.c) /\ s.line[i].st \in [Sectors(s.c) -> BlockState]
      BY <1>1, <2>2, Geometry DEF TagsOK, TagTypes, Block
    <3>4. Matches(s, i, a.blk)
      BY <3>2, <3>3 DEF Matches, is_invalid
    <3>5. PICK b \in Address(s.c) : i \in LinesOf(s.c, b) /\ s.line[i].tag = b.blk
      BY <2>2, <3>1, <3>4 DEF BlocksHeld, Placed, Matches
    <3>6. i \in LinesOf(s.c, a)
      BY <3>2, <3>5, SameSet
    <3> QED
      BY <1>1, <2>3, <3>1, <3>4, <3>6, HeldPut DEF BooksKept
  <2> QED
    BY <2>3, <2>4
<1> QED
  BY <1>1, <1>2, <1>3

\* BaselineCache::fill: the tags take the data, the entry is ready.
LEMMA FillOK ==
  ASSUME NEW s, CacheOK(s), NEW i \in DOMAIN s.memory, NEW pick \in Ways(s.c),
         NEW t, t = fill([s EXCEPT !.memory = RemoveAt(s.memory, i)], s.memory[i], pick)
  PROVE  CacheOK(t) /\ t.c = s.c
<1>1. PICK a : a = s.memory[i]
  OBVIOUS
<1>2. PICK m : m = [s EXCEPT !.memory = RemoveAt(s.memory, i)]
  OBVIOUS
<1>3. PICK v : v = fillTags(m, a, pick)
  OBVIOUS
<1>4. TagsOK(s) /\ BooksOK(s) /\ LinesOK(s)
  BY DEF CacheOK
<1>5. /\ t = use_fill_port(Forget(mark_ready(v, a), a))
      /\ TagsKept(s, m) /\ m.mshr = s.mshr /\ m.readyList = s.readyList /\ m.extra = s.extra
      /\ m.queue = s.queue /\ m.memory = RemoveAt(s.memory, i)
  BY <1>1, <1>2, <1>3, FillIsLast
<1>6. TagsOK(m) /\ m.c = s.c /\ m.line = s.line
  BY <1>4, <1>5, KeptTags DEF TagsKept
<1>7. LinesOK(m)
  <2>1. FillsAreSafe(m.c) => BlocksHeld(m)
    BY <1>4, <1>6, HeldSame DEF LinesOK
  <2> QED
    BY <1>4, <1>5, <1>6, <2>1 DEF LinesOK, Noted, Single
<1>8. a \in m.c.addrs /\ a \in DOMAIN m.extra /\ a \in DOMAIN s.mshr
  <2>1. PICK q : q = RemoveAt(s.memory, i)
    OBVIOUS
  <2>2. a \in s.c.addrs /\ a \in Waiting(s) /\ a \in DOMAIN s.extra
    BY <1>1, <1>4, <2>1, AnswerWaits
  <2> QED
    BY <1>5, <1>6, <2>2 DEF Waiting
<1>9. m.extra[a].idx \in Lines(m.c) /\ pick \in Ways(m.c)
  BY <1>4, <1>5, <1>6, <1>8 DEF BooksOK, BookTypes
<1>10. TagsOK(v) /\ BooksKept(m, v) /\ (FillsAreSafe(m.c) => BlocksHeld(v))
  BY <1>3, <1>6, <1>7, <1>8, <1>9, FillTagsOK
<1>11. /\ IsCache(v) /\ v.c = s.c /\ v.mshr = s.mshr /\ v.readyList = s.readyList
       /\ v.extra = s.extra /\ v.queue = s.queue /\ v.memory = RemoveAt(s.memory, i)
  BY <1>5, <1>6, <1>10 DEF BooksKept, TagsOK, TagTypes
<1>12. /\ TagsKept(v, t) /\ BooksOK(t)
       /\ DOMAIN t.extra = DOMAIN s.extra \ {a} /\ DOMAIN t.mshr = DOMAIN s.mshr
  BY <1>1, <1>4, <1>5, <1>11, ReadyEntry
<1>13. TagsOK(t) /\ t.c = s.c /\ t.line = v.line
  BY <1>10, <1>11, <1>12, KeptTags DEF TagsKept
<1>14. FillsAreSafe(t.c) => BlocksHeld(t)
  BY <1>6, <1>10, <1>11, <1>13, HeldSame
<1>15. ASSUME OneMissSafe(t.c) PROVE Noted(t) /\ Single(t)
  <2>1. \A x, y \in DOMAIN s.mshr : x = y
    BY <1>4, <1>13, <1>15 DEF LinesOK, Single
  <2>2. DOMAIN s.extra \subseteq DOMAIN s.mshr
    BY <1>4 DEF BooksOK, BookCounts, Waiting
  <2>3. DOMAIN t.extra = {}
    BY <1>8, <1>12, <2>1, <2>2
  <2> QED
    BY <1>12, <2>1, <2>3 DEF Noted, Single
<1> QED
  BY <1>12, <1>13, <1>14, <1>15 DEF CacheOK, LinesOK

(***************************************************************************)
(* Flush and invalidate                                                     *)
(***************************************************************************)
\* flush and invalidate, which no cache with one miss at a time is sent.
LEMMA ClearedOK ==
  ASSUME NEW s, CacheOK(s), s.c.flushes, NEW t, t = flush(s) \/ t = invalidate(s)
  PROVE  CacheOK(t) /\ t.c = s.c
<1>1. TagsOK(s) /\ BooksOK(s) /\ LinesOK(s)
  BY DEF CacheOK
<1>2. TagsOK(t) /\ BooksKept(s, t) /\ Cleared(s, t)
  BY <1>1, FlushOK, InvalidateOK
<1>3. t.c = s.c /\ BooksOK(t)
  BY <1>1, <1>2, BooksSame DEF BooksKept
<1>4. ~OneMissSafe(s.c)
  BY SafeCases DEF OneMissSafe
<1>5. FillsAreSafe(t.c) => BlocksHeld(t)
  BY <1>1, <1>2, <1>3, HeldCleared DEF LinesOK
<1> QED
  BY <1>2, <1>3, <1>4, <1>5 DEF CacheOK, LinesOK

(***************************************************************************)
(* The initial cache                                                        *)
(***************************************************************************)
\* An empty cache holds nothing.
LEMMA InitTags ==
  ASSUME NEW c \in Configs, NEW s, s = InitCache(c)
  PROVE  TagsOK(s) /\ BlocksHeld(s)
<1>1. IsCache(s) /\ s.c = c /\ s.line = [i \in Lines(c) |-> EmptyLine(c)]
      /\ s.lru = ResetOrder(c) /\ s.fifo = ResetFifo(c) /\ s.dirty = 0
  BY DEF InitCache, IsCache, Fields
<1>2. EmptyLine(c) \in Block(c) /\ ~is_modified(EmptyLine(c)) /\ is_invalid(EmptyLine(c))
      /\ \A k \in Sectors(c) : EmptyLine(c).st[k] = "INVALID"
  BY DEF EmptyLine, Block, Tag, BlockState, is_modified, is_invalid
<1>3. s.line \in [Lines(s.c) -> Block(s.c)] /\ \A i \in Lines(c) : s.line[i] = EmptyLine(c)
  BY <1>1, <1>2
<1>4. CountModified(s) = 0
  <2>1. ModifiedLines(s.c, s.line) = {}
    BY <1>1, <1>2, <1>3 DEF ModifiedLines
  <2> QED
    BY <2>1, FS_EmptySet DEF CountModified
<1>5. TagsOK(s)
  BY <1>1, <1>3, <1>4, ResetTypes DEF TagsOK, TagTypes
<1>6. BlocksHeld(s)
  BY <1>1, <1>2, <1>3 DEF BlocksHeld, Placed, Apart, Held, HeldIn, Answers
<1> QED
  BY <1>5, <1>6

\* And awaits nothing.
LEMMA InitBooks ==
  ASSUME NEW c \in Configs, NEW s, s = InitCache(c)
  PROVE  BooksOK(s) /\ Noted(s) /\ Single(s)
<1>1. s.c = c /\ s.mshr = <<>> /\ s.readyList = <<>> /\ s.extra = <<>> /\ s.queue = <<>>
      /\ s.memory = <<>>
  BY DEF InitCache
<1>2. DOMAIN s.mshr = {} /\ DOMAIN s.extra = {} /\ Len(s.queue) = 0
  BY <1>1
<1>3. BookTypes(s)
  BY <1>1, <1>2, FS_EmptySet DEF BookTypes
<1>4. \A v : Times(<<>>, v) = 0
  BY TimesEmpty
<1>5. BookCounts(s)
  <2>1. Waiting(s) = {} /\ Readied(s) = {}
    BY <1>2 DEF Waiting, Readied
  <2>2. \A a \in s.c.addrs : Fetches(s, a) = 0 /\ Times(s.readyList, a) = 0
    BY <1>1, <1>4 DEF Fetches
  <2> QED
    BY <1>2, <2>1, <2>2 DEF BookCounts
<1> QED
  BY <1>2, <1>3, <1>5 DEF BooksOK, Noted, Single

(***************************************************************************)
(* The invariance theorem and what it gives                                 *)
(***************************************************************************)
OcInv == CacheOK(oc)

\* The caches begin with the invariant.
LEMMA CacheInit ==
  OcInit => OcInv
<1>1. ASSUME NEW c \in Configs, oc = InitCache(c) PROVE CacheOK(oc)
  <2>1. PICK s : s = InitCache(c)
    OBVIOUS
  <2>2. CacheOK(s)
    BY <2>1, InitTags, InitBooks DEF CacheOK, LinesOK
  <2> QED
    BY <1>1, <2>1, <2>2
<1> QED
  BY <1>1 DEF OcInit, OcInv

\* Every operation keeps it.
LEMMA CacheStep ==
  OcInv /\ [OcNext]_oc => OcInv'
<1> SUFFICES ASSUME CacheOK(oc), [OcNext]_oc PROVE CacheOK(oc')
  BY DEF OcInv
<1>1. Picks \subseteq Ways(oc.c) /\ oc.c \in Configs
  <2>1. oc.c \in Configs
    BY DEF CacheOK, TagsOK, TagTypes
  <2> QED
    BY <2>1, Geometry DEF Picks, Ways
<1>2. ASSUME NEW a \in oc.c.addrs, NEW req \in oc.c.reqs, Access(a, req)
      PROVE  CacheOK(oc')
  <2>1. PICK pick \in Picks :
          oc' = Count(IF oc.c.write = "READ_ONLY" THEN readOnlyAccess(oc, a, req, pick).s
                      ELSE dataAccess(oc, a, req, pick).s)
    BY <1>2 DEF Access
  <2>2. PICK u : u = IF oc.c.write = "READ_ONLY" THEN readOnlyAccess(oc, a, req, pick).s
                     ELSE dataAccess(oc, a, req, pick).s
    OBVIOUS
  <2>3. CacheOK(u)
    BY <1>1, <2>1, <2>2, ReadOnlyAccessOK, DataAccessOK
  <2> QED
    BY <2>1, <2>2, <2>3, CountedOK
<1>3. ASSUME NEW i \in DOMAIN oc.memory, Fill(i) PROVE CacheOK(oc')
  <2>1. PICK pick \in Picks :
          oc' = fill([oc EXCEPT !.memory = RemoveAt(oc.memory, i)], oc.memory[i], pick)
    BY <1>3 DEF Fill
  <2> QED
    BY <1>1, <2>1, FillOK
<1>4. CASE Cycle
  <2>1. PICK accepts \in BOOLEAN : oc' = cycle(oc, accepts)
    BY <1>4 DEF Cycle
  <2>2. TagsKept(oc, oc') /\ BooksOK(oc') /\ oc'.extra = oc.extra /\ oc'.mshr = oc.mshr
    BY <2>1, CycleOK DEF CacheOK
  <2> QED
    BY <2>2, TagsKeptOK
<1>5. CASE NextReady
  BY <1>5, NextReadyOK, TagsKeptOK DEF NextReady, CacheOK
<1>6. CASE Flush
  <2>1. PICK u : u = flush(oc)
    OBVIOUS
  <2>2. CacheOK(u) /\ oc' = Count(u)
    BY <1>6, <2>1, ClearedOK DEF Flush
  <2> QED
    BY <2>2, CountedOK
<1>7. CASE Invalidate
  <2>1. PICK u : u = invalidate(oc)
    OBVIOUS
  <2>2. CacheOK(u) /\ oc' = Count(u)
    BY <1>7, <2>1, ClearedOK DEF Invalidate
  <2> QED
    BY <2>2, CountedOK
<1>8. CASE UNCHANGED oc
  BY <1>8
<1> QED
  BY <1>2, <1>3, <1>4, <1>5, <1>6, <1>7, <1>8 DEF OcNext

(* Under every configuration and every order of accesses, fills, cycles,    *)
(* answers, flushes and invalidations the cache is CacheOK.                 *)
THEOREM CacheInvariance ==
  OcSpec => []OcInv
<1>1. OcInit => OcInv
  BY CacheInit
<1>2. OcInv /\ [OcNext]_oc => OcInv'
  BY CacheStep
<1> QED
  BY <1>1, <1>2, PTL DEF OcSpec

\* TagsOK gives DirtyNeverWraps.
LEMMA CountCovers ==
  OcInv => DirtyNeverWraps
<1>1. ASSUME OcInv
      PROVE  {i \in Lines(oc.c) : is_modified(oc.line[i])} = ModifiedLines(oc.c, oc.line)
  BY DEF ModifiedLines
<1> QED
  BY <1>1 DEF OcInv, CacheOK, TagsOK, CountModified, DirtyNeverWraps

\* BooksOK gives EveryMissFetched.
LEMMA BooksFetch ==
  OcInv => EveryMissFetched
<1> SUFFICES ASSUME BooksOK(oc) PROVE EveryMissFetched
  BY DEF OcInv, CacheOK
<1>1. DOMAIN oc.extra = {a \in DOMAIN oc.mshr : ~oc.mshr[a].ready}
  BY DEF BooksOK, BookCounts, Waiting
<1>2. ASSUME NEW a \in oc.c.addrs
      PROVE  /\ Cardinality(Occurrences(oc.queue, [kind |-> "fetch", addr |-> a]))
                  + Cardinality(Occurrences(oc.memory, a))
                = IF a \in {x \in DOMAIN oc.mshr : ~oc.mshr[x].ready} THEN 1 ELSE 0
             /\ Cardinality(Occurrences(oc.readyList, a))
                = IF a \in DOMAIN oc.mshr \ {x \in DOMAIN oc.mshr : ~oc.mshr[x].ready} THEN 1 ELSE 0
  BY DEF BooksOK, BookCounts, Fetches, Times, FetchOf, Waiting, Readied
<1> QED
  BY <1>1, <1>2 DEF EveryMissFetched

\* LinesOK gives LineHoldsItsBlock.
LEMMA LinesHoldBlocks ==
  OcInv => LineHoldsItsBlock
<1> SUFFICES ASSUME CacheOK(oc), FillsAreSafe(oc.c), NEW i \in Lines(oc.c)
             PROVE  /\ ~is_invalid(oc.line[i]) =>
                         find_matching_way(oc, [blk |-> oc.line[i].tag, sec |-> 0]) = {i}
                    /\ \A k \in Sectors(oc.c) :
                         Answers(oc, oc.line[i], k) => oc.line[i].data[k] = oc.line[i].tag
  BY DEF OcInv, LineHoldsItsBlock
<1>1. TagsOK(oc) /\ BlocksHeld(oc)
  BY DEF CacheOK, LinesOK
<1> QED
  BY <1>1, HeldGoal

(* m_dirty covers the modified lines: however evictions, write hits, write  *)
(* evicts, flushes and late fills follow one another, it never wraps.       *)
THEOREM DirtyCovered ==
  OcSpec => []DirtyNeverWraps
BY CacheInvariance, CountCovers, PTL

(* Every entry of the MSHR table that waits has one fetch under way and its *)
(* extra fields, every ready one is once on the ready list, and nothing     *)
(* else is fetched (send_read_request, cycle, fill, next_ready).            *)
THEOREM MissesFetched ==
  OcSpec => []EveryMissFetched
BY CacheInvariance, BooksFetch, PTL

(* Where fills go to the right line, a block is in one line of its set and  *)
(* what a read hits there is the data of that block.                        *)
THEOREM LinesHold ==
  OcSpec => []LineHoldsItsBlock
BY CacheInvariance, LinesHoldBlocks, PTL
=============================================================================
