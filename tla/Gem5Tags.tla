------------------------------ MODULE Gem5Tags ------------------------------
(* The tag stores of gem5_cache/src/mem/cache/tags/ that are indexed by     *)
(* set: BaseSetAssoc, SectorTags and CompressedTags, with the partitioning  *)
(* policies that narrow the choice of a victim.                             *)
(*                                                                         *)
(* A store is one record t.  t.c is its configuration: the kind of store,   *)
(* sets, ways, offs (blocks of a sector, 1 when there are no sectors), the  *)
(* replacement policy and the set of partitioning policies.  An entry       *)
(* <<set, way>> is what the policies choose among: a block, or a sector;    *)
(* a frame <<set, way, offset>> holds a block.  t.bad records that an       *)
(* assertion or a panic of the code has fired.                              *)
EXTENDS ReplacementPolicies, SequencesExt, FiniteSetsExt

CONSTANTS PartIds,      \* the partitions packets may carry
          Capacity,     \* blocks of a partition under MaxCapacity, Absent if not policed
          WaysOf,       \* ways of the partitions that WayPartitioning polices
          BlkBits       \* the size of an uncompressed block

Absent  == -1           \* a key that a std::map does not hold
MaxAddr == -1           \* the tag of an invalid entry
NoFrame == <<>>         \* nullptr

entryOf(f)   == <<f[1], f[2]>>
Frames(c)    == (0..c.sets - 1) \X (0..c.ways - 1) \X (0..c.offs - 1)
Entries(c)   == (0..c.sets - 1) \X (0..c.ways - 1)
FramesIn(c, e) == {<<e[1], e[2], o>> : o \in 0..c.offs - 1}

(***************************************************************************)
(* TaggedSetAssociative, over block numbers.                                *)
(***************************************************************************)
extractSectorOffset(c, addr) == addr % c.offs
extractSet(c, addr) == (addr \div c.offs) % c.sets
extractTag(c, addr) == (addr \div c.offs) \div c.sets
\* Faulty variant: the address of the sector instead of the block.
regenerateAddrOfSector(c, f, tag) == (tag * c.sets + f[1]) * c.offs

regenerateAddr(c, f, tag) == (tag * c.sets + f[1]) * c.offs + f[3]
getPossibleEntries(c, key) == [w \in 1..c.ways |-> <<extractSet(c, key.addr), w - 1>>]

(***************************************************************************)
(* Blocks and sectors: TaggedEntry, CacheBlk, SectorBlk, SuperBlk.          *)
(***************************************************************************)
NoBlk    == [valid |-> FALSE, tag |-> MaxAddr, secure |-> FALSE, part |-> Absent,
             size |-> 0, compressed |-> FALSE]
NoSector == [tag |-> MaxAddr, secure |-> FALSE, count |-> 0, cf |-> 1]

Sectored(t) == t.c.kind \in {"sector", "compressed"}

tagsInit(c) ==
  [c |-> c, blk |-> [f \in Frames(c) |-> NoBlk], sec |-> [e \in Entries(c) |-> NoSector],
   rp |-> IF c.pol = "Dueling" THEN duelingInit("LRU", "MRU", c.sets, c.ways)
          ELSE policyInit(c.pol, c.sets, c.ways),
   inUse |-> 0, cur |-> [p \in PartIds |-> Absent], max |-> Capacity, bad |-> FALSE]

sectorMatch(t, e, key) ==
  /\ t.sec[e].count > 0
  /\ t.sec[e].tag = extractTag(t.c, key.addr)
  /\ t.sec[e].secure = key.secure

getTag(t, f) == IF Sectored(t) THEN t.sec[entryOf(f)].tag ELSE t.blk[f].tag

match(t, f, key) ==
  /\ t.blk[f].valid
  /\ getTag(t, f) = extractTag(t.c, key.addr)
  /\ t.blk[f].secure = key.secure

entryValid(t, e) == IF Sectored(t) THEN t.sec[e].count > 0 ELSE t.blk[<<e[1], e[2], 0>>].valid

\* SectorSubBlk::insert takes the tag for an empty sector and panics when the
\* sector holds another one; the counter of the sector goes up.
blkInsert(t, f, key, part) ==
  LET e   == entryOf(f)
      tag == extractTag(t.c, key.addr)
      t1  == [t EXCEPT !.blk[f] = [NoBlk EXCEPT !.valid = TRUE, !.tag = tag,
                                                !.secure = key.secure, !.part = part],
                       !.bad = @ \/ t.blk[f].valid]
  IN  IF ~Sectored(t) THEN t1
      ELSE [t1 EXCEPT !.bad = @ \/ (t.sec[e].count > 0 /\ ~sectorMatch(t, e, key)),
                      !.sec[e].tag    = IF t.sec[e].count = 0 THEN tag ELSE @,
                      !.sec[e].secure = IF t.sec[e].count = 0 THEN key.secure ELSE @,
                      !.sec[e].count  = @ + 1]

\* The last block of a sector takes the sector's tag with it.
blkInvalidate(t, f) ==
  LET e == entryOf(f) IN
  [t EXCEPT !.blk[f] = NoBlk,
            !.bad = @ \/ ~t.blk[f].valid,
            !.sec[e] = IF ~Sectored(t) THEN @
                       ELSE IF @.count = 1 THEN NoSector
                       ELSE [@ EXCEPT !.count = t.sec[e].count - 1]]

(***************************************************************************)
(* Partitioning: PartitionManager over MaxCapacity and WayPartitioning.     *)
(***************************************************************************)
atCapacity(t, id) ==
  t.max[id] # Absent /\ t.cur[id] # Absent /\ t.cur[id] >= t.max[id]

\* remove_if and erase: the candidates at the places I are left, in their order.
Left(cs, I) ==
  LET upTo[n \in 0..Len(cs)] == IF n = 0 THEN <<>>
                                ELSE IF n \in I THEN Append(upTo[n - 1], cs[n]) ELSE upTo[n - 1]
  IN  upTo[Len(cs)]

\* Faulty variant: a partition at its limit may still take a block of another.
filterByCapacityLate(t, cs, id) ==
  IF "max" \notin t.c.parts \/ ~(atCapacity(t, id) /\ t.cur[id] > t.max[id]) THEN cs
  ELSE Left(cs, {i \in DOMAIN cs : t.blk[<<cs[i][1], cs[i][2], 0>>].part = id})

filterByCapacity(t, cs, id) ==
  IF "max" \notin t.c.parts \/ ~atCapacity(t, id) THEN cs
  ELSE Left(cs, {i \in DOMAIN cs : t.blk[<<cs[i][1], cs[i][2], 0>>].part = id})

filterByWay(t, cs, id) ==
  IF "way" \notin t.c.parts \/ id \notin DOMAIN WaysOf THEN cs
  ELSE Left(cs, {i \in DOMAIN cs : cs[i][2] \in WaysOf[id]})

filterByPartition(t, cs, id) == filterByWay(t, filterByCapacity(t, cs, id), id)

\* operator[] of the two maps creates the missing counts, with the value 0.
orZero(n) == IF n = Absent THEN 0 ELSE n

notifyAcquire(t, id) ==
  IF "max" \notin t.c.parts THEN t
  ELSE [t EXCEPT !.max[id] = orZero(@), !.cur[id] = orZero(@) + 1,
                 !.bad = @ \/ orZero(t.cur[id]) > orZero(t.max[id])]

notifyRelease(t, id) ==
  IF "max" \notin t.c.parts THEN t
  ELSE [t EXCEPT !.cur[id] = orZero(@) - 1, !.bad = @ \/ orZero(t.cur[id]) <= 0]

(***************************************************************************)
(* findBlock, accessBlock, invalidate, insertBlock.                         *)
(***************************************************************************)
findBlock(t, key) ==
  LET hits == {f \in Frames(t.c) : /\ f[1] = extractSet(t.c, key.addr)
                                   /\ f[3] = extractSectorOffset(t.c, key.addr)
                                   /\ match(t, f, key)}
  IN  IF hits = {} THEN NoFrame ELSE CHOOSE f \in hits : \A g \in hits : f[2] <= g[2]

Sig(key) == key.addr % ShctSize

accessBlock(t, f, key, now) == [t EXCEPT !.rp = rpTouch(@, entryOf(f), now, Sig(key))]

\* Faulty variant: the partition is not told that its block is gone.
setAssocInvalidateNoRelease(t, f) ==
  LET t1 == blkInvalidate(t, f) IN
  [t1 EXCEPT !.inUse = @ - 1, !.rp = rpInvalidate(@, entryOf(f))]

setAssocInvalidate(t, f) ==
  LET t1 == blkInvalidate(notifyRelease(t, t.blk[f].part), f) IN
  [t1 EXCEPT !.inUse = @ - 1, !.rp = rpInvalidate(@, entryOf(f))]

sectorInvalidate(t, f) ==
  LET t1 == blkInvalidate(t, f) IN
  IF t1.sec[entryOf(f)].count > 0 THEN t1
  ELSE [t1 EXCEPT !.inUse = @ - 1, !.bad = @ \/ t1.inUse - 1 < 0,
                  !.rp = rpInvalidate(@, entryOf(f))]

invalidate(t, f) == IF Sectored(t) THEN sectorInvalidate(t, f) ELSE setAssocInvalidate(t, f)

setAssocInsert(t, f, key, part, now, rnd) ==
  LET t1 == notifyAcquire(blkInsert(t, f, key, part), part) IN
  [t1 EXCEPT !.inUse = @ + 1, !.rp = rpReset(@, entryOf(f), now, Sig(key), rnd)]

sectorInsert(t, f, key, part, now, rnd) ==
  LET e == entryOf(f) IN
  blkInsert(IF t.sec[e].count > 0
            THEN [t EXCEPT !.rp = rpTouch(@, e, now, Sig(key))]
            ELSE [t EXCEPT !.inUse = @ + 1, !.bad = @ \/ t.inUse + 1 > t.c.sets * t.c.ways,
                           !.rp = rpReset(@, e, now, Sig(key), rnd)],
            f, key, part)

insertBlock(t, f, key, part, now, rnd) ==
  IF Sectored(t) THEN sectorInsert(t, f, key, part, now, rnd)
  ELSE setAssocInsert(t, f, key, part, now, rnd)

(***************************************************************************)
(* findVictim: the possible choices, each with the frame (or NoFrame), the  *)
(* blocks to evict and the policy after its search.                         *)
(***************************************************************************)
Choice(f, evict, rp, bad) == [f |-> f, evict |-> evict, rp |-> rp, bad |-> bad]
ValidIn(t, e) == {f \in FramesIn(t.c, e) : t.blk[f].valid}
First(cs, test(_)) == cs[CHOOSE i \in DOMAIN cs : test(cs[i]) /\ \A j \in 1..i - 1 : ~test(cs[j])]

setAssocVictim(t, cs) ==
  {Choice(<<x.v[1], x.v[2], 0>>, {<<x.v[1], x.v[2], 0>>}, x.R, FALSE) : x \in getVictim(t.rp, cs)}

\* A sector of the address's tag takes the block into its place for it; another
\* sector is emptied first.
sectorVictim(t, cs, key) ==
  LET o    == extractSectorOffset(t.c, key.addr)
      m(e) == sectorMatch(t, e, key)
      at(e) == <<e[1], e[2], o>>
  IN  IF \E e \in Members(cs) : m(e)
      THEN {Choice(at(First(cs, m)), {}, t.rp, t.blk[at(First(cs, m))].valid)}
      ELSE {Choice(at(x.v), ValidIn(t, x.v), x.R, FALSE) : x \in getVictim(t.rp, cs)}

(* CompressedTags: a compressed superblock of the address's tag takes the   *)
(* block when there is room for it.                                         *)
blocksPerSector(t) == t.c.offs
alignToPowerOfTwo(n) == CHOOSE p \in {2^k : k \in 0..n} : p >= n /\ \A k \in 0..n : 2^k >= n => p <= 2^k

calculateCompressionFactor(t, size) ==
  Min({IF size > BlkBits THEN 1
       ELSE IF size = 0 THEN BlkBits ELSE alignToPowerOfTwo(BlkBits \div size),
       blocksPerSector(t)})

\* The state of the first valid block that is not ignored stands for all.
isCompressed(t, e, ignored) ==
  LET others == ValidIn(t, e) \ {ignored} IN
  others = {} \/ t.blk[CHOOSE f \in others : \A g \in others : f[3] <= g[3]].compressed

\* Faulty variant: a block is co-allocated while there is a free place,
\* whatever its size.
canCoAllocateAnySize(t, e, size) == t.sec[e].count < t.sec[e].cf

canCoAllocate(t, e, size) ==
  t.sec[e].count < t.sec[e].cf /\ size <= BlkBits \div t.sec[e].cf

compressedVictim(t, cs, key, size) ==
  LET o     == extractSectorOffset(t.c, key.addr)
      at(e) == <<e[1], e[2], o>>
      co(e) == /\ sectorMatch(t, e, key) /\ ~t.blk[at(e)].valid
               /\ isCompressed(t, e, NoFrame) /\ canCoAllocate(t, e, size)
  IN  IF \E e \in Members(cs) : co(e)
      THEN {Choice(at(First(cs, co)), {}, t.rp, FALSE)}
      ELSE {Choice(at(x.v), ValidIn(t, x.v), x.R, FALSE) : x \in getVictim(t.rp, cs)}

findVictim(t, key, size, part) ==
  LET cs == filterByPartition(t, getPossibleEntries(t.c, key), part) IN
  IF cs = <<>> THEN {Choice(NoFrame, {}, t.rp, FALSE)}
  ELSE CASE t.c.kind = "setassoc"   -> setAssocVictim(t, cs)
         [] t.c.kind = "sector"     -> sectorVictim(t, cs, key)
         [] t.c.kind = "compressed" -> compressedVictim(t, cs, key, size)

(***************************************************************************)
(* CompressionBlk::setSizeBits: a block alone in its superblock sets the    *)
(* compression factor; one of several takes the state of the others.        *)
(***************************************************************************)
setSizeBits(t, f, size) ==
  LET e     == entryOf(f)
      cf    == calculateCompressionFactor(t, size)
      alone == t.sec[e].count <= 1
  IN  IF t.c.kind # "compressed" THEN t
      ELSE [t EXCEPT !.blk[f].size = size,
                     !.blk[f].compressed = IF alone THEN cf # 1 ELSE isCompressed(t, e, f),
                     !.sec[e].cf = IF alone THEN cf ELSE @,
                     !.bad = @ \/ t.sec[e].count < 1]

(***************************************************************************)
(* What BaseCache does with a store.                                        *)
(***************************************************************************)
handleEvictions(t, frames) == FoldSet(LAMBDA f, u : IF u.blk[f].valid THEN invalidate(u, f) ELSE u,
                                      t, frames)

\* allocateBlock without a victim leaves the store alone (the block goes to
\* tempBlock).
allocateBlock(t, key, part, size, now, rnd) ==
  {IF x.f = NoFrame THEN t
   ELSE setSizeBits(
          insertBlock(handleEvictions([t EXCEPT !.rp = x.rp, !.bad = @ \/ x.bad], x.evict),
                      x.f, key, part, now, rnd),
          x.f, size)
   : x \in findVictim(t, key, size, part)}

checkExpansionContraction(t, f, size) ==
  LET prev == t.sec[entryOf(f)].cf  new == calculateCompressionFactor(t, size) IN
  IF new < prev THEN "expansion" ELSE IF new > prev THEN "contraction" ELSE "unchanged"

\* With replace_expansions and move_contractions off, an expanding block
\* stays where it is and the blocks beside it are evicted.
updateCompressionData(t, f, size) ==
  setSizeBits(IF checkExpansionContraction(t, f, size) = "expansion"
              THEN handleEvictions(t, ValidIn(t, entryOf(f)) \ {f}) ELSE t,
              f, size)
=============================================================================
