---------------------------- MODULE Gem5TagStore ----------------------------
(* A gem5 tag store under the operations of its cache: accesses that hit or *)
(* that evict and insert, invalidations by snoops, and writes that change   *)
(* the compressed size of a block.  The configuration is chosen at the      *)
(* start, among the stores and policies of Gem5Tags and FaLru.              *)
EXTENDS Gem5Tags, FaLru

CONSTANTS Configs,   \* the configurations; c.keys are the keys accessed under it and
                     \* c.ops bounds the operations of a behaviour
          Sizes      \* the compressed sizes of a block

(* What the constructors of the stores and policies accept, where a policy  *)
(* and a partitioning go together: the tree and the dueling policies fail   *)
(* when candidates are filtered out (tree_plru_rp.cc:195, dueling_rp.cc:115) *)
(* and the stores with sectors never tell the partitions what they hold     *)
(* (sector_tags.cc:79 warns of it), so a capacity goes with BaseSetAssoc    *)
(* only.  Of the powers of two in FALRU, that each is twice the one before. *)
ASSUME ConfigsAssumption ==
  \A c \in Configs :
    /\ c.kind \in {"setassoc", "sector", "compressed", "falru"}
    /\ c.keys \subseteq [addr : Nat, secure : BOOLEAN]
    /\ {c.sets, c.ways, c.offs} \subseteq Nat \ {0}
    /\ c.kind = "falru" =>
         /\ c.tracked \in Nat
         /\ \A k \in 1..c.tracked : 2^(k + 1) = 2 * 2^k
    /\ c.kind # "falru" =>
         /\ c.pol \in PlainPolicies \cup {"Dueling"}
         /\ c.parts \subseteq {"max", "way"}
         /\ c.pol \in {"TreePLRU", "Dueling"} => c.parts = {}
         /\ IF c.kind = "setassoc" THEN c.offs = 1 ELSE "max" \notin c.parts

ASSUME PartitionsAssumption ==
  /\ PartIds # {} /\ PartIds \subseteq Nat
  /\ Capacity \in [PartIds -> Nat \cup {Absent}]

VARIABLES tags,      \* the store: a record of Gem5Tags or of FaLru
          now,       \* curTick()
          ops,       \* the operations so far
          hist       \* what the accesses were, kept apart from the policies
tvars == <<tags, now, ops, hist>>

IsFaLru == tags.c.kind = "falru"
Units(c) == IF c.kind = "falru" THEN 1..2^(c.tracked + 1) ELSE Entries(c)

\* Of an entry: the tick and the number of its last use, the number of its
\* insertion and its uses since; of a set: its last replacement; and the
\* misses of one team of sample sets in a row.
NoHist == [use |-> 0, op |-> 0, ins |-> 0, n |-> 0]

TSInit ==
  /\ \E c \in Configs :
       /\ tags = IF c.kind = "falru" THEN faInit(c) ELSE tagsInit(c)
       /\ hist = [e |-> [u \in Units(c) |-> NoHist],
                  search |-> [s \in 0..c.sets - 1 |-> 0],
                  streak |-> [team |-> "none", n |-> 0]]
  /\ now = 1 /\ ops = 0

\* Several operations may fall into one tick; only these policies read it.
Tick == /\ now' \in IF tags.c.pol \in {"LRU", "WeightedLRU", "MRU", "BIP"} THEN {now, now + 1} ELSE {now}
        /\ ops < tags.c.ops /\ ops' = ops + 1

Used(h)     == [h EXCEPT !.use = now', !.op = ops', !.n = @ + 1]
Inserted(h) == [use |-> now', op |-> ops', ins |-> ops', n |-> 1]

Draws == IF tags.c.pol \in {"BIP", "BRRIP", "SHiP"} THEN BOOLEAN ELSE {TRUE}
SizesOf == IF tags.c.kind = "compressed" THEN Sizes ELSE {BlkBits}
PartsOf == IF tags.c.parts = {} THEN {CHOOSE p \in PartIds : TRUE} ELSE PartIds

Hit(key) ==
  /\ Tick /\ ~IsFaLru
  /\ LET f == findBlock(tags, key) IN
     /\ f # NoFrame
     /\ tags' = accessBlock(tags, f, key, now')
     /\ hist' = [hist EXCEPT !.e[entryOf(f)] = Used(@)]

\* A write hit under a compressor: the block may grow or shrink.
Overwrite(key, size) ==
  /\ Tick /\ tags.c.kind = "compressed"
  /\ LET f == findBlock(tags, key) IN
     /\ f # NoFrame
     /\ tags' = updateCompressionData(accessBlock(tags, f, key, now'), f, size)
     /\ hist' = [hist EXCEPT !.e[entryOf(f)] = Used(@)]

\* A miss that allocates, or finds no victim in its partition.
Miss(key, part, size, rnd) ==
  /\ Tick /\ ~IsFaLru
  /\ findBlock(tags, key) = NoFrame
  /\ tags' \in allocateBlock(tags, key, part, size, now', rnd)
  /\ LET f == findBlock(tags', key)
         e == entryOf(f)
         s == extractSet(tags.c, key.addr)
         fresh == ~Sectored(tags) \/ tags'.sec[e].count = 1
         team == IF tags.c.pol = "Dueling" THEN teamOf(tags.rp, e) ELSE "none"
     IN  IF f = NoFrame THEN UNCHANGED hist
         ELSE hist' = [hist EXCEPT
                !.e[e] = IF fresh THEN Inserted(@) ELSE Used(@),
                !.search[s] = ops',
                !.streak = IF team = "none" THEN @
                           ELSE [team |-> team, n |-> IF @.team = team THEN @.n + 1 ELSE 1]]

Invalidate(f) ==
  /\ Tick /\ ~IsFaLru
  /\ tags.blk[f].valid
  /\ tags' = invalidate(tags, f)
  /\ UNCHANGED hist

FaHit(key) ==
  /\ Tick /\ IsFaLru
  /\ LET b == faFindBlock(tags, key) IN
     /\ b # nullptr
     /\ tags' = faAccessBlock(tags, b)
     /\ hist' = [hist EXCEPT !.e[b] = Used(@)]

FaMiss(key) ==
  /\ Tick /\ IsFaLru
  /\ faFindBlock(tags, key) = nullptr
  /\ tags' = faAllocateBlock(tags, key)
  /\ hist' = [hist EXCEPT !.e[tags.tail] = Inserted(@)]

FaInvalidate(b) ==
  /\ Tick /\ IsFaLru
  /\ tags.blk[b].valid
  /\ tags' = faInvalidate(tags, b)
  /\ UNCHANGED hist

TSNext ==
  \/ \E key \in tags.c.keys :
       \/ Hit(key) \/ FaHit(key) \/ FaMiss(key)
       \/ \E size \in SizesOf :
            \/ Overwrite(key, size)
            \/ \E part \in PartsOf, rnd \in Draws : Miss(key, part, size, rnd)
  \/ \E f \in DOMAIN tags.blk : Invalidate(f) \/ FaInvalidate(f)

TSSpec == TSInit /\ [][TSNext]_tvars

(***************************************************************************)
(* Properties                                                               *)
(***************************************************************************)

(* No assertion and no panic of the tag stores fires: blocks are inserted   *)
(* into invalid frames and invalidated when valid, a valid sector is never  *)
(* overwritten ("Overwriting valid sector!"), tagsInUse stays within the    *)
(* number of sectors, no partition acquires past or releases below its      *)
(* count, a key leaves FALRU's hash exactly once and a block enters the     *)
(* list from outside every tracked cache.                                   *)
TagsAssertionsHold == ~tags.bad

FrameKey(f) == [addr |-> regenerateAddr(tags.c, f, getTag(tags, f)),
                secure |-> tags.blk[f].secure]

(* Every valid block is found by findBlock under the address that           *)
(* regenerateBlkAddr gives for it, so no address is cached twice and every  *)
(* writeback carries the address that was inserted.                         *)
OneCopy ==
  IF IsFaLru
  THEN \A b \in FaBlocks(tags) : tags.blk[b].valid => faFindBlock(tags, keyOf(tags, b)) = b
  ELSE \A f \in Frames(tags.c) : tags.blk[f].valid => findBlock(tags, FrameKey(f)) = f

(* The counters that are kept on the side agree with the blocks: tagsInUse, *)
(* the valid counter and the tag of each sector, the blocks that a          *)
(* partition is charged for, and the keys of FALRU's hash.                  *)
CountsExact ==
  IF IsFaLru
  THEN LET valid == {b \in FaBlocks(tags) : tags.blk[b].valid} IN
       /\ tags.inUse = Cardinality(valid)
       /\ DOMAIN tags.tagHash = {keyOf(tags, b) : b \in valid}
  ELSE /\ tags.inUse = Cardinality({e \in Entries(tags.c) : entryValid(tags, e)})
       /\ Sectored(tags) => \A e \in Entries(tags.c) :
            /\ tags.sec[e].count = Cardinality(ValidIn(tags, e))
            /\ \A f \in ValidIn(tags, e) : /\ tags.blk[f].tag = tags.sec[e].tag
                                           /\ tags.blk[f].secure = tags.sec[e].secure
       /\ "max" \in tags.c.parts => \A p \in PartIds :
            orZero(tags.cur[p]) =
              Cardinality({f \in Frames(tags.c) : tags.blk[f].valid /\ tags.blk[f].part = p})

(* A policed partition never holds more blocks than its capacity, and never *)
(* a block in a way that is not its own, whatever the other partitions do   *)
(* (filterByPartition with notifyAcquire and notifyRelease).                *)
PartitionsKept ==
  ~IsFaLru =>
    LET held(p) == {f \in Frames(tags.c) : tags.blk[f].valid /\ tags.blk[f].part = p} IN
    /\ "max" \in tags.c.parts =>
         \A p \in PartIds : Capacity[p] > 0 => Cardinality(held(p)) <= Capacity[p]
    /\ "way" \in tags.c.parts =>
         \A p \in DOMAIN WaysOf : \A f \in held(p) : f[2] \in WaysOf[p]

(* The blocks that share a superblock fit into the frame of one             *)
(* uncompressed block (co-allocation, expansion and contraction).           *)
FitsFrame ==
  tags.c.kind = "compressed" =>
    \A e \in Entries(tags.c) :
      tags.sec[e].count > 1 =>
        MapThenSumSet(LAMBDA f : tags.blk[f].size, ValidIn(tags, e)) <= BlkBits

(***************************************************************************)
(* What the policies promise, in terms of the accesses.                     *)
(***************************************************************************)
\* The policy that decides in a set: its own for a sample set, and for the
\* others that of the team that has not just missed time after time.
DecidingPolicy(s) ==
  IF tags.c.pol # "Dueling" THEN tags.c.pol
  ELSE CASE teamOf(tags.rp, <<s, 0>>) = "A" -> "LRU"
         [] teamOf(tags.rp, <<s, 0>>) = "B" -> "MRU"
         [] hist.streak.n < 2^(SelectorBits - 1) -> "either"
         [] hist.streak.team = "B" -> "LRU"
         [] hist.streak.team = "A" -> "MRU"

Promise(pol, s, cs, v) ==
  LET h(e) == hist.e[e]
      all(P(_)) == \A e \in Members(cs) : P(e)
      usedAgain(e) == h(e).n > 1
  IN  CASE pol \in {"LRU", "WeightedLRU"} -> all(LAMBDA e : h(v).use <= h(e).use)
        [] pol = "MRU"      -> all(LAMBDA e : h(v).use >= h(e).use)
        [] pol = "FIFO"     -> all(LAMBDA e : h(v).ins <= h(e).ins)
        [] pol = "LFU"      -> all(LAMBDA e : h(v).n <= h(e).n)
        [] pol = "BIP"      -> usedAgain(v) => all(LAMBDA e : h(v).use <= h(e).use)
        [] pol \in {"SecondChance", "BRRIP", "SHiP"} ->
             usedAgain(v) /\ h(v).op > hist.search[s] => all(usedAgain)
        [] pol = "TreePLRU" ->
             2^Cardinality({e \in Members(cs) : h(e).op > h(v).op}) >= Len(cs)
        [] OTHER -> TRUE

(* The victim is the one its policy's name promises, judged by the accesses *)
(* themselves and not by the ticks, counters, trees and queues the policy   *)
(* keeps.  An entry that holds nothing is taken before any other (all but   *)
(* the PLRU tree).  Otherwise LRU takes the least recently used, MRU the    *)
(* most recently used, FIFO the first inserted, LFU the least often used;   *)
(* BIP takes a block that was used again only when it is the least recently *)
(* used; SecondChance, BRRIP and SHiP take a block used again since the     *)
(* last replacement only when all blocks were used again; the PLRU tree     *)
(* takes none of the log2(ways) most recently used; and set dueling follows *)
(* the team that misses less.                                               *)
VictimAsPromised ==
  ~IsFaLru =>
    \A s \in 0..tags.c.sets - 1, p \in PartsOf :
      LET cs == filterByPartition(tags, [w \in 1..tags.c.ways |-> <<s, w - 1>>], p) IN
      cs # <<>> =>
        \A x \in getVictim(tags.rp, cs) :
          IF \E e \in Members(cs) : ~entryValid(tags, e)
          THEN tags.c.pol = "TreePLRU" \/ ~entryValid(tags, x.v)
          ELSE Promise(DecidingPolicy(s), s, cs, x.v)

(* FALRU's list holds every block once, linked both ways, valid blocks from *)
(* the most to the least recently used and the invalid ones behind them;    *)
(* inCachesMask and the boundaries of the tracked cache sizes are those of  *)
(* the positions in the list (CacheTracking::check, which is compiled out). *)
FaLruTracked ==
  IsFaLru =>
    LET N == Cardinality(FaBlocks(tags))
        at[i \in 1..N] == IF i = 1 THEN tags.head
                          ELSE IF at[i - 1] = nullptr THEN nullptr ELSE tags.next[at[i - 1]]
    IN  /\ {at[i] : i \in 1..N} = FaBlocks(tags) /\ at[N] = tags.tail
        /\ tags.next[tags.tail] = nullptr /\ tags.prev[tags.head] = nullptr
        /\ \A i \in 2..N :
             /\ tags.prev[at[i]] = at[i - 1]
             /\ tags.blk[at[i]].valid =>
                  tags.blk[at[i - 1]].valid /\ hist.e[at[i - 1]].op > hist.e[at[i]].op
        /\ \A i \in 1..N : tags.mask[at[i]] = {k \in Tracked(tags) : i <= 2^(k + 1)}
        /\ \A k \in Tracked(tags) : tags.boundaries[k] = at[2^(k + 1)]
=============================================================================
