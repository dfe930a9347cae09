----------------------------- MODULE OpenCache -----------------------------
(* The standalone cache of deprecated/src: TagArray, MSHRTable and the      *)
(* ReadOnlyCache and DataCache built on BaselineCache.                      *)
(*                                                                         *)
(* A cache is one record s.  An address is a block and a sector of it; a    *)
(* NORMAL cache has one sector per line.  Of a block the model keeps the    *)
(* states of the sectors, their readable flags and, as a ghost, whose data  *)
(* each sector holds.  set_modified_on_fill, set_readable_on_fill and       *)
(* set_byte_mask_on_fill are never set and ignore_on_fill is never read, so *)
(* a fill always leaves a sector VALID.  A request tells its type, whether  *)
(* it writes a whole atom and whether it is global.                         *)
EXTENDS Integers, Sequences, FiniteSets, SequencesExt

CONSTANTS Configs,   \* the configurations of the cache
          NoData     \* a sector whose data has not arrived

ASSUME ConfigsAssumption ==
  \A c \in Configs :
    /\ c.sets \in Nat \ {0} /\ c.ways \in Nat \ {0} /\ c.secs \in Nat \ {0}
    /\ c.type = "NORMAL" => c.secs = 1
    /\ \A a \in c.addrs : /\ a \in [blk : Nat, sec : 0..c.secs - 1]
                           /\ c.setOf[a.blk] \in 0..c.sets - 1
    /\ \A r \in c.reqs : r.type \in {"READ", "WRITE", "WRITE_BACK"} /\ r.whole \in BOOLEAN
    /\ c.write \in {"READ_ONLY", "WRITE_BACK", "WRITE_THROUGH", "WRITE_EVICT",
                    "LOCAL_WB_GLOBAL_WT"}
    /\ c.walloc \in {"NO_WRITE_ALLOCATE", "WRITE_ALLOCATE", "FETCH_ON_WRITE",
                     "LAZY_FETCH_ON_READ"}
    /\ c.alloc \in {"ON_MISS", "ON_FILL"}
ASSUME NoDataAssumption == NoData \notin Nat

VARIABLE oc          \* the cache, its memory port and the accesses so far

(***************************************************************************)
(* CacheConfig                                                              *)
(***************************************************************************)
Sectors(c) == 0..c.secs - 1
Lines(c)   == 0..c.sets * c.ways - 1

get_set_index(c, a)  == c.setOf[a.blk]     \* hash_addr, see SetIndex
get_block_addr(a) == [a EXCEPT !.sec = 0]
LinesOf(c, a) == LET i == get_set_index(c, a) IN i * c.ways .. (i + 1) * c.ways - 1

(***************************************************************************)
(* CacheBlock                                                               *)
(***************************************************************************)
EmptyLine(c) == [tag |-> -1, st |-> [i \in Sectors(c) |-> "INVALID"],
                 readable |-> [i \in Sectors(c) |-> TRUE],
                 data |-> [i \in Sectors(c) |-> NoData]]

is_invalid(l)  == \A i \in DOMAIN l.st : l.st[i] = "INVALID"
is_modified(l) == \E i \in DOMAIN l.st : l.st[i] = "MODIFIED"

\* LineCacheBlock keeps the readable flag of the block it replaces;
\* SectorCacheBlock starts again.
allocateLine(l, a) == [l EXCEPT !.tag = a.blk, !.st[0] = "RESERVED", !.data[0] = NoData]
allocateSectors(c, a) == [EmptyLine(c) EXCEPT !.tag = a.blk, !.st[a.sec] = "RESERVED"]
allocate(c, l, a) == IF c.type = "NORMAL" THEN allocateLine(l, a) ELSE allocateSectors(c, a)

allocate_sector(l, sec) ==
  [l EXCEPT !.st[sec] = "RESERVED", !.readable[sec] = TRUE, !.data[sec] = NoData]

\* fill of the sectors of the mask; the data is that of the address a.
fillLine(l, a) == [l EXCEPT !.st[0] = "VALID", !.data[0] = a.blk]
fillSectors(l, mask, a) ==
  [l EXCEPT !.st = [i \in DOMAIN @ |-> IF i \in mask THEN "VALID" ELSE @[i]],
            !.data[a.sec] = a.blk]
fillBlock(c, l, mask, a) == IF c.type = "NORMAL" THEN fillLine(l, a) ELSE fillSectors(l, mask, a)

(***************************************************************************)
(* TagArray.  pick is the way that rand() yields.                           *)
(***************************************************************************)
\* Faulty variant: a line that waits for its fill does not match.
find_matching_way_filled(s, a) ==
  {i \in LinesOf(s.c, a) : /\ \E k \in Sectors(s.c) : s.line[i].st[k] \in {"VALID", "MODIFIED"}
                          /\ s.line[i].tag = a.blk}

find_matching_way(s, a) == {i \in LinesOf(s.c, a) : ~is_invalid(s.line[i]) /\ s.line[i].tag = a.blk}
find_invalid_way(s, a)  == {i \in LinesOf(s.c, a) : is_invalid(s.line[i])}
Lowest(S) == CHOOSE i \in S : \A j \in S : i <= j

\* way moves to the front; those that were before it move back by one.
lru_promote(order, way) ==
  [i \in DOMAIN order |-> IF i = 1 THEN way
                          ELSE IF \E j \in 1..i - 1 : order[j] = way THEN order[i]
                          ELSE order[i - 1]]

find_victim(s, a, pick) ==
  LET set == get_set_index(s.c, a) IN
  set * s.c.ways + (CASE s.c.repl = "FIFO"   -> s.fifo[set]
                      [] s.c.repl = "RANDOM" -> pick
                      [] OTHER               -> Last(s.lru[set]))

\* update_replacement_state.
touch(s, i) ==
  IF s.c.repl \in {"LRU", "PLRU"}
  THEN [s EXCEPT !.lru[i \div s.c.ways] = lru_promote(@, i % s.c.ways)]
  ELSE s

\* fifo_advance and update_replacement_state, at an allocation.
touchNew(s, i) ==
  touch([s EXCEPT !.fifo[i \div s.c.ways] =
           IF s.c.repl = "FIFO" THEN (@ + 1) % s.c.ways ELSE @], i)

Answers(s, l, sec) == l.st[sec] \in {"VALID", "MODIFIED"}
                      /\ (s.c.type = "SECTOR" => l.readable[sec])

probe(s, a) ==
  LET ways == find_matching_way(s, a)
      l    == s.line[Lowest(ways)]
  IN  IF ways = {} THEN "MISS"
      ELSE CASE Answers(s, l, a.sec)      -> "HIT"
             [] l.st[a.sec] = "RESERVED"  -> "HIT_RESERVED"
             [] l.st[a.sec] = "INVALID"   -> "SECTOR_MISS"
             [] OTHER                     -> "RESERVATION_FAIL"

\* The result of access: the cache, the status, the line and the block that
\* has to be written back.
Accessed(s, status, i, wb) == [s |-> s, status |-> status, idx |-> i, wb |-> wb]

\* Faulty variant: a victim that was modified is counted once per sector.
evictPerSector(s, i) ==
  [s EXCEPT !.dirty = @ - Cardinality({k \in Sectors(s.c) : s.line[i].st[k] = "MODIFIED"})]

\* The victim leaves the count of modified lines.
evict(s, i) == [s EXCEPT !.dirty = IF is_modified(s.line[i]) THEN @ - 1 ELSE @]

\* A hit, a reserved sector, or a sector of the line that is not there.
accessLine(s, a, i, status) ==
  CASE status = "HIT" -> Accessed(touch(s, i), status, i, {})
    [] status = "SECTOR_MISS" /\ s.c.alloc = "ON_MISS" ->
         Accessed(touchNew([s EXCEPT !.line[i] = allocate_sector(@, a.sec)], i), status, i, {})
    [] OTHER -> Accessed(s, status, i, {})

allocateVictim(s, a, i) ==
  Accessed(touchNew([evict(s, i) EXCEPT !.line[i] = allocate(s.c, @, a)], i), "MISS", i,
           IF is_modified(s.line[i]) THEN {s.line[i].tag} ELSE {})

tagAccess(s, a, pick) ==
  IF find_matching_way(s, a) # {} THEN accessLine(s, a, Lowest(find_matching_way(s, a)), probe(s, a))
  ELSE allocateVictim(s, a, IF find_invalid_way(s, a) # {} THEN Lowest(find_invalid_way(s, a))
                            ELSE find_victim(s, a, pick))

\* fill(idx): every sector of the line.
fillIndex(s, i, a) == [s EXCEPT !.line[i] = fillBlock(s.c, @, Sectors(s.c), a)]

\* fill(addr): the line of the address, allocated now if it is not there and
\* the policy is ON_FILL; a modified victim is not written back.
fillSector(s, i, a) == [s EXCEPT !.line[i] = fillBlock(s.c, @, {a.sec}, a)]
fillAllocated(new, a) == fillSector(new.s, new.idx, a)
fillAddr(s, a, pick) ==
  CASE find_matching_way(s, a) # {} -> fillSector(s, Lowest(find_matching_way(s, a)), a)
    [] s.c.alloc = "ON_FILL" /\ find_matching_way(s, a) = {} -> fillAllocated(tagAccess(s, a, pick), a)
    [] OTHER -> s

flush(s) ==
  [s EXCEPT !.line = [i \in Lines(s.c) |-> [s.line[i] EXCEPT !.st =
     [k \in Sectors(s.c) |-> IF s.line[i].st[k] = "MODIFIED" THEN "INVALID"
                             ELSE s.line[i].st[k]]]]]

ResetOrder(c) == [i \in 0..c.sets - 1 |-> [w \in 1..c.ways |-> w - 1]]
ResetFifo(c)  == [i \in 0..c.sets - 1 |-> 0]

invalidate(s) ==
  [s EXCEPT !.line = [i \in Lines(s.c) |-> [s.line[i] EXCEPT !.st =
                        [k \in Sectors(s.c) |-> "INVALID"]]],
            !.dirty = 0, !.lru = ResetOrder(s.c), !.fifo = ResetFifo(s.c)]

(***************************************************************************)
(* MSHRTable: the requests of every entry, in order, and the ready list.    *)
(***************************************************************************)
mshrProbe(s, a) == a \in DOMAIN s.mshr
mshrFull(s, a) ==
  IF mshrProbe(s, a) THEN Len(s.mshr[a].reqs) >= s.c.merge
  ELSE Cardinality(DOMAIN s.mshr) >= s.c.mshrs

\* Faulty variant: a request that joins a ready entry makes it wait again.
mshrAddReopens(s, a, type) ==
  LET reqs == IF mshrProbe(s, a) THEN s.mshr[a].reqs ELSE <<>> IN
  [s EXCEPT !.mshr = [x \in DOMAIN @ \cup {a} |->
     IF x = a THEN [reqs |-> Append(reqs, type), ready |-> FALSE] ELSE @[x]]]

mshrAdd(s, a, type) ==
  LET entry == IF mshrProbe(s, a) THEN s.mshr[a] ELSE [reqs |-> <<>>, ready |-> FALSE] IN
  [s EXCEPT !.mshr = [x \in DOMAIN @ \cup {a} |->
     IF x = a THEN [entry EXCEPT !.reqs = Append(@, type)] ELSE @[x]]]

mark_ready(s, a) ==
  IF mshrProbe(s, a)
  THEN [s EXCEPT !.mshr[a].ready = TRUE, !.readyList = Append(@, a)]
  ELSE s

next_ready(s) ==
  LET a == Head(s.readyList) IN
  [s EXCEPT !.readyList = Tail(@),
            !.mshr = [x \in DOMAIN @ \ {a} |-> @[x]]]

is_read_after_write_pending(s, a) ==
  LET types == {s.mshr[a].reqs[i] : i \in DOMAIN s.mshr[a].reqs} IN {"READ", "WRITE"} \subseteq types

(***************************************************************************)
(* BaselineCache                                                            *)
(***************************************************************************)
miss_queue_full(s, n) == Len(s.queue) + n >= s.c.queue

use_data_port(s, status) ==
  IF status = "HIT" THEN [s EXCEPT !.dataPort = [free |-> FALSE, busy |-> @.busy + 1]] ELSE s
use_fill_port(s) == [s EXCEPT !.fillPort = [free |-> FALSE, busy |-> @.busy + 1]]

replenish(p) ==
  IF p.busy > 0 THEN [free |-> p.free \/ p.busy = 1, busy |-> p.busy - 1] ELSE p
replenish_ports(s) == [s EXCEPT !.dataPort = replenish(@), !.fillPort = replenish(@)]

\* A request for the memory: a fetch is what send_read_request queues.
Send(s, kind, a) == [s EXCEPT !.queue = Append(@, [kind |-> kind, addr |-> a])]

\* A new entry and the extra fields of its fill.
NoteMiss(s, a, req, idx) ==
  [mshrAdd(s, a, req.type) EXCEPT !.extra =
     [x \in DOMAIN @ \cup {a} |->
        IF x = a THEN [idx |-> idx, pending |-> IF s.c.mshr = "SECTOR_ASSOC" THEN 1 ELSE 0]
        ELSE @[x]]]

Sent(s, miss, wb) == [s |-> s, miss |-> miss, wb |-> wb]
sendAllocated(s, a, req, alloc) ==
  CASE mshrProbe(s, a) -> Sent(mshrAdd(alloc.s, a, req.type), TRUE, alloc.wb)
    [] ~mshrProbe(s, a) /\ alloc.status = "RESERVATION_FAIL" -> Sent(alloc.s, FALSE, {})
    [] OTHER -> Sent(Send(NoteMiss(alloc.s, a, req, alloc.idx), "fetch", a), TRUE, alloc.wb)

\* The tags are accessed with the address of the block, that is, with its
\* first sector.  With a full queue nothing is sent and do_miss stays true.
send_read_request(s, a, req, pick) ==
  CASE mshrFull(s, a) -> Sent(s, FALSE, {})
    [] ~mshrFull(s, a) /\ ~mshrProbe(s, a) /\ miss_queue_full(s, 1) -> Sent(s, TRUE, {})
    [] OTHER -> sendAllocated(s, a, req, tagAccess(s, get_block_addr(a), pick))

Forget(s, a) == [s EXCEPT !.extra = [x \in DOMAIN @ \ {a} |-> @[x]]]

\* fill: a sector-associative cache waits for its last response; ON_MISS
\* fills the line that was noted at the miss, whatever it holds by now.
fillTags(s, a, pick) ==
  CASE s.c.alloc = "ON_FILL"  -> fillAddr(s, a, pick)
    [] s.c.alloc = "ON_MISS" /\ a \in DOMAIN s.extra -> fillIndex(s, s.extra[a].idx, a)
    [] OTHER -> s

fill(s, a, pick) ==
  LET waits == a \in DOMAIN s.extra /\ s.c.mshr = "SECTOR_ASSOC"
      left  == s.extra[a].pending - 1
  IN  IF waits /\ left > 0 THEN [s EXCEPT !.extra[a].pending = left]
      ELSE use_fill_port(Forget(mark_ready(fillTags(s, a, pick), a), a))

\* cycle: the oldest request leaves when the memory port accepts it; the
\* memory keeps the fetches until it answers them.
cycle(s, accepts) ==
  LET head == Head(s.queue) IN
  replenish_ports(
    IF s.queue = <<>> \/ ~accepts THEN s
    ELSE [s EXCEPT !.queue = Tail(@),
                   !.memory = IF head.kind = "fetch" THEN Append(@, head.addr) ELSE @])

(***************************************************************************)
(* ReadOnlyCache and DataCache.  A handler yields the cache and its status. *)
(***************************************************************************)
Result(s, status) == [s |-> s, status |-> status]
MissOrFail(r) == Result(r.s, IF r.miss THEN "MISS" ELSE "RESERVATION_FAIL")

readOnlyAccess(s, a, req, pick) ==
  LET status == probe(s, a) IN
  CASE status = "HIT"              -> Result(use_data_port(s, "HIT"), "HIT")
    [] status = "RESERVATION_FAIL" -> Result(s, status)
    [] OTHER                       -> MissOrFail(send_read_request(s, a, req, pick))

\* The write back of an evicted block, which a write through cache drops.
SendWriteBack(s, wb) ==
  IF wb = {} \/ s.c.write = "WRITE_THROUGH" THEN s
  ELSE Send(s, "writeback", [blk |-> Lowest(wb), sec |-> 0])

\* MODIFIED, counted if no sector of the line was; readable unless written
\* in part under LAZY_FETCH_ON_READ.
Modify(s, i, a, whole) ==
  [s EXCEPT !.dirty = IF is_modified(s.line[i]) THEN @ ELSE @ + 1,
            !.line[i].st[a.sec] = "MODIFIED",
            !.line[i].data[a.sec] = IF whole THEN a.blk ELSE @]

wr_hit_wb(s, i, a) == Result(touch(Modify(s, i, a, FALSE), i), "HIT")

wr_hit_wt(s, i, a) ==
  IF miss_queue_full(s, 0) THEN Result(s, "RESERVATION_FAIL")
  ELSE Result(Send(wr_hit_wb(s, i, a).s, "write", a), "HIT")

\* The count of modified lines keeps a line that a global write invalidates.
wr_hit_we(s, i, a) ==
  IF miss_queue_full(s, 0) THEN Result(s, "RESERVATION_FAIL")
  ELSE Result(Send([s EXCEPT !.line[i].st[a.sec] = "INVALID"], "write", a), "HIT")

wr_hit(s, i, a, req) ==
  CASE s.c.write = "WRITE_BACK"         -> wr_hit_wb(s, i, a)
    [] s.c.write = "WRITE_THROUGH"      -> wr_hit_wt(s, i, a)
    [] s.c.write = "WRITE_EVICT"        -> wr_hit_we(s, i, a)
    [] s.c.write = "LOCAL_WB_GLOBAL_WT" -> IF req.global THEN wr_hit_we(s, i, a)
                                           ELSE wr_hit_wb(s, i, a)

wr_miss_no_wa(s, a) == Result(Send(s, "write", a), "MISS")

\* The resources that a fetch needs, with n more places in the queue.
RoomForFetch(s, a, n) ==
  ~miss_queue_full(s, n) /\ ~mshrFull(s, a) /\ (mshrProbe(s, a) \/ ~miss_queue_full(s, 1))

FinishFetch(r) == MissOrFail([r EXCEPT !.s = IF r.miss THEN SendWriteBack(@, r.wb) ELSE @])
Fetch(s, a, req, pick) == FinishFetch(send_read_request(s, a, req, pick))

wr_miss_wa_naive(s, a, req, pick) ==
  IF ~RoomForFetch(s, a, 2) THEN Result(s, "RESERVATION_FAIL")
  ELSE Fetch(Send(s, "write", a), a, req, pick)

\* The write of a whole atom: no fetch.
writeAllocated(a, alloc) ==
  IF alloc.status = "RESERVATION_FAIL" THEN Result(alloc.s, alloc.status)
  ELSE Result(SendWriteBack(Modify(alloc.s, alloc.idx, a, TRUE), alloc.wb), "MISS")
WriteWhole(s, a, pick) == writeAllocated(a, tagAccess(s, get_block_addr(a), pick))

wr_miss_wa_fetch_on_write(s, a, req, pick) ==
  CASE req.whole /\ miss_queue_full(s, 0) -> Result(s, "RESERVATION_FAIL")
    [] req.whole /\ ~miss_queue_full(s, 0) -> WriteWhole(s, a, pick)
    [] ~req.whole ->
         IF ~RoomForFetch(s, a, 1) \/ (mshrProbe(s, a) /\ is_read_after_write_pending(s, a))
         THEN Result(s, "RESERVATION_FAIL")
         ELSE Fetch(s, a, req, pick)

ModifyReadable(s, i, a, whole) ==
  [Modify(s, i, a, whole) EXCEPT !.line[i].readable[a.sec] = whole]
writeLazily(a, req, alloc) ==
  IF alloc.status = "RESERVATION_FAIL" THEN Result(alloc.s, alloc.status)
  ELSE Result(SendWriteBack(ModifyReadable(alloc.s, alloc.idx, a, req.whole), alloc.wb), "MISS")
wr_miss_wa_lazy_fetch_on_read(s, a, req, pick) ==
  writeLazily(a, req, tagAccess(s, get_block_addr(a), pick))

wr_miss(s, a, req, pick) ==
  CASE s.c.walloc = "NO_WRITE_ALLOCATE"  -> wr_miss_no_wa(s, a)
    [] s.c.walloc = "WRITE_ALLOCATE"     -> wr_miss_wa_naive(s, a, req, pick)
    [] s.c.walloc = "FETCH_ON_WRITE"     -> wr_miss_wa_fetch_on_write(s, a, req, pick)
    [] s.c.walloc = "LAZY_FETCH_ON_READ" -> wr_miss_wa_lazy_fetch_on_read(s, a, req, pick)

rd_hit_base(s, i) == Result(touch(s, i), "HIT")
rd_miss_base(s, a, req, pick) == Fetch(s, a, req, pick)

\* A read that hits a reserved sector is answered so and joins no entry.
process_tag_probe(s, a, req, pick) ==
  LET status == probe(s, a)
      i      == Lowest(find_matching_way(s, a))
  IN  CASE status = "HIT" /\ req.type = "WRITE"  -> wr_hit(s, i, a, req)
        [] status # "HIT" /\ req.type = "WRITE"  -> wr_miss(s, a, req, pick)
        [] status = "HIT" /\ req.type = "READ"   -> rd_hit_base(s, i)
        [] status = "HIT_RESERVED" /\ req.type = "READ" -> Result(s, status)
        [] OTHER -> rd_miss_base(s, a, req, pick)

\* A write back from the level above fills the line, clean.
usePort(r) == Result(use_data_port(r.s, r.status), r.status)
dataAccess(s, a, req, pick) ==
  IF req.type = "WRITE_BACK" THEN Result(fillAddr(s, a, pick), "HIT")
  ELSE usePort(process_tag_probe(s, a, req, pick))

(***************************************************************************)
(* The cache between a core and a memory.                                   *)
(***************************************************************************)
InitCache(c) ==
  [c |-> c, line |-> [i \in Lines(c) |-> EmptyLine(c)],
   lru |-> ResetOrder(c), fifo |-> ResetFifo(c), dirty |-> 0,
   mshr |-> <<>>, readyList |-> <<>>, extra |-> <<>>, queue |-> <<>>,
   dataPort |-> [free |-> TRUE, busy |-> 0], fillPort |-> [free |-> TRUE, busy |-> 0],
   memory |-> <<>>, ops |-> 0]

OcInit == \E c \in Configs : oc = InitCache(c)

Picks == IF oc.c.repl = "RANDOM" THEN 0..oc.c.ways - 1 ELSE {0}
Count(s) == [s EXCEPT !.ops = @ + 1]
MayAct == oc.ops < oc.c.ops

Access(a, req) ==
  /\ MayAct
  /\ \E pick \in Picks :
       oc' = Count(IF oc.c.write = "READ_ONLY" THEN readOnlyAccess(oc, a, req, pick).s
                   ELSE dataAccess(oc, a, req, pick).s)

Cycle == \E accepts \in BOOLEAN : oc' = cycle(oc, accepts)

\* The memory answers its fetches in any order.
Fill(i) ==
  \E pick \in Picks :
    oc' = fill([oc EXCEPT !.memory = RemoveAt(@, i)], oc.memory[i], pick)

NextReady == oc.readyList # <<>> /\ oc' = next_ready(oc)

Flush      == MayAct /\ oc.c.flushes /\ oc' = Count(flush(oc))
Invalidate == MayAct /\ oc.c.flushes /\ oc' = Count(invalidate(oc))

OcNext ==
  \/ \E a \in oc.c.addrs, req \in oc.c.reqs : Access(a, req)
  \/ \E i \in DOMAIN oc.memory : Fill(i)
  \/ Cycle \/ NextReady \/ Flush \/ Invalidate

OcSpec == OcInit /\ [][OcNext]_oc

(***************************************************************************)
(* Properties                                                               *)
(***************************************************************************)
\* The places of a sequence that hold v.
Occurrences(q, v) == {i \in DOMAIN q : q[i] = v}

(* Every miss is fetched and answered exactly once: an entry of the MSHR    *)
(* table that is not ready has one fetch in the miss queue or in the memory *)
(* and the extra fields its fill needs, a ready one is once on the ready    *)
(* list and has neither, and no fetch is for anything else                  *)
(* (send_read_request, cycle, fill, mark_ready, next_ready), under every    *)
(* policy, with flushes, invalidations and reserved lines replaced.         *)
EveryMissFetched ==
  LET fetches(a) == Cardinality(Occurrences(oc.queue, [kind |-> "fetch", addr |-> a]))
                    + Cardinality(Occurrences(oc.memory, a))
      waiting    == {a \in DOMAIN oc.mshr : ~oc.mshr[a].ready}
      readied(a) == Cardinality(Occurrences(oc.readyList, a))
  IN  /\ DOMAIN oc.extra = waiting
      /\ \A a \in oc.c.addrs : /\ fetches(a) = IF a \in waiting THEN 1 ELSE 0
                               /\ readied(a) = IF a \in DOMAIN oc.mshr \ waiting THEN 1 ELSE 0

\* Fills go to the right line: they look the address up, or one miss at a
\* time is outstanding, nothing else takes or fills lines and a line is
\* fetched as a whole.  A NORMAL cache does not look at the readable flag of a
\* line written in part, so there a write allocate that fetches later is out.
FillsAreSafe(c) ==
  \/ c.alloc = "ON_FILL" /\ (c.walloc = "LAZY_FETCH_ON_READ" => c.type = "SECTOR")
  \/ /\ c.alloc = "ON_MISS" /\ c.type = "NORMAL" /\ c.mshrs = 1 /\ ~c.flushes
     /\ c.walloc \in {"NO_WRITE_ALLOCATE", "WRITE_ALLOCATE"}
     /\ \A r \in c.reqs : r.type # "WRITE_BACK"

(* A block is in at most one line of its set, and a sector that a read      *)
(* would hit holds the data of that block, fetched or written as a whole    *)
(* (TagArray::access, fill), where fills go to the right line.  ON_MISS     *)
(* fills go to the line noted at the miss, which find_victim may have       *)
(* given away meanwhile: there the property is not claimed.                 *)
LineHoldsItsBlock ==
  FillsAreSafe(oc.c) =>
    \A i \in Lines(oc.c) :
      LET l == oc.line[i] IN
      /\ ~is_invalid(l) => find_matching_way(oc, [blk |-> l.tag, sec |-> 0]) = {i}
      /\ \A k \in Sectors(oc.c) : Answers(oc, l, k) => l.data[k] = l.tag

(* m_dirty, an unsigned counter that every eviction of a modified line      *)
(* decrements without a test, is never below the number of modified lines,  *)
(* so it never wraps: flush, write evict and late fills leave it too high,  *)
(* never too low.                                                           *)
DirtyNeverWraps == oc.dirty >= Cardinality({i \in Lines(oc.c) : is_modified(oc.line[i])})
=============================================================================
