------------------------------ MODULE Gem5Cache -----------------------------
(* The gem5 coherent cache nearest a core: BaseCache and Cache in           *)
(* gem5_cache/src/mem/cache/{base,cache}.{hh,cc} with their queues          *)
(* (queue.hh, mshr_queue, write_queue), in timing mode.                     *)
(*                                                                         *)
(* A handler of the code is an operator from the cache's state h to its     *)
(* state afterwards.  Besides the fields of the cache, h carries what the   *)
(* handler hands to others: ans (answers to the core), sup (snoop           *)
(* responses), pk (flags set on the packet being snooped) and wbs (the      *)
(* PacketList of writebacks); ver and ll are history variables.  err        *)
(* collects the assertions and panics of the code that fail.  h.cfg holds   *)
(* the parameters write_buffers, writeback_clean, whether there is a write  *)
(* allocator, and whether this is a Cache (coherent) or a NoncoherentCache, *)
(* which overrides some of the handlers (noncoherent_cache.cc).             *)
(*                                                                         *)
(* Time is left out: an entry of a queue is ready or not, and the latencies *)
(* only decide when.  The prefetcher may ask for any block at any time.     *)
(* Not used here: compressor, uncacheable requests, caches above this one.  *)
EXTENDS Gem5Mshr, FiniteSets, TLC

CONSTANTS Addrs,        \* the block addresses
          Caches,       \* the caches of the crossbar
          Ways,         \* blocks the tags can hold
          NumMSHRs, NumTarget,                            \* mshrs, tgts_per_mshr
          DemandReserve,                                  \* demand_mshr_reserve
          CoalesceLimit, NoAllocateLimit, DelayThreshold  \* of the write allocator

ASSUME Gem5Assumption ==
  /\ {Ways, NumMSHRs, NumTarget} \subseteq Nat \ {0}
  /\ {DemandReserve, CoalesceLimit, NoAllocateLimit, DelayThreshold} \subseteq Nat
  /\ Bytes = 1..Cardinality(Bytes)

Garbage == [b \in Bytes |-> 0]      \* data nobody wrote: versions start at 1

NoBlk  == [V |-> FALSE, R |-> FALSE, W |-> FALSE, D |-> FALSE,
           lock |-> FALSE, data |-> Garbage]

FreeMSHR == [allocateMSHR(0, [cmd |-> "ReadReq", bytes |-> {}, id |-> 0, src |-> 0], 0)
               EXCEPT !.targets = resetFlags(<<>>)]

\* WriteAllocator::reset
resetMode == [mode |-> "ALLOCATE", nextAddr |-> 0, byteCount |-> 0]

\* The constructors: an empty cache, nothing queued, the port accepting.
InitCache == [blk |-> [a \in Addrs |-> NoBlk],
              mshr |-> [a \in Addrs |-> FreeMSHR], ready |-> <<>>, wb |-> <<>>,
              blocked |-> {}, noTarget |-> {}, mustSendRetry |-> FALSE, temp |-> {},
              stream |-> resetMode, delayCtr |-> [a \in Addrs |-> 0],
              retryEvent |-> FALSE, order |-> 0, err |-> {}]

Check(h, ok, what) == IF ok THEN h ELSE [h EXCEPT !.err = @ \cup {what}]

(***************************************************************************)
(* Queues (queue.hh, mshr_queue.cc, write_queue.cc) and blocking.          *)
(***************************************************************************)
hasMSHR(h, a) == h.mshr[a].targets.ts # <<>>        \* mshrQueue.findMatch

AllocatedMSHRs(h) == Cardinality({a \in Addrs : hasMSHR(h, a)})

mshrQueueFull(h) == AllocatedMSHRs(h) >= NumMSHRs

\* The write buffer has as many reserve entries as there are MSHRs.
writeBufferFull(h) == Len(h.wb) >= h.cfg.writeBuffers

inWriteBuffer(h, a) == \E i \in DOMAIN h.wb : h.wb[i].addr = a

wbIndex(h, a) == CHOOSE i \in DOMAIN h.wb :    \* writeBuffer.findMatch
                   h.wb[i].addr = a /\ \A j \in 1..(i-1) : h.wb[j].addr # a

\* The port: a retry not yet sent is cancelled, and owed.
portSetBlocked(h) ==
  [h EXCEPT !.retryEvent = FALSE, !.mustSendRetry = @ \/ h.retryEvent]

\* The port: the retry owed is scheduled.
portClearBlocked(h) == [h EXCEPT !.retryEvent = @ \/ h.mustSendRetry]

\* Faulty variant: a retry that is cancelled counts as sent.
setBlockedForgets(h, cause) ==
  IF h.blocked # {} THEN [h EXCEPT !.blocked = @ \cup {cause}]
  ELSE [h EXCEPT !.blocked = {cause}, !.retryEvent = FALSE,
                 !.mustSendRetry = @ /\ ~h.retryEvent]

setBlocked(h, cause) ==
  LET h1 == IF h.blocked = {} THEN portSetBlocked(h) ELSE h
  IN [h1 EXCEPT !.blocked = @ \cup {cause}]

clearBlocked(h, cause) ==
  LET h1 == [h EXCEPT !.blocked = @ \ {cause}]
  IN IF h1.blocked = {}
     THEN portClearBlocked(Check(h1, h.blocked # {}, "port not blocked")) ELSE h1

\* Queue::addToReadyList: the entries become ready in the order they came.
addToReadyList(h, a) == [h EXCEPT !.ready = Append(@, a)]

mshrQueueAllocate(h, a, pkt) ==
  addToReadyList([Check(h, AllocatedMSHRs(h) < NumMSHRs, "no free MSHR")
                    EXCEPT !.mshr[a] = allocateMSHR(a, pkt, h.order)], a)

allocateMissBuffer(h, a, pkt) ==
  LET h1 == [mshrQueueAllocate(h, a, pkt) EXCEPT !.order = @ + 1]
  IN IF mshrQueueFull(h1) THEN setBlocked(h1, "NoMSHRs") ELSE h1

\* MSHRQueue::markPending: the MSHR is to be sent again.
markPending(h, a) == addToReadyList([h EXCEPT !.mshr[a].inService = FALSE], a)

\* MSHR::deallocate: nothing is waiting.
mayDeallocate(m) == m.targets.ts = <<>> /\ isReset(m.deferred)

\* Queue::deallocate.
queueDeallocate(h, a) ==
  [Check(h, mayDeallocate(h.mshr[a]), "targets dropped") EXCEPT !.mshr[a] = FreeMSHR]

\* The last target is gone: free the MSHR.
deallocateMSHR(h, a) ==
  LET h1 == queueDeallocate(h, a)
  IN IF AllocatedMSHRs(h1) + 1 >= NumMSHRs THEN clearBlocked(h1, "NoMSHRs") ELSE h1

\* WriteQueueEntry::allocate: an entry is an eviction or a WriteClean.
WriteQueueCmds == {"WritebackDirty", "WritebackClean", "CleanEvict", "WriteClean"}

writeQueueEntry(h, entry) == entry @@ [order |-> h.order]

\* WriteQueue::allocate.
writeQueueAllocate(h, entry) ==
  [Check(h, Len(h.wb) < h.cfg.writeBuffers + NumMSHRs /\ entry.cmd \in WriteQueueCmds,
         "no free write buffer")
     EXCEPT !.wb = Append(@, writeQueueEntry(h, entry))]

allocateWriteBuffer(h, entry) ==
  LET h1 == [writeQueueAllocate(h, entry) EXCEPT !.order = @ + 1]
  IN IF writeBufferFull(h1) THEN setBlocked(h1, "NoWBBuffers") ELSE h1

doWritebacks(h) ==
  LET h1 == FoldLeft(allocateWriteBuffer, h, h.wbs) IN [h1 EXCEPT !.wbs = <<>>]

\* WriteQueue::markInService: the entry is done.
popWrite(h, i) == [h EXCEPT !.wb = RemoveAt(@, i)]

\* Faulty variant: the port is freed when the buffer was full by more than one.
markWBInServiceLate(h, i) ==
  LET h1 == popWrite(h, i)
  IN IF writeBufferFull(h1) THEN clearBlocked(h1, "NoWBBuffers") ELSE h1

\* markInService of a write queue entry: it leaves the write buffer.
markWBInService(h, i) ==
  LET h1 == popWrite(h, i)
  IN IF writeBufferFull(h) /\ ~writeBufferFull(h1)
     THEN clearBlocked(h1, "NoWBBuffers") ELSE h1

\* Faulty variant: a miss may pass the writeback of its own block.
getNextQueueEntryPassing(h, mshrReady, wbReady) ==
  IF mshrReady /\ h.ready # <<>> THEN <<"mshr", h.ready[1]>>
  ELSE IF wbReady /\ h.wb # <<>> THEN <<"wb", 1>> ELSE <<"none">>

\* Queue::findPending: a miss of the block that has not been sent.
findPending(h, a) == \E i \in DOMAIN h.ready : h.ready[i] = a

\* Which queue entry goes next, given the heads whose time has come: a full
\* write buffer first, then misses, but never past an earlier entry of the same
\* block in the other queue.  <<"none">> if nothing is ready.
getNextQueueEntry(h, mshrReady, wbReady) ==
  LET miss  == mshrReady /\ h.ready # <<>>
      write == wbReady /\ h.wb # <<>>
      wa == h.wb[1].addr
      ma == h.ready[1]
  IN IF write /\ (writeBufferFull(h) \/ ~miss)
     THEN IF /\ findPending(h, wa)
             /\ h.mshr[wa].order < h.wb[1].order
          THEN <<"mshr", wa>> ELSE <<"wb", 1>>
     ELSE IF miss
     THEN IF inWriteBuffer(h, ma) THEN <<"wb", wbIndex(h, ma)>> ELSE <<"mshr", ma>>
     ELSE <<"none">>

\* The prefetcher may use an MSHR while some are left for demand misses.
canPrefetch(h) == AllocatedMSHRs(h) + 1 + DemandReserve < NumMSHRs

\* getNextQueueEntry, when the queues have nothing ready: a prefetch of a block
\* that is not here, not on its way in and not on its way out.
mayPrefetch(h, a) ==
  /\ canPrefetch(h) /\ h.blocked = {}
  /\ ~(h.blk[a].V /\ a \notin h.temp) /\ ~hasMSHR(h, a) /\ ~inWriteBuffer(h, a)

(***************************************************************************)
(* Blocks: eviction, allocation, fill.                                     *)
(***************************************************************************)
\* Faulty variant: the lock of a load-linked survives the block.
invalidateBlockKeepsLock(h, a) ==
  [h EXCEPT !.blk[a] = [NoBlk EXCEPT !.lock = h.blk[a].lock], !.temp = @ \ {a}]

invalidateBlock(h, a) == [h EXCEPT !.blk[a] = NoBlk, !.temp = @ \ {a}]

\* Faulty variant: only a writable block is taken for dirty.
writebackBlkOwned(h, a) ==
  [addr |-> a, data |-> h.blk[a].data, sharers |-> ~h.blk[a].W, cmo |-> {},
   cmd |-> IF h.blk[a].D /\ h.blk[a].W THEN "WritebackDirty"
           ELSE IF h.cfg.writebackClean THEN "WritebackClean" ELSE "CleanEvict"]

\* writebackBlk and cleanEvictBlk: the packet that leaves when the block does.
writebackBlk(h, a) ==
  [addr |-> a, data |-> h.blk[a].data, sharers |-> ~h.blk[a].W, cmo |-> {},
   cmd |-> IF h.blk[a].D THEN "WritebackDirty"
           ELSE IF h.cfg.writebackClean THEN "WritebackClean" ELSE "CleanEvict"]

\* evictBlock with a PacketList.
pushWriteback(h, pkt) == [h EXCEPT !.wbs = Append(@, pkt)]

\* NoncoherentCache::evictBlock: nobody is told of a clean block that goes.
noncoherentEvict(h, a) ==
  invalidateBlock(IF h.blk[a].D \/ h.cfg.writebackClean
                  THEN pushWriteback(h, writebackBlk(h, a)) ELSE h, a)

evictBlock(h, a) ==
  IF h.cfg.coherent THEN invalidateBlock(pushWriteback(h, writebackBlk(h, a)), a)
  ELSE noncoherentEvict(h, a)

\* writecleanBlk: a maintenance request writes the dirty block down and keeps it.
writecleanBlk(h, a, src) ==
  [pushWriteback(h, [writebackBlk(h, a) EXCEPT !.cmd = "WriteClean", !.cmo = {src}])
     EXCEPT !.blk[a].W = FALSE, !.blk[a].D = FALSE]

\* Blocks in the tags; the temporary block is not one of them.
Cached(h) == {x \in Addrs : h.blk[x].V} \ h.temp

Full(h) == Cardinality(Cached(h)) >= Ways

\* allocateBlock with handleEvictions: a victim that waits for its own upgrade
\* or clean cannot go, and then the fill uses the temporary block.
CanAllocate(h, victim) == ~Full(h) \/ ~hasMSHR(h, victim)

handleEvictions(h, victim) ==
  IF ~Full(h) THEN h
  ELSE IF hasMSHR(h, victim)
  THEN Check(h, \/ (~h.blk[victim].W /\ h.mshr[victim].targets.needsWritable)
                 \/ isCleaning(h.mshr[victim]), "victim with a miss of its own")
  ELSE evictBlock(h, victim)

\* handleFill: the block, or the temporary block, takes the response.
handleFill(h, a, resp, victim, allocate) ==
  LET new  == ~h.blk[a].V
      temp == new /\ (~allocate \/ ~CanAllocate(h, victim))
      h1 == Check(h, ~inWriteBuffer(h, a), "fill of a block being written back")
      h2 == Check(h1, new => resp.cmd \in Reads \cup {"InvalidateResp"},
                   "fill without data")
      h3 == IF new /\ allocate THEN handleEvictions(h2, victim) ELSE h2
      h4 == IF temp THEN [Check(h3, h.temp = {}, "temporary block in use") EXCEPT !.temp = {a}]
            ELSE h3
      b  == h.blk[a]
  IN [h4 EXCEPT !.blk[a] =
        [b EXCEPT !.V = TRUE, !.R = TRUE, !.W = @ \/ ~resp.sharers,
                  !.D = @ \/ (~resp.sharers /\ resp.responding),
                  !.data = IF resp.cmd \in Reads THEN resp.data ELSE @]]

(***************************************************************************)
(* Requests of the core.                                                   *)
(***************************************************************************)
Answer(h, pkt, data, ok) ==
  [h EXCEPT !.ans = Append(@, [id |-> pkt.id, data |-> data, ok |-> ok])]

\* The LL/SC lock of a block: a core's own writes leave it, its store
\* conditional uses it up.
checkWrite(b, pkt) ==
  [ok |-> pkt.cmd \notin Llsc \/ b.lock, lock |-> b.lock /\ pkt.cmd \notin Llsc]

trackLoadLocked(b) == [b EXCEPT !.lock = TRUE]

\* The bytes of the write become the next version of the block.
updateBlockData(data, pkt, last) ==
  [x \in Bytes |-> IF x \in pkt.bytes THEN last[x] + 1 ELSE data[x]]

\* A swap writes the block at once; a conditional one only if it finds the value
\* it expects (here: the first version), and leaves the block as it is if not.
cmpAndSwap(h, a, pkt) ==
  LET b == h.blk[a]
  IN IF pkt.cmd = "CondSwapReq" /\ \E x \in pkt.bytes : b.data[x] # 1 THEN h
     ELSE [h EXCEPT !.blk[a].D = TRUE, !.blk[a].data = updateBlockData(@, pkt, h.ver[a]),
                    !.ver[a] = updateBlockData(@, pkt, @),
                    !.ll[a] = updateBlockData(b.data, pkt, h.ver[a]),
                    !.bad = @ \/ b.data # h.ver[a]]

\* What the request does to the block; a failed store conditional still
\* dirties it.
satisfyRequest(h, a, pkt) ==
  LET b == h.blk[a]
      ok == checkWrite(b, pkt).ok
      data == IF ok THEN updateBlockData(b.data, pkt, h.ver[a]) ELSE b.data
  IN CASE pkt.cmd \in {"SwapReq", "CondSwapReq"} -> cmpAndSwap(h, a, pkt)
       [] pkt.cmd \in Writes \ {"SwapReq", "CondSwapReq"} ->
            [Check(h, b.W, "write to a block that is not writable")
               EXCEPT !.blk[a] = [b EXCEPT !.D = TRUE, !.data = data,
                                           !.lock = checkWrite(b, pkt).lock],
                      !.ver[a] = IF ok THEN updateBlockData(@, pkt, @) ELSE @,
                      !.ll[a] = IF ok THEN data ELSE @,
                      !.bad = @ \/ (/\ ok /\ h.ll[a] # b.data
                                    /\ pkt.cmd \in Llsc \cup {"LockedRMWWriteReq"})]
       [] pkt.cmd \in Clean -> [h EXCEPT !.blk[a].D = FALSE]
       [] pkt.cmd = "LoadLockedReq" -> [h EXCEPT !.blk[a] = trackLoadLocked(@), !.ll[a] = b.data]
       [] pkt.cmd = "LockedRMWReadReq" -> [h EXCEPT !.ll[a] = b.data]
       [] OTHER -> h

satisfyAndAnswer(h, a, pkt) ==
  LET ok == pkt.cmd \in {"StoreCondReq", "StoreCondFailReq"} => checkWrite(h.blk[a], pkt).ok
      h1 == satisfyRequest(h, a, pkt)
  IN Answer(h1, pkt, h.blk[a].data, ok)

\* access: a maintenance operation is forwarded whatever is here.
AlwaysForwarded(pkt) == pkt.cmd \in Maintenance

\* access: can the request be satisfied from the block?
accessHits(h, a, pkt) ==
  /\ ~AlwaysForwarded(pkt)
  /\ h.blk[a].V
  /\ IF pkt.cmd \in NeedsWritable THEN h.blk[a].W ELSE h.blk[a].R

\* WriteAllocator::updateMode: a write that continues the last one extends the
\* stream, any other starts a new one.
updateMode(h, a, pkt) ==
  LET w     == h.stream
      n     == Cardinality(pkt.bytes)
      start == a * Cardinality(Bytes) + CHOOSE b \in pkt.bytes : \A x \in pkt.bytes : b <= x
      count == w.byteCount + n
  IN IF w.nextAddr # start
     THEN [h EXCEPT !.stream = [mode |-> "ALLOCATE", byteCount |-> n, nextAddr |-> start + n],
                    !.delayCtr[a] = 0]
     ELSE [h EXCEPT !.delayCtr[a] = DelayThreshold,
             !.stream = [nextAddr |-> start + n,
               byteCount |-> IF w.mode = "NO_ALLOCATE" THEN w.byteCount ELSE count,
               mode |-> CASE w.mode = "ALLOCATE" /\ count > CoalesceLimit -> "COALESCE"
                          [] w.mode = "COALESCE" /\ count > NoAllocateLimit -> "NO_ALLOCATE"
                          [] OTHER -> w.mode]]

\* The request becomes a target of the MSHR of its block, which is m then.
coalesce(h, a, m) ==
  LET h1 == [h EXCEPT !.mshr[a] = m, !.order = @ + 1]
  IN IF getNumTargets(m) >= NumTarget
     THEN setBlocked([h1 EXCEPT !.noTarget = {a}], "NoTargets") ELSE h1

\* A miss of a block that is here, for more permission or for maintenance:
\* until the response nobody reads the block.
missOnBlock(h, a, pkt) ==
  [Check(h, \/ (pkt.cmd \in NeedsWritable /\ ~h.blk[a].W)
            \/ pkt.cmd \in Maintenance, "miss on a usable block") EXCEPT !.blk[a].R = FALSE]

coalesceOrAllocate(h, a, pkt) ==
  IF hasMSHR(h, a) THEN coalesce(h, a, allocateTarget(h.mshr[a], pkt, h.order))
  ELSE allocateMissBuffer(IF h.blk[a].V THEN missOnBlock(h, a, pkt) ELSE h, a, pkt)

handleTimingReqMiss(h, a, pkt) ==
  coalesceOrAllocate(IF h.cfg.writeAllocator /\ pkt.cmd \in Writes
                     THEN updateMode(h, a, pkt) ELSE h, a, pkt)

\* Faulty variant: the prefetch that misses still carries the core's number.
handleTimingReqMissOrAnswered(h, a, pkt) ==
  IF pkt.cmd \notin {"SoftPFReq", "SoftPFExReq"} THEN handleTimingReqMiss(h, a, pkt)
  ELSE LET h1 == Answer(h, pkt, h.ver[a], TRUE)
       IN IF hasMSHR(h, a) THEN h1 ELSE handleTimingReqMiss(h1, a, [pkt EXCEPT !.cmd = "ReadReq"])

\* handleTimingReqMiss of Cache: a software prefetch is answered, with dummy data
\* nobody looks at, and a request of its own misses, unless one is out already.
handleTimingReqMissOrPrefetch(h, a, pkt) ==
  IF pkt.cmd \notin {"SoftPFReq", "SoftPFExReq"} THEN handleTimingReqMiss(h, a, pkt)
  ELSE LET h1 == Answer(h, pkt, h.ver[a], TRUE)
       IN IF hasMSHR(h, a) THEN h1 ELSE handleTimingReqMiss(h1, a, [pkt EXCEPT !.id = 0])

\* NoncoherentCache::handleTimingReqMiss: a block that is here can be written.
noncoherentReqMiss(h, a, pkt) ==
  handleTimingReqMiss(Check(h, hasMSHR(h, a) \/ ~h.blk[a].V, "miss on a block that is here"),
                      a, pkt)

(***************************************************************************)
(* Snoops.                                                                 *)
(***************************************************************************)
RespCmd(cmd) ==          \* the response a request turns into (packet.cc)
  CASE cmd \in {"ReadReq", "ReadSharedReq"} -> "ReadResp" [] cmd = "ReadExReq" -> "ReadExResp"
    [] cmd \in {"UpgradeReq", "SCUpgradeReq"} -> "UpgradeResp"
    [] cmd = "SCUpgradeFailReq" -> "UpgradeFailResp"
    [] cmd = "InvalidateReq" -> "InvalidateResp"
    [] cmd = "CleanSharedReq" -> "CleanSharedResp"
    [] cmd = "CleanInvalidReq" -> "CleanInvalidResp"

\* doTimingSupplyResponse: this cache answers another cache's request.
doTimingSupplyResponse(h, a, pkt, data, sharers, pendingInval) ==
  LET resp == RespCmd(pkt.cmd)
  IN [Check(h, pkt.cmd \in Invalidating \/ sharers, "supplying without sharers")
        EXCEPT !.sup = Append(@,
          [to |-> pkt.src, addr |-> a, responding |-> TRUE, sharers |-> sharers, data |-> data,
           cmd |-> IF resp = "ReadResp" /\ pendingInval
                   THEN "ReadRespWithInvalidate" ELSE resp, wait |-> FALSE])]

\* A snoop that finds a block: a read takes its write permission, and a dirty
\* block answers.
snoopBlock(h, a, pkt, deferred, pendingInval) ==
  LET b    == h.blk[a]
      read == pkt.cmd \in Reads \ Invalidating
      h1 == IF read THEN [h EXCEPT !.pk.sharers = TRUE, !.blk[a].W = FALSE] ELSE h
  IN IF b.D THEN doTimingSupplyResponse([h1 EXCEPT !.pk.responding = TRUE], a, pkt,
                   b.data, read \/ (~deferred /\ h.pk.sharers), pendingInval)
     ELSE h1

\* handleSnoop of the cache, for a packet just snooped or one an MSHR kept.
handleSnoop(h, a, pkt, deferred, pendingInval) ==
  LET b  == h.blk[a]
      h1 == CASE pkt.cmd \in Clean /\ b.V /\ b.D ->
                   [writecleanBlk(h, a, pkt.src) EXCEPT !.pk.satisfied = TRUE]
              [] pkt.cmd \in Clean /\ ~(b.V /\ b.D) -> h
              [] pkt.cmd \notin Clean /\ ~b.V ->
                   Check(h, ~deferred, "deferred snoop without a block")
              [] OTHER -> snoopBlock(h, a, pkt, deferred, pendingInval)
  IN IF b.V /\ pkt.cmd \in Invalidating THEN invalidateBlock(h1, a) ELSE h1

\* In timing mode the writeback of a snoop enters the write buffer at once.
handleTimingSnoop(h, a, pkt, deferred, pendingInval) ==
  LET s == handleSnoop([h EXCEPT !.wbs = <<>>], a, pkt, deferred, pendingInval)
  IN [doWritebacks(s) EXCEPT !.wbs = h.wbs]

\* The MSHR of the block, if there is one, may keep the snoop (deferred).
keepSnoop(h, a, s) ==
  [deferred |-> s.deferred,
   h |-> [h EXCEPT !.mshr[a] = s.mshr, !.order = @ + 1,
                   !.pk = [sharers |-> @.sharers \/ s.sharers,
                           responding |-> @.responding \/ s.responding,
                           satisfied |-> @.satisfied \/ s.satisfied]]]

snoopMSHR(h, a, pkt) ==
  IF hasMSHR(h, a) THEN keepSnoop(h, a, mshrHandleSnoop(h.mshr[a], pkt, h.order))
  ELSE [deferred |-> FALSE, h |-> h]

\* A block on its way out, entry i of the write buffer, answers like a block.
shareWriteback(h, pkt, i) ==
  IF pkt.cmd \in Reads \ Invalidating
  THEN [h EXCEPT !.pk.sharers = TRUE, !.wb[i].sharers = TRUE] ELSE h

supplyWriteback(h, a, pkt, i) ==
  IF h.wb[i].cmd # "WritebackDirty" THEN h
  ELSE doTimingSupplyResponse([h EXCEPT !.pk.responding = TRUE], a, pkt,
                              h.wb[i].data, h.pk.sharers, FALSE)

dropWriteback(h, pkt, i) ==
  IF pkt.cmd \in Invalidating /\ h.wb[i].cmd # "WriteClean" THEN markWBInService(h, i) ELSE h

snoopWriteBuffer(h, a, pkt) ==
  IF ~inWriteBuffer(h, a) THEN h
  ELSE LET i == wbIndex(h, a)
       IN dropWriteback(supplyWriteback(shareWriteback(h, pkt, i), a, pkt, i), pkt, i)

\* Faulty variant: the write buffer is not searched.
recvTimingSnoopReqBlockOnly(h, a, pkt) ==
  LET r == snoopMSHR(h, a, pkt)
  IN IF r.deferred THEN r.h ELSE handleTimingSnoop(r.h, a, pkt, FALSE, FALSE)

snoopUnlessDeferred(r, a, pkt) ==
  IF r.deferred THEN r.h
  ELSE handleTimingSnoop(snoopWriteBuffer(r.h, a, pkt), a, pkt, FALSE, FALSE)

\* recvTimingSnoopReq: the MSHR may keep the snoop; then the write buffer is
\* snooped, and then the block itself.
recvTimingSnoopReq(h, a, pkt) == snoopUnlessDeferred(snoopMSHR(h, a, pkt), a, pkt)

(***************************************************************************)
(* Responses.                                                              *)
(***************************************************************************)
\* An invalidating response, unless it answers a whole-line write.
invalidatingResp(m, resp) == resp.cmd \in Invalidating /\ ~m.wasWholeLineWrite

\* A snoop the MSHR m kept, served now that the response has come.
serviceSnoop(h, a, m, resp, t) ==
  handleTimingSnoop(Check(h, \/ ~invalidatingResp(m, resp) \/ m.postInvalidate
                              \/ resp.cmd \in {"InvalidateResp"} \cup Clean,
                          "snoop after an invalidating response"),
                    a, t.pkt, TRUE, m.postInvalidate)

\* A request of the core, answered from the block or, when the response was not
\* for this cache, from the response.
answerTarget(h, a, m, resp, t) ==
  IF h.blk[a].V /\ (~m.isForward \/ resp.cmd \notin Reads)
  THEN LET h1 == satisfyAndAnswer(h, a, t.pkt)
       IN IF t.pkt.cmd = "LockedRMWReadReq"     \* until its write comes
          THEN [h1 EXCEPT !.blk[a].R = FALSE, !.blk[a].W = FALSE] ELSE h1
  ELSE Answer(IF invalidatingResp(m, resp) THEN invalidateBlock(h, a) ELSE h, t.pkt,
              resp.data, t.pkt.cmd \notin {"StoreCondReq", "StoreCondFailReq"})

\* A hardware prefetch has nobody to answer.
servicePrefetch(h, t) == Check(h, t.pkt.cmd = "HardPFReq", "not a prefetch")

\* One target of the MSHR m, served by the response.
serviceTarget(h, a, m, resp, t) ==
  LET b == h.blk[a]
  IN CASE t.source = "FromSnoop" -> serviceSnoop(h, a, m, resp, t)
       [] t.source = "FromPrefetcher" -> servicePrefetch(h, t)
       [] t.source = "FromCPU" /\ t.pkt.cmd = "SoftPFReq" -> h
       [] t.source = "FromCPU" /\ t.pkt.cmd = "SoftPFExReq" ->
            [Check(h, b.V, "exclusive prefetch without a block") EXCEPT !.blk[a].D = TRUE]
       [] OTHER -> answerTarget(Check(h, t.pkt.cmd = "WriteLineReq" => b.V /\ b.W,
                                      "whole-line write without a writable block"),
                                a, m, resp, t)

\* What the response and the snoops seen meanwhile leave of the block.
settleBlock(h, a, m, resp) ==
  IF ~h.blk[a].V \/ hasLockedRMWReadTarget(h.mshr[a]) THEN h
  ELSE IF invalidatingResp(m, resp) \/ m.postInvalidate THEN invalidateBlock(h, a)
  ELSE IF m.postDowngrade THEN [h EXCEPT !.blk[a].W = FALSE]
  ELSE h

\* Faulty variant: a downgrade seen while the miss was out is forgotten.
serviceMSHRTargetsOwned(h, a, resp) ==
  LET fake == resp.cmd = "LockedRMWWriteResp"
      m == IF fake THEN [h.mshr[a] EXCEPT !.targets.ts = Tail(@)] ELSE h.mshr[a]
      e == extractServiceableTargets(m, resp.cmd)
      h1 == FoldLeft(LAMBDA hh, t : serviceTarget(hh, a, m, resp, t),
                     [h EXCEPT !.mshr[a] = e.mshr], e.ready)
  IN settleBlock(h1, a, [m EXCEPT !.postDowngrade = FALSE], resp)

\* Every target the response can serve, then what the snoops left to do.
serviceMSHRTargets(h, a, resp) ==
  LET fake == resp.cmd = "LockedRMWWriteResp"
      m == IF fake THEN [h.mshr[a] EXCEPT !.targets.ts = Tail(@)] ELSE h.mshr[a]
      e == extractServiceableTargets(m, resp.cmd)
      h1 == FoldLeft(LAMBDA hh, t : serviceTarget(hh, a, m, resp, t),
                     [Check(h, fake => hasLockedRMWReadTarget(h.mshr[a]), "no locked read")
                        EXCEPT !.mshr[a] = e.mshr], e.ready)
  IN settleBlock(h1, a, m, resp)

\* NoncoherentCache::serviceMSHRTargets: the block is writable now, so the
\* response serves all of them.
noTargetLeft(h, a) == Check(h, getNumTargets(h.mshr[a]) = 0, "target left behind")
noncoherentServiceTargets(h, a, resp) ==
  LET e  == extractServiceableTargets(h.mshr[a], resp.cmd)
      serve(hh, t) ==
        CASE t.source = "FromPrefetcher" -> servicePrefetch(hh, t)
          [] t.source = "FromCPU" -> satisfyAndAnswer(hh, a, t.pkt)
          [] OTHER -> Check(hh, FALSE, "snoop of a noncoherent cache")
  IN noTargetLeft(FoldLeft(serve, [h EXCEPT !.mshr[a] = e.mshr], e.ready), a)

\* NoncoherentCache::recvTimingResp: it only sends reads.
noncoherentResp(resp) == resp.cmd = "ReadResp" /\ ~resp.sharers

\* The deferred targets that the response, and the block, can serve after all.
promoteReaders(h, a, resp) ==
  IF h.blk[a].V /\ resp.cmd = "CleanSharedResp"
  THEN [h EXCEPT !.blk[a].R = TRUE, !.mshr[a] = promoteReadable(@)] ELSE h

promoteTo(h, a, m) ==
  [Check(h, m = h.mshr[a] \/ ~h.mshr[a].targets.needsWritable, "promoted twice")
     EXCEPT !.mshr[a] = m]

promoteWriters(h, a, resp) ==
  IF h.blk[a].V /\ h.blk[a].W /\ resp.cmd # "CleanInvalidResp"
  THEN promoteTo(h, a, promoteWritable(h.mshr[a])) ELSE h

promoteTargets(h, a, resp) ==
  IF hasLockedRMWReadTarget(h.mshr[a]) THEN h
  ELSE promoteWriters(promoteReaders(h, a, resp), a, resp)

\* The port was blocked because this MSHR had no room for another target.
freeTargets(h, a) ==
  IF h.noTarget = {a} THEN clearBlocked([h EXCEPT !.noTarget = {}], "NoTargets") ELSE h

\* A response with data, or the permission to write the whole block, fills it.
fillIfNeeded(h, a, resp, victim) ==
  LET m == h.mshr[a]
      fill == /\ ~m.isForward
              /\ resp.cmd \in Reads \cup {"UpgradeResp"} \/ m.wasWholeLineWrite
      allocate == h.cfg.writeAllocator /\ m.wasWholeLineWrite => h.stream.mode # "NO_ALLOCATE"
  IN Check(IF fill THEN handleFill(h, a, resp, victim, allocate) ELSE h,
           m.wasWholeLineWrite => resp.cmd \in Invalidating,
           "whole-line write answered otherwise")

serviceResponse(h, a, resp) ==
  IF h.cfg.coherent THEN serviceMSHRTargets(promoteTargets(h, a, resp), a, resp)
  ELSE noncoherentServiceTargets(
         promoteTargets(Check(h, noncoherentResp(resp), "not a read response"), a, resp),
         a, resp)

\* The MSHR is sent again for the targets left, or freed.
resendOrFree(h, a) ==
  IF h.mshr[a].targets.ts # <<>> \/ h.mshr[a].deferred.ts # <<>>
  THEN markPending([h EXCEPT !.mshr[a] = promoteDeferredTargets(@), !.blk[a].R = FALSE], a)
  ELSE deallocateMSHR(h, a)

\* The temporary block does not outlive the response.
evictTemporary(h, a) == IF a \in h.temp THEN evictBlock(h, a) ELSE h

\* Unless the MSHR stays with a locked read whose write has not come yet.
closeResponse(h, a) ==
  IF hasLockedRMWReadTarget(h.mshr[a]) THEN h ELSE evictTemporary(resendOrFree(h, a), a)

\* recvTimingResp: fill the block, move up the deferred targets the response can
\* serve, serve, then send again for the rest or free the MSHR.
recvTimingResp(h, a, resp, victim) ==
  doWritebacks(closeResponse(
    serviceResponse(fillIfNeeded(freeTargets(h, a), a, resp, victim), a, resp), a))

(***************************************************************************)
(* Requests of the core, continued: the dispatch.                          *)
(***************************************************************************)
\* MSHRQueue::markInService: off the ready list.
markMissInService(h, a, pendingModifiedResp, forward) ==
  [h EXCEPT !.mshr[a] = markMSHRInService(@, pendingModifiedResp, forward),
            !.ready = SelectSeq(@, LAMBDA x : x # a)]

\* A hit of a locked read takes an MSHR all the same, so that snoops wait for
\* the locked write, which then answers the MSHR itself.
lockMSHR(h, a, pkt) ==
  allocateMissBuffer(Check(h, ~hasMSHR(h, a), "locked read with a miss"), a, [pkt EXCEPT !.id = 0])

keepLocked(h, a, pkt) ==
  CASE pkt.cmd = "LockedRMWReadReq" ->
         [markMissInService(lockMSHR(h, a, pkt), a, FALSE, FALSE)
            EXCEPT !.blk[a].R = FALSE, !.blk[a].W = FALSE]
    [] pkt.cmd = "LockedRMWWriteReq" ->
         recvTimingResp(h, a, [cmd |-> "LockedRMWWriteResp", data |-> Garbage,
                               sharers |-> FALSE, responding |-> FALSE], a)
    [] OTHER -> h

handleTimingReqHit(h, a, pkt) == keepLocked(satisfyAndAnswer(h, a, pkt), a, pkt)

promoteWholeLineWrites(pkt) ==
  IF pkt.cmd = "WriteReq" /\ pkt.bytes = Bytes THEN [pkt EXCEPT !.cmd = "WriteLineReq"] ELSE pkt

\* NoncoherentCache::recvTimingReq: only reads and writes come this far down.
noncoherentReq(h, req) == Check(h, req.cmd \in Reads \cup Writes, "not a read or a write")

\* The write of a locked read-modify-write finds the block its read left locked.
unlockBlock(h, a, pkt) ==
  IF pkt.cmd # "LockedRMWWriteReq" THEN h
  ELSE [Check(h, h.blk[a].V /\ a \notin h.temp /\ ~h.blk[a].R /\ ~h.blk[a].W,
              "locked block lost") EXCEPT !.blk[a].R = TRUE, !.blk[a].W = TRUE]

hitOrMiss(h, a, pkt) ==
  CASE accessHits(h, a, pkt) -> handleTimingReqHit(h, a, pkt)
    [] ~accessHits(h, a, pkt) /\ pkt.cmd = "StoreCondReq" /\ ~h.blk[a].V ->
         Answer(h, pkt, Garbage, FALSE)
    [] OTHER -> IF h.cfg.coherent THEN handleTimingReqMissOrPrefetch(h, a, pkt)
                ELSE noncoherentReqMiss(h, a, pkt)

acceptReq(h, a, pkt) == hitOrMiss(unlockBlock(h, a, pkt), a, pkt)

\* recvTimingReq: a hit is answered, a store conditional without a block fails,
\* the rest waits in an MSHR.
recvTimingReq(h, a, pkt) ==
  acceptReq(IF h.cfg.coherent THEN h ELSE noncoherentReq(h, pkt), a,
            IF h.cfg.coherent THEN promoteWholeLineWrites(pkt) ELSE pkt)

(***************************************************************************)
(* Sending a miss.                                                         *)
(***************************************************************************)
\* createMissPacket: the request for the block, or the core's own request
\* forwarded as it is ("a forward").
createMissPacket(b, cpu, needsWritable, whole) ==
  LET cmd == IF whole THEN "InvalidateReq"
             ELSE IF b.V THEN IF cpu.cmd \in Llsc THEN "SCUpgradeReq" ELSE "UpgradeReq"
             ELSE IF cpu.cmd = "StoreCondFailReq" THEN "SCUpgradeFailReq"
             ELSE IF needsWritable THEN "ReadExReq" ELSE "ReadSharedReq"
  IN IF cpu.cmd \in Clean
     THEN [forward |-> TRUE, cmd |-> cpu.cmd, ok |-> TRUE]
     ELSE [forward |-> FALSE, cmd |-> cmd,
           ok |-> /\ cpu.cmd = "WriteLineReq" => whole
                  /\ b.V => ~b.W /\ (whole \/ needsWritable)]

\* NoncoherentCache::createMissPacket: a read of the block, whatever is missing.
noncoherentMissPacket(b) == [forward |-> FALSE, cmd |-> "ReadReq", ok |-> ~b.V]

MissPacket(h, a) ==
  LET m == h.mshr[a]
  IN IF ~h.cfg.coherent THEN noncoherentMissPacket(h.blk[a])
     ELSE createMissPacket(h.blk[a], getTarget(m).pkt, m.targets.needsWritable,
                           isWholeLineWrite(m.targets))

\* While it coalesces a stream of writes the write allocator holds back the miss
\* of a partly written block.
Coalescing(h, a) ==
  /\ h.cfg.writeAllocator /\ h.stream.mode # "ALLOCATE"
  /\ getTarget(h.mshr[a]).pkt.cmd \in Writes

HeldBack(h, a) ==
  Coalescing(h, a) /\ ~isWholeLineWrite(h.mshr[a].targets) /\ h.delayCtr[a] > 0

\* Faulty variant: the miss also keeps its place.
delayMSHRTwice(h, a) == [h EXCEPT !.delayCtr[a] = @ - 1, !.ready = Append(@, a)]

delayMSHR(h, a) ==     \* mshrQueue.delay: behind the other misses
  [h EXCEPT !.delayCtr[a] = @ - 1, !.ready = Append(SelectSeq(@, LAMBDA x : x # a), a)]

\* markInService of a miss, after the crossbar took the packet and every other
\* cache has snooped it; a clean request also writes the dirty block down.
sendMSHRQueuePacket(h, a, c, p, flags) ==
  LET whole == isWholeLineWrite(h.mshr[a].targets)
      h1 == [markMissInService(Check(h, p.ok, "miss packet for a usable block"), a,
                               ~flags.sharers /\ flags.responding, p.forward)
               EXCEPT !.stream = IF Coalescing(h, a) /\ ~whole THEN resetMode ELSE @,
                      !.delayCtr[a] = IF Coalescing(h, a) /\ whole THEN 0 ELSE @]
  IN IF p.cmd \in Clean /\ h.blk[a].D THEN doWritebacks(writecleanBlk(h1, a, c)) ELSE h1
=============================================================================
