----------------------------- MODULE Gem5Atomic -----------------------------
(* Atomic mode of the gem5 caches, and the cache below the crossbar in it:  *)
(* a NoncoherentCache (gem5_cache/src/mem/cache/noncoherent_cache.cc) on    *)
(* the way to the memory.  An access runs to its end in one call, so the    *)
(* operators here work on the state of the requesting cache (h, as in       *)
(* Gem5Cache) and on what is below, s = [llc, mem, mostlyExcl].             *)
EXTENDS Gem5Cache

CONSTANT LlcWays        \* blocks the cache below can hold

ASSUME AtomicAssumption == LlcWays \in Nat \ {0}

(***************************************************************************)
(* NoncoherentCache.                                                       *)
(***************************************************************************)
\* evictBlock: only a dirty block is written to the memory.
llcEvict(s, v) ==
  [s EXCEPT !.llc[v] = NoBlk, !.mem[v] = IF s.llc[v].D THEN s.llc[v].data ELSE @]

\* allocateBlock; which victim the tags pick is of no concern here.
llcAllocate(s, a) ==
  LET held == {x \in Addrs : s.llc[x].V}
  IN IF s.llc[a].V \/ Cardinality(held) < LlcWays THEN s
     ELSE llcEvict(s, CHOOSE x \in held : TRUE)

\* access of BaseCache with a writeback or a WriteClean: it needs no copy.
accessWriteback(s, w) ==
  [llcAllocate(s, w.addr) EXCEPT !.llc[w.addr] =
     [@ EXCEPT !.V = TRUE, !.R = TRUE, !.data = w.data,
               !.D = @ \/ w.cmd \in {"WritebackDirty", "WriteClean"}]]

\* access of NoncoherentCache: the block it writes is writable.
llcWrite(s, w) == [accessWriteback(s, w) EXCEPT !.llc[w.addr].W = TRUE]

\* maintainClusivity, after the block went to a cache above.
maintainClusivity(s, a) ==
  IF s.mostlyExcl /\ ~s.llc[a].D THEN [s EXCEPT !.llc[a] = NoBlk] ELSE s

\* recvAtomic with a read of a cache above, handleAtomicReqMiss included.
llcRead(s, a) ==
  LET s1 == IF s.llc[a].V THEN s
            ELSE [llcAllocate(s, a) EXCEPT !.llc[a] =
                    [NoBlk EXCEPT !.V = TRUE, !.R = TRUE, !.W = TRUE, !.data = s.mem[a]]]
  IN [data |-> s1.llc[a].data, below |-> maintainClusivity(s1, a)]

\* A functional write of a cache above updates the block and goes on.
functionalWrite(s, a, data) ==
  [s EXCEPT !.llc[a] = IF @.V THEN [@ EXCEPT !.data = data] ELSE @, !.mem[a] = data]

(***************************************************************************)
(* Cache.                                                                  *)
(***************************************************************************)
\* The crossbar drops a CleanEvict: nobody below tracks the block.
doWritebacksAtomic(s, wbs) ==
  FoldLeft(LAMBDA t, w : IF w.cmd = "CleanEvict" THEN t ELSE llcWrite(t, w), s, wbs)

recvAtomicSnoop(h, a, pkt) == handleSnoop(h, a, pkt, FALSE, FALSE)

\* handleAtomicReqMiss, from the response on.
handleAtomicResp(h, a, pkt, p, resp, victim) ==
  IF p.forward
  THEN Answer(IF resp.cmd \in Invalidating /\ h.blk[a].V THEN invalidateBlock(h, a) ELSE h,
              pkt, resp.data, TRUE)
  ELSE satisfyAndAnswer(handleFill(Check(h, p.ok, "miss packet for a usable block"), a, resp,
                                   victim, TRUE), a, pkt)

\* writebackVisitor and invalidateVisitor over the blocks of a cache that is
\* drained: memWriteback and then memInvalidate.
writebackVisitor(s, h) ==
  FoldSet(LAMBDA a, t : IF h.blk[a].D THEN functionalWrite(t, a, h.blk[a].data) ELSE t,
          s, Addrs)

invalidateVisitor(h) == [h EXCEPT !.blk = [a \in Addrs |-> NoBlk]]
=============================================================================
