----------------------------- MODULE Gem5System -----------------------------
(* Coherent gem5 caches, one per core, on a crossbar with a memory behind   *)
(* it.  The caches are Gem5Cache; crossbar, memory and cores are external,  *)
(* and do what base.cc and cache.cc rely on: a request sent is snooped by   *)
(* every other cache before the call returns, is answered by the cache that *)
(* promised to respond or else by the memory, and the answer arrives some   *)
(* time later; the crossbar answers a clean request once the block written  *)
(* down has passed.                                                         *)
EXTENDS Gem5Atomic

CONSTANTS MaxRequests,   \* bound: requests of all cores together
          Menus          \* what a behaviour may contain: req, the requests of each core;
                         \* prefetch, the blocks the prefetchers ask for;
                         \* atomic, the mode; cfg, the parameters of the caches;
                         \* mostlyExcl, the clusivity of the cache below

VARIABLES cache,    \* the state of each cache
          net,      \* the response on its way to each cache's MSHR, per block
          below,    \* the memory, a version of every byte, and the cache above it
          menu,     \* the member of Menus this behaviour follows
          pend,     \* requests accepted and not yet answered
          waiting,  \* the request each core was refused, if any
          rmw,      \* the blocks each core holds between a locked read and write
          nreq,     \* requests issued so far
          ver,      \* history: the last version written of every byte
          ll,       \* history: what each core's last load-linked saw
          viol      \* history: broken promises to a core

vars == <<cache, net, below, menu, pend, waiting, rmw, nreq, ver, ll, viol>>

NoResp  == [cmd |-> "None", responding |-> FALSE, sharers |-> FALSE,
            data |-> Garbage, wait |-> FALSE]
NoFlags == [sharers |-> FALSE, responding |-> FALSE, satisfied |-> FALSE]

Init ==
  /\ menu \in Menus
  /\ cache = [c \in Caches |-> InitCache]
  /\ net = [c \in Caches |-> [a \in Addrs |-> NoResp]]
  /\ ver = [a \in Addrs |-> [b \in Bytes |-> 1]]
  /\ below = [llc |-> [a \in Addrs |-> NoBlk], mem |-> ver, mostlyExcl |-> menu.mostlyExcl]
  /\ pend = {} /\ waiting = [c \in Caches |-> {}] /\ nreq = 0
  /\ rmw = [c \in Caches |-> {}]
  /\ ll = [c \in Caches |-> ver] /\ viol = {}

\* A handler of cache c starts from Enter(c); Leave is what it leaves behind.
Enter(c) == cache[c] @@ [ans |-> <<>>, sup |-> <<>>, wbs |-> <<>>, pk |-> NoFlags,
                         cfg |-> menu.cfg, ver |-> ver, ll |-> ll[c], bad |-> FALSE]
\* The counter order only orders what is queued: it starts again when nothing is.
Leave(h) ==
  LET idle == h.wb = <<>> /\ \A a \in Addrs : ~hasMSHR(h, a)
  IN [f \in DOMAIN InitCache |-> IF f = "order" /\ idle THEN 0 ELSE h[f]]

\* The answers of a handler reach the core: each must answer a pending request,
\* and a read may not return a version older than the read itself.
Answered(c, h, asked) ==
  LET ids == {h.ans[i].id : i \in DOMAIN h.ans}
      known == {p.id : p \in asked}
      stale == \E i \in DOMAIN h.ans : \E p \in asked :
                 /\ p.id = h.ans[i].id /\ p.cmd \in Reads
                 /\ \E b \in Bytes : h.ans[i].data[b] < p.since[b]
      kept == \E i \in DOMAIN h.ans : \E p \in asked :
                p.id = h.ans[i].id /\ p.cmd \in Maintenance /\ ~p.sent
  IN /\ pend' = {p \in asked : p.id \notin ids}
     /\ viol' = viol \cup (IF stale THEN {"stale read"} ELSE {})
                     \cup (IF ids \subseteq known /\ Cardinality(ids) = Len(h.ans)
                           THEN {} ELSE {"unasked answer"})
                     \cup (IF kept THEN {"maintenance not forwarded"} ELSE {})
                     \cup (IF h.bad THEN {"torn read-modify-write"} ELSE {})
     /\ ver' = h.ver
     /\ ll' = [ll EXCEPT ![c] = h.ll]

Supply(n, sup) ==      \* the snoop responses enter the crossbar
  FoldLeft(LAMBDA x, s : [x EXCEPT ![s.to][s.addr] =
             [cmd |-> s.cmd, responding |-> s.responding, sharers |-> s.sharers,
              data |-> s.data, wait |-> FALSE]], n, sup)

\* A handler of cache c ended in h, with n in the crossbar before it.
Handled(c, h, asked, n) ==
  /\ cache' = [cache EXCEPT ![c] = Leave(h)]
  /\ Answered(c, h, asked)
  /\ net' = Supply(n, h.sup)

Packet(c, r) == [cmd |-> r.cmd, bytes |-> r.bytes, id |-> r.id, src |-> c]

Asked(c, r) == {[id |-> r.id, c |-> c, cmd |-> r.cmd, sent |-> FALSE, since |-> ver[r.addr]]}

\* The requests core c may issue now.  A locked read is issued with nothing else
\* outstanding, and after it only its write, which MaxRequests does not count.
Issue(c) ==
  LET mine == {p \in pend : p.c = c} IN
  IF rmw[c] # {}
  THEN {[cmd |-> "LockedRMWWriteReq", bytes |-> {1}, addr |-> a, id |-> nreq + 1] :
          a \in IF mine = {} THEN rmw[c] ELSE {}}
  ELSE {q @@ [id |-> nreq + 1] : q \in {x \in menu.req[c] :
          nreq < MaxRequests /\ (x.cmd = "LockedRMWReadReq" => mine = {})}}

Hold(c, r) == rmw' = [rmw EXCEPT ![c] =
                CASE r.cmd = "LockedRMWReadReq" -> {r.addr}
                  [] r.cmd = "LockedRMWWriteReq" -> {} [] OTHER -> @]

\* CpuSidePort::recvTimingReq with tryTiming: a blocked port, or one that owes
\* a retry, refuses.
Request(c) ==
  /\ waiting[c] = {} /\ ~menu.atomic
  /\ nreq' = nreq + 1
  /\ \E r \in Issue(c) :
       /\ Hold(c, r)
       /\ IF cache[c].blocked # {} \/ cache[c].mustSendRetry
          THEN /\ cache' = [cache EXCEPT ![c].mustSendRetry = TRUE]
               /\ waiting' = [waiting EXCEPT ![c] = {r}]
               /\ UNCHANGED <<net, pend, ver, ll, viol>>
          ELSE /\ Handled(c, recvTimingReq(Enter(c), r.addr, Packet(c, r)),
                          pend \cup Asked(c, r), net)
               /\ UNCHANGED waiting
  /\ UNCHANGED <<below, menu>>

\* processSendRetry: the core sends the refused request again at once.
SendRetry(c) ==
  /\ cache[c].retryEvent
  /\ \E r \in waiting[c] :
       Handled(c, recvTimingReq([Enter(c) EXCEPT !.retryEvent = FALSE, !.mustSendRetry = FALSE],
                                r.addr, Packet(c, r)),
               pend \cup Asked(c, r), net)
  /\ waiting' = [waiting EXCEPT ![c] = {}]
  /\ UNCHANGED <<below, menu, rmw, nreq>>

\* What the crossbar knows of a packet while the other caches snoop it.
SnoopStart(pk, b) == [caches |-> cache, sup |-> <<>>, pk |-> pk, below |-> b]

\* One other cache, d, snooped the packet and ended in h.
Snooped(acc, d, h) ==
  [acc EXCEPT !.caches[d] = Leave(h), !.pk = h.pk, !.sup = @ \o h.sup]

SnoopOthers(c, a, pkt, start) ==
  FoldLeft(LAMBDA acc, d : Snooped(acc, d, recvTimingSnoopReq([Enter(d) EXCEPT !.pk = acc.pk], a, pkt)),
           start, SetToSeq(Caches \ {c}))

SnoopPacket(c, cmd) == [cmd |-> cmd, bytes |-> {}, id |-> 0, src |-> c]

\* The packet p of an MSHR of cache c, in the state h0, was snooped by the others.
MissSent(h0, c, a, p, s) ==
  /\ cache' = [s.caches EXCEPT ![c] = Leave(sendMSHRQueuePacket(h0, a, c, p, s.pk))]
  /\ net' = IF s.pk.responding THEN Supply(net, s.sup)
            ELSE [net EXCEPT ![c][a] = [cmd |-> RespCmd(p.cmd), responding |-> FALSE,
                    sharers |-> s.pk.sharers, data |-> below.mem[a], wait |-> s.pk.satisfied]]
  /\ pend' = {[q EXCEPT !.sent = @ \/ q.id = getTarget(h0.mshr[a]).pkt.id] : q \in pend}
  /\ UNCHANGED <<below, menu, waiting, rmw, ver, ll, viol>>

\* sendDeferredPacket with an MSHR: the crossbar takes the packet.
SendPacket(h0, c, a, p) ==
  MissSent(h0, c, a, p,
           SnoopOthers(c, a, SnoopPacket(c, p.cmd),
             SnoopStart([NoFlags EXCEPT !.satisfied = p.cmd \in Clean /\ h0.blk[a].D], below)))

SendMiss(h0, c, a) == SendPacket(h0, c, a, MissPacket(h0, a))

\* The write allocator waits for the rest of the line.
DelayMiss(c, a) ==
  /\ cache' = [cache EXCEPT ![c] = Leave(delayMSHR(Enter(c), a))]
  /\ UNCHANGED <<net, below, menu, pend, waiting, rmw, nreq, ver, ll, viol>>

\* sendDeferredPacket with a write buffer entry.
SendWrite(c, i) ==
  LET w == cache[c].wb[i]
      h == markWBInService(Enter(c), i)
  IN /\ cache' = [cache EXCEPT ![c] = Leave(h)]
     /\ below' = IF w.cmd = "CleanEvict" THEN below
                 ELSE [below EXCEPT !.mem[w.addr] = w.data]
     /\ net' = [d \in Caches |-> IF d \in w.cmo THEN [net[d] EXCEPT ![w.addr].wait = FALSE]
                                 ELSE net[d]]
     /\ UNCHANGED <<menu, pend, waiting, rmw, nreq, ver, ll, viol>>

\* sendDeferredPacket with the entry e that getNextQueueEntry chose.
SendEntry(c, e) ==
  \/ e[1] = "mshr" /\ HeldBack(Enter(c), e[2]) /\ DelayMiss(c, e[2])
  \/ e[1] = "mshr" /\ ~HeldBack(Enter(c), e[2]) /\ SendMiss(Enter(c), c, e[2]) /\ UNCHANGED nreq
  \/ e[1] = "wb" /\ SendWrite(c, e[2])

Send(c) ==
  \E mshrReady, wbReady \in BOOLEAN : SendEntry(c, getNextQueueEntry(Enter(c), mshrReady, wbReady))

\* The prefetcher's turn: the MSHR is allocated and sent at once.  A prefetch
\* counts as a request for the bound.
Prefetch(c) ==
  /\ ~menu.atomic /\ nreq < MaxRequests
  /\ nreq' = nreq + 1
  /\ \E a \in menu.prefetch :
       /\ mayPrefetch(cache[c], a)
       /\ SendMiss(allocateMissBuffer(Enter(c), a, [cmd |-> "HardPFReq", bytes |-> {},
                                                    id |-> 0, src |-> c]), c, a)

Victims(c, a) ==       \* the tags may pick any block
  IF Full(cache[c]) /\ ~cache[c].blk[a].V THEN Cached(cache[c]) ELSE {a}

\* MemSidePort::recvTimingResp: a response arrives.
Deliver(c, a) ==
  /\ net[c][a] # NoResp /\ ~net[c][a].wait
  /\ \E v \in Victims(c, a) :
       Handled(c, recvTimingResp(Enter(c), a, net[c][a], v), pend,
               [net EXCEPT ![c][a] = NoResp])
  /\ UNCHANGED <<below, menu, waiting, rmw, nreq>>

\* recvAtomic: the whole access, the snoops of the other caches included.  One
\* of them, d, snooped the packet and ended in h.
AtomicSnooped(acc, d, h) ==
  [Snooped(acc, d, h) EXCEPT !.below = doWritebacksAtomic(@, h.wbs)]

AtomicSnoopOthers(c, a, pkt, start) ==
  FoldLeft(LAMBDA acc, d :
             AtomicSnooped(acc, d, recvAtomicSnoop([Enter(d) EXCEPT !.pk = acc.pk], a, pkt)),
           start, SetToSeq(Caches \ {c}))

\* The response ends the access in h, with b below.
AtomicDone(c, s, h, b) ==
  [h |-> h, caches |-> [s.caches EXCEPT ![c] = Leave(h)], below |-> doWritebacksAtomic(b, h.wbs)]

MemResp(p, s, data) ==
  [cmd |-> RespCmd(p.cmd), responding |-> FALSE, sharers |-> s.pk.sharers, data |-> data]

\* The packet p was snooped (s); a cache answers, or what is below (r).
AtomicResp(c, h, a, pkt, p, v, s, r) ==
  CASE s.pk.responding ->
         AtomicDone(c, s, handleAtomicResp(h, a, pkt, p, s.sup[1], v), s.below)
    [] ~s.pk.responding /\ RespCmd(p.cmd) \in Reads ->
         AtomicDone(c, s, handleAtomicResp(h, a, pkt, p, MemResp(p, s, r.data), v), r.below)
    [] OTHER ->
         AtomicDone(c, s, handleAtomicResp(h, a, pkt, p, MemResp(p, s, Garbage), v), s.below)

AtomicSnoopsDone(c, h, a, pkt, p, v, s) == AtomicResp(c, h, a, pkt, p, v, s, llcRead(s.below, a))

\* From the packet on; h has written its own dirty block down if p cleans it.
AtomicSend(c, h, a, pkt, p, v) ==
  AtomicSnoopsDone(c, [h EXCEPT !.wbs = <<>>], a, pkt, p, v,
    AtomicSnoopOthers(c, a, SnoopPacket(c, p.cmd),
                      SnoopStart(NoFlags, doWritebacksAtomic(below, h.wbs))))

AtomicPacket(c, a, pkt, p, v) ==
  AtomicSend(c, IF p.cmd \in Clean /\ cache[c].blk[a].D THEN writecleanBlk(Enter(c), a, c)
                ELSE Enter(c), a, pkt, p, v)

AtomicMiss(c, a, pkt, v) ==
  AtomicPacket(c, a, pkt, createMissPacket(cache[c].blk[a], pkt, pkt.cmd \in NeedsWritable,
                                           pkt.cmd = "WriteLineReq"), v)

\* A hit, a store conditional without a block, or a miss.
AtomicAccess(c, a, pkt, v) ==
  LET here(h) == [h |-> h, caches |-> [cache EXCEPT ![c] = Leave(h)], below |-> below]
  IN CASE accessHits(cache[c], a, pkt) -> here(satisfyAndAnswer(Enter(c), a, pkt))
       [] ~accessHits(cache[c], a, pkt) /\ pkt.cmd = "StoreCondReq" /\ ~cache[c].blk[a].V ->
            here(Answer(Enter(c), pkt, Garbage, FALSE))
       [] OTHER -> AtomicMiss(c, a, pkt, v)

Atomic(c) ==
  /\ menu.atomic
  /\ nreq' = nreq + 1
  /\ \E r \in Issue(c) : \E v \in Victims(c, r.addr) :
       \E x \in {AtomicAccess(c, r.addr, promoteWholeLineWrites(Packet(c, r)), v)} :
         /\ Answered(c, x.h, pend \cup Asked(c, r))
         /\ cache' = x.caches /\ below' = x.below
  /\ UNCHANGED <<net, menu, waiting, rmw>>

Idle(c) == /\ cache[c].wb = <<>> /\ waiting[c] = {} /\ rmw[c] = {}
           /\ \A a \in Addrs : ~hasMSHR(cache[c], a)

\* memWriteback of every cache, then memInvalidate, of a drained system.
Flush ==
  /\ \A c \in Caches : Idle(c)
  /\ \E c \in Caches, a \in Addrs : cache[c].blk[a].V
  /\ cache' = [c \in Caches |-> invalidateVisitor(cache[c])]
  /\ below' = LET s == FoldSet(LAMBDA c, t : writebackVisitor(t, cache[c]), below, Caches)
              IN FoldSet(LAMBDA a, t : llcEvict(t, a), s, Addrs)
  /\ UNCHANGED <<net, menu, pend, waiting, rmw, nreq, ver, ll, viol>>

\* serialize and unserialize: the contents of the caches are not part of a
\* checkpoint, and one that was taken with a dirty block is not restored.
isDirty(blks) == \E a \in Addrs : blks[a].D

Restore ==
  /\ \A c \in Caches : Idle(c) /\ ~isDirty(cache[c].blk)
  /\ ~isDirty(below.llc)
  /\ cache' = [c \in Caches |-> InitCache]
  /\ below' = [below EXCEPT !.llc = [a \in Addrs |-> NoBlk]]
  /\ UNCHANGED <<net, menu, pend, waiting, rmw, nreq, ver, ll, viol>>

Next == \/ \E c \in Caches : \/ Request(c) \/ SendRetry(c) \/ Send(c) \/ Prefetch(c) \/ Atomic(c)
                             \/ \E a \in Addrs : Deliver(c, a)
        \/ Flush
        \/ Restore

Spec == Init /\ [][Next]_vars

(***************************************************************************)
(* Properties.                                                             *)
(***************************************************************************)
\* The types of the caches' state; the ready list of the MSHR queue names a
\* block once.
G5TypeOK ==
  /\ \A c \in Caches : /\ DOMAIN cache[c] = DOMAIN InitCache
                       /\ IsInjective(cache[c].ready) /\ Range(cache[c].ready) \subseteq Addrs
                       /\ cache[c].blocked \subseteq {"NoMSHRs", "NoWBBuffers", "NoTargets"}
                       /\ \A a \in Addrs : DOMAIN cache[c].mshr[a] = DOMAIN FreeMSHR
  /\ nreq \in 0..(MaxRequests + Cardinality(Caches))

\* No assertion or panic of base.cc, cache.cc, mshr.cc and the queues fails.
G5AssertionsHold == \A c \in Caches : cache[c].err = {}

\* A cache with a writable block is the only one with a valid block, and every
\* valid block holds the last version written of every byte.
Coherent ==
  \A c \in Caches, a \in Addrs : cache[c].blk[a].V =>
    /\ cache[c].blk[a].data = ver[a]
    /\ cache[c].blk[a].W => \A d \in Caches \ {c} : ~cache[d].blk[a].V

\* A read never returns data older than the read: no write that completed
\* before the read was accepted is missed.
NoStaleRead == "stale read" \notin viol

\* Each request is answered once.
AnsweredOnce == "unasked answer" \notin viol

\* A store conditional succeeds, and a locked write lands, only on the value the
\* core's load-linked or locked read saw: nobody wrote the block in between.
RmwAtomic == "torn read-modify-write" \notin viol

\* A maintenance operation is always forwarded to the memory below before it is
\* answered (in executions no assertion stops).
MaintenanceForwarded == G5AssertionsHold => "maintenance not forwarded" \notin viol

\* The last version written is in the memory, or in a dirty block or writeback,
\* or travels with the response that hands over ownership.
NoWriteLost ==
  \A a \in Addrs :
    \/ below.mem[a] = ver[a]
    \/ below.llc[a].D /\ below.llc[a].data = ver[a]
    \/ \E c \in Caches :
         \/ cache[c].blk[a].V /\ cache[c].blk[a].D
         \/ \E i \in DOMAIN cache[c].wb :
              /\ cache[c].wb[i].addr = a /\ cache[c].wb[i].data = ver[a]
              /\ cache[c].wb[i].cmd \in {"WritebackDirty", "WriteClean"}
         \/ /\ net[c][a].responding /\ ~net[c][a].sharers
            /\ CASE net[c][a].cmd = "InvalidateResp" -> TRUE
                 [] net[c][a].cmd = "UpgradeResp" -> cache[c].blk[a].V
                 [] OTHER -> net[c][a].data = ver[a]

\* A refused request is never forgotten: the port owes its core a retry, and
\* sends it unless it is blocked.
RetryOwed ==
  \A c \in Caches : waiting[c] # {} =>
    cache[c].mustSendRetry /\ (cache[c].blocked # {} \/ cache[c].retryEvent)

\* When nothing is left to send, deliver or retry, every request has been
\* answered: no MSHR waits for a response that will not come, no deferred
\* target and no refused request is left behind.
NothingStuck ==
  (\A c \in Caches :
     /\ rmw[c] = {} /\ cache[c].ready = <<>> /\ cache[c].wb = <<>> /\ ~cache[c].retryEvent
     /\ \A a \in Addrs : net[c][a] = NoResp \/ net[c][a].wait)
  => /\ pend = {}
     /\ \A c \in Caches : waiting[c] = {} /\ cache[c].blocked = {}
                          /\ \A a \in Addrs : ~hasMSHR(cache[c], a)
=============================================================================
