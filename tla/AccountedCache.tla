--------------------------- MODULE AccountedCache ---------------------------
(***************************************************************************)
(* A cache of gpu_cache_ref with its books: the counters of the tag array, *)
(* cache_stats, and the cycles its two ports are occupied.  The steps are  *)
(* those of BaselineCache, ReadOnlyCache and DataCache; a request that is  *)
(* answered with RESERVATION_FAIL leaves the cache as it was and is        *)
(* counted with its reason.                                                *)
(***************************************************************************)
EXTENDS ReadOnlyCache, DataCache, CacheStats

CONSTANTS StreamOf,     \* the CUDA stream of a request, by its block
          PortWidth,    \* m_data_port_width, in bytes
          MaxCycles,    \* bound on the cycles a caller makes
          MaxWindows    \* bound on the ends of windows and kernels

ASSUME BookAssumption ==
  PortWidth \in Nat \ {0} /\ MaxCycles \in Nat /\ MaxWindows \in Nat

VARIABLES
  tag_count,     \* tag_array: m_access, m_miss, m_sector_miss, m_pending_hit,
                 \*   and m_prev_snapshot_access and _miss
  stats,         \* m_stats of the cache
  total,         \* the sum the simulator keeps over kernels
  ports,         \* bandwidth_management
  seen           \* history: what access has returned, the requests that went
                 \*   to the MSHRs, the fills and the windows that are closed

bookVars == <<tag_count, stats, total, ports, seen>>

TagCounters == {"access", "miss", "sector_miss", "pending_hit", "prev_access", "prev_miss"}

BookInit ==
  /\ tag_count = [c \in TagCounters |-> 0]
  /\ stats = cache_stats
  /\ total = cache_stats
  /\ ports = bandwidth
  /\ seen = [ HIT |-> 0, MISS |-> 0, RESERVATION_FAIL |-> 0,
              asked |-> 0, fills |-> 0, windows |-> 0,
              window |-> NoSubStatsPw ]

TypeOf(r) == IF r.wr THEN IF r.global THEN "GLOBAL_ACC_W" ELSE "LOCAL_ACC_W"
             ELSE IF r.global THEN "GLOBAL_ACC_R" ELSE "LOCAL_ACC_R"

DataSize(r) == Cardinality(r.bytes)
AtomSz == Cardinality(Byte) * (IF policy.type = "SECTOR" THEN 1 ELSE Cardinality(Sector))

(* get_modified_size: the modified sectors; the whole line without them.   *)
ModifiedSize(line) ==
  Cardinality(Byte) *
    Cardinality(IF policy.type = "SECTOR"
                THEN {s \in Sector : line.status[s] = "MODIFIED"} ELSE Sector)

-----------------------------------------------------------------------------
(* Which functions of the cache a request goes through *)

WriteMiss(r, p) == r.wr /\ p.st # "HIT"
PartialFetch(r) == policy.write_alloc = "FETCH_ON_WRITE" /\ ~FullWrite(r)

(* A write that a write-evict cache hits, and one that allocates nothing,  *)
(* are not an access of the tag array.                                     *)
Evicts(r) == \/ policy.write = "WRITE_EVICT"
             \/ policy.write = "LOCAL_WB_GLOBAL_WT" /\ r.global
AccessesTags(r, p) ==
  ~(r.wr /\ IF p.st = "HIT" THEN Evicts(r)
            ELSE policy.write_alloc = "NO_WRITE_ALLOCATE")

(* The request goes on to send_read_request.                               *)
SendsRead(r, p) ==
  /\ p.st # "HIT"
  /\ ~r.wr \/ policy.write_alloc = "WRITE_ALLOCATE" \/ PartialFetch(r)

(* The places of the miss queue a function asks for on top of the first,   *)
(* and whether it asks at all.                                             *)
QueueRoom(r, p) ==
  CASE ~r.wr -> IF policy.write = "READ_ONLY" THEN 0 ELSE 1
    [] WriteMiss(r, p) /\ policy.write_alloc = "WRITE_ALLOCATE" -> 2
    [] WriteMiss(r, p) /\ PartialFetch(r) -> 1
    [] OTHER -> 0
UsesQueue(r, p) ==
  p.st # "HIT" \/ (r.wr /\ (policy.write = "WRITE_THROUGH" \/ Evicts(r)))

(* tag_array::last_fail_reason after a probe that found no way to take.    *)
last_fail_reason(b) ==
  IF \E i \in Ways(b) : IsPinned(lines[i])
  THEN "LINE_PINNED_FAIL" ELSE "LINE_ALLOC_FAIL"

(* The reason the cache gives for refusing r, "" if it takes it.           *)
RefusalReason(r, p) ==
  LET k == KeyOf(r) IN
  CASE p.st = "HIT" /\ HitResponseQueueFull -> "HIT_RESPONSE_QUEUE_FULL"
    [] /\ p.st = "RESERVATION_FAIL"
       /\ ~(r.wr /\ policy.write_alloc = "NO_WRITE_ALLOCATE") ->
         last_fail_reason(r.blk)
    [] UsesQueue(r, p) /\ MissQueueFull(QueueRoom(r, p)) -> "MISS_QUEUE_FULL"
    [] SendsRead(r, p) /\ MshrFull(k) ->
         IF MshrProbe(k) THEN "MSHR_MERGE_ENRTY_FAIL" ELSE "MSHR_ENRTY_FAIL"
    [] OTHER -> ""

-----------------------------------------------------------------------------
(* Counting *)

Bump(c) == [tag_count EXCEPT ![c] = @ + 1, !.access = @ + 1]

(* tag_array::access: the counters.                                        *)
CountTagAccess(r, p) ==
  tag_count' =
    IF ~AccessesTags(r, p) THEN tag_count
    ELSE CASE p.st = "HIT_RESERVED" -> Bump("pending_hit")
           [] p.st = "MISS"         -> Bump("miss")
           [] p.st = "SECTOR_MISS"  -> Bump("sector_miss")
           [] OTHER -> [tag_count EXCEPT !.access = @ + 1]

(* The end of an access: one outcome, for the run and for the window.      *)
Counted(s, r, p, outcome) ==
  LET st == select_stats_status(p.st, outcome)
  IN  inc_stats_pw(inc_stats(s, TypeOf(r), st, StreamOf[r.blk]), TypeOf(r), st, StreamOf[r.blk])

(* A request that joins an MSHR entry is counted as MSHR_HIT as well, in   *)
(* the run only, and the read of a write miss under its own type.          *)
CountedMerge(r, p) ==
  IF SendsRead(r, p) /\ MshrProbe(KeyOf(r))
  THEN inc_stats(stats, IF r.wr THEN "L1_WR_ALLOC_R" ELSE TypeOf(r), "MSHR_HIT",
                 StreamOf[r.blk])
  ELSE stats

Returned(outcome, r, p) ==
  [seen EXCEPT ![outcome] = @ + 1,
               !.asked = IF outcome = "MISS" /\ SendsRead(r, p) THEN @ + 1 ELSE @]

(* The data port is used by data caches only.  A read miss reports the     *)
(* write back it caused without the size of the evicted block.             *)
PortsAfter(r, p, outcome) ==
  LET written == IF /\ r.wr /\ p.st = "MISS" /\ AccessesTags(r, p)
                    /\ WriteBack(TagAccess(p, r.blk, r.sec)) # <<>>
                 THEN ModifiedSize(lines[p.idx]) ELSE 0
  IN  IF policy.write = "READ_ONLY" THEN ports
      ELSE use_data_port(ports, outcome, DataSize(r), written, PortWidth)

(* The latency of a deferred hit follows from the size of the request.     *)
LatencyOf(r, outcome) ==
  outcome = "HIT" /\ policy.defer =>
    hit_response_queue'[Len(hit_response_queue')].remaining_cycles =
      hit_response_latency(DataSize(r), PortWidth)

CacheAccess(m, r, p) ==
  IF policy.write = "READ_ONLY"
  THEN ~r.wr /\ (ReadOnlyHit(m, r, p) \/ ReadOnlyMiss(m, r, p))
  ELSE IF r.wr THEN WriteAccess(m, r, p) ELSE ReadAccess(m, r, p)

(* access, when the cache takes the request.                               *)
AccessTaken(m, r, p) ==
  LET outcome == IF p.st = "HIT" THEN "HIT" ELSE "MISS" IN
  /\ FreeMf(m)
  /\ r.wr => dirty < MaxDirty
  /\ AccessAllowed(p)
  /\ RefusalReason(r, p) = ""
  /\ CacheAccess(m, r, p)
  /\ LatencyOf(r, outcome)
  /\ CountTagAccess(r, p)
  /\ stats' = Counted(CountedMerge(r, p), r, p, outcome)
  /\ ports' = PortsAfter(r, p, outcome)
  /\ seen' = Returned(outcome, r, p)
  /\ UNCHANGED total

(* access, when it answers RESERVATION_FAIL.                               *)
AccessRefused(r, p) ==
  /\ policy.write = "READ_ONLY" => ~r.wr
  /\ AccessAllowed(p)
  /\ RefusalReason(r, p) # ""
  /\ stats' = Counted(inc_fail_stats(stats, TypeOf(r), RefusalReason(r, p),
                                     StreamOf[r.blk]),
                      r, p, "RESERVATION_FAIL")
  /\ seen' = Returned("RESERVATION_FAIL", r, p)
  /\ UNCHANGED <<vars, tag_count, total, ports>>

(* cycle, also one in which the queues have nothing to do.                 *)
AccountedCycle(portFull) ==
  /\ \/ Cycle(portFull)
     \/ /\ hit_response_queue = <<>>
        /\ miss_queue = <<>> \/ portFull
        /\ UNCHANGED vars
  /\ stats' = sample_cache_port_utility(stats, ~data_port_free(ports), ~fill_port_free(ports))
  /\ ports' = replenish_port_bandwidth(ports)
  /\ UNCHANGED <<tag_count, total, seen>>

AccountedFill(m) ==
  /\ Fill(m)
  /\ ports' = use_fill_port(ports, AtomSz, PortWidth)
  /\ seen' = [seen EXCEPT !.fills = @ + 1]
  /\ UNCHANGED <<tag_count, stats, total>>

AccountedNextAccess == NextAccess /\ UNCHANGED bookVars

(* tag_array::get_stats.                                                   *)
TagStats ==
  [ total_access |-> tag_count.access,
    total_misses |-> tag_count.miss + tag_count.sector_miss,
    total_hit_res |-> tag_count.pending_hit ]

-----------------------------------------------------------------------------
(* What the simulator does with the books *)

(* The end of a sampling window: the window's sums are taken, then         *)
(* new_window and clear_pw.                                                *)
NewWindow ==
  /\ seen.windows < MaxWindows
  /\ tag_count' = [tag_count EXCEPT !.prev_access = tag_count.access,
                                    !.prev_miss = TagStats.total_misses]
  /\ stats' = clear_pw(stats)
  /\ seen' = [seen EXCEPT !.windows = @ + 1,
                          !.window = subPlusEqPw(@, get_sub_stats_pw(stats))]
  /\ UNCHANGED <<vars, total, ports>>

(* The end of a kernel: its counters are added to the total and cleared.   *)
CollectStats ==
  /\ seen.windows < MaxWindows
  /\ total' = plusEq(total, stats)
  /\ stats' = clear(stats)
  /\ seen' = [seen EXCEPT !.windows = @ + 1,
                          !.window = subPlusEqPw(@, get_sub_stats_pw(stats))]
  /\ UNCHANGED <<vars, tag_count, ports>>

=============================================================================
