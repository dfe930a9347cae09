----------------------------- MODULE CacheStats -----------------------------
(***************************************************************************)
(* cache_stats, the sums the simulator prints of it, and the bandwidth of  *)
(* the two ports of a cache: pure operators on records.  The counters      *)
(* m_stats, m_stats_pw and m_fail_stats, arrays by access type and outcome *)
(* in a map by stream, are bags of <<stream, type, outcome>>: a counter    *)
(* that is zero and a stream that has no arrays are both absent.           *)
(***************************************************************************)
EXTENDS Naturals, Bags, BagsExt

cache_request_status ==
  {"HIT", "HIT_RESERVED", "MISS", "RESERVATION_FAIL", "SECTOR_MISS", "MSHR_HIT"}

(* LINE_ALLOC_FAIL when every way is reserved, LINE_PINNED_FAIL when one   *)
(* of them is pinned; MSHR_RW_PENDING is for writes.                       *)
cache_reservation_fail_reason ==
  {"LINE_ALLOC_FAIL", "MISS_QUEUE_FULL", "MSHR_ENRTY_FAIL",
   "MSHR_MERGE_ENRTY_FAIL", "MSHR_RW_PENDING", "LINE_PINNED_FAIL",
   "HIT_RESPONSE_QUEUE_FULL"}

(* Of the access types those the per-window sums tell apart, the local     *)
(* accesses, and the read that a write miss allocates.                     *)
mem_access_type ==
  {"GLOBAL_ACC_R", "CONST_ACC_R", "INST_ACC_R", "GLOBAL_ACC_W",
   "LOCAL_ACC_R", "LOCAL_ACC_W", "L1_WR_ALLOC_R"}

check_valid(type, status) ==
  type \in mem_access_type /\ status \in cache_request_status
check_fail_valid(type, fail) ==
  type \in mem_access_type /\ fail \in cache_reservation_fail_reason

cache_stats ==
  [ m_stats |-> EmptyBag, m_stats_pw |-> EmptyBag, m_fail_stats |-> EmptyBag,
    port_available |-> 0, data_port_busy |-> 0, fill_port_busy |-> 0 ]

clear(s) == cache_stats
clear_pw(s) == [s EXCEPT !.m_stats_pw = EmptyBag]

inc_stats(s, type, outcome, stream) ==
  [s EXCEPT !.m_stats = BagAdd(@, <<stream, type, outcome>>)]
inc_stats_pw(s, type, outcome, stream) ==
  [s EXCEPT !.m_stats_pw = BagAdd(@, <<stream, type, outcome>>)]

inc_fail_stats(s, type, fail, stream) ==
  [s EXCEPT !.m_fail_stats = BagAdd(@, <<stream, type, fail>>)]

(* A pending hit and a sector miss are counted as such, although the core  *)
(* is told MISS.                                                           *)
select_stats_status(probe, access) ==
  IF \/ probe = "HIT_RESERVED" /\ access # "RESERVATION_FAIL"
     \/ probe = "SECTOR_MISS" /\ access = "MISS"
  THEN probe ELSE access

(* sample_cache_port_utility, once in every cycle.                         *)
sample_cache_port_utility(s, data_port_busy, fill_port_busy) ==
  [s EXCEPT !.port_available = @ + 1,
            !.data_port_busy = IF data_port_busy THEN @ + 1 ELSE @,
            !.fill_port_busy = IF fill_port_busy THEN @ + 1 ELSE @]

-----------------------------------------------------------------------------
(* Reading and adding up *)

Only(b, S) == [e \in DOMAIN b \cap S |-> b[e]]
StreamsOf(b) == {e[1] : e \in DOMAIN b}
OfStreams(b, S) == Only(b, {e \in DOMAIN b : e[1] \in S})

(* operator(): one counter, of the failures or of the outcomes.            *)
stat(s, type, outcome, fail_outcome, stream) ==
  LET b == IF fail_outcome THEN s.m_fail_stats ELSE s.m_stats
      e == <<stream, type, outcome>>
  IN  IF BagIn(e, b) THEN b[e] ELSE 0

ReadThrough(s, S) ==
  [e \in {x \in DOMAIN s.m_stats : x[1] \in S} |->
     stat(s, e[2], e[3], FALSE, e[1])]

(* operator+.  Where both sides know a stream the outcomes of the window   *)
(* are read through operator(), which returns those of the whole run.      *)
plus(a, c) ==
  LET both == StreamsOf(a.m_stats_pw) \cap StreamsOf(c.m_stats_pw) IN
  [ m_stats      |-> a.m_stats (+) c.m_stats,
    m_stats_pw   |-> a.m_stats_pw
                       (+) OfStreams(c.m_stats_pw, StreamsOf(c.m_stats_pw) \ both)
                       (+) ReadThrough(c, both),
    m_fail_stats |-> a.m_fail_stats (+) c.m_fail_stats,
    port_available |-> a.port_available + c.port_available,
    data_port_busy |-> a.data_port_busy + c.data_port_busy,
    fill_port_busy |-> a.fill_port_busy + c.fill_port_busy ]

(* Faulty variant of plusEq: a stream that is already known is skipped.    *)
plusEqNew(a, c) ==
  [plus(a, c) EXCEPT
     !.m_stats = a.m_stats (+)
        OfStreams(c.m_stats, StreamsOf(c.m_stats) \ StreamsOf(a.m_stats))]

(* operator+= repeats operator+ in place, the reading of the window's      *)
(* outcomes included.                                                      *)
plusEq(a, c) == plus(a, c)

CountOf(b, types, outcomes) ==
  BagCardinality(Only(b, {e \in DOMAIN b : e[2] \in types /\ e[3] \in outcomes}))

get_stats(s, types, statuses) == CountOf(s.m_stats, types, statuses)
get_fail_stats(s, type, fail) == CountOf(s.m_fail_stats, {type}, {fail})

Accesses == {"HIT", "MISS", "SECTOR_MISS", "HIT_RESERVED"}
Misses   == {"MISS", "SECTOR_MISS"}

get_sub_stats(s) ==
  LET sum(outcomes) == get_stats(s, mem_access_type, outcomes) IN
  [ accesses |-> sum(Accesses), misses |-> sum(Misses),
    pending_hits |-> sum({"HIT_RESERVED"}),
    res_fails |-> sum({"RESERVATION_FAIL"}),
    port_available |-> s.port_available, data_port_busy |-> s.data_port_busy,
    fill_port_busy |-> s.fill_port_busy ]

(* get_sub_stats_pw: reads and global writes of the window; the other      *)
(* types count among the accesses only.                                    *)
get_sub_stats_pw(s) ==
  LET sum(types, outcomes) == CountOf(s.m_stats_pw, types, outcomes)
      reads  == {"GLOBAL_ACC_R", "CONST_ACC_R", "INST_ACC_R"}
      writes == {"GLOBAL_ACC_W"}
  IN  [ accesses           |-> sum(mem_access_type, Accesses),
        read_hits          |-> sum(reads, {"HIT"}),
        write_hits         |-> sum(writes, {"HIT"}),
        read_misses        |-> sum(reads, Misses),
        write_misses       |-> sum(writes, Misses),
        read_pending_hits  |-> sum(reads, {"HIT_RESERVED"}),
        write_pending_hits |-> sum(writes, {"HIT_RESERVED"}),
        read_res_fails     |-> sum(reads, {"RESERVATION_FAIL"}),
        write_res_fails    |-> sum(writes, {"RESERVATION_FAIL"}) ]

NoSubStatsPw == get_sub_stats_pw(cache_stats)

(* cache_sub_stats::operator+= and +.                                      *)
subPlus(a, c) == [f \in DOMAIN a |-> a[f] + c[f]]

(* cache_sub_stats_pw::operator+ starts from zeros and += from a; neither  *)
(* adds the hits.                                                          *)
Hits == {"read_hits", "write_hits"}
subPlusPw(a, c)   == [f \in DOMAIN a |-> IF f \in Hits THEN 0 ELSE a[f] + c[f]]
subPlusEqPw(a, c) == [f \in DOMAIN a |-> IF f \in Hits THEN a[f] ELSE a[f] + c[f]]

-----------------------------------------------------------------------------
(* bandwidth_management *)

bandwidth == [data |-> 0, fill |-> 0]

data_port_free(b) == b.data = 0
fill_port_free(b) == b.fill = 0

(* Cycles the port needs for a request: rounded up for a hit, down for the *)
(* modified bytes of a write back.                                         *)
hit_data_cycles(data_size, port_width) ==
  data_size \div port_width + (IF data_size % port_width > 0 THEN 1 ELSE 0)

use_data_port(b, outcome, data_size, written_back, port_width) ==
  CASE outcome = "HIT" ->
         [b EXCEPT !.data = @ + hit_data_cycles(data_size, port_width)]
    [] outcome \in {"HIT_RESERVED", "MISS"} ->
         [b EXCEPT !.data = @ + written_back \div port_width]
    [] OTHER -> b

use_fill_port(b, atom_sz, port_width) ==
  [b EXCEPT !.fill = @ + atom_sz \div port_width]

replenish_port_bandwidth(b) ==
  [p \in DOMAIN b |-> IF b[p] > 0 THEN b[p] - 1 ELSE 0]

hit_response_latency(data_size, port_width) ==
  LET cycles == hit_data_cycles(data_size, port_width)
  IN  IF cycles = 0 THEN 1 ELSE cycles

=============================================================================
