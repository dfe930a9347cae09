--------------------------- MODULE SimpleTwoLevel ---------------------------
(***************************************************************************)
(* Two users of an accounted cache.  In the mode "caller" the owner of the *)
(* cache calls access, cycle, fill and next_access in any order, closes    *)
(* sampling windows and collects the counters.  In the mode "two_level"    *)
(* it is SimpleTwoLevel of memory_system.h: a read-only L1 for the timing  *)
(* and two DataStores, l1_data and dram_data, for the bytes.  Its read is  *)
(* one call that accesses, cycles, answers, fills and drains; each of its  *)
(* loops is a value of pc here.                                            *)
(***************************************************************************)
EXTENDS GpuCache, AccountedCache, FiniteSetsExt

CONSTANTS
  Modes,          \* a subset of {"caller", "two_level"}
  DramBytes,      \* the blocks preloaded into dram_data, with their bytes
  Values,         \* the values write() stores
  MaxAccesses,    \* bound on the calls of access, for the caller
  MaxReads        \* and for SimpleTwoLevel::read

ASSUME TwoLevelAssumption ==
  /\ Modes \subseteq {"caller", "two_level"}
  /\ MaxAccesses \in Nat /\ MaxReads \in Nat

VARIABLES
  mode, pc,
  call,          \* the read under way: its request, token and status
  l1_data,       \* DataStore: the blocks it contains
  result,        \* what the last read returned
  rewritten      \* history: blocks written since their last copy from DRAM

systemVars == <<mode, pc, call, l1_data, result, rewritten>>
allVars == <<vars, bookVars, systemVars>>

Zero == [b \in Byte |-> 0]
NoCall == [r |-> NoReq, mf |-> NoMf, status |-> ""]

TwoLevelInit ==
  /\ Init
  /\ BookInit
  /\ mode \in Modes
  /\ mode = "two_level" => /\ policy.write = "READ_ONLY" /\ policy.type = "NORMAL"
                           /\ policy.alloc = "ON_MISS" /\ policy.mshr = "ASSOC"
  /\ pc = "idle"
  /\ call = NoCall
  /\ l1_data = << >>
  /\ result = Zero
  /\ rewritten = {}

AccessesLeft ==
  seen.HIT + seen.MISS + seen.RESERVATION_FAIL <
    IF mode = "caller" THEN MaxAccesses ELSE MaxReads

-----------------------------------------------------------------------------
(* DataStore *)

DataStoreContains(store, b) == b \in DOMAIN store
DataStoreRead(store, b) == IF b \in DOMAIN store THEN store[b] ELSE Zero
DataStoreWrite(store, b, data) ==
  [x \in DOMAIN store \cup {b} |-> IF x = b THEN data ELSE store[x]]

-----------------------------------------------------------------------------
(* Any caller *)

CallerStep ==
  /\ mode = "caller"
  /\ \/ /\ AccessesLeft
        /\ \E m \in Mf, r \in Issuable :
             \E p \in Probe(r.blk, r.sec, r.wr) : AccessTaken(m, r, p)
     \/ /\ AccessesLeft
        /\ \E r \in Issuable :
             \E p \in Probe(r.blk, r.sec, r.wr) : AccessRefused(r, p)
     \/ /\ stats.port_available + total.port_available < MaxCycles
        /\ \E portFull \in BOOLEAN : AccountedCycle(portFull)
     \/ \E m \in Mf : AccountedFill(m)
     \/ AccountedNextAccess
     \/ NewWindow
     \/ CollectStats
  /\ UNCHANGED systemVars

-----------------------------------------------------------------------------
(* SimpleTwoLevel::read *)

ReadAccessStep ==
  /\ mode = "two_level" /\ pc = "idle"
  /\ AccessesLeft
  /\ \E r \in Issuable : \E p \in Probe(r.blk, r.sec, FALSE) :
       /\ ~r.wr
       /\ \/ \E m \in Mf :
               /\ AccessTaken(m, r, p)
               /\ call' = [r |-> r, mf |-> m,
                           status |-> IF p.st = "HIT" THEN "HIT" ELSE "MISS"]
          \/ /\ AccessRefused(r, p)
             /\ call' = [r |-> r, mf |-> NoMf, status |-> "RESERVATION_FAIL"]
  /\ pc' = "cycle"
  /\ UNCHANGED <<mode, l1_data, result, rewritten>>

(* The DRAM interface takes 256 requests and is emptied by every miss.     *)
ReadCycle ==
  /\ pc = "cycle"
  /\ AccountedCycle(FALSE)
  /\ pc' = "answer"
  /\ UNCHANGED <<mode, call, l1_data, result, rewritten>>

(* A hit whose block is not in l1_data falls back on dram_data.            *)
AnswerHit ==
  /\ call.status = "HIT"
  /\ result' = IF DataStoreContains(l1_data, call.r.blk)
               THEN DataStoreRead(l1_data, call.r.blk)
               ELSE DataStoreRead(DramBytes, call.r.blk)
  /\ pc' = "drain"
  /\ UNCHANGED <<l1_data, rewritten>>

(* Faulty variant of AnswerMiss: the line is not copied to l1_data.        *)
AnswerMissNoCopy ==
  /\ call.status = "MISS"
  /\ result' = DataStoreRead(DramBytes, call.r.blk)
  /\ pc' = "fill"
  /\ UNCHANGED <<l1_data, rewritten>>

AnswerMiss ==
  /\ call.status = "MISS"
  /\ result' = DataStoreRead(DramBytes, call.r.blk)
  /\ l1_data' = DataStoreWrite(l1_data, call.r.blk, result')
  /\ rewritten' = rewritten \ {call.r.blk}
  /\ pc' = "fill"

AnswerRefused ==
  /\ call.status = "RESERVATION_FAIL"
  /\ result' = Zero
  /\ pc' = "drain"
  /\ UNCHANGED <<l1_data, rewritten>>

ReadAnswer ==
  /\ pc = "answer"
  /\ AnswerHit \/ AnswerMiss \/ AnswerRefused
  /\ UNCHANGED <<vars, bookVars, mode, call>>

ReadFill ==
  /\ pc = "fill"
  /\ IF \E m \in Mf : InMemory(m)
     THEN (\E m \in Mf : AccountedFill(m)) /\ UNCHANGED pc
     ELSE pc' = "drain" /\ UNCHANGED <<vars, bookVars>>
  /\ UNCHANGED <<mode, call, l1_data, result, rewritten>>

AccessReady == ready_response_queue # <<>> \/ current_response # <<>>

ReadDrain ==
  /\ pc = "drain"
  /\ IF AccessReady
     THEN AccountedNextAccess /\ UNCHANGED <<pc, call>>
     ELSE pc' = "idle" /\ call' = NoCall /\ UNCHANGED <<vars, bookVars>>
  /\ UNCHANGED <<mode, l1_data, result, rewritten>>

-----------------------------------------------------------------------------
(* SimpleTwoLevel::write reads, modifies and writes l1_data; the cache does *)
(* not hear of it.                                                         *)
WriteData ==
  /\ mode = "two_level" /\ pc = "idle"
  /\ \E blk \in Blk, byte \in Byte, v \in Values :
       LET old == IF DataStoreContains(l1_data, blk) THEN DataStoreRead(l1_data, blk)
                  ELSE DataStoreRead(DramBytes, blk)
       IN  /\ l1_data' = DataStoreWrite(l1_data, blk, [old EXCEPT ![byte] = v])
           /\ rewritten' = rewritten \cup {blk}
  /\ UNCHANGED <<vars, bookVars, mode, pc, call, result>>

(* flush_to_dram flushes the tags; no data is copied.                      *)
FlushToDram ==
  /\ mode = "two_level" /\ pc = "idle"
  /\ Flush
  /\ UNCHANGED <<bookVars, systemVars>>

TwoLevelNext ==
  \/ CallerStep
  \/ ReadAccessStep
  \/ ReadCycle
  \/ ReadAnswer
  \/ ReadFill
  \/ ReadDrain
  \/ WriteData
  \/ FlushToDram

TwoLevelSpec == TwoLevelInit /\ [][TwoLevelNext]_allVars

-----------------------------------------------------------------------------
(* Properties *)

(* The books agree with each other and with what happened, over kernels    *)
(* and windows: every outcome the callers were given is counted once and   *)
(* every refusal has one reason (cache_stats); tag_array counts the same   *)
(* misses and pending hits where every access touches the tags; a request  *)
(* for the MSHRs was merged, filled, or its fill is still due; the fill    *)
(* port was busy one cycle for every cycle the fills asked for.  The       *)
(* windows add up to the run: no access is lost or counted twice between   *)
(* two windows or at the end of a kernel.                                  *)
StatsAccount ==
  LET both == plus(total, stats)
      all == get_sub_stats(both)
      out == {m \in Mf : extra_mf_fields[m] # NoExtra}
      windows == subPlusPw(seen.window, get_sub_stats_pw(stats))
  IN  /\ all = subPlus(get_sub_stats(total), get_sub_stats(stats))
      /\ all.accesses = seen.HIT + seen.MISS
      /\ all.res_fails = seen.RESERVATION_FAIL
      /\ all.res_fails =
           MapThenSumSet(LAMBDA e : get_fail_stats(both, e[1], e[2]),
                         {<<e[2], e[3]>> : e \in DOMAIN both.m_fail_stats})
      /\ \A e \in DOMAIN stats.m_stats : check_valid(e[2], e[3])
      /\ \A e \in DOMAIN stats.m_fail_stats : check_fail_valid(e[2], e[3])
      /\ policy.write \in {"READ_ONLY", "WRITE_BACK"} =>
           TagStats = [ total_access |-> all.accesses, total_misses |-> all.misses,
                        total_hit_res |-> all.pending_hits ]
      /\ tag_count.prev_miss <= TagStats.total_misses
      /\ seen.asked = seen.fills + Cardinality(out)
                        + get_stats(both, mem_access_type, {"MSHR_HIT"})
      /\ seen.fills * (AtomSz \div PortWidth) = all.fill_port_busy + ports.fill
      /\ windows.accesses = all.accesses
      /\ windows.read_res_fails + windows.write_res_fails <= all.res_fails
      /\ windows.read_misses + windows.write_misses <= all.misses

(* A refusal passes: the cache refuses a request only while it holds work  *)
(* that will end (a request it still owes, or an entry of the miss queue), *)
(* and a read of SimpleTwoLevel only while a hit response counts down,     *)
(* which every retry brings nearer ("RESERVATION_FAIL - retry next cycle").*)
RefusedOnlyWhileBusy ==
  \A r \in Issuable : \A p \in Probe(r.blk, r.sec, r.wr) :
    RefusalReason(r, p) # "" =>
      /\ owed # {} \/ miss_queue # <<>>
      /\ mode = "two_level" /\ pc = "idle" => hit_response_queue # <<>>

(* Tags and data agree although they are kept apart: a read that hits      *)
(* finds its block in l1_data (the fall back on dram_data is dead), and    *)
(* unless write() changed the block it returns the bytes of the DRAM.      *)
HitFindsItsData ==
  call.status = "HIT" =>
    /\ DataStoreContains(l1_data, call.r.blk)
    /\ pc = "drain" /\ call.r.blk \notin rewritten =>
         result = DataStoreRead(DramBytes, call.r.blk)

=============================================================================
