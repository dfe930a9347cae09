------------------------------ MODULE DataCache ------------------------------
(***************************************************************************)
(* data_cache: the L1 and L2 data caches.  data_cache::access probes the   *)
(* tags and process_tag_probe calls the read or write function the         *)
(* configuration selects; there is one action for each of them.  A request *)
(* answered with RESERVATION_FAIL leaves the cache as it was: every        *)
(* function checks for room before its first change.                       *)
(***************************************************************************)
EXTENDS BaselineCache

(* update_m_readable: a sector all of whose bytes are dirty is readable.   *)
UpdateReadable(line, s) ==
  IF {s} \X Byte \subseteq line.dirty_byte_mask THEN SetReadable(line, s, TRUE)
  ELSE line

Written(line, r) == SetByteMask(SetStatus(line, r.sec, "MODIFIED"), MaskOf(r))

FullWrite(r) == r.bytes = Byte

-----------------------------------------------------------------------------
(* Write hits *)

WriteHitCommon(m, r, p) ==
  LET new == UpdateReadable(Written(lines[p.idx], r), r.sec)
  IN  /\ lines' = [lines EXCEPT ![p.idx] = PinIfDeferred(new)]
      /\ dirty' = DirtyAfter(dirty, lines[p.idx], new)
      /\ is_used' = TRUE
      /\ RespondToHit(m, p.idx)

WrHitWriteBack(m, r, p) ==
  /\ \/ policy.write = "WRITE_BACK"
     \/ policy.write = "LOCAL_WB_GLOBAL_WT" /\ ~r.global
  /\ WriteHitCommon(m, r, p)
  /\ unsent' = unsent \cup BytesOf(r)
  /\ UNCHANGED <<policy, mshrVars, missVars, closed>>
  /\ Accept(m, r)

WrHitWriteThrough(m, r, p) ==
  /\ policy.write = "WRITE_THROUGH"
  /\ ~MissQueueFull(0)
  /\ WriteHitCommon(m, r, p)
  /\ miss_queue' = Append(miss_queue, WriteEntry(m, r))
  /\ unsent' = unsent \ BytesOf(r)
  /\ UNCHANGED <<policy, mshrVars, extra_mf_fields, closed>>
  /\ Accept(m, r)

WrHitWriteEvict(m, r, p) ==
  /\ \/ policy.write = "WRITE_EVICT"
     \/ policy.write = "LOCAL_WB_GLOBAL_WT" /\ r.global
  /\ ~MissQueueFull(0)
  /\ miss_queue' = Append(miss_queue, WriteEntry(m, r))
  /\ lines' = [lines EXCEPT ![p.idx] =
                 PinIfDeferred(SetStatus(@, r.sec, "INVALID"))]
  /\ RespondToHit(m, p.idx)
  /\ unsent' = unsent \ BytesOf(r)
  /\ UNCHANGED <<policy, dirty, is_used, mshrVars, extra_mf_fields, closed>>
  /\ Accept(m, r)

-----------------------------------------------------------------------------
(* Write misses *)

(* wr_miss_wa_naive: the write itself, the read of the line, and the write *)
(* back of what that evicts.                                               *)
WrMissNaive(m, r, p) ==
  LET t == TagAccess(p, r.blk, r.sec) IN
  /\ policy.write_alloc = "WRITE_ALLOCATE"
  /\ p.st # "RESERVATION_FAIL"
  /\ ~MissQueueFull(2)
  /\ ReadRequestFits(KeyOf(r), 0)
  /\ SendReadRequest(m, r, p.idx, <<WriteEntry(m, r)>>, WriteBack(t))
  /\ lines' = [lines EXCEPT ![p.idx] = PinIfDeferred(t.line)]
  /\ dirty' = t.dirty
  /\ is_used' = TRUE
  /\ unsent' = unsent \ (BytesOf(r) \cup WrittenBack(t))
  /\ UNCHANGED <<policy, closed>>
  /\ Accept(m, r)

(* wr_miss_wa_fetch_on_write, a write of the whole atom: no read is sent.  *)
WrMissFetchFull(m, r, p) ==
  LET t   == TagAccess(p, r.blk, r.sec)
      new == Written(t.line, r)
  IN  /\ policy.write_alloc = "FETCH_ON_WRITE"
      /\ FullWrite(r)
      /\ p.st # "RESERVATION_FAIL"
      /\ ~MissQueueFull(0)
      /\ lines' = [lines EXCEPT ![p.idx] = new]
      /\ dirty' = DirtyAfter(t.dirty, t.line, new)
      /\ is_used' = TRUE
      /\ miss_queue' = miss_queue \o WriteBack(t)
      /\ unsent' = (unsent \ WrittenBack(t)) \cup BytesOf(r)
      /\ UNCHANGED <<policy, mshrVars, extra_mf_fields, hitVars,
                     pending_response_indices, req, owed, closed>>

(* wr_miss_wa_fetch_on_write, a partial write: the bytes wait for the read *)
(* of the rest.                                                            *)
WrMissFetchPartial(m, r, p) ==
  LET t == TagAccess(p, r.blk, r.sec)
      k == KeyOf(r)
  IN  /\ policy.write_alloc = "FETCH_ON_WRITE"
      /\ ~FullWrite(r)
      /\ p.st # "RESERVATION_FAIL"
      /\ ~MissQueueFull(1)
      /\ ReadRequestFits(k, 0)
      /\ ~(MshrProbe(k) /\ IsReadAfterWritePending(k))
      /\ SendReadRequest(m, r, p.idx, <<>>, WriteBack(t))
      /\ lines' = [lines EXCEPT ![p.idx] =
                     SetModifiedOnFill(PinIfDeferred(t.line), r.sec)]
      /\ dirty' = t.dirty
      /\ is_used' = TRUE
      /\ unsent' = (unsent \ WrittenBack(t)) \cup BytesOf(r)
      /\ UNCHANGED <<policy, closed>>
      /\ Accept(m, r)

(* wr_miss_wa_lazy_fetch_on_read: the bytes are written at once; on a line *)
(* that waits for its fill, the fill will leave it modified.               *)
WrMissLazyFetch(m, r, p) ==
  LET t       == TagAccess(p, r.blk, r.sec)
      pending == p.st = "HIT_RESERVED"
      marked  == IF pending THEN SetModifiedOnFill(Written(t.line, r), r.sec)
                 ELSE Written(t.line, r)
      partial == ~FullWrite(r)
      told    == IF pending /\ partial THEN SetReadableOnFill(marked, r.sec)
                 ELSE marked
      through == policy.write = "WRITE_THROUGH"
      new     == UpdateReadable(SetReadable(told, r.sec, ~partial), r.sec)
  IN  /\ policy.write_alloc = "LAZY_FETCH_ON_READ"
      /\ p.st # "RESERVATION_FAIL"
      /\ ~MissQueueFull(0)
      /\ lines' = [lines EXCEPT ![p.idx] = new]
      /\ dirty' = DirtyAfter(t.dirty, t.line, new)
      /\ is_used' = TRUE
      /\ miss_queue' = miss_queue \o
           (IF through THEN <<WriteEntry(m, r)>> ELSE <<>>) \o WriteBack(t)
      /\ unsent' = IF through THEN unsent \ BytesOf(r)
                   ELSE (unsent \ WrittenBack(t)) \cup BytesOf(r)
      /\ UNCHANGED <<policy, mshrVars, extra_mf_fields, hitVars,
                     pending_response_indices, owed, closed>>
      /\ Accept(m, r)

(* wr_miss_no_wa: also when the probe found no line to allocate.           *)
WrMissNoAllocate(m, r, p) ==
  /\ policy.write_alloc = "NO_WRITE_ALLOCATE"
  /\ ~MissQueueFull(0)
  /\ miss_queue' = Append(miss_queue, WriteEntry(m, r))
  /\ unsent' = unsent \ BytesOf(r)
  /\ UNCHANGED <<policy, tagVars, mshrVars, extra_mf_fields, hitVars,
                 pending_response_indices, owed, closed>>
  /\ Accept(m, r)

-----------------------------------------------------------------------------
(* Reads *)

RdHitBase(m, r, p) ==
  /\ lines' = [lines EXCEPT ![p.idx] = PinIfDeferred(@)]
  /\ is_used' = TRUE
  /\ RespondToHit(m, p.idx)
  /\ UNCHANGED <<policy, dirty, mshrVars, missVars, unsent, closed>>
  /\ Accept(m, r)

RdMissBase(m, r, p) ==
  LET t == TagAccess(p, r.blk, r.sec) IN
  /\ p.st # "RESERVATION_FAIL"
  /\ ~MissQueueFull(1)
  /\ SendReadRequest(m, r, p.idx, <<>>, WriteBack(t))
  /\ lines' = [lines EXCEPT ![p.idx] = PinIfDeferred(t.line)]
  /\ dirty' = t.dirty
  /\ is_used' = TRUE
  /\ unsent' = unsent \ WrittenBack(t)
  /\ UNCHANGED <<policy, closed>>
  /\ Accept(m, r)

(* data_cache::access and process_tag_probe *)
WriteAccess(m, r, p) ==
  \/ /\ p.st = "HIT"
     /\ \/ WrHitWriteBack(m, r, p)
        \/ WrHitWriteThrough(m, r, p)
        \/ WrHitWriteEvict(m, r, p)
  \/ /\ p.st # "HIT"
     /\ \/ WrMissNaive(m, r, p)
        \/ WrMissFetchFull(m, r, p)
        \/ WrMissFetchPartial(m, r, p)
        \/ WrMissLazyFetch(m, r, p)
        \/ WrMissNoAllocate(m, r, p)

ReadAccess(m, r, p) ==
  \/ p.st = "HIT" /\ RdHitBase(m, r, p)
  \/ p.st # "HIT" /\ RdMissBase(m, r, p)

DataAccess(m, r) ==
  /\ policy.write # "READ_ONLY"
  /\ FreeMf(m) /\ ~closed
  /\ r.wr => dirty < MaxDirty
  /\ \E p \in Probe(r.blk, r.sec, r.wr) :
        /\ AccessAllowed(p)
        /\ p.st = "HIT" => ~HitResponseQueueFull
        /\ IF r.wr THEN WriteAccess(m, r, p) ELSE ReadAccess(m, r, p)

=============================================================================
