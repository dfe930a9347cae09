------------------------------ MODULE GpuCache ------------------------------
(***************************************************************************)
(* A cache of gpu_cache_ref between a caller and the memory below: the     *)
(* read-only cache or the data cache, as the configuration says, with the  *)
(* operations they share.                                                  *)
(***************************************************************************)
EXTENDS ReadOnlyCache, DataCache

CONSTANT Requests    \* the requests the caller makes, a subset of Request

ASSUME RequestAssumption == Requests \subseteq Request

(* What a cache of this configuration can be asked.                        *)
Issuable == {r \in Requests : r.sec \in SectorsUsed}

Next ==
  \/ \E m \in Mf, r \in Issuable : ReadOnlyAccess(m, r)
  \/ \E m \in Mf, r \in Issuable : DataAccess(m, r)
  \/ BaselineNext

Spec == Init /\ [][Next]_vars

(* The memory answers every read and its port does not stay full, the      *)
(* simulator's main loop calls cycle every clock, and the caller takes     *)
(* responses as long as there are any.                                     *)
Fairness ==
  /\ WF_vars(Cycle(FALSE))
  /\ WF_vars(NextAccess)
  /\ \A m \in Mf : WF_vars(FillChunk(m) \/ Fill(m))

FairSpec == Spec /\ Fairness

-----------------------------------------------------------------------------
(* Properties *)

(* The types of all variables; m_dirty is unsigned, so a decrement below   *)
(* zero (tag_array::access, fill) would break it.                          *)
TypeOK ==
  /\ policy \in Policies
  /\ lines \in [Line -> CacheBlockT]
  /\ dirty \in Nat
  /\ is_used \in BOOLEAN
  /\ mshr \in [Key -> Seq(Mf)]
  /\ current_response \in Seq(Key)
  /\ miss_queue \in Seq(MissEntry)
  /\ extra_mf_fields \in [Mf -> ExtraFields \cup {NoExtra}]
  /\ hit_response_queue \in Seq([mf : Mf, remaining_cycles : Nat \ {0}])
  /\ ready_response_queue \in Seq(Mf)
  /\ pending_response_indices \in [Mf -> Line \cup {NoLine}]
  /\ req \in [Mf -> Request \cup {NoReq}]
  /\ owed \subseteq Mf
  /\ unsent \subseteq Key \X Byte
  /\ closed \in BOOLEAN

(* A line's pending_response_count is the number of accepted requests that *)
(* are recorded against it and not yet returned: pin_response and          *)
(* unpin_response balance on every path through a hit, a merge and a miss, *)
(* and no allocation resets the count of a line that is still needed.      *)
PinConsistency ==
  \A i \in Line :
     lines[i].pending_response_count =
       Cardinality({m \in Mf : pending_response_indices[m] = i})

(* Until next_access returns a request, the line it was accepted against   *)
(* still holds the block it asked for (allocation on miss).                *)
ResponseLineHolds ==
  policy.alloc = "ON_MISS" =>
    \A m \in Mf : pending_response_indices[m] # NoLine =>
      lines[pending_response_indices[m]].tag = req[m].blk

(* A fill, which writes the line by the index remembered at the miss,      *)
(* finds there the block that was read (allocation on miss).               *)
FillFindsItsLine ==
  policy.alloc = "ON_MISS" =>
    \A m \in Mf : extra_mf_fields[m] # NoExtra =>
      lines[extra_mf_fields[m].idx].tag = extra_mf_fields[m].key[1]

(* A reserved sector waits for a fill that is on its way, when hits are    *)
(* deferred until their data can be read (m_defer_hit_response, the        *)
(* default): no sector stays RESERVED because the request for it merged    *)
(* into an MSHR entry whose fill has already come.                         *)
ReservedHasFill ==
  policy.defer => \A i \in Line, s \in Sector : lines[i].status[s] = "RESERVED" =>
    \E m \in Mf : /\ extra_mf_fields[m].idx = i
                  /\ extra_mf_fields[m].key = <<lines[i].tag, s>>

(* Each MSHR entry either waits for exactly one fill or is listed as ready *)
(* exactly once, never both and never neither: no lost wake-up and no      *)
(* second read of the same data (send_read_request, mark_ready).           *)
FillPending(m, k) == extra_mf_fields[m] # NoExtra /\ extra_mf_fields[m].key = k
AwaitsFill(k) == \E m \in Mf : FillPending(m, k)
IsReady(k) == \E i \in DOMAIN current_response : current_response[i] = k

MshrEntryProgresses ==
  /\ \A k \in Key : MshrProbe(k) <=> AwaitsFill(k) \/ IsReady(k)
  /\ \A k \in Key : ~(AwaitsFill(k) /\ IsReady(k))
  /\ \A m, n \in Mf, k \in Key : FillPending(m, k) /\ FillPending(n, k) => m = n
  /\ \A i, j \in DOMAIN current_response :
       current_response[i] = current_response[j] => i = j

(* Each accepted request that the caller waits for is in exactly one place *)
(* of the cache, and nothing else is: next_access returns it once.         *)
InMshr(m)  == \E k \in Key : \E i \in DOMAIN mshr[k] : mshr[k][i] = m
InHits(m)  == \E i \in DOMAIN hit_response_queue : hit_response_queue[i].mf = m
InReady(m) == \E i \in DOMAIN ready_response_queue : ready_response_queue[i] = m

OwedExactlyOnce ==
  /\ \A m \in Mf : m \in owed <=> InMshr(m) \/ InHits(m) \/ InReady(m)
  /\ \A m \in Mf : ~(InMshr(m) /\ InHits(m))
  /\ \A m \in Mf : ~(InReady(m) /\ (InMshr(m) \/ InHits(m)))
  /\ \A k, l \in Key : \A i \in DOMAIN mshr[k], j \in DOMAIN mshr[l] :
       mshr[k][i] = mshr[l][j] => k = l /\ i = j
  /\ \A i, j \in DOMAIN hit_response_queue :
       hit_response_queue[i].mf = hit_response_queue[j].mf => i = j
  /\ \A i, j \in DOMAIN ready_response_queue :
       ready_response_queue[i] = ready_response_queue[j] => i = j

(* The cache's books on a request end with the request: a pending response *)
(* index is only kept for a request that is still owed, and the read that  *)
(* went to memory is the oldest of its MSHR entry until its fill.  A token *)
(* the cache refers to is not free (what the model says of pointers).      *)
TokensHeld ==
  /\ \A m \in Mf : pending_response_indices[m] # NoLine => m \in owed
  /\ \A m \in Mf : extra_mf_fields[m] # NoExtra =>
       MshrProbe(extra_mf_fields[m].key) /\ Head(mshr[extra_mf_fields[m].key]) = m
  /\ \A m \in Mf : InCache(m) => req[m] # NoReq

(* The bytes of an accepted write are in a modified sector under its dirty *)
(* mask, or in a sector whose pending fill will make them so, until a      *)
(* write or a write back has taken them to the memory below.               *)
HoldsByte(i, s, b) ==
  LET line == lines[i] IN
  \/ line.status[s] = "MODIFIED" /\ <<s, b>> \in line.dirty_byte_mask
  \/ /\ line.status[s] = "RESERVED"
     /\ line.set_modified_on_fill[s]
     /\ \/ <<s, b>> \in line.dirty_byte_mask
        \/ /\ line.set_byte_mask_on_fill
           /\ \E m \in Mf : /\ extra_mf_fields[m].idx = i
                            /\ extra_mf_fields[m].key = <<line.tag, s>>
                            /\ b \in req[m].bytes

NoLostWrite ==
  \A u \in unsent : \E i \in Line :
    lines[i].tag = u[1][1] /\ HoldsByte(i, u[1][2], u[2])

(* m_dirty counts the modified lines: the comment at the use of            *)
(* m_wr_percent, "number of dirty lines / total lines in the cache".       *)
DirtyExact == dirty = Cardinality(ModifiedLines)

(* m_dirty never falls behind: a decrement always finds it positive.       *)
DirtyCoversModified == dirty >= Cardinality(ModifiedLines)

(* No call the program can make now runs into one of its asserts: all      *)
(* ways taken under ON_FILL, a sector miss of a line cache, a response     *)
(* without an MSHR entry, an MSHR table past its size.  The miss queue     *)
(* keeps its size too, also under accesses that push two or three entries  *)
(* after one test.                                                         *)
AssertionsHold ==
  /\ MshrCount <= MshrEntries /\ \A k \in Key : Len(mshr[k]) <= MshrMaxMerge
  /\ Len(miss_queue) <= MissQueueSize
  /\ \A r \in Issuable : \A p \in Probe(r.blk, r.sec, r.wr) : AccessAllowed(p)
  /\ \A m \in Mf : InMemory(m) =>
       /\ MshrProbe(extra_mf_fields[m].key)
       /\ policy.alloc = "ON_FILL" =>
            \A p \in Probe(extra_mf_fields[m].key[1], extra_mf_fields[m].key[2], FALSE) :
               AccessAllowed(p)

QueuesEmpty ==
  /\ miss_queue = <<>> /\ hit_response_queue = <<>> /\ ready_response_queue = <<>>
  /\ MshrCount = 0 /\ current_response = <<>>
  /\ \A m \in Mf : /\ extra_mf_fields[m] = NoExtra
                   /\ pending_response_indices[m] = NoLine

(* Once the caller stops issuing, everything accepted is answered and all  *)
(* queues run empty: what queues_empty() reports and the tests wait for.   *)
Drains == closed ~> QueuesEmpty

=============================================================================
