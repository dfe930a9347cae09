---------------------------- MODULE BaselineCache ----------------------------
(***************************************************************************)
(* baseline_cache: the tag array, the MSHR table, the miss queue to the    *)
(* memory below, the queue of deferred hit responses, and the operations   *)
(* that do not depend on the access policy (cycle, fill, next_access,      *)
(* flush, invalidate, force_tag_access).  ReadOnlyCache and DataCache add  *)
(* the accesses.                                                           *)
(*                                                                         *)
(* A token of Mf stands for a mem_fetch pointer.  req[m] is the request it *)
(* carries; a token is free (NoReq) once the cache holds no reference to   *)
(* it, and the caller may then use it again.  The read that a write miss   *)
(* allocates (n_mf) goes by the token of its write: the write itself is    *)
(* only ever in the miss queue, the allocated read everywhere else.        *)
(***************************************************************************)
EXTENDS TagArray, MshrTable

CONSTANTS
  Mf, NoMf,        \* mem_fetch tokens
  NoReq,           \* "no request"
  MissQueueSize, HitResponseQueueSize,
  Latency,         \* the values hit_response_latency can take
  Chunks,          \* responses to one read of a SECTOR_ASSOC cache
  MaxDirty,        \* no write is accepted while m_dirty is at this bound
  Maintenance,     \* which of flush, invalidate, force_tag_access are called
  CallerStops      \* the caller at some point stops issuing

ASSUME SizeAssumption ==
  /\ MissQueueSize \in Nat /\ HitResponseQueueSize \in Nat
  /\ Latency \subseteq Nat \ {0} /\ Chunks \in Nat \ {0} /\ MaxDirty \in Nat
ASSUME ModeAssumption ==
  /\ Maintenance \subseteq {"flush", "invalidate", "force_tag_access"}
  /\ CallerStops \in BOOLEAN
ASSUME CachePolicyAssumption ==
  \A c \in Policies : c.mshr \in {"ASSOC", "SECTOR_ASSOC"}

Request ==
  [ blk : Blk, sec : Sector, wr : BOOLEAN, global : BOOLEAN,
    bytes : SUBSET Byte ]

MissEntry == [kind : {"READ", "WRITE", "WRITEBACK"}, mf : Mf \cup {NoMf}, blk : Nat]

ASSUME TokenAssumption ==
  IsFiniteSet(Mf) /\ NoMf \notin Mf /\ NoReq \notin Request

ExtraFields == [key : Key, idx : Line, pending_read : Nat]
NoExtra == [key |-> NoReq, idx |-> NoLine, pending_read |-> 0]

VARIABLES
  miss_queue, extra_mf_fields,
  hit_response_queue, ready_response_queue, pending_response_indices,
  req,
  owed,      \* the caller's ledger: tokens next_access still has to return
  unsent,    \* history: bytes of accepted writes that only the cache holds
  closed     \* the caller has stopped issuing

missVars  == <<miss_queue, extra_mf_fields>>
hitVars   == <<hit_response_queue, ready_response_queue>>
vars == <<policy, tagVars, mshrVars, missVars, hitVars,
          pending_response_indices, req, owed, unsent, closed>>

Init ==
  /\ TagInit
  /\ MshrInit
  /\ miss_queue = <<>>
  /\ extra_mf_fields = [m \in Mf |-> NoExtra]
  /\ hit_response_queue = <<>>
  /\ ready_response_queue = <<>>
  /\ pending_response_indices = [m \in Mf |-> NoLine]
  /\ req = [m \in Mf |-> NoReq]
  /\ owed = {}
  /\ unsent = {}
  /\ closed = FALSE

KeyOf(r)  == <<r.blk, r.sec>>
MaskOf(r) == {r.sec} \X r.bytes

-----------------------------------------------------------------------------
(* baseline_cache: queues, pins and the read request *)

MissQueueFull(n) == Len(miss_queue) + n >= MissQueueSize
HitResponseQueueFull ==
  policy.defer /\ Len(hit_response_queue) >= HitResponseQueueSize

ReadEntry(m, r)  == [kind |-> "READ",  mf |-> m, blk |-> r.blk]
WriteEntry(m, r) == [kind |-> "WRITE", mf |-> m, blk |-> r.blk]

(* The write back of a line that TagAccess evicted: the policies of a      *)
(* data cache send none under WRITE_THROUGH.                               *)
WriteBack(t) ==
  IF t.wb /\ policy.write # "WRITE_THROUGH"
  THEN <<[kind |-> "WRITEBACK", mf |-> NoMf, blk |-> t.evicted.tag]>>
  ELSE <<>>

(* What a write back carries: the modified sectors under the dirty mask.   *)
WrittenBack(t) ==
  {u \in unsent : /\ WriteBack(t) # <<>>
                  /\ u[1][1] = t.evicted.tag
                  /\ t.evicted.status[u[1][2]] = "MODIFIED"
                  /\ <<u[1][2], u[2]>> \in t.evicted.dirty_byte_mask}

BytesOf(r) == {<<KeyOf(r), b>> : b \in r.bytes}

(* Faulty variant of PinIfDeferred: the mode is not looked at.             *)
PinAlways(line) == Pin(line)

PinIfDeferred(line) == IF policy.defer THEN Pin(line) ELSE line

IndexIfDeferred(m, i) ==
  IF policy.defer THEN [pending_response_indices EXCEPT ![m] = i]
  ELSE pending_response_indices

(* A token of the cache is forgotten when the cache has let go of it.      *)
InCache(m) == m \in owed \/ \E i \in DOMAIN miss_queue : miss_queue[i].mf = m

FreeMf(m) == req[m] = NoReq

Forget == req' = [m \in Mf |-> IF InCache(m)' THEN req[m] ELSE NoReq]
Accept(m, r) ==
  req' = [x \in Mf |-> IF ~InCache(x)' THEN NoReq ELSE IF x = m THEN r ELSE req[x]]

(* send_read_request can take the request: a merge, or a new entry with    *)
(* room in the miss queue once the n entries of this access are in it.     *)
ReadRequestFits(k, n) ==
  ~MshrFull(k) /\ (MshrProbe(k) \/ Len(miss_queue) + n < MissQueueSize)

(* send_read_request without the tag access: before are the entries the    *)
(* access pushed first, after those it pushes behind the read.             *)
SendReadRequest(m, r, i, before, after) ==
  LET k    == KeyOf(r)
      sent == IF MshrProbe(k) THEN <<>> ELSE <<ReadEntry(m, r)>>
  IN  /\ ReadRequestFits(k, Len(before))
      /\ mshr' = MshrAdd(k, m)
      /\ extra_mf_fields' =
           IF MshrProbe(k) THEN extra_mf_fields
           ELSE [extra_mf_fields EXCEPT ![m] =
                   [ key |-> k, idx |-> i,
                     pending_read |-> IF policy.mshr = "SECTOR_ASSOC"
                                      THEN Chunks ELSE 0 ]]
      /\ miss_queue' = miss_queue \o before \o sent \o after
      /\ pending_response_indices' = IndexIfDeferred(m, i)
      /\ owed' = owed \cup {m}
      /\ UNCHANGED <<current_response, hitVars>>

(* enqueue_hit_response, and nothing at all when hits are not deferred.    *)
RespondToHit(m, i) ==
  /\ IF policy.defer
     THEN /\ \E l \in Latency :
               hit_response_queue' =
                 Append(hit_response_queue, [mf |-> m, remaining_cycles |-> l])
          /\ owed' = owed \cup {m}
     ELSE UNCHANGED <<hit_response_queue, owed>>
  /\ pending_response_indices' = IndexIfDeferred(m, i)
  /\ UNCHANGED ready_response_queue

-----------------------------------------------------------------------------
(* Operations of every cache *)

(* The elements of a set of queue positions in the order of the queue.     *)
InOrder(S) ==
  {e \in [1 .. Cardinality(S) -> S] : \A i, j \in DOMAIN e : i < j => e[i] < e[j]}

(* cycle: hit responses count down and the finished ones become ready in   *)
(* order; the head of the miss queue goes to the memory port, unless the   *)
(* port is full.                                                           *)
Cycle(portFull) ==
  LET q    == hit_response_queue
      done == {i \in DOMAIN q : q[i].remaining_cycles = 1}
      push == miss_queue # <<>> /\ ~portFull
  IN  /\ q # <<>> \/ push
      /\ \E e \in InOrder(done) :
            ready_response_queue' =
              ready_response_queue \o [j \in DOMAIN e |-> q[e[j]].mf]
      /\ \E e \in InOrder(DOMAIN q \ done) :
            hit_response_queue' =
              [j \in DOMAIN e |-> [q[e[j]] EXCEPT !.remaining_cycles = @ - 1]]
      /\ miss_queue' = IF push THEN Tail(miss_queue) ELSE miss_queue
      /\ UNCHANGED <<policy, tagVars, mshrVars, extra_mf_fields,
                     pending_response_indices, owed, unsent, closed>>
      /\ Forget

(* The memory below holds the read of m: it left the miss queue and has    *)
(* not been answered in full.                                              *)
InMemory(m) ==
  /\ extra_mf_fields[m] # NoExtra
  /\ \A i \in DOMAIN miss_queue :
        ~(miss_queue[i].mf = m /\ miss_queue[i].kind = "READ")

(* fill, when responses of a SECTOR_ASSOC read are still outstanding.      *)
FillChunk(m) ==
  /\ InMemory(m)
  /\ extra_mf_fields[m].pending_read > 1
  /\ extra_mf_fields' = [extra_mf_fields EXCEPT ![m].pending_read = @ - 1]
  /\ UNCHANGED <<policy, tagVars, mshrVars, miss_queue, hitVars,
                 pending_response_indices, req, owed, unsent, closed>>

Fill(m) ==
  LET e == extra_mf_fields[m] IN
  /\ InMemory(m)
  /\ e.pending_read <= 1
  /\ MshrProbe(e.key)
  /\ IF policy.alloc = "ON_MISS"
     THEN FillByIndex(e.idx, e.key[2], MaskOf(req[m]))
     ELSE FillByAddress(e.key[1], e.key[2], FALSE, MaskOf(req[m]))
  /\ current_response' = MarkReady(e.key)
  /\ extra_mf_fields' = [extra_mf_fields EXCEPT ![m] = NoExtra]
  /\ UNCHANGED <<policy, is_used, mshr, miss_queue, hitVars,
                 pending_response_indices, req, owed, unsent, closed>>

(* Faulty variant of IndexErased: the index is kept.                       *)
IndexKept(m) == pending_response_indices

IndexErased(m) == [pending_response_indices EXCEPT ![m] = NoLine]

(* Faulty variant of UnpinResponse: the pin outlives the index.            *)
UnpinResponseIndexOnly(m) ==
  lines' = lines /\ pending_response_indices' = IndexErased(m)

(* unpin_response: nothing for a token that holds no pin.                  *)
UnpinResponse(m) ==
  /\ lines' = IF pending_response_indices[m] = NoLine THEN lines
              ELSE [lines EXCEPT ![pending_response_indices[m]] = Unpin(@)]
  /\ pending_response_indices' = IndexErased(m)

(* next_access: a hit response that is ready goes first.                   *)
NextReadyHit ==
  /\ ready_response_queue # <<>>
  /\ LET m == Head(ready_response_queue)
     IN  UnpinResponse(m) /\ owed' = owed \ {m}
  /\ ready_response_queue' = Tail(ready_response_queue)
  /\ UNCHANGED <<policy, dirty, is_used, mshrVars, missVars,
                 hit_response_queue, unsent, closed>>
  /\ Forget

NextMshrAccess ==
  /\ ready_response_queue = <<>>
  /\ current_response # <<>>
  /\ LET k == NextKey
         m == Head(mshr[k])
     IN  /\ mshr' = MshrTake(k)
         /\ current_response' = ReadyAfterNext(k)
         /\ UnpinResponse(m)
         /\ owed' = owed \ {m}
  /\ UNCHANGED <<policy, dirty, is_used, missVars, hitVars, unsent, closed>>
  /\ Forget

NextAccess == NextReadyHit \/ NextMshrAccess

Flush ==
  /\ "flush" \in Maintenance
  /\ FlushTags
  /\ UNCHANGED <<policy, mshrVars, missVars, hitVars,
                 pending_response_indices, req, owed, unsent, closed>>

Invalidate ==
  /\ "invalidate" \in Maintenance
  /\ InvalidateTags
  /\ UNCHANGED <<policy, mshrVars, missVars, hitVars,
                 pending_response_indices, req, owed, unsent, closed>>

ForceTagAccess ==
  /\ "force_tag_access" \in Maintenance
  /\ dirty < MaxDirty
  /\ \E b \in Blk, s \in SectorsUsed : FillByAddress(b, s, TRUE, {})
  /\ UNCHANGED <<policy, is_used, mshrVars, missVars, hitVars,
                 pending_response_indices, req, owed, unsent, closed>>

(* The caller stops issuing and drains, as the tests do.                   *)
StopIssuing ==
  /\ CallerStops
  /\ ~closed
  /\ closed' = TRUE
  /\ UNCHANGED <<policy, tagVars, mshrVars, missVars, hitVars,
                 pending_response_indices, req, owed, unsent>>

BaselineNext ==
  \/ \E portFull \in BOOLEAN : Cycle(portFull)
  \/ \E m \in Mf : FillChunk(m) \/ Fill(m)
  \/ NextReadyHit
  \/ NextMshrAccess
  \/ Flush
  \/ Invalidate
  \/ ForceTagAccess
  \/ StopIssuing

=============================================================================
