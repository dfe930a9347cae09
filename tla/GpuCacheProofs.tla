--------------------------- MODULE GpuCacheProofs ---------------------------
(***************************************************************************)
(* The inductive invariant IInv of GpuCache, what the steps the operations *)
(* are made of do to its parts, the pins of the lines (PinConsistency) and *)
(* the places a request can be in (RequestInv); then one lemma for each    *)
(* kind of step, and the theorems, for every geometry, number of requests  *)
(* in flight, queue size and configuration.                                *)
(***************************************************************************)
EXTENDS GpuCache, TagArrayProofs, SequenceTheorems

(* The part of TypeOK that is about the queues and tables.                 *)
QueueTypes ==
  /\ mshr \in [Key -> Seq(Mf)]
  /\ current_response \in Seq(Key)
  /\ miss_queue \in Seq(MissEntry)
  /\ extra_mf_fields \in [Mf -> ExtraFields \cup {NoExtra}]
  /\ hit_response_queue \in Seq([mf : Mf, remaining_cycles : Nat \ {0}])
  /\ ready_response_queue \in Seq(Mf)
  /\ pending_response_indices \in [Mf -> Line \cup {NoLine}]
  /\ req \in [Mf -> Request \cup {NoReq}]
  /\ owed \subseteq Mf

RequestInv == MshrEntryProgresses /\ OwedExactlyOnce /\ TokensHeld

(* None of the parts is inductive alone: a pin is only given back once     *)
(* because a request is returned once (OwedExactlyOnce) and keeps its      *)
(* index till then (TokensHeld); a fill only finds its MSHR entry because  *)
(* the entry is not ready yet (MshrEntryProgresses).                       *)
IInv == TypeOK /\ DirtyCoversModified /\ PinConsistency /\ RequestInv

-----------------------------------------------------------------------------
(* Pins *)

(* A step that changes neither counts nor indices keeps them in balance.   *)
LEMMA PinsKept ==
  ASSUME PinConsistency,
         \A i \in Line :
           lines'[i].pending_response_count = lines[i].pending_response_count,
         pending_response_indices' = pending_response_indices
  PROVE  PinConsistency'
BY DEF PinConsistency

(* A step of one line that leaves its pins alone leaves all pins alone.    *)
LEMMA LineStepKeepsPins ==
  ASSUME lines \in [Line -> CacheBlockT], NEW i, LineStep(i, 0)
  PROVE  \A j \in Line :
           lines'[j].pending_response_count = lines[j].pending_response_count
<1>1. \A j \in Line : lines[j].pending_response_count \in Nat
  BY DEF CacheBlockT
<1> QED
  BY <1>1 DEF LineStep

(* A request that is recorded against line i pins it.                      *)
LEMMA PinAdded ==
  ASSUME PinConsistency, lines \in [Line -> CacheBlockT],
         pending_response_indices \in [Mf -> Line \cup {NoLine}],
         NEW m \in Mf, NEW i, pending_response_indices[m] = NoLine,
         LineStep(i, 1),
         pending_response_indices' = [pending_response_indices EXCEPT ![m] = i]
  PROVE  PinConsistency'
<1> DEFINE P(j) == {x \in Mf : pending_response_indices[x] = j}
           Q(j) == {x \in Mf : pending_response_indices'[x] = j}
<1>1. i \in Line /\ NoLine \notin Line
  BY TagAssumption, LineFinite DEF LineStep
<1>2. Q(i) = P(i) \cup {m} /\ m \notin P(i)
  BY <1>1
<1>3. \A j \in Line \ {i} : Q(j) = P(j)
  BY <1>1
<1>4. IsFiniteSet(P(i))
  BY TokenAssumption, FS_Subset
<1>5. Cardinality(Q(i)) = Cardinality(P(i)) + 1
  BY <1>2, <1>4, FS_AddElement
<1>6. /\ lines'[i].pending_response_count = lines[i].pending_response_count + 1
      /\ \A j \in Line \ {i} : lines'[j] = lines[j]
  BY <1>1 DEF LineStep
<1>7. \A j \in Line : lines[j].pending_response_count = Cardinality(P(j))
  BY DEF PinConsistency
<1>8. \A j \in Line : lines'[j].pending_response_count = Cardinality(Q(j))
  BY <1>1, <1>3, <1>5, <1>6, <1>7
<1> QED
  BY <1>8 DEF PinConsistency

(* unpin_response gives back a pin that is there.                          *)
LEMMA PinReturned ==
  ASSUME PinConsistency, TagInv,
         pending_response_indices \in [Mf -> Line \cup {NoLine}],
         NEW m \in Mf, UnpinResponse(m), dirty' = dirty
  PROVE  /\ PinConsistency'
         /\ TagInv'
         /\ pending_response_indices' \in [Mf -> Line \cup {NoLine}]
<1> DEFINE i    == pending_response_indices[m]
           P(j) == {x \in Mf : pending_response_indices[x] = j}
           Q(j) == {x \in Mf : pending_response_indices'[x] = j}
<1>1. NoLine \notin Line
  BY TagAssumption, LineFinite
<1>2. pending_response_indices' = [pending_response_indices EXCEPT ![m] = NoLine]
  BY DEF UnpinResponse, IndexErased
<1>3. pending_response_indices' \in [Mf -> Line \cup {NoLine}]
  BY <1>2
<1>4. CASE i = NoLine
  <2>1. lines' = lines /\ pending_response_indices' = pending_response_indices
    BY <1>2, <1>4 DEF UnpinResponse
  <2>2. TagInv'
    BY <2>1 DEF TagInv, ModifiedLines
  <2> QED
    BY <1>3, <2>1, <2>2 DEF PinConsistency
<1>5. CASE i # NoLine
  <2>1. i \in Line /\ lines' = [lines EXCEPT ![i] = Unpin(lines[i])]
    BY <1>5 DEF UnpinResponse
  <2>2. Q(i) = P(i) \ {m} /\ m \in P(i)
    BY <1>1, <1>2, <2>1
  <2>3. \A j \in Line \ {i} : Q(j) = P(j)
    BY <1>1, <1>2, <2>1
  <2>4. IsFiniteSet(P(i))
    BY TokenAssumption, FS_Subset
  <2>5. /\ Cardinality(Q(i)) = Cardinality(P(i)) - 1
        /\ Cardinality(P(i)) \in Nat \ {0}
    <3>1. ASSUME NEW S, IsFiniteSet(S), m \in S
          PROVE  /\ Cardinality(S \ {m}) = Cardinality(S) - 1
                 /\ Cardinality(S) \in Nat \ {0}
      <4>1. Cardinality(S) \in Nat /\ Cardinality(S) # 0
        BY <3>1, FS_CardinalityType, FS_EmptySet
      <4>2. Cardinality(S \ {m}) = Cardinality(S) - 1
        BY <3>1, FS_RemoveElement
      <4> QED
        BY <4>1, <4>2
    <3> HIDE DEF P, Q
    <3> QED
      BY <2>2, <2>4, <3>1
  <2>6. \A j \in Line : lines[j].pending_response_count = Cardinality(P(j))
    BY DEF PinConsistency
  <2>7. /\ lines[i] \in CacheBlockT
        /\ Unpin(lines[i]) \in CacheBlockT
        /\ Unpin(lines[i]).pending_response_count = Cardinality(Q(i))
        /\ IsModifiedLine(Unpin(lines[i])) <=> IsModifiedLine(lines[i])
    <3>1. lines[i] \in CacheBlockT
      BY <2>1 DEF TagInv
    <3> QED
      BY <2>1, <2>5, <2>6, <3>1, PinType
  <2>8. \A j \in Line : lines'[j].pending_response_count = Cardinality(Q(j))
    BY <2>1, <2>3, <2>6, <2>7 DEF TagInv
  <2>9. TagInv'
    BY <2>1, <2>7, DirtyUntouched
  <2> QED
    BY <1>3, <2>8, <2>9 DEF PinConsistency
<1> QED
  BY <1>4, <1>5

-----------------------------------------------------------------------------
(* Requests *)

(* The cache holds nothing of a free token.                                *)
LEMMA FreeToken ==
  ASSUME QueueTypes, RequestInv, NEW m \in Mf, FreeMf(m)
  PROVE  /\ m \notin owed
         /\ ~InMshr(m) /\ ~InHits(m) /\ ~InReady(m)
         /\ pending_response_indices[m] = NoLine
         /\ extra_mf_fields[m] = NoExtra
         /\ ~InCache(m)
<1>1. ~InCache(m) /\ m \notin owed
  BY DEF RequestInv, TokensHeld, FreeMf, InCache
<1>2. ~InMshr(m) /\ ~InHits(m) /\ ~InReady(m)
  BY <1>1 DEF RequestInv, OwedExactlyOnce
<1>3. pending_response_indices[m] = NoLine
  BY <1>1 DEF RequestInv, TokensHeld
<1>4. ASSUME extra_mf_fields[m] # NoExtra PROVE FALSE
  <2> DEFINE k == extra_mf_fields[m].key
  <2>1. k \in Key
    BY <1>4 DEF QueueTypes, ExtraFields
  <2>2. mshr[k] # <<>> /\ Head(mshr[k]) = m
    BY <1>4 DEF RequestInv, TokensHeld, MshrProbe
  <2>3. 1 \in DOMAIN mshr[k] /\ mshr[k][1] = m
    BY <2>1, <2>2, TailElements DEF QueueTypes
  <2> QED
    BY <1>2, <2>1, <2>3 DEF InMshr
<1> QED
  BY <1>1, <1>2, <1>3, <1>4

(* Which tokens carry a request after a step that accepts one.             *)
LEMMA AcceptKeeps ==
  ASSUME req \in [Mf -> Request \cup {NoReq}], TokensHeld,
         NEW m \in Mf, NEW r \in Request, Accept(m, r),
         \A x \in Mf \ {m} : InCache(x)' => InCache(x)
  PROVE  /\ req' \in [Mf -> Request \cup {NoReq}]
         /\ \A x \in Mf : InCache(x)' => req'[x] # NoReq
<1>1. req' = [x \in Mf |-> IF ~InCache(x)' THEN NoReq ELSE IF x = m THEN r ELSE req[x]]
  BY DEF Accept
<1>2. \A x \in Mf : InCache(x) => req[x] # NoReq
  BY DEF TokensHeld
<1>3. r # NoReq
  BY TokenAssumption
<1> QED
  BY <1>1, <1>2, <1>3

(* Forget frees the tokens the cache has let go of, and no other.          *)
LEMMA ForgetKeeps ==
  ASSUME req \in [Mf -> Request \cup {NoReq}], TokensHeld, Forget,
         \A x \in Mf : InCache(x)' => InCache(x)
  PROVE  /\ req' \in [Mf -> Request \cup {NoReq}]
         /\ \A x \in Mf : InCache(x)' => req'[x] # NoReq
<1>1. req' = [x \in Mf |-> IF InCache(x)' THEN req[x] ELSE NoReq]
  BY DEF Forget
<1>2. \A x \in Mf : InCache(x) => req[x] # NoReq
  BY DEF TokensHeld
<1> QED
  BY <1>1, <1>2

(* The entries an access adds to the miss queue carry its own token.       *)
LEMMA MissQueueGrows ==
  ASSUME miss_queue \in Seq(MissEntry), NEW e \in Seq(MissEntry), NEW m,
         \A i \in DOMAIN e : e[i].mf \in {m, NoMf},
         miss_queue' = miss_queue \o e, owed' \subseteq owed \cup {m}
  PROVE  /\ miss_queue' \in Seq(MissEntry)
         /\ \A x \in Mf \ {m} : InCache(x)' => InCache(x)
<1> DEFINE q == miss_queue
<1>1. /\ q \o e \in Seq(MissEntry)
      /\ Len(q) \in Nat /\ Len(e) \in Nat
      /\ DOMAIN q = 1 .. Len(q) /\ DOMAIN e = 1 .. Len(e)
      /\ DOMAIN (q \o e) = 1 .. (Len(q) + Len(e))
      /\ \A i \in 1 .. Len(q) : (q \o e)[i] = q[i]
      /\ \A i \in 1 .. Len(e) : (q \o e)[Len(q) + i] = e[i]
  BY ConcatElements
<1>2. ASSUME NEW x \in Mf \ {m}, NEW i \in DOMAIN (q \o e), (q \o e)[i].mf = x
      PROVE  i \in DOMAIN q /\ q[i].mf = x
  <2>1. CASE i \in 1 .. Len(q)
    BY <1>1, <1>2, <2>1
  <2>2. CASE i \notin 1 .. Len(q)
    <3>1. i - Len(q) \in 1 .. Len(e) /\ i = Len(q) + (i - Len(q))
      BY <1>1, <2>2
    <3>2. (q \o e)[i] = e[i - Len(q)]
      BY <1>1, <3>1
    <3> QED
      BY <1>1, <1>2, <3>1, <3>2, TokenAssumption
  <2> QED
    BY <2>1, <2>2
<1> QED
  BY <1>1, <1>2 DEF InCache

(* Nothing but the miss queue and the tokens in use changes.               *)
LEMMA BooksUnchanged ==
  ASSUME QueueTypes, RequestInv,
         UNCHANGED <<mshrVars, extra_mf_fields, hitVars, pending_response_indices, owed>>,
         miss_queue' \in Seq(MissEntry),
         req' \in [Mf -> Request \cup {NoReq}],
         \A x \in Mf : InCache(x)' => req'[x] # NoReq
  PROVE  QueueTypes' /\ RequestInv'
<1>1. /\ mshr' = mshr /\ current_response' = current_response
      /\ extra_mf_fields' = extra_mf_fields
      /\ hit_response_queue' = hit_response_queue
      /\ ready_response_queue' = ready_response_queue
      /\ pending_response_indices' = pending_response_indices /\ owed' = owed
  BY DEF mshrVars, hitVars
<1>2. QueueTypes'
  BY <1>1 DEF QueueTypes
<1>3. MshrEntryProgresses'
  BY <1>1 DEF RequestInv, MshrEntryProgresses, MshrProbe, AwaitsFill, IsReady, FillPending
<1>4. OwedExactlyOnce'
  BY <1>1 DEF RequestInv, OwedExactlyOnce, InMshr, InHits, InReady
<1>5. TokensHeld'
  <2>1. \A x \in Mf : pending_response_indices'[x] # NoLine => x \in owed'
    BY <1>1 DEF RequestInv, TokensHeld
  <2>2. \A x \in Mf : extra_mf_fields'[x] # NoExtra =>
          /\ MshrProbe(extra_mf_fields[x].key)'
          /\ Head(mshr'[extra_mf_fields'[x].key]) = x
    BY <1>1 DEF RequestInv, TokensHeld, MshrProbe
  <2> QED
    BY <2>1, <2>2 DEF TokensHeld
<1> QED
  BY <1>2, <1>3, <1>4, <1>5 DEF RequestInv

(* A hit response, deferred or not, of a token that was free.              *)
LEMMA HitBooks ==
  ASSUME QueueTypes, RequestInv, NEW m \in Mf, FreeMf(m), NEW i \in Line,
         RespondToHit(m, i), UNCHANGED <<mshrVars, extra_mf_fields>>,
         miss_queue' \in Seq(MissEntry),
         req' \in [Mf -> Request \cup {NoReq}],
         \A x \in Mf : InCache(x)' => req'[x] # NoReq
  PROVE  QueueTypes' /\ RequestInv'
<1>0. /\ mshr' = mshr /\ current_response' = current_response
      /\ extra_mf_fields' = extra_mf_fields
      /\ ready_response_queue' = ready_response_queue
  BY DEF mshrVars, RespondToHit
<1>1. CASE ~policy.defer
  <2>1. UNCHANGED <<mshrVars, extra_mf_fields, hitVars, pending_response_indices, owed>>
    BY <1>0, <1>1 DEF RespondToHit, IndexIfDeferred, mshrVars, hitVars
  <2> QED
    BY <2>1, BooksUnchanged
<1>2. CASE policy.defer
  <2> DEFINE q == hit_response_queue
             H == [mf : Mf, remaining_cycles : Nat \ {0}]
  <2>1. PICK l \in Latency : q' = Append(q, [mf |-> m, remaining_cycles |-> l])
    BY <1>2 DEF RespondToHit
  <2> DEFINE x == [mf |-> m, remaining_cycles |-> l]
  <2>2. owed' = owed \cup {m}
        /\ pending_response_indices' = [pending_response_indices EXCEPT ![m] = i]
    BY <1>2 DEF RespondToHit, IndexIfDeferred
  <2>3. x \in H /\ q \in Seq(H) /\ x.mf = m
    BY SizeAssumption DEF QueueTypes
  <2>4. /\ q' \in Seq(H)
        /\ Len(q) \in Nat /\ DOMAIN q = 1 .. Len(q)
        /\ DOMAIN q' = 1 .. (Len(q) + 1)
        /\ \A j \in 1 .. Len(q) : q'[j] = q[j]
        /\ q'[Len(q) + 1].mf = m
    <3> HIDE DEF x
    <3> QED
      BY <2>1, <2>3, AppendElements DEF x
  <2> HIDE DEF x
  <2>5. /\ m \notin owed /\ ~InMshr(m) /\ ~InHits(m) /\ ~InReady(m)
        /\ pending_response_indices[m] = NoLine
    BY FreeToken
  <2>6. QueueTypes'
    BY <1>0, <2>2, <2>4 DEF QueueTypes
  <2>7. MshrEntryProgresses'
    BY <1>0 DEF RequestInv, MshrEntryProgresses, MshrProbe, AwaitsFill, IsReady, FillPending
  <2>8. OwedExactlyOnce'
    <3>1. \A y \in Mf : /\ InMshr(y)' <=> InMshr(y)
                        /\ InReady(y)' <=> InReady(y)
      BY <1>0 DEF InMshr, InReady
    <3>2. \A y \in Mf : InHits(y)' <=> InHits(y) \/ y = m
      <4>1. \A y \in Mf : InHits(y)' <=> \E j \in DOMAIN q' : q'[j].mf = y
        BY DEF InHits
      <4> QED
        BY <2>4, <4>1 DEF InHits
    <3>3. \A j, k \in DOMAIN q' : q'[j].mf = q'[k].mf => j = k
      <4>1. \A j, k \in 1 .. Len(q) : q[j].mf = q[k].mf => j = k
        BY <2>4 DEF RequestInv, OwedExactlyOnce
      <4>2. \A j \in 1 .. Len(q) : q[j].mf # m
        BY <2>4, <2>5 DEF InHits
      <4> QED
        BY <2>4, <4>1, <4>2
    <3>4. /\ \A y \in Mf : y \in owed' <=> InMshr(y)' \/ InHits(y)' \/ InReady(y)'
          /\ \A y \in Mf : ~(InMshr(y)' /\ InHits(y)')
          /\ \A y \in Mf : ~(InReady(y)' /\ (InMshr(y)' \/ InHits(y)'))
      BY <2>2, <2>5, <3>1, <3>2 DEF RequestInv, OwedExactlyOnce
    <3>5. /\ \A k, n1 \in Key : \A j \in DOMAIN mshr'[k], n \in DOMAIN mshr'[n1] :
               mshr'[k][j] = mshr'[n1][n] => k = n1 /\ j = n
          /\ \A j, n \in DOMAIN ready_response_queue' :
               ready_response_queue'[j] = ready_response_queue'[n] => j = n
      BY <1>0 DEF RequestInv, OwedExactlyOnce
    <3> QED
      BY <3>3, <3>4, <3>5 DEF OwedExactlyOnce
  <2>9. TokensHeld'
    <3>1. \A y \in Mf : pending_response_indices'[y] # NoLine => y \in owed'
      BY <2>2 DEF RequestInv, TokensHeld, QueueTypes
    <3>2. \A y \in Mf : extra_mf_fields'[y] # NoExtra =>
            /\ MshrProbe(extra_mf_fields[y].key)'
            /\ Head(mshr'[extra_mf_fields'[y].key]) = y
      BY <1>0 DEF RequestInv, TokensHeld, MshrProbe
    <3> QED
      BY <3>1, <3>2 DEF TokensHeld
  <2> QED
    BY <2>6, <2>7, <2>8, <2>9 DEF RequestInv
<1> QED
  BY <1>1, <1>2

(* A read request of a token that was free: it joins the list of its MSHR  *)
(* entry, or opens the entry and waits for the fill.                       *)
LEMMA ReadBooks ==
  ASSUME QueueTypes, RequestInv, NEW m \in Mf, FreeMf(m), NEW r \in Request,
         NEW i \in Line, NEW before, NEW after,
         SendReadRequest(m, r, i, before, after),
         miss_queue' \in Seq(MissEntry),
         req' \in [Mf -> Request \cup {NoReq}],
         \A x \in Mf : InCache(x)' => req'[x] # NoReq
  PROVE  QueueTypes' /\ RequestInv'
<1> DEFINE k == KeyOf(r)
           q == mshr[k]
           new == Len(q) + 1
           fields == [ key |-> k, idx |-> i,
                       pending_read |-> IF policy.mshr = "SECTOR_ASSOC"
                                        THEN Chunks ELSE 0 ]
<1>1. k \in Key
  BY DEF KeyOf, Request, Key
<1>2. /\ mshr' = [mshr EXCEPT ![k] = Append(q, m)]
      /\ current_response' = current_response
      /\ hit_response_queue' = hit_response_queue
      /\ ready_response_queue' = ready_response_queue
      /\ owed' = owed \cup {m}
      /\ pending_response_indices' = IndexIfDeferred(m, i)
      /\ extra_mf_fields' = IF MshrProbe(k) THEN extra_mf_fields
                            ELSE [extra_mf_fields EXCEPT ![m] = fields]
  BY DEF SendReadRequest, MshrAdd, hitVars
<1>3. fields \in ExtraFields /\ fields # NoExtra /\ fields.key = k
  <2>1. fields.idx # NoExtra.idx
    BY TagAssumption, LineFinite DEF NoExtra
  <2> QED
    BY <1>1, <2>1, SizeAssumption DEF ExtraFields
<1> HIDE DEF fields
<1>4. /\ m \notin owed /\ ~InMshr(m) /\ ~InHits(m) /\ ~InReady(m)
      /\ pending_response_indices[m] = NoLine /\ extra_mf_fields[m] = NoExtra
  BY FreeToken
<1>5. mshr \in [Key -> Seq(Mf)]
  BY DEF QueueTypes
<1> HIDE DEF k
<1>6. /\ mshr' \in [Key -> Seq(Mf)]
      /\ \A l \in Key \ {k} : mshr'[l] = mshr[l]
      /\ Len(q) \in Nat /\ DOMAIN q = 1 .. Len(q)
      /\ new \notin DOMAIN q /\ DOMAIN mshr'[k] = DOMAIN q \cup {new}
      /\ \A j \in DOMAIN q : mshr'[k][j] = q[j]
      /\ mshr'[k][new] = m
  <2>1. q \in Seq(Mf)
    BY <1>1, <1>5
  <2>2. /\ Append(q, m) \in Seq(Mf)
        /\ Len(q) \in Nat /\ DOMAIN q = 1 .. Len(q)
        /\ DOMAIN Append(q, m) = 1 .. (Len(q) + 1)
        /\ \A j \in 1 .. Len(q) : Append(q, m)[j] = q[j]
        /\ Append(q, m)[Len(q) + 1] = m
    BY <2>1, AppendElements
  <2>3. 1 .. (Len(q) + 1) = (1 .. Len(q)) \cup {new} /\ new \notin 1 .. Len(q)
    BY <2>2
  <2> QED
    BY <1>1, <1>2, <1>5, <2>2, <2>3
<1> HIDE DEF new
<1>7. MshrProbe(k)' /\ \A l \in Key \ {k} : MshrProbe(l)' <=> MshrProbe(l)
  BY <1>1, <1>6 DEF MshrProbe
<1>8. QueueTypes'
  <2>1. pending_response_indices' \in [Mf -> Line \cup {NoLine}]
    BY <1>2 DEF IndexIfDeferred, QueueTypes
  <2>2. extra_mf_fields' \in [Mf -> ExtraFields \cup {NoExtra}]
    BY <1>2, <1>3 DEF QueueTypes
  <2> QED
    BY <1>2, <1>6, <2>1, <2>2 DEF QueueTypes
<1>9. MshrEntryProgresses'
  <2>1. \A l \in Key : IsReady(l)' <=> IsReady(l)
    BY <1>2 DEF IsReady
  <2>2. CASE MshrProbe(k)
    <3>1. \A x \in Mf, l \in Key : FillPending(x, l)' <=> FillPending(x, l)
      BY <1>2, <2>2 DEF FillPending
    <3>2. \A l \in Key : AwaitsFill(l)' <=> AwaitsFill(l)
      BY <3>1 DEF AwaitsFill
    <3> QED
      BY <1>2, <1>7, <2>1, <2>2, <3>1, <3>2 DEF RequestInv, MshrEntryProgresses
  <2>3. CASE ~MshrProbe(k)
    <3>1. \A x \in Mf, l \in Key :
             FillPending(x, l)' <=> FillPending(x, l) \/ (x = m /\ l = k)
      BY <1>2, <1>3, <1>4, <2>3 DEF FillPending, QueueTypes
    <3>2. \A l \in Key : AwaitsFill(l)' <=> AwaitsFill(l) \/ l = k
      BY <3>1 DEF AwaitsFill
    <3>3. ~AwaitsFill(k) /\ ~IsReady(k)
      BY <1>1, <2>3 DEF RequestInv, MshrEntryProgresses
    <3>4. \A x \in Mf : ~FillPending(x, k)
      BY <3>3 DEF AwaitsFill
    <3>5. \A x, y \in Mf, l \in Key : FillPending(x, l)' /\ FillPending(y, l)' => x = y
      BY <3>1, <3>4 DEF RequestInv, MshrEntryProgresses
    <3>6. /\ \A l \in Key : MshrProbe(l)' <=> AwaitsFill(l)' \/ IsReady(l)'
          /\ \A l \in Key : ~(AwaitsFill(l)' /\ IsReady(l)')
      BY <1>7, <2>1, <3>2, <3>3 DEF RequestInv, MshrEntryProgresses
    <3> QED
      BY <1>2, <3>5, <3>6 DEF RequestInv, MshrEntryProgresses
  <2> QED
    BY <2>2, <2>3
<1>10. OwedExactlyOnce'
  <2>1. \A y \in Mf : /\ InHits(y)' <=> InHits(y)
                      /\ InReady(y)' <=> InReady(y)
    BY <1>2 DEF InHits, InReady
  <2>2. \A y \in Mf : InMshr(y)' <=> InMshr(y) \/ y = m
    <3>1. \A y \in Mf : InMshr(y)' <=>
            \E l \in Key : \E j \in DOMAIN mshr'[l] : mshr'[l][j] = y
      BY DEF InMshr
    <3>2. \A y \in Mf : (\E j \in DOMAIN mshr'[k] : mshr'[k][j] = y)
                          <=> (\E j \in DOMAIN q : q[j] = y) \/ y = m
      BY <1>6
    <3>3. \A y \in Mf, l \in Key \ {k} :
            (\E j \in DOMAIN mshr'[l] : mshr'[l][j] = y)
               <=> (\E j \in DOMAIN mshr[l] : mshr[l][j] = y)
      BY <1>6
    <3>4. ASSUME NEW y \in Mf, InMshr(y)' PROVE InMshr(y) \/ y = m
      <4>1. PICK l \in Key : \E j \in DOMAIN mshr'[l] : mshr'[l][j] = y
        BY <3>1, <3>4
      <4>2. CASE l = k
        BY <1>1, <3>2, <4>1, <4>2 DEF InMshr
      <4>3. CASE l # k
        <5>1. \E j \in DOMAIN mshr[l] : mshr[l][j] = y
          BY <3>3, <4>1, <4>3
        <5> QED
          BY <5>1 DEF InMshr
      <4> QED
        BY <4>2, <4>3
    <3>5. ASSUME NEW y \in Mf, InMshr(y) PROVE InMshr(y)'
      <4>1. PICK l \in Key : \E j \in DOMAIN mshr[l] : mshr[l][j] = y
        BY <3>5 DEF InMshr
      <4>2. \E j \in DOMAIN mshr'[l] : mshr'[l][j] = y
        <5>1. CASE l = k
          BY <3>2, <4>1, <5>1
        <5>2. CASE l # k
          BY <3>3, <4>1, <5>2
        <5> QED
          BY <5>1, <5>2
      <4> QED
        BY <3>1, <4>2
    <3>6. InMshr(m)'
      BY <1>1, <3>1, <3>2
    <3> QED
      BY <3>4, <3>5, <3>6
  <2>3. \A l, n \in Key : \A a \in DOMAIN mshr'[l], b \in DOMAIN mshr'[n] :
          mshr'[l][a] = mshr'[n][b] => l = n /\ a = b
    <3>1. \A l, n \in Key : \A a \in DOMAIN mshr[l], b \in DOMAIN mshr[n] :
            mshr[l][a] = mshr[n][b] => l = n /\ a = b
      BY DEF RequestInv, OwedExactlyOnce
    <3>2. \A l \in Key : \A a \in DOMAIN mshr[l] : mshr[l][a] # m
      BY <1>4 DEF InMshr
    <3>3. \A l \in Key : \A a \in DOMAIN mshr'[l] :
            mshr'[l][a] = m => l = k /\ a = new
      BY <1>1, <1>6, <3>2
    <3>4. \A l \in Key : \A a \in DOMAIN mshr'[l] :
            mshr'[l][a] # m => a \in DOMAIN mshr[l] /\ mshr'[l][a] = mshr[l][a]
      BY <1>1, <1>6
    <3>5. ASSUME NEW l \in Key, NEW n \in Key,
                 NEW a \in DOMAIN mshr'[l], NEW b \in DOMAIN mshr'[n],
                 mshr'[l][a] = mshr'[n][b]
          PROVE  l = n /\ a = b
      <4>1. CASE mshr'[l][a] = m
        BY <3>3, <3>5, <4>1, Zenon
      <4>2. CASE mshr'[l][a] # m
        <5>1. a \in DOMAIN mshr[l] /\ mshr'[l][a] = mshr[l][a]
          BY <3>4, <4>2, Zenon
        <5>2. mshr'[n][b] # m
          BY <3>5, <4>2, Zenon
        <5>3. b \in DOMAIN mshr[n] /\ mshr'[n][b] = mshr[n][b]
          BY <3>4, <5>2, Zenon
        <5>4. mshr[l][a] = mshr[n][b]
          BY <3>5, <5>1, <5>3, Zenon
        <5> QED
          BY <3>1, <5>1, <5>3, <5>4, SMTT(60)
      <4> QED
        BY <4>1, <4>2
    <3> QED
      BY <3>5
  <2>4. /\ \A y \in Mf : y \in owed' <=> InMshr(y)' \/ InHits(y)' \/ InReady(y)'
        /\ \A y \in Mf : ~(InMshr(y)' /\ InHits(y)')
        /\ \A y \in Mf : ~(InReady(y)' /\ (InMshr(y)' \/ InHits(y)'))
    BY <1>2, <1>4, <2>1, <2>2 DEF RequestInv, OwedExactlyOnce
  <2> QED
    BY <1>2, <2>3, <2>4 DEF RequestInv, OwedExactlyOnce
<1>11. TokensHeld'
  <2>1. \A y \in Mf : pending_response_indices'[y] # NoLine => y \in owed'
    BY <1>2 DEF RequestInv, TokensHeld, QueueTypes, IndexIfDeferred
  <2>2. ASSUME NEW y \in Mf, extra_mf_fields'[y] # NoExtra
        PROVE  /\ MshrProbe(extra_mf_fields[y].key)'
               /\ Head(mshr'[extra_mf_fields'[y].key]) = y
    <3>1. CASE extra_mf_fields'[y] = extra_mf_fields[y]
      <4> DEFINE l == extra_mf_fields[y].key
      <4>1. l \in Key /\ mshr[l] # <<>> /\ Head(mshr[l]) = y
        BY <2>2, <3>1 DEF RequestInv, TokensHeld, MshrProbe, QueueTypes, ExtraFields
      <4>2. mshr'[l] # <<>> /\ mshr'[l] \in Seq(Mf)
        BY <1>1, <1>6, <1>7, <4>1 DEF MshrProbe
      <4>3. mshr'[l][1] = mshr[l][1]
        <5>1. 1 \in DOMAIN mshr[l]
          BY <1>5, <4>1, TailElements
        <5> QED
          BY <1>1, <1>6, <4>1, <5>1
      <4>4. Head(mshr'[l]) = mshr'[l][1] /\ Head(mshr[l]) = mshr[l][1]
        BY <1>5, <4>1, <4>2, TailElements
      <4> QED
        BY <3>1, <4>1, <4>2, <4>3, <4>4 DEF MshrProbe
    <3>2. CASE extra_mf_fields'[y] # extra_mf_fields[y]
      <4>1. y = m /\ ~MshrProbe(k) /\ extra_mf_fields'[y].key = k
        BY <1>2, <1>3, <3>2 DEF QueueTypes
      <4>2. Len(q) = 0
        BY <1>1, <1>5, <4>1 DEF MshrProbe
      <4>3. mshr'[k] # <<>> /\ mshr'[k] \in Seq(Mf) /\ mshr'[k][1] = m
        BY <1>1, <1>6, <1>7, <4>2 DEF MshrProbe
      <4>4. Head(mshr'[k]) = m
        BY <4>3, TailElements
      <4> QED
        BY <4>1, <4>3, <4>4 DEF MshrProbe
    <3> QED
      BY <3>1, <3>2
  <2> QED
    BY <2>1, <2>2 DEF TokensHeld
<1> QED
  BY <1>8, <1>9, <1>10, <1>11 DEF RequestInv

(* A response of a read of several: only its count changes.                *)
LEMMA ChunkBooks ==
  ASSUME QueueTypes, RequestInv, NEW m \in Mf, FillChunk(m)
  PROVE  QueueTypes' /\ RequestInv'
<1> DEFINE e == extra_mf_fields[m]
           f == [e EXCEPT !.pending_read = @ - 1]
<1>1. /\ mshr' = mshr /\ current_response' = current_response
      /\ miss_queue' = miss_queue
      /\ hit_response_queue' = hit_response_queue
      /\ ready_response_queue' = ready_response_queue
      /\ pending_response_indices' = pending_response_indices
      /\ req' = req /\ owed' = owed
      /\ extra_mf_fields' = [extra_mf_fields EXCEPT ![m] = f]
      /\ e # NoExtra /\ e.pending_read > 1
  BY DEF FillChunk, InMemory, mshrVars, hitVars
<1>2. e \in ExtraFields
  BY <1>1 DEF QueueTypes
<1>3. f \in ExtraFields /\ f.key = e.key /\ f.idx \in Line
  BY <1>1, <1>2 DEF ExtraFields
<1>4. f # NoExtra
  <2>1. f.idx # NoExtra.idx
    BY <1>3, TagAssumption, LineFinite DEF NoExtra
  <2> QED
    BY <2>1
<1> HIDE DEF f
<1>5. \A x \in Mf : /\ extra_mf_fields'[x] = NoExtra <=> extra_mf_fields[x] = NoExtra
                    /\ extra_mf_fields'[x].key = extra_mf_fields[x].key
  BY <1>1, <1>3, <1>4 DEF QueueTypes
<1>6. QueueTypes'
  <2>1. extra_mf_fields' \in [Mf -> ExtraFields \cup {NoExtra}]
    BY <1>1, <1>3 DEF QueueTypes
  <2> QED
    BY <1>1, <2>1 DEF QueueTypes
<1>7. MshrEntryProgresses'
  <2>1. \A x \in Mf, k \in Key : FillPending(x, k)' <=> FillPending(x, k)
    BY <1>5 DEF FillPending
  <2>2. \A k \in Key : /\ AwaitsFill(k)' <=> AwaitsFill(k)
                       /\ IsReady(k)' <=> IsReady(k)
                       /\ MshrProbe(k)' <=> MshrProbe(k)
    BY <1>1, <2>1 DEF AwaitsFill, IsReady, MshrProbe
  <2> QED
    BY <1>1, <2>1, <2>2 DEF RequestInv, MshrEntryProgresses
<1>8. OwedExactlyOnce'
  BY <1>1 DEF RequestInv, OwedExactlyOnce, InMshr, InHits, InReady
<1>9. TokensHeld'
  <2>1. \A x \in Mf : InCache(x)' <=> InCache(x)
    BY <1>1 DEF InCache
  <2>2. \A x \in Mf : extra_mf_fields'[x] # NoExtra =>
          /\ MshrProbe(extra_mf_fields[x].key)'
          /\ Head(mshr'[extra_mf_fields'[x].key]) = x
    BY <1>1, <1>5 DEF RequestInv, TokensHeld, MshrProbe
  <2> QED
    BY <1>1, <2>1, <2>2 DEF RequestInv, TokensHeld
<1> QED
  BY <1>6, <1>7, <1>8, <1>9 DEF RequestInv

(* The last response: the entry stops waiting and becomes ready.           *)
LEMMA FillBooks ==
  ASSUME QueueTypes, RequestInv, NEW m \in Mf, extra_mf_fields[m] # NoExtra,
         current_response' = MarkReady(extra_mf_fields[m].key),
         extra_mf_fields' = [extra_mf_fields EXCEPT ![m] = NoExtra],
         UNCHANGED <<mshr, miss_queue, hitVars, pending_response_indices, req, owed>>
  PROVE  QueueTypes' /\ RequestInv'
<1> DEFINE k == extra_mf_fields[m].key
           q == current_response
<1>1. /\ mshr' = mshr /\ miss_queue' = miss_queue
      /\ hit_response_queue' = hit_response_queue
      /\ ready_response_queue' = ready_response_queue
      /\ pending_response_indices' = pending_response_indices
      /\ req' = req /\ owed' = owed
  BY DEF hitVars
<1>2. k \in Key
  BY DEF QueueTypes, ExtraFields
<1>3. FillPending(m, k) /\ AwaitsFill(k) /\ ~IsReady(k) /\ MshrProbe(k)
  <2>1. FillPending(m, k)
    BY DEF FillPending
  <2> QED
    BY <1>2, <2>1 DEF RequestInv, MshrEntryProgresses, AwaitsFill
<1>4. \A x \in Mf, l \in Key : FillPending(x, l)' <=> FillPending(x, l) /\ x # m
  BY DEF FillPending, QueueTypes
<1>5. \A l \in Key : AwaitsFill(l)' <=> AwaitsFill(l) /\ l # k
  <2>1. \A l \in Key : AwaitsFill(l)' <=> \E x \in Mf : FillPending(x, l) /\ x # m
    BY <1>4 DEF AwaitsFill
  <2>2. \A x \in Mf : FillPending(x, k) => x = m
    BY <1>2, <1>3 DEF RequestInv, MshrEntryProgresses
  <2>3. \A l \in Key : FillPending(m, l) => l = k
    BY DEF FillPending
  <2> QED
    BY <2>1, <2>2, <2>3 DEF AwaitsFill
<1> HIDE DEF k
<1>6. /\ q' \in Seq(Key)
      /\ Len(q) \in Nat /\ DOMAIN q = 1 .. Len(q)
      /\ DOMAIN q' = 1 .. (Len(q) + 1)
      /\ \A i \in 1 .. Len(q) : q'[i] = q[i]
      /\ q'[Len(q) + 1] = k
  <2>1. q' = Append(q, k)
    BY DEF MarkReady, k
  <2> QED
    BY <1>2, <2>1, AppendElements DEF QueueTypes
<1>7. \A l \in Key : IsReady(l)' <=> IsReady(l) \/ l = k
  <2>1. \A l \in Key : IsReady(l)' <=> \E i \in DOMAIN q' : q'[i] = l
    BY DEF IsReady
  <2> QED
    BY <1>6, <2>1 DEF IsReady
<1>8. QueueTypes'
  <2>1. extra_mf_fields' \in [Mf -> ExtraFields \cup {NoExtra}]
    BY DEF QueueTypes
  <2> QED
    BY <1>1, <1>6, <2>1 DEF QueueTypes
<1>9. MshrEntryProgresses'
  <2>1. \A l \in Key : MshrProbe(l)' <=> MshrProbe(l)
    BY <1>1 DEF MshrProbe
  <2>2. \A i, j \in DOMAIN q' : q'[i] = q'[j] => i = j
    <3>1. \A i, j \in 1 .. Len(q) : q[i] = q[j] => i = j
      BY <1>6 DEF RequestInv, MshrEntryProgresses
    <3>2. \A i \in 1 .. Len(q) : q[i] # k
      BY <1>3, <1>6 DEF IsReady
    <3> QED
      BY <1>6, <3>1, <3>2
  <2>3. /\ \A l \in Key : MshrProbe(l)' <=> AwaitsFill(l)' \/ IsReady(l)'
        /\ \A l \in Key : ~(AwaitsFill(l)' /\ IsReady(l)')
        /\ \A x, y \in Mf, l \in Key : FillPending(x, l)' /\ FillPending(y, l)' => x = y
    BY <1>3, <1>4, <1>5, <1>7, <2>1 DEF RequestInv, MshrEntryProgresses
  <2> QED
    BY <2>2, <2>3 DEF MshrEntryProgresses
<1>10. OwedExactlyOnce'
  BY <1>1 DEF RequestInv, OwedExactlyOnce, InMshr, InHits, InReady
<1>11. TokensHeld'
  <2>1. \A x \in Mf : InCache(x)' <=> InCache(x)
    BY <1>1 DEF InCache
  <2>2. \A x \in Mf : extra_mf_fields'[x] # NoExtra =>
          /\ MshrProbe(extra_mf_fields[x].key)'
          /\ Head(mshr'[extra_mf_fields'[x].key]) = x
    BY <1>1 DEF RequestInv, TokensHeld, MshrProbe, QueueTypes
  <2> QED
    BY <1>1, <2>1, <2>2 DEF RequestInv, TokensHeld
<1> QED
  BY <1>8, <1>9, <1>10, <1>11 DEF RequestInv

(* next_access returns the oldest hit response that is ready.              *)
LEMMA ReturnHitBooks ==
  ASSUME QueueTypes, RequestInv, ready_response_queue # <<>>,
         NEW m \in Mf, m = Head(ready_response_queue),
         pending_response_indices' = [pending_response_indices EXCEPT ![m] = NoLine],
         owed' = owed \ {m}, ready_response_queue' = Tail(ready_response_queue),
         UNCHANGED <<mshrVars, missVars, hit_response_queue>>,
         Forget
  PROVE  QueueTypes' /\ RequestInv'
<1> DEFINE q == ready_response_queue
<1>1. /\ mshr' = mshr /\ current_response' = current_response
      /\ miss_queue' = miss_queue /\ extra_mf_fields' = extra_mf_fields
      /\ hit_response_queue' = hit_response_queue
  BY DEF mshrVars, missVars
<1>2. /\ q' \in Seq(Mf)
      /\ Len(q) \in Nat \ {0} /\ DOMAIN q = 1 .. Len(q)
      /\ q[1] = m
      /\ DOMAIN q' = 1 .. (Len(q) - 1)
      /\ \A i \in 1 .. (Len(q) - 1) : q'[i] = q[i + 1]
  BY TailElements DEF QueueTypes
<1>3. \A i, j \in 1 .. Len(q) : q[i] = q[j] => i = j
  BY <1>2 DEF RequestInv, OwedExactlyOnce
<1>4. \A y \in Mf : InReady(y)' <=> InReady(y) /\ y # m
  <2>1. \A y \in Mf : InReady(y)' <=> \E i \in 1 .. (Len(q) - 1) : q[i + 1] = y
    BY <1>2 DEF InReady
  <2>2. \A y \in Mf : InReady(y) <=> \E i \in 1 .. Len(q) : q[i] = y
    BY <1>2 DEF InReady
  <2>3. ASSUME NEW y \in Mf, InReady(y)' PROVE InReady(y) /\ y # m
    <3>1. PICK i \in 1 .. (Len(q) - 1) : q[i + 1] = y
      BY <2>1, <2>3
    <3>2. i + 1 \in 1 .. Len(q) /\ 1 \in 1 .. Len(q) /\ i + 1 # 1
      BY <1>2, <3>1
    <3> QED
      BY <1>2, <1>3, <2>2, <3>1, <3>2
  <2>4. ASSUME NEW y \in Mf, InReady(y), y # m PROVE InReady(y)'
    <3>1. PICK i \in 1 .. Len(q) : q[i] = y
      BY <2>2, <2>4
    <3>2. i - 1 \in 1 .. (Len(q) - 1) /\ (i - 1) + 1 = i
      BY <1>2, <2>4, <3>1
    <3> QED
      BY <2>1, <3>1, <3>2
  <2> QED
    BY <2>3, <2>4
<1>5. InReady(m) /\ ~InMshr(m) /\ ~InHits(m)
  <2>1. 1 \in DOMAIN q
    BY <1>2
  <2> QED
    BY <1>2, <2>1 DEF InReady, RequestInv, OwedExactlyOnce
<1>6. /\ req' \in [Mf -> Request \cup {NoReq}]
      /\ \A x \in Mf : InCache(x)' => req'[x] # NoReq
  <2>1. \A x \in Mf : InCache(x)' => InCache(x)
    BY <1>1 DEF InCache
  <2> QED
    BY <2>1, ForgetKeeps DEF QueueTypes, RequestInv
<1>7. QueueTypes'
  BY <1>1, <1>2, <1>6 DEF QueueTypes
<1>8. MshrEntryProgresses'
  BY <1>1 DEF RequestInv, MshrEntryProgresses, MshrProbe, AwaitsFill, IsReady, FillPending
<1>9. OwedExactlyOnce'
  <2>1. \A y \in Mf : /\ InMshr(y)' <=> InMshr(y)
                      /\ InHits(y)' <=> InHits(y)
    BY <1>1 DEF InMshr, InHits
  <2>2. /\ \A y \in Mf : y \in owed' <=> InMshr(y)' \/ InHits(y)' \/ InReady(y)'
        /\ \A y \in Mf : ~(InMshr(y)' /\ InHits(y)')
        /\ \A y \in Mf : ~(InReady(y)' /\ (InMshr(y)' \/ InHits(y)'))
    BY <1>4, <1>5, <2>1 DEF RequestInv, OwedExactlyOnce
  <2>3. \A i, j \in DOMAIN q' : q'[i] = q'[j] => i = j
    BY <1>2, <1>3
  <2> QED
    BY <1>1, <2>2, <2>3 DEF RequestInv, OwedExactlyOnce
<1>10. TokensHeld'
  <2>1. \A y \in Mf : pending_response_indices'[y] # NoLine => y \in owed'
    BY DEF RequestInv, TokensHeld, QueueTypes
  <2>2. \A y \in Mf : extra_mf_fields'[y] # NoExtra =>
          /\ MshrProbe(extra_mf_fields[y].key)'
          /\ Head(mshr'[extra_mf_fields'[y].key]) = y
    BY <1>1 DEF RequestInv, TokensHeld, MshrProbe
  <2> QED
    BY <1>6, <2>1, <2>2 DEF TokensHeld
<1> QED
  BY <1>7, <1>8, <1>9, <1>10 DEF RequestInv

(* The first address that is ready has a request to return.                *)
LEMMA ReadyHasRequest ==
  ASSUME QueueTypes, RequestInv, current_response # <<>>
  PROVE  /\ NextKey \in Key
         /\ IsReady(NextKey) /\ ~AwaitsFill(NextKey)
         /\ mshr[NextKey] # <<>>
         /\ Head(mshr[NextKey]) \in Mf
<1>1. /\ 1 \in DOMAIN current_response /\ NextKey = current_response[1]
      /\ NextKey \in Key
  BY TailElements DEF NextKey, QueueTypes
<1>2. IsReady(NextKey)
  BY <1>1 DEF IsReady
<1>3. MshrProbe(NextKey) /\ ~AwaitsFill(NextKey)
  BY <1>1, <1>2 DEF RequestInv, MshrEntryProgresses
<1>4. Head(mshr[NextKey]) \in Mf
  BY <1>1, <1>3, TailElements DEF QueueTypes, MshrProbe
<1> QED
  BY <1>1, <1>2, <1>3, <1>4 DEF MshrProbe

(* next_access returns the oldest request of that address, which stays     *)
(* ready as long as it has another.                                        *)
LEMMA ReturnMshrBooks ==
  ASSUME QueueTypes, RequestInv, current_response # <<>>,
         NEW k, k = NextKey, NEW m, m = Head(mshr[k]),
         mshr' = MshrTake(k), current_response' = ReadyAfterNext(k),
         pending_response_indices' = [pending_response_indices EXCEPT ![m] = NoLine],
         owed' = owed \ {m}, UNCHANGED <<missVars, hitVars>>, Forget
  PROVE  QueueTypes' /\ RequestInv'
<1> DEFINE q == mshr[k]
           c == current_response
<1>1. /\ miss_queue' = miss_queue /\ extra_mf_fields' = extra_mf_fields
      /\ hit_response_queue' = hit_response_queue
      /\ ready_response_queue' = ready_response_queue
  BY DEF missVars, hitVars
<1>2. k \in Key /\ m \in Mf /\ q # <<>> /\ q \in Seq(Mf) /\ IsReady(k) /\ ~AwaitsFill(k)
  BY ReadyHasRequest DEF QueueTypes
<1>3. /\ Tail(q) \in Seq(Mf)
      /\ Len(q) \in Nat \ {0} /\ DOMAIN q = 1 .. Len(q)
      /\ q[1] = m
      /\ DOMAIN Tail(q) = 1 .. (Len(q) - 1)
      /\ \A i \in 1 .. (Len(q) - 1) : Tail(q)[i] = q[i + 1]
  BY <1>2, TailElements
<1>4. /\ mshr' \in [Key -> Seq(Mf)]
      /\ \A l \in Key \ {k} : mshr'[l] = mshr[l]
      /\ mshr'[k] = Tail(q)
  BY <1>2, <1>3 DEF MshrTake, QueueTypes
<1>5. \A l, n \in Key : \A a \in DOMAIN mshr[l], b \in DOMAIN mshr[n] :
        mshr[l][a] = mshr[n][b] => l = n /\ a = b
  BY DEF RequestInv, OwedExactlyOnce
<1>6. \A y \in Mf : InMshr(y)' <=> InMshr(y) /\ y # m
  <2>1. \A y \in Mf : InMshr(y)' <=>
          \E l \in Key : \E j \in DOMAIN mshr'[l] : mshr'[l][j] = y
    BY DEF InMshr
  <2>2. \A y \in Mf, l \in Key \ {k} :
          (\E j \in DOMAIN mshr'[l] : mshr'[l][j] = y)
             <=> (\E j \in DOMAIN mshr[l] : mshr[l][j] = y) /\ y # m
    <3>1. \A l \in Key \ {k} : \A j \in DOMAIN mshr[l] : mshr[l][j] # m
      <4>1. 1 \in DOMAIN mshr[k] /\ mshr[k][1] = m
        BY <1>3
      <4> QED
        BY <1>2, <1>5, <4>1, SMTT(30)
    <3> QED
      BY <1>4, <3>1
  <2>3. ASSUME NEW y \in Mf
        PROVE  (\E j \in DOMAIN mshr'[k] : mshr'[k][j] = y)
                 <=> (\E j \in DOMAIN mshr[k] : mshr[k][j] = y) /\ y # m
    <3>1. ASSUME NEW j \in DOMAIN mshr'[k], mshr'[k][j] = y
          PROVE  (\E a \in DOMAIN q : q[a] = y) /\ y # m
      <4>1. j \in 1 .. (Len(q) - 1) /\ q[j + 1] = y
        BY <1>3, <1>4, <3>1
      <4>2. j + 1 \in DOMAIN q /\ 1 \in DOMAIN q /\ j + 1 # 1
        BY <1>3, <4>1
      <4>3. q[j + 1] # q[1]
        BY <1>2, <1>5, <4>2, SMTT(30)
      <4> QED
        BY <1>3, <4>1, <4>2, <4>3
    <3>2. ASSUME NEW a \in DOMAIN q, q[a] = y, y # m
          PROVE  \E j \in DOMAIN mshr'[k] : mshr'[k][j] = y
      <4>1. a - 1 \in 1 .. (Len(q) - 1) /\ (a - 1) + 1 = a
        BY <1>3, <3>2
      <4> QED
        BY <1>3, <1>4, <3>2, <4>1
    <3> QED
      BY <3>1, <3>2
  <2> QED
    <3>1. \A y \in Mf, l \in Key :
            (\E j \in DOMAIN mshr'[l] : mshr'[l][j] = y)
               <=> (\E j \in DOMAIN mshr[l] : mshr[l][j] = y) /\ y # m
      BY <2>2, <2>3
    <3> QED
      BY <2>1, <3>1, Zenon DEF InMshr
<1>7. /\ req' \in [Mf -> Request \cup {NoReq}]
      /\ \A x \in Mf : InCache(x)' => req'[x] # NoReq
  <2>1. \A x \in Mf : InCache(x)' => InCache(x)
    BY <1>1 DEF InCache
  <2> QED
    BY <2>1, ForgetKeeps DEF QueueTypes, RequestInv
<1>8. /\ Tail(c) \in Seq(Key)
      /\ Len(c) \in Nat \ {0} /\ DOMAIN c = 1 .. Len(c) /\ c[1] = k
      /\ DOMAIN Tail(c) = 1 .. (Len(c) - 1)
      /\ \A i \in 1 .. (Len(c) - 1) : Tail(c)[i] = c[i + 1]
  BY TailElements DEF QueueTypes, NextKey
<1>9. \A i, j \in DOMAIN c : c[i] = c[j] => i = j
  BY DEF RequestInv, MshrEntryProgresses
<1>10. \/ /\ Len(q) = 1 /\ c' = Tail(c) /\ mshr'[k] = <<>>
       \/ /\ Len(q) # 1 /\ c' = c /\ mshr'[k] # <<>>
  <2>1. c' = IF Len(q) = 1 THEN Tail(c) ELSE c
    BY DEF ReadyAfterNext
  <2>2. Tail(q) = <<>> <=> Len(q) = 1
    <3>1. Len(Tail(q)) = Len(q) - 1
      BY <1>2, HeadTailProperties
    <3>2. \A t \in Seq(Mf) : t = <<>> <=> Len(t) = 0
      BY EmptySeq
    <3>3. Tail(q) = <<>> <=> Len(Tail(q)) = 0
      BY <1>3, <3>2, Zenon
    <3>4. Len(Tail(q)) = 0 <=> Len(q) = 1
      BY <1>3, <3>1
    <3> QED
      BY <3>3, <3>4, Zenon
  <2> QED
    BY <1>4, <2>1, <2>2
<1>11. QueueTypes'
  <2>1. c' \in Seq(Key)
    BY <1>8, <1>10 DEF QueueTypes
  <2>2. pending_response_indices' \in [Mf -> Line \cup {NoLine}]
    BY DEF QueueTypes
  <2> QED
    BY <1>1, <1>4, <1>7, <2>1, <2>2 DEF QueueTypes
<1>12. MshrEntryProgresses'
  <2>1. \A x \in Mf, l \in Key : FillPending(x, l)' <=> FillPending(x, l)
    BY <1>1 DEF FillPending
  <2>2. \A l \in Key : AwaitsFill(l)' <=> AwaitsFill(l)
    BY <2>1 DEF AwaitsFill
  <2>3. /\ \A l \in Key \ {k} : MshrProbe(l)' <=> MshrProbe(l)
        /\ MshrProbe(k)' <=> Len(q) # 1
    BY <1>2, <1>4, <1>10 DEF MshrProbe
  <2>4. /\ \A l \in Key \ {k} : IsReady(l)' <=> IsReady(l)
        /\ IsReady(k)' <=> Len(q) # 1
        /\ \A i, j \in DOMAIN c' : c'[i] = c'[j] => i = j
    <3>0. \A l \in Key : IsReady(l)' <=> \E i \in DOMAIN c' : c'[i] = l
      BY DEF IsReady
    <3>1. CASE Len(q) # 1
      <4>1. c' = c
        BY <1>10, <3>1
      <4> QED
        BY <1>2, <1>9, <3>0, <3>1, <4>1 DEF IsReady
    <3>2. CASE Len(q) = 1
      <4>1. c' = Tail(c)
        BY <1>10, <3>2
      <4>2. \A i \in DOMAIN c' : i + 1 \in DOMAIN c /\ c'[i] = c[i + 1] /\ i + 1 # 1
        BY <1>8, <4>1
      <4>3. \A i \in DOMAIN c \ {1} :
              i - 1 \in DOMAIN c' /\ c'[i - 1] = c[i]
        <5> SUFFICES ASSUME NEW i \in DOMAIN c \ {1}
                     PROVE  i - 1 \in DOMAIN c' /\ c'[i - 1] = c[i]
          OBVIOUS
        <5>1. i - 1 \in 1 .. (Len(c) - 1) /\ (i - 1) + 1 = i
          BY <1>8
        <5> QED
          BY <1>8, <4>1, <5>1
      <4>4. ~IsReady(k)'
        <5>1. \A i \in DOMAIN c' : c'[i] # k
          BY <1>8, <1>9, <4>2
        <5> QED
          BY <1>2, <3>0, <5>1
      <4>5. \A l \in Key \ {k} : IsReady(l)' <=> IsReady(l)
        BY <1>8, <3>0, <4>2, <4>3 DEF IsReady
      <4>6. \A i, j \in DOMAIN c' : c'[i] = c'[j] => i = j
        <5> SUFFICES ASSUME NEW i \in DOMAIN c', NEW j \in DOMAIN c', c'[i] = c'[j]
                     PROVE  i = j
          OBVIOUS
        <5>1. i \in Nat /\ j \in Nat /\ i + 1 = j + 1
          BY <1>8, <1>9, <4>1, <4>2
        <5> QED
          BY <5>1
      <4> QED
        BY <3>2, <4>4, <4>5, <4>6
    <3> QED
      BY <3>1, <3>2
  <2>5. /\ \A l \in Key : MshrProbe(l)' <=> AwaitsFill(l)' \/ IsReady(l)'
        /\ \A l \in Key : ~(AwaitsFill(l)' /\ IsReady(l)')
    BY <1>2, <2>2, <2>3, <2>4 DEF RequestInv, MshrEntryProgresses
  <2> QED
    BY <2>1, <2>4, <2>5 DEF RequestInv, MshrEntryProgresses
<1>13. OwedExactlyOnce'
  <2>1. \A y \in Mf : /\ InHits(y)' <=> InHits(y)
                      /\ InReady(y)' <=> InReady(y)
    BY <1>1 DEF InHits, InReady
  <2>2. InMshr(m)
    <3>1. 1 \in DOMAIN q
      BY <1>3
    <3> QED
      BY <1>2, <1>3, <3>1 DEF InMshr
  <2>3. /\ \A y \in Mf : y \in owed' <=> InMshr(y)' \/ InHits(y)' \/ InReady(y)'
        /\ \A y \in Mf : ~(InMshr(y)' /\ InHits(y)')
        /\ \A y \in Mf : ~(InReady(y)' /\ (InMshr(y)' \/ InHits(y)'))
    BY <1>2, <1>6, <2>1, <2>2 DEF RequestInv, OwedExactlyOnce
  <2>4. ASSUME NEW l \in Key, NEW n \in Key,
               NEW a \in DOMAIN mshr'[l], NEW b \in DOMAIN mshr'[n],
               mshr'[l][a] = mshr'[n][b]
        PROVE  l = n /\ a = b
    <3> DEFINE up(x, i) == IF x = k THEN i + 1 ELSE i
    <3>1. \A x \in Key : \A i \in DOMAIN mshr'[x] :
             /\ i \in Nat
             /\ up(x, i) \in DOMAIN mshr[x]
             /\ mshr'[x][i] = mshr[x][up(x, i)]
      <4>1. \A i \in DOMAIN mshr'[k] :
               i \in Nat /\ i + 1 \in DOMAIN mshr[k] /\ mshr'[k][i] = mshr[k][i + 1]
        BY <1>3, <1>4
      <4>2. \A x \in Key \ {k} : \A i \in DOMAIN mshr'[x] :
               i \in Nat /\ i \in DOMAIN mshr[x] /\ mshr'[x][i] = mshr[x][i]
        <5>1. \A x \in Key : DOMAIN mshr[x] \subseteq Nat
          BY DEF QueueTypes
        <5> QED
          BY <1>4, <5>1
      <4> QED
        BY <4>1, <4>2
    <3>2. mshr[l][up(l, a)] = mshr[n][up(n, b)]
      BY <2>4, <3>1
    <3>3. l = n /\ up(l, a) = up(n, b)
      <4> HIDE DEF up
      <4> QED
        BY <1>5, <3>1, <3>2, SMTT(60)
    <3> QED
      BY <3>1, <3>3
  <2> QED
    BY <1>1, <2>3, <2>4 DEF RequestInv, OwedExactlyOnce
<1>14. TokensHeld'
  <2>1. \A y \in Mf : pending_response_indices'[y] # NoLine => y \in owed'
    BY <1>2 DEF RequestInv, TokensHeld, QueueTypes
  <2>2. ASSUME NEW y \in Mf, extra_mf_fields'[y] # NoExtra
        PROVE  /\ MshrProbe(extra_mf_fields[y].key)'
               /\ Head(mshr'[extra_mf_fields'[y].key]) = y
    <3> DEFINE l == extra_mf_fields[y].key
    <3>1. l \in Key /\ mshr[l] # <<>> /\ Head(mshr[l]) = y
      BY <1>1, <2>2 DEF RequestInv, TokensHeld, MshrProbe, QueueTypes, ExtraFields
    <3>2. AwaitsFill(l)
      BY <1>1, <2>2 DEF AwaitsFill, FillPending
    <3>3. mshr'[l] = mshr[l]
      BY <1>2, <1>4, <3>1, <3>2
    <3> QED
      BY <1>1, <3>1, <3>3 DEF MshrProbe
  <2> QED
    BY <1>7, <2>1, <2>2 DEF TokensHeld
<1> QED
  BY <1>11, <1>12, <1>13, <1>14 DEF RequestInv

(* An enumeration of a finite set of positions in order meets each once.   *)
LEMMA InOrderOnto ==
  ASSUME NEW S \in SUBSET Nat, IsFiniteSet(S), NEW e \in InOrder(S)
  PROVE  /\ Cardinality(S) \in Nat /\ DOMAIN e = 1 .. Cardinality(S)
         /\ \A j \in DOMAIN e : e[j] \in S
         /\ \A i, j \in DOMAIN e : e[i] = e[j] => i = j
         /\ \A s \in S : \E j \in DOMAIN e : e[j] = s
<1> DEFINE n == Cardinality(S)
<1>1. n \in Nat
  BY FS_CardinalityType
<1> HIDE DEF n
<1>2. e \in [1 .. n -> S] /\ \A i, j \in 1 .. n : i < j => e[i] < e[j]
  BY DEF InOrder, n
<1>3. ASSUME NEW i \in 1 .. n, NEW j \in 1 .. n, e[i] = e[j] PROVE i = j
  <2>1. e[i] \in Nat /\ e[j] \in Nat
    BY <1>2
  <2>2. (i < j => e[i] < e[j]) /\ (j < i => e[j] < e[i])
    BY <1>2
  <2>3. ~(e[i] < e[j]) /\ ~(e[j] < e[i])
    BY <1>3, <2>1
  <2>4. ~(i < j) /\ ~(j < i)
    BY <2>2, <2>3
  <2> QED
    BY <1>1, <2>4
<1>4. e \in Injection(1 .. n, S)
  BY <1>2, <1>3 DEF Injection, IsInjective
<1>5. Cardinality(1 .. n) = n
  BY <1>1, FS_Interval
<1>6. e \in Surjection(1 .. n, S)
  BY <1>4, <1>5, FS_Injection DEF n
<1> QED
  BY <1>1, <1>2, <1>3, <1>6 DEF Surjection, n

(* cycle moves the finished hit responses and sends what is sent; no       *)
(* request gets lost between the two queues.                               *)
LEMMA CycleBooks ==
  ASSUME QueueTypes, RequestInv, NEW portFull, Cycle(portFull)
  PROVE  QueueTypes' /\ RequestInv'
<1> DEFINE q == hit_response_queue
           H == [mf : Mf, remaining_cycles : Nat \ {0}]
           done == {i \in DOMAIN q : q[i].remaining_cycles = 1}
           rest == DOMAIN q \ done
<1>1. /\ mshr' = mshr /\ current_response' = current_response
      /\ extra_mf_fields' = extra_mf_fields /\ owed' = owed
      /\ pending_response_indices' = pending_response_indices
      /\ \/ miss_queue' = miss_queue
         \/ (miss_queue # <<>> /\ miss_queue' = Tail(miss_queue))
      /\ Forget
  BY DEF Cycle, mshrVars
<1>2. PICK a \in InOrder(done) :
        ready_response_queue' = ready_response_queue \o [j \in DOMAIN a |-> q[a[j]].mf]
  BY DEF Cycle
<1>3. PICK b \in InOrder(rest) :
        q' = [j \in DOMAIN b |-> [q[b[j]] EXCEPT !.remaining_cycles = @ - 1]]
  BY DEF Cycle
<1>4. q \in Seq(H) /\ Len(q) \in Nat /\ DOMAIN q = 1 .. Len(q)
      /\ \A i \in DOMAIN q : q[i] \in H
  <2>1. q \in Seq(H)
    BY DEF QueueTypes
  <2> HIDE DEF H
  <2>2. Len(q) \in Nat /\ DOMAIN q = 1 .. Len(q) /\ q \in [1 .. Len(q) -> H]
    BY <2>1, LenProperties
  <2> QED
    BY <2>1, <2>2
<1>5. /\ done \in SUBSET Nat /\ IsFiniteSet(done)
      /\ rest \in SUBSET Nat /\ IsFiniteSet(rest)
  <2>1. IsFiniteSet(1 .. Len(q))
    BY <1>4, FS_Interval
  <2>2. done \subseteq 1 .. Len(q) /\ rest \subseteq 1 .. Len(q)
    BY <1>4
  <2> QED
    BY <2>1, <2>2, FS_Subset
<1>6. /\ Cardinality(done) \in Nat /\ DOMAIN a = 1 .. Cardinality(done)
      /\ \A j \in DOMAIN a : a[j] \in done
      /\ \A i, j \in DOMAIN a : a[i] = a[j] => i = j
      /\ \A s \in done : \E j \in DOMAIN a : a[j] = s
  BY <1>5, InOrderOnto
<1>7. /\ Cardinality(rest) \in Nat /\ DOMAIN b = 1 .. Cardinality(rest)
      /\ \A j \in DOMAIN b : b[j] \in rest
      /\ \A i, j \in DOMAIN b : b[i] = b[j] => i = j
      /\ \A s \in rest : \E j \in DOMAIN b : b[j] = s
  BY <1>5, InOrderOnto
<1>8. /\ q' \in Seq(H) /\ DOMAIN q' = DOMAIN b
      /\ \A j \in DOMAIN b : q'[j].mf = q[b[j]].mf
  <2>1. \A i \in rest : [q[i] EXCEPT !.remaining_cycles = @ - 1] \in H
                        /\ [q[i] EXCEPT !.remaining_cycles = @ - 1].mf = q[i].mf
    BY <1>4
  <2>2. q' \in [1 .. Cardinality(rest) -> H]
    BY <1>3, <1>7, <2>1
  <2>3. q' \in Seq(H)
    BY <1>7, <2>2, FunctionIsSeq
  <2> QED
    BY <1>3, <1>7, <2>1, <2>3
<1> DEFINE g == [j \in DOMAIN a |-> q[a[j]].mf]
           w == ready_response_queue
<1>9. /\ g \in Seq(Mf) /\ DOMAIN g = DOMAIN a
      /\ \A j \in DOMAIN a : g[j] = q[a[j]].mf
  <2>1. \A i \in done : q[i].mf \in Mf
    BY <1>4
  <2>2. g \in [1 .. Cardinality(done) -> Mf]
    BY <1>6, <2>1
  <2>3. g \in Seq(Mf)
    BY <1>6, <2>2, FunctionIsSeq
  <2> QED
    BY <2>3
<1> HIDE DEF g, done, rest
<1>10. /\ w' \in Seq(Mf)
       /\ Len(w) \in Nat /\ Len(g) \in Nat
       /\ DOMAIN w = 1 .. Len(w) /\ DOMAIN g = 1 .. Len(g)
       /\ DOMAIN w' = 1 .. (Len(w) + Len(g))
       /\ \A i \in 1 .. Len(w) : w'[i] = w[i]
       /\ \A i \in 1 .. Len(g) : w'[Len(w) + i] = g[i]
  <2>1. w' = w \o g /\ w \in Seq(Mf)
    BY <1>2 DEF QueueTypes, g
  <2> QED
    BY <1>9, <2>1, ConcatElements
<1>11. \A y \in Mf : InHits(y)' <=> \E i \in rest : q[i].mf = y
  <2>1. \A y \in Mf : InHits(y)' <=> \E j \in DOMAIN q' : q'[j].mf = y
    BY DEF InHits
  <2> QED
    BY <1>7, <1>8, <2>1
<1>12. \A y \in Mf : InReady(y)' <=> InReady(y) \/ \E i \in done : q[i].mf = y
  <2>1. \A y \in Mf : InReady(y)' <=> \E j \in DOMAIN w' : w'[j] = y
    BY DEF InReady
  <2>2. \A y \in Mf : (\E j \in DOMAIN g : g[j] = y) <=> \E i \in done : q[i].mf = y
    BY <1>6, <1>9
  <2>3. ASSUME NEW y \in Mf, NEW j \in DOMAIN w', w'[j] = y
        PROVE  InReady(y) \/ \E i \in DOMAIN g : g[i] = y
    <3>1. CASE j \in 1 .. Len(w)
      BY <1>10, <2>3, <3>1 DEF InReady
    <3>2. CASE j \notin 1 .. Len(w)
      <4>1. j - Len(w) \in 1 .. Len(g) /\ Len(w) + (j - Len(w)) = j
        BY <1>10, <3>2
      <4> QED
        BY <1>10, <2>3, <4>1
    <3> QED
      BY <3>1, <3>2
  <2>4. ASSUME NEW y \in Mf, InReady(y) PROVE \E j \in DOMAIN w' : w'[j] = y
    BY <1>10, <2>4 DEF InReady
  <2>5. ASSUME NEW y \in Mf, NEW i \in DOMAIN g, g[i] = y
        PROVE  \E j \in DOMAIN w' : w'[j] = y
    <3>1. Len(w) + i \in DOMAIN w'
      BY <1>10
    <3> QED
      BY <1>10, <2>5, <3>1
  <2> QED
    BY <2>1, <2>2, <2>3, <2>4, <2>5
<1>13. \A i, j \in DOMAIN q : q[i].mf = q[j].mf => i = j
  BY DEF RequestInv, OwedExactlyOnce
<1>14. \A y \in Mf : InHits(y) <=>
         (\E i \in done : q[i].mf = y) \/ (\E i \in rest : q[i].mf = y)
  BY DEF InHits, done, rest
<1>15. \A y \in Mf : ~((\E i \in done : q[i].mf = y) /\ (\E i \in rest : q[i].mf = y))
  BY <1>13 DEF done, rest
<1>16. miss_queue' \in Seq(MissEntry) /\ \A x \in Mf : InCache(x)' => InCache(x)
  <2>1. CASE miss_queue' = miss_queue
    BY <1>1, <2>1 DEF InCache, QueueTypes
  <2>2. CASE miss_queue # <<>> /\ miss_queue' = Tail(miss_queue)
    <3>1. /\ miss_queue' \in Seq(MissEntry)
          /\ \A i \in DOMAIN miss_queue' :
               i + 1 \in DOMAIN miss_queue /\ miss_queue'[i] = miss_queue[i + 1]
      BY <2>2, TailElements DEF QueueTypes
    <3> QED
      BY <1>1, <3>1 DEF InCache
  <2> QED
    BY <1>1, <2>1, <2>2
<1>17. /\ req' \in [Mf -> Request \cup {NoReq}]
       /\ \A x \in Mf : InCache(x)' => req'[x] # NoReq
  BY <1>1, <1>16, ForgetKeeps DEF QueueTypes, RequestInv
<1>18. QueueTypes'
  BY <1>1, <1>8, <1>10, <1>16, <1>17 DEF QueueTypes
<1>19. MshrEntryProgresses'
  BY <1>1 DEF RequestInv, MshrEntryProgresses, MshrProbe, AwaitsFill, IsReady, FillPending
<1>20. OwedExactlyOnce'
  <2>1. \A y \in Mf : InMshr(y)' <=> InMshr(y)
    BY <1>1 DEF InMshr
  <2>2. /\ \A y \in Mf : y \in owed' <=> InMshr(y)' \/ InHits(y)' \/ InReady(y)'
        /\ \A y \in Mf : ~(InMshr(y)' /\ InHits(y)')
        /\ \A y \in Mf : ~(InReady(y)' /\ (InMshr(y)' \/ InHits(y)'))
    <3>1. /\ \A y \in Mf : y \in owed <=> InMshr(y) \/ InHits(y) \/ InReady(y)
          /\ \A y \in Mf : ~(InMshr(y) /\ InHits(y))
          /\ \A y \in Mf : ~(InReady(y) /\ (InMshr(y) \/ InHits(y)))
      BY DEF RequestInv, OwedExactlyOnce
    <3> QED
      BY <1>1, <1>11, <1>12, <1>14, <1>15, <2>1, <3>1
  <2>3. \A i, j \in DOMAIN q' : q'[i].mf = q'[j].mf => i = j
    <3>1. \A j \in DOMAIN b : b[j] \in DOMAIN q
      BY <1>7 DEF rest
    <3> QED
      BY <1>7, <1>8, <1>13, <3>1
  <2>4. \A i, j \in DOMAIN w' : w'[i] = w'[j] => i = j
    <3>1. \A i, j \in 1 .. Len(w) : w[i] = w[j] => i = j
      BY <1>10 DEF RequestInv, OwedExactlyOnce
    <3>2. \A i, j \in 1 .. Len(g) : g[i] = g[j] => i = j
      BY <1>6, <1>9, <1>10, <1>13 DEF done
    <3>3. \A i \in 1 .. Len(w), j \in 1 .. Len(g) : w[i] # g[j]
      <4> SUFFICES ASSUME NEW i \in 1 .. Len(w), NEW j \in 1 .. Len(g), w[i] = g[j]
                   PROVE  FALSE
        OBVIOUS
      <4>1. w[i] \in Mf /\ InReady(w[i])
        BY <1>10 DEF InReady, QueueTypes
      <4>2. InHits(w[i])
        <5>1. j \in DOMAIN a
          BY <1>9, <1>10
        <5>2. a[j] \in done /\ q[a[j]].mf = w[i]
          BY <1>6, <1>9, <5>1
        <5>3. a[j] \in DOMAIN q
          BY <5>2 DEF done
        <5> QED
          BY <5>2, <5>3 DEF InHits
      <4> QED
        BY <4>1, <4>2 DEF RequestInv, OwedExactlyOnce
    <3>4. \A i \in DOMAIN w' : \/ i \in 1 .. Len(w) /\ w'[i] = w[i]
                               \/ /\ i - Len(w) \in 1 .. Len(g)
                                  /\ w'[i] = g[i - Len(w)]
      <4> SUFFICES ASSUME NEW i \in DOMAIN w', i \notin 1 .. Len(w)
                   PROVE  i - Len(w) \in 1 .. Len(g) /\ w'[i] = g[i - Len(w)]
        BY <1>10
      <4>1. i - Len(w) \in 1 .. Len(g) /\ Len(w) + (i - Len(w)) = i
        BY <1>10
      <4> QED
        BY <1>10, <4>1
    <3>5. \A i, j \in DOMAIN w' : i \in Int /\ j \in Int /\ Len(w) \in Int
      BY <1>10
    <3> QED
      BY <3>1, <3>2, <3>3, <3>4, <3>5
  <2> QED
    BY <1>1, <2>2, <2>3, <2>4 DEF RequestInv, OwedExactlyOnce
<1>21. TokensHeld'
  <2>1. \A y \in Mf : pending_response_indices'[y] # NoLine => y \in owed'
    BY <1>1 DEF RequestInv, TokensHeld
  <2>2. \A y \in Mf : extra_mf_fields'[y] # NoExtra =>
          /\ MshrProbe(extra_mf_fields[y].key)'
          /\ Head(mshr'[extra_mf_fields'[y].key]) = y
    BY <1>1 DEF RequestInv, TokensHeld, MshrProbe
  <2> QED
    BY <1>17, <2>1, <2>2 DEF TokensHeld
<1> QED
  BY <1>18, <1>19, <1>20, <1>21 DEF RequestInv

-----------------------------------------------------------------------------
(* The parts of IInv, and IInv from its parts in the next state.           *)
LEMMA IInvParts ==
  ASSUME IInv
  PROVE  /\ policy \in Policies /\ policy \in Config
         /\ is_used \in BOOLEAN /\ closed \in BOOLEAN
         /\ unsent \subseteq Key \X Byte
         /\ lines \in [Line -> CacheBlockT]
         /\ TagInv /\ QueueTypes /\ PinConsistency /\ RequestInv
BY PolicyAssumption DEF IInv, TypeOK, TagInv, QueueTypes, DirtyCoversModified, ValidConfig

(* IInv holds after a step that keeps its parts.                           *)
LEMMA IInvNext ==
  ASSUME policy \in Policies, policy' = policy, is_used' \in BOOLEAN, closed' \in BOOLEAN,
         unsent' \subseteq Key \X Byte,
         TagInv', QueueTypes', PinConsistency', RequestInv'
  PROVE  IInv'
BY DEF IInv, TypeOK, TagInv, QueueTypes, DirtyCoversModified

(* What a request says: its block, its sector, the bytes it covers.        *)
LEMMA RequestParts ==
  ASSUME NEW r \in Request
  PROVE  /\ r.blk \in Nat /\ r.sec \in Sector /\ KeyOf(r) \in Key
         /\ MaskOf(r) \in ByteMask
         /\ BytesOf(r) \subseteq Key \X Byte
<1>1. r.blk \in Blk /\ r.sec \in Sector /\ r.bytes \subseteq Byte
  BY DEF Request
<1>2. KeyOf(r) \in Key
  BY <1>1 DEF KeyOf, Key
<1>3. MaskOf(r) \in ByteMask
  BY <1>1 DEF MaskOf, ByteMask
<1>4. BytesOf(r) \subseteq Key \X Byte
  BY <1>1, <1>2 DEF BytesOf
<1> QED
  BY <1>1, <1>2, <1>3, <1>4, AddressAssumption

(* The miss queue entries that carry a request carry its token.            *)
LEMMA EntryTypes ==
  ASSUME NEW m \in Mf, NEW r \in Request
  PROVE  /\ WriteEntry(m, r) \in MissEntry /\ WriteEntry(m, r).mf = m
         /\ ReadEntry(m, r) \in MissEntry /\ ReadEntry(m, r).mf = m
BY RequestParts DEF WriteEntry, ReadEntry, MissEntry

(* The entries an access of m adds to the miss queue.                      *)
OwnEntries(m, e) ==
  e \in Seq(MissEntry) /\ \A i \in DOMAIN e : e[i].mf \in {m, NoMf}

(* The entries of one access are of this form: the empty sequence and a    *)
(* single entry,                                                           *)
LEMMA OwnOne ==
  ASSUME NEW m, NEW x \in MissEntry, x.mf \in {m, NoMf}
  PROVE  OwnEntries(m, <<>>) /\ OwnEntries(m, <<x>>)
<1>1. <<>> \in Seq(MissEntry) /\ DOMAIN <<>> = {}
  BY EmptySeq
<1>2. <<x>> \in Seq(MissEntry) /\ DOMAIN <<x>> = {1} /\ <<x>>[1] = x
  OBVIOUS
<1> QED
  BY <1>1, <1>2 DEF OwnEntries

(* two such sequences one after the other,                                 *)
LEMMA OwnConcat ==
  ASSUME NEW m, NEW e, NEW f, OwnEntries(m, e), OwnEntries(m, f)
  PROVE  OwnEntries(m, e \o f)
<1>0. e \in Seq(MissEntry) /\ f \in Seq(MissEntry)
  BY DEF OwnEntries
<1>1. /\ e \o f \in Seq(MissEntry)
      /\ Len(e) \in Nat /\ Len(f) \in Nat
      /\ DOMAIN e = 1 .. Len(e) /\ DOMAIN f = 1 .. Len(f)
      /\ DOMAIN (e \o f) = 1 .. (Len(e) + Len(f))
      /\ \A i \in 1 .. Len(e) : (e \o f)[i] = e[i]
      /\ \A i \in 1 .. Len(f) : (e \o f)[Len(e) + i] = f[i]
  BY <1>0, ConcatElements
<1>2. ASSUME NEW j \in DOMAIN (e \o f) PROVE (e \o f)[j].mf \in {m, NoMf}
  <2>1. CASE j \in 1 .. Len(e)
    BY <1>1, <2>1 DEF OwnEntries
  <2>2. CASE j \notin 1 .. Len(e)
    <3>1. j - Len(e) \in 1 .. Len(f) /\ Len(e) + (j - Len(e)) = j
      BY <1>1, <2>2
    <3>2. (e \o f)[j] = f[j - Len(e)]
      BY <1>1, <3>1
    <3> QED
      BY <1>1, <3>1, <3>2 DEF OwnEntries
  <2> QED
    BY <2>1, <2>2
<1> QED
  BY <1>1, <1>2 DEF OwnEntries

(* The four parts of a miss queue can be grouped either way.               *)
LEMMA ConcatFour ==
  \A a, b, c, d \in Seq(MissEntry) :
     ((a \o b) \o c) \o d = a \o (b \o (c \o d))
<1> DEFINE Cat(x, y) == x \o y
<1>1. \A x, y, z \in Seq(MissEntry) : Cat(Cat(x, y), z) = Cat(x, Cat(y, z))
  BY ConcatAssociative
<1>2. \A x, y \in Seq(MissEntry) : Cat(x, y) \in Seq(MissEntry)
  BY ConcatProperties
<1>3. \A a, b, c, d \in Seq(MissEntry) :
        Cat(Cat(Cat(a, b), c), d) = Cat(a, Cat(b, Cat(c, d)))
  <2> HIDE DEF Cat
  <2> QED
    BY <1>1, <1>2
<1> QED
  BY <1>3, Zenon

(* and the write back of the line that the access evicts.                  *)
LEMMA WriteBackOwn ==
  ASSUME NEW m, NEW t, t.evicted.tag \in Nat
  PROVE  OwnEntries(m, WriteBack(t))
<1> DEFINE x == [kind |-> "WRITEBACK", mf |-> NoMf, blk |-> t.evicted.tag]
<1>1. x \in MissEntry /\ x.mf = NoMf
  BY DEF MissEntry
<1>2. WriteBack(t) = <<x>> \/ WriteBack(t) = <<>>
  BY DEF WriteBack
<1> HIDE DEF x
<1>3. OwnEntries(m, <<>>) /\ OwnEntries(m, <<x>>)
  BY <1>1, OwnOne
<1> QED
  BY <1>2, <1>3

(* PinIfDeferred adds a pin exactly when an index is recorded.             *)
LEMMA PinIfDeferredType ==
  ASSUME NEW line \in CacheBlockT
  PROVE  /\ PinIfDeferred(line) \in CacheBlockT
         /\ PinIfDeferred(line).pending_response_count
              = line.pending_response_count + (IF policy.defer THEN 1 ELSE 0)
         /\ IsModifiedLine(PinIfDeferred(line)) <=> IsModifiedLine(line)
<1>1. line.pending_response_count \in Nat
  BY DEF CacheBlockT
<1> QED
  BY <1>1, PinType DEF PinIfDeferred

(* An access that may pin the line it found keeps the pins in balance.     *)
LEMMA PinsOfAccess ==
  ASSUME PinConsistency, lines \in [Line -> CacheBlockT],
         pending_response_indices \in [Mf -> Line \cup {NoLine}],
         NEW m \in Mf, pending_response_indices[m] = NoLine, NEW i \in Line,
         NEW new \in CacheBlockT,
         new.pending_response_count
           = lines[i].pending_response_count + (IF policy.defer THEN 1 ELSE 0),
         lines' = [lines EXCEPT ![i] = new],
         pending_response_indices' = IndexIfDeferred(m, i)
  PROVE  PinConsistency'
<1>1. CASE policy.defer
  <2>1. LineStep(i, 1)
    BY <1>1 DEF LineStep
  <2>2. pending_response_indices' = [pending_response_indices EXCEPT ![m] = i]
    BY <1>1 DEF IndexIfDeferred
  <2> QED
    BY <2>1, <2>2, PinAdded
<1>2. CASE ~policy.defer
  <2>1. LineStep(i, 0)
    BY <1>2 DEF LineStep
  <2>2. pending_response_indices' = pending_response_indices
    BY <1>2 DEF IndexIfDeferred
  <2> QED
    BY <2>1, <2>2, LineStepKeepsPins, PinsKept
<1> QED
  BY <1>1, <1>2

-----------------------------------------------------------------------------
(* Accesses *)

(* Every hit: one line changes, keeping its pins but for the new one, and  *)
(* the write of a write-through or write-evict hit goes to the miss queue. *)
LEMMA AcceptHit ==
  ASSUME IInv, NEW m \in Mf, FreeMf(m), NEW r \in Request, NEW i \in Line,
         NEW new \in CacheBlockT,
         new.pending_response_count = lines[i].pending_response_count,
         lines' = [lines EXCEPT ![i] = PinIfDeferred(new)],
         \/ dirty' = DirtyAfter(dirty, lines[i], new)
         \/ dirty' = dirty /\ (IsModifiedLine(new) => IsModifiedLine(lines[i])),
         RespondToHit(m, i), Accept(m, r),
         UNCHANGED <<policy, mshrVars, extra_mf_fields, closed>>,
         is_used' \in BOOLEAN, unsent' \subseteq Key \X Byte,
         \/ miss_queue' = miss_queue
         \/ miss_queue' = Append(miss_queue, WriteEntry(m, r))
  PROVE  IInv'
<1>1. /\ policy \in Policies /\ closed \in BOOLEAN /\ lines \in [Line -> CacheBlockT]
      /\ TagInv /\ QueueTypes /\ PinConsistency /\ RequestInv
  BY IInvParts
<1> DEFINE fin == PinIfDeferred(new)
<1>2. /\ fin \in CacheBlockT
      /\ fin.pending_response_count
           = lines[i].pending_response_count + (IF policy.defer THEN 1 ELSE 0)
      /\ IsModifiedLine(fin) <=> IsModifiedLine(new)
  BY PinIfDeferredType
<1> HIDE DEF fin
<1>3. lines' = [lines EXCEPT ![i] = fin]
  BY DEF fin
<1>4. TagInv'
  <2>1. CASE dirty' = DirtyAfter(dirty, lines[i], new)
    <3>1. dirty' = DirtyAfter(DirtyLeft(lines[i], lines[i]), lines[i], fin)
      BY <1>2, <2>1 DEF DirtyAfter, DirtyLeft
    <3> QED
      BY <1>1, <1>2, <1>3, <3>1, DirtyCounted
  <2>2. CASE dirty' = dirty /\ (IsModifiedLine(new) => IsModifiedLine(lines[i]))
    BY <1>1, <1>2, <1>3, <2>2, DirtyUntouched
  <2> QED
    BY <2>1, <2>2
<1>5. pending_response_indices[m] = NoLine
  BY <1>1, FreeToken
<1>6. pending_response_indices' = IndexIfDeferred(m, i) /\ owed' \subseteq owed \cup {m}
  BY DEF RespondToHit
<1>7. PinConsistency'
  BY <1>1, <1>2, <1>3, <1>5, <1>6, PinsOfAccess DEF QueueTypes
<1>8. /\ miss_queue' \in Seq(MissEntry)
      /\ \A x \in Mf \ {m} : InCache(x)' => InCache(x)
  <2> DEFINE one == <<WriteEntry(m, r)>>
  <2>1. miss_queue \in Seq(MissEntry) /\ WriteEntry(m, r) \in MissEntry
        /\ WriteEntry(m, r).mf = m
    BY <1>1, EntryTypes DEF QueueTypes
  <2>2. one \in Seq(MissEntry) /\ \A j \in DOMAIN one : one[j].mf \in {m, NoMf}
    BY <2>1
  <2>3. CASE miss_queue' = miss_queue
    BY <1>6, <2>1, <2>3 DEF InCache
  <2>4. CASE miss_queue' = Append(miss_queue, WriteEntry(m, r))
    <3>1. miss_queue' = miss_queue \o one
      BY <2>1, <2>4
    <3> HIDE DEF one
    <3> QED
      BY <1>6, <2>1, <2>2, <3>1, MissQueueGrows
  <2> QED
    BY <2>3, <2>4
<1>9. /\ req' \in [Mf -> Request \cup {NoReq}]
      /\ \A x \in Mf : InCache(x)' => req'[x] # NoReq
  BY <1>1, <1>8, AcceptKeeps DEF QueueTypes, RequestInv
<1>10. QueueTypes' /\ RequestInv'
  BY <1>1, <1>8, <1>9, HitBooks
<1> QED
  BY <1>1, <1>4, <1>7, <1>10, IInvNext

(* Every miss that asks for its line.                                      *)
LEMMA AcceptRead ==
  ASSUME IInv, NEW m \in Mf, FreeMf(m), NEW r \in Request,
         NEW wr, NEW p \in Probe(r.blk, r.sec, wr), p.st # "RESERVATION_FAIL",
         NEW t, t = TagAccess(p, r.blk, r.sec),
         NEW before, before \in {<<>>, <<WriteEntry(m, r)>>},
         NEW after, after \in {<<>>, WriteBack(t)},
         SendReadRequest(m, r, p.idx, before, after),
         NEW new, new \in {PinIfDeferred(t.line),
                           SetModifiedOnFill(PinIfDeferred(t.line), r.sec)},
         lines' = [lines EXCEPT ![p.idx] = new], dirty' = t.dirty,
         Accept(m, r), UNCHANGED <<policy, closed>>,
         is_used' \in BOOLEAN, unsent' \subseteq Key \X Byte
  PROVE  IInv'
<1>1. /\ policy \in Policies /\ policy \in Config /\ closed \in BOOLEAN
      /\ lines \in [Line -> CacheBlockT]
      /\ TagInv /\ QueueTypes /\ PinConsistency /\ RequestInv
  BY IInvParts
<1>2. r.blk \in Nat /\ r.sec \in Sector
  BY RequestParts
<1>3. /\ p.idx \in Line /\ lines[p.idx] \in CacheBlockT /\ t.line \in CacheBlockT
      /\ t.line.pending_response_count = lines[p.idx].pending_response_count
      /\ IsModifiedLine(t.line) => IsModifiedLine(lines[p.idx])
      /\ t.dirty = DirtyLeft(lines[p.idx], t.line)
      /\ t.evicted.tag \in Nat
  BY <1>1, <1>2, TagAccessFacts
<1>4. /\ new \in CacheBlockT
      /\ new.pending_response_count = lines[p.idx].pending_response_count
                                        + (IF policy.defer THEN 1 ELSE 0)
      /\ IsModifiedLine(new) <=> IsModifiedLine(t.line)
  <2> DEFINE pinned == PinIfDeferred(t.line)
  <2>1. /\ pinned \in CacheBlockT
        /\ pinned.pending_response_count = lines[p.idx].pending_response_count
                                             + (IF policy.defer THEN 1 ELSE 0)
        /\ IsModifiedLine(pinned) <=> IsModifiedLine(t.line)
    BY <1>3, PinIfDeferredType
  <2> HIDE DEF pinned
  <2>2. /\ SetModifiedOnFill(pinned, r.sec) \in CacheBlockT
        /\ SetModifiedOnFill(pinned, r.sec).pending_response_count
             = pinned.pending_response_count
        /\ IsModifiedLine(SetModifiedOnFill(pinned, r.sec)) <=> IsModifiedLine(pinned)
    BY <1>2, <2>1 DEF SetModifiedOnFill, CacheBlockT, IsModifiedLine
  <2>3. new \in {pinned, SetModifiedOnFill(pinned, r.sec)}
    BY DEF pinned
  <2> QED
    BY <2>1, <2>2, <2>3
<1>5. TagInv'
  <2>1. dirty' = DirtyAfter(DirtyLeft(lines[p.idx], t.line), t.line, new)
    BY <1>3, <1>4 DEF DirtyAfter
  <2> QED
    BY <1>1, <1>3, <1>4, <2>1, DirtyCounted
<1>6. pending_response_indices[m] = NoLine
  BY <1>1, FreeToken
<1>7. /\ pending_response_indices' = IndexIfDeferred(m, p.idx)
      /\ owed' = owed \cup {m}
  BY DEF SendReadRequest
<1>8. PinConsistency'
  BY <1>1, <1>3, <1>4, <1>6, <1>7, PinsOfAccess DEF QueueTypes
<1>9. /\ miss_queue' \in Seq(MissEntry)
      /\ \A x \in Mf \ {m} : InCache(x)' => InCache(x)
  <2> DEFINE sent == IF MshrProbe(KeyOf(r)) THEN <<>> ELSE <<ReadEntry(m, r)>>
             q1 == before \o (sent \o after)
  <2>1. OwnEntries(m, before) /\ OwnEntries(m, sent) /\ OwnEntries(m, after)
    <3>1. /\ OwnEntries(m, <<>>) /\ OwnEntries(m, <<WriteEntry(m, r)>>)
          /\ OwnEntries(m, <<ReadEntry(m, r)>>)
      BY EntryTypes, OwnOne
    <3>2. OwnEntries(m, WriteBack(t))
      BY <1>3, WriteBackOwn
    <3> QED
      BY <3>1, <3>2
  <2>2. miss_queue' = ((miss_queue \o before) \o sent) \o after
    BY DEF SendReadRequest
  <2> HIDE DEF sent
  <2>3. /\ miss_queue \in Seq(MissEntry) /\ before \in Seq(MissEntry)
        /\ sent \in Seq(MissEntry) /\ after \in Seq(MissEntry)
    BY <1>1, <2>1 DEF QueueTypes, OwnEntries
  <2>4. OwnEntries(m, q1)
    BY <2>1, OwnConcat
  <2>5. miss_queue' = miss_queue \o q1
    <3>1. \A b, c, d \in Seq(MissEntry) :
            ((miss_queue \o b) \o c) \o d = miss_queue \o (b \o (c \o d))
      BY ONLY <2>3, ConcatFour, Zenon
    <3>2. \A c, d \in Seq(MissEntry) :
            ((miss_queue \o before) \o c) \o d = miss_queue \o (before \o (c \o d))
      BY ONLY <2>3, <3>1, Zenon
    <3>3. ((miss_queue \o before) \o sent) \o after = miss_queue \o q1
      BY ONLY <2>3, <3>2, Zenon
    <3> QED
      BY ONLY <2>2, <3>3, Zenon
  <2> HIDE DEF q1
  <2> QED
    BY <1>7, <2>3, <2>4, <2>5, MissQueueGrows DEF OwnEntries
<1>10. /\ req' \in [Mf -> Request \cup {NoReq}]
       /\ \A x \in Mf : InCache(x)' => req'[x] # NoReq
  BY <1>1, <1>9, AcceptKeeps DEF QueueTypes, RequestInv
<1>11. QueueTypes' /\ RequestInv'
  BY <1>1, <1>3, <1>9, <1>10, ReadBooks
<1> QED
  BY <1>1, <1>5, <1>8, <1>11, IInvNext

(* A write that changes its line and waits for nothing.                    *)
LEMMA WriteInPlace ==
  ASSUME IInv, NEW r \in Request, NEW wr, NEW p \in Probe(r.blk, r.sec, wr),
         p.st # "RESERVATION_FAIL", NEW t, t = TagAccess(p, r.blk, r.sec),
         NEW new \in CacheBlockT,
         new.pending_response_count = t.line.pending_response_count,
         lines' = [lines EXCEPT ![p.idx] = new],
         dirty' = DirtyAfter(t.dirty, t.line, new),
         pending_response_indices' = pending_response_indices
  PROVE  TagInv' /\ PinConsistency'
<1>1. policy \in Config /\ lines \in [Line -> CacheBlockT] /\ TagInv /\ PinConsistency
  BY IInvParts
<1>2. /\ p.idx \in Line /\ lines[p.idx] \in CacheBlockT
      /\ t.line.pending_response_count = lines[p.idx].pending_response_count
      /\ IsModifiedLine(t.line) => IsModifiedLine(lines[p.idx])
      /\ t.dirty = DirtyLeft(lines[p.idx], t.line)
  BY <1>1, RequestParts, TagAccessFacts
<1>3. TagInv'
  BY <1>1, <1>2, DirtyCounted
<1>4. LineStep(p.idx, 0)
  <2>1. lines[p.idx].pending_response_count \in Nat
    BY <1>2 DEF CacheBlockT
  <2>2. new.pending_response_count = lines[p.idx].pending_response_count + 0
    BY <1>2, <2>1
  <2> QED
    BY <1>2, <2>2 DEF LineStep
<1> QED
  BY <1>1, <1>3, <1>4, LineStepKeepsPins, PinsKept

(* Written and UpdateReadable keep the pins.                               *)
LEMMA WrittenType ==
  ASSUME NEW line \in CacheBlockT, NEW r \in Request
  PROVE  /\ Written(line, r) \in CacheBlockT
         /\ Written(line, r).pending_response_count = line.pending_response_count
         /\ UpdateReadable(line, r.sec) \in CacheBlockT
         /\ UpdateReadable(line, r.sec).pending_response_count
              = line.pending_response_count
<1>1. r.sec \in Sector /\ MaskOf(r) \in ByteMask
  BY RequestParts
<1>2. /\ SetStatus(line, r.sec, "MODIFIED") \in CacheBlockT
      /\ SetStatus(line, r.sec, "MODIFIED").pending_response_count
           = line.pending_response_count
      /\ SetReadable(line, r.sec, TRUE) \in CacheBlockT
      /\ SetReadable(line, r.sec, TRUE).pending_response_count
           = line.pending_response_count
  BY <1>1, SetterType DEF BlockState
<1>3. /\ Written(line, r) \in CacheBlockT
      /\ Written(line, r).pending_response_count = line.pending_response_count
  BY <1>1, <1>2, SetterType DEF Written, BlockState
<1> QED
  BY <1>2, <1>3 DEF UpdateReadable

(* A write of a whole atom that misses (fetch on write): nothing is        *)
(* recorded against the request.                                           *)
LEMMA FetchFullStep ==
  ASSUME IInv, NEW m \in Mf, NEW r \in Request, NEW wr,
         NEW p \in Probe(r.blk, r.sec, wr), WrMissFetchFull(m, r, p)
  PROVE  IInv'
<1> DEFINE t   == TagAccess(p, r.blk, r.sec)
           new == Written(t.line, r)
<1>1. /\ policy \in Policies /\ policy \in Config /\ closed \in BOOLEAN
      /\ unsent \subseteq Key \X Byte
      /\ TagInv /\ QueueTypes /\ PinConsistency /\ RequestInv
  BY IInvParts
<1>2. /\ p.st # "RESERVATION_FAIL"
      /\ lines' = [lines EXCEPT ![p.idx] = new]
      /\ dirty' = DirtyAfter(t.dirty, t.line, new)
      /\ is_used' = TRUE
      /\ miss_queue' = miss_queue \o WriteBack(t)
      /\ unsent' = (unsent \ WrittenBack(t)) \cup BytesOf(r)
      /\ UNCHANGED <<mshrVars, extra_mf_fields, hitVars, pending_response_indices, owed>>
      /\ policy' = policy /\ req' = req /\ owed' = owed /\ closed' = closed
      /\ pending_response_indices' = pending_response_indices
  BY DEF WrMissFetchFull
<1>3. r.blk \in Nat /\ r.sec \in Sector /\ BytesOf(r) \subseteq Key \X Byte
  BY RequestParts
<1>4. t.line \in CacheBlockT /\ t.evicted.tag \in Nat
  BY <1>1, <1>2, <1>3, TagAccessFacts
<1>5. /\ new \in CacheBlockT
      /\ new.pending_response_count = t.line.pending_response_count
  BY <1>4, WrittenType
<1>6. OwnEntries(NoMf, WriteBack(t))
  BY <1>4, WriteBackOwn
<1> HIDE DEF new, t
<1>7. TagInv' /\ PinConsistency'
  BY <1>2, <1>5, WriteInPlace DEF t
<1>8. /\ miss_queue' \in Seq(MissEntry)
      /\ \A x \in Mf \ {NoMf} : InCache(x)' => InCache(x)
  BY <1>1, <1>2, <1>6, MissQueueGrows DEF OwnEntries, QueueTypes
<1>9. /\ req' \in [Mf -> Request \cup {NoReq}]
      /\ \A x \in Mf : InCache(x)' => req'[x] # NoReq
  BY <1>1, <1>2, <1>8, TokenAssumption DEF RequestInv, TokensHeld, QueueTypes
<1>10. QueueTypes' /\ RequestInv'
  BY <1>1, <1>2, <1>8, <1>9, BooksUnchanged
<1>11. unsent' \subseteq Key \X Byte
  BY <1>1, <1>2, <1>3
<1> QED
  BY <1>1, <1>2, <1>7, <1>10, <1>11, IInvNext

(* A write that misses and fetches nothing (lazy fetch on read).           *)
LEMMA LazyFetchStep ==
  ASSUME IInv, NEW m \in Mf, FreeMf(m), NEW r \in Request, NEW wr,
         NEW p \in Probe(r.blk, r.sec, wr), WrMissLazyFetch(m, r, p)
  PROVE  IInv'
<1> DEFINE t       == TagAccess(p, r.blk, r.sec)
           pending == p.st = "HIT_RESERVED"
           marked  == IF pending THEN SetModifiedOnFill(Written(t.line, r), r.sec)
                      ELSE Written(t.line, r)
           partial == ~FullWrite(r)
           told    == IF pending /\ partial THEN SetReadableOnFill(marked, r.sec)
                      ELSE marked
           through == policy.write = "WRITE_THROUGH"
           new     == UpdateReadable(SetReadable(told, r.sec, ~partial), r.sec)
           sent    == IF through THEN <<WriteEntry(m, r)>> ELSE <<>>
<1>1. /\ policy \in Policies /\ policy \in Config /\ closed \in BOOLEAN
      /\ unsent \subseteq Key \X Byte
      /\ TagInv /\ QueueTypes /\ PinConsistency /\ RequestInv
  BY IInvParts
<1>2. /\ p.st # "RESERVATION_FAIL"
      /\ lines' = [lines EXCEPT ![p.idx] = new]
      /\ dirty' = DirtyAfter(t.dirty, t.line, new)
      /\ is_used' = TRUE
      /\ miss_queue' = miss_queue \o sent \o WriteBack(t)
      /\ unsent' = IF through THEN unsent \ BytesOf(r)
                   ELSE (unsent \ WrittenBack(t)) \cup BytesOf(r)
      /\ UNCHANGED <<mshrVars, extra_mf_fields, hitVars, pending_response_indices, owed>>
      /\ policy' = policy /\ owed' = owed /\ closed' = closed
      /\ pending_response_indices' = pending_response_indices
      /\ Accept(m, r)
  BY DEF WrMissLazyFetch
<1>3. r.blk \in Nat /\ r.sec \in Sector /\ BytesOf(r) \subseteq Key \X Byte
  BY RequestParts
<1>4. t.line \in CacheBlockT /\ t.evicted.tag \in Nat
  BY <1>1, <1>2, <1>3, TagAccessFacts
<1>5. /\ new \in CacheBlockT
      /\ new.pending_response_count = t.line.pending_response_count
  <2> DEFINE same(l) == /\ l \in CacheBlockT
                        /\ l.pending_response_count = t.line.pending_response_count
  <2>1. same(Written(t.line, r))
    BY <1>4, WrittenType
  <2>2. ASSUME NEW l, same(l)
        PROVE  /\ same(SetModifiedOnFill(l, r.sec)) /\ same(SetReadableOnFill(l, r.sec))
               /\ same(UpdateReadable(l, r.sec))
               /\ \A b \in BOOLEAN : same(SetReadable(l, r.sec, b))
    <3>1. /\ SetModifiedOnFill(l, r.sec) \in CacheBlockT
          /\ SetModifiedOnFill(l, r.sec).pending_response_count = l.pending_response_count
          /\ SetReadableOnFill(l, r.sec) \in CacheBlockT
          /\ SetReadableOnFill(l, r.sec).pending_response_count = l.pending_response_count
      BY <1>3, <2>2 DEF SetModifiedOnFill, SetReadableOnFill, CacheBlockT
    <3>2. \A b \in BOOLEAN :
            /\ SetReadable(l, r.sec, b) \in CacheBlockT
            /\ SetReadable(l, r.sec, b).pending_response_count = l.pending_response_count
      BY <1>3, <2>2 DEF SetReadable, CacheBlockT
    <3>3. /\ UpdateReadable(l, r.sec) \in CacheBlockT
          /\ UpdateReadable(l, r.sec).pending_response_count = l.pending_response_count
      BY <2>2, WrittenType
    <3> QED
      BY <2>2, <3>1, <3>2, <3>3
  <2> HIDE DEF same
  <2>3. same(marked)
    BY <2>1, <2>2
  <2> HIDE DEF marked
  <2>4. same(told)
    BY <2>2, <2>3
  <2> HIDE DEF told
  <2>5. (~partial) \in BOOLEAN
    OBVIOUS
  <2> HIDE DEF partial
  <2>6. same(SetReadable(told, r.sec, ~partial))
    BY <2>2, <2>4, <2>5
  <2>7. same(new)
    BY <2>2, <2>6
  <2> QED
    BY <2>7 DEF same
<1>6. OwnEntries(m, sent) /\ OwnEntries(m, WriteBack(t))
  <2>1. OwnEntries(m, <<>>) /\ OwnEntries(m, <<WriteEntry(m, r)>>)
    BY EntryTypes, OwnOne
  <2> QED
    BY <1>4, <2>1, WriteBackOwn
<1> HIDE DEF new, t, sent
<1>7. TagInv' /\ PinConsistency'
  BY <1>2, <1>5, WriteInPlace DEF t
<1>8. /\ miss_queue' \in Seq(MissEntry)
      /\ \A x \in Mf \ {m} : InCache(x)' => InCache(x)
  <2> DEFINE e == sent \o WriteBack(t)
  <2>1. OwnEntries(m, e)
    BY <1>6, OwnConcat
  <2>2. /\ miss_queue \in Seq(MissEntry) /\ sent \in Seq(MissEntry)
        /\ WriteBack(t) \in Seq(MissEntry)
    BY <1>1, <1>6 DEF QueueTypes, OwnEntries
  <2>3. miss_queue' = miss_queue \o e
    <3>1. \A a, b, c \in Seq(MissEntry) : (a \o b) \o c = a \o (b \o c)
      BY ConcatAssociative
    <3> QED
      BY <1>2, <2>2, <3>1, Zenon
  <2> HIDE DEF e
  <2> QED
    BY <1>2, <2>1, <2>2, <2>3, MissQueueGrows DEF OwnEntries
<1>9. /\ req' \in [Mf -> Request \cup {NoReq}]
      /\ \A x \in Mf : InCache(x)' => req'[x] # NoReq
  BY <1>1, <1>2, <1>8, AcceptKeeps DEF QueueTypes, RequestInv
<1>10. QueueTypes' /\ RequestInv'
  BY <1>1, <1>2, <1>8, <1>9, BooksUnchanged
<1>11. unsent' \subseteq Key \X Byte
  BY <1>1, <1>2, <1>3
<1> QED
  BY <1>1, <1>2, <1>7, <1>10, <1>11, IInvNext

(* A write that misses and allocates nothing.                              *)
LEMMA NoAllocateStep ==
  ASSUME IInv, NEW m \in Mf, FreeMf(m), NEW r \in Request, NEW p,
         WrMissNoAllocate(m, r, p)
  PROVE  IInv'
<1>1. /\ policy \in Policies /\ is_used \in BOOLEAN /\ closed \in BOOLEAN
      /\ unsent \subseteq Key \X Byte
      /\ TagInv /\ QueueTypes /\ PinConsistency /\ RequestInv
  BY IInvParts
<1>2. /\ miss_queue' = Append(miss_queue, WriteEntry(m, r))
      /\ unsent' = unsent \ BytesOf(r)
      /\ lines' = lines /\ dirty' = dirty /\ is_used' = is_used
      /\ UNCHANGED <<mshrVars, extra_mf_fields, hitVars, pending_response_indices, owed>>
      /\ policy' = policy /\ owed' = owed /\ closed' = closed
      /\ pending_response_indices' = pending_response_indices
      /\ Accept(m, r)
  BY DEF WrMissNoAllocate, tagVars
<1>3. TagInv' /\ PinConsistency'
  BY <1>1, <1>2 DEF TagInv, ModifiedLines, PinConsistency
<1>4. /\ miss_queue' \in Seq(MissEntry)
      /\ \A x \in Mf \ {m} : InCache(x)' => InCache(x)
  <2> DEFINE one == <<WriteEntry(m, r)>>
  <2>1. miss_queue \in Seq(MissEntry) /\ WriteEntry(m, r) \in MissEntry
    BY <1>1, EntryTypes DEF QueueTypes
  <2>2. OwnEntries(m, one)
    BY EntryTypes, OwnOne
  <2>3. miss_queue' = miss_queue \o one
    BY <1>2, <2>1
  <2> HIDE DEF one
  <2> QED
    BY <1>2, <2>1, <2>2, <2>3, MissQueueGrows DEF OwnEntries
<1>5. /\ req' \in [Mf -> Request \cup {NoReq}]
      /\ \A x \in Mf : InCache(x)' => req'[x] # NoReq
  BY <1>1, <1>2, <1>4, AcceptKeeps DEF QueueTypes, RequestInv
<1>6. QueueTypes' /\ RequestInv'
  BY <1>1, <1>2, <1>4, <1>5, BooksUnchanged
<1>7. unsent' \subseteq Key \X Byte
  BY <1>1, <1>2
<1> QED
  BY <1>1, <1>2, <1>3, <1>6, <1>7, IInvNext

(* The write hits.                                                         *)
LEMMA WriteHitStep ==
  ASSUME IInv, NEW m \in Mf, FreeMf(m), NEW r \in Request, NEW wr,
         NEW p \in Probe(r.blk, r.sec, wr), p.st = "HIT",
         \/ WrHitWriteBack(m, r, p)
         \/ WrHitWriteThrough(m, r, p)
         \/ WrHitWriteEvict(m, r, p)
  PROVE  IInv'
<1>1. /\ unsent \subseteq Key \X Byte /\ is_used \in BOOLEAN
      /\ lines \in [Line -> CacheBlockT]
  BY IInvParts
<1>2. r.blk \in Nat /\ r.sec \in Sector /\ BytesOf(r) \subseteq Key \X Byte
  BY RequestParts
<1>3. p.idx \in Line /\ lines[p.idx] \in CacheBlockT
  BY <1>1, <1>2, ProbeFacts
<1>4. CASE WrHitWriteBack(m, r, p) \/ WrHitWriteThrough(m, r, p)
  <2> DEFINE new == UpdateReadable(Written(lines[p.idx], r), r.sec)
  <2>1. /\ new \in CacheBlockT
        /\ new.pending_response_count = lines[p.idx].pending_response_count
    BY <1>3, WrittenType
  <2>2. WriteHitCommon(m, r, p)
    BY <1>4 DEF WrHitWriteBack, WrHitWriteThrough
  <2>3. /\ lines' = [lines EXCEPT ![p.idx] = PinIfDeferred(new)]
        /\ dirty' = DirtyAfter(dirty, lines[p.idx], new)
        /\ is_used' = TRUE
        /\ RespondToHit(m, p.idx)
    BY <2>2 DEF WriteHitCommon
  <2>4. /\ UNCHANGED <<policy, mshrVars, extra_mf_fields, closed>>
        /\ Accept(m, r)
        /\ \/ miss_queue' = miss_queue
           \/ miss_queue' = Append(miss_queue, WriteEntry(m, r))
        /\ unsent' \subseteq Key \X Byte
    BY <1>1, <1>2, <1>4 DEF WrHitWriteBack, WrHitWriteThrough, missVars
  <2> HIDE DEF new
  <2> QED
    BY <1>3, <2>1, <2>3, <2>4, AcceptHit
<1>5. CASE WrHitWriteEvict(m, r, p)
  <2> DEFINE new == SetStatus(lines[p.idx], r.sec, "INVALID")
  <2>1. /\ new \in CacheBlockT
        /\ new.pending_response_count = lines[p.idx].pending_response_count
        /\ IsModifiedLine(new) => IsModifiedLine(lines[p.idx])
    BY <1>2, <1>3 DEF SetStatus, CacheBlockT, BlockState, IsModifiedLine
  <2>2. /\ lines' = [lines EXCEPT ![p.idx] = PinIfDeferred(new)]
        /\ dirty' = dirty /\ is_used' = is_used
        /\ RespondToHit(m, p.idx)
        /\ UNCHANGED <<policy, mshrVars, extra_mf_fields, closed>>
        /\ Accept(m, r)
        /\ miss_queue' = Append(miss_queue, WriteEntry(m, r))
        /\ unsent' \subseteq Key \X Byte
    BY <1>1, <1>5 DEF WrHitWriteEvict
  <2> HIDE DEF new
  <2> QED
    BY <1>1, <1>3, <2>1, <2>2, AcceptHit
<1> QED
  BY <1>4, <1>5

(* The read hits of both caches.                                           *)
LEMMA ReadHitStep ==
  ASSUME IInv, NEW m \in Mf, FreeMf(m), NEW r \in Request, NEW wr,
         NEW p \in Probe(r.blk, r.sec, wr), p.st = "HIT",
         RdHitBase(m, r, p) \/ ReadOnlyHit(m, r, p)
  PROVE  IInv'
<1>1. /\ unsent \subseteq Key \X Byte
      /\ lines \in [Line -> CacheBlockT]
  BY IInvParts
<1>2. p.idx \in Line /\ lines[p.idx] \in CacheBlockT
  BY <1>1, RequestParts, ProbeFacts
<1>3. /\ lines' = [lines EXCEPT ![p.idx] = PinIfDeferred(lines[p.idx])]
      /\ dirty' = dirty /\ is_used' = TRUE
      /\ RespondToHit(m, p.idx)
      /\ UNCHANGED <<policy, mshrVars, extra_mf_fields, closed>>
      /\ Accept(m, r)
      /\ miss_queue' = miss_queue /\ unsent' = unsent
  BY DEF RdHitBase, ReadOnlyHit, missVars
<1> QED
  BY <1>1, <1>2, <1>3, AcceptHit

(* The misses that send a read.                                            *)
LEMMA ReadMissStep ==
  ASSUME IInv, NEW m \in Mf, FreeMf(m), NEW r \in Request, NEW wr,
         NEW p \in Probe(r.blk, r.sec, wr),
         \/ ReadOnlyMiss(m, r, p)
         \/ RdMissBase(m, r, p)
         \/ WrMissNaive(m, r, p)
         \/ WrMissFetchPartial(m, r, p)
  PROVE  IInv'
<1> DEFINE t == TagAccess(p, r.blk, r.sec)
<1>1. unsent \subseteq Key \X Byte /\ BytesOf(r) \subseteq Key \X Byte
  BY IInvParts, RequestParts
<1>2. /\ p.st # "RESERVATION_FAIL"
      /\ dirty' = t.dirty /\ is_used' = TRUE
      /\ UNCHANGED <<policy, closed>>
      /\ Accept(m, r)
      /\ unsent' \subseteq Key \X Byte
  BY <1>1 DEF ReadOnlyMiss, RdMissBase, WrMissNaive, WrMissFetchPartial
<1>3. \E before \in {<<>>, <<WriteEntry(m, r)>>}, after \in {<<>>, WriteBack(t)} :
         SendReadRequest(m, r, p.idx, before, after)
  BY DEF ReadOnlyMiss, RdMissBase, WrMissNaive, WrMissFetchPartial
<1>4. \E new \in {PinIfDeferred(t.line), SetModifiedOnFill(PinIfDeferred(t.line), r.sec)} :
         lines' = [lines EXCEPT ![p.idx] = new]
  BY DEF ReadOnlyMiss, RdMissBase, WrMissNaive, WrMissFetchPartial
<1> HIDE DEF t
<1>5. PICK before \in {<<>>, <<WriteEntry(m, r)>>}, after \in {<<>>, WriteBack(t)} :
         SendReadRequest(m, r, p.idx, before, after)
  BY <1>3
<1>6. PICK new \in {PinIfDeferred(t.line), SetModifiedOnFill(PinIfDeferred(t.line), r.sec)} :
         lines' = [lines EXCEPT ![p.idx] = new]
  BY <1>4
<1> QED
  BY <1>2, <1>5, <1>6, AcceptRead DEF t

(* Every accepted access of the caller.                                    *)
LEMMA AccessStep ==
  ASSUME IInv, NEW m \in Mf, NEW r \in Issuable,
         ReadOnlyAccess(m, r) \/ DataAccess(m, r)
  PROVE  IInv'
<1>1. r \in Request
  BY RequestAssumption DEF Issuable
<1>2. CASE ReadOnlyAccess(m, r)
  <2>1. PICK p \in Probe(r.blk, r.sec, FALSE) :
          ReadOnlyHit(m, r, p) \/ ReadOnlyMiss(m, r, p)
    BY <1>2 DEF ReadOnlyAccess
  <2>2. FreeMf(m)
    BY <1>2 DEF ReadOnlyAccess
  <2>3. CASE ReadOnlyHit(m, r, p)
    <3>1. p.st = "HIT"
      BY <2>3 DEF ReadOnlyHit
    <3> QED
      BY <1>1, <2>2, <2>3, <3>1, ReadHitStep
  <2>4. CASE ReadOnlyMiss(m, r, p)
    BY <1>1, <2>2, <2>4, ReadMissStep
  <2> QED
    BY <2>1, <2>3, <2>4
<1>3. CASE DataAccess(m, r)
  <2>1. PICK p \in Probe(r.blk, r.sec, r.wr) :
          IF r.wr THEN WriteAccess(m, r, p) ELSE ReadAccess(m, r, p)
    BY <1>3 DEF DataAccess
  <2>2. FreeMf(m)
    BY <1>3 DEF DataAccess
  <2>3. CASE p.st = "HIT"
    <3>1. \/ WrHitWriteBack(m, r, p)
          \/ WrHitWriteThrough(m, r, p)
          \/ WrHitWriteEvict(m, r, p)
          \/ RdHitBase(m, r, p)
      BY <2>1, <2>3 DEF WriteAccess, ReadAccess
    <3> QED
      BY <1>1, <2>2, <2>3, <3>1, WriteHitStep, ReadHitStep
  <2>4. CASE p.st # "HIT"
    <3>1. \/ RdMissBase(m, r, p)
          \/ WrMissNaive(m, r, p)
          \/ WrMissFetchFull(m, r, p)
          \/ WrMissFetchPartial(m, r, p)
          \/ WrMissLazyFetch(m, r, p)
          \/ WrMissNoAllocate(m, r, p)
      BY <2>1, <2>4 DEF WriteAccess, ReadAccess
    <3>2. CASE WrMissFetchFull(m, r, p)
      BY <1>1, <3>2, FetchFullStep
    <3>3. CASE WrMissLazyFetch(m, r, p)
      BY <1>1, <2>2, <3>3, LazyFetchStep
    <3>4. CASE WrMissNoAllocate(m, r, p)
      BY <1>1, <2>2, <3>4, NoAllocateStep
    <3>5. CASE RdMissBase(m, r, p) \/ WrMissNaive(m, r, p) \/ WrMissFetchPartial(m, r, p)
      BY <1>1, <2>2, <3>5, ReadMissStep
    <3> QED
      BY <3>1, <3>2, <3>3, <3>4, <3>5
  <2> QED
    BY <2>3, <2>4
<1> QED
  BY <1>2, <1>3

-----------------------------------------------------------------------------
(* The other operations *)

(* cycle: hit responses move on, the miss queue gives its head away.       *)
LEMMA CycleStep ==
  ASSUME IInv, NEW portFull, Cycle(portFull)
  PROVE  IInv'
<1>1. /\ policy \in Policies /\ is_used \in BOOLEAN /\ closed \in BOOLEAN
      /\ unsent \subseteq Key \X Byte
      /\ TagInv /\ QueueTypes /\ PinConsistency /\ RequestInv
  BY IInvParts
<1>2. /\ policy' = policy /\ lines' = lines /\ dirty' = dirty /\ is_used' = is_used
      /\ pending_response_indices' = pending_response_indices
      /\ unsent' = unsent /\ closed' = closed
  BY DEF Cycle, tagVars
<1>3. TagInv' /\ PinConsistency'
  BY <1>1, <1>2 DEF TagInv, ModifiedLines, PinConsistency
<1>4. QueueTypes' /\ RequestInv'
  BY <1>1, CycleBooks
<1> QED
  BY <1>1, <1>2, <1>3, <1>4, IInvNext

(* fill: an answer of the memory, the last one of its read or not.         *)
LEMMA FillStep ==
  ASSUME IInv, NEW m \in Mf, FillChunk(m) \/ Fill(m)
  PROVE  IInv'
<1>1. /\ policy \in Policies /\ policy \in Config /\ is_used \in BOOLEAN
      /\ closed \in BOOLEAN /\ unsent \subseteq Key \X Byte
      /\ lines \in [Line -> CacheBlockT]
      /\ TagInv /\ QueueTypes /\ PinConsistency /\ RequestInv
  BY IInvParts
<1>2. CASE FillChunk(m)
  <2>1. /\ policy' = policy /\ lines' = lines /\ dirty' = dirty /\ is_used' = is_used
        /\ pending_response_indices' = pending_response_indices
        /\ unsent' = unsent /\ closed' = closed
    BY <1>2 DEF FillChunk, tagVars
  <2>2. TagInv' /\ PinConsistency'
    BY <1>1, <2>1 DEF TagInv, ModifiedLines, PinConsistency
  <2>3. QueueTypes' /\ RequestInv'
    BY <1>1, <1>2, ChunkBooks
  <2> QED
    BY <1>1, <2>1, <2>2, <2>3, IInvNext
<1>3. CASE Fill(m)
  <2> DEFINE e == extra_mf_fields[m]
  <2>1. /\ e # NoExtra
        /\ current_response' = MarkReady(e.key)
        /\ extra_mf_fields' = [extra_mf_fields EXCEPT ![m] = NoExtra]
        /\ UNCHANGED <<mshr, miss_queue, hitVars, pending_response_indices, req, owed>>
        /\ policy' = policy /\ is_used' = is_used
        /\ pending_response_indices' = pending_response_indices
        /\ unsent' = unsent /\ closed' = closed
    BY <1>3 DEF Fill, InMemory
  <2>2. QueueTypes' /\ RequestInv'
    BY <1>1, <2>1, FillBooks
  <2>3. e.key \in Key /\ e.key[1] \in Nat /\ e.key[2] \in Sector /\ e.idx \in Line
    BY <1>1, <2>1, AddressAssumption DEF QueueTypes, ExtraFields, Key
  <2>4. MaskOf(req[m]) \in ByteMask
    <3>1. mshr[e.key] # <<>> /\ Head(mshr[e.key]) = m
      BY <1>1, <2>1 DEF RequestInv, TokensHeld, MshrProbe
    <3>2. 1 \in DOMAIN mshr[e.key] /\ mshr[e.key][1] = m
      BY <1>1, <2>3, <3>1, TailElements DEF QueueTypes
    <3>3. m \in owed
      BY <1>1, <2>3, <3>2 DEF RequestInv, OwedExactlyOnce, InMshr
    <3>4. req[m] \in Request
      BY <1>1, <3>3 DEF RequestInv, TokensHeld, InCache, QueueTypes
    <3> QED
      BY <3>4, RequestParts
  <2>5. TagInv' /\ (lines' = lines \/ \E i \in Line : LineStep(i, 0))
    <3>1. CASE policy.alloc = "ON_MISS"
      <4>1. FillByIndex(e.idx, e.key[2], MaskOf(req[m]))
        BY <1>3, <3>1 DEF Fill
      <4> QED
        BY <1>1, <2>3, <2>4, <4>1, FillByIndexFacts
    <3>2. CASE policy.alloc # "ON_MISS"
      <4>1. FillByAddress(e.key[1], e.key[2], FALSE, MaskOf(req[m]))
        BY <1>3, <3>2 DEF Fill
      <4> QED
        BY <1>1, <2>3, <2>4, <4>1, FillByAddressFacts
    <3> QED
      BY <3>1, <3>2
  <2>6. PinConsistency'
    BY <1>1, <2>1, <2>5, LineStepKeepsPins, PinsKept
  <2> QED
    BY <1>1, <2>1, <2>2, <2>5, <2>6, IInvNext
<1> QED
  BY <1>2, <1>3

(* next_access: a ready hit, or the oldest request of a ready MSHR entry,  *)
(* and its pin.                                                            *)
LEMMA NextAccessStep ==
  ASSUME IInv, NextReadyHit \/ NextMshrAccess
  PROVE  IInv'
<1>1. /\ policy \in Policies /\ is_used \in BOOLEAN /\ closed \in BOOLEAN
      /\ unsent \subseteq Key \X Byte
      /\ TagInv /\ QueueTypes /\ PinConsistency /\ RequestInv
  BY IInvParts
<1>2. /\ policy' = policy /\ dirty' = dirty /\ is_used' = is_used
      /\ unsent' = unsent /\ closed' = closed
  BY DEF NextReadyHit, NextMshrAccess
<1>3. CASE NextReadyHit
  <2> DEFINE m == Head(ready_response_queue)
  <2>1. /\ ready_response_queue # <<>>
        /\ UnpinResponse(m) /\ owed' = owed \ {m}
        /\ ready_response_queue' = Tail(ready_response_queue)
        /\ UNCHANGED <<mshrVars, missVars, hit_response_queue>>
        /\ Forget
    BY <1>3 DEF NextReadyHit
  <2>2. m \in Mf
    BY <1>1, <2>1, TailElements DEF QueueTypes
  <2>3. pending_response_indices' = [pending_response_indices EXCEPT ![m] = NoLine]
    BY <2>1 DEF UnpinResponse, IndexErased
  <2>4. PinConsistency' /\ TagInv'
    BY <1>1, <1>2, <2>1, <2>2, PinReturned DEF QueueTypes
  <2>5. QueueTypes' /\ RequestInv'
    BY <1>1, <2>1, <2>2, <2>3, ReturnHitBooks
  <2> QED
    BY <1>1, <1>2, <2>4, <2>5, IInvNext
<1>4. CASE NextMshrAccess
  <2> DEFINE k == NextKey
             m == Head(mshr[k])
  <2>1. /\ current_response # <<>>
        /\ mshr' = MshrTake(k) /\ current_response' = ReadyAfterNext(k)
        /\ UnpinResponse(m) /\ owed' = owed \ {m}
        /\ UNCHANGED <<missVars, hitVars>>
        /\ Forget
    BY <1>4 DEF NextMshrAccess
  <2>2. m \in Mf
    BY <1>1, <2>1, ReadyHasRequest
  <2>3. pending_response_indices' = [pending_response_indices EXCEPT ![m] = NoLine]
    BY <2>1 DEF UnpinResponse, IndexErased
  <2>4. PinConsistency' /\ TagInv'
    BY <1>1, <1>2, <2>1, <2>2, PinReturned DEF QueueTypes
  <2>5. QueueTypes' /\ RequestInv'
    BY <1>1, <2>1, <2>3, ReturnMshrBooks
  <2> QED
    BY <1>1, <1>2, <2>4, <2>5, IInvNext
<1> QED
  BY <1>3, <1>4

(* Steps that leave the queues and the tokens alone.                       *)
LEMMA MaintenanceStep ==
  ASSUME IInv, Flush \/ Invalidate \/ ForceTagAccess \/ StopIssuing
  PROVE  IInv'
<1>1. /\ policy \in Policies /\ policy \in Config
      /\ is_used \in BOOLEAN /\ closed \in BOOLEAN
      /\ unsent \subseteq Key \X Byte /\ lines \in [Line -> CacheBlockT]
      /\ TagInv /\ QueueTypes /\ PinConsistency /\ RequestInv
  BY IInvParts
<1>2. /\ policy' = policy /\ is_used' \in BOOLEAN /\ closed' \in BOOLEAN /\ unsent' = unsent
      /\ pending_response_indices' = pending_response_indices
      /\ UNCHANGED <<mshrVars, extra_mf_fields, hitVars, pending_response_indices, owed>>
      /\ miss_queue' = miss_queue /\ req' = req /\ owed' = owed
  BY <1>1 DEF Flush, Invalidate, ForceTagAccess, StopIssuing, missVars, tagVars,
              FlushTags, InvalidateTags
<1>3. QueueTypes' /\ RequestInv'
  <2>1. \A x \in Mf : InCache(x)' => req'[x] # NoReq
    BY <1>1, <1>2 DEF InCache, RequestInv, TokensHeld
  <2>2. miss_queue' \in Seq(MissEntry) /\ req' \in [Mf -> Request \cup {NoReq}]
    BY <1>1, <1>2 DEF QueueTypes
  <2> QED
    BY <1>1, <1>2, <2>1, <2>2, BooksUnchanged
<1>4. TagInv' /\ \A i \in Line :
        lines'[i].pending_response_count = lines[i].pending_response_count
  <2>1. CASE Flush \/ Invalidate
    <3>1. FlushTags \/ InvalidateTags
      BY <2>1 DEF Flush, Invalidate
    <3> QED
      BY <1>1, <3>1, FlushFacts
  <2>2. CASE ForceTagAccess
    <3>1. PICK b \in Blk, s \in SectorsUsed : FillByAddress(b, s, TRUE, {})
      BY <2>2 DEF ForceTagAccess
    <3>2. b \in Nat /\ s \in Sector /\ {} \in ByteMask
      BY AddressAssumption DEF SectorsUsed, ByteMask
    <3>3. TagInv' /\ (lines' = lines \/ \E i \in Line : LineStep(i, 0))
      BY <1>1, <3>1, <3>2, FillByAddressFacts
    <3> QED
      BY <1>1, <3>3, LineStepKeepsPins
  <2>3. CASE StopIssuing
    <3>1. lines' = lines /\ dirty' = dirty
      BY <2>3 DEF StopIssuing, tagVars
    <3> QED
      BY <1>1, <3>1 DEF TagInv, ModifiedLines
  <2> QED
    BY <2>1, <2>2, <2>3
<1>5. PinConsistency'
  BY <1>1, <1>2, <1>4, PinsKept
<1>6. unsent' \subseteq Key \X Byte
  BY <1>1, <1>2
<1> QED
  BY <1>1, <1>2, <1>3, <1>4, <1>5, <1>6, IInvNext

-----------------------------------------------------------------------------
(* The cache as init leaves it satisfies the invariant.                    *)
LEMMA InitStep ==
  ASSUME Init
  PROVE  IInv
<1>1. InitBlock \in CacheBlockT /\ ~IsModifiedLine(InitBlock)
  BY AddressAssumption DEF InitBlock, CacheBlockT, BlockState, ByteMask, IsModifiedLine
<1>2. /\ policy \in Policies /\ lines \in [Line -> CacheBlockT] /\ dirty = 0
      /\ is_used = FALSE
  BY <1>1 DEF Init, TagInit
<1>3. ModifiedLines = {}
  BY <1>1 DEF Init, TagInit, ModifiedLines
<1>4. DirtyCoversModified
  BY <1>2, <1>3, FS_EmptySet DEF DirtyCoversModified
<1>5. /\ mshr = [k \in Key |-> <<>>] /\ current_response = <<>>
      /\ miss_queue = <<>> /\ extra_mf_fields = [m \in Mf |-> NoExtra]
      /\ hit_response_queue = <<>> /\ ready_response_queue = <<>>
      /\ pending_response_indices = [m \in Mf |-> NoLine]
      /\ req = [m \in Mf |-> NoReq] /\ owed = {} /\ unsent = {} /\ closed = FALSE
  BY DEF Init, MshrInit
<1>6. TypeOK
  <2>1. /\ current_response \in Seq(Key) /\ miss_queue \in Seq(MissEntry)
        /\ hit_response_queue \in Seq([mf : Mf, remaining_cycles : Nat \ {0}])
        /\ ready_response_queue \in Seq(Mf)
        /\ mshr \in [Key -> Seq(Mf)]
    BY <1>5
  <2>2. /\ extra_mf_fields \in [Mf -> ExtraFields \cup {NoExtra}]
        /\ pending_response_indices \in [Mf -> Line \cup {NoLine}]
        /\ req \in [Mf -> Request \cup {NoReq}]
        /\ owed \subseteq Mf /\ unsent \subseteq Key \X Byte
    BY <1>5
  <2>3. is_used \in BOOLEAN /\ closed \in BOOLEAN /\ dirty \in Nat
    BY <1>2, <1>5
  <2> QED
    BY <1>2, <2>1, <2>2, <2>3, Zenon DEF TypeOK
<1>7. PinConsistency
  <2>1. \A i \in Line : {m \in Mf : pending_response_indices[m] = i} = {}
    BY <1>5, TagAssumption, LineFinite
  <2>2. \A i \in Line : lines[i].pending_response_count = 0
    BY DEF Init, TagInit, InitBlock
  <2> QED
    BY <2>1, <2>2, FS_EmptySet DEF PinConsistency
<1>8. RequestInv
  <2>1. \A m \in Mf : ~InMshr(m) /\ ~InHits(m) /\ ~InReady(m) /\ ~InCache(m)
    BY <1>5 DEF InMshr, InHits, InReady, InCache
  <2>2. \A k \in Key : ~MshrProbe(k) /\ ~AwaitsFill(k) /\ ~IsReady(k)
    BY <1>5 DEF MshrProbe, AwaitsFill, IsReady, FillPending
  <2>3. MshrEntryProgresses
    BY <1>5, <2>2 DEF MshrEntryProgresses, FillPending
  <2>4. OwedExactlyOnce
    BY <1>5, <2>1 DEF OwedExactlyOnce
  <2>5. TokensHeld
    BY <1>5, <2>1 DEF TokensHeld
  <2> QED
    BY <2>3, <2>4, <2>5 DEF RequestInv
<1> QED
  BY <1>4, <1>6, <1>7, <1>8 DEF IInv

(* Every call of the caller, every cycle and every answer of the memory    *)
(* preserves the invariant.                                                *)
LEMMA NextStep ==
  ASSUME IInv, [Next]_vars
  PROVE  IInv'
<1>1. CASE \E m \in Mf, r \in Issuable : ReadOnlyAccess(m, r) \/ DataAccess(m, r)
  BY <1>1, AccessStep
<1>2. CASE \E portFull \in BOOLEAN : Cycle(portFull)
  BY <1>2, CycleStep
<1>3. CASE \E m \in Mf : FillChunk(m) \/ Fill(m)
  BY <1>3, FillStep
<1>4. CASE NextReadyHit \/ NextMshrAccess
  BY <1>4, NextAccessStep
<1>5. CASE Flush \/ Invalidate \/ ForceTagAccess \/ StopIssuing
  BY <1>5, MaintenanceStep
<1>6. CASE UNCHANGED vars
  BY <1>6 DEF vars, tagVars, mshrVars, missVars, hitVars, IInv, TypeOK,
              DirtyCoversModified, ModifiedLines, PinConsistency, RequestInv,
              MshrEntryProgresses, MshrProbe, AwaitsFill, IsReady, FillPending,
              OwedExactlyOnce, InMshr, InHits, InReady, TokensHeld, InCache
<1> QED
  BY <1>1, <1>2, <1>3, <1>4, <1>5, <1>6 DEF Next, BaselineNext

-----------------------------------------------------------------------------
(* The inductive invariant holds in every reachable state, for any number  *)
(* of sets, ways, sectors, MSHR entries and requests, and any mix of the   *)
(* policies ValidConfig allows.                                            *)
THEOREM Invariance == Spec => []IInv
<1>1. Init => IInv
  BY InitStep
<1>2. IInv /\ [Next]_vars => IInv'
  BY NextStep
<1> QED
  BY <1>1, <1>2, PTL DEF Spec

(* All variables keep their types; the unsigned m_dirty never underflows.  *)
THEOREM TypeCorrect == Spec => []TypeOK
<1>1. IInv => TypeOK
  BY DEF IInv
<1> QED
  BY <1>1, Invariance, PTL

(* m_dirty is at least the number of modified lines.                       *)
THEOREM DirtyCovers == Spec => []DirtyCoversModified
<1>1. IInv => DirtyCoversModified
  BY DEF IInv
<1> QED
  BY <1>1, Invariance, PTL

(* A line is pinned exactly as often as unreturned requests are recorded   *)
(* against it: pin_response and unpin_response balance.                    *)
THEOREM PinsBalance == Spec => []PinConsistency
<1>1. IInv => PinConsistency
  BY DEF IInv
<1> QED
  BY <1>1, Invariance, PTL

(* Every MSHR entry waits for exactly one fill or is ready exactly once.   *)
THEOREM EntriesProgress == Spec => []MshrEntryProgresses
<1>1. IInv => MshrEntryProgresses
  BY DEF IInv, RequestInv
<1> QED
  BY <1>1, Invariance, PTL

(* next_access returns each accepted request that the caller waits for     *)
(* once: it is in one place of one queue of the cache.                     *)
THEOREM ReturnedOnce == Spec => []OwedExactlyOnce
<1>1. IInv => OwedExactlyOnce
  BY DEF IInv, RequestInv
<1> QED
  BY <1>1, Invariance, PTL

(* The cache's books on a request end with the request.                    *)
THEOREM BooksClosed == Spec => []TokensHeld
<1>1. IInv => TokensHeld
  BY DEF IInv, RequestInv
<1> QED
  BY <1>1, Invariance, PTL
=============================================================================
