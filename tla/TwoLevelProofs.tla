--------------------------- MODULE TwoLevelProofs ---------------------------
(***************************************************************************)
(* A read of SimpleTwoLevel that hits finds its bytes, in every cache.     *)
(* The tags are in the cache and the bytes in l1_data, and nothing but the *)
(* order of the calls in SimpleTwoLevel::read keeps the two together: the  *)
(* tag is written by access, the bytes are copied after the cycle, and the *)
(* line becomes valid in the fill that follows.                            *)
(*                                                                         *)
(* The cache with its books and ports, under either user, implements       *)
(* GpuCache, so all that is proved of GpuCache holds of it.  From this, a  *)
(* request that is refused is refused by a cache with work to do.          *)
(***************************************************************************)
EXTENDS SimpleTwoLevel, GpuDataProofs

(* The blocks l1_data has, with the one the read under way will copy.      *)
Awaited == IF call.status = "MISS" /\ pc \in {"cycle", "answer"}
           THEN {call.r.blk} ELSE {}
Copied  == DOMAIN l1_data \cup Awaited

Shaped(line) == {"tag", "status"} \subseteq DOMAIN line

LinesShaped == DOMAIN lines = Line /\ \A i \in Line : Shaped(lines[i])

(* A line that is in use, or that a fill is on its way to, is of a block   *)
(* that is copied.                                                         *)
TagsCopied == \A i \in Line : IsInvalidLine(lines[i]) \/ lines[i].tag \in Copied
FillsCopied ==
  /\ DOMAIN extra_mf_fields = Mf
  /\ \A m \in Mf : \/ extra_mf_fields[m] = NoExtra
                   \/ /\ extra_mf_fields[m].idx \in Line
                      /\ lines[extra_mf_fields[m].idx].tag \in Copied

CopiesExact ==
  \A b \in DOMAIN l1_data \ rewritten : l1_data[b] = DataStoreRead(DramBytes, b)

CallFollowsPc == /\ pc = "idle" => call.status = ""
                 /\ pc = "fill" => call.status # "HIT"

(* The inductive invariant.                                                *)
CacheCopied == LinesShaped /\ TagsCopied /\ FillsCopied
ReadsInv ==
  /\ policy.write = "READ_ONLY" /\ policy.alloc = "ON_MISS"
  /\ CacheCopied
  /\ CopiesExact
  /\ CallFollowsPc
  /\ HitFindsItsData
TwoLevelInv ==
  /\ mode \in {"caller", "two_level"}
  /\ mode = "caller" => pc = "idle" /\ call = NoCall
  /\ mode = "two_level" => ReadsInv

-----------------------------------------------------------------------------
(* The tag of a line through the operations on lines *)

(* A fill, a new sector, a pin and its release keep the tag of a line; the *)
(* pins keep its status as well.                                           *)
LEMMA TagKept ==
  ASSUME NEW line, Shaped(line), NEW type, NEW s, NEW mask
  PROVE  /\ LET new == FillBlock(type, line, s, mask)
            IN  Shaped(new) /\ new.tag = line.tag
         /\ LET new == AllocateSector(line, s)
            IN  Shaped(new) /\ new.tag = line.tag
         /\ \A new \in {Pin(line), Unpin(line), PinIfDeferred(line)} :
               Shaped(new) /\ new.tag = line.tag /\ new.status = line.status
         /\ LET new == InvalidateLine(line)
            IN  Shaped(new) /\ new.tag = line.tag
<1>1. LET new == FillBlock(type, line, s, mask)
      IN  Shaped(new) /\ new.tag = line.tag
  BY DEF Shaped, FillBlock
<1>2. LET new == AllocateSector(line, s)
      IN  Shaped(new) /\ new.tag = line.tag
  BY DEF Shaped, AllocateSector
<1>3. \A new \in {Pin(line), Unpin(line), PinIfDeferred(line)} :
        Shaped(new) /\ new.tag = line.tag /\ new.status = line.status
  BY DEF Shaped, Pin, Unpin, PinIfDeferred
<1>4. LET new == InvalidateLine(line)
      IN  Shaped(new) /\ new.tag = line.tag
  BY DEF Shaped, InvalidateLine
<1> QED
  BY <1>1, <1>2, <1>3, <1>4

-----------------------------------------------------------------------------
(* The steps of the cache *)

(* CacheCopied survives a step in which every line keeps its tag or takes  *)
(* that of a block that is copied, and every fill that is added is of such *)
(* a line.                                                                 *)
LEMMA LinesFollow ==
  ASSUME CacheCopied, LinesShaped', Copied \subseteq Copied',
         \A i \in Line : \/ lines'[i].tag \in Copied'
                         \/ /\ lines'[i].tag = lines[i].tag
                            /\ lines'[i].status = lines[i].status,
         DOMAIN extra_mf_fields' = Mf,
         \A m \in Mf : \/ extra_mf_fields'[m] \in {NoExtra, extra_mf_fields[m]}
                       \/ /\ extra_mf_fields'[m].idx \in Line
                          /\ lines'[extra_mf_fields'[m].idx].tag \in Copied'
  PROVE  CacheCopied'
<1>1. TagsCopied'
  BY DEF CacheCopied, TagsCopied, IsInvalidLine
<1>2. FillsCopied'
  BY DEF CacheCopied, FillsCopied
<1> QED
  BY <1>1, <1>2 DEF CacheCopied

(* CacheCopied depends on nothing else.                                    *)
LEMMA CacheUntouched ==
  ASSUME CacheCopied, Copied \subseteq Copied',
         UNCHANGED <<lines, extra_mf_fields>>
  PROVE  CacheCopied'
<1>1. LinesShaped' /\ DOMAIN extra_mf_fields' = Mf
  BY DEF CacheCopied, LinesShaped, Shaped, FillsCopied
<1> QED
  BY <1>1, LinesFollow

(* A change of one line that keeps its tag and leaves the line copied.     *)
LEMMA OneLineFollows ==
  ASSUME CacheCopied, NEW i, NEW new, Copied \subseteq Copied',
         lines' = [lines EXCEPT ![i] = new],
         i \in Line => /\ Shaped(new)
                       /\ \/ new.tag \in Copied'
                          \/ new.tag = lines[i].tag /\ new.status = lines[i].status,
         UNCHANGED extra_mf_fields
  PROVE  CacheCopied'
<1>1. DOMAIN lines = Line /\ \A j \in Line : Shaped(lines[j])
  BY DEF CacheCopied, LinesShaped
<1>2. /\ DOMAIN lines' = Line
      /\ \A j \in Line : lines'[j] = IF j = i THEN new ELSE lines[j]
  BY <1>1
<1>3. LinesShaped'
  BY <1>1, <1>2 DEF LinesShaped, Shaped
<1>4. DOMAIN extra_mf_fields' = Mf
  BY DEF CacheCopied, FillsCopied
<1> QED
  BY <1>2, <1>3, <1>4, LinesFollow

(* access: a hit is on a block that is copied, and whatever line a miss    *)
(* takes has from then on the tag of the block the read will copy.         *)
LEMMA AccessKeepsCopied ==
  ASSUME policy.write = "READ_ONLY", policy.alloc = "ON_MISS", CacheCopied,
         NEW m \in Mf, NEW r \in Request, NEW p \in Probe(r.blk, r.sec, FALSE),
         AccessTaken(m, r, p), Copied \subseteq Copied',
         p.st # "HIT" => r.blk \in Copied'
  PROVE  /\ CacheCopied'
         /\ p.st = "HIT" => r.blk \in Copied
<1>1. /\ p.st \in {"HIT", "HIT_RESERVED", "MISS", "SECTOR_MISS", "RESERVATION_FAIL"}
      /\ p.st # "RESERVATION_FAIL" => p.idx \in Line
      /\ p.st \in {"HIT", "HIT_RESERVED", "SECTOR_MISS"} => Matches(p.idx, r.blk)
  <2>1. r.blk \in Nat /\ r.sec \in Sector
    BY AddressAssumption DEF Request
  <2> QED
    BY <2>1, ProbeFacts
<1>2. ReadOnlyHit(m, r, p) \/ ReadOnlyMiss(m, r, p)
  BY DEF AccessTaken, CacheAccess
<1>3. DOMAIN lines = Line /\ \A j \in Line : Shaped(lines[j])
  BY DEF CacheCopied, LinesShaped
<1>4. CASE ReadOnlyHit(m, r, p)
  <2>1. /\ p.st = "HIT" /\ p.idx \in Line
        /\ lines' = [lines EXCEPT ![p.idx] = PinIfDeferred(lines[p.idx])]
        /\ UNCHANGED extra_mf_fields
    BY <1>1, <1>4 DEF ReadOnlyHit, missVars
  <2>2. LET new == PinIfDeferred(lines[p.idx])
        IN  Shaped(new) /\ new.tag = lines[p.idx].tag /\ new.status = lines[p.idx].status
    BY <2>1, <1>3, TagKept
  <2>3. CacheCopied'
    BY <2>1, <2>2, OneLineFollows
  <2>4. r.blk \in Copied
    BY <2>1, <1>1 DEF Matches, CacheCopied, TagsCopied
  <2> QED
    BY <2>3, <2>4
<1>5. CASE ReadOnlyMiss(m, r, p)
  <2> DEFINE t   == TagAccess(p, r.blk, r.sec)
             new == PinIfDeferred(t.line)
             e   == [ key |-> KeyOf(r), idx |-> p.idx,
                      pending_read |-> IF policy.mshr = "SECTOR_ASSOC"
                                       THEN Chunks ELSE 0 ]
  <2>1. /\ p.st \notin {"HIT", "RESERVATION_FAIL"}
        /\ p.idx \in Line
        /\ lines' = [lines EXCEPT ![p.idx] = new]
        /\ extra_mf_fields' \in {extra_mf_fields, [extra_mf_fields EXCEPT ![m] = e]}
    BY <1>1, <1>5 DEF ReadOnlyMiss, SendReadRequest
  <2>2. Shaped(t.line) /\ t.line.tag = r.blk
    <3>1. CASE p.st = "MISS"
      <4>1. t.line = Allocate(policy.type, lines[p.idx], r.blk, r.sec)
        BY <3>1 DEF TagAccess
      <4> QED
        BY <4>1 DEF Allocate, Shaped
    <3>2. CASE p.st = "SECTOR_MISS"
      <4>1. t.line = AllocateSector(lines[p.idx], r.sec)
        BY <3>2 DEF TagAccess
      <4>2. lines[p.idx].tag = r.blk
        BY <3>2, <1>1 DEF Matches
      <4>3. LET ext == AllocateSector(lines[p.idx], r.sec)
            IN  Shaped(ext) /\ ext.tag = lines[p.idx].tag
        BY <2>1, <1>3, TagKept
      <4> QED
        BY <4>1, <4>2, <4>3
    <3>3. CASE p.st = "HIT_RESERVED"
      <4>1. t.line = lines[p.idx]
        BY <3>3 DEF TagAccess
      <4>2. lines[p.idx].tag = r.blk
        BY <3>3, <1>1 DEF Matches
      <4> QED
        BY <4>1, <4>2, <2>1, <1>3
    <3> QED
      BY <3>1, <3>2, <3>3, <2>1, <1>1
  <2>3. Shaped(new) /\ new.tag = r.blk /\ r.blk \in Copied'
    BY <2>1, <2>2, TagKept
  <2>4. /\ DOMAIN lines' = Line /\ lines'[p.idx] = new
        /\ \A j \in Line \ {p.idx} : lines'[j] = lines[j]
    BY <2>1, <1>3
  <2>5. LinesShaped'
    BY <2>3, <2>4, <1>3 DEF LinesShaped, Shaped
  <2>6. \A i \in Line : \/ lines'[i].tag \in Copied'
                        \/ /\ lines'[i].tag = lines[i].tag
                           /\ lines'[i].status = lines[i].status
    BY <2>3, <2>4
  <2>7. /\ DOMAIN extra_mf_fields' = Mf
        /\ \A x \in Mf : \/ extra_mf_fields'[x] = extra_mf_fields[x]
                         \/ extra_mf_fields'[x].idx = p.idx
    BY <2>1 DEF CacheCopied, FillsCopied
  <2> HIDE DEF t, new, e
  <2>8. \A x \in Mf : \/ extra_mf_fields'[x] \in {NoExtra, extra_mf_fields[x]}
                      \/ /\ extra_mf_fields'[x].idx \in Line
                         /\ lines'[extra_mf_fields'[x].idx].tag \in Copied'
    BY <2>1, <2>3, <2>4, <2>7
  <2>9. CacheCopied'
    BY <2>5, <2>6, <2>7, <2>8, LinesFollow
  <2> QED
    BY <2>1, <2>9
<1> QED
  BY <1>2, <1>4, <1>5

(* fill makes the line of a fill valid, which is of a block copied.        *)
LEMMA FillKeepsCopied ==
  ASSUME policy.alloc = "ON_MISS", CacheCopied, Copied \subseteq Copied',
         NEW m \in Mf, Fill(m)
  PROVE  CacheCopied'
<1> DEFINE e == extra_mf_fields[m]
           s == e.key[2]
           mask == MaskOf(req[m])
           new == FillBlock(policy.type, lines[e.idx], s, mask)
<1>1. /\ e # NoExtra
      /\ lines' = [lines EXCEPT ![e.idx] = new]
      /\ extra_mf_fields' = [extra_mf_fields EXCEPT ![m] = NoExtra]
  BY DEF Fill, InMemory, FillByIndex
<1>2. DOMAIN lines = Line /\ \A j \in Line : Shaped(lines[j])
  BY DEF CacheCopied, LinesShaped
<1>3. e.idx \in Line /\ lines[e.idx].tag \in Copied
  BY <1>1 DEF CacheCopied, FillsCopied
<1>4. Shaped(new) /\ new.tag = lines[e.idx].tag
  BY <1>2, <1>3, TagKept
<1>5. /\ DOMAIN lines' = Line /\ lines'[e.idx] = new
      /\ \A j \in Line \ {e.idx} : lines'[j] = lines[j]
  BY <1>1, <1>2, <1>3
<1>6. LinesShaped'
  BY <1>2, <1>4, <1>5 DEF LinesShaped, Shaped
<1>7. \A i \in Line : \/ lines'[i].tag \in Copied'
                      \/ /\ lines'[i].tag = lines[i].tag
                         /\ lines'[i].status = lines[i].status
  BY <1>3, <1>4, <1>5
<1>8. /\ DOMAIN extra_mf_fields' = Mf
      /\ \A x \in Mf : extra_mf_fields'[x] \in {NoExtra, extra_mf_fields[x]}
  BY <1>1 DEF CacheCopied, FillsCopied
<1> QED
  BY <1>6, <1>7, <1>8, LinesFollow

(* next_access only lets go of a pin.                                      *)
LEMMA NextAccessKeepsCopied ==
  ASSUME CacheCopied, Copied \subseteq Copied', NextAccess
  PROVE  CacheCopied'
<1>1. PICK m : UnpinResponse(m) /\ UNCHANGED extra_mf_fields
  BY DEF NextAccess, NextReadyHit, NextMshrAccess, missVars
<1> DEFINE i == pending_response_indices[m]
<1>2. DOMAIN lines = Line /\ \A j \in Line : Shaped(lines[j])
  BY DEF CacheCopied, LinesShaped
<1>3. CASE lines' = lines
  BY <1>1, <1>3, CacheUntouched
<1>4. CASE lines' = [lines EXCEPT ![i] = Unpin(lines[i])]
  <2>1. i \in Line => LET new == Unpin(lines[i])
                      IN  /\ Shaped(new) /\ new.tag = lines[i].tag
                          /\ new.status = lines[i].status
    BY <1>2, TagKept
  <2> QED
    BY <1>1, <1>4, <2>1, OneLineFollows
<1> QED
  BY <1>1, <1>3, <1>4 DEF UnpinResponse

(* flush touches modified lines only, which are in use: of a block copied. *)
LEMMA FlushKeepsCopied ==
  ASSUME CacheCopied, Copied \subseteq Copied', Flush
  PROVE  CacheCopied'
<1>1. /\ lines' = [i \in Line |-> IF IsModifiedLine(lines[i])
                                  THEN InvalidateLine(lines[i]) ELSE lines[i]]
      /\ UNCHANGED extra_mf_fields
  BY DEF Flush, FlushTags, missVars
<1>2. \A i \in Line :
        /\ Shaped(lines'[i])
        /\ lines'[i].tag = lines[i].tag
        /\ lines'[i].status = lines[i].status \/ IsModifiedLine(lines[i])
  BY <1>1, TagKept DEF CacheCopied, LinesShaped
<1>3. \A i \in Line : IsModifiedLine(lines[i]) => lines[i].tag \in Copied
  BY DEF CacheCopied, TagsCopied, IsModifiedLine, IsInvalidLine
<1>4. LinesShaped' /\ DOMAIN extra_mf_fields' = Mf
  BY <1>1, <1>2 DEF CacheCopied, LinesShaped, Shaped, FillsCopied
<1> QED
  BY <1>1, <1>2, <1>3, <1>4, LinesFollow

-----------------------------------------------------------------------------
(* The steps of SimpleTwoLevel *)

(* read, its access: a hit finds its block among those of l1_data, and the *)
(* block of a miss is awaited.                                             *)
LEMMA ReadAccessKeeps ==
  ASSUME ReadsInv, ReadAccessStep
  PROVE  ReadsInv'
<1>1. /\ pc = "idle" /\ pc' = "cycle" /\ call.status = ""
      /\ UNCHANGED <<mode, l1_data, result, rewritten>>
  BY DEF ReadsInv, CallFollowsPc, ReadAccessStep
<1>2. Copied = DOMAIN l1_data
  BY <1>1 DEF Copied, Awaited
<1> DEFINE Taken(m, r, p) ==
             /\ AccessTaken(m, r, p)
             /\ call' = [r |-> r, mf |-> m,
                         status |-> IF p.st = "HIT" THEN "HIT" ELSE "MISS"]
           Refused(r, p) ==
             /\ AccessRefused(r, p)
             /\ call' = [r |-> r, mf |-> NoMf, status |-> "RESERVATION_FAIL"]
<1>3. PICK r \in Issuable :
        \E p \in Probe(r.blk, r.sec, FALSE) : Refused(r, p) \/ \E m \in Mf : Taken(m, r, p)
  BY DEF ReadAccessStep
<1>4. PICK p \in Probe(r.blk, r.sec, FALSE) : Refused(r, p) \/ \E m \in Mf : Taken(m, r, p)
  BY <1>3
<1>5. r \in Request
  BY RequestAssumption DEF Issuable
<1>6. Copied \subseteq Copied'
  BY <1>1, <1>2 DEF Copied
<1>7. CopiesExact' /\ CallFollowsPc'
  BY <1>1 DEF ReadsInv, CopiesExact, CallFollowsPc
<1>8. CASE \E m \in Mf : Taken(m, r, p)
  <2>1. PICK m \in Mf : Taken(m, r, p)
    BY <1>8
  <2>2. p.st # "HIT" => r.blk \in Copied'
    BY <2>1, <1>1 DEF Copied, Awaited
  <2>3. CacheCopied' /\ (p.st = "HIT" => r.blk \in Copied)
    BY <2>1, <2>2, <1>5, <1>6, AccessKeepsCopied DEF ReadsInv
  <2>4. HitFindsItsData'
    BY <2>1, <2>3, <1>1, <1>2 DEF HitFindsItsData, DataStoreContains
  <2>5. UNCHANGED policy
    BY <2>1 DEF ReadsInv, AccessTaken, CacheAccess, ReadOnlyHit, ReadOnlyMiss
  <2> QED
    BY <2>3, <2>4, <2>5, <1>7 DEF ReadsInv
<1>9. CASE Refused(r, p)
  <2>1. UNCHANGED <<policy, lines, extra_mf_fields>>
    BY <1>9 DEF AccessRefused, vars, tagVars, missVars
  <2>2. CacheCopied'
    BY <2>1, <1>6, CacheUntouched DEF ReadsInv
  <2>3. HitFindsItsData'
    BY <1>9 DEF HitFindsItsData
  <2> QED
    BY <2>1, <2>2, <2>3, <1>7 DEF ReadsInv
<1> QED
  BY <1>4, <1>8, <1>9

(* read, its cycle: nothing of the tags and the bytes.                     *)
LEMMA ReadCycleKeeps ==
  ASSUME ReadsInv, ReadCycle
  PROVE  ReadsInv'
<1>1. /\ pc = "cycle" /\ pc' = "answer"
      /\ UNCHANGED <<policy, lines, extra_mf_fields, call, l1_data, result, rewritten>>
  BY DEF ReadCycle, AccountedCycle, Cycle, vars, tagVars, missVars
<1>2. Copied' = Copied
  BY <1>1 DEF Copied, Awaited
<1>3. CacheCopied'
  BY <1>1, <1>2, CacheUntouched DEF ReadsInv
<1> QED
  BY <1>1, <1>3 DEF ReadsInv, CopiesExact, CallFollowsPc, HitFindsItsData

(* read, its answer: a miss copies the block the tags wait for.            *)
LEMMA ReadAnswerKeeps ==
  ASSUME ReadsInv, ReadAnswer
  PROVE  ReadsInv'
<1>1. /\ pc = "answer"
      /\ UNCHANGED <<policy, lines, extra_mf_fields, call>>
  BY DEF ReadAnswer, vars, tagVars, missVars
<1>2. CASE AnswerHit
  <2>1. /\ call.status = "HIT" /\ pc' = "drain"
        /\ UNCHANGED <<l1_data, rewritten>>
        /\ call.r.blk \in DOMAIN l1_data
        /\ result' = l1_data[call.r.blk]
    BY <1>2 DEF AnswerHit, ReadsInv, HitFindsItsData, DataStoreContains, DataStoreRead
  <2>2. CacheCopied'
    BY <1>1, <2>1, CacheUntouched DEF ReadsInv, Copied, Awaited
  <2>3. CopiesExact' /\ CallFollowsPc'
    BY <1>1, <2>1 DEF ReadsInv, CopiesExact, CallFollowsPc
  <2>4. HitFindsItsData'
    BY <1>1, <2>1 DEF ReadsInv, CopiesExact, HitFindsItsData, DataStoreContains
  <2> QED
    BY <1>1, <2>2, <2>3, <2>4 DEF ReadsInv
<1>3. CASE AnswerMiss
  <2> DEFINE b == call.r.blk
  <2>1. /\ call.status = "MISS" /\ pc' = "fill"
        /\ DOMAIN l1_data' = DOMAIN l1_data \cup {b}
        /\ l1_data'[b] = DataStoreRead(DramBytes, b)
        /\ \A x \in DOMAIN l1_data \ {b} : l1_data'[x] = l1_data[x]
        /\ rewritten' = rewritten \ {b}
    BY <1>3 DEF AnswerMiss, DataStoreWrite
  <2>2. Copied \subseteq Copied'
    BY <2>1 DEF Copied, Awaited
  <2>3. CacheCopied'
    BY <1>1, <2>2, CacheUntouched DEF ReadsInv
  <2>4. CopiesExact' /\ CallFollowsPc'
    BY <1>1, <2>1 DEF ReadsInv, CopiesExact, CallFollowsPc
  <2>5. HitFindsItsData'
    BY <1>1, <2>1 DEF HitFindsItsData
  <2> QED
    BY <1>1, <2>3, <2>4, <2>5 DEF ReadsInv
<1>4. CASE AnswerRefused
  <2>1. /\ call.status = "RESERVATION_FAIL" /\ pc' = "drain"
        /\ UNCHANGED <<l1_data, rewritten>>
    BY <1>4 DEF AnswerRefused
  <2>2. CacheCopied'
    BY <1>1, <2>1, CacheUntouched DEF ReadsInv, Copied, Awaited
  <2> QED
    BY <1>1, <2>1, <2>2 DEF ReadsInv, CopiesExact, CallFollowsPc, HitFindsItsData
<1> QED
  BY <1>2, <1>3, <1>4 DEF ReadAnswer

(* read, its fills: the block of the miss is copied by now.                *)
LEMMA ReadFillKeeps ==
  ASSUME ReadsInv, ReadFill
  PROVE  ReadsInv'
<1>1. /\ pc = "fill" /\ pc' \in {"fill", "drain"} /\ call.status # "HIT"
      /\ UNCHANGED <<call, l1_data, result, rewritten>>
  BY DEF ReadsInv, CallFollowsPc, ReadFill
<1>2. Copied' = Copied
  BY <1>1 DEF Copied, Awaited
<1>3. /\ UNCHANGED policy
      /\ (\E m \in Mf : Fill(m)) \/ UNCHANGED <<lines, extra_mf_fields>>
  BY DEF ReadFill, AccountedFill, Fill, vars, tagVars, missVars
<1>4. CacheCopied'
  BY <1>2, <1>3, FillKeepsCopied, CacheUntouched DEF ReadsInv
<1> QED
  BY <1>1, <1>3, <1>4 DEF ReadsInv, CopiesExact, CallFollowsPc, HitFindsItsData

(* read, its end: the responses are drained.                               *)
LEMMA ReadDrainKeeps ==
  ASSUME ReadsInv, ReadDrain
  PROVE  ReadsInv'
<1>1. /\ pc = "drain"
      /\ UNCHANGED <<l1_data, result, rewritten>>
      /\ \/ UNCHANGED <<pc, call>> /\ NextAccess
         \/ pc' = "idle" /\ call' = NoCall /\ UNCHANGED <<policy, lines, extra_mf_fields>>
  BY DEF ReadDrain, AccountedNextAccess, vars, tagVars, missVars
<1>2. Copied = DOMAIN l1_data /\ Copied \subseteq Copied'
  BY <1>1 DEF Copied, Awaited
<1>3. CASE UNCHANGED <<pc, call>> /\ NextAccess
  <2>1. CacheCopied'
    BY <1>2, <1>3, NextAccessKeepsCopied DEF ReadsInv
  <2>2. UNCHANGED policy
    BY <1>3 DEF NextAccess, NextReadyHit, NextMshrAccess
  <2> QED
    BY <1>1, <1>3, <2>1, <2>2 DEF ReadsInv, CopiesExact, CallFollowsPc, HitFindsItsData,
                                  DataStoreContains
<1>4. CASE /\ pc' = "idle" /\ call' = NoCall
           /\ UNCHANGED <<policy, lines, extra_mf_fields>>
  <2>1. CacheCopied'
    BY <1>2, <1>4, CacheUntouched DEF ReadsInv
  <2>2. call'.status = ""
    BY <1>4 DEF NoCall
  <2> QED
    BY <1>1, <1>4, <2>1, <2>2 DEF ReadsInv, CopiesExact, CallFollowsPc, HitFindsItsData
<1> QED
  BY <1>1, <1>3, <1>4

(* write: a block it changes is one whose bytes are no longer the DRAM's.  *)
LEMMA WriteDataKeeps ==
  ASSUME ReadsInv, WriteData
  PROVE  ReadsInv'
<1>1. PICK b \in Blk :
        /\ rewritten' = rewritten \cup {b}
        /\ DOMAIN l1_data' = DOMAIN l1_data \cup {b}
        /\ \A x \in DOMAIN l1_data \ {b} : l1_data'[x] = l1_data[x]
  BY DEF WriteData, DataStoreWrite
<1>2. /\ pc = "idle" /\ call.status = ""
      /\ UNCHANGED <<policy, lines, extra_mf_fields, pc, call>>
  BY DEF ReadsInv, CallFollowsPc, WriteData, vars, tagVars, missVars
<1>3. CacheCopied'
  BY <1>1, <1>2, CacheUntouched DEF ReadsInv, Copied, Awaited
<1>4. CopiesExact'
  BY <1>1 DEF ReadsInv, CopiesExact
<1> QED
  BY <1>2, <1>3, <1>4 DEF ReadsInv, CallFollowsPc, HitFindsItsData

(* flush_to_dram.                                                          *)
LEMMA FlushToDramKeeps ==
  ASSUME ReadsInv, FlushToDram
  PROVE  ReadsInv'
<1>1. /\ pc = "idle" /\ call.status = "" /\ Flush
      /\ UNCHANGED <<policy, pc, call, l1_data, result, rewritten>>
  BY DEF ReadsInv, CallFollowsPc, FlushToDram, Flush, systemVars
<1>2. CacheCopied'
  BY <1>1, FlushKeepsCopied DEF ReadsInv, Copied, Awaited
<1> QED
  BY <1>1, <1>2 DEF ReadsInv, CopiesExact, CallFollowsPc, HitFindsItsData

(* l1_data holds every block the tags can hit on, with the bytes of the    *)
(* DRAM unless write() has changed them.                                   *)
THEOREM TwoLevelInvariance == TwoLevelSpec => []TwoLevelInv
<1>1. TwoLevelInit => TwoLevelInv
  <2> SUFFICES ASSUME TwoLevelInit
               PROVE  TwoLevelInv
    OBVIOUS
  <2>1. /\ mode \in {"caller", "two_level"} /\ pc = "idle" /\ call = NoCall
        /\ call.status = ""
    BY TwoLevelAssumption DEF TwoLevelInit, NoCall
  <2>2. CacheCopied
    <3>1. LinesShaped /\ TagsCopied
      BY DEF TwoLevelInit, Init, TagInit, InitBlock, LinesShaped, Shaped, TagsCopied,
             IsInvalidLine
    <3>2. FillsCopied
      BY DEF TwoLevelInit, Init, FillsCopied
    <3> QED
      BY <3>1, <3>2 DEF CacheCopied
  <2>3. CopiesExact
    <3>1. DOMAIN l1_data = {}
      BY DEF TwoLevelInit
    <3> QED
      BY <3>1 DEF CopiesExact
  <2>4. mode = "two_level" => policy.write = "READ_ONLY" /\ policy.alloc = "ON_MISS"
    BY DEF TwoLevelInit
  <2> QED
    BY <2>1, <2>2, <2>3, <2>4 DEF TwoLevelInv, ReadsInv, CallFollowsPc, HitFindsItsData
<1>2. TwoLevelInv /\ [TwoLevelNext]_allVars => TwoLevelInv'
  <2> SUFFICES ASSUME TwoLevelInv, [TwoLevelNext]_allVars
               PROVE  TwoLevelInv'
    OBVIOUS
  <2>1. CASE CallerStep
    <3>1. mode = "caller" /\ UNCHANGED <<mode, pc, call>>
      BY <2>1 DEF CallerStep, systemVars
    <3> QED
      BY <3>1 DEF TwoLevelInv
  <2>2. CASE mode = "two_level" /\ UNCHANGED mode /\ ReadsInv'
    BY <2>2 DEF TwoLevelInv
  <2>3. CASE \/ ReadAccessStep \/ ReadCycle \/ ReadAnswer \/ ReadFill \/ ReadDrain
             \/ WriteData \/ FlushToDram
    <3>1. mode = "two_level" /\ UNCHANGED mode
      BY <2>3 DEF TwoLevelInv, ReadAccessStep, ReadCycle, ReadAnswer, ReadFill, ReadDrain,
                  WriteData, FlushToDram, systemVars
    <3>2. ReadsInv
      BY <3>1 DEF TwoLevelInv
    <3>3. ReadsInv'
      BY <2>3, <3>2, ReadAccessKeeps, ReadCycleKeeps, ReadAnswerKeeps, ReadFillKeeps,
         ReadDrainKeeps, WriteDataKeeps, FlushToDramKeeps
    <3> QED
      BY <3>1, <3>3, <2>2
  <2>4. CASE UNCHANGED allVars
    <3>1. UNCHANGED <<policy, lines, extra_mf_fields, mode, pc, call, l1_data, result,
                      rewritten>>
      BY <2>4 DEF allVars, vars, tagVars, missVars, systemVars
    <3>2. CASE mode = "two_level"
      <4>1. CacheCopied'
        BY <3>1, <3>2, CacheUntouched DEF TwoLevelInv, ReadsInv, Copied, Awaited
      <4> QED
        BY <3>1, <3>2, <4>1 DEF TwoLevelInv, ReadsInv, CopiesExact, CallFollowsPc,
                                HitFindsItsData
    <3> QED
      BY <3>1, <3>2 DEF TwoLevelInv
  <2> QED
    BY <2>1, <2>3, <2>4 DEF TwoLevelNext
<1> QED
  BY <1>1, <1>2, PTL DEF TwoLevelSpec

(* A read that hits finds its block in l1_data, and unless write() changed *)
(* the block it returns the bytes of the DRAM (SimpleTwoLevel::read).      *)
THEOREM HitsFindTheirData == TwoLevelSpec => []HitFindsItsData
<1>1. TwoLevelInv => HitFindsItsData
  <2>1. call = NoCall => HitFindsItsData
    <3>1. NoCall.status # "HIT"
      BY DEF NoCall
    <3> QED
      BY <3>1 DEF HitFindsItsData
  <2>2. ReadsInv => HitFindsItsData
    BY DEF ReadsInv
  <2>3. TwoLevelInv => call = NoCall \/ ReadsInv
    BY DEF TwoLevelInv
  <2> QED
    BY <2>1, <2>2, <2>3
<1> QED
  BY <1>1, TwoLevelInvariance, PTL

-----------------------------------------------------------------------------
(***************************************************************************)
(* The accounted cache is a cache: whatever its two users do with it is a  *)
(* step of GpuCache or leaves its variables alone, so that what is proved  *)
(* of GpuCache holds here.                                                 *)
(***************************************************************************)

Refuses(r, p) == RefusalReason(r, p) # ""

(* Why a request is refused.                                               *)
LEMMA RefusalCases ==
  ASSUME NEW r, NEW p
  PROVE  Refuses(r, p) <=>
           \/ p.st = "HIT" /\ HitResponseQueueFull
           \/ /\ p.st = "RESERVATION_FAIL"
              /\ ~(r.wr /\ policy.write_alloc = "NO_WRITE_ALLOCATE")
           \/ UsesQueue(r, p) /\ MissQueueFull(QueueRoom(r, p))
           \/ SendsRead(r, p) /\ MshrFull(KeyOf(r))
BY DEF Refuses, RefusalReason, last_fail_reason

(* An access that is taken is one of the read-only or of the data cache.   *)
LEMMA TakenIsAccess ==
  ASSUME ~closed, NEW m \in Mf, NEW r \in Issuable,
         NEW p \in Probe(r.blk, r.sec, r.wr), AccessTaken(m, r, p)
  PROVE  Works /\ ~closed'
<1>1. r.wr \in BOOLEAN
  BY RequestAssumption DEF Issuable, Request
<1>2. /\ FreeMf(m) /\ AccessAllowed(p) /\ CacheAccess(m, r, p)
      /\ r.wr => dirty < MaxDirty
      /\ p.st = "HIT" => ~HitResponseQueueFull
  BY RefusalCases DEF AccessTaken, Refuses
<1>3. ReadOnlyAccess(m, r) \/ DataAccess(m, r)
  <2>1. CASE policy.write = "READ_ONLY"
    <3>1. ~r.wr /\ (ReadOnlyHit(m, r, p) \/ ReadOnlyMiss(m, r, p))
      BY <1>2, <2>1 DEF CacheAccess
    <3>2. p \in Probe(r.blk, r.sec, FALSE)
      BY <1>1, <3>1
    <3> QED
      BY <1>2, <2>1, <3>1, <3>2 DEF ReadOnlyAccess
  <2>2. CASE policy.write # "READ_ONLY"
    BY <1>2, <2>2 DEF CacheAccess, DataAccess
  <2> QED
    BY <2>1, <2>2
<1>4. closed' = closed
  BY <1>3 DEF ReadOnlyAccess, DataAccess, ReadOnlyHit, ReadOnlyMiss, WriteAccess, ReadAccess,
              WrHitWriteBack, WrHitWriteThrough, WrHitWriteEvict, WrMissNaive,
              WrMissFetchFull, WrMissFetchPartial, WrMissLazyFetch, WrMissNoAllocate,
              RdHitBase, RdMissBase
<1> QED
  BY <1>3, <1>4 DEF Works

(* cycle, fill and next_access with their counters.                        *)
LEMMA AccountedStep ==
  ASSUME ~closed,
         \/ \E portFull \in BOOLEAN : AccountedCycle(portFull)
         \/ \E m \in Mf : AccountedFill(m)
         \/ AccountedNextAccess
         \/ UNCHANGED vars
  PROVE  [Works]_vars /\ ~closed'
<1>1. [Works]_vars
  BY DEF AccountedCycle, AccountedFill, AccountedNextAccess, NextAccess, Works
<1>2. closed' = closed
  BY DEF AccountedCycle, Cycle, AccountedFill, Fill, AccountedNextAccess, NextAccess,
         NextReadyHit, NextMshrAccess, vars
<1> QED
  BY <1>1, <1>2

(* Every step but flush_to_dram works, and that one flushes.               *)
LEMMA StepImplements ==
  ASSUME ~closed, [TwoLevelNext]_allVars
  PROVE  /\ [Works]_vars \/ FlushToDram
         /\ [Next]_vars /\ ~closed'
         /\ mode' = mode
<1>1. mode' = mode
  BY DEF TwoLevelNext, CallerStep, ReadAccessStep, ReadCycle, ReadAnswer, ReadFill, ReadDrain,
         WriteData, FlushToDram, systemVars, allVars
<1>2. ASSUME NEW r \in Issuable, NEW p, AccessRefused(r, p)
      PROVE  UNCHANGED vars
  BY <1>2 DEF AccessRefused
<1>3. CASE CallerStep
  <2>1. CASE \E m \in Mf, r \in Issuable :
               \E p \in Probe(r.blk, r.sec, r.wr) : AccessTaken(m, r, p)
    BY <1>1, <2>1, TakenIsAccess, WorksOnly
  <2>2. CASE \E r \in Issuable : \E p \in Probe(r.blk, r.sec, r.wr) : AccessRefused(r, p)
    BY <1>1, <1>2, <2>2, AccountedStep, WorksOnly
  <2>3. CASE NewWindow \/ CollectStats
    <3>1. UNCHANGED vars
      BY <2>3 DEF NewWindow, CollectStats
    <3> QED
      BY <1>1, <3>1, AccountedStep, WorksOnly
  <2>4. CASE \/ \E portFull \in BOOLEAN : AccountedCycle(portFull)
             \/ \E m \in Mf : AccountedFill(m)
             \/ AccountedNextAccess
    BY <1>1, <2>4, AccountedStep, WorksOnly
  <2> QED
    BY <1>3, <2>1, <2>2, <2>3, <2>4 DEF CallerStep
<1>4. CASE ReadAccessStep
  <2>1. PICK r \in Issuable : \E p \in Probe(r.blk, r.sec, FALSE) :
               ~r.wr /\ (AccessRefused(r, p) \/ \E m \in Mf : AccessTaken(m, r, p))
    BY <1>4 DEF ReadAccessStep
  <2>2. r.wr = FALSE
    BY <2>1, RequestAssumption DEF Issuable, Request
  <2>3. PICK p \in Probe(r.blk, r.sec, r.wr) :
               AccessRefused(r, p) \/ \E m \in Mf : AccessTaken(m, r, p)
    BY <2>1, <2>2
  <2> QED
    BY <1>1, <1>2, <2>3, TakenIsAccess, AccountedStep, WorksOnly
<1>5. CASE ReadCycle \/ ReadAnswer \/ ReadFill \/ ReadDrain \/ WriteData \/ UNCHANGED allVars
  <2>1. \/ \E portFull \in BOOLEAN : AccountedCycle(portFull)
        \/ \E m \in Mf : AccountedFill(m)
        \/ AccountedNextAccess
        \/ UNCHANGED vars
    BY <1>5 DEF ReadCycle, ReadAnswer, ReadFill, ReadDrain, WriteData, allVars
  <2> QED
    BY <1>1, <2>1, AccountedStep, WorksOnly
<1>6. CASE FlushToDram
  <2>1. Flush /\ closed' = closed
    BY <1>6 DEF FlushToDram, Flush
  <2> QED
    BY <1>1, <1>6, <2>1 DEF Next, BaselineNext
<1> QED
  BY <1>3, <1>4, <1>5, <1>6 DEF TwoLevelNext

(* The accounted cache, whoever uses it, implements GpuCache: SimpleTwo-   *)
(* Level::read and the counters of cache_stats, the ports and the sampling *)
(* windows add nothing that the cache itself would not do.                 *)
THEOREM CacheImplemented == TwoLevelSpec => Spec
<1>1. TwoLevelInit => Init /\ ~closed
  BY DEF TwoLevelInit, Init
<1>2. ~closed /\ [TwoLevelNext]_allVars => [Next]_vars /\ ~closed'
  BY StepImplements
<1> QED
  BY <1>1, <1>2, PTL DEF TwoLevelSpec, Spec

-----------------------------------------------------------------------------
(* What is proved of a cache nobody flushes, invalidates or forces: the    *)
(* caller of the accounted cache does none of these.                       *)
CallerInv ==
  mode = "caller" => /\ Steady => DataInv
                     /\ Deferring => FillInv

LEMMA CallerStepKeeps ==
  ASSUME IInv, LInv, ~closed, CallerInv, [TwoLevelNext]_allVars
  PROVE  CallerInv'
<1>1. mode' = mode /\ ([Works]_vars \/ FlushToDram)
  BY StepImplements
<1>2. CASE mode = "caller"
  <2>1. [Works]_vars
    BY <1>1, <1>2 DEF FlushToDram
  <2>2. (Steady => DataInv)'
    BY <1>2, <2>1, DataStep DEF CallerInv
  <2>3. (Deferring => FillInv)'
    BY <1>2, <2>1, FillInvStep DEF CallerInv
  <2> QED
    BY <2>2, <2>3 DEF CallerInv
<1>3. CASE mode # "caller"
  BY <1>1, <1>3 DEF CallerInv
<1> QED
  BY <1>2, <1>3

-----------------------------------------------------------------------------
(***************************************************************************)
(* The cache of SimpleTwoLevel between two calls of read: whatever read    *)
(* sent to the memory has been answered, filled and drained, so that only  *)
(* responses to hits are left, which count down.                           *)
(***************************************************************************)
NoFills == \A m \in Mf : extra_mf_fields[m] = NoExtra

Clean(line) == \A s \in Sector : /\ line.status[s] # "MODIFIED"
                                 /\ ~line.set_modified_on_fill[s]
AllClean == \A i \in Line : Clean(lines[i])

Served ==
  /\ Len(miss_queue) <= 1
  /\ pc # "cycle" \/ call.status # "MISS" => miss_queue = <<>>
  /\ pc = "drain" \/ call.status # "MISS" => NoFills
  /\ pc = "idle" => current_response = <<>> /\ ready_response_queue = <<>>

ServeInv ==
  /\ policy.write = "READ_ONLY" /\ policy.type = "NORMAL" /\ policy.alloc = "ON_MISS"
  /\ AllClean
  /\ ReservedAwaits
  /\ pc = "idle" => call.status = ""
  /\ pc = "fill" => call.status = "MISS"
  /\ Served

(* The lines through a step that changes no more than their pins.          *)
LEMMA PinsServe ==
  ASSUME AllClean, ReservedAwaits, UNCHANGED extra_mf_fields,
         \A i \in Line : SameBlock(lines[i], lines'[i])
  PROVE  AllClean' /\ ReservedAwaits'
<1>1. \A i \in Line : /\ lines'[i].tag = lines[i].tag
                      /\ lines'[i].status = lines[i].status
                      /\ lines'[i].set_modified_on_fill = lines[i].set_modified_on_fill
  BY DEF SameBlock
<1>2. AllClean'
  BY <1>1 DEF AllClean, Clean
<1>3. ReservedAwaits'
  BY <1>1 DEF ReservedAwaits
<1> QED
  BY <1>2, <1>3

LEMMA UntouchedServe ==
  ASSUME AllClean, ReservedAwaits, UNCHANGED <<lines, extra_mf_fields>>
  PROVE  AllClean' /\ ReservedAwaits'
BY DEF AllClean, Clean, ReservedAwaits

(* No probe meets a reserved sector where there is none.                   *)
LEMMA ProbeOfIdle ==
  ASSUME \A i \in Line, s \in Sector : lines[i].status[s] # "RESERVED",
         NEW b \in Nat, NEW sec \in Sector, NEW wr, NEW p \in Probe(b, sec, wr)
  PROVE  p.st # "HIT_RESERVED"
<1>1. \/ \E i \in Ways(b) : Matches(i, b) /\ p = [st |-> StatusOnMatch(i, sec, wr), idx |-> i]
      \/ p.st = "MISS"
      \/ Victims(b) = {} /\ p.st = "RESERVATION_FAIL"
  BY ProbeCases
<1>2. ASSUME NEW i \in Ways(b), p = [st |-> StatusOnMatch(i, sec, wr), idx |-> i]
      PROVE  p.st # "HIT_RESERVED"
  <2>1. lines[i].status[sec] # "RESERVED"
    BY WaysAreLines
  <2>2. StatusOnMatch(i, sec, wr) # "HIT_RESERVED"
    BY <2>1 DEF StatusOnMatch
  <2> QED
    BY <1>2, <2>2
<1> QED
  BY <1>1, <1>2

(* A miss from an idle cache reserves one line, and its read is sent.      *)
LEMMA MissServes ==
  ASSUME IInv, ServeInv, pc = "idle", NEW m \in Mf, NEW r \in Request,
         NEW p \in Probe(r.blk, r.sec, FALSE), AccessAllowed(p), ReadOnlyMiss(m, r, p)
  PROVE  AllClean' /\ ReservedAwaits' /\ Len(miss_queue') <= 1
<1> DEFINE k   == KeyOf(r)
           old == lines[p.idx]
           al  == Allocate("NORMAL", old, r.blk, r.sec)
           new == PinIfDeferred(al)
           e   == [ key |-> k, idx |-> p.idx,
                    pending_read |-> IF policy.mshr = "SECTOR_ASSOC" THEN Chunks ELSE 0 ]
<1>1. /\ lines \in [Line -> CacheBlockT] /\ QueueTypes /\ MshrEntryProgresses
      /\ r.blk \in Nat /\ r.sec \in Sector /\ k \in Key
  BY IInvParts, RequestParts DEF RequestInv
<1>2. /\ NoFills /\ miss_queue = <<>> /\ current_response = <<>>
      /\ AllClean /\ ReservedAwaits
  BY DEF ServeInv, Served
<1>3. \A i \in Line, s \in Sector : lines[i].status[s] # "RESERVED"
  BY <1>2 DEF ReservedAwaits, NoFills
<1>4. ~MshrProbe(k)
  <2>1. ~AwaitsFill(k)
    BY <1>2 DEF AwaitsFill, FillPending, NoFills
  <2>2. ~IsReady(k)
    BY <1>2 DEF IsReady
  <2> QED
    BY <1>1, <2>1, <2>2 DEF MshrEntryProgresses
<1>5. p.st = "MISS" /\ p.idx \in Line
  <2>1. /\ p.st \in {"HIT", "HIT_RESERVED", "MISS", "SECTOR_MISS", "RESERVATION_FAIL"}
        /\ p.st # "RESERVATION_FAIL" => p.idx \in Line
    BY <1>1, ProbeFacts
  <2>2. p.st \notin {"HIT", "RESERVATION_FAIL", "SECTOR_MISS"}
    BY DEF ReadOnlyMiss, AccessAllowed, ServeInv
  <2>3. p.st # "HIT_RESERVED"
    BY <1>1, <1>3, ProbeOfIdle
  <2> QED
    BY <2>1, <2>2, <2>3
<1>6. TagAccess(p, r.blk, r.sec).line = al
  BY <1>5 DEF TagAccess, ServeInv
<1>7. lines' = [lines EXCEPT ![p.idx] = new]
  BY <1>6 DEF ReadOnlyMiss
<1>8. /\ extra_mf_fields' = [extra_mf_fields EXCEPT ![m] = e]
      /\ miss_queue' = miss_queue \o <<>> \o <<ReadEntry(m, r)>> \o <<>>
  BY <1>4 DEF ReadOnlyMiss, SendReadRequest
<1>9. Len(miss_queue') <= 1
  BY <1>2, <1>8
<1>10. /\ al.tag = r.blk /\ al.status = [old.status EXCEPT ![r.sec] = "RESERVED"]
       /\ al.set_modified_on_fill = [old.set_modified_on_fill EXCEPT ![r.sec] = FALSE]
  BY DEF Allocate
<1>11. /\ old.status \in [Sector -> BlockState]
       /\ old.set_modified_on_fill \in [Sector -> BOOLEAN]
       /\ old \in CacheBlockT
  BY <1>1, <1>5 DEF CacheBlockT
<1>12. SameBlock(al, new)
  <2>1. al \in CacheBlockT
    BY <1>1, <1>11, AllocateType DEF CacheType
  <2> QED
    BY <2>1, PinsSameBlock
<1>13. /\ new.tag = r.blk
       /\ \A s \in Sector : /\ new.status[s] = IF s = r.sec THEN "RESERVED" ELSE old.status[s]
                            /\ new.set_modified_on_fill[s] =
                                 IF s = r.sec THEN FALSE ELSE old.set_modified_on_fill[s]
  <2>1. /\ new.tag = r.blk
        /\ new.status = [old.status EXCEPT ![r.sec] = "RESERVED"]
        /\ new.set_modified_on_fill = [old.set_modified_on_fill EXCEPT ![r.sec] = FALSE]
    BY <1>10, <1>12 DEF SameBlock
  <2> HIDE DEF new, old
  <2> QED
    BY <1>11, <2>1
<1> HIDE DEF new
<1>14. lines'[p.idx] = new /\ \A i \in Line \ {p.idx} : lines'[i] = lines[i]
  BY <1>1, <1>5, <1>7
<1>15. AllClean'
  <2>1. Clean(new)
    BY <1>2, <1>5, <1>13 DEF AllClean, Clean
  <2> QED
    BY <1>2, <1>14, <2>1 DEF AllClean, Clean
<1>16. ReservedAwaits'
  <2> SUFFICES ASSUME NEW i \in Line, NEW s \in Sector, lines'[i].status[s] = "RESERVED"
               PROVE  \E x \in Mf : /\ extra_mf_fields'[x] # NoExtra
                                    /\ extra_mf_fields'[x].idx = i
                                    /\ extra_mf_fields'[x].key = <<lines'[i].tag, s>>
    BY DEF ReservedAwaits
  <2>1. i = p.idx
    BY <1>3, <1>14
  <2>2. s = r.sec
    <3>1. new.status[s] = "RESERVED"
      BY <1>14, <2>1
    <3>2. old.status[s] # "RESERVED"
      BY <1>3, <1>5
    <3> QED
      BY <1>13, <3>1, <3>2
  <2>3. extra_mf_fields'[m] = e
    BY <1>1, <1>8 DEF QueueTypes
  <2>4. e.idx = i /\ e.key = <<lines'[i].tag, s>>
    BY <1>13, <1>14, <2>1, <2>2 DEF KeyOf
  <2>5. e # NoExtra
    <3>1. NoExtra.idx = NoLine /\ p.idx # NoLine
      BY <1>5, TagAssumption, LineFinite DEF NoExtra
    <3> QED
      BY <2>1, <2>4, <3>1
  <2> HIDE DEF e
  <2> QED
    BY <2>3, <2>4, <2>5
<1> QED
  BY <1>9, <1>15, <1>16

(* read, its access.                                                       *)
LEMMA ReadAccessServes ==
  ASSUME IInv, ServeInv, ReadAccessStep
  PROVE  ServeInv'
<1>1. pc = "idle" /\ pc' = "cycle"
  BY DEF ReadAccessStep
<1>2. /\ NoFills /\ miss_queue = <<>> /\ AllClean /\ ReservedAwaits
      /\ lines \in [Line -> CacheBlockT]
  BY <1>1, IInvParts DEF ServeInv, Served
<1> DEFINE Taken(m, r, p) ==
             /\ AccessTaken(m, r, p)
             /\ call' = [r |-> r, mf |-> m,
                         status |-> IF p.st = "HIT" THEN "HIT" ELSE "MISS"]
           Refused(r, p) ==
             /\ AccessRefused(r, p)
             /\ call' = [r |-> r, mf |-> NoMf, status |-> "RESERVATION_FAIL"]
<1>3. PICK r \in Issuable :
        \E p \in Probe(r.blk, r.sec, FALSE) : Refused(r, p) \/ \E m \in Mf : Taken(m, r, p)
  BY DEF ReadAccessStep
<1>4. PICK p \in Probe(r.blk, r.sec, FALSE) : Refused(r, p) \/ \E m \in Mf : Taken(m, r, p)
  BY <1>3
<1>5. r \in Request
  BY RequestAssumption DEF Issuable
<1>6. CASE \E m \in Mf : Taken(m, r, p)
  <2>1. PICK m \in Mf : Taken(m, r, p)
    BY <1>6
  <2>2. AccessAllowed(p) /\ (ReadOnlyHit(m, r, p) \/ ReadOnlyMiss(m, r, p))
    BY <2>1 DEF AccessTaken, CacheAccess, ServeInv
  <2>3. policy' = policy
    BY <2>2 DEF ReadOnlyHit, ReadOnlyMiss
  <2>4. CASE ReadOnlyHit(m, r, p)
    <3>1. /\ p.st = "HIT" /\ UNCHANGED <<miss_queue, extra_mf_fields>>
          /\ lines' = [lines EXCEPT ![p.idx] = PinIfDeferred(lines[p.idx])]
      BY <2>4 DEF ReadOnlyHit, missVars
    <3>2. \A i \in Line : SameBlock(lines[i], lines'[i])
      <4>1. \A i \in Line : /\ SameBlock(lines[i], PinIfDeferred(lines[i]))
                            /\ SameBlock(lines[i], lines[i])
        BY <1>2, PinsSameBlock DEF SameBlock
      <4>2. \A i \in Line : lines'[i] \in {lines[i], PinIfDeferred(lines[i])}
        BY <1>2, <3>1
      <4> QED
        BY <4>1, <4>2
    <3>3. AllClean' /\ ReservedAwaits'
      BY <1>2, <3>1, <3>2, PinsServe
    <3>4. call'.status = "HIT" /\ NoFills' /\ miss_queue' = <<>>
      BY <1>2, <2>1, <3>1 DEF NoFills
    <3> QED
      BY <1>1, <2>3, <3>3, <3>4 DEF ServeInv, Served
  <2>5. CASE ReadOnlyMiss(m, r, p)
    <3>1. AllClean' /\ ReservedAwaits' /\ Len(miss_queue') <= 1
      BY <1>1, <1>5, <2>2, <2>5, MissServes
    <3>2. call'.status = "MISS"
      BY <2>1, <2>5 DEF ReadOnlyMiss
    <3> QED
      BY <1>1, <2>3, <3>1, <3>2 DEF ServeInv, Served
  <2> QED
    BY <2>2, <2>4, <2>5
<1>7. CASE Refused(r, p)
  <2>1. /\ UNCHANGED <<policy, lines, extra_mf_fields, miss_queue>>
        /\ call'.status = "RESERVATION_FAIL"
    BY <1>7 DEF AccessRefused, vars, tagVars, missVars
  <2>2. AllClean' /\ ReservedAwaits'
    BY <1>2, <2>1, UntouchedServe
  <2>3. NoFills' /\ miss_queue' = <<>>
    BY <1>2, <2>1 DEF NoFills
  <2> QED
    BY <1>1, <2>1, <2>2, <2>3 DEF ServeInv, Served
<1> QED
  BY <1>4, <1>6, <1>7

(* read, its cycle: the port takes the one read there is.                  *)
LEMMA ReadCycleServes ==
  ASSUME IInv, ServeInv, ReadCycle
  PROVE  ServeInv'
<1>1. pc = "cycle" /\ pc' = "answer" /\ call' = call
  BY DEF ReadCycle
<1>2. UNCHANGED <<policy, lines, extra_mf_fields>>
  BY DEF ReadCycle, AccountedCycle, Cycle, vars, tagVars, missVars
<1>3. miss_queue' = <<>>
  <2>1. miss_queue \in Seq(MissEntry) /\ Len(miss_queue) <= 1
    BY IInvParts DEF QueueTypes, ServeInv, Served
  <2>2. CASE Cycle(FALSE)
    BY <2>1, <2>2 DEF Cycle
  <2>3. CASE miss_queue = <<>> /\ UNCHANGED vars
    BY <2>3 DEF vars, missVars
  <2> QED
    BY <2>2, <2>3 DEF ReadCycle, AccountedCycle
<1>4. AllClean' /\ ReservedAwaits'
  BY <1>2, UntouchedServe DEF ServeInv
<1>5. call.status # "MISS" => NoFills'
  BY <1>2 DEF ServeInv, Served, NoFills
<1>6. Len(miss_queue') <= 1
  BY <1>3
<1> QED
  BY <1>1, <1>2, <1>3, <1>4, <1>5, <1>6 DEF ServeInv, Served

(* read, its answer: the cache is left alone.                              *)
LEMMA ReadAnswerServes ==
  ASSUME ServeInv, ReadAnswer
  PROVE  ServeInv'
<1>1. /\ pc = "answer" /\ call' = call
      /\ UNCHANGED <<policy, lines, extra_mf_fields, miss_queue>>
      /\ \/ pc' = "drain" /\ call.status # "MISS"
         \/ pc' = "fill" /\ call.status = "MISS"
  BY DEF ReadAnswer, AnswerHit, AnswerMiss, AnswerRefused, vars, tagVars, missVars
<1>2. AllClean' /\ ReservedAwaits'
  BY <1>1, UntouchedServe DEF ServeInv
<1>3. /\ miss_queue' = <<>> /\ Len(miss_queue') <= 1
      /\ call.status # "MISS" => NoFills'
  BY <1>1 DEF ServeInv, Served, NoFills
<1> QED
  BY <1>1, <1>2, <1>3 DEF ServeInv, Served

(* A fill of a clean line leaves a valid sector.                           *)
LEMMA FillServes ==
  ASSUME IInv, ServeInv, NEW m \in Mf, Fill(m)
  PROVE  AllClean' /\ ReservedAwaits'
<1> DEFINE e   == extra_mf_fields[m]
           s   == e.key[2]
           old == lines[e.idx]
           new == FillBlock(policy.type, old, s, MaskOf(req[m]))
<1>1. /\ lines \in [Line -> CacheBlockT] /\ extra_mf_fields \in [Mf -> ExtraFields \cup {NoExtra}]
      /\ AllClean /\ ReservedAwaits
  BY IInvParts DEF QueueTypes, ServeInv
<1>2. /\ e # NoExtra
      /\ lines' = [lines EXCEPT ![e.idx] = new]
      /\ extra_mf_fields' = [extra_mf_fields EXCEPT ![m] = NoExtra]
  BY DEF Fill, InMemory, FillByIndex, ServeInv
<1>3. e.idx \in Line /\ s \in Sector /\ e.key \in Key
  BY <1>1, <1>2 DEF ExtraFields, Key
<1>4. old \in CacheBlockT /\ Clean(old)
  BY <1>1, <1>3 DEF AllClean
<1>5. /\ new.tag = old.tag
      /\ new.status = [old.status EXCEPT ![s] = "VALID"]
      /\ new.set_modified_on_fill = old.set_modified_on_fill
  BY <1>3, <1>4 DEF FillBlock, Clean, CacheBlockT
<1>6. \A x \in Sector : new.status[x] = IF x = s THEN "VALID" ELSE old.status[x]
  BY <1>4, <1>5 DEF CacheBlockT
<1> HIDE DEF new
<1>7. lines'[e.idx] = new /\ \A i \in Line \ {e.idx} : lines'[i] = lines[i]
  BY <1>1, <1>2, <1>3
<1>8. AllClean'
  <2>1. Clean(new)
    BY <1>4, <1>5, <1>6 DEF Clean
  <2> QED
    BY <1>1, <1>7, <2>1 DEF AllClean, Clean
<1>9. ReservedAwaits'
  <2> SUFFICES ASSUME NEW i \in Line, NEW x \in Sector, lines'[i].status[x] = "RESERVED"
               PROVE  \E y \in Mf : /\ extra_mf_fields'[y] # NoExtra
                                    /\ extra_mf_fields'[y].idx = i
                                    /\ extra_mf_fields'[y].key = <<lines'[i].tag, x>>
    BY DEF ReservedAwaits
  <2>1. lines[i].status[x] = "RESERVED" /\ lines'[i].tag = lines[i].tag /\ ~(i = e.idx /\ x = s)
    BY <1>5, <1>6, <1>7
  <2>2. PICK y \in Mf : /\ extra_mf_fields[y] # NoExtra
                        /\ extra_mf_fields[y].idx = i
                        /\ extra_mf_fields[y].key = <<lines[i].tag, x>>
    BY <1>1, <2>1 DEF ReservedAwaits
  <2>3. y # m
    BY <2>1, <2>2
  <2>4. extra_mf_fields'[y] = extra_mf_fields[y]
    BY <1>1, <1>2, <2>3
  <2> QED
    BY <2>1, <2>2, <2>4
<1> QED
  BY <1>8, <1>9

(* read, its fills: it goes on when the memory owes nothing more.          *)
LEMMA ReadFillServes ==
  ASSUME IInv, ServeInv, ReadFill
  PROVE  ServeInv'
<1>1. pc = "fill" /\ call' = call /\ call.status = "MISS"
  BY DEF ReadFill, ServeInv
<1>2. miss_queue = <<>>
  BY <1>1 DEF ServeInv, Served
<1>3. CASE \E m \in Mf : InMemory(m)
  <2>1. PICK m \in Mf : Fill(m)
    BY <1>3 DEF ReadFill, AccountedFill
  <2>2. pc' = pc /\ UNCHANGED <<policy, miss_queue>>
    BY <1>3, <2>1 DEF ReadFill, Fill
  <2>3. AllClean' /\ ReservedAwaits'
    BY <2>1, FillServes
  <2> QED
    BY <1>1, <1>2, <2>2, <2>3 DEF ServeInv, Served
<1>4. CASE ~\E m \in Mf : InMemory(m)
  <2>1. pc' = "drain" /\ UNCHANGED <<policy, lines, extra_mf_fields, miss_queue>>
    BY <1>4 DEF ReadFill, vars, tagVars, missVars
  <2>2. NoFills'
    BY <1>2, <1>4, <2>1 DEF NoFills, InMemory
  <2>3. AllClean' /\ ReservedAwaits'
    BY <2>1, UntouchedServe DEF ServeInv
  <2> QED
    BY <1>1, <1>2, <2>1, <2>2, <2>3 DEF ServeInv, Served
<1> QED
  BY <1>3, <1>4

(* read, its end: it returns when no response is left.                     *)
LEMMA ReadDrainServes ==
  ASSUME IInv, ServeInv, ReadDrain
  PROVE  ServeInv'
<1>1. pc = "drain" /\ NoFills /\ miss_queue = <<>> /\ lines \in [Line -> CacheBlockT]
  BY IInvParts DEF ReadDrain, ServeInv, Served
<1>2. CASE AccessReady
  <2>1. NextAccess /\ UNCHANGED <<pc, call>>
    BY <1>2 DEF ReadDrain, AccountedNextAccess
  <2>2. UNCHANGED <<policy, extra_mf_fields, miss_queue>>
    BY <2>1 DEF NextAccess, NextReadyHit, NextMshrAccess, missVars
  <2>3. PICK m : UnpinResponse(m)
    BY <2>1 DEF NextAccess, NextReadyHit, NextMshrAccess
  <2>4. \A i \in Line : SameBlock(lines[i], lines'[i])
    <3>1. \A i \in Line : SameBlock(lines[i], Unpin(lines[i])) /\ SameBlock(lines[i], lines[i])
      BY <1>1, PinsSameBlock DEF SameBlock
    <3>2. \A i \in Line : lines'[i] \in {lines[i], Unpin(lines[i])}
      BY <1>1, <2>3 DEF UnpinResponse
    <3> QED
      BY <3>1, <3>2
  <2>5. AllClean' /\ ReservedAwaits'
    BY <2>2, <2>4, PinsServe DEF ServeInv
  <2>6. NoFills' /\ miss_queue' = <<>>
    BY <1>1, <2>2 DEF NoFills
  <2> QED
    BY <1>1, <2>1, <2>2, <2>5, <2>6 DEF ServeInv, Served
<1>3. CASE ~AccessReady
  <2>1. /\ pc' = "idle" /\ call' = NoCall
        /\ UNCHANGED <<policy, lines, extra_mf_fields, miss_queue, current_response,
                       ready_response_queue>>
    BY <1>3 DEF ReadDrain, vars, tagVars, mshrVars, missVars, hitVars
  <2>2. current_response' = <<>> /\ ready_response_queue' = <<>> /\ call'.status = ""
    BY <1>3, <2>1 DEF AccessReady, NoCall
  <2>3. AllClean' /\ ReservedAwaits'
    BY <2>1, UntouchedServe DEF ServeInv
  <2>4. NoFills' /\ miss_queue' = <<>>
    BY <1>1, <2>1 DEF NoFills
  <2> QED
    BY <1>1, <2>1, <2>2, <2>3, <2>4 DEF ServeInv, Served
<1> QED
  BY <1>2, <1>3

(* flush_to_dram finds no modified line: it changes no line.               *)
LEMMA FlushServes ==
  ASSUME IInv, ServeInv, FlushToDram
  PROVE  ServeInv'
<1>1. Flush /\ UNCHANGED <<pc, call>>
  BY DEF FlushToDram, systemVars
<1>2. /\ lines' = [i \in Line |-> IF IsModifiedLine(lines[i])
                                  THEN InvalidateLine(lines[i]) ELSE lines[i]]
      /\ UNCHANGED <<policy, extra_mf_fields, miss_queue, current_response,
                     ready_response_queue>>
  BY <1>1 DEF Flush, FlushTags, mshrVars, missVars, hitVars
<1>3. \A i \in Line : lines'[i] = lines[i]
  BY <1>2 DEF ServeInv, AllClean, Clean, IsModifiedLine
<1>4. AllClean' /\ ReservedAwaits'
  <2>1. \A i \in Line : SameBlock(lines[i], lines'[i])
    BY <1>3 DEF SameBlock
  <2> QED
    BY <1>2, <2>1, PinsServe DEF ServeInv
<1>5. Served'
  BY <1>1, <1>2 DEF ServeInv, Served, NoFills
<1> QED
  BY <1>1, <1>2, <1>4, <1>5 DEF ServeInv

(* write, and a step in which nothing happens.                             *)
LEMMA UntouchedServes ==
  ASSUME ServeInv, UNCHANGED <<vars, pc, call>>
  PROVE  ServeInv'
<1>1. UNCHANGED <<policy, lines, extra_mf_fields, miss_queue, current_response,
                  ready_response_queue, pc, call>>
  BY DEF vars, tagVars, mshrVars, missVars, hitVars
<1>2. AllClean' /\ ReservedAwaits'
  BY <1>1, UntouchedServe DEF ServeInv
<1> QED
  BY <1>1, <1>2 DEF ServeInv, Served, NoFills

-----------------------------------------------------------------------------
(* The inductive invariant of both uses, with that of the cache itself.    *)
UsesInv ==
  /\ IInv /\ LInv /\ ~closed
  /\ CallerInv
  /\ mode \in {"caller", "two_level"}
  /\ mode = "two_level" => ServeInv

LEMMA TwoLevelStart ==
  ASSUME TwoLevelInit
  PROVE  UsesInv
<1>1. Init /\ ~closed /\ mode \in {"caller", "two_level"}
  BY TwoLevelAssumption DEF TwoLevelInit, Init
<1>2. IInv /\ LInv /\ DataInv /\ FillInv
  BY <1>1, DataStart, FillStart
<1>3. /\ lines = [i \in Line |-> InitBlock] /\ miss_queue = <<>>
      /\ extra_mf_fields = [m \in Mf |-> NoExtra]
      /\ current_response = <<>> /\ ready_response_queue = <<>>
  BY <1>1 DEF Init, TagInit, MshrInit
<1>4. AllClean /\ ReservedAwaits
  BY <1>3 DEF AllClean, Clean, ReservedAwaits, InitBlock
<1>5. pc = "idle" /\ call.status = ""
  BY DEF TwoLevelInit, NoCall
<1>6. Served
  <2>1. NoFills
    BY <1>3 DEF NoFills
  <2>2. Len(miss_queue) <= 1
    BY <1>3
  <2> QED
    BY <1>3, <2>1, <2>2 DEF Served
<1>7. mode = "two_level" => ServeInv
  BY <1>4, <1>5, <1>6 DEF TwoLevelInit, ServeInv
<1> QED
  BY <1>1, <1>2, <1>7 DEF UsesInv, CallerInv

LEMMA TwoLevelStep ==
  ASSUME UsesInv, [TwoLevelNext]_allVars
  PROVE  UsesInv'
<1>1. /\ IInv /\ LInv /\ ~closed /\ CallerInv
      /\ mode \in {"caller", "two_level"}
  BY DEF UsesInv
<1>2. [Next]_vars /\ ~closed' /\ mode' = mode
  BY <1>1, StepImplements
<1>3. IInv' /\ LInv'
  BY <1>1, <1>2, NextStep, LineStepHolds
<1>4. CallerInv'
  BY <1>1, CallerStepKeeps
<1>5. ASSUME mode = "two_level"
      PROVE  ServeInv'
  <2>1. ServeInv
    BY <1>5 DEF UsesInv
  <2>2. CASE WriteData \/ UNCHANGED allVars
    <3>1. UNCHANGED <<vars, pc, call>>
      BY <2>2 DEF WriteData, allVars, systemVars
    <3> QED
      BY <2>1, <3>1, UntouchedServes
  <2>3. ~CallerStep
    BY <1>5 DEF CallerStep
  <2>4. CASE \/ ReadAccessStep \/ ReadCycle \/ ReadAnswer \/ ReadFill \/ ReadDrain
             \/ FlushToDram
    BY <1>1, <2>1, <2>4, ReadAccessServes, ReadCycleServes, ReadAnswerServes,
       ReadFillServes, ReadDrainServes, FlushServes
  <2> QED
    BY <2>2, <2>3, <2>4 DEF TwoLevelNext
<1> QED
  BY <1>1, <1>2, <1>3, <1>4, <1>5 DEF UsesInv

THEOREM UsesInvariance == TwoLevelSpec => []UsesInv
<1>1. TwoLevelInit => UsesInv
  BY TwoLevelStart
<1>2. UsesInv /\ [TwoLevelNext]_allVars => UsesInv'
  BY TwoLevelStep
<1> QED
  BY <1>1, <1>2, PTL DEF TwoLevelSpec

-----------------------------------------------------------------------------
(* A refusal passes *)

(* A line that cannot be replaced although no modified line is spared, or  *)
(* none is modified, is pinned by a request that is owed or waits for a    *)
(* fill.                                                                   *)
LEMMA StuckLine ==
  ASSUME IInv, ReservedAwaits, WrPercent = 0 \/ AllClean, NEW i \in Line, ~Replaceable(i)
  PROVE  \/ \E m \in owed : pending_response_indices[m] = i
         \/ \E m \in Mf : extra_mf_fields[m] # NoExtra
<1>1. /\ TypeOK /\ PinConsistency /\ TokensHeld
      /\ dirty \in Nat
  BY DEF IInv, RequestInv, TypeOK
<1>2. DirtyEnough \/ ~IsModifiedLine(lines[i])
  <2>1. CASE WrPercent = 0
    <3>1. WrPercent * NSet * Assoc = 0
      BY <2>1, GeometryAssumption
    <3> QED
      BY <1>1, <3>1 DEF DirtyEnough
  <2>2. CASE AllClean
    BY <2>2 DEF AllClean, Clean, IsModifiedLine
  <2> QED
    BY <2>1, <2>2
<1>3. CASE IsPinned(lines[i])
  <2>1. {m \in Mf : pending_response_indices[m] = i} # {}
    BY <1>1, <1>3, FS_EmptySet DEF PinConsistency, IsPinned
  <2>2. PICK m \in Mf : pending_response_indices[m] = i
    BY <2>1
  <2>3. i # NoLine
    BY TagAssumption, LineFinite
  <2> QED
    BY <1>1, <2>2, <2>3 DEF TokensHeld
<1>4. CASE IsReservedLine(lines[i])
  BY <1>4 DEF IsReservedLine, ReservedAwaits
<1> QED
  BY <1>2, <1>3, <1>4 DEF Replaceable

(* A probe that fails has found no line to replace.                        *)
LEMMA FailedProbe ==
  ASSUME NEW b, NEW s, NEW wr, NEW p \in Probe(b, s, wr), p.st = "RESERVATION_FAIL"
  PROVE  Victims(b) = {}
<1>1. ASSUME NEW i, p = [st |-> StatusOnMatch(i, s, wr), idx |-> i]
      PROVE  FALSE
  <2>1. StatusOnMatch(i, s, wr) # "RESERVATION_FAIL"
    BY DEF StatusOnMatch
  <2> QED
    BY <1>1, <2>1
<1> QED
  BY <1>1, ProbeCases

(* What a refusal is for.                                                  *)
LEMMA RefusalBlocked ==
  ASSUME IInv, ReservedAwaits, WrPercent = 0 \/ AllClean, NEW r \in Request,
         NEW p \in Probe(r.blk, r.sec, r.wr), Refuses(r, p)
  PROVE  \/ HitResponseQueueFull
         \/ \E m \in owed : pending_response_indices[m] # NoLine
         \/ \E m \in Mf : extra_mf_fields[m] # NoExtra
         \/ \E n \in 0..2 : MissQueueFull(n)
         \/ MshrFull(KeyOf(r))
<1>1. r.blk \in Nat
  BY RequestParts
<1>2. UsesQueue(r, p) /\ MissQueueFull(QueueRoom(r, p)) => \E n \in 0..2 : MissQueueFull(n)
  <2>1. QueueRoom(r, p) \in {0, 1, 2}
    BY DEF QueueRoom
  <2>2. PICK n \in 0..2 : n = QueueRoom(r, p)
    BY <2>1
  <2> QED
    BY <2>2 DEF MissQueueFull
<1>3. CASE p.st = "RESERVATION_FAIL"
  <2>1. Victims(r.blk) = {}
    BY <1>3, FailedProbe
  <2>2. PICK i \in Ways(r.blk) : i \in Line
    BY <1>1, WayExists
  <2>3. ~Replaceable(i)
    BY <1>1, <2>1, VictimsEmpty
  <2>4. i # NoLine
    BY <2>2, TagAssumption, LineFinite
  <2> QED
    BY <2>2, <2>3, <2>4, StuckLine
<1> QED
  BY <1>2, <1>3, RefusalCases

(* The queues have places for a write miss, which asks for three of the    *)
(* miss queue (wr_miss_wa_naive), and the MSHRs for one entry.             *)
Roomy == MissQueueSize > 2 /\ MshrEntries > 0 /\ HitResponseQueueSize > 0

(* An MSHR table that is full has an entry.                                *)
LEMMA SomeEntry ==
  ASSUME NEW k \in Key, MshrEntries > 0, MshrFull(k)
  PROVE  \E l \in Key : MshrProbe(l)
<1>1. CASE {l \in Key : MshrProbe(l)} = {}
  <2>1. MshrCount = 0
    BY <1>1, FS_EmptySet DEF MshrCount
  <2>2. ~MshrProbe(k)
    BY <1>1
  <2> QED
    BY <2>1, <2>2, MshrAssumption DEF MshrFull
<1>2. CASE {l \in Key : MshrProbe(l)} # {}
  BY <1>2
<1> QED
  BY <1>1, <1>2

(* A cache that refuses although there is room owes an answer, or waits    *)
(* for the memory port.                                                    *)
LEMMA RefusedOwes ==
  ASSUME IInv, ReservedAwaits, WrPercent = 0 \/ AllClean, Roomy, NEW r \in Request,
         NEW p \in Probe(r.blk, r.sec, r.wr), Refuses(r, p)
  PROVE  owed # {} \/ miss_queue # <<>>
<1>1. /\ QueueTypes /\ OwedExactlyOnce /\ TokensHeld /\ KeyOf(r) \in Key
      /\ hit_response_queue \in Seq([mf : Mf, remaining_cycles : Nat \ {0}])
  BY IInvParts, RequestParts DEF RequestInv, QueueTypes
<1>2. CASE HitResponseQueueFull
  <2>1. Len(hit_response_queue) > 0
    BY <1>1, <1>2, SizeAssumption DEF HitResponseQueueFull, Roomy
  <2>2. 1 \in DOMAIN hit_response_queue /\ hit_response_queue[1].mf \in Mf
    <3>1. 1 \in DOMAIN hit_response_queue
      BY <1>1, <2>1
    <3> DEFINE S == [mf : Mf, remaining_cycles : Nat \ {0}]
    <3>2. hit_response_queue \in Seq(S)
      BY <1>1
    <3>3. \A x \in S : x.mf \in Mf
      OBVIOUS
    <3> HIDE DEF S
    <3>4. hit_response_queue[1] \in S
      BY <3>1, <3>2
    <3> QED
      BY <3>1, <3>3, <3>4
  <2>3. InHits(hit_response_queue[1].mf)
    BY <2>2 DEF InHits
  <2> QED
    BY <1>1, <2>2, <2>3 DEF OwedExactlyOnce
<1>3. CASE \E n \in 0..2 : MissQueueFull(n)
  BY <1>3, SizeAssumption DEF MissQueueFull, Roomy
<1>4. ASSUME NEW k \in Key, MshrProbe(k)
      PROVE  owed # {}
  <2>1. 1 \in DOMAIN mshr[k] /\ mshr[k][1] \in Mf
    BY <1>1, <1>4 DEF QueueTypes, MshrProbe
  <2> QED
    BY <1>1, <2>1 DEF OwedExactlyOnce, InMshr
<1>5. CASE \E m \in Mf : extra_mf_fields[m] # NoExtra
  <2>1. PICK m \in Mf : extra_mf_fields[m] # NoExtra
    BY <1>5
  <2>2. extra_mf_fields[m].key \in Key
    BY <1>1, <2>1 DEF QueueTypes, ExtraFields
  <2> QED
    BY <1>1, <1>4, <2>1, <2>2 DEF TokensHeld
<1>6. CASE MshrFull(KeyOf(r))
  BY <1>1, <1>4, <1>6, SomeEntry DEF Roomy
<1> QED
  BY <1>2, <1>3, <1>5, <1>6, RefusalBlocked

(* An idle SimpleTwoLevel refuses a read only because of hit responses.    *)
LEMMA RefusedIdle ==
  ASSUME IInv, ServeInv, pc = "idle", Roomy, NEW r \in Request,
         NEW p \in Probe(r.blk, r.sec, r.wr), Refuses(r, p)
  PROVE  hit_response_queue # <<>>
<1>1. /\ QueueTypes /\ OwedExactlyOnce /\ TokensHeld /\ MshrEntryProgresses
      /\ KeyOf(r) \in Key
  BY IInvParts, RequestParts DEF RequestInv
<1>2. /\ miss_queue = <<>> /\ NoFills
      /\ current_response = <<>> /\ ready_response_queue = <<>>
      /\ ReservedAwaits /\ AllClean
  BY DEF ServeInv, Served
<1>3. \A k \in Key : ~MshrProbe(k)
  <2>1. \A k \in Key : ~AwaitsFill(k)
    BY <1>2 DEF AwaitsFill, FillPending, NoFills
  <2>2. \A k \in Key : ~IsReady(k)
    BY <1>2 DEF IsReady
  <2> QED
    BY <1>1, <2>1, <2>2 DEF MshrEntryProgresses
<1>4. CASE HitResponseQueueFull
  <2>1. Len(hit_response_queue) > 0
    BY <1>1, <1>4, SizeAssumption DEF HitResponseQueueFull, Roomy, QueueTypes
  <2> QED
    BY <2>1
<1>5. CASE \E m \in owed : pending_response_indices[m] # NoLine
  <2>1. PICK m \in Mf : m \in owed
    BY <1>1, <1>5 DEF QueueTypes
  <2>2. ~InMshr(m)
    BY <1>3 DEF InMshr, MshrProbe
  <2>3. ~InReady(m)
    BY <1>2 DEF InReady
  <2>4. InHits(m)
    BY <1>1, <2>1, <2>2, <2>3 DEF OwedExactlyOnce
  <2> QED
    BY <2>4 DEF InHits
<1>6. ~\E n \in 0..2 : MissQueueFull(n)
  BY <1>2, SizeAssumption DEF MissQueueFull, Roomy
<1>7. ~MshrFull(KeyOf(r))
  BY <1>1, <1>3, SomeEntry DEF Roomy
<1> QED
  BY <1>2, <1>4, <1>5, <1>6, <1>7, RefusalBlocked DEF NoFills

(* A request is refused only by a cache with work that will end: in every  *)
(* SimpleTwoLevel, and for any caller in a cache that defers its hits,     *)
(* allocates on miss and writes back or through, if modified lines may be  *)
(* replaced (m_wr_percent is zero).                                        *)
THEOREM RefusalsPass ==
  TwoLevelSpec =>
    [](/\ Roomy
       /\ mode = "two_level" \/ (Deferring /\ WrPercent = 0)
       => RefusedOnlyWhileBusy)
<1>1. UsesInv =>
        (/\ Roomy
         /\ mode = "two_level" \/ (Deferring /\ WrPercent = 0)
         => RefusedOnlyWhileBusy)
  <2> SUFFICES ASSUME UsesInv, Roomy, mode = "two_level" \/ (Deferring /\ WrPercent = 0)
               PROVE  RefusedOnlyWhileBusy
    OBVIOUS
  <2>1. /\ IInv /\ ReservedAwaits /\ (WrPercent = 0 \/ AllClean)
        /\ mode = "two_level" => ServeInv
    BY DEF UsesInv, CallerInv, ServeInv, FillInv
  <2> SUFFICES ASSUME NEW r \in Issuable, NEW p \in Probe(r.blk, r.sec, r.wr),
                      Refuses(r, p)
               PROVE  /\ owed # {} \/ miss_queue # <<>>
                      /\ mode = "two_level" /\ pc = "idle" => hit_response_queue # <<>>
    BY DEF RefusedOnlyWhileBusy, Refuses
  <2>2. r \in Request
    BY RequestAssumption DEF Issuable
  <2>3. owed # {} \/ miss_queue # <<>>
    BY <2>1, <2>2, RefusedOwes
  <2>4. mode = "two_level" /\ pc = "idle" => hit_response_queue # <<>>
    BY <2>1, <2>2, RefusedIdle
  <2> QED
    BY <2>3, <2>4
<1> QED
  BY <1>1, UsesInvariance, PTL

=============================================================================
