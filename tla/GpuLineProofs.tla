---------------------------- MODULE GpuLineProofs ----------------------------
(***************************************************************************)
(* What the cache's books on a request say of the lines: the line a        *)
(* request was accepted against keeps its block, a fill finds the block it *)
(* was read for, and no legal call runs into an assert.  All of it rests   *)
(* on IInv, the inductive invariant of the books themselves.               *)
(***************************************************************************)
EXTENDS GpuCacheProofs

-----------------------------------------------------------------------------
(* The methods of a block, field by field *)

(* pin and unpin change the count of pins alone.                           *)
SameBlock(old, new) ==
  /\ new.tag = old.tag
  /\ new.status = old.status
  /\ new.set_modified_on_fill = old.set_modified_on_fill
  /\ new.set_readable_on_fill = old.set_readable_on_fill
  /\ new.set_byte_mask_on_fill = old.set_byte_mask_on_fill
  /\ new.readable = old.readable
  /\ new.dirty_byte_mask = old.dirty_byte_mask

LEMMA PinsSameBlock ==
  ASSUME NEW line \in CacheBlockT
  PROVE  SameBlock(line, PinIfDeferred(line)) /\ SameBlock(line, Unpin(line))
<1>1. SameBlock(line, Pin(line)) /\ SameBlock(line, Unpin(line)) /\ SameBlock(line, line)
  BY DEF SameBlock, Pin, Unpin, CacheBlockT
<1> QED
  BY <1>1 DEF PinIfDeferred

(* A write sets the status and the dirty bytes of its sector, and may make *)
(* the sector readable.                                                    *)
LEMMA WrittenFields ==
  ASSUME NEW line \in CacheBlockT, NEW r \in Request
  PROVE  LET new == UpdateReadable(Written(line, r), r.sec)
         IN  /\ new \in CacheBlockT
             /\ new.tag = line.tag
             /\ new.status[r.sec] = "MODIFIED"
             /\ \A s \in Sector \ {r.sec} : new.status[s] = line.status[s]
             /\ new.set_modified_on_fill = line.set_modified_on_fill
             /\ new.set_readable_on_fill = line.set_readable_on_fill
             /\ \A s \in Sector : line.readable[s] => new.readable[s]
             /\ new.dirty_byte_mask = line.dirty_byte_mask \cup MaskOf(r)
<1> DEFINE w == Written(line, r)
<1>0. r.sec \in Sector
  BY RequestParts
<1>1. /\ w \in CacheBlockT
      /\ w.tag = line.tag
      /\ w.status = [line.status EXCEPT ![r.sec] = "MODIFIED"]
      /\ w.set_modified_on_fill = line.set_modified_on_fill
      /\ w.set_readable_on_fill = line.set_readable_on_fill
      /\ w.readable = line.readable
      /\ w.dirty_byte_mask = line.dirty_byte_mask \cup MaskOf(r)
  BY <1>0, WrittenType DEF Written, SetStatus, SetByteMask, CacheBlockT
<1>2. UpdateReadable(w, r.sec) \in CacheBlockT
  BY <1>0, <1>1, WrittenType
<1>3. \/ UpdateReadable(w, r.sec) = w
      \/ UpdateReadable(w, r.sec) = [w EXCEPT !.readable[r.sec] = TRUE]
  BY DEF UpdateReadable, SetReadable
<1> HIDE DEF w
<1> QED
  BY <1>0, <1>1, <1>2, <1>3 DEF w, CacheBlockT

(* The line an access finds: one to replace, which has neither pins nor    *)
(* reserved sectors, or one that holds the block.                          *)
LEMMA ProbedLine ==
  ASSUME lines \in [Line -> CacheBlockT], NEW b \in Nat, NEW s \in Sector, NEW wr,
         NEW p \in Probe(b, s, wr), p.st # "RESERVATION_FAIL"
  PROVE  /\ p.st \in {"HIT", "HIT_RESERVED", "MISS", "SECTOR_MISS"}
         /\ p.idx \in Line /\ lines[p.idx] \in CacheBlockT
         /\ p.st = "MISS" => ~IsPinned(lines[p.idx]) /\ ~IsReservedLine(lines[p.idx])
         /\ p.st # "MISS" => Matches(p.idx, b) /\ lines[p.idx].tag = b
BY ProbeFacts DEF Replaceable, Matches

(* A replaced line starts with the one sector reserved.                    *)
LEMMA AllocateFields ==
  ASSUME NEW type \in CacheType, NEW line \in CacheBlockT, NEW b \in Nat, NEW s \in Sector,
         ~IsReservedLine(line)
  PROVE  LET new == Allocate(type, line, b, s)
         IN  /\ new \in CacheBlockT
             /\ new.tag = b
             /\ new.status[s] = "RESERVED"
             /\ \A x \in Sector \ {s} : new.status[x] # "RESERVED"
             /\ type = "SECTOR" => new.readable[s] = TRUE
             /\ type = "NORMAL" => \A x \in Sector : new.readable[x] = line.readable[x]
             /\ \A x \in Sector \ {s} :
                  line.status[x] = "INVALID" => new.status[x] = "INVALID"
<1>1. Allocate(type, line, b, s) \in CacheBlockT
  BY AllocateType
<1>2. CASE type = "SECTOR"
  BY <1>1, <1>2 DEF Allocate, InitBlock, CacheBlockT
<1>3. CASE type # "SECTOR"
  BY <1>1, <1>3 DEF Allocate, CacheBlockT, IsReservedLine, CacheType
<1> QED
  BY <1>2, <1>3

(* A sector miss reserves the sector; its fill will leave it modified if   *)
(* it was.                                                                 *)
LEMMA AllocateSectorHere ==
  ASSUME NEW line \in CacheBlockT, NEW s \in Sector
  PROVE  LET new == AllocateSector(line, s)
         IN  /\ new \in CacheBlockT
             /\ new.tag = line.tag
             /\ new.dirty_byte_mask = line.dirty_byte_mask
             /\ new.status[s] = "RESERVED"
             /\ line.status[s] = "MODIFIED" => new.set_modified_on_fill[s]
             /\ new.readable[s]
<1> DEFINE new == AllocateSector(line, s)
<1>1. new \in CacheBlockT
  BY AllocateSectorType
<1>2. new.tag = line.tag /\ new.dirty_byte_mask = line.dirty_byte_mask
  BY DEF AllocateSector, CacheBlockT
<1>3. new.status[s] = "RESERVED"
  BY DEF AllocateSector, CacheBlockT
<1>4. line.status[s] = "MODIFIED" => new.set_modified_on_fill[s]
  BY DEF AllocateSector, CacheBlockT
<1>5. new.readable[s]
  BY DEF AllocateSector, CacheBlockT
<1> QED
  BY <1>1, <1>2, <1>3, <1>4, <1>5

(* The other sectors stay as they were.                                    *)
LEMMA AllocateSectorElsewhere ==
  ASSUME NEW line \in CacheBlockT, NEW s \in Sector
  PROVE  LET new == AllocateSector(line, s)
         IN  \A x \in Sector \ {s} :
                /\ new.status[x] = line.status[x]
                /\ new.set_modified_on_fill[x] = line.set_modified_on_fill[x]
                /\ new.set_readable_on_fill[x] = line.set_readable_on_fill[x]
                /\ new.readable[x] = line.readable[x]
BY DEF AllocateSector, CacheBlockT

(* The block access leaves, case by case.                                  *)
LEMMA TagAccessCases ==
  ASSUME lines \in [Line -> CacheBlockT], policy \in Config, NEW b \in Nat,
         NEW s \in Sector, NEW wr, NEW p \in Probe(b, s, wr), p.st # "RESERVATION_FAIL"
  PROVE  LET new == TagAccess(p, b, s).line
         IN  /\ p.st = "MISS" /\ policy.alloc = "ON_MISS" =>
                  new = Allocate(policy.type, lines[p.idx], b, s)
             /\ p.st = "SECTOR_MISS" /\ policy.alloc = "ON_MISS" =>
                  new = AllocateSector(lines[p.idx], s)
             /\ p.st \notin {"MISS", "SECTOR_MISS"} \/ policy.alloc # "ON_MISS" =>
                  new = lines[p.idx]
BY DEF TagAccess

(* In short: the line is that of the block, once a miss has taken it.      *)
LEMMA TagAccessTag ==
  ASSUME lines \in [Line -> CacheBlockT], policy \in Config, NEW b \in Nat,
         NEW s \in Sector, NEW wr, NEW p \in Probe(b, s, wr), p.st # "RESERVATION_FAIL",
         NEW new, new = TagAccess(p, b, s).line
  PROVE  /\ p.idx \in Line
         /\ new \in CacheBlockT
         /\ p.st = "MISS" => ~IsPinned(lines[p.idx])
         /\ p.st # "MISS" => new.tag = lines[p.idx].tag
         /\ policy.alloc = "ON_MISS" => new.tag = b
<1> DEFINE old == lines[p.idx]
<1>1. /\ p.st \in {"HIT", "HIT_RESERVED", "MISS", "SECTOR_MISS"}
      /\ p.idx \in Line /\ old \in CacheBlockT
      /\ p.st = "MISS" => ~IsPinned(old) /\ ~IsReservedLine(old)
      /\ p.st # "MISS" => old.tag = b
  BY ProbedLine
<1>2. /\ p.st = "MISS" /\ policy.alloc = "ON_MISS" =>
           new = Allocate(policy.type, old, b, s)
      /\ p.st = "SECTOR_MISS" /\ policy.alloc = "ON_MISS" => new = AllocateSector(old, s)
      /\ p.st \notin {"MISS", "SECTOR_MISS"} \/ policy.alloc # "ON_MISS" => new = old
  BY TagAccessCases
<1>3. AllocateSector(old, s) \in CacheBlockT /\ AllocateSector(old, s).tag = old.tag
  BY <1>1, AllocateSectorHere
<1>4. /\ Allocate(policy.type, old, b, s) \in CacheBlockT
      /\ Allocate(policy.type, old, b, s).tag = b
  <2>1. Allocate(policy.type, old, b, s) \in CacheBlockT
    BY <1>1, AllocateType DEF Config
  <2> QED
    BY <2>1 DEF Allocate
<1> HIDE DEF old
<1>5. new \in CacheBlockT /\ (p.st # "MISS" => new.tag = old.tag)
  BY <1>1, <1>2, <1>3, <1>4
<1>6. policy.alloc = "ON_MISS" => new.tag = b
  BY <1>1, <1>2, <1>4, <1>5
<1> QED
  BY <1>1, <1>5, <1>6 DEF old

-----------------------------------------------------------------------------
(* Pins and reads *)

(* A line that a request is recorded against is pinned.                    *)
LEMMA IndexPins ==
  IInv => \A m \in Mf : pending_response_indices[m] # NoLine =>
            /\ pending_response_indices[m] \in Line
            /\ IsPinned(lines[pending_response_indices[m]])
<1> SUFFICES ASSUME IInv, NEW m \in Mf, pending_response_indices[m] # NoLine
             PROVE  /\ pending_response_indices[m] \in Line
                    /\ IsPinned(lines[pending_response_indices[m]])
  OBVIOUS
<1> DEFINE i == pending_response_indices[m]
           P == {x \in Mf : pending_response_indices[x] = i}
<1>1. QueueTypes /\ PinConsistency
  BY IInvParts
<1>2. i \in Line
  BY <1>1 DEF QueueTypes
<1>3. lines[i].pending_response_count = Cardinality(P)
  BY <1>1, <1>2 DEF PinConsistency
<1>4. IsFiniteSet(P) /\ P # {}
  BY TokenAssumption, FS_Subset
<1>5. Cardinality(P) # 0
  BY <1>4, FS_EmptySet
<1> QED
  BY <1>2, <1>3, <1>5 DEF IsPinned

(* The caller still waits for the request whose read is under way.         *)
LEMMA ReadIsOwed ==
  IInv => \A m \in Mf : extra_mf_fields[m] # NoExtra =>
            /\ extra_mf_fields[m] \in ExtraFields
            /\ InMshr(m) /\ m \in owed /\ InCache(m) /\ req[m] # NoReq
<1> SUFFICES ASSUME IInv, NEW m \in Mf, extra_mf_fields[m] # NoExtra
             PROVE  /\ extra_mf_fields[m] \in ExtraFields
                    /\ InMshr(m) /\ m \in owed /\ InCache(m) /\ req[m] # NoReq
  OBVIOUS
<1> DEFINE k == extra_mf_fields[m].key
<1>1. QueueTypes /\ RequestInv
  BY IInvParts
<1>2. extra_mf_fields[m] \in ExtraFields /\ k \in Key
  BY <1>1 DEF QueueTypes, ExtraFields
<1>3. mshr[k] # <<>> /\ Head(mshr[k]) = m
  BY <1>1 DEF RequestInv, TokensHeld, MshrProbe
<1>4. 1 \in DOMAIN mshr[k] /\ mshr[k][1] = m
  BY <1>1, <1>2, <1>3, TailElements DEF QueueTypes
<1> QED
  BY <1>1, <1>2, <1>4 DEF InMshr, InCache, RequestInv, OwedExactlyOnce, TokensHeld

(* A token that is recorded against a line carries its request.            *)
LEMMA IndexIsOwed ==
  IInv => \A m \in Mf : pending_response_indices[m] # NoLine =>
            m \in owed /\ InCache(m) /\ req[m] # NoReq
BY IInvParts DEF RequestInv, TokensHeld, InCache

(* All three hold after a step too.                                        *)
LEMMA IndexPinsNext ==
  IInv' => \A m \in Mf : pending_response_indices'[m] # NoLine =>
             /\ pending_response_indices'[m] \in Line
             /\ IsPinned(lines'[pending_response_indices'[m]])
<1>1. (IInv => \A m \in Mf : pending_response_indices[m] # NoLine =>
            /\ pending_response_indices[m] \in Line
            /\ IsPinned(lines[pending_response_indices[m]]))'
  BY IndexPins, PTL
<1> QED
  BY <1>1 DEF IsPinned

LEMMA IndexIsOwedNext ==
  IInv' => \A m \in Mf : pending_response_indices'[m] # NoLine =>
             m \in owed' /\ InCache(m)' /\ req'[m] # NoReq
<1>1. (IInv => \A m \in Mf : pending_response_indices[m] # NoLine =>
                m \in owed /\ InCache(m) /\ req[m] # NoReq)'
  BY IndexIsOwed, PTL
<1> QED
  BY <1>1

LEMMA ReadIsOwedNext ==
  IInv' => \A m \in Mf : extra_mf_fields'[m] # NoExtra =>
             /\ extra_mf_fields'[m] \in ExtraFields
             /\ m \in owed' /\ InCache(m)' /\ req'[m] # NoReq
<1>1. (IInv => \A m \in Mf : extra_mf_fields[m] # NoExtra =>
            /\ extra_mf_fields[m] \in ExtraFields
            /\ InMshr(m) /\ m \in owed /\ InCache(m) /\ req[m] # NoReq)'
  BY ReadIsOwed, PTL
<1> QED
  BY <1>1

-----------------------------------------------------------------------------
(* Accesses, as far as blocks and books go *)

(* The access of r by m finds the line of p and leaves it with a block     *)
(* that TagAccess says; it records m against the line or does not, and the *)
(* same for the read it sends.                                             *)
Records(m, r, p) ==
  /\ pending_response_indices' \in
       {pending_response_indices, IndexIfDeferred(m, p.idx)}
  /\ \/ extra_mf_fields' = extra_mf_fields
     \/ /\ pending_response_indices' = IndexIfDeferred(m, p.idx)
        /\ \E n \in Nat : extra_mf_fields' =
             [extra_mf_fields EXCEPT ![m] =
                [key |-> KeyOf(r), idx |-> p.idx, pending_read |-> n]]

Touches(m, r, p) ==
  /\ p.st # "RESERVATION_FAIL"
  /\ \E new \in CacheBlockT :
       /\ lines' = [lines EXCEPT ![p.idx] = new]
       /\ new.tag = TagAccess(p, r.blk, r.sec).line.tag
  /\ Records(m, r, p)
  /\ Accept(m, r) \/ req' = req

LeavesLines(m, r) ==
  /\ UNCHANGED <<lines, extra_mf_fields, pending_response_indices>>
  /\ Accept(m, r)

(* The hits.                                                               *)
LEMMA HitTouches ==
  ASSUME IInv, NEW m \in Mf, NEW r \in Request, NEW wr,
         NEW p \in Probe(r.blk, r.sec, wr), p.st = "HIT",
         \/ RdHitBase(m, r, p) \/ ReadOnlyHit(m, r, p)
         \/ WrHitWriteBack(m, r, p) \/ WrHitWriteThrough(m, r, p)
         \/ WrHitWriteEvict(m, r, p)
  PROVE  Touches(m, r, p)
<1> DEFINE old == lines[p.idx]
<1>1. lines \in [Line -> CacheBlockT] /\ policy \in Config
  BY IInvParts
<1>2. r.blk \in Nat /\ r.sec \in Sector /\ MaskOf(r) \in ByteMask
  BY RequestParts
<1>3. /\ p.idx \in Line /\ old \in CacheBlockT
      /\ TagAccess(p, r.blk, r.sec).line = old
  BY <1>1, <1>2, ProbeFacts DEF TagAccess
<1>4. /\ extra_mf_fields' = extra_mf_fields
      /\ pending_response_indices' = IndexIfDeferred(m, p.idx)
      /\ Accept(m, r)
  BY DEF RdHitBase, ReadOnlyHit, WrHitWriteBack, WrHitWriteThrough, WrHitWriteEvict,
         WriteHitCommon, RespondToHit, missVars
<1>5. PICK new \in CacheBlockT :
        lines' = [lines EXCEPT ![p.idx] = PinIfDeferred(new)] /\ new.tag = old.tag
  <2>1. CASE RdHitBase(m, r, p) \/ ReadOnlyHit(m, r, p)
    BY <1>3, <2>1 DEF RdHitBase, ReadOnlyHit
  <2>2. CASE WrHitWriteBack(m, r, p) \/ WrHitWriteThrough(m, r, p)
    <3>1. lines' = [lines EXCEPT ![p.idx] =
                      PinIfDeferred(UpdateReadable(Written(old, r), r.sec))]
      BY <2>2 DEF WrHitWriteBack, WrHitWriteThrough, WriteHitCommon
    <3> QED
      BY <1>3, <3>1, WrittenFields
  <2>3. CASE WrHitWriteEvict(m, r, p)
    <3>1. lines' = [lines EXCEPT ![p.idx] = PinIfDeferred(SetStatus(old, r.sec, "INVALID"))]
      BY <2>3 DEF WrHitWriteEvict
    <3>2. /\ SetStatus(old, r.sec, "INVALID") \in CacheBlockT
          /\ SetStatus(old, r.sec, "INVALID").tag = old.tag
      BY <1>2, <1>3 DEF SetStatus, CacheBlockT, BlockState
    <3> QED
      BY <3>1, <3>2
  <2> QED
    BY <2>1, <2>2, <2>3
<1>6. PinIfDeferred(new) \in CacheBlockT /\ PinIfDeferred(new).tag = new.tag
  BY PinIfDeferredType, PinsSameBlock DEF SameBlock
<1>7. \E n \in CacheBlockT : lines' = [lines EXCEPT ![p.idx] = n] /\ n.tag = old.tag
  BY <1>5, <1>6
<1> QED
  BY <1>3, <1>4, <1>7 DEF Touches, Records

(* The misses that send a read.                                            *)
LEMMA ReadMissTouches ==
  ASSUME IInv, NEW m \in Mf, NEW r \in Request, NEW wr,
         NEW p \in Probe(r.blk, r.sec, wr),
         \/ RdMissBase(m, r, p) \/ ReadOnlyMiss(m, r, p)
         \/ WrMissNaive(m, r, p) \/ WrMissFetchPartial(m, r, p)
  PROVE  Touches(m, r, p)
<1> DEFINE t == TagAccess(p, r.blk, r.sec)
<1>1. lines \in [Line -> CacheBlockT] /\ policy \in Config
  BY IInvParts
<1>2. r.blk \in Nat /\ r.sec \in Sector
  BY RequestParts
<1>3. p.st # "RESERVATION_FAIL" /\ Accept(m, r)
  BY DEF RdMissBase, ReadOnlyMiss, WrMissNaive, WrMissFetchPartial
<1>4. t.line \in CacheBlockT
  BY <1>1, <1>2, <1>3, TagAccessTag
<1>5. \E before, after : SendReadRequest(m, r, p.idx, before, after)
  BY DEF RdMissBase, ReadOnlyMiss, WrMissNaive, WrMissFetchPartial
<1>6. Records(m, r, p)
  BY <1>5, SizeAssumption DEF SendReadRequest, Records
<1> DEFINE pinned == PinIfDeferred(t.line)
<1>7. lines' \in {[lines EXCEPT ![p.idx] = pinned],
                  [lines EXCEPT ![p.idx] = SetModifiedOnFill(pinned, r.sec)]}
  BY DEF RdMissBase, ReadOnlyMiss, WrMissNaive, WrMissFetchPartial
<1>8. pinned \in CacheBlockT /\ pinned.tag = t.line.tag
  BY <1>4, PinIfDeferredType, PinsSameBlock DEF SameBlock
<1> HIDE DEF pinned
<1>9. /\ SetModifiedOnFill(pinned, r.sec) \in CacheBlockT
      /\ SetModifiedOnFill(pinned, r.sec).tag = pinned.tag
  BY <1>2, <1>8 DEF SetModifiedOnFill, CacheBlockT
<1> HIDE DEF t
<1>10. \E new \in CacheBlockT : lines' = [lines EXCEPT ![p.idx] = new] /\ new.tag = t.line.tag
  BY <1>7, <1>8, <1>9
<1> QED
  BY <1>3, <1>6, <1>10 DEF Touches, t

(* The block a lazy write leaves in its sector: modified, with its bytes;  *)
(* where a fill is pending the fill is told to leave the sector modified   *)
(* and readable.                                                           *)
LazyBlock(line, r, pending) ==
  LET marked == IF pending THEN SetModifiedOnFill(Written(line, r), r.sec)
                ELSE Written(line, r)
      told   == IF pending /\ ~FullWrite(r) THEN SetReadableOnFill(marked, r.sec)
                ELSE marked
  IN  UpdateReadable(SetReadable(told, r.sec, FullWrite(r)), r.sec)

LEMMA LazyFields ==
  ASSUME NEW line \in CacheBlockT, NEW r \in Request, NEW pending \in BOOLEAN
  PROVE  LET new == LazyBlock(line, r, pending)
         IN  /\ new \in CacheBlockT
             /\ new.tag = line.tag
             /\ new.status[r.sec] = "MODIFIED"
             /\ \A s \in Sector :
                  line.set_modified_on_fill[s] => new.set_modified_on_fill[s]
             /\ pending => new.set_modified_on_fill[r.sec]
             /\ \A s \in Sector : s # r.sec \/ ~pending =>
                  new.set_modified_on_fill[s] = line.set_modified_on_fill[s]
             /\ \A s \in Sector \ {r.sec} :
                  /\ new.status[s] = line.status[s]
                  /\ new.readable[s] = line.readable[s]
                  /\ new.set_readable_on_fill[s] = line.set_readable_on_fill[s]
             /\ pending => new.readable[r.sec] \/ new.set_readable_on_fill[r.sec]
             /\ new.dirty_byte_mask = line.dirty_byte_mask \cup MaskOf(r)
<1> DEFINE w == Written(line, r)
           a == IF pending THEN SetModifiedOnFill(w, r.sec) ELSE w
           b == IF pending /\ ~FullWrite(r) THEN SetReadableOnFill(a, r.sec) ELSE a
           c == SetReadable(b, r.sec, FullWrite(r))
           new == LazyBlock(line, r, pending)
<1>0. r.sec \in Sector /\ MaskOf(r) \in ByteMask /\ FullWrite(r) \in BOOLEAN
  BY RequestParts DEF FullWrite
<1>1. /\ w \in CacheBlockT
      /\ w.tag = line.tag
      /\ w.status = [line.status EXCEPT ![r.sec] = "MODIFIED"]
      /\ w.set_modified_on_fill = line.set_modified_on_fill
      /\ w.set_readable_on_fill = line.set_readable_on_fill
      /\ w.readable = line.readable
      /\ w.dirty_byte_mask = line.dirty_byte_mask \cup MaskOf(r)
  BY <1>0, WrittenType DEF Written, SetStatus, SetByteMask, CacheBlockT
<1> HIDE DEF w
<1>2. /\ a \in CacheBlockT
      /\ a.tag = w.tag /\ a.status = w.status /\ a.readable = w.readable
      /\ a.set_readable_on_fill = w.set_readable_on_fill
      /\ a.dirty_byte_mask = w.dirty_byte_mask
      /\ a.set_modified_on_fill =
           IF pending THEN [w.set_modified_on_fill EXCEPT ![r.sec] = TRUE]
           ELSE w.set_modified_on_fill
  BY <1>0, <1>1 DEF SetModifiedOnFill, CacheBlockT
<1> HIDE DEF a
<1>3. /\ b \in CacheBlockT
      /\ b.tag = a.tag /\ b.status = a.status /\ b.readable = a.readable
      /\ b.set_modified_on_fill = a.set_modified_on_fill
      /\ b.dirty_byte_mask = a.dirty_byte_mask
      /\ \A s \in Sector \ {r.sec} : b.set_readable_on_fill[s] = a.set_readable_on_fill[s]
      /\ pending /\ ~FullWrite(r) => b.set_readable_on_fill[r.sec]
  BY <1>0, <1>2 DEF SetReadableOnFill, CacheBlockT
<1> HIDE DEF b
<1>4. /\ c \in CacheBlockT
      /\ c.tag = b.tag /\ c.status = b.status
      /\ c.set_modified_on_fill = b.set_modified_on_fill
      /\ c.set_readable_on_fill = b.set_readable_on_fill
      /\ c.dirty_byte_mask = b.dirty_byte_mask
      /\ \A s \in Sector \ {r.sec} : c.readable[s] = b.readable[s]
      /\ c.readable[r.sec] = FullWrite(r)
  BY <1>0, <1>3 DEF SetReadable, CacheBlockT
<1>5. new = UpdateReadable(c, r.sec)
  BY DEF LazyBlock, w, a, b
<1> HIDE DEF c, new
<1>6. /\ new \in CacheBlockT
      /\ new.tag = c.tag /\ new.status = c.status
      /\ new.set_modified_on_fill = c.set_modified_on_fill
      /\ new.set_readable_on_fill = c.set_readable_on_fill
      /\ new.dirty_byte_mask = c.dirty_byte_mask
      /\ \A s \in Sector \ {r.sec} : new.readable[s] = c.readable[s]
      /\ new.readable[r.sec] = TRUE \/ new.readable[r.sec] = c.readable[r.sec]
  BY <1>0, <1>4, <1>5 DEF UpdateReadable, SetReadable, CacheBlockT
<1>7. \A s \in Sector \ {r.sec} :
         /\ new.readable[s] = line.readable[s]
         /\ new.set_readable_on_fill[s] = line.set_readable_on_fill[s]
  BY <1>1, <1>2, <1>3, <1>4, <1>6
<1>8. pending => new.readable[r.sec] \/ new.set_readable_on_fill[r.sec]
  BY <1>3, <1>4, <1>6
<1>9. /\ \A s \in Sector : line.set_modified_on_fill[s] => new.set_modified_on_fill[s]
      /\ pending => new.set_modified_on_fill[r.sec]
      /\ \A s \in Sector : s # r.sec \/ ~pending =>
           new.set_modified_on_fill[s] = line.set_modified_on_fill[s]
  <2>1. new.set_modified_on_fill =
          IF pending THEN [line.set_modified_on_fill EXCEPT ![r.sec] = TRUE]
          ELSE line.set_modified_on_fill
    BY <1>1, <1>2, <1>3, <1>4, <1>6
  <2> QED
    BY <1>0, <2>1 DEF CacheBlockT
<1>10. /\ new.tag = line.tag
       /\ new.status[r.sec] = "MODIFIED"
       /\ \A s \in Sector \ {r.sec} : new.status[s] = line.status[s]
       /\ new.dirty_byte_mask = line.dirty_byte_mask \cup MaskOf(r)
  BY <1>0, <1>1, <1>2, <1>3, <1>4, <1>6 DEF CacheBlockT
<1> QED
  BY <1>6, <1>7, <1>8, <1>9, <1>10 DEF new

(* The writes that miss and wait for nothing.                              *)
LEMMA WriteMissTouches ==
  ASSUME IInv, NEW m \in Mf, NEW r \in Request, NEW wr,
         NEW p \in Probe(r.blk, r.sec, wr),
         WrMissFetchFull(m, r, p) \/ WrMissLazyFetch(m, r, p)
  PROVE  Touches(m, r, p)
<1> DEFINE t == TagAccess(p, r.blk, r.sec)
           new == IF WrMissFetchFull(m, r, p) THEN Written(t.line, r)
                  ELSE LazyBlock(t.line, r, p.st = "HIT_RESERVED")
<1>1. lines \in [Line -> CacheBlockT] /\ policy \in Config
  BY IInvParts
<1>2. r.blk \in Nat /\ r.sec \in Sector
  BY RequestParts
<1>3. /\ p.st # "RESERVATION_FAIL"
      /\ Accept(m, r) \/ req' = req
      /\ extra_mf_fields' = extra_mf_fields
      /\ pending_response_indices' = pending_response_indices
  BY DEF WrMissFetchFull, WrMissLazyFetch
<1>4. t.line \in CacheBlockT
  BY <1>1, <1>2, <1>3, TagAccessTag
<1>5. lines' = [lines EXCEPT ![p.idx] = new]
  <2>1. CASE WrMissFetchFull(m, r, p)
    BY <2>1 DEF WrMissFetchFull
  <2>2. CASE ~WrMissFetchFull(m, r, p)
    <3>1. (~(~FullWrite(r))) = FullWrite(r)
      BY DEF FullWrite
    <3>2. WrMissLazyFetch(m, r, p)
      BY <2>2
    <3>3. lines' = [lines EXCEPT ![p.idx] = LazyBlock(t.line, r, p.st = "HIT_RESERVED")]
      BY <3>1, <3>2 DEF WrMissLazyFetch, LazyBlock
    <3> QED
      BY <2>2, <3>3
  <2> QED
    BY <2>1, <2>2
<1>6. Written(t.line, r) \in CacheBlockT /\ Written(t.line, r).tag = t.line.tag
  BY <1>2, <1>4, WrittenType DEF Written, SetStatus, SetByteMask, CacheBlockT
<1>7. /\ LazyBlock(t.line, r, p.st = "HIT_RESERVED") \in CacheBlockT
      /\ LazyBlock(t.line, r, p.st = "HIT_RESERVED").tag = t.line.tag
  <2>1. \A q \in BOOLEAN : /\ LazyBlock(t.line, r, q) \in CacheBlockT
                           /\ LazyBlock(t.line, r, q).tag = t.line.tag
    BY <1>4, LazyFields
  <2>2. (p.st = "HIT_RESERVED") \in BOOLEAN
    OBVIOUS
  <2> QED
    BY <2>1, <2>2
<1> HIDE DEF t
<1>8. new \in CacheBlockT /\ new.tag = t.line.tag
  BY <1>6, <1>7
<1> HIDE DEF new
<1> QED
  BY <1>3, <1>5, <1>8 DEF Touches, Records, t

(* Every accepted access.                                                  *)
LEMMA AccessTouches ==
  ASSUME IInv, NEW m \in Mf, NEW r \in Issuable,
         ReadOnlyAccess(m, r) \/ DataAccess(m, r)
  PROVE  /\ r \in Request /\ FreeMf(m) /\ policy' = policy
         /\ \/ LeavesLines(m, r)
            \/ \E wr : \E p \in Probe(r.blk, r.sec, wr) : Touches(m, r, p)
<1>1. r \in Request /\ FreeMf(m)
  BY RequestAssumption DEF Issuable, ReadOnlyAccess, DataAccess
<1>2. CASE ReadOnlyAccess(m, r)
  <2>1. PICK p \in Probe(r.blk, r.sec, FALSE) :
          ReadOnlyHit(m, r, p) \/ ReadOnlyMiss(m, r, p)
    BY <1>2 DEF ReadOnlyAccess
  <2>2. policy' = policy /\ (ReadOnlyHit(m, r, p) => p.st = "HIT")
    BY <2>1 DEF ReadOnlyHit, ReadOnlyMiss
  <2> QED
    BY <1>1, <2>1, <2>2, HitTouches, ReadMissTouches
<1>3. CASE DataAccess(m, r)
  <2>1. PICK p \in Probe(r.blk, r.sec, r.wr) :
          IF r.wr THEN WriteAccess(m, r, p) ELSE ReadAccess(m, r, p)
    BY <1>3 DEF DataAccess
  <2>2. CASE /\ p.st = "HIT"
             /\ \/ RdHitBase(m, r, p) \/ WrHitWriteBack(m, r, p)
                \/ WrHitWriteThrough(m, r, p) \/ WrHitWriteEvict(m, r, p)
    <3>1. policy' = policy
      BY <2>2 DEF RdHitBase, WrHitWriteBack, WrHitWriteThrough, WrHitWriteEvict
    <3> QED
      BY <1>1, <2>2, <3>1, HitTouches
  <2>3. CASE RdMissBase(m, r, p) \/ WrMissNaive(m, r, p) \/ WrMissFetchPartial(m, r, p)
    <3>1. policy' = policy
      BY <2>3 DEF RdMissBase, WrMissNaive, WrMissFetchPartial
    <3> QED
      BY <1>1, <2>3, <3>1, ReadMissTouches
  <2>4. CASE WrMissFetchFull(m, r, p) \/ WrMissLazyFetch(m, r, p)
    <3>1. policy' = policy
      BY <2>4 DEF WrMissFetchFull, WrMissLazyFetch
    <3> QED
      BY <1>1, <2>4, <3>1, WriteMissTouches
  <2>5. CASE WrMissNoAllocate(m, r, p)
    BY <1>1, <2>5 DEF WrMissNoAllocate, LeavesLines, tagVars
  <2> QED
    BY <2>1, <2>2, <2>3, <2>4, <2>5 DEF WriteAccess, ReadAccess
<1> QED
  BY <1>2, <1>3

-----------------------------------------------------------------------------
(* What a step keeps *)

(* A pinned line keeps its block; the books on a token of M only shrink.   *)
Keeps(M) ==
  /\ policy' = policy
  /\ \A i \in Line : IsPinned(lines[i]) => lines'[i].tag = lines[i].tag
  /\ \A x \in M :
       /\ InCache(x)' => req'[x] = req[x]
       /\ pending_response_indices'[x] \in {pending_response_indices[x], NoLine}
       /\ x \in owed' => pending_response_indices'[x] = pending_response_indices[x]
       /\ extra_mf_fields'[x] # NoExtra =>
            /\ extra_mf_fields[x] # NoExtra
            /\ extra_mf_fields'[x].key = extra_mf_fields[x].key
            /\ extra_mf_fields'[x].idx = extra_mf_fields[x].idx

(* An access concerns its own token alone.                                 *)
LEMMA AccessKeeps ==
  ASSUME IInv, NEW m \in Mf, NEW r \in Issuable,
         ReadOnlyAccess(m, r) \/ DataAccess(m, r)
  PROVE  Keeps(Mf \ {m})
<1>1. /\ r \in Request /\ FreeMf(m) /\ policy' = policy
      /\ \/ LeavesLines(m, r)
         \/ \E wr : \E p \in Probe(r.blk, r.sec, wr) : Touches(m, r, p)
  BY AccessTouches
<1>2. /\ lines \in [Line -> CacheBlockT] /\ policy \in Config
      /\ pending_response_indices \in [Mf -> Line \cup {NoLine}]
      /\ extra_mf_fields \in [Mf -> ExtraFields \cup {NoExtra}]
  BY IInvParts DEF QueueTypes
<1>3. r.blk \in Nat /\ r.sec \in Sector
  BY <1>1, RequestParts
<1>4. Accept(m, r) \/ req' = req
  BY <1>1 DEF LeavesLines, Touches
<1>5. \A x \in Mf \ {m} : InCache(x)' => req'[x] = req[x]
  BY <1>4 DEF Accept
<1>6. CASE LeavesLines(m, r)
  BY <1>1, <1>5, <1>6 DEF LeavesLines, Keeps
<1>7. CASE \E wr : \E p \in Probe(r.blk, r.sec, wr) : Touches(m, r, p)
  <2>1. PICK wr : \E p \in Probe(r.blk, r.sec, wr) : Touches(m, r, p)
    BY <1>7
  <2>2. PICK p \in Probe(r.blk, r.sec, wr) : Touches(m, r, p)
    BY <2>1
  <2>3. PICK new \in CacheBlockT :
          /\ lines' = [lines EXCEPT ![p.idx] = new]
          /\ new.tag = TagAccess(p, r.blk, r.sec).line.tag
    BY <2>2 DEF Touches
  <2>4. p.st # "RESERVATION_FAIL" /\ Records(m, r, p)
    BY <2>2 DEF Touches
  <2>5. /\ p.idx \in Line
        /\ p.st = "MISS" => ~IsPinned(lines[p.idx])
        /\ p.st # "MISS" => new.tag = lines[p.idx].tag
    BY <1>2, <1>3, <2>3, <2>4, TagAccessTag
  <2>6. \A i \in Line : IsPinned(lines[i]) => lines'[i].tag = lines[i].tag
    BY <1>2, <2>3, <2>5
  <2>7. \A x \in Mf \ {m} : /\ pending_response_indices'[x] = pending_response_indices[x]
                           /\ extra_mf_fields'[x] = extra_mf_fields[x]
    BY <1>2, <2>4 DEF Records, IndexIfDeferred
  <2> QED
    BY <1>1, <1>5, <2>6, <2>7 DEF Keeps
<1> QED
  BY <1>1, <1>6, <1>7

(* fill by index never changes a tag, and the line that fill by address    *)
(* takes for a miss has no pins.                                           *)
LEMMA FillKeepsTags ==
  ASSUME lines \in [Line -> CacheBlockT], policy \in Config,
         NEW b \in Nat, NEW s \in Sector, NEW wr, NEW mask \in ByteMask,
         \/ \E i \in Line : FillByIndex(i, s, mask)
         \/ FillByAddress(b, s, wr, mask)
  PROVE  \A i \in Line : IsPinned(lines[i]) => lines'[i].tag = lines[i].tag
<1>1. CASE \E i \in Line : FillByIndex(i, s, mask)
  <2>1. PICK i \in Line : lines' = [lines EXCEPT ![i] = FillBlock(policy.type, lines[i], s, mask)]
    BY <1>1 DEF FillByIndex
  <2>2. FillBlock(policy.type, lines[i], s, mask).tag = lines[i].tag
    BY DEF FillBlock, CacheBlockT
  <2> QED
    BY <2>1, <2>2
<1>2. CASE FillByAddress(b, s, wr, mask)
  <2>1. PICK p \in Probe(b, s, wr) :
          IF p.st = "RESERVATION_FAIL"
          THEN UNCHANGED <<lines, dirty>>
          ELSE LET old  == lines[p.idx]
                   here == CASE p.st = "MISS" -> Allocate(policy.type, old, b, s)
                             [] p.st = "SECTOR_MISS" -> AllocateSector(old, s)
                             [] OTHER -> old
                   new  == FillBlock(policy.type, here, s, mask)
               IN  /\ lines' = [lines EXCEPT ![p.idx] = new]
                   /\ dirty' = DirtyAfter(DirtyLeft(old, here), here, new)
    BY <1>2 DEF FillByAddress
  <2>2. CASE p.st \in {"MISS", "RESERVATION_FAIL"}
    <3>1. p.st = "MISS" => p.idx \in Line /\ ~IsPinned(lines[p.idx])
      BY ProbeFacts DEF Replaceable
    <3>2. lines' = lines \/ (p.st = "MISS" /\ \E new : lines' = [lines EXCEPT ![p.idx] = new])
      BY <2>1, <2>2
    <3> QED
      BY <3>1, <3>2
  <2>3. CASE p.st \notin {"MISS", "RESERVATION_FAIL"}
    <3> DEFINE old  == lines[p.idx]
               here == IF p.st = "SECTOR_MISS" THEN AllocateSector(old, s) ELSE old
               new  == FillBlock(policy.type, here, s, mask)
    <3>1. p.idx \in Line /\ old \in CacheBlockT
      BY <2>3, ProbeFacts
    <3>2. lines' = [lines EXCEPT ![p.idx] = new]
      BY <2>1, <2>3
    <3>3. here \in CacheBlockT /\ here.tag = old.tag
      <4>1. AllocateSector(old, s) \in CacheBlockT
        BY <3>1, AllocateSectorType
      <4>2. AllocateSector(old, s).tag = old.tag
        BY <3>1 DEF AllocateSector, CacheBlockT
      <4> QED
        BY <3>1, <4>1, <4>2
    <3>4. new.tag = here.tag
      <4> HIDE DEF here
      <4> QED
        BY <3>3 DEF FillBlock, CacheBlockT
    <3> HIDE DEF new, here
    <3> QED
      BY <3>1, <3>2, <3>3, <3>4
  <2> QED
    BY <2>2, <2>3
<1> QED
  BY <1>1, <1>2

(* cycle and the calls of next_access forget the tokens they let go.       *)
LEMMA ReturnKeeps ==
  ASSUME IInv, (\E portFull : Cycle(portFull)) \/ NextReadyHit \/ NextMshrAccess
  PROVE  Keeps(Mf)
<1>1. /\ lines \in [Line -> CacheBlockT]
      /\ pending_response_indices \in [Mf -> Line \cup {NoLine}]
  BY IInvParts DEF QueueTypes
<1>2. policy' = policy /\ extra_mf_fields' = extra_mf_fields /\ Forget
  BY DEF Cycle, NextReadyHit, NextMshrAccess, missVars
<1>3. \A x \in Mf : InCache(x)' => req'[x] = req[x]
  BY <1>2 DEF Forget
<1>4. CASE \E portFull : Cycle(portFull)
  BY <1>2, <1>3, <1>4 DEF Cycle, tagVars, Keeps
<1>5. CASE NextReadyHit \/ NextMshrAccess
  <2>1. PICK m : UnpinResponse(m) /\ owed' = owed \ {m}
    BY <1>5 DEF NextReadyHit, NextMshrAccess
  <2>2. \A x \in Mf :
          /\ pending_response_indices'[x] \in {pending_response_indices[x], NoLine}
          /\ x \in owed' => pending_response_indices'[x] = pending_response_indices[x]
    BY <1>1, <2>1 DEF UnpinResponse, IndexErased
  <2>3. \A i \in Line : lines'[i].tag = lines[i].tag
    <3>1. \A i \in Line : Unpin(lines[i]).tag = lines[i].tag
      BY <1>1, PinsSameBlock DEF SameBlock
    <3>2. \A i \in Line : lines'[i] \in {lines[i], Unpin(lines[i])}
      BY <1>1, <2>1 DEF UnpinResponse
    <3> QED
      BY <3>1, <3>2
  <2> QED
    BY <1>2, <1>3, <2>2, <2>3 DEF Keeps
<1> QED
  BY <1>4, <1>5

(* A fill closes the book on its read and changes no tag that is in use.   *)
LEMMA FillKeeps ==
  ASSUME IInv, NEW m \in Mf, FillChunk(m) \/ Fill(m)
  PROVE  Keeps(Mf)
<1>1. /\ lines \in [Line -> CacheBlockT] /\ policy \in Config
      /\ pending_response_indices \in [Mf -> Line \cup {NoLine}]
      /\ extra_mf_fields \in [Mf -> ExtraFields \cup {NoExtra}]
      /\ req \in [Mf -> Request \cup {NoReq}]
  BY IInvParts DEF QueueTypes
<1>2. /\ policy' = policy /\ req' = req
      /\ pending_response_indices' = pending_response_indices
  BY DEF FillChunk, Fill
<1>3. CASE FillChunk(m)
  <2>1. /\ lines' = lines /\ extra_mf_fields[m] # NoExtra
        /\ extra_mf_fields' =
             [extra_mf_fields EXCEPT ![m].pending_read = @ - 1]
    BY <1>3 DEF FillChunk, InMemory, tagVars
  <2>2. extra_mf_fields[m] \in ExtraFields
    BY <1>1, <2>1
  <2>3. \A x \in Mf : extra_mf_fields'[x] # NoExtra =>
          /\ extra_mf_fields[x] # NoExtra
          /\ extra_mf_fields'[x].key = extra_mf_fields[x].key
          /\ extra_mf_fields'[x].idx = extra_mf_fields[x].idx
    BY <1>1, <2>1, <2>2 DEF ExtraFields
  <2> QED
    BY <1>2, <2>1, <2>3 DEF Keeps
<1>4. CASE Fill(m)
  <2> DEFINE e == extra_mf_fields[m]
  <2>1. /\ e # NoExtra
        /\ extra_mf_fields' = [extra_mf_fields EXCEPT ![m] = NoExtra]
        /\ IF policy.alloc = "ON_MISS"
           THEN FillByIndex(e.idx, e.key[2], MaskOf(req[m]))
           ELSE FillByAddress(e.key[1], e.key[2], FALSE, MaskOf(req[m]))
    BY <1>4 DEF Fill, InMemory
  <2>2. e \in ExtraFields /\ InCache(m)
    BY <2>1, ReadIsOwed
  <2>3. e.idx \in Line /\ e.key[1] \in Nat /\ e.key[2] \in Sector
    BY <2>2, AddressAssumption DEF ExtraFields, Key
  <2>4. MaskOf(req[m]) \in ByteMask
    BY <1>1, <2>2, IInvParts, RequestParts DEF RequestInv, TokensHeld
  <2>5. \A i \in Line : IsPinned(lines[i]) => lines'[i].tag = lines[i].tag
    BY <1>1, <2>1, <2>3, <2>4, FillKeepsTags
  <2>6. \A x \in Mf : extra_mf_fields'[x] # NoExtra =>
          extra_mf_fields'[x] = extra_mf_fields[x]
    BY <1>1, <2>1
  <2> QED
    BY <1>2, <2>5, <2>6 DEF Keeps
<1> QED
  BY <1>3, <1>4

(* flush and invalidate keep all tags, force_tag_access those of pinned    *)
(* lines.                                                                  *)
LEMMA MaintenanceKeeps ==
  ASSUME IInv, Flush \/ Invalidate \/ ForceTagAccess \/ StopIssuing
  PROVE  Keeps(Mf)
<1>1. lines \in [Line -> CacheBlockT] /\ policy \in Config
  BY IInvParts
<1>2. /\ policy' = policy /\ req' = req
      /\ pending_response_indices' = pending_response_indices
      /\ extra_mf_fields' = extra_mf_fields
  BY DEF Flush, Invalidate, ForceTagAccess, StopIssuing, missVars
<1>3. \A i \in Line : IsPinned(lines[i]) => lines'[i].tag = lines[i].tag
  <2>1. CASE Flush \/ Invalidate
    <3>1. \A i \in Line : InvalidateLine(lines[i]).tag = lines[i].tag
      BY <1>1 DEF InvalidateLine, CacheBlockT
    <3>2. \A i \in Line : lines'[i] \in {lines[i], InvalidateLine(lines[i])}
      BY <2>1 DEF Flush, Invalidate, FlushTags, InvalidateTags
    <3> QED
      BY <3>1, <3>2
  <2>2. CASE ForceTagAccess
    <3>1. PICK b \in Blk, s \in SectorsUsed : FillByAddress(b, s, TRUE, {})
      BY <2>2 DEF ForceTagAccess
    <3>2. b \in Nat /\ s \in Sector /\ {} \in ByteMask
      BY AddressAssumption DEF SectorsUsed, ByteMask
    <3> QED
      BY <1>1, <3>1, <3>2, FillKeepsTags
  <2>3. CASE StopIssuing
    BY <2>3 DEF StopIssuing, tagVars
  <2> QED
    BY <2>1, <2>2, <2>3
<1> QED
  BY <1>2, <1>3 DEF Keeps

(* Every step but an access keeps the books of all tokens.                 *)
LEMMA OtherKeeps ==
  ASSUME IInv, [Next]_vars
  PROVE  \/ \E m \in Mf, r \in Issuable : ReadOnlyAccess(m, r) \/ DataAccess(m, r)
         \/ Keeps(Mf)
<1>1. CASE UNCHANGED vars
  BY <1>1 DEF vars, tagVars, missVars, Keeps
<1>2. CASE BaselineNext
  <2>1. CASE (\E portFull : Cycle(portFull)) \/ NextReadyHit \/ NextMshrAccess
    BY <2>1, ReturnKeeps
  <2>2. CASE \E m \in Mf : FillChunk(m) \/ Fill(m)
    BY <2>2, FillKeeps
  <2>3. CASE Flush \/ Invalidate \/ ForceTagAccess \/ StopIssuing
    BY <2>3, MaintenanceKeeps
  <2> QED
    BY <1>2, <2>1, <2>2, <2>3 DEF BaselineNext
<1> QED
  BY <1>1, <1>2 DEF Next

-----------------------------------------------------------------------------
(* The line of a request *)

(* The line that m is recorded against holds its block, and the read of m  *)
(* is that of its request, to be filled into the line m is recorded        *)
(* against.                                                                *)
LineOf(m) ==
  /\ policy.alloc = "ON_MISS" /\ pending_response_indices[m] # NoLine =>
       lines[pending_response_indices[m]].tag = req[m].blk
  /\ extra_mf_fields[m] # NoExtra =>
       /\ extra_mf_fields[m].key = KeyOf(req[m])
       /\ policy.defer => pending_response_indices[m] = extra_mf_fields[m].idx

LInv == \A m \in Mf : LineOf(m)

(* A step that keeps the books of m keeps its line: the line is pinned.    *)
LEMMA LineKept ==
  ASSUME IInv, IInv', NEW M \in SUBSET Mf, Keeps(M), NEW m \in M, LineOf(m)
  PROVE  LineOf(m)'
<1>1. m \in Mf
  OBVIOUS
<1>2. pending_response_indices'[m] # NoLine =>
        /\ pending_response_indices'[m] = pending_response_indices[m]
        /\ lines'[pending_response_indices[m]].tag = lines[pending_response_indices[m]].tag
  BY <1>1, IndexPins DEF Keeps
<1>3. pending_response_indices'[m] # NoLine => req'[m] = req[m]
  BY <1>1, IndexIsOwedNext DEF Keeps
<1>4. extra_mf_fields'[m] # NoExtra =>
        /\ req'[m] = req[m]
        /\ pending_response_indices'[m] = pending_response_indices[m]
  BY <1>1, ReadIsOwedNext DEF Keeps
<1>5. policy' = policy
  BY DEF Keeps
<1>6. (policy.alloc = "ON_MISS" /\ pending_response_indices[m] # NoLine =>
         lines[pending_response_indices[m]].tag = req[m].blk)'
  BY <1>2, <1>3, <1>5 DEF LineOf
<1>7. (extra_mf_fields[m] # NoExtra =>
         /\ extra_mf_fields[m].key = KeyOf(req[m])
         /\ policy.defer => pending_response_indices[m] = extra_mf_fields[m].idx)'
  BY <1>4, <1>5 DEF LineOf, Keeps, KeyOf
<1> QED
  BY <1>6, <1>7 DEF LineOf

(* An access leaves its token on a line that has become the block's.       *)
LEMMA AccessLine ==
  ASSUME IInv, IInv', NEW m \in Mf, NEW r \in Issuable,
         ReadOnlyAccess(m, r) \/ DataAccess(m, r)
  PROVE  LineOf(m)'
<1>1. /\ r \in Request /\ FreeMf(m) /\ policy' = policy
      /\ \/ LeavesLines(m, r)
         \/ \E wr : \E p \in Probe(r.blk, r.sec, wr) : Touches(m, r, p)
  BY AccessTouches
<1>2. /\ lines \in [Line -> CacheBlockT] /\ policy \in Config
      /\ pending_response_indices \in [Mf -> Line \cup {NoLine}]
      /\ extra_mf_fields \in [Mf -> ExtraFields \cup {NoExtra}]
  BY IInvParts DEF QueueTypes
<1>3. pending_response_indices[m] = NoLine /\ extra_mf_fields[m] = NoExtra
  BY <1>1, IndexIsOwed, ReadIsOwed, IInvParts DEF FreeMf, RequestInv, TokensHeld
<1>4. /\ pending_response_indices'[m] # NoLine => InCache(m)' /\ req'[m] # NoReq
      /\ extra_mf_fields'[m] # NoExtra => InCache(m)' /\ req'[m] # NoReq
  BY IndexIsOwedNext, ReadIsOwedNext
<1>5. CASE LeavesLines(m, r)
  BY <1>3, <1>5 DEF LeavesLines, LineOf
<1>6. CASE \E wr : \E p \in Probe(r.blk, r.sec, wr) : Touches(m, r, p)
  <2>1. PICK wr : \E p \in Probe(r.blk, r.sec, wr) : Touches(m, r, p)
    BY <1>6
  <2>2. PICK p \in Probe(r.blk, r.sec, wr) : Touches(m, r, p)
    BY <2>1
  <2>3. PICK new \in CacheBlockT :
          /\ lines' = [lines EXCEPT ![p.idx] = new]
          /\ new.tag = TagAccess(p, r.blk, r.sec).line.tag
    BY <2>2 DEF Touches
  <2>4. p.st # "RESERVATION_FAIL" /\ Records(m, r, p) /\ (Accept(m, r) \/ req' = req)
    BY <2>2 DEF Touches
  <2>5. p.idx \in Line /\ (policy.alloc = "ON_MISS" => new.tag = r.blk)
    BY <1>1, <1>2, <2>3, <2>4, RequestParts, TagAccessTag
  <2>6. lines'[p.idx].tag = new.tag
    BY <1>2, <2>3, <2>5
  <2>7. InCache(m)' /\ req'[m] # NoReq => req'[m] = r
    BY <1>1, <2>4 DEF Accept, FreeMf
  <2>8. pending_response_indices'[m] # NoLine => pending_response_indices'[m] = p.idx
    BY <1>2, <1>3, <2>4 DEF Records, IndexIfDeferred
  <2>9. extra_mf_fields'[m] # NoExtra =>
          /\ extra_mf_fields'[m].key = KeyOf(r)
          /\ policy.defer => pending_response_indices'[m] = extra_mf_fields'[m].idx
    <3>1. CASE extra_mf_fields' = extra_mf_fields
      BY <1>3, <3>1
    <3>2. CASE pending_response_indices' = IndexIfDeferred(m, p.idx) /\
               \E n \in Nat : extra_mf_fields' =
                 [extra_mf_fields EXCEPT ![m] =
                    [key |-> KeyOf(r), idx |-> p.idx, pending_read |-> n]]
      <4>1. extra_mf_fields'[m].key = KeyOf(r) /\ extra_mf_fields'[m].idx = p.idx
        BY <1>2, <3>2
      <4>2. policy.defer => pending_response_indices'[m] = p.idx
        BY <1>2, <3>2 DEF IndexIfDeferred
      <4> QED
        BY <4>1, <4>2
    <3> QED
      BY <2>4, <3>1, <3>2 DEF Records
  <2> QED
    BY <1>1, <1>4, <2>5, <2>6, <2>7, <2>8, <2>9 DEF LineOf, KeyOf
<1> QED
  BY <1>1, <1>5, <1>6

LEMMA LineStepHolds ==
  ASSUME IInv, LInv, [Next]_vars
  PROVE  LInv'
<1>1. IInv'
  BY NextStep
<1>2. ASSUME Keeps(Mf) PROVE LInv'
  BY <1>1, <1>2, LineKept DEF LInv
<1>3. ASSUME NEW m \in Mf, NEW r \in Issuable, ReadOnlyAccess(m, r) \/ DataAccess(m, r)
      PROVE  LInv'
  <2>1. LineOf(m)'
    BY <1>1, <1>3, AccessLine
  <2>2. Keeps(Mf \ {m})
    BY <1>3, AccessKeeps
  <2>3. \A x \in Mf \ {m} : LineOf(x)'
    BY <1>1, <2>2, LineKept DEF LInv
  <2> QED
    BY <2>1, <2>3 DEF LInv
<1> QED
  BY <1>2, <1>3, OtherKeeps

(* Whatever the configuration and whichever of flush, invalidate and       *)
(* force_tag_access are called: the books and the lines agree.             *)
THEOREM LineInvariance == Spec => [](IInv /\ LInv)
<1>1. Init => IInv /\ LInv
  <2>1. Init => LInv
    BY DEF Init, LInv, LineOf
  <2> QED
    BY <2>1, InitStep
<1>2. (IInv /\ LInv) /\ [Next]_vars => (IInv /\ LInv)'
  BY NextStep, LineStepHolds
<1> QED
  BY <1>1, <1>2, PTL DEF Spec

(* Until next_access returns a request its line holds the block it asked   *)
(* for: a response never comes from a line that was given away.            *)
THEOREM ResponseLine == Spec => []ResponseLineHolds
<1>1. IInv /\ LInv => ResponseLineHolds
  BY DEF LInv, LineOf, ResponseLineHolds
<1> QED
  BY <1>1, LineInvariance, PTL

(* Where the responses to hits are deferred, the pin of the request that   *)
(* sent a read keeps the line of the read too: fill by index finds its     *)
(* block, whatever maintenance calls come before it.                       *)
THEOREM FillLine == Spec => [](policy.defer => FillFindsItsLine)
<1>1. IInv /\ LInv => (policy.defer => FillFindsItsLine)
  <2> SUFFICES ASSUME IInv, LInv, policy.defer, policy.alloc = "ON_MISS",
                      NEW m \in Mf, extra_mf_fields[m] # NoExtra
               PROVE  lines[extra_mf_fields[m].idx].tag = extra_mf_fields[m].key[1]
    BY DEF FillFindsItsLine
  <2>1. extra_mf_fields[m] \in ExtraFields
    BY ReadIsOwed
  <2>2. /\ pending_response_indices[m] = extra_mf_fields[m].idx
        /\ extra_mf_fields[m].key = KeyOf(req[m])
    BY DEF LInv, LineOf
  <2>3. pending_response_indices[m] # NoLine
    BY <2>1, <2>2, TagAssumption DEF ExtraFields, Line
  <2>4. lines[pending_response_indices[m]].tag = req[m].blk
    BY <2>3 DEF LInv, LineOf
  <2> QED
    BY <2>2, <2>4 DEF KeyOf
<1> QED
  BY <1>1, LineInvariance, PTL

(***************************************************************************)
(* The asserts of the cache, and the sizes of its tables, which the code   *)
(* checks before it adds anything: no legal call runs into one of them.    *)
(***************************************************************************)

(* The configurations in which the asserts hold.  With ON_FILL a set must  *)
(* always have a line to give, which pins (deferred responses) and         *)
(* m_wr_percent can take away; a line cache must not write lazily, which   *)
(* leaves a line that cannot be read and has no sector miss to turn to.    *)
Upright ==
  /\ policy.alloc = "ON_FILL" => ~policy.defer /\ WrPercent = 0
  /\ policy.type = "NORMAL" => policy.write_alloc # "LAZY_FETCH_ON_READ"

-----------------------------------------------------------------------------
(* The tables *)

Entries == {k \in Key : MshrProbe(k)}

MshrBounded ==
  /\ IsFiniteSet(Entries) /\ Cardinality(Entries) <= MshrEntries
  /\ \A k \in Key : Len(mshr[k]) <= MshrMaxMerge

MissQueueBounded == Len(miss_queue) <= MissQueueSize

(* A request joins its entry, or makes one, only after full_mshr has been  *)
(* asked.                                                                  *)
LEMMA MshrGrows ==
  ASSUME mshr \in [Key -> Seq(Mf)], MshrBounded, NEW k \in Key, NEW m \in Mf,
         ~MshrFull(k), mshr' = MshrAdd(k, m)
  PROVE  MshrBounded'
<1>1. /\ mshr'[k] = Append(mshr[k], m)
      /\ \A l \in Key \ {k} : mshr'[l] = mshr[l]
  BY DEF MshrAdd
<1>2. /\ Len(mshr[k]) \in Nat /\ mshr'[k] # <<>> /\ Len(mshr'[k]) = Len(mshr[k]) + 1
      /\ mshr[k] = <<>> => Len(mshr[k]) = 0
  BY <1>1
<1>3. MshrEntries \in Nat /\ MshrMaxMerge \in Nat \ {0}
  BY MshrAssumption
<1>4. \A l \in Key : Len(mshr'[l]) <= MshrMaxMerge
  BY <1>1, <1>2, <1>3 DEF MshrBounded, MshrFull, MshrProbe
<1>5. Entries' = Entries \cup {k}
  BY <1>1, <1>2 DEF Entries, MshrProbe
<1>6. IsFiniteSet(Entries') /\ Cardinality(Entries') <= MshrEntries
  <2>1. CASE k \in Entries
    <3>1. Entries' = Entries
      BY <1>5, <2>1
    <3> QED
      BY <3>1 DEF MshrBounded
  <2>2. CASE k \notin Entries
    <3>1. Cardinality(Entries) < MshrEntries
      BY <1>3, <2>2, FS_CardinalityType DEF MshrFull, MshrCount, Entries, MshrBounded
    <3>2. IsFiniteSet(Entries \cup {k}) /\ Cardinality(Entries \cup {k}) = Cardinality(Entries) + 1
      BY <2>2, FS_AddElement DEF MshrBounded
    <3> QED
      BY <1>3, <1>5, <3>1, <3>2, FS_CardinalityType DEF MshrBounded
  <2> QED
    BY <2>1, <2>2
<1> QED
  BY <1>4, <1>6 DEF MshrBounded

(* next_access only takes from the table.                                  *)
LEMMA MshrShrinks ==
  ASSUME mshr \in [Key -> Seq(Mf)], MshrBounded, NEW k \in Key, mshr[k] # <<>>,
         mshr' = MshrTake(k)
  PROVE  MshrBounded'
<1>1. /\ mshr'[k] = Tail(mshr[k])
      /\ \A l \in Key \ {k} : mshr'[l] = mshr[l]
  BY DEF MshrTake
<1>2. Len(mshr[k]) \in Nat /\ Len(mshr'[k]) = Len(mshr[k]) - 1
  BY <1>1, TailElements
<1>3. \A l \in Key : Len(mshr'[l]) <= MshrMaxMerge
  BY <1>1, <1>2, MshrAssumption DEF MshrBounded
<1>4. Entries' \subseteq Entries
  BY <1>1 DEF Entries, MshrProbe
<1>5. IsFiniteSet(Entries') /\ Cardinality(Entries') <= Cardinality(Entries)
  BY <1>4, FS_Subset DEF MshrBounded
<1>6. Cardinality(Entries) \in Nat /\ Cardinality(Entries') \in Nat /\ MshrEntries \in Nat
  BY <1>5, FS_CardinalityType, MshrAssumption DEF MshrBounded
<1> QED
  BY <1>3, <1>5, <1>6 DEF MshrBounded

LEMMA MshrStays == MshrBounded /\ mshr' = mshr => MshrBounded'
BY DEF MshrBounded, Entries, MshrProbe

(* What an access pushes.                                                  *)
LEMMA WriteBackLength ==
  ASSUME NEW t
  PROVE  /\ Len(WriteBack(t)) \in Nat /\ Len(WriteBack(t)) <= 1
         /\ policy.write = "WRITE_THROUGH" => WriteBack(t) = <<>>
BY DEF WriteBack

(* The misses that send a read: two or three entries after one test.       *)
LEMMA ReadMissTables ==
  ASSUME QueueTypes, MshrBounded, MissQueueBounded, NEW m \in Mf, NEW r \in Request, NEW p,
         policy \in Config, lines \in [Line -> CacheBlockT],
         p.st # "RESERVATION_FAIL" => p.idx \in Line,
         \/ RdMissBase(m, r, p) \/ ReadOnlyMiss(m, r, p)
         \/ WrMissNaive(m, r, p) \/ WrMissFetchPartial(m, r, p)
  PROVE  MshrBounded' /\ MissQueueBounded'
<1> DEFINE t == TagAccess(p, r.blk, r.sec)
           k == KeyOf(r)
<1>1. /\ mshr \in [Key -> Seq(Mf)] /\ miss_queue \in Seq(MissEntry)
      /\ k \in Key /\ MissQueueSize \in Nat
  BY RequestParts, SizeAssumption DEF QueueTypes
<1>2. PICK before \in Seq(MissEntry), after \in Seq(MissEntry), n \in Nat :
        /\ SendReadRequest(m, r, p.idx, before, after)
        /\ Len(before) + Len(after) <= n
        /\ Len(miss_queue) + n < MissQueueSize
  <2>1. p.idx \in Line /\ lines[p.idx] \in CacheBlockT
    BY DEF RdMissBase, ReadOnlyMiss, WrMissNaive, WrMissFetchPartial
  <2>2. t.evicted.tag \in Nat
    BY <2>1 DEF TagAccess, CacheBlockT
  <2>3. OwnEntries(m, WriteBack(t)) /\ OwnEntries(m, <<WriteEntry(m, r)>>) /\ OwnEntries(m, <<>>)
    BY <2>2, WriteBackOwn, OwnOne, EntryTypes
  <2>4. /\ WriteBack(t) \in Seq(MissEntry)
        /\ Len(WriteBack(t)) \in Nat /\ Len(WriteBack(t)) <= 1
        /\ <<WriteEntry(m, r)>> \in Seq(MissEntry) /\ Len(<<WriteEntry(m, r)>>) = 1
        /\ <<>> \in Seq(MissEntry) /\ Len(<<>>) = 0
    BY <2>3, WriteBackLength DEF OwnEntries
  <2> HIDE DEF t
  <2>5. CASE RdMissBase(m, r, p) \/ WrMissFetchPartial(m, r, p)
    <3>1. SendReadRequest(m, r, p.idx, <<>>, WriteBack(t)) /\ ~MissQueueFull(1)
      BY <2>5 DEF RdMissBase, WrMissFetchPartial, t
    <3>2. Len(miss_queue) + 1 < MissQueueSize
      BY <1>1, <3>1 DEF MissQueueFull
    <3>3. Len(<<>>) + Len(WriteBack(t)) <= 1
      BY <2>4
    <3> QED
      BY <2>4, <3>1, <3>2, <3>3
  <2>6. CASE ReadOnlyMiss(m, r, p)
    <3>1. SendReadRequest(m, r, p.idx, <<>>, <<>>) /\ ~MissQueueFull(0)
      BY <2>6 DEF ReadOnlyMiss
    <3>2. Len(<<>>) + Len(<<>>) <= 0 /\ Len(miss_queue) + 0 < MissQueueSize
      BY <1>1, <2>4, <3>1 DEF MissQueueFull
    <3> QED
      BY <2>4, <3>1, <3>2
  <2>7. CASE WrMissNaive(m, r, p)
    <3>1. /\ SendReadRequest(m, r, p.idx, <<WriteEntry(m, r)>>, WriteBack(t))
          /\ ~MissQueueFull(2)
      BY <2>7 DEF WrMissNaive, t
    <3>2. Len(miss_queue) + 2 < MissQueueSize
      BY <1>1, <3>1 DEF MissQueueFull
    <3>3. Len(<<WriteEntry(m, r)>>) + Len(WriteBack(t)) <= 2
      BY <2>4
    <3> QED
      BY <2>4, <3>1, <3>2, <3>3
  <2> QED
    BY <2>5, <2>6, <2>7
<1>3. PICK sent \in {<<>>, <<ReadEntry(m, r)>>} :
        miss_queue' = miss_queue \o before \o sent \o after
  BY <1>2 DEF SendReadRequest
<1>4. sent \in Seq(MissEntry) /\ Len(sent) <= 1 /\ Len(sent) \in Nat
  <2>1. OwnEntries(m, <<>>) /\ OwnEntries(m, <<ReadEntry(m, r)>>)
    BY EntryTypes, OwnOne
  <2>2. CASE sent = <<>>
    BY <2>1, <2>2 DEF OwnEntries
  <2>3. CASE sent = <<ReadEntry(m, r)>>
    <3>1. Len(<<ReadEntry(m, r)>>) = 1
      OBVIOUS
    <3> QED
      BY <2>1, <2>3, <3>1 DEF OwnEntries
  <2> QED
    BY <2>2, <2>3
<1>5. MissQueueBounded'
  <2>1. Len(miss_queue') = Len(miss_queue) + Len(before) + Len(sent) + Len(after)
    BY <1>1, <1>2, <1>3, <1>4
  <2>2. Len(miss_queue) \in Nat /\ Len(before) \in Nat /\ Len(after) \in Nat
    BY <1>1, <1>2
  <2> QED
    BY <1>1, <1>2, <1>4, <2>1, <2>2 DEF MissQueueBounded
<1>6. ~MshrFull(k) /\ mshr' = MshrAdd(k, m)
  BY <1>2 DEF SendReadRequest, ReadRequestFits
<1> QED
  BY <1>1, <1>5, <1>6, MshrGrows

(* Every other access leaves the MSHR table alone and pushes one entry at  *)
(* most: a write through sends no write back as well.                      *)
LEMMA PushesOne ==
  ASSUME QueueTypes, MissQueueBounded, NEW e \in Seq(MissEntry), Len(e) <= 1,
         miss_queue' = miss_queue \o e, e = <<>> \/ ~MissQueueFull(0)
  PROVE  MissQueueBounded'
<1>1. /\ miss_queue \in Seq(MissEntry) /\ MissQueueSize \in Nat
      /\ Len(miss_queue) \in Nat /\ Len(e) \in Nat
  BY SizeAssumption DEF QueueTypes
<1>2. Len(miss_queue') = Len(miss_queue) + Len(e)
  BY <1>1
<1>3. CASE e = <<>>
  BY <1>1, <1>2, <1>3 DEF MissQueueBounded
<1>4. CASE ~MissQueueFull(0)
  BY <1>1, <1>2, <1>4 DEF MissQueueBounded, MissQueueFull
<1> QED
  BY <1>3, <1>4

LEMMA OtherAccessTables ==
  ASSUME QueueTypes, MshrBounded, MissQueueBounded, NEW m \in Mf, NEW r \in Request, NEW p,
         policy \in Config, lines \in [Line -> CacheBlockT],
         p.st # "RESERVATION_FAIL" => p.idx \in Line,
         \/ RdHitBase(m, r, p) \/ ReadOnlyHit(m, r, p)
         \/ WrHitWriteBack(m, r, p) \/ WrHitWriteThrough(m, r, p) \/ WrHitWriteEvict(m, r, p)
         \/ WrMissFetchFull(m, r, p) \/ WrMissLazyFetch(m, r, p) \/ WrMissNoAllocate(m, r, p)
  PROVE  MshrBounded' /\ MissQueueBounded'
<1> DEFINE t == TagAccess(p, r.blk, r.sec)
           w == WriteEntry(m, r)
<1>1. mshr' = mshr
  BY DEF RdHitBase, ReadOnlyHit, WrHitWriteBack, WrHitWriteThrough, WrHitWriteEvict,
         WrMissFetchFull, WrMissLazyFetch, WrMissNoAllocate, mshrVars
<1> SUFFICES MissQueueBounded'
  BY <1>1, MshrStays
<1>2. /\ w \in MissEntry
      /\ <<>> \in Seq(MissEntry) /\ Len(<<>>) <= 1
      /\ <<w>> \in Seq(MissEntry) /\ Len(<<w>>) <= 1
  <2>1. OwnEntries(m, <<>>) /\ OwnEntries(m, <<w>>)
    BY OwnOne, EntryTypes
  <2>2. Len(<<w>>) = 1
    OBVIOUS
  <2>3. w \in MissEntry
    BY EntryTypes
  <2> HIDE DEF w
  <2> QED
    BY <2>1, <2>2, <2>3 DEF OwnEntries
<1>3. CASE RdHitBase(m, r, p) \/ ReadOnlyHit(m, r, p) \/ WrHitWriteBack(m, r, p)
  BY <1>3 DEF RdHitBase, ReadOnlyHit, WrHitWriteBack, missVars, MissQueueBounded
<1>4. CASE \/ WrHitWriteThrough(m, r, p) \/ WrHitWriteEvict(m, r, p)
           \/ WrMissNoAllocate(m, r, p)
  <2>1. miss_queue' = Append(miss_queue, w) /\ ~MissQueueFull(0)
    BY <1>4 DEF WrHitWriteThrough, WrHitWriteEvict, WrMissNoAllocate
  <2> HIDE DEF w
  <2>2. miss_queue' = miss_queue \o <<w>>
    BY <1>2, <2>1, AppendIsConcat DEF QueueTypes
  <2> QED
    BY <1>2, <2>1, <2>2, PushesOne
<1>5. CASE WrMissFetchFull(m, r, p) \/ WrMissLazyFetch(m, r, p)
  <2>1. p.idx \in Line /\ lines[p.idx] \in CacheBlockT /\ ~MissQueueFull(0)
    BY <1>5 DEF WrMissFetchFull, WrMissLazyFetch
  <2>2. t.evicted.tag \in Nat
    BY <2>1 DEF TagAccess, CacheBlockT
  <2>3. /\ WriteBack(t) \in Seq(MissEntry) /\ Len(WriteBack(t)) <= 1
        /\ policy.write = "WRITE_THROUGH" => WriteBack(t) = <<>>
    BY <2>2, WriteBackOwn, WriteBackLength DEF OwnEntries
  <2> HIDE DEF t, w
  <2>4. \/ miss_queue' = miss_queue \o WriteBack(t)
        \/ policy.write = "WRITE_THROUGH" /\ miss_queue' = miss_queue \o <<w>> \o WriteBack(t)
        \/ miss_queue' = miss_queue \o <<>> \o WriteBack(t)
    BY <1>5 DEF WrMissFetchFull, WrMissLazyFetch, t, w
  <2>5. \/ miss_queue' = miss_queue \o WriteBack(t)
        \/ miss_queue' = miss_queue \o <<w>>
    <3>1. miss_queue \in Seq(MissEntry)
      BY DEF QueueTypes
    <3>2. miss_queue \o <<>> = miss_queue /\ (miss_queue \o <<w>>) \o <<>> = miss_queue \o <<w>>
      BY <1>2, <3>1
    <3> QED
      BY <2>3, <2>4, <3>2
  <2> QED
    BY <1>2, <2>1, <2>3, <2>5, PushesOne
<1> QED
  BY <1>3, <1>4, <1>5

TablesBounded == MshrBounded /\ MissQueueBounded

(* Every step.                                                             *)
LEMMA TablesStep ==
  ASSUME IInv, TablesBounded, [Next]_vars
  PROVE  TablesBounded'
<1>1. /\ QueueTypes /\ RequestInv /\ policy \in Config /\ lines \in [Line -> CacheBlockT]
      /\ MshrBounded /\ MissQueueBounded
  BY IInvParts DEF TablesBounded
<1>2. ASSUME NEW m \in Mf, NEW r \in Issuable, ReadOnlyAccess(m, r) \/ DataAccess(m, r)
      PROVE  TablesBounded'
  <2>1. r \in Request /\ r.blk \in Nat /\ r.sec \in Sector
    BY RequestAssumption, RequestParts DEF Issuable
  <2>2. PICK wr : \E p \in Probe(r.blk, r.sec, wr) :
          \/ ReadOnlyHit(m, r, p) \/ ReadOnlyMiss(m, r, p)
          \/ WriteAccess(m, r, p) \/ ReadAccess(m, r, p)
    BY <1>2 DEF ReadOnlyAccess, DataAccess
  <2>3. PICK p \in Probe(r.blk, r.sec, wr) :
          \/ ReadOnlyHit(m, r, p) \/ ReadOnlyMiss(m, r, p)
          \/ WriteAccess(m, r, p) \/ ReadAccess(m, r, p)
    BY <2>2
  <2>4. p.st # "RESERVATION_FAIL" => p.idx \in Line
    BY <2>1, ProbeFacts
  <2> QED
    BY <1>1, <2>1, <2>3, <2>4, ReadMissTables, OtherAccessTables
       DEF WriteAccess, ReadAccess, TablesBounded
<1>3. CASE NextMshrAccess
  <2>1. current_response # <<>> /\ mshr' = MshrTake(NextKey) /\ miss_queue' = miss_queue
    BY <1>3 DEF NextMshrAccess, missVars
  <2>2. NextKey \in Key /\ mshr[NextKey] # <<>>
    BY <1>1, <2>1, ReadyHasRequest
  <2> QED
    BY <1>1, <2>1, <2>2, MshrShrinks DEF QueueTypes, TablesBounded, MissQueueBounded
<1>4. CASE \E portFull \in BOOLEAN : Cycle(portFull)
  <2>1. mshr' = mshr /\ (miss_queue' = miss_queue \/ (miss_queue # <<>> /\ miss_queue' = Tail(miss_queue)))
    BY <1>4 DEF Cycle, mshrVars
  <2>2. miss_queue # <<>> => Len(Tail(miss_queue)) <= Len(miss_queue) /\ Len(Tail(miss_queue)) \in Nat
                             /\ Len(miss_queue) \in Nat
    BY <1>1, TailElements DEF QueueTypes
  <2>3. MissQueueBounded'
    BY <1>1, <2>1, <2>2, SizeAssumption DEF MissQueueBounded
  <2> QED
    BY <1>1, <2>1, <2>3, MshrStays DEF TablesBounded
<1>5. CASE \/ \E m \in Mf : FillChunk(m) \/ Fill(m)
           \/ NextReadyHit \/ Flush \/ Invalidate \/ ForceTagAccess \/ StopIssuing
           \/ UNCHANGED vars
  <2>1. mshr' = mshr /\ miss_queue' = miss_queue
    BY <1>5 DEF FillChunk, Fill, NextReadyHit, Flush, Invalidate, ForceTagAccess, StopIssuing,
                vars, mshrVars, missVars
  <2> QED
    BY <1>1, <2>1, MshrStays DEF TablesBounded, MissQueueBounded
<1> QED
  BY <1>2, <1>3, <1>4, <1>5 DEF Next, BaselineNext

-----------------------------------------------------------------------------
(* The blocks *)

(* A line cache uses the first sector alone, and it can always be read;    *)
(* with ON_FILL no line waits.                                             *)
WholeLine(line) ==
  line.readable[0] /\ \A x \in Sector \ {0} : line.status[x] = "INVALID"

Orderly(line) ==
  /\ policy.type = "NORMAL" => WholeLine(line)
  /\ policy.alloc = "ON_FILL" => ~IsReservedLine(line)

OneOfUsed(s) == s \in Sector /\ (policy.type = "NORMAL" => s = 0)

LEMMA SectorIsUsed ==
  /\ \A s \in SectorsUsed : OneOfUsed(s)
  /\ \A r \in Issuable : OneOfUsed(r.sec)
BY AddressAssumption DEF SectorsUsed, OneOfUsed, Issuable

LEMMA SameOrderly ==
  ASSUME NEW old, NEW new, SameBlock(old, new), Orderly(old)
  PROVE  Orderly(new)
BY DEF SameBlock, Orderly, WholeLine, IsReservedLine

LEMMA PinOrderly ==
  ASSUME NEW line \in CacheBlockT, Orderly(line)
  PROVE  Orderly(PinIfDeferred(line)) /\ Orderly(Unpin(line))
BY PinsSameBlock, SameOrderly

LEMMA WrittenOrderly ==
  ASSUME NEW line \in CacheBlockT, NEW r \in Request, OneOfUsed(r.sec), Orderly(line)
  PROVE  /\ Orderly(UpdateReadable(Written(line, r), r.sec))
         /\ UpdateReadable(Written(line, r), r.sec) \in CacheBlockT
<1> DEFINE new == UpdateReadable(Written(line, r), r.sec)
<1>1. /\ new \in CacheBlockT
      /\ new.status[r.sec] = "MODIFIED"
      /\ \A s \in Sector \ {r.sec} : new.status[s] = line.status[s]
      /\ \A s \in Sector : line.readable[s] => new.readable[s]
  BY WrittenFields
<1> HIDE DEF new
<1>2. policy.type = "NORMAL" => WholeLine(new)
  BY <1>1, AddressAssumption DEF Orderly, OneOfUsed, WholeLine
<1>3. policy.alloc = "ON_FILL" => ~IsReservedLine(new)
  BY <1>1 DEF Orderly, IsReservedLine
<1> QED
  BY <1>1, <1>2, <1>3 DEF Orderly, new

LEMMA EvictedOrderly ==
  ASSUME NEW line \in CacheBlockT, NEW s \in Sector, Orderly(line)
  PROVE  /\ Orderly(SetStatus(line, s, "INVALID"))
         /\ SetStatus(line, s, "INVALID") \in CacheBlockT
<1> DEFINE new == SetStatus(line, s, "INVALID")
<1>1. /\ new \in CacheBlockT
      /\ new.readable = line.readable
      /\ \A x \in Sector : new.status[x] \in {line.status[x], "INVALID"}
  BY DEF SetStatus, CacheBlockT, BlockState
<1> HIDE DEF new
<1>2. Orderly(new)
  BY <1>1 DEF Orderly, WholeLine, IsReservedLine
<1> QED
  BY <1>1, <1>2 DEF new

(* What tag_array::access leaves.                                          *)
LEMMA TagAccessOrderly ==
  ASSUME lines \in [Line -> CacheBlockT], policy \in Config, NEW b \in Nat, NEW s \in Sector,
         NEW wr, NEW p \in Probe(b, s, wr), p.st # "RESERVATION_FAIL",
         OneOfUsed(s), Orderly(lines[p.idx]), NEW new, new = TagAccess(p, b, s).line
  PROVE  Orderly(new)
<1>1. PICK old : old = lines[p.idx]
  OBVIOUS
<1>2. /\ old \in CacheBlockT /\ Orderly(old)
      /\ p.st \in {"HIT", "HIT_RESERVED", "MISS", "SECTOR_MISS"}
      /\ p.st = "MISS" => ~IsReservedLine(old)
  BY <1>1, ProbedLine
<1>3. policy.type \in CacheType /\ policy.alloc \in {"ON_MISS", "ON_FILL"}
  BY DEF Config
<1>4. CASE policy.alloc # "ON_MISS" \/ p.st \notin {"MISS", "SECTOR_MISS"}
  BY <1>1, <1>2, <1>4, TagAccessCases
<1>5. CASE policy.alloc = "ON_MISS" /\ p.st = "MISS"
  <2>1. new = Allocate(policy.type, old, b, s)
    BY <1>1, <1>2, <1>5, TagAccessCases
  <2>2. CASE policy.type = "NORMAL"
    <3>1. new.readable = old.readable /\ new.status = [old.status EXCEPT ![s] = "RESERVED"]
      BY <2>1, <2>2 DEF Allocate
    <3>2. \A x \in Sector \ {s} : new.status[x] = old.status[x]
      BY <1>2, <3>1 DEF CacheBlockT
    <3> QED
      BY <1>2, <1>5, <2>2, <3>1, <3>2 DEF Orderly, WholeLine, OneOfUsed
  <2> QED
    BY <1>3, <1>5, <2>2 DEF Orderly
<1>6. CASE policy.alloc = "ON_MISS" /\ p.st = "SECTOR_MISS"
  <2>1. new = AllocateSector(old, s)
    BY <1>1, <1>2, <1>6, TagAccessCases
  <2>2. new.readable[s]
    BY <1>2, <2>1, AllocateSectorHere
  <2>3. \A x \in Sector \ {s} : new.status[x] = old.status[x]
    BY <1>2, <2>1, AllocateSectorElsewhere
  <2> QED
    BY <1>2, <1>3, <1>6, <2>2, <2>3 DEF Orderly, WholeLine, OneOfUsed
<1> QED
  BY <1>2, <1>3, <1>4, <1>5, <1>6

(* A fill ends the wait of its sector.                                     *)
LEMMA FillOrderly ==
  ASSUME NEW line \in CacheBlockT, NEW s, OneOfUsed(s), NEW mask,
         policy.type = "NORMAL" => WholeLine(line),
         policy.alloc = "ON_FILL" => \A x \in Sector \ {s} : line.status[x] # "RESERVED",
         NEW new, new = FillBlock(policy.type, line, s, mask)
  PROVE  Orderly(new)
<1>1. s \in Sector
  BY DEF OneOfUsed
<1>2. new.status[s] \in {"VALID", "MODIFIED"}
  BY <1>1 DEF FillBlock, CacheBlockT
<1>3. \A x \in Sector \ {s} : new.status[x] = line.status[x]
  BY <1>1 DEF FillBlock, CacheBlockT
<1>4. \A x \in Sector : line.readable[x] => new.readable[x]
  BY <1>1 DEF FillBlock, CacheBlockT
<1>5. policy.type = "NORMAL" => WholeLine(new)
  BY <1>3, <1>4, AddressAssumption DEF WholeLine, OneOfUsed
<1>6. policy.alloc = "ON_FILL" => ~IsReservedLine(new)
  BY <1>2, <1>3 DEF IsReservedLine
<1> QED
  BY <1>5, <1>6 DEF Orderly

BlocksOrderly == \A i \in Line : Orderly(lines[i])

LEMMA OneLineOrderly ==
  ASSUME lines \in [Line -> CacheBlockT], policy' = policy, BlocksOrderly,
         NEW i, NEW new, Orderly(new), lines' = [lines EXCEPT ![i] = new]
  PROVE  BlocksOrderly'
<1>1. \A j \in Line : lines'[j] = new \/ lines'[j] = lines[j]
  OBVIOUS
<1>2. \A j \in Line : Orderly(lines'[j])
  BY <1>1 DEF BlocksOrderly
<1> QED
  BY <1>2 DEF BlocksOrderly, Orderly, WholeLine, IsReservedLine

(* Every accepted access.                                                  *)
LEMMA AccessOrderly ==
  ASSUME IInv, Upright, BlocksOrderly, NEW m \in Mf, NEW r \in Issuable,
         ReadOnlyAccess(m, r) \/ DataAccess(m, r)
  PROVE  BlocksOrderly'
<1>1. /\ r \in Request /\ policy' = policy
      /\ r.blk \in Nat /\ r.sec \in Sector /\ OneOfUsed(r.sec)
  BY AccessTouches, RequestParts, SectorIsUsed
<1>2. /\ lines \in [Line -> CacheBlockT] /\ policy \in Config /\ policy \in ValidConfig
  BY IInvParts, PolicyAssumption
<1>3. PICK wr : \E p \in Probe(r.blk, r.sec, wr) :
        \/ ReadOnlyHit(m, r, p) \/ ReadOnlyMiss(m, r, p)
        \/ WriteAccess(m, r, p) \/ ReadAccess(m, r, p)
  BY DEF ReadOnlyAccess, DataAccess
<1>4. PICK p \in Probe(r.blk, r.sec, wr) :
        \/ ReadOnlyHit(m, r, p) \/ ReadOnlyMiss(m, r, p)
        \/ WriteAccess(m, r, p) \/ ReadAccess(m, r, p)
  BY <1>3
<1>5. CASE WrMissNoAllocate(m, r, p)
  <2>1. lines' = lines
    BY <1>5 DEF WrMissNoAllocate, tagVars
  <2> QED
    BY <1>1, <2>1 DEF BlocksOrderly, Orderly, WholeLine, IsReservedLine
<1>6. CASE ~WrMissNoAllocate(m, r, p)
  <2>1. p.st # "RESERVATION_FAIL"
    BY <1>4, <1>6 DEF ReadOnlyHit, ReadOnlyMiss, WriteAccess, ReadAccess, RdMissBase,
         WrMissNaive, WrMissFetchFull, WrMissFetchPartial, WrMissLazyFetch
  <2>2. PICK old : old = lines[p.idx]
    OBVIOUS
  <2>3. PICK t : t = TagAccess(p, r.blk, r.sec)
    OBVIOUS
  <2>4. /\ p.idx \in Line /\ old \in CacheBlockT /\ Orderly(old)
        /\ t.line \in CacheBlockT /\ Orderly(t.line)
    <3>1. p.idx \in Line /\ Orderly(lines[p.idx])
      BY <1>1, <1>2, <2>1, ProbedLine DEF BlocksOrderly
    <3>2. t.line \in CacheBlockT
      BY <1>1, <1>2, <2>1, <2>3, TagAccessTag
    <3>3. Orderly(t.line)
      BY <1>1, <1>2, <2>1, <2>3, <3>1, TagAccessOrderly
    <3> QED
      BY <1>2, <2>2, <3>1, <3>2, <3>3
  <2>5. SUFFICES \E new : Orderly(new) /\ lines' = [lines EXCEPT ![p.idx] = new]
    BY <1>1, <1>2, OneLineOrderly
  <2>6. CASE \/ RdHitBase(m, r, p) \/ ReadOnlyHit(m, r, p)
             \/ RdMissBase(m, r, p) \/ ReadOnlyMiss(m, r, p) \/ WrMissNaive(m, r, p)
    <3>1. \E x \in {old, t.line} : lines' = [lines EXCEPT ![p.idx] = PinIfDeferred(x)]
      BY <2>2, <2>3, <2>6 DEF RdHitBase, ReadOnlyHit, RdMissBase, ReadOnlyMiss, WrMissNaive
    <3> QED
      BY <2>4, <3>1, PinOrderly
  <2>7. CASE WrHitWriteBack(m, r, p) \/ WrHitWriteThrough(m, r, p)
    <3>1. PICK new : new = UpdateReadable(Written(old, r), r.sec)
      OBVIOUS
    <3>2. Orderly(new) /\ new \in CacheBlockT
      BY <1>1, <2>4, <3>1, WrittenOrderly
    <3>3. lines' = [lines EXCEPT ![p.idx] = PinIfDeferred(new)]
      BY <2>2, <2>7, <3>1 DEF WrHitWriteBack, WrHitWriteThrough, WriteHitCommon
    <3> QED
      BY <3>2, <3>3, PinOrderly
  <2>8. CASE WrHitWriteEvict(m, r, p)
    <3>1. PICK new : new = SetStatus(old, r.sec, "INVALID")
      OBVIOUS
    <3>2. Orderly(new) /\ new \in CacheBlockT
      BY <1>1, <2>4, <3>1, EvictedOrderly
    <3>3. lines' = [lines EXCEPT ![p.idx] = PinIfDeferred(new)]
      BY <1>2, <2>2, <2>8, <3>1 DEF WrHitWriteEvict
    <3> QED
      BY <3>2, <3>3, PinOrderly
  <2>9. CASE WrMissFetchFull(m, r, p) \/ WrMissFetchPartial(m, r, p)
    <3>1. policy.alloc # "ON_FILL"
      BY <1>2, <2>9 DEF ValidConfig, WrMissFetchFull, WrMissFetchPartial
    <3>2. PICK new \in {Written(t.line, r), SetModifiedOnFill(PinIfDeferred(t.line), r.sec)} :
            lines' = [lines EXCEPT ![p.idx] = new]
      BY <2>3, <2>9 DEF WrMissFetchFull, WrMissFetchPartial
    <3>3. policy.type = "NORMAL" => WholeLine(new)
      <4>1. policy.type = "NORMAL" => r.sec = 0
        BY <1>1 DEF OneOfUsed
      <4>2. PICK pinned : pinned = PinIfDeferred(t.line)
        OBVIOUS
      <4>3. pinned.status = t.line.status /\ pinned.readable = t.line.readable
        BY <2>4, <4>2, PinsSameBlock DEF SameBlock
      <4>4. pinned \in CacheBlockT
        BY <2>4, <4>2, PinIfDeferredType
      <4>5. CASE new = Written(t.line, r)
        <5>1. /\ new.readable = t.line.readable
              /\ new.status = [t.line.status EXCEPT ![r.sec] = "MODIFIED"]
          BY <2>4, <4>5 DEF Written, SetStatus, SetByteMask, CacheBlockT
        <5>2. t.line.status \in [Sector -> BlockState]
          BY <2>4 DEF CacheBlockT
        <5> QED
          BY <1>1, <2>4, <4>1, <5>1, <5>2 DEF Orderly, WholeLine
      <4>6. CASE new = SetModifiedOnFill(pinned, r.sec)
        <5>1. new.readable = pinned.readable /\ new.status = pinned.status
          BY <4>4, <4>6 DEF SetModifiedOnFill, CacheBlockT
        <5> QED
          BY <2>4, <4>3, <5>1 DEF Orderly, WholeLine
      <4> QED
        BY <3>2, <4>2, <4>5, <4>6
    <3> QED
      BY <3>1, <3>2, <3>3 DEF Orderly
  <2>10. CASE WrMissLazyFetch(m, r, p)
    <3>1. policy.alloc # "ON_FILL" /\ policy.type # "NORMAL"
      BY <1>2, <2>10 DEF ValidConfig, WrMissLazyFetch, Upright
    <3>2. \E new : lines' = [lines EXCEPT ![p.idx] = new]
      BY <2>10 DEF WrMissLazyFetch
    <3> QED
      BY <3>1, <3>2 DEF Orderly
  <2> QED
    BY <1>4, <1>6, <2>6, <2>7, <2>8, <2>9, <2>10 DEF WriteAccess, ReadAccess
<1> QED
  BY <1>5, <1>6

LEMMA FillByAddressOrderly ==
  ASSUME lines \in [Line -> CacheBlockT], policy \in Config, policy' = policy, BlocksOrderly,
         NEW b \in Nat, NEW s, OneOfUsed(s), NEW wr, NEW mask, FillByAddress(b, s, wr, mask)
  PROVE  BlocksOrderly'
<1>1. s \in Sector /\ policy.type \in CacheType
  BY DEF OneOfUsed, Config
<1>2. PICK p \in Probe(b, s, wr) :
        IF p.st = "RESERVATION_FAIL" THEN UNCHANGED <<lines, dirty>>
        ELSE LET old  == lines[p.idx]
                 here == CASE p.st = "MISS" -> Allocate(policy.type, old, b, s)
                           [] p.st = "SECTOR_MISS" -> AllocateSector(old, s)
                           [] OTHER -> old
                 new  == FillBlock(policy.type, here, s, mask)
             IN  /\ lines' = [lines EXCEPT ![p.idx] = new]
                 /\ dirty' = DirtyAfter(DirtyLeft(old, here), here, new)
  BY DEF FillByAddress
<1>3. CASE p.st = "RESERVATION_FAIL"
  BY <1>2, <1>3 DEF BlocksOrderly, Orderly, WholeLine, IsReservedLine
<1>4. CASE p.st # "RESERVATION_FAIL"
  <2>1. PICK old : old = lines[p.idx]
    OBVIOUS
  <2>2. /\ old \in CacheBlockT /\ Orderly(old)
        /\ p.st \in {"HIT", "HIT_RESERVED", "MISS", "SECTOR_MISS"}
        /\ p.st = "MISS" => ~IsReservedLine(old)
    BY <1>1, <1>4, <2>1, ProbedLine DEF BlocksOrderly
  <2>3. PICK here :
          /\ here = CASE p.st = "MISS" -> Allocate(policy.type, old, b, s)
                      [] p.st = "SECTOR_MISS" -> AllocateSector(old, s)
                      [] OTHER -> old
          /\ lines' = [lines EXCEPT ![p.idx] = FillBlock(policy.type, here, s, mask)]
    BY <1>2, <1>4, <2>1
  <2>4. /\ here \in CacheBlockT
        /\ policy.type = "NORMAL" => WholeLine(here)
        /\ policy.alloc = "ON_FILL" => \A x \in Sector \ {s} : here.status[x] # "RESERVED"
    <3>1. CASE p.st = "MISS"
      <4>1. here = Allocate(policy.type, old, b, s)
        BY <2>3, <3>1
      <4>2. here \in CacheBlockT
        BY <1>1, <2>2, <4>1, AllocateType
      <4>3. \A x \in Sector \ {s} : here.status[x] # "RESERVED"
        <5>1. ~IsReservedLine(old)
          BY <2>2, <3>1
        <5>2. \A x \in Sector \ {s} : Allocate(policy.type, old, b, s).status[x] # "RESERVED"
          BY <1>1, <2>2, <5>1, AllocateFields
        <5> QED
          BY <4>1, <5>2
      <4>4. CASE policy.type = "NORMAL"
        <5>1. here.readable = old.readable /\ here.status = [old.status EXCEPT ![s] = "RESERVED"]
          BY <4>1, <4>4 DEF Allocate
        <5>2. \A x \in Sector \ {s} : here.status[x] = old.status[x]
          BY <2>2, <5>1 DEF CacheBlockT
        <5> QED
          BY <2>2, <4>2, <4>3, <4>4, <5>1, <5>2 DEF Orderly, WholeLine, OneOfUsed
      <4> QED
        BY <4>2, <4>3, <4>4
    <3>2. CASE p.st = "SECTOR_MISS"
      <4>1. here = AllocateSector(old, s)
        BY <2>3, <3>2
      <4>2. here \in CacheBlockT /\ here.readable[s]
        BY <1>1, <2>2, <4>1, AllocateSectorHere
      <4>3. \A x \in Sector \ {s} : here.status[x] = old.status[x]
        BY <1>1, <2>2, <4>1, AllocateSectorElsewhere
      <4> QED
        BY <1>1, <2>2, <4>2, <4>3 DEF Orderly, WholeLine, OneOfUsed, IsReservedLine
    <3>3. CASE p.st \notin {"MISS", "SECTOR_MISS"}
      BY <2>2, <2>3, <3>3 DEF Orderly, IsReservedLine
    <3> QED
      BY <3>1, <3>2, <3>3
  <2>5. PICK new : new = FillBlock(policy.type, here, s, mask)
    OBVIOUS
  <2>6. Orderly(new)
    BY <2>4, <2>5, FillOrderly
  <2> QED
    BY <2>3, <2>5, <2>6, OneLineOrderly
<1> QED
  BY <1>3, <1>4

-----------------------------------------------------------------------------
(* The inductive invariant: with it, no response is recorded when hits are *)
(* not deferred, and the reads of a line cache are of its first sector.    *)
NoneRecorded == ~policy.defer => \A m \in Mf : pending_response_indices[m] = NoLine

FirstSector ==
  policy.type = "NORMAL" =>
    \A m \in Mf : extra_mf_fields[m] # NoExtra => extra_mf_fields[m].key[2] = 0

AInv == NoneRecorded /\ FirstSector /\ (Upright => BlocksOrderly)

LEMMA RecordsStep ==
  ASSUME IInv, NoneRecorded, FirstSector, [Next]_vars
  PROVE  NoneRecorded' /\ FirstSector' /\ policy' = policy
<1>1. CASE Keeps(Mf)
  BY <1>1 DEF Keeps, NoneRecorded, FirstSector
<1>2. ASSUME NEW m \in Mf, NEW r \in Issuable, ReadOnlyAccess(m, r) \/ DataAccess(m, r)
      PROVE  NoneRecorded' /\ FirstSector' /\ policy' = policy
  <2>1. /\ policy' = policy /\ OneOfUsed(r.sec)
        /\ \/ LeavesLines(m, r)
           \/ \E wr : \E p \in Probe(r.blk, r.sec, wr) : Touches(m, r, p)
    BY <1>2, AccessTouches, SectorIsUsed
  <2>2. CASE LeavesLines(m, r)
    BY <2>1, <2>2 DEF LeavesLines, NoneRecorded, FirstSector
  <2>3. CASE \E p : Records(m, r, p)
    <3>1. PICK p : Records(m, r, p)
      BY <2>3
    <3>2. NoneRecorded'
      BY <2>1, <3>1 DEF Records, IndexIfDeferred, NoneRecorded
    <3>3. extra_mf_fields \in [Mf -> ExtraFields \cup {NoExtra}]
      BY IInvParts DEF QueueTypes
    <3>4. \A x \in Mf : \/ extra_mf_fields'[x] = extra_mf_fields[x]
                        \/ extra_mf_fields'[x].key = KeyOf(r)
      BY <3>1, <3>3 DEF Records
    <3>5. policy.type = "NORMAL" => KeyOf(r)[2] = 0
      BY <2>1 DEF KeyOf, OneOfUsed
    <3> QED
      BY <2>1, <3>2, <3>4, <3>5 DEF FirstSector
  <2> QED
    BY <2>1, <2>2, <2>3 DEF Touches
<1> QED
  BY <1>1, <1>2, OtherKeeps

LEMMA BlocksStep ==
  ASSUME IInv, FirstSector, Upright, BlocksOrderly, [Next]_vars
  PROVE  BlocksOrderly'
<1>1. /\ lines \in [Line -> CacheBlockT] /\ policy \in Config
      /\ extra_mf_fields \in [Mf -> ExtraFields \cup {NoExtra}]
  BY IInvParts DEF QueueTypes
<1>2. CASE \E m \in Mf, r \in Issuable : ReadOnlyAccess(m, r) \/ DataAccess(m, r)
  BY <1>2, AccessOrderly
<1>3. CASE \/ \E portFull \in BOOLEAN : Cycle(portFull)
           \/ \E m \in Mf : FillChunk(m)
           \/ StopIssuing \/ UNCHANGED vars
  <2>1. policy' = policy /\ lines' = lines
    BY <1>3 DEF Cycle, FillChunk, StopIssuing, vars, tagVars
  <2> QED
    BY <2>1 DEF BlocksOrderly, Orderly, WholeLine, IsReservedLine
<1>4. ASSUME NEW m \in Mf, Fill(m)
      PROVE  BlocksOrderly'
  <2>1. PICK e : e = extra_mf_fields[m]
    OBVIOUS
  <2>2. e # NoExtra /\ policy' = policy
    BY <1>4, <2>1 DEF Fill, InMemory
  <2>3. e \in ExtraFields /\ (policy.type = "NORMAL" => e.key[2] = 0)
    BY <1>1, <2>1, <2>2 DEF FirstSector
  <2>4. e.idx \in Line /\ e.key[1] \in Nat /\ OneOfUsed(e.key[2])
    BY <2>3, AddressAssumption DEF ExtraFields, Key, OneOfUsed
  <2>5. CASE policy.alloc = "ON_MISS"
    <3>1. FillByIndex(e.idx, e.key[2], MaskOf(req[m]))
      BY <1>4, <2>1, <2>5 DEF Fill
    <3>2. PICK new : /\ new = FillBlock(policy.type, lines[e.idx], e.key[2], MaskOf(req[m]))
                     /\ lines' = [lines EXCEPT ![e.idx] = new]
      BY <3>1 DEF FillByIndex
    <3>3. lines[e.idx] \in CacheBlockT /\ Orderly(lines[e.idx])
      BY <1>1, <2>4 DEF BlocksOrderly
    <3>4. Orderly(new)
      BY <2>4, <2>5, <3>2, <3>3, FillOrderly DEF Orderly
    <3> QED
      BY <1>1, <2>2, <3>2, <3>4, OneLineOrderly
  <2>6. CASE policy.alloc # "ON_MISS"
    <3>1. FillByAddress(e.key[1], e.key[2], FALSE, MaskOf(req[m]))
      BY <1>4, <2>1, <2>6 DEF Fill
    <3> QED
      BY <1>1, <2>2, <2>4, <3>1, FillByAddressOrderly
  <2> QED
    BY <2>5, <2>6
<1>5. CASE NextReadyHit \/ NextMshrAccess
  <2>1. PICK m : UnpinResponse(m) /\ policy' = policy
    BY <1>5 DEF NextReadyHit, NextMshrAccess
  <2>2. \/ lines' = lines
        \/ lines' = [lines EXCEPT ![pending_response_indices[m]] =
                       Unpin(lines[pending_response_indices[m]])]
    BY <2>1 DEF UnpinResponse
  <2>3. \A i \in Line : Orderly(Unpin(lines[i]))
    BY <1>1, PinOrderly DEF BlocksOrderly
  <2>4. \A i \in Line : Orderly(lines'[i])
    BY <1>1, <2>2, <2>3 DEF BlocksOrderly
  <2> QED
    BY <2>1, <2>4 DEF BlocksOrderly, Orderly, WholeLine, IsReservedLine
<1>6. CASE Flush \/ Invalidate
  <2>1. /\ policy' = policy
        /\ \A i \in Line : lines'[i] \in {InvalidateLine(lines[i]), lines[i]}
    BY <1>6 DEF Flush, Invalidate, FlushTags, InvalidateTags
  <2>2. \A i \in Line : Orderly(InvalidateLine(lines[i]))
    <3> SUFFICES ASSUME NEW i \in Line
                 PROVE  Orderly(InvalidateLine(lines[i]))
      OBVIOUS
    <3>1. PICK new : new = InvalidateLine(lines[i])
      OBVIOUS
    <3>2. /\ new.readable = lines[i].readable
          /\ \A x \in Sector : new.status[x] = "INVALID"
      BY <1>1, <3>1 DEF InvalidateLine, CacheBlockT
    <3>3. Orderly(new)
      BY <3>2 DEF BlocksOrderly, Orderly, WholeLine, IsReservedLine
    <3> QED
      BY <3>1, <3>3
  <2>3. \A i \in Line : Orderly(lines'[i])
    BY <2>1, <2>2 DEF BlocksOrderly
  <2> QED
    BY <2>1, <2>3 DEF BlocksOrderly, Orderly, WholeLine, IsReservedLine
<1>7. CASE ForceTagAccess
  <2>1. PICK b \in Blk, s \in SectorsUsed : FillByAddress(b, s, TRUE, {})
    BY <1>7 DEF ForceTagAccess
  <2>2. policy' = policy /\ b \in Nat /\ OneOfUsed(s)
    BY <1>7, AddressAssumption, SectorIsUsed DEF ForceTagAccess
  <2> QED
    BY <1>1, <2>1, <2>2, FillByAddressOrderly
<1> QED
  BY <1>2, <1>3, <1>4, <1>5, <1>6, <1>7 DEF Next, BaselineNext

LEMMA AInvStep ==
  ASSUME IInv, AInv, [Next]_vars
  PROVE  AInv'
<1>1. NoneRecorded' /\ FirstSector' /\ policy' = policy
  BY RecordsStep DEF AInv
<1>2. Upright => BlocksOrderly'
  BY BlocksStep DEF AInv
<1> QED
  BY <1>1, <1>2 DEF AInv, Upright

-----------------------------------------------------------------------------
(* No assert *)

(* Without pins nothing but a reservation holds a line back.               *)
LEMMA LineToGive ==
  ASSUME IInv, AInv, Upright, policy.alloc = "ON_FILL"
  PROVE  \A i \in Line : Replaceable(i)
<1>1. SUFFICES ASSUME NEW i \in Line
               PROVE  Replaceable(i)
  OBVIOUS
<1>2. /\ BlocksOrderly
      /\ \A m \in Mf : pending_response_indices[m] = NoLine
      /\ WrPercent = 0
  BY DEF AInv, Upright, NoneRecorded
<1>3. PinConsistency /\ dirty \in Nat
  BY DEF IInv, TypeOK
<1>4. {m \in Mf : pending_response_indices[m] = i} = {}
  BY <1>2, TagAssumption DEF Line
<1>5. ~IsPinned(lines[i])
  BY <1>3, <1>4, FS_EmptySet DEF PinConsistency, IsPinned
<1>6. ~IsReservedLine(lines[i])
  BY <1>2 DEF BlocksOrderly, Orderly
<1>7. DirtyEnough
  <2>1. WrPercent * NSet * Assoc = 0
    BY <1>2, GeometryAssumption
  <2> QED
    BY <1>3, <2>1 DEF DirtyEnough
<1> QED
  BY <1>5, <1>6, <1>7 DEF Replaceable

LEMMA ProbeAllowed ==
  ASSUME IInv, AInv, Upright, NEW b \in Nat, NEW s, OneOfUsed(s), NEW wr,
         NEW p \in Probe(b, s, wr)
  PROVE  AccessAllowed(p)
<1>1. /\ lines \in [Line -> CacheBlockT] /\ policy \in Config /\ s \in Sector
      /\ BlocksOrderly /\ policy.type \in CacheType /\ policy.alloc \in {"ON_MISS", "ON_FILL"}
  BY IInvParts DEF AInv, OneOfUsed, Config
<1>2. \/ \E i \in Ways(b) : Matches(i, b) /\ p = [st |-> StatusOnMatch(i, s, wr), idx |-> i]
      \/ p.st = "MISS"
      \/ Victims(b) = {} /\ p.st = "RESERVATION_FAIL"
  BY ProbeCases
<1>3. CASE \E i \in Ways(b) : Matches(i, b) /\ p = [st |-> StatusOnMatch(i, s, wr), idx |-> i]
  <2>1. PICK i \in Ways(b) : Matches(i, b) /\ p = [st |-> StatusOnMatch(i, s, wr), idx |-> i]
    BY <1>3
  <2>2. p.st = StatusOnMatch(i, s, wr)
    BY <2>1
  <2>3. p.st # "RESERVATION_FAIL"
    BY <2>2 DEF StatusOnMatch
  <2>4. CASE policy.type = "NORMAL"
    <3>1. i \in Line /\ s = 0 /\ WholeLine(lines[i])
      BY <1>1, <2>1, <2>4, WaysAreLines DEF OneOfUsed, BlocksOrderly, Orderly
    <3>2. lines[i].status[s] # "INVALID" /\ lines[i].status[s] \in BlockState
      BY <1>1, <2>1, <3>1 DEF Matches, IsInvalidLine, WholeLine, CacheBlockT
    <3>3. p.st # "SECTOR_MISS"
      BY <2>2, <3>1, <3>2 DEF StatusOnMatch, BlockState, WholeLine
    <3> QED
      BY <2>3, <3>3 DEF AccessAllowed
  <2> QED
    BY <1>1, <2>3, <2>4 DEF AccessAllowed, CacheType
<1>4. CASE p.st = "MISS"
  BY <1>4 DEF AccessAllowed
<1>5. CASE Victims(b) = {} /\ p.st = "RESERVATION_FAIL"
  <2>1. \E i \in Line : ~Replaceable(i)
    BY <1>5, VictimsEmpty, WayExists
  <2>2. policy.alloc # "ON_FILL"
    BY <2>1, LineToGive
  <2> QED
    BY <1>1, <1>5, <2>2 DEF AccessAllowed
<1> QED
  BY <1>2, <1>3, <1>4, <1>5

LEMMA NoAssert ==
  ASSUME IInv, TablesBounded, AInv, Upright
  PROVE  AssertionsHold
<1>1. /\ MshrCount <= MshrEntries /\ \A k \in Key : Len(mshr[k]) <= MshrMaxMerge
      /\ Len(miss_queue) <= MissQueueSize
  BY DEF TablesBounded, MshrBounded, MissQueueBounded, MshrCount, Entries
<1>2. ASSUME NEW r \in Issuable, NEW p \in Probe(r.blk, r.sec, r.wr)
      PROVE  AccessAllowed(p)
  <2>1. r.blk \in Nat /\ OneOfUsed(r.sec)
    BY RequestAssumption, RequestParts, SectorIsUsed DEF Issuable
  <2> QED
    BY <1>2, <2>1, ProbeAllowed
<1>3. ASSUME NEW m \in Mf, InMemory(m)
      PROVE  /\ MshrProbe(extra_mf_fields[m].key)
             /\ \A p \in Probe(extra_mf_fields[m].key[1], extra_mf_fields[m].key[2], FALSE) :
                  AccessAllowed(p)
  <2>1. /\ extra_mf_fields[m] # NoExtra /\ extra_mf_fields[m] \in ExtraFields
        /\ RequestInv
    BY <1>3, ReadIsOwed, IInvParts DEF InMemory
  <2>2. MshrProbe(extra_mf_fields[m].key)
    BY <2>1 DEF RequestInv, TokensHeld
  <2>3. extra_mf_fields[m].key[1] \in Nat /\ OneOfUsed(extra_mf_fields[m].key[2])
    BY <2>1, AddressAssumption DEF ExtraFields, Key, OneOfUsed, AInv, FirstSector
  <2> QED
    BY <2>2, <2>3, ProbeAllowed
<1> QED
  BY <1>1, <1>2, <1>3 DEF AssertionsHold

LEMMA FirstState ==
  ASSUME Init
  PROVE  TablesBounded /\ AInv
<1>1. /\ mshr = [k \in Key |-> <<>>] /\ miss_queue = <<>>
      /\ \A m \in Mf : extra_mf_fields[m] = NoExtra /\ pending_response_indices[m] = NoLine
      /\ \A i \in Line : lines[i] = InitBlock
  BY DEF Init, TagInit, MshrInit
<1>2. TablesBounded
  <2>1. Entries = {}
    BY <1>1 DEF Entries, MshrProbe
  <2>2. IsFiniteSet(Entries) /\ Cardinality(Entries) = 0
    BY <2>1, FS_EmptySet
  <2>3. Len(<<>>) = 0
    OBVIOUS
  <2> QED
    BY <1>1, <2>2, <2>3, MshrAssumption, SizeAssumption
       DEF TablesBounded, MshrBounded, MissQueueBounded
<1>3. Orderly(InitBlock)
  BY AddressAssumption DEF InitBlock, Orderly, WholeLine, IsReservedLine
<1> QED
  BY <1>1, <1>2, <1>3 DEF AInv, NoneRecorded, FirstSector, BlocksOrderly

(* full_mshr and miss_queue_full are asked before anything is added, with  *)
(* the number of entries the access may need: no interleaving of accesses, *)
(* fills and responses takes the tables past their sizes.                  *)
THEOREM TablesInvariance == Spec => []TablesBounded
<1>1. Init => TablesBounded
  BY FirstState
<1>2. IInv /\ TablesBounded /\ [Next]_vars => TablesBounded'
  BY TablesStep
<1> QED
  BY <1>1, <1>2, Invariance, PTL DEF Spec

(* The asserts of tag_array::probe and access (a line to give under        *)
(* ON_FILL, no sector miss in a line cache), of the MSHR table and of fill *)
(* are never run into, in the configurations Upright names, whatever the   *)
(* caller does.                                                            *)
THEOREM AssertionsMet == Spec => [](Upright => AssertionsHold)
<1>1. Init => AInv
  BY FirstState
<1>2. IInv /\ AInv /\ [Next]_vars => AInv'
  BY AInvStep
<1>3. Spec => []AInv
  BY <1>1, <1>2, Invariance, PTL DEF Spec
<1>4. IInv /\ TablesBounded /\ AInv => (Upright => AssertionsHold)
  BY NoAssert
<1> QED
  BY <1>3, <1>4, Invariance, TablesInvariance, PTL
=============================================================================
