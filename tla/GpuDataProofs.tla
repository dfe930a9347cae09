---------------------------- MODULE GpuDataProofs ----------------------------
(***************************************************************************)
(* No step loses modified bytes, m_dirty is exact and a fill finds its     *)
(* line, in a cache that allocates on miss, writes back or through, and    *)
(* that nobody flushes.  The two other write policies and fetch on write   *)
(* are left out because these statements are false of them.  The second    *)
(* part proves of such a cache that no sector stays reserved for good.     *)
(***************************************************************************)
EXTENDS GpuLineProofs

(* The configurations of this module.                                      *)
Steady ==
  /\ policy.alloc = "ON_MISS"
  /\ policy.write \in {"READ_ONLY", "WRITE_BACK", "WRITE_THROUGH"}
  /\ policy.write_alloc # "FETCH_ON_WRITE"
  /\ policy.write_alloc = "LAZY_FETCH_ON_READ" => policy.defer
Undisturbed == Maintenance = {} /\ Steady

(* The steps other than flush, invalidate and force_tag_access.            *)
Works ==
  \/ \E m \in Mf, r \in Issuable : ReadOnlyAccess(m, r) \/ DataAccess(m, r)
  \/ \E portFull \in BOOLEAN : Cycle(portFull)
  \/ \E m \in Mf : FillChunk(m) \/ Fill(m)
  \/ NextReadyHit \/ NextMshrAccess \/ StopIssuing

LEMMA WorksOnly ==
  /\ [Works]_vars => [Next]_vars
  /\ Maintenance = {} /\ [Next]_vars => [Works]_vars
<1>1. Works => Next
  BY DEF Works, Next, BaselineNext
<1>2. Maintenance = {} /\ Next => Works
  BY DEF Works, Next, BaselineNext, Flush, Invalidate, ForceTagAccess
<1> QED
  BY <1>1, <1>2

-----------------------------------------------------------------------------
(* Blocks *)

(* A sector whose fill is on its way: reserved, or lazily written since,   *)
(* and then told to become modified again.                                 *)
Pending(line, s) ==
  \/ line.status[s] = "RESERVED"
  \/ policy.defer /\ line.status[s] = "MODIFIED" /\ line.set_modified_on_fill[s]

(* A sector that is modified or will be.                                   *)
Unsaved(line, s) ==
  \/ line.status[s] = "MODIFIED"
  \/ line.status[s] = "RESERVED" /\ line.set_modified_on_fill[s]

Has(line, u) ==
  /\ line.tag = u[1][1]
  /\ <<u[1][2], u[2]>> \in line.dirty_byte_mask
  /\ Unsaved(line, u[1][2])

(* The change of a block that loses nothing.                               *)
Carries(old, new) ==
  /\ new.tag = old.tag
  /\ old.dirty_byte_mask \subseteq new.dirty_byte_mask
  /\ \A s \in Sector : Unsaved(old, s) => Unsaved(new, s)
  /\ \A s \in Sector : Pending(old, s) => Pending(new, s)

LEMMA CarriesBytes ==
  ASSUME NEW old, NEW new, Carries(old, new), NEW u \in Key \X Byte, Has(old, u)
  PROVE  Has(new, u)
<1>1. u[1][2] \in Sector
  BY DEF Key
<1> QED
  BY <1>1 DEF Has, Carries

(* pin and unpin                                                           *)
LEMMA PinsCarry ==
  ASSUME NEW old, NEW new \in CacheBlockT, Carries(old, new)
  PROVE  Carries(old, PinIfDeferred(new)) /\ Carries(old, Unpin(new))
BY PinsSameBlock DEF SameBlock, Carries, Unsaved, Pending

LEMMA SameCarries == \A line : Carries(line, line)
BY DEF Carries

(* A write of a sector that no fill is on its way to, or of one that is    *)
(* modified.                                                               *)
LEMMA WrittenCarries ==
  ASSUME NEW line \in CacheBlockT, NEW r \in Request, line.status[r.sec] # "RESERVED"
  PROVE  Carries(line, UpdateReadable(Written(line, r), r.sec))
<1> DEFINE new == UpdateReadable(Written(line, r), r.sec)
<1>1. /\ new.tag = line.tag
      /\ new.status[r.sec] = "MODIFIED"
      /\ \A s \in Sector \ {r.sec} : new.status[s] = line.status[s]
      /\ new.set_modified_on_fill = line.set_modified_on_fill
      /\ new.dirty_byte_mask = line.dirty_byte_mask \cup MaskOf(r)
  BY WrittenFields
<1> HIDE DEF new
<1>2. \A s \in Sector : Unsaved(line, s) => Unsaved(new, s)
  BY <1>1 DEF Unsaved
<1>3. \A s \in Sector : Pending(line, s) => Pending(new, s)
  BY <1>1 DEF Pending
<1> QED
  BY <1>1, <1>2, <1>3 DEF Carries, new

(* A sector miss: the sector is reserved, to become modified again if it   *)
(* was.                                                                    *)
LEMMA AllocateSectorCarries ==
  ASSUME NEW line \in CacheBlockT, NEW s \in Sector, line.status[s] # "RESERVED"
  PROVE  Carries(line, AllocateSector(line, s))
<1> DEFINE new == AllocateSector(line, s)
<1>1. /\ new.tag = line.tag
      /\ new.dirty_byte_mask = line.dirty_byte_mask
      /\ new.status[s] = "RESERVED"
      /\ line.status[s] = "MODIFIED" => new.set_modified_on_fill[s]
  BY AllocateSectorHere
<1>2. \A x \in Sector \ {s} :
         /\ new.status[x] = line.status[x]
         /\ new.set_modified_on_fill[x] = line.set_modified_on_fill[x]
  BY AllocateSectorElsewhere
<1> HIDE DEF new
<1>3. \A x \in Sector : Unsaved(line, x) => Unsaved(new, x)
  BY <1>1, <1>2 DEF Unsaved
<1>4. \A x \in Sector : Pending(line, x) => Pending(new, x)
  BY <1>1, <1>2 DEF Pending
<1> QED
  BY <1>1, <1>3, <1>4 DEF Carries, new

(* A lazy write of a reserved sector, whose fill will leave it modified,   *)
(* or of one that no fill is on its way to.                                *)
LEMMA LazyCarries ==
  ASSUME NEW line \in CacheBlockT, NEW r \in Request, NEW pending \in BOOLEAN,
         policy.defer, NEW old,
         Carries(old, line),
         ~pending => ~Unsaved(old, r.sec) /\ ~Pending(old, r.sec)
  PROVE  Carries(old, LazyBlock(line, r, pending))
<1> DEFINE new == LazyBlock(line, r, pending)
<1>0. r.sec \in Sector
  BY RequestParts
<1>1. /\ new.tag = line.tag
      /\ new.status[r.sec] = "MODIFIED"
      /\ pending => new.set_modified_on_fill[r.sec]
      /\ new.dirty_byte_mask = line.dirty_byte_mask \cup MaskOf(r)
  BY LazyFields
<1>2. \A s \in Sector \ {r.sec} :
        /\ new.status[s] = line.status[s]
        /\ line.set_modified_on_fill[s] => new.set_modified_on_fill[s]
  BY LazyFields
<1> HIDE DEF new
<1>3. \A s \in Sector : Unsaved(old, s) => Unsaved(new, s)
  BY <1>1, <1>2 DEF Unsaved, Carries
<1>4. \A s \in Sector : Pending(old, s) => Pending(new, s)
  BY <1>1, <1>2 DEF Pending, Carries
<1> QED
  BY <1>1, <1>3, <1>4 DEF Carries, new

(* The bytes of a write are in its block.                                  *)
LEMMA WrittenHas ==
  ASSUME NEW r \in Request, NEW new, new.tag = r.blk, MaskOf(r) \subseteq new.dirty_byte_mask,
         new.status[r.sec] = "MODIFIED", NEW u \in BytesOf(r)
  PROVE  Has(new, u)
<1>1. PICK b \in r.bytes : u = <<<<r.blk, r.sec>>, b>>
  BY DEF BytesOf, KeyOf
<1>2. <<r.sec, b>> \in MaskOf(r)
  BY DEF MaskOf
<1> QED
  BY <1>1, <1>2 DEF Has, Unsaved

-----------------------------------------------------------------------------
(* Accesses *)

(* What a lazy write leaves.                                               *)
LEMMA LazyMissBlock ==
  ASSUME NEW m, NEW r \in Request, NEW p, WrMissLazyFetch(m, r, p)
  PROVE  LET t   == TagAccess(p, r.blk, r.sec)
             new == LazyBlock(t.line, r, p.st = "HIT_RESERVED")
         IN  /\ lines' = [lines EXCEPT ![p.idx] = new]
             /\ dirty' = DirtyAfter(t.dirty, t.line, new)
<1>1. (~(~FullWrite(r))) = FullWrite(r)
  BY DEF FullWrite
<1> QED
  BY <1>1 DEF WrMissLazyFetch, LazyBlock

(* What the state of the sector says of the outcome of a probe.            *)
LEMMA ProbeStatus ==
  ASSUME NEW b \in Nat, NEW s \in Sector, NEW wr, NEW p \in Probe(b, s, wr)
  PROVE  /\ p.st = "HIT" => lines[p.idx].status[s] # "RESERVED"
         /\ p.st = "HIT_RESERVED" => lines[p.idx].status[s] = "RESERVED"
         /\ p.st = "SECTOR_MISS" => lines[p.idx].status[s] # "RESERVED"
         /\ p.st = "SECTOR_MISS" /\ wr => lines[p.idx].status[s] # "MODIFIED"
<1> DEFINE matching == {i \in Ways(b) : Matches(i, b)}
           first    == {i \in matching : \A j \in matching : i <= j}
<1>1. \/ \E i \in first : p = [st |-> StatusOnMatch(i, s, wr), idx |-> i]
      \/ p.st \in {"MISS", "RESERVATION_FAIL"}
  BY DEF Probe
<1> QED
  BY <1>1 DEF StatusOnMatch

-----------------------------------------------------------------------------
(* The count of modified lines *)

(* m_dirty moves with the line that changes: the operation first leaves it *)
(* as here (allocate), then as new; or no line's state changes; or all     *)
(* modified lines go.                                                      *)
MovesTo(i, here, new) ==
  /\ IsModifiedLine(here) => IsModifiedLine(lines[i]) /\ IsModifiedLine(new)
  /\ lines' = [lines EXCEPT ![i] = new]
  /\ dirty' = DirtyAfter(DirtyLeft(lines[i], here), here, new)

DirtyFollows ==
  \/ \E i \in Line : \E here, new : MovesTo(i, here, new)
  \/ /\ dirty' = dirty
     /\ \A i \in Line : IsModifiedLine(lines'[i]) <=> IsModifiedLine(lines[i])
  \/ /\ dirty' = 0
     /\ \A i \in Line : ~IsModifiedLine(lines'[i])

LEMMA CountedStaysExact ==
  ASSUME lines \in [Line -> CacheBlockT], DirtyExact, DirtyFollows
  PROVE  DirtyExact'
<1>1. Cardinality(ModifiedLines) \in Nat
  BY ModifiedFinite
<1>2. CASE \E i \in Line : \E here, new : MovesTo(i, here, new)
  <2>0. PICK i \in Line : \E here, new : MovesTo(i, here, new)
    BY <1>2
  <2>1. PICK here, new : MovesTo(i, here, new)
    BY <2>0
  <2>2. /\ (IsModifiedLine(new) <=> IsModifiedLine(lines[i])) =>
              Cardinality(ModifiedLines') = Cardinality(ModifiedLines)
        /\ IsModifiedLine(new) /\ ~IsModifiedLine(lines[i]) =>
              Cardinality(ModifiedLines') = Cardinality(ModifiedLines) + 1
        /\ ~IsModifiedLine(new) /\ IsModifiedLine(lines[i]) =>
              Cardinality(ModifiedLines') = Cardinality(ModifiedLines) - 1
    BY <2>1, ModifiedCount DEF MovesTo
  <2>3. dirty = Cardinality(ModifiedLines)
    BY DEF DirtyExact
  <2>4. dirty' = Cardinality(ModifiedLines')
    <3>1. /\ IsModifiedLine(here) => IsModifiedLine(lines[i]) /\ IsModifiedLine(new)
          /\ dirty' = DirtyAfter(DirtyLeft(lines[i], here), here, new)
      BY <2>1 DEF MovesTo
    <3>2. CASE IsModifiedLine(new) /\ ~IsModifiedLine(lines[i])
      BY <1>1, <2>2, <2>3, <3>1, <3>2 DEF DirtyAfter, DirtyLeft
    <3>3. CASE IsModifiedLine(new) /\ IsModifiedLine(lines[i])
      BY <1>1, <2>2, <2>3, <3>1, <3>3 DEF DirtyAfter, DirtyLeft
    <3>4. CASE ~IsModifiedLine(new)
      BY <1>1, <2>2, <2>3, <3>1, <3>4 DEF DirtyAfter, DirtyLeft
    <3> QED
      BY <3>2, <3>3, <3>4
  <2> QED
    BY <2>4 DEF DirtyExact
<1>3. CASE /\ dirty' = dirty
           /\ \A i \in Line : IsModifiedLine(lines'[i]) <=> IsModifiedLine(lines[i])
  <2>1. ModifiedLines' = ModifiedLines
    BY <1>3 DEF ModifiedLines, IsModifiedLine
  <2> QED
    BY <1>3, <2>1 DEF DirtyExact
<1>4. CASE dirty' = 0 /\ \A i \in Line : ~IsModifiedLine(lines'[i])
  <2>1. ModifiedLines' = {}
    BY <1>4 DEF ModifiedLines, IsModifiedLine
  <2> QED
    BY <1>4, <2>1, FS_EmptySet DEF DirtyExact
<1> QED
  BY <1>2, <1>3, <1>4 DEF DirtyFollows

(* Every access: the one thing that makes a line clean without counting it *)
(* is the invalidation of a written sector by write evict.                 *)
LEMMA AccessCounted ==
  ASSUME IInv, Steady, NEW m \in Mf, NEW r \in Issuable,
         ReadOnlyAccess(m, r) \/ DataAccess(m, r)
  PROVE  DirtyFollows
<1>1. r \in Request
  BY RequestAssumption DEF Issuable
<1>2. lines \in [Line -> CacheBlockT] /\ policy \in Config /\ TagInv
  BY IInvParts
<1>3. r.blk \in Nat /\ r.sec \in Sector
  BY <1>1, RequestParts
<1>4. ASSUME NEW wr, NEW p \in Probe(r.blk, r.sec, wr), p.st = "HIT",
             \/ RdHitBase(m, r, p) \/ ReadOnlyHit(m, r, p)
             \/ WrHitWriteBack(m, r, p) \/ WrHitWriteThrough(m, r, p)
      PROVE  DirtyFollows
  <2>1. p.idx \in Line /\ lines[p.idx] \in CacheBlockT
    BY <1>2, <1>3, <1>4, ProbeFacts
  <2>2. CASE RdHitBase(m, r, p) \/ ReadOnlyHit(m, r, p)
    <3>1. dirty' = dirty /\ lines' = [lines EXCEPT ![p.idx] = PinIfDeferred(lines[p.idx])]
      BY <2>2 DEF RdHitBase, ReadOnlyHit
    <3>2. IsModifiedLine(PinIfDeferred(lines[p.idx])) <=> IsModifiedLine(lines[p.idx])
      BY <2>1, PinIfDeferredType
    <3>3. \A i \in Line : IsModifiedLine(lines'[i]) <=> IsModifiedLine(lines[i])
      BY <1>2, <2>1, <3>1, <3>2
    <3> QED
      BY <3>1, <3>3 DEF DirtyFollows
  <2>3. CASE WrHitWriteBack(m, r, p) \/ WrHitWriteThrough(m, r, p)
    <3> DEFINE new == UpdateReadable(Written(lines[p.idx], r), r.sec)
    <3>1. /\ lines' = [lines EXCEPT ![p.idx] = PinIfDeferred(new)]
          /\ dirty' = DirtyAfter(dirty, lines[p.idx], new)
      BY <2>3 DEF WrHitWriteBack, WrHitWriteThrough, WriteHitCommon
    <3>2. new \in CacheBlockT /\ new.status[r.sec] = "MODIFIED"
      BY <1>1, <2>1, WrittenFields
    <3> HIDE DEF new
    <3>3. IsModifiedLine(PinIfDeferred(new)) /\ IsModifiedLine(new)
      BY <1>3, <3>2, PinIfDeferredType DEF IsModifiedLine
    <3>4. MovesTo(p.idx, lines[p.idx], PinIfDeferred(new))
      BY <3>1, <3>3 DEF MovesTo, DirtyAfter, DirtyLeft
    <3> QED
      BY <2>1, <3>4 DEF DirtyFollows
  <2> QED
    BY <1>4, <2>2, <2>3
<1>5. ASSUME NEW wr, NEW p \in Probe(r.blk, r.sec, wr),
             \/ RdMissBase(m, r, p) \/ ReadOnlyMiss(m, r, p)
             \/ WrMissNaive(m, r, p) \/ WrMissLazyFetch(m, r, p)
      PROVE  DirtyFollows
  <2> DEFINE t == TagAccess(p, r.blk, r.sec)
             pinned == PinIfDeferred(t.line)
  <2>1. p.st # "RESERVATION_FAIL"
    BY <1>5 DEF RdMissBase, ReadOnlyMiss, WrMissNaive, WrMissLazyFetch
  <2>2. /\ p.idx \in Line /\ t.line \in CacheBlockT
        /\ IsModifiedLine(t.line) => IsModifiedLine(lines[p.idx])
        /\ t.dirty = DirtyLeft(lines[p.idx], t.line)
    BY <1>2, <1>3, <2>1, TagAccessFacts
  <2>3. CASE RdMissBase(m, r, p) \/ ReadOnlyMiss(m, r, p) \/ WrMissNaive(m, r, p)
    <3>1. dirty' = t.dirty /\ lines' = [lines EXCEPT ![p.idx] = pinned]
      BY <2>3 DEF RdMissBase, ReadOnlyMiss, WrMissNaive
    <3>2. IsModifiedLine(pinned) <=> IsModifiedLine(t.line)
      BY <2>2, PinIfDeferredType
    <3> HIDE DEF t, pinned
    <3>3. MovesTo(p.idx, t.line, pinned)
      BY <2>2, <3>1, <3>2 DEF MovesTo, DirtyAfter
    <3> QED
      BY <2>2, <3>3 DEF DirtyFollows
  <2>4. CASE WrMissLazyFetch(m, r, p)
    <3> DEFINE new == LazyBlock(t.line, r, p.st = "HIT_RESERVED")
    <3>1. /\ lines' = [lines EXCEPT ![p.idx] = new]
          /\ dirty' = DirtyAfter(t.dirty, t.line, new)
      BY <1>1, <2>4, LazyMissBlock
    <3>2. new.status[r.sec] = "MODIFIED"
      <4>1. \A q \in BOOLEAN : LazyBlock(t.line, r, q).status[r.sec] = "MODIFIED"
        BY <1>1, <2>2, LazyFields
      <4> QED
        BY <4>1
    <3> HIDE DEF t, new
    <3>3. IsModifiedLine(new)
      BY <1>3, <3>2 DEF IsModifiedLine
    <3>4. MovesTo(p.idx, t.line, new)
      BY <2>2, <3>1, <3>3 DEF MovesTo
    <3> QED
      BY <2>2, <3>4 DEF DirtyFollows
  <2> QED
    BY <1>5, <2>3, <2>4
<1>6. CASE \E p : WrMissNoAllocate(m, r, p)
  BY <1>6 DEF WrMissNoAllocate, tagVars, DirtyFollows
<1>7. CASE ReadOnlyAccess(m, r)
  <2>1. PICK p \in Probe(r.blk, r.sec, FALSE) :
          ReadOnlyHit(m, r, p) \/ ReadOnlyMiss(m, r, p)
    BY <1>7 DEF ReadOnlyAccess
  <2>2. ReadOnlyHit(m, r, p) => p.st = "HIT"
    BY DEF ReadOnlyHit
  <2> QED
    BY <1>4, <1>5, <2>1, <2>2
<1>8. CASE DataAccess(m, r)
  <2>1. PICK p \in Probe(r.blk, r.sec, r.wr) :
          IF r.wr THEN WriteAccess(m, r, p) ELSE ReadAccess(m, r, p)
    BY <1>8 DEF DataAccess
  <2>2. ~WrHitWriteEvict(m, r, p) /\ ~WrMissFetchFull(m, r, p) /\ ~WrMissFetchPartial(m, r, p)
    BY DEF WrHitWriteEvict, WrMissFetchFull, WrMissFetchPartial, Steady
  <2> QED
    BY <1>4, <1>5, <1>6, <2>1, <2>2 DEF WriteAccess, ReadAccess
<1> QED
  BY <1>7, <1>8

-----------------------------------------------------------------------------
(* What an access carries over *)

(* The access changes line i at most.  A line that is waited for keeps     *)
(* everything; a byte that only the cache holds is not lost with the line; *)
(* the read that is sent has a reserved sector to fill.                    *)
Carried(m, r, i) ==
  /\ i \in Line
  /\ \A j \in Line \ {i} : lines'[j] = lines[j]
  /\ IsPinned(lines[i]) \/ IsReservedLine(lines[i]) => Carries(lines[i], lines'[i])
  /\ \A u \in unsent' : Has(lines'[i], u) \/ (u \in unsent /\ ~Has(lines[i], u))
  /\ \/ extra_mf_fields' = extra_mf_fields
     \/ /\ lines'[i].tag = r.blk /\ lines'[i].status[r.sec] = "RESERVED"
        /\ \E n : extra_mf_fields' =
             [extra_mf_fields EXCEPT ![m] =
                [key |-> KeyOf(r), idx |-> i, pending_read |-> n]]

(* Under the other policies every write goes to the memory below at once.  *)
WrittenThrough == policy.write # "WRITE_BACK" => unsent = {}

(* The hits of a cache that writes back or through.                        *)
LEMMA HitCarried ==
  ASSUME IInv, NEW m \in Mf, NEW r \in Request, NEW wr,
         NEW p \in Probe(r.blk, r.sec, wr), p.st = "HIT",
         \/ RdHitBase(m, r, p) \/ ReadOnlyHit(m, r, p)
         \/ WrHitWriteBack(m, r, p) \/ WrHitWriteThrough(m, r, p)
  PROVE  Carried(m, r, p.idx)
<1> DEFINE old == lines[p.idx]
           wrt == UpdateReadable(Written(old, r), r.sec)
<1>1. lines \in [Line -> CacheBlockT] /\ unsent \subseteq Key \X Byte
  BY IInvParts
<1>2. r.blk \in Nat /\ r.sec \in Sector
  BY RequestParts
<1>3. /\ p.idx \in Line /\ old \in CacheBlockT /\ old.tag = r.blk
      /\ old.status[r.sec] # "RESERVED"
  BY <1>1, <1>2, ProbeFacts, ProbeStatus DEF Matches
<1>4. extra_mf_fields' = extra_mf_fields
  BY DEF RdHitBase, ReadOnlyHit, WrHitWriteBack, WrHitWriteThrough, WriteHitCommon, missVars
<1>5. CASE RdHitBase(m, r, p) \/ ReadOnlyHit(m, r, p)
  <2>1. lines' = [lines EXCEPT ![p.idx] = PinIfDeferred(old)] /\ unsent' = unsent
    BY <1>5 DEF RdHitBase, ReadOnlyHit
  <2>2. Carries(old, PinIfDeferred(old))
    BY <1>3, SameCarries, PinsCarry
  <2>3. \A u \in unsent : Has(old, u) => Has(PinIfDeferred(old), u)
    BY <1>1, <2>2, CarriesBytes
  <2>4. lines'[p.idx] = PinIfDeferred(old) /\ \A j \in Line \ {p.idx} : lines'[j] = lines[j]
    BY <1>1, <1>3, <2>1
  <2> QED
    BY <1>3, <1>4, <2>1, <2>2, <2>3, <2>4 DEF Carried
<1>6. CASE WrHitWriteBack(m, r, p) \/ WrHitWriteThrough(m, r, p)
  <2>1. /\ lines' = [lines EXCEPT ![p.idx] = PinIfDeferred(wrt)]
        /\ unsent' \subseteq unsent \cup BytesOf(r)
    BY <1>6 DEF WrHitWriteBack, WrHitWriteThrough, WriteHitCommon
  <2>2. /\ wrt \in CacheBlockT /\ wrt.tag = r.blk /\ wrt.status[r.sec] = "MODIFIED"
        /\ MaskOf(r) \subseteq wrt.dirty_byte_mask
    BY <1>3, WrittenFields
  <2>3. Carries(old, wrt)
    BY <1>3, WrittenCarries
  <2> DEFINE new == PinIfDeferred(wrt)
  <2>4. Carries(old, new) /\ Carries(wrt, new)
    <3> HIDE DEF wrt
    <3> QED
      BY <2>2, <2>3, SameCarries, PinsCarry
  <2>5. \A u \in unsent : Has(old, u) => Has(new, u)
    <3> HIDE DEF new, old
    <3> QED
      BY <1>1, <2>4, CarriesBytes
  <2>6. \A u \in BytesOf(r) : Has(new, u)
    <3> HIDE DEF new, wrt
    <3>1. BytesOf(r) \subseteq Key \X Byte
      BY RequestParts
    <3> QED
      BY <2>2, <2>4, <3>1, WrittenHas, CarriesBytes
  <2>7. lines'[p.idx] = new /\ \A j \in Line \ {p.idx} : lines'[j] = lines[j]
    BY <1>1, <1>3, <2>1
  <2> HIDE DEF new
  <2> QED
    BY <1>3, <1>4, <2>1, <2>4, <2>5, <2>6, <2>7 DEF Carried
<1> QED
  BY <1>5, <1>6

(* A line that is replaced has all it holds alone written back.            *)
LEMMA EvictedWrittenBack ==
  ASSUME NEW b, NEW s, NEW p, p.st = "MISS",
         policy.alloc = "ON_MISS", policy.write = "WRITE_BACK",
         ~IsReservedLine(lines[p.idx]), unsent \subseteq Key \X Byte,
         NEW u \in unsent, Has(lines[p.idx], u)
  PROVE  u \in WrittenBack(TagAccess(p, b, s))
<1> DEFINE t == TagAccess(p, b, s)
<1>1. u[1][2] \in Sector
  BY DEF Key
<1>2. /\ lines[p.idx].tag = u[1][1]
      /\ <<u[1][2], u[2]>> \in lines[p.idx].dirty_byte_mask
      /\ lines[p.idx].status[u[1][2]] = "MODIFIED"
  BY <1>1 DEF Has, Unsaved, IsReservedLine
<1>3. IsModifiedLine(lines[p.idx])
  BY <1>1, <1>2 DEF IsModifiedLine
<1>4. t.evicted = lines[p.idx] /\ t.wb
  BY <1>3 DEF TagAccess
<1>5. WriteBack(t) # <<>>
  BY <1>4 DEF WriteBack
<1> HIDE DEF t
<1>6. u \in WrittenBack(t)
  BY <1>2, <1>4, <1>5 DEF WrittenBack
<1> QED
  BY <1>6 DEF t

(* The line that access leaves, for the three kinds of miss.               *)
LEMMA TagAccessCarries ==
  ASSUME lines \in [Line -> CacheBlockT], policy \in Config, policy.alloc = "ON_MISS",
         NEW b \in Nat, NEW s \in Sector, NEW wr, NEW p \in Probe(b, s, wr),
         p.st \notin {"HIT", "RESERVATION_FAIL"}
  PROVE  LET old  == lines[p.idx]
             line == TagAccess(p, b, s).line
         IN  /\ p.idx \in Line
             /\ line \in CacheBlockT /\ line.tag = b /\ line.status[s] = "RESERVED"
             /\ p.st = "MISS" => ~IsPinned(old) /\ ~IsReservedLine(old)
             /\ p.st # "MISS" => Carries(old, line)
<1> DEFINE old  == lines[p.idx]
           line == TagAccess(p, b, s).line
<1>1. /\ p.st \in {"HIT", "HIT_RESERVED", "MISS", "SECTOR_MISS"}
      /\ p.idx \in Line /\ old \in CacheBlockT
      /\ p.st = "MISS" => ~IsPinned(old) /\ ~IsReservedLine(old)
      /\ p.st # "MISS" => old.tag = b
  BY ProbedLine
<1>2. line \in CacheBlockT /\ line.tag = b
  BY TagAccessTag
<1>3. /\ p.st = "MISS" => line = Allocate(policy.type, old, b, s)
      /\ p.st = "SECTOR_MISS" => line = AllocateSector(old, s)
      /\ p.st \notin {"MISS", "SECTOR_MISS"} => line = old
  BY TagAccessCases
<1>4. /\ p.st = "HIT_RESERVED" => old.status[s] = "RESERVED"
      /\ p.st = "SECTOR_MISS" => old.status[s] # "RESERVED"
  BY ProbeStatus
<1> HIDE DEF old, line
<1>5. p.st = "MISS" => line.status[s] = "RESERVED"
  <2>1. Allocate(policy.type, old, b, s).status[s] = "RESERVED"
    BY <1>1 DEF Allocate, InitBlock, CacheBlockT
  <2> QED
    BY <1>3, <2>1
<1>6. p.st = "SECTOR_MISS" => line.status[s] = "RESERVED" /\ Carries(old, line)
  BY <1>1, <1>3, <1>4, AllocateSectorHere, AllocateSectorCarries
<1>7. p.st = "HIT_RESERVED" => line.status[s] = "RESERVED" /\ Carries(old, line)
  BY <1>3, <1>4, SameCarries
<1> QED
  BY <1>1, <1>2, <1>5, <1>6, <1>7 DEF old, line

(* The misses that ask for their line.                                     *)
LEMMA ReadCarried ==
  ASSUME IInv, Steady, WrittenThrough, NEW m \in Mf, NEW r \in Request, NEW wr,
         NEW p \in Probe(r.blk, r.sec, wr), p.st # "HIT",
         \/ RdMissBase(m, r, p) \/ WrMissNaive(m, r, p)
         \/ ReadOnlyMiss(m, r, p) /\ policy.write = "READ_ONLY"
  PROVE  Carried(m, r, p.idx)
<1> DEFINE old  == lines[p.idx]
           t    == TagAccess(p, r.blk, r.sec)
           line == t.line
           new  == PinIfDeferred(line)
<1>1. /\ lines \in [Line -> CacheBlockT] /\ policy \in Config
      /\ unsent \subseteq Key \X Byte /\ policy.alloc = "ON_MISS"
  BY IInvParts DEF Steady
<1>2. r.blk \in Nat /\ r.sec \in Sector
  BY RequestParts
<1>3. /\ p.st # "RESERVATION_FAIL"
      /\ lines' = [lines EXCEPT ![p.idx] = new]
      /\ \E before, after : SendReadRequest(m, r, p.idx, before, after)
      /\ unsent' \subseteq unsent
  BY DEF RdMissBase, ReadOnlyMiss, WrMissNaive
<1>4. policy.write # "READ_ONLY" => unsent' \cap WrittenBack(t) = {}
  BY DEF RdMissBase, ReadOnlyMiss, WrMissNaive
<1>5. /\ p.idx \in Line
      /\ line \in CacheBlockT /\ line.tag = r.blk /\ line.status[r.sec] = "RESERVED"
      /\ p.st = "MISS" => ~IsPinned(old) /\ ~IsReservedLine(old)
      /\ p.st # "MISS" => Carries(old, line)
  BY <1>1, <1>2, <1>3, TagAccessCarries
<1>6. \A u \in unsent' : p.st = "MISS" => u \in unsent /\ ~Has(old, u)
  <2> SUFFICES ASSUME NEW u \in unsent', p.st = "MISS", Has(old, u) PROVE FALSE
    BY <1>3
  <2>1. policy.write = "WRITE_BACK" /\ u \in unsent /\ u \notin WrittenBack(t)
    BY <1>3, <1>4 DEF WrittenThrough
  <2> HIDE DEF t
  <2>2. u \in WrittenBack(TagAccess(p, r.blk, r.sec))
    BY <1>1, <1>5, <2>1, EvictedWrittenBack
  <2> QED
    BY <2>1, <2>2 DEF t
<1>7. /\ lines'[p.idx] = new
      /\ \A j \in Line \ {p.idx} : lines'[j] = lines[j]
  BY <1>1, <1>3, <1>5
<1>8. \/ extra_mf_fields' = extra_mf_fields
      \/ \E n : extra_mf_fields' =
           [extra_mf_fields EXCEPT ![m] =
              [key |-> KeyOf(r), idx |-> p.idx, pending_read |-> n]]
  BY <1>3 DEF SendReadRequest
<1> HIDE DEF line
<1>9. new.tag = r.blk /\ new.status[r.sec] = "RESERVED"
  BY <1>5, PinsSameBlock DEF SameBlock
<1>10. p.st # "MISS" => Carries(old, new)
  BY <1>5, PinsCarry
<1> HIDE DEF new, old
<1>11. \A u \in unsent' : Has(new, u) \/ (u \in unsent /\ ~Has(old, u))
  BY <1>1, <1>3, <1>6, <1>10, CarriesBytes
<1>12. IsPinned(old) \/ IsReservedLine(old) => Carries(old, new)
  BY <1>5, <1>10
<1> QED
  BY <1>5, <1>7, <1>8, <1>9, <1>11, <1>12 DEF Carried, old

(* A lazy write: its sector waits for a fill already, or the line is not   *)
(* waited for, or the sector was invalid.                                  *)
LEMMA LazyCarried ==
  ASSUME IInv, Steady, WrittenThrough, policy.write # "READ_ONLY",
         NEW m \in Mf, NEW r \in Request, NEW wr,
         NEW p \in Probe(r.blk, r.sec, wr), p.st # "HIT", WrMissLazyFetch(m, r, p),
         p.st = "SECTOR_MISS" => lines[p.idx].status[r.sec] # "MODIFIED"
  PROVE  Carried(m, r, p.idx)
<1> DEFINE old  == lines[p.idx]
           t    == TagAccess(p, r.blk, r.sec)
           line == t.line
           wait == p.st = "HIT_RESERVED"
           new  == LazyBlock(line, r, wait)
<1>1. /\ lines \in [Line -> CacheBlockT] /\ policy \in Config
      /\ unsent \subseteq Key \X Byte /\ policy.alloc = "ON_MISS"
      /\ policy.write # "WRITE_BACK" => unsent = {}
  BY IInvParts DEF Steady, WrittenThrough
<1>2. r.blk \in Nat /\ r.sec \in Sector
  BY RequestParts
<1>3. p.st # "RESERVATION_FAIL" /\ policy.defer /\ extra_mf_fields' = extra_mf_fields
  BY DEF WrMissLazyFetch, Steady
<1>4. lines' = [lines EXCEPT ![p.idx] = new]
  BY LazyMissBlock
<1>5. /\ p.idx \in Line
      /\ line \in CacheBlockT /\ line.tag = r.blk
      /\ p.st = "MISS" => ~IsPinned(old) /\ ~IsReservedLine(old)
      /\ p.st # "MISS" => Carries(old, line)
  BY <1>1, <1>2, <1>3, TagAccessCarries
<1>6. /\ new.tag = line.tag /\ new.status[r.sec] = "MODIFIED"
      /\ MaskOf(r) \subseteq new.dirty_byte_mask
  <2>1. \A q \in BOOLEAN : /\ LazyBlock(line, r, q).tag = line.tag
                           /\ LazyBlock(line, r, q).status[r.sec] = "MODIFIED"
                           /\ MaskOf(r) \subseteq LazyBlock(line, r, q).dirty_byte_mask
    BY <1>5, LazyFields
  <2> QED
    BY <2>1
<1>7. p.st # "MISS" => Carries(old, new)
  <2> SUFFICES ASSUME p.st # "MISS" PROVE Carries(old, new)
    OBVIOUS
  <2>1. ~wait => ~Unsaved(old, r.sec) /\ ~Pending(old, r.sec)
    <3>1. p.st \in {"HIT_RESERVED", "SECTOR_MISS"}
      BY <1>3, <1>2, ProbeFacts
    <3> QED
      BY <1>2, <3>1, ProbeStatus DEF Unsaved, Pending
  <2>2. Carries(old, line)
    BY <1>5
  <2>3. \A q \in BOOLEAN : (~q => ~Unsaved(old, r.sec) /\ ~Pending(old, r.sec)) =>
          Carries(old, LazyBlock(line, r, q))
    BY <1>3, <1>5, <2>2, LazyCarries
  <2> QED
    BY <2>1, <2>3
<1>8. \A u \in unsent' : u \in BytesOf(r) \/ (u \in unsent /\ (p.st = "MISS" => ~Has(old, u)))
  <2>1. \A u \in unsent' : u \in BytesOf(r) \/
          (u \in unsent /\ (policy.write = "WRITE_THROUGH" \/ u \notin WrittenBack(t)))
    BY DEF WrMissLazyFetch
  <2>2. policy.write \in {"WRITE_BACK", "WRITE_THROUGH"}
    BY DEF Steady
  <2> HIDE DEF t
  <2>3. ASSUME NEW u \in unsent, p.st = "MISS", Has(old, u), policy.write = "WRITE_BACK"
        PROVE  u \in WrittenBack(TagAccess(p, r.blk, r.sec))
    BY <1>1, <1>5, <2>3, EvictedWrittenBack
  <2> QED
    BY <1>1, <2>1, <2>2, <2>3 DEF t
<1>9. /\ lines'[p.idx] = new
      /\ \A j \in Line \ {p.idx} : lines'[j] = lines[j]
  BY <1>1, <1>4, <1>5
<1> HIDE DEF new, old, line, t
<1>10. \A u \in BytesOf(r) : Has(new, u)
  BY <1>5, <1>6, WrittenHas
<1>11. \A u \in unsent' : Has(new, u) \/ (u \in unsent /\ ~Has(old, u))
  BY <1>1, <1>7, <1>8, <1>10, CarriesBytes
<1>12. IsPinned(old) \/ IsReservedLine(old) => Carries(old, new)
  BY <1>5, <1>7
<1> QED
  BY <1>3, <1>5, <1>9, <1>11, <1>12 DEF Carried, old

(* Every access of an undisturbed cache.                                   *)
LEMMA AccessCarried ==
  ASSUME IInv, Steady, WrittenThrough, NEW m \in Mf, NEW r \in Issuable,
         ReadOnlyAccess(m, r) \/ DataAccess(m, r)
  PROVE  /\ \/ UNCHANGED <<lines, extra_mf_fields>> /\ unsent' \subseteq unsent
            \/ \E i \in Line : Carried(m, r, i)
         /\ WrittenThrough'
<1>1. r \in Request /\ r.wr \in BOOLEAN
  BY RequestAssumption DEF Issuable, Request
<1>2. CASE ReadOnlyAccess(m, r)
  <2>1. PICK p \in Probe(r.blk, r.sec, FALSE) :
          ReadOnlyHit(m, r, p) \/ ReadOnlyMiss(m, r, p)
    BY <1>2 DEF ReadOnlyAccess
  <2>2. policy.write = "READ_ONLY" /\ policy' = policy /\ unsent' = unsent
    BY <1>2, <2>1 DEF ReadOnlyAccess, ReadOnlyHit, ReadOnlyMiss
  <2>3. CASE ReadOnlyHit(m, r, p)
    <3>1. p.st = "HIT"
      BY <2>3 DEF ReadOnlyHit
    <3>2. Carried(m, r, p.idx)
      BY <1>1, <2>3, <3>1, HitCarried
    <3> QED
      BY <2>2, <3>2 DEF Carried, WrittenThrough
  <2>4. CASE ReadOnlyMiss(m, r, p)
    <3>1. p.st # "HIT"
      BY <2>4 DEF ReadOnlyMiss
    <3>2. Carried(m, r, p.idx)
      BY <1>1, <2>2, <2>4, <3>1, ReadCarried
    <3> QED
      BY <2>2, <3>2 DEF Carried, WrittenThrough
  <2> QED
    BY <2>1, <2>3, <2>4
<1>3. CASE DataAccess(m, r)
  <2>1. PICK p \in Probe(r.blk, r.sec, r.wr) :
          IF r.wr THEN WriteAccess(m, r, p) ELSE ReadAccess(m, r, p)
    BY <1>3 DEF DataAccess
  <2>2. policy.write # "READ_ONLY"
    BY <1>3 DEF DataAccess
  <2>3. CASE /\ p.st = "HIT"
             /\ RdHitBase(m, r, p) \/ WrHitWriteBack(m, r, p) \/ WrHitWriteThrough(m, r, p)
    <3>1. Carried(m, r, p.idx)
      BY <1>1, <2>3, HitCarried
    <3>2. WrittenThrough'
      BY <2>3 DEF RdHitBase, WrHitWriteBack, WrHitWriteThrough, WrittenThrough, Steady
    <3> QED
      BY <3>1, <3>2 DEF Carried
  <2>4. CASE p.st # "HIT" /\ (RdMissBase(m, r, p) \/ WrMissNaive(m, r, p))
    <3>1. Carried(m, r, p.idx)
      BY <1>1, <2>4, ReadCarried
    <3>2. WrittenThrough'
      BY <2>4 DEF RdMissBase, WrMissNaive, WrittenThrough
    <3> QED
      BY <3>1, <3>2 DEF Carried
  <2>5. CASE p.st # "HIT" /\ r.wr /\ WrMissLazyFetch(m, r, p)
    <3>0. p.st = "SECTOR_MISS" => lines[p.idx].status[r.sec] # "MODIFIED"
      BY <1>1, <2>5, RequestParts, ProbeStatus
    <3>1. Carried(m, r, p.idx)
      BY <1>1, <2>2, <2>5, <3>0, LazyCarried
    <3>2. WrittenThrough'
      BY <2>2, <2>5 DEF WrMissLazyFetch, WrittenThrough, Steady
    <3> QED
      BY <3>1, <3>2 DEF Carried
  <2>6. CASE WrMissNoAllocate(m, r, p)
    BY <2>6 DEF WrMissNoAllocate, WrittenThrough, tagVars
  <2>7. /\ ~WrHitWriteEvict(m, r, p)
        /\ ~WrMissFetchFull(m, r, p) /\ ~WrMissFetchPartial(m, r, p)
    BY DEF WrHitWriteEvict, WrMissFetchFull, WrMissFetchPartial, Steady
  <2> QED
    BY <2>1, <2>3, <2>4, <2>5, <2>6, <2>7 DEF WriteAccess, ReadAccess
<1> QED
  BY <1>2, <1>3

-----------------------------------------------------------------------------
(* The other operations *)

(* fill writes one sector, and the mask of the line.                       *)
LEMMA FillFields ==
  ASSUME NEW type, NEW line \in CacheBlockT, NEW s \in Sector, NEW mask,
         NEW new, new = FillBlock(type, line, s, mask)
  PROVE  /\ new.tag = line.tag
         /\ line.dirty_byte_mask \subseteq new.dirty_byte_mask
         /\ new.set_modified_on_fill = line.set_modified_on_fill
         /\ line.set_modified_on_fill[s] => new.status[s] = "MODIFIED"
         /\ \A x \in Sector \ {s} : new.status[x] = line.status[x]
BY DEF FillBlock, CacheBlockT

(* Steps that change no block but for its pins.                            *)
LEMMA PinsOnly ==
  ASSUME IInv, [Works]_vars,
         ~\E m \in Mf, r \in Issuable : ReadOnlyAccess(m, r) \/ DataAccess(m, r),
         ~\E m \in Mf : Fill(m)
  PROVE  /\ \A i \in Line : SameBlock(lines[i], lines'[i])
         /\ dirty' = dirty /\ unsent' = unsent
<1>1. lines \in [Line -> CacheBlockT]
  BY IInvParts
<1>2. \A i \in Line : SameBlock(lines[i], lines[i]) /\ SameBlock(lines[i], Unpin(lines[i]))
  BY <1>1, PinsSameBlock DEF SameBlock
<1>3. CASE NextReadyHit \/ NextMshrAccess
  <2>1. PICK m : UnpinResponse(m)
    BY <1>3 DEF NextReadyHit, NextMshrAccess
  <2>2. dirty' = dirty /\ unsent' = unsent
    BY <1>3 DEF NextReadyHit, NextMshrAccess
  <2>3. \A i \in Line : lines'[i] \in {lines[i], Unpin(lines[i])}
    BY <1>1, <2>1 DEF UnpinResponse
  <2> QED
    BY <1>2, <2>2, <2>3
<1>4. CASE \/ \E portFull \in BOOLEAN : Cycle(portFull)
           \/ \E m \in Mf : FillChunk(m)
           \/ StopIssuing \/ UNCHANGED vars
  <2>1. lines' = lines /\ dirty' = dirty /\ unsent' = unsent
    BY <1>4 DEF Cycle, FillChunk, StopIssuing, vars, tagVars
  <2> QED
    BY <1>2, <2>1
<1> QED
  BY <1>3, <1>4 DEF Works

-----------------------------------------------------------------------------
(* The invariant *)

(* The read of m has a sector to fill.                                     *)
PendingOf(m) ==
  extra_mf_fields[m] # NoExtra =>
    LET e == extra_mf_fields[m]
    IN  lines[e.idx].tag = e.key[1] /\ Pending(lines[e.idx], e.key[2])

Held(u) == \E i \in Line : Has(lines[i], u)

DataInv ==
  /\ \A m \in Mf : PendingOf(m)
  /\ WrittenThrough
  /\ \A u \in unsent : Held(u)
  /\ DirtyExact

(* A block that waits for a fill is not replaced: it is reserved, or a     *)
(* request is recorded against it.                                         *)
LEMMA PendingIsKept ==
  ASSUME IInv, LInv, NEW m \in Mf, extra_mf_fields[m] # NoExtra, PendingOf(m)
  PROVE  LET i == extra_mf_fields[m].idx
         IN  /\ i \in Line /\ extra_mf_fields[m].key[2] \in Sector
             /\ IsPinned(lines[i]) \/ IsReservedLine(lines[i])
<1> DEFINE e == extra_mf_fields[m]
<1>1. e \in ExtraFields
  BY ReadIsOwed
<1>2. e.idx \in Line /\ e.key[2] \in Sector
  BY <1>1 DEF ExtraFields, Key
<1>3. CASE lines[e.idx].status[e.key[2]] = "RESERVED"
  BY <1>2, <1>3 DEF IsReservedLine
<1>4. CASE policy.defer
  <2>1. pending_response_indices[m] = e.idx
    BY <1>4 DEF LInv, LineOf
  <2>2. e.idx # NoLine
    BY <1>2, TagAssumption, LineFinite
  <2> QED
    BY <1>2, <2>1, <2>2, IndexPins
<1> QED
  BY <1>2, <1>3, <1>4 DEF PendingOf, Pending

(* An access.                                                              *)
LEMMA AccessData ==
  ASSUME IInv, LInv, Steady, DataInv, NEW m \in Mf, NEW r \in Issuable,
         ReadOnlyAccess(m, r) \/ DataAccess(m, r), policy' = policy
  PROVE  DataInv'
<1>1. /\ lines \in [Line -> CacheBlockT]
      /\ extra_mf_fields \in [Mf -> ExtraFields \cup {NoExtra}]
  BY IInvParts DEF QueueTypes
<1>2. /\ WrittenThrough'
      /\ \/ UNCHANGED <<lines, extra_mf_fields>> /\ unsent' \subseteq unsent
         \/ \E i \in Line : Carried(m, r, i)
  BY AccessCarried DEF DataInv
<1>3. DirtyExact'
  BY <1>1, AccessCounted, CountedStaysExact DEF DataInv
<1>4. CASE UNCHANGED <<lines, extra_mf_fields>> /\ unsent' \subseteq unsent
  BY <1>2, <1>3, <1>4 DEF DataInv, PendingOf, Held, Pending, Has, Unsaved
<1>5. ASSUME NEW i \in Line, Carried(m, r, i)
      PROVE  DataInv'
  <2>1. /\ \A j \in Line \ {i} : lines'[j] = lines[j]
        /\ IsPinned(lines[i]) \/ IsReservedLine(lines[i]) => Carries(lines[i], lines'[i])
        /\ \A u \in unsent' : Has(lines'[i], u) \/ (u \in unsent /\ ~Has(lines[i], u))
    BY <1>5 DEF Carried
  <2>2. \A u \in unsent' : Held(u)'
    <3> TAKE u \in unsent'
    <3>1. CASE Has(lines'[i], u)
      BY <3>1 DEF Held, Has, Unsaved
    <3>2. CASE u \in unsent /\ ~Has(lines[i], u)
      <4>1. PICK j \in Line : Has(lines[j], u)
        BY <3>2 DEF DataInv, Held
      <4>2. Has(lines'[j], u)
        BY <2>1, <3>2, <4>1
      <4> QED
        BY <4>2 DEF Held, Has, Unsaved
    <3> QED
      BY <2>1, <3>1, <3>2
  <2>3. ASSUME NEW x \in Mf, extra_mf_fields'[x] = extra_mf_fields[x]
        PROVE  PendingOf(x)'
    <3> SUFFICES ASSUME extra_mf_fields[x] # NoExtra
                 PROVE  LET e == extra_mf_fields[x]
                        IN  /\ lines'[e.idx].tag = e.key[1]
                            /\ Pending(lines'[e.idx], e.key[2])
      BY <2>3 DEF PendingOf, Pending
    <3> DEFINE e == extra_mf_fields[x]
    <3>1. lines[e.idx].tag = e.key[1] /\ Pending(lines[e.idx], e.key[2])
      BY DEF DataInv, PendingOf
    <3>2. /\ e.idx \in Line /\ e.key[2] \in Sector
          /\ IsPinned(lines[e.idx]) \/ IsReservedLine(lines[e.idx])
      BY PendingIsKept DEF DataInv
    <3> HIDE DEF e
    <3>3. lines'[e.idx].tag = e.key[1] /\ Pending(lines'[e.idx], e.key[2])
      <4>1. CASE e.idx = i
        BY <2>1, <3>1, <3>2, <4>1 DEF Carries
      <4>2. CASE e.idx # i
        BY <2>1, <3>1, <3>2, <4>2
      <4> QED
        BY <4>1, <4>2
    <3> QED
      BY <3>3 DEF e
  <2>4. \A x \in Mf : PendingOf(x)'
    <3>1. CASE extra_mf_fields' = extra_mf_fields
      BY <2>3, <3>1
    <3>2. CASE /\ lines'[i].tag = r.blk /\ lines'[i].status[r.sec] = "RESERVED"
               /\ \E n : extra_mf_fields' =
                    [extra_mf_fields EXCEPT ![m] =
                       [key |-> KeyOf(r), idx |-> i, pending_read |-> n]]
      <4>1. /\ \A x \in Mf \ {m} : extra_mf_fields'[x] = extra_mf_fields[x]
            /\ extra_mf_fields'[m].key = KeyOf(r) /\ extra_mf_fields'[m].idx = i
        BY <1>1, <3>2
      <4>2. PendingOf(m)'
        BY <3>2, <4>1 DEF PendingOf, Pending, KeyOf
      <4> QED
        BY <2>3, <4>1, <4>2
    <3> QED
      BY <1>5, <3>1, <3>2 DEF Carried
  <2> QED
    BY <1>2, <1>3, <2>2, <2>4 DEF DataInv
<1> QED
  BY <1>2, <1>4, <1>5

(* A step that changes no block but for its pins.                          *)
LEMMA PinsData ==
  ASSUME IInv, LInv, Steady, DataInv, Keeps(Mf),
         \A i \in Line : SameBlock(lines[i], lines'[i]),
         dirty' = dirty, unsent' = unsent
  PROVE  DataInv'
<1>1. policy' = policy
  BY DEF Keeps
<1>2. \A m \in Mf : PendingOf(m)'
  <2> TAKE m \in Mf
  <2> SUFFICES ASSUME extra_mf_fields'[m] # NoExtra
               PROVE  LET e == extra_mf_fields'[m]
                      IN  /\ lines'[e.idx].tag = e.key[1]
                          /\ Pending(lines'[e.idx], e.key[2])
    BY <1>1 DEF PendingOf, Pending
  <2>1. /\ extra_mf_fields[m] # NoExtra
        /\ extra_mf_fields'[m].key = extra_mf_fields[m].key
        /\ extra_mf_fields'[m].idx = extra_mf_fields[m].idx
    BY DEF Keeps
  <2>2. PendingOf(m) /\ extra_mf_fields[m].idx \in Line
    BY <2>1, PendingIsKept DEF DataInv
  <2> QED
    BY <2>1, <2>2 DEF PendingOf, Pending, SameBlock
<1>3. \A u \in unsent' : Held(u)'
  BY DEF DataInv, Held, Has, Unsaved, SameBlock
<1>4. DirtyExact'
  <2>1. lines \in [Line -> CacheBlockT] /\ DirtyExact
    BY IInvParts DEF DataInv
  <2>2. \A i \in Line : IsModifiedLine(lines'[i]) <=> IsModifiedLine(lines[i])
    BY DEF SameBlock, IsModifiedLine
  <2> QED
    BY <2>1, <2>2, CountedStaysExact DEF DirtyFollows
<1>5. WrittenThrough'
  BY <1>1 DEF DataInv, WrittenThrough
<1> QED
  BY <1>2, <1>3, <1>4, <1>5 DEF DataInv

(* A fill finds its sector pending, so that it leaves modified what was.   *)
LEMMA FillData ==
  ASSUME IInv, LInv, Steady, DataInv, NEW m \in Mf, Fill(m)
  PROVE  DataInv'
<1> DEFINE e   == extra_mf_fields[m]
           s   == e.key[2]
           old == lines[e.idx]
           new == FillBlock(policy.type, old, s, MaskOf(req[m]))
<1>1. /\ lines \in [Line -> CacheBlockT]
      /\ extra_mf_fields \in [Mf -> ExtraFields \cup {NoExtra}]
      /\ unsent \subseteq Key \X Byte
  BY IInvParts DEF QueueTypes
<1>2. /\ e # NoExtra /\ FillByIndex(e.idx, s, MaskOf(req[m]))
      /\ extra_mf_fields' = [extra_mf_fields EXCEPT ![m] = NoExtra]
      /\ policy' = policy /\ unsent' = unsent
  BY DEF Fill, InMemory, Steady
<1>3. /\ e.idx \in Line /\ s \in Sector /\ old \in CacheBlockT
      /\ old.tag = e.key[1] /\ Pending(old, s)
  BY <1>1, <1>2, PendingIsKept DEF DataInv, PendingOf
<1>4. /\ lines' = [lines EXCEPT ![e.idx] = new]
      /\ dirty' = DirtyAfter(dirty, old, new)
  BY <1>2 DEF FillByIndex
<1>5. /\ new.tag = old.tag
      /\ old.dirty_byte_mask \subseteq new.dirty_byte_mask
      /\ new.set_modified_on_fill = old.set_modified_on_fill
      /\ old.set_modified_on_fill[s] => new.status[s] = "MODIFIED"
      /\ \A x \in Sector \ {s} : new.status[x] = old.status[x]
  <2>1. old \in CacheBlockT /\ s \in Sector
    BY <1>3
  <2>2. new = FillBlock(policy.type, old, s, MaskOf(req[m]))
    OBVIOUS
  <2> HIDE DEF old, s, new
  <2> QED
    <3>1. new.tag = old.tag
      BY <2>1, <2>2 DEF FillBlock, CacheBlockT
    <3>2. new.set_modified_on_fill = old.set_modified_on_fill
      BY <2>1, <2>2, FillFields
    <3>3. old.dirty_byte_mask \subseteq new.dirty_byte_mask
      BY <2>1, <2>2 DEF FillBlock, CacheBlockT
    <3>4. old.set_modified_on_fill[s] => new.status[s] = "MODIFIED"
      BY <2>1, <2>2, FillFields
    <3>5. \A x \in Sector \ {s} : new.status[x] = old.status[x]
      BY <2>1, <2>2, FillFields
    <3> QED
      BY <3>1, <3>2, <3>3, <3>4, <3>5
<1>6. /\ lines'[e.idx] = new
      /\ \A j \in Line \ {e.idx} : lines'[j] = lines[j]
  BY <1>1, <1>3, <1>4
<1> HIDE DEF new
<1>7. \A x \in Sector : Unsaved(old, x) => Unsaved(new, x)
  BY <1>3, <1>5 DEF Unsaved, Pending
<1>8. IsModifiedLine(old) => IsModifiedLine(new)
  BY <1>3, <1>5 DEF IsModifiedLine, Pending
<1>9. DirtyExact'
  <2>1. MovesTo(e.idx, old, new)
    BY <1>4, <1>8 DEF MovesTo, DirtyLeft
  <2> QED
    BY <1>1, <1>3, <2>1, CountedStaysExact DEF DirtyFollows, DataInv
<1>10. \A u \in unsent' : Held(u)'
  <2> TAKE u \in unsent'
  <2>1. u \in unsent /\ u[1][2] \in Sector
    BY <1>1, <1>2 DEF Key
  <2>2. PICK j \in Line : Has(lines[j], u)
    BY <2>1 DEF DataInv, Held
  <2>3. Has(lines'[j], u)
    <3>1. CASE j = e.idx
      BY <1>5, <1>6, <1>7, <2>1, <2>2, <3>1 DEF Has
    <3>2. CASE j # e.idx
      BY <1>6, <2>2, <3>2
    <3> QED
      BY <3>1, <3>2
  <2> QED
    BY <2>3 DEF Held, Has, Unsaved
<1>11. \A x \in Mf : PendingOf(x)'
  <2> TAKE x \in Mf
  <2> DEFINE f == extra_mf_fields[x]
  <2>1. x = m => extra_mf_fields'[x] = NoExtra
    BY <1>1, <1>2
  <2>2. ASSUME x # m, f # NoExtra
        PROVE  lines'[f.idx].tag = f.key[1] /\ Pending(lines'[f.idx], f.key[2])
    <3>1. /\ f.idx \in Line /\ f.key \in Key /\ e.key \in Key
          /\ lines[f.idx].tag = f.key[1] /\ Pending(lines[f.idx], f.key[2])
      <4>1. f \in ExtraFields /\ e \in ExtraFields
        BY <1>2, <2>2, ReadIsOwed
      <4> QED
        BY <2>2, <4>1 DEF ExtraFields, DataInv, PendingOf
    <3>2. f.key # e.key
      <4>1. FillPending(m, e.key) /\ FillPending(x, f.key)
        BY <1>2, <2>2 DEF FillPending
      <4>2. MshrEntryProgresses
        BY IInvParts DEF RequestInv
      <4> QED
        BY <2>2, <3>1, <4>1, <4>2 DEF MshrEntryProgresses
    <3>3. CASE f.idx = e.idx
      <4>1. f.key[2] \in Sector \ {s}
        BY <1>3, <3>1, <3>2, <3>3 DEF Key
      <4> DEFINE y == f.key[2]
      <4>2. new.status[y] = old.status[y] /\ new.set_modified_on_fill[y] = old.set_modified_on_fill[y]
        BY <1>5, <4>1
      <4>3. Pending(old, y) /\ old.tag = f.key[1] /\ lines'[f.idx] = new
        BY <1>6, <3>1, <3>3
      <4> HIDE DEF f, s, old
      <4> QED
        BY <1>5, <4>2, <4>3 DEF Pending
    <3>4. CASE f.idx # e.idx
      BY <1>2, <1>6, <3>1, <3>4 DEF Pending
    <3> QED
      BY <3>3, <3>4
  <2>3. x # m => extra_mf_fields'[x] = f
    BY <1>1, <1>2
  <2> HIDE DEF f
  <2> QED
    BY <1>2, <2>1, <2>2, <2>3 DEF PendingOf, Pending
<1>12. WrittenThrough'
  BY <1>2 DEF DataInv, WrittenThrough
<1> QED
  BY <1>9, <1>10, <1>11, <1>12 DEF DataInv

(* Every step.                                                             *)
LEMMA DataStep ==
  ASSUME IInv, LInv, Steady => DataInv, [Works]_vars
  PROVE  (Steady => DataInv)'
<1>0. [Next]_vars
  BY WorksOnly
<1>1. policy' = policy
  <2>1. CASE \E m \in Mf, r \in Issuable : ReadOnlyAccess(m, r) \/ DataAccess(m, r)
    BY <2>1, AccessTouches
  <2>2. CASE Keeps(Mf)
    BY <2>2 DEF Keeps
  <2> QED
    BY <1>0, <2>1, <2>2, OtherKeeps
<1> SUFFICES ASSUME Steady PROVE DataInv'
  BY <1>1 DEF Steady
<1>2. CASE \E m \in Mf, r \in Issuable : ReadOnlyAccess(m, r) \/ DataAccess(m, r)
  BY <1>1, <1>2, AccessData
<1>3. CASE \E m \in Mf : Fill(m)
  BY <1>3, FillData
<1>4. CASE /\ ~\E m \in Mf, r \in Issuable : ReadOnlyAccess(m, r) \/ DataAccess(m, r)
           /\ ~\E m \in Mf : Fill(m)
  BY <1>0, <1>4, OtherKeeps, PinsOnly, PinsData
<1> QED
  BY <1>2, <1>3, <1>4

(* The initial states.                                                     *)
LEMMA DataStart ==
  ASSUME Init
  PROVE  IInv /\ LInv /\ DataInv
<1>1. IInv /\ LInv
  BY InitStep DEF Init, LInv, LineOf
<1>2. /\ lines = [i \in Line |-> InitBlock] /\ dirty = 0 /\ unsent = {}
      /\ extra_mf_fields = [m \in Mf |-> NoExtra]
  BY DEF Init, TagInit
<1>3. ModifiedLines = {}
  BY <1>2, AddressAssumption DEF ModifiedLines, IsModifiedLine, InitBlock
<1>4. DirtyExact
  BY <1>2, <1>3, FS_EmptySet DEF DirtyExact
<1> QED
  BY <1>1, <1>2, <1>4 DEF DataInv, PendingOf, WrittenThrough

(* In every reachable state.                                               *)
THEOREM DataInvariance == Spec => [](Undisturbed => DataInv)
<1> DEFINE J == (IInv /\ LInv) /\ (Undisturbed => DataInv)
<1>1. Init => J
  BY DataStart
<1>2. J /\ [Next]_vars => J'
  <2> SUFFICES ASSUME J, [Next]_vars
               PROVE  J'
    OBVIOUS
  <2>1. (IInv /\ LInv)'
    BY NextStep, LineStepHolds
  <2>2. CASE Maintenance = {}
    <3>1. (Steady => DataInv)'
      BY <2>2, WorksOnly, DataStep DEF Undisturbed
    <3> QED
      BY <2>1, <3>1 DEF Undisturbed
  <2>3. CASE Maintenance # {}
    BY <2>1, <2>3 DEF Undisturbed
  <2> QED
    BY <2>2, <2>3
<1> QED
  BY <1>1, <1>2, PTL DEF Spec

(* The bytes of every accepted write are in the memory below or modified   *)
(* in the cache, until a write back has taken them down.                   *)
THEOREM WritesKept == Spec => [](Undisturbed => NoLostWrite)
<1>1. (Undisturbed => DataInv) => (Undisturbed => NoLostWrite)
  BY DEF DataInv, Held, Has, Unsaved, NoLostWrite, HoldsByte
<1> QED
  BY <1>1, DataInvariance, PTL

(* m_dirty is the number of modified lines: the share of dirty lines that  *)
(* m_wr_percent is compared with is the real one.                          *)
THEOREM DirtyCount == Spec => [](Undisturbed => DirtyExact)
<1>1. (Undisturbed => DataInv) => (Undisturbed => DirtyExact)
  BY DEF DataInv
<1> QED
  BY <1>1, DataInvariance, PTL

(* A fill finds the block it was read for, deferred hits or not: what is   *)
(* pending is not replaced.                                                *)
THEOREM FillPendingLine == Spec => [](Undisturbed => FillFindsItsLine)
<1>1. (Undisturbed => DataInv) => (Undisturbed => FillFindsItsLine)
  BY DEF DataInv, PendingOf, FillFindsItsLine
<1> QED
  BY <1>1, DataInvariance, PTL

-----------------------------------------------------------------------------
(***************************************************************************)
(* A reserved sector waits for a fill that is on its way, in a cache that  *)
(* is undisturbed and defers its responses.  What has to be shown is that  *)
(* no miss merges into an MSHR entry whose data has come: the requests of  *)
(* that entry pin the line, its sector can be read, and the probe of the   *)
(* access therefore hits.                                                  *)
(***************************************************************************)

(* The configurations of this part.                                        *)
Deferring == Steady /\ policy.defer

-----------------------------------------------------------------------------
(* Blocks *)

(* A sector whose data every probe can use; in a line cache the probe of   *)
(* an unreadable line ends in an assert (tag_array::access).               *)
Answerable(line, s) ==
  \/ line.status[s] = "VALID"
  \/ line.status[s] = "MODIFIED" /\ (policy.type = "NORMAL" \/ line.readable[s])

(* A sector is readable, or its fill will make it so, unless it was        *)
(* written over nothing (lazy fetch on read).                              *)
Readable(line) ==
  policy.type = "SECTOR" => \A s \in Sector :
    /\ line.status[s] \in {"RESERVED", "VALID"} => line.readable[s]
    /\ line.status[s] = "MODIFIED" /\ line.set_modified_on_fill[s] =>
         line.readable[s] \/ line.set_readable_on_fill[s]

(* What a step may do to a block that somebody counts on.                  *)
Kept(old, new) ==
  /\ new.tag = old.tag
  /\ ~IsInvalidLine(old) => ~IsInvalidLine(new)
  /\ Readable(old) => /\ Readable(new)
                      /\ \A s \in Sector : Answerable(old, s) => Answerable(new, s)

LEMMA KeptTwice ==
  ASSUME NEW a, NEW b, NEW c, Kept(a, b), Kept(b, c)
  PROVE  Kept(a, c)
BY DEF Kept

LEMMA TypeIsKnown == policy \in Config => policy.type \in {"NORMAL", "SECTOR"}
BY DEF Config, CacheType

(* pin and unpin                                                           *)
LEMMA PinsKeep ==
  ASSUME NEW line \in CacheBlockT, NEW new, SameBlock(line, new)
  PROVE  Kept(line, new)
BY DEF SameBlock, Kept, IsInvalidLine, Answerable, Readable

(* A write hit.                                                            *)
LEMMA WrittenKeeps ==
  ASSUME policy \in Config, NEW line \in CacheBlockT, NEW r \in Request,
         line.status[r.sec] \in {"VALID", "MODIFIED"}
  PROVE  Kept(line, UpdateReadable(Written(line, r), r.sec))
<1> DEFINE new == UpdateReadable(Written(line, r), r.sec)
<1>0. r.sec \in Sector
  BY RequestParts
<1>1. /\ new.tag = line.tag
      /\ new.status[r.sec] = "MODIFIED"
      /\ \A s \in Sector \ {r.sec} : new.status[s] = line.status[s]
      /\ new.set_modified_on_fill = line.set_modified_on_fill
      /\ new.set_readable_on_fill = line.set_readable_on_fill
      /\ \A s \in Sector : line.readable[s] => new.readable[s]
  BY WrittenFields
<1> HIDE DEF new
<1>2. ~IsInvalidLine(new)
  BY <1>0, <1>1 DEF IsInvalidLine
<1>3. Readable(line) => Readable(new)
  BY <1>0, <1>1 DEF Readable, Answerable
<1>4. ASSUME Readable(line), NEW s \in Sector, Answerable(line, s)
      PROVE  Answerable(new, s)
  <2>1. CASE s = r.sec
    <3>1. policy.type = "SECTOR" /\ line.status[s] = "VALID" => line.readable[s]
      BY <1>4 DEF Readable
    <3> QED
      BY <1>1, <1>4, <2>1, <3>1, TypeIsKnown DEF Answerable
  <2>2. CASE s # r.sec
    BY <1>1, <1>4, <2>2 DEF Answerable
  <2> QED
    BY <2>1, <2>2
<1> QED
  BY <1>1, <1>2, <1>3, <1>4 DEF Kept, new

(* A sector miss on a sector that no probe could use.                      *)
LEMMA AllocateSectorKeeps ==
  ASSUME NEW line \in CacheBlockT, NEW s \in Sector, ~Answerable(line, s)
  PROVE  Kept(line, AllocateSector(line, s))
<1> DEFINE new == AllocateSector(line, s)
<1>1. new.tag = line.tag /\ new.status[s] = "RESERVED" /\ new.readable[s]
  BY AllocateSectorHere
<1>2. \A x \in Sector \ {s} :
         /\ new.status[x] = line.status[x]
         /\ new.set_modified_on_fill[x] = line.set_modified_on_fill[x]
         /\ new.set_readable_on_fill[x] = line.set_readable_on_fill[x]
         /\ new.readable[x] = line.readable[x]
  BY AllocateSectorElsewhere
<1> HIDE DEF new
<1>3. ~IsInvalidLine(new)
  BY <1>1 DEF IsInvalidLine
<1>4. \A x \in Sector : Answerable(line, x) => Answerable(new, x)
  BY <1>2 DEF Answerable
<1>5. Readable(line) => Readable(new)
  <2> SUFFICES ASSUME Readable(line), policy.type = "SECTOR", NEW x \in Sector
               PROVE  /\ new.status[x] \in {"RESERVED", "VALID"} => new.readable[x]
                      /\ new.status[x] = "MODIFIED" /\ new.set_modified_on_fill[x] =>
                           new.readable[x] \/ new.set_readable_on_fill[x]
    BY DEF Readable
  <2>1. CASE x = s
    BY <1>1, <2>1
  <2>2. CASE x # s
    BY <1>2, <2>2 DEF Readable
  <2> QED
    BY <2>1, <2>2
<1> QED
  BY <1>1, <1>3, <1>4, <1>5 DEF Kept, new

(* Its fill will leave a sector modified only if it was.                   *)
LEMMA AllocateSectorClean ==
  ASSUME NEW line \in CacheBlockT, NEW s \in Sector, line.status[s] # "MODIFIED"
  PROVE  ~AllocateSector(line, s).set_modified_on_fill[s]
BY DEF AllocateSector, CacheBlockT

(* A sector cache replaces a line by one with nothing but the reserved     *)
(* sector.                                                                 *)
LEMMA AllocateReadable ==
  ASSUME NEW line \in CacheBlockT, NEW b \in Nat, NEW s \in Sector
  PROVE  LET new == Allocate(policy.type, line, b, s)
         IN  /\ Readable(new)
             /\ policy.type = "SECTOR" => new.set_modified_on_fill[s] = FALSE
BY DEF Allocate, InitBlock, Readable

LEMMA AllocateReservesOne ==
  ASSUME NEW type, NEW line \in CacheBlockT, NEW b, NEW s \in Sector,
         ~IsReservedLine(line), NEW x \in Sector \ {s}
  PROVE  Allocate(type, line, b, s).status[x] # "RESERVED"
BY DEF Allocate, InitBlock, IsReservedLine, CacheBlockT

(* The fill of a pending sector.                                           *)
LEMMA FillKeepsBlock ==
  ASSUME policy \in Config, NEW line \in CacheBlockT, NEW s \in Sector, NEW mask,
         Pending(line, s), NEW new, new = FillBlock(policy.type, line, s, mask)
  PROVE  /\ Kept(line, new)
         /\ new.status[s] \in {"VALID", "MODIFIED"}
         /\ Readable(line) => Answerable(new, s)
<1>1. /\ new.tag = line.tag
      /\ new.set_modified_on_fill = line.set_modified_on_fill
      /\ \A x \in Sector \ {s} : new.status[x] = line.status[x]
  BY DEF FillBlock, CacheBlockT
<1>2. new.status[s] \in {"VALID", "MODIFIED"}
  BY DEF FillBlock, CacheBlockT
<1>3. new.readable[s] = (line.readable[s] \/ line.set_readable_on_fill[s])
  BY DEF FillBlock, CacheBlockT
<1>4. \A x \in Sector \ {s} :
        /\ new.readable[x] = line.readable[x]
        /\ new.set_readable_on_fill[x] = line.set_readable_on_fill[x]
  BY DEF FillBlock, CacheBlockT
<1>5. Readable(line) /\ policy.type = "SECTOR" => new.readable[s]
  BY <1>3 DEF Readable, Pending
<1>6. Readable(line) => Readable(new)
  <2> SUFFICES ASSUME Readable(line), policy.type = "SECTOR", NEW x \in Sector
               PROVE  /\ new.status[x] \in {"RESERVED", "VALID"} => new.readable[x]
                      /\ new.status[x] = "MODIFIED" /\ new.set_modified_on_fill[x] =>
                           new.readable[x] \/ new.set_readable_on_fill[x]
    BY DEF Readable
  <2>1. CASE x = s
    BY <1>5, <2>1
  <2>2. CASE x # s
    BY <1>1, <1>4, <2>2 DEF Readable
  <2> QED
    BY <2>1, <2>2
<1>7. Readable(line) => Answerable(new, s)
  BY <1>2, <1>5, TypeIsKnown DEF Answerable
<1>8. ~IsInvalidLine(new)
  BY <1>2 DEF IsInvalidLine
<1>9. ASSUME Readable(line), NEW x \in Sector, Answerable(line, x)
      PROVE  Answerable(new, x)
  <2>1. CASE x = s
    BY <1>7, <1>9, <2>1
  <2>2. CASE x # s
    BY <1>1, <1>4, <1>9, <2>2 DEF Answerable
  <2> QED
    BY <2>1, <2>2
<1> QED
  BY <1>1, <1>2, <1>6, <1>7, <1>8, <1>9 DEF Kept

-----------------------------------------------------------------------------
(* Lines and probes *)

(* A block is in one line at most, and that line is in its set.            *)
OneCopy ==
  \A i, j \in Line :
     ~IsInvalidLine(lines[i]) /\ ~IsInvalidLine(lines[j]) /\ lines[i].tag = lines[j].tag
       => i = j

InItsSet == \A i \in Line : ~IsInvalidLine(lines[i]) => i \in Ways(lines[i].tag)

AllReadable == \A i \in Line : Readable(lines[i])

LinesInv == OneCopy /\ InItsSet /\ AllReadable

(* A line that changes keeps its block, or takes one that no line has.     *)
LEMMA OneLineChanges ==
  ASSUME lines \in [Line -> CacheBlockT], LinesInv, policy' = policy,
         NEW i \in Line, NEW new, lines' = [lines EXCEPT ![i] = new],
         Readable(new),
         \/ new.tag = lines[i].tag /\ ~IsInvalidLine(lines[i])
         \/ /\ i \in Ways(new.tag)
            /\ \A j \in Line : ~IsInvalidLine(lines[j]) => lines[j].tag # new.tag
  PROVE  LinesInv'
<1>1. /\ lines'[i] = new
      /\ \A j \in Line \ {i} : lines'[j] = lines[j]
  OBVIOUS
<1>2. OneCopy'
  BY <1>1 DEF LinesInv, OneCopy, IsInvalidLine
<1>3. InItsSet'
  BY <1>1 DEF LinesInv, InItsSet, IsInvalidLine, Ways
<1>4. AllReadable'
  BY <1>1 DEF LinesInv, AllReadable, Readable
<1> QED
  BY <1>2, <1>3, <1>4 DEF LinesInv

(* All lines keep their blocks.                                            *)
LEMMA BlocksStay ==
  ASSUME LinesInv, policy' = policy,
         \A i \in Line : SameBlock(lines[i], lines'[i])
  PROVE  LinesInv'
<1>1. OneCopy'
  BY DEF LinesInv, OneCopy, IsInvalidLine, SameBlock
<1>2. InItsSet'
  BY DEF LinesInv, InItsSet, IsInvalidLine, Ways, SameBlock
<1>3. AllReadable'
  BY DEF LinesInv, AllReadable, Readable, SameBlock
<1> QED
  BY <1>1, <1>2, <1>3 DEF LinesInv

(* The line of a probe, and what a miss says of the other lines.           *)
LEMMA ProbeMatches ==
  ASSUME NEW b \in Nat, NEW s, NEW wr, NEW p \in Probe(b, s, wr)
  PROVE  /\ p.st # "RESERVATION_FAIL" => p.idx \in Ways(b)
         /\ p.st = "MISS" => \A i \in Ways(b) : ~Matches(i, b)
         /\ p.st \notin {"MISS", "RESERVATION_FAIL"} =>
              Matches(p.idx, b) /\ p.st = StatusOnMatch(p.idx, s, wr)
         /\ (\E i \in Ways(b) : Matches(i, b)) => p.st \notin {"MISS", "RESERVATION_FAIL"}
<1> DEFINE matching == {i \in Ways(b) : Matches(i, b)}
           first    == {i \in matching : \A j \in matching : i <= j}
<1>1. \A i : StatusOnMatch(i, s, wr) \in {"HIT", "HIT_RESERVED", "SECTOR_MISS"}
  BY DEF StatusOnMatch
<1>2. CASE matching # {}
  <2>1. \E i \in first : p = [st |-> StatusOnMatch(i, s, wr), idx |-> i]
    BY <1>2 DEF Probe
  <2>2. PICK i \in Ways(b) : Matches(i, b) /\ p.st = StatusOnMatch(i, s, wr) /\ p.idx = i
    BY <2>1
  <2> QED
    BY <1>1, <2>2
<1>3. CASE matching = {}
  <2>1. \/ \E i \in Victims(b) : p = [st |-> "MISS", idx |-> i]
        \/ p = [st |-> "RESERVATION_FAIL", idx |-> NoLine]
    BY <1>3 DEF Probe
  <2>2. Victims(b) \subseteq Ways(b)
    BY DEF Victims
  <2>3. \A i \in Ways(b) : ~Matches(i, b)
    BY <1>3
  <2> QED
    BY <2>1, <2>2, <2>3
<1> QED
  BY <1>2, <1>3

(* The tags keep a block nowhere but in its set, so after a miss no line   *)
(* has it.                                                                 *)
LEMMA MissMeansAbsent ==
  ASSUME LinesInv, NEW b \in Nat, NEW s, NEW wr, NEW p \in Probe(b, s, wr), p.st = "MISS"
  PROVE  \A i \in Line : ~IsInvalidLine(lines[i]) => lines[i].tag # b
BY ProbeMatches DEF LinesInv, InItsSet, Matches

(* A probe for a sector whose data is there hits.                          *)
LEMMA AnswerableHits ==
  ASSUME policy \in Config, LinesInv, NEW b \in Nat, NEW s \in Sector, NEW wr \in BOOLEAN,
         NEW p \in Probe(b, s, wr), AccessAllowed(p),
         NEW i \in Line, lines[i].tag = b, Answerable(lines[i], s)
  PROVE  p.st = "HIT"
<1>1. ~IsInvalidLine(lines[i])
  BY DEF IsInvalidLine, Answerable
<1>2. i \in Ways(b) /\ Matches(i, b)
  BY <1>1 DEF LinesInv, InItsSet, Matches
<1>3. p.st \notin {"MISS", "RESERVATION_FAIL"}
  BY <1>2, ProbeMatches
<1>4. p.idx \in Line /\ Matches(p.idx, b) /\ p.st = StatusOnMatch(p.idx, s, wr)
  BY <1>3, ProbeMatches, ProbeFacts
<1>5. p.idx = i
  BY <1>1, <1>4 DEF LinesInv, OneCopy, Matches
<1>6. CASE lines[i].status[s] = "VALID"
  BY <1>4, <1>5, <1>6 DEF StatusOnMatch
<1>7. CASE lines[i].status[s] = "MODIFIED" /\ lines[i].readable[s]
  BY <1>4, <1>5, <1>7 DEF StatusOnMatch
<1>8. CASE lines[i].status[s] = "MODIFIED" /\ policy.type = "NORMAL"
  <2>1. p.st \in {"HIT", "SECTOR_MISS"}
    BY <1>4, <1>5, <1>8 DEF StatusOnMatch
  <2> QED
    BY <1>8, <2>1 DEF AccessAllowed
<1> QED
  BY <1>6, <1>7, <1>8 DEF Answerable

-----------------------------------------------------------------------------
(* What an access does to its line and to the books *)

(* The block new that the access leaves in the line of p.                  *)
Leaves(r, p, new) ==
  /\ new \in CacheBlockT
  /\ lines' = [lines EXCEPT ![p.idx] = new]
  /\ new.tag = r.blk /\ ~IsInvalidLine(new)
  /\ p.st # "MISS" => Kept(lines[p.idx], new)
  /\ p.st = "MISS" => Readable(new)
  /\ \A x \in Sector \ {r.sec} : new.status[x] = "RESERVED" =>
       p.st # "MISS" /\ lines[p.idx].status[x] = "RESERVED"

(* Either the sector is answered or written now, and the MSHR and the      *)
(* reads under way stay as they are, or it is reserved and a read is sent. *)
Serves(m, r, p) ==
  /\ p.st # "RESERVATION_FAIL"
  /\ current_response' = current_response
  /\ \E new : Leaves(r, p, new)
  /\ \/ /\ lines'[p.idx].status[r.sec] # "RESERVED"
        /\ UNCHANGED <<mshr, extra_mf_fields>>
     \/ /\ p.st # "HIT"
        /\ \E before, after : SendReadRequest(m, r, p.idx, before, after)

LEMMA PinLeaves ==
  ASSUME lines \in [Line -> CacheBlockT], NEW r, NEW p, p.idx \in Line,
         NEW line \in CacheBlockT, NEW new, new = PinIfDeferred(line),
         lines' = [lines EXCEPT ![p.idx] = new],
         line.tag = r.blk, ~IsInvalidLine(line),
         p.st # "MISS" => Kept(lines[p.idx], line),
         p.st = "MISS" => Readable(line),
         \A x \in Sector \ {r.sec} : line.status[x] = "RESERVED" =>
           p.st # "MISS" /\ lines[p.idx].status[x] = "RESERVED"
  PROVE  /\ Leaves(r, p, new)
         /\ lines'[p.idx].status[r.sec] = line.status[r.sec]
<1>1. new \in CacheBlockT /\ SameBlock(line, new)
  BY PinIfDeferredType, PinsSameBlock
<1>2. Kept(line, new)
  BY <1>1, PinsKeep
<1>3. ~IsInvalidLine(new) /\ new.tag = r.blk /\ new.status = line.status
  BY <1>1 DEF SameBlock, IsInvalidLine
<1>4. p.st # "MISS" => Kept(lines[p.idx], new)
  BY <1>2, KeptTwice
<1>5. p.st = "MISS" => Readable(new)
  BY <1>2 DEF Kept
<1>6. lines'[p.idx] = new
  OBVIOUS
<1> QED
  BY <1>1, <1>3, <1>4, <1>5, <1>6 DEF Leaves

(* The hits.                                                               *)
LEMMA HitServes ==
  ASSUME IInv, NEW m \in Mf, NEW r \in Request, NEW wr,
         NEW p \in Probe(r.blk, r.sec, wr), p.st = "HIT",
         \/ RdHitBase(m, r, p) \/ ReadOnlyHit(m, r, p)
         \/ WrHitWriteBack(m, r, p) \/ WrHitWriteThrough(m, r, p)
  PROVE  Serves(m, r, p)
<1> DEFINE old == lines[p.idx]
           wrt == UpdateReadable(Written(old, r), r.sec)
<1>1. lines \in [Line -> CacheBlockT] /\ policy \in Config
  BY IInvParts
<1>2. r.blk \in Nat /\ r.sec \in Sector
  BY RequestParts
<1>3. /\ p.idx \in Line /\ old \in CacheBlockT /\ old.tag = r.blk
      /\ ~IsInvalidLine(old) /\ p.st = StatusOnMatch(p.idx, r.sec, wr)
  BY <1>1, <1>2, ProbeFacts, ProbeMatches DEF Matches
<1>4. old.status[r.sec] \in {"VALID", "MODIFIED"}
  BY <1>3 DEF StatusOnMatch
<1>5. UNCHANGED <<mshr, current_response, extra_mf_fields>>
  BY DEF RdHitBase, ReadOnlyHit, WrHitWriteBack, WrHitWriteThrough, WriteHitCommon,
         missVars, mshrVars
<1>6. CASE RdHitBase(m, r, p) \/ ReadOnlyHit(m, r, p)
  <2>1. lines' = [lines EXCEPT ![p.idx] = PinIfDeferred(old)]
    BY <1>6 DEF RdHitBase, ReadOnlyHit
  <2>2. Kept(old, old)
    BY DEF Kept
  <2>3. /\ Leaves(r, p, PinIfDeferred(old))
        /\ lines'[p.idx].status[r.sec] = old.status[r.sec]
    BY <1>1, <1>3, <2>1, <2>2, PinLeaves
  <2> QED
    BY <1>4, <1>5, <2>3 DEF Serves
<1>7. CASE WrHitWriteBack(m, r, p) \/ WrHitWriteThrough(m, r, p)
  <2>1. lines' = [lines EXCEPT ![p.idx] = PinIfDeferred(wrt)]
    BY <1>7 DEF WrHitWriteBack, WrHitWriteThrough, WriteHitCommon
  <2>2. /\ wrt \in CacheBlockT /\ wrt.tag = r.blk /\ wrt.status[r.sec] = "MODIFIED"
        /\ \A s \in Sector \ {r.sec} : wrt.status[s] = old.status[s]
    BY <1>3, WrittenFields
  <2>3. Kept(old, wrt)
    BY <1>1, <1>3, <1>4, WrittenKeeps
  <2> HIDE DEF wrt
  <2>4. ~IsInvalidLine(wrt)
    BY <1>2, <2>2 DEF IsInvalidLine
  <2>5. \A x \in Sector \ {r.sec} : wrt.status[x] = "RESERVED" =>
          p.st # "MISS" /\ old.status[x] = "RESERVED"
    BY <2>2
  <2>6. /\ Leaves(r, p, PinIfDeferred(wrt))
        /\ lines'[p.idx].status[r.sec] = wrt.status[r.sec]
    BY <1>1, <1>3, <2>1, <2>2, <2>3, <2>4, <2>5, PinLeaves
  <2> QED
    BY <1>5, <2>2, <2>6 DEF Serves
<1> QED
  BY <1>6, <1>7

(* The line that access leaves on a miss.                                  *)
LEMMA TagAccessKeeps ==
  ASSUME lines \in [Line -> CacheBlockT], policy \in Config, policy.alloc = "ON_MISS",
         LinesInv,
         NEW b \in Nat, NEW s \in Sector, NEW wr \in BOOLEAN, NEW p \in Probe(b, s, wr),
         AccessAllowed(p), p.st \notin {"HIT", "RESERVATION_FAIL"},
         NEW old, old = lines[p.idx], NEW line, line = TagAccess(p, b, s).line
  PROVE  /\ p.idx \in Line /\ old \in CacheBlockT
         /\ line \in CacheBlockT /\ line.tag = b /\ line.status[s] = "RESERVED"
         /\ p.st # "MISS" => Kept(old, line) /\ ~Answerable(old, s)
         /\ p.st = "MISS" => Readable(line)
         /\ \A x \in Sector \ {s} : line.status[x] = "RESERVED" =>
              p.st # "MISS" /\ old.status[x] = "RESERVED"
<1>1. /\ p.st \in {"HIT_RESERVED", "MISS", "SECTOR_MISS"}
      /\ p.idx \in Line /\ old \in CacheBlockT
      /\ p.st = "MISS" => ~IsReservedLine(old)
      /\ p.st # "MISS" => old.tag = b
  BY ProbedLine
<1>2. line \in CacheBlockT /\ line.tag = b /\ line.status[s] = "RESERVED"
  BY TagAccessCarries
<1>3. /\ p.st = "MISS" => line = Allocate(policy.type, old, b, s)
      /\ p.st = "SECTOR_MISS" => line = AllocateSector(old, s)
      /\ p.st = "HIT_RESERVED" => line = old
  BY TagAccessCases
<1>4. p.st # "MISS" => ~Answerable(old, s)
  BY <1>1, AnswerableHits
<1>5. CASE p.st = "MISS"
  <2>1. /\ Readable(line)
        /\ \A x \in Sector \ {s} : line.status[x] # "RESERVED"
    <3>1. policy.type \in CacheType /\ line = Allocate(policy.type, old, b, s)
      BY <1>3, <1>5 DEF Config
    <3>2. Readable(line)
      BY <1>1, <3>1, AllocateReadable
    <3>3. \A x \in Sector \ {s} : line.status[x] # "RESERVED"
      BY <1>1, <1>5, <3>1, AllocateReservesOne
    <3> QED
      BY <3>1, <3>2, <3>3
  <2> QED
    BY <1>1, <1>2, <1>5, <2>1
<1>6. CASE p.st = "SECTOR_MISS"
  <2>1. Kept(old, line)
    BY <1>1, <1>3, <1>4, <1>6, AllocateSectorKeeps
  <2>2. \A x \in Sector \ {s} : line.status[x] = old.status[x]
    BY <1>1, <1>3, <1>6, AllocateSectorElsewhere
  <2> QED
    BY <1>1, <1>2, <1>4, <1>6, <2>1, <2>2
<1>7. CASE p.st = "HIT_RESERVED"
  <2>1. Kept(old, line)
    BY <1>3, <1>7 DEF Kept
  <2> QED
    BY <1>1, <1>2, <1>3, <1>4, <1>7, <2>1
<1> QED
  BY <1>1, <1>5, <1>6, <1>7

(* The misses that ask for their line.                                     *)
LEMMA ReadServes ==
  ASSUME IInv, LinesInv, Steady, NEW m \in Mf, NEW r \in Request, NEW wr \in BOOLEAN,
         NEW p \in Probe(r.blk, r.sec, wr), AccessAllowed(p), p.st # "HIT",
         RdMissBase(m, r, p) \/ WrMissNaive(m, r, p) \/ ReadOnlyMiss(m, r, p)
  PROVE  Serves(m, r, p)
<1> DEFINE line == TagAccess(p, r.blk, r.sec).line
<1>1. lines \in [Line -> CacheBlockT] /\ policy \in Config /\ policy.alloc = "ON_MISS"
  BY IInvParts DEF Steady
<1>2. r.blk \in Nat /\ r.sec \in Sector
  BY RequestParts
<1>3. /\ p.st # "RESERVATION_FAIL"
      /\ lines' = [lines EXCEPT ![p.idx] = PinIfDeferred(line)]
      /\ \E before, after : SendReadRequest(m, r, p.idx, before, after)
  BY DEF RdMissBase, ReadOnlyMiss, WrMissNaive
<1>4. current_response' = current_response
  BY <1>3 DEF SendReadRequest
<1> HIDE DEF line
<1>5. /\ p.idx \in Line
      /\ line \in CacheBlockT /\ line.tag = r.blk /\ line.status[r.sec] = "RESERVED"
      /\ p.st # "MISS" => Kept(lines[p.idx], line)
      /\ p.st = "MISS" => Readable(line)
      /\ \A x \in Sector \ {r.sec} : line.status[x] = "RESERVED" =>
           p.st # "MISS" /\ lines[p.idx].status[x] = "RESERVED"
  BY <1>1, <1>2, <1>3, TagAccessKeeps DEF line
<1>6. ~IsInvalidLine(line)
  BY <1>2, <1>5 DEF IsInvalidLine
<1>7. Leaves(r, p, PinIfDeferred(line))
  BY <1>1, <1>3, <1>5, <1>6, PinLeaves
<1> QED
  BY <1>3, <1>4, <1>7 DEF Serves

(* A lazy write leaves a sector readable, or its fill will make it so,     *)
(* unless no fill is pending.                                              *)
LEMMA LazyKeeps ==
  ASSUME NEW line \in CacheBlockT, NEW r \in Request, NEW pending \in BOOLEAN,
         Readable(line),
         ~pending /\ policy.type = "SECTOR" => ~line.set_modified_on_fill[r.sec]
  PROVE  /\ Readable(LazyBlock(line, r, pending))
         /\ \A x \in Sector \ {r.sec} :
              Answerable(line, x) => Answerable(LazyBlock(line, r, pending), x)
<1> DEFINE new == LazyBlock(line, r, pending)
<1>1. /\ new.status[r.sec] = "MODIFIED"
      /\ \A s \in Sector : s # r.sec \/ ~pending =>
           new.set_modified_on_fill[s] = line.set_modified_on_fill[s]
      /\ pending => new.readable[r.sec] \/ new.set_readable_on_fill[r.sec]
  BY LazyFields
<1>2. \A s \in Sector \ {r.sec} :
        /\ new.status[s] = line.status[s]
        /\ new.readable[s] = line.readable[s]
        /\ new.set_readable_on_fill[s] = line.set_readable_on_fill[s]
  BY LazyFields
<1> HIDE DEF new
<1>3. Readable(new)
  <2> SUFFICES ASSUME policy.type = "SECTOR", NEW x \in Sector
               PROVE  /\ new.status[x] \in {"RESERVED", "VALID"} => new.readable[x]
                      /\ new.status[x] = "MODIFIED" /\ new.set_modified_on_fill[x] =>
                           new.readable[x] \/ new.set_readable_on_fill[x]
    BY DEF Readable
  <2>1. CASE x = r.sec
    BY <1>1, <2>1
  <2>2. CASE x # r.sec
    BY <1>1, <1>2, <2>2 DEF Readable
  <2> QED
    BY <2>1, <2>2
<1>4. \A x \in Sector \ {r.sec} : Answerable(line, x) => Answerable(new, x)
  BY <1>2 DEF Answerable
<1> QED
  BY <1>3, <1>4 DEF new

(* The lazy write of a miss.                                               *)
LEMMA LazyServes ==
  ASSUME IInv, LinesInv, Steady, NEW m \in Mf, NEW r \in Request, NEW wr \in BOOLEAN,
         NEW p \in Probe(r.blk, r.sec, wr), AccessAllowed(p), p.st # "HIT",
         WrMissLazyFetch(m, r, p),
         p.st = "SECTOR_MISS" => lines[p.idx].status[r.sec] # "MODIFIED"
  PROVE  Serves(m, r, p)
<1> DEFINE old  == lines[p.idx]
           line == TagAccess(p, r.blk, r.sec).line
           wait == p.st = "HIT_RESERVED"
           new  == LazyBlock(line, r, wait)
<1>1. lines \in [Line -> CacheBlockT] /\ policy \in Config /\ policy.alloc = "ON_MISS"
  BY IInvParts DEF Steady
<1>2. r.blk \in Nat /\ r.sec \in Sector
  BY RequestParts
<1>3. /\ p.st # "RESERVATION_FAIL"
      /\ UNCHANGED <<mshr, current_response, extra_mf_fields>>
  BY DEF WrMissLazyFetch, mshrVars
<1>4. lines' = [lines EXCEPT ![p.idx] = new]
  BY LazyMissBlock
<1>5. /\ p.idx \in Line /\ old \in CacheBlockT
      /\ line \in CacheBlockT /\ line.tag = r.blk
      /\ p.st # "MISS" => Kept(old, line) /\ ~Answerable(old, r.sec)
      /\ p.st = "MISS" => Readable(line)
      /\ \A x \in Sector \ {r.sec} : line.status[x] = "RESERVED" =>
           p.st # "MISS" /\ old.status[x] = "RESERVED"
  <2>1. old = lines[p.idx] /\ line = TagAccess(p, r.blk, r.sec).line
    OBVIOUS
  <2> HIDE DEF old, line
  <2> QED
    BY <1>1, <1>2, <1>3, <2>1, TagAccessKeeps
<1>6. Readable(line)
  BY <1>5 DEF Kept, LinesInv, AllReadable
<1>7. ~wait /\ policy.type = "SECTOR" => ~line.set_modified_on_fill[r.sec]
  <2>1. p.st \in {"MISS", "SECTOR_MISS", "HIT_RESERVED"}
    BY <1>2, <1>3, ProbeFacts
  <2>2. p.st = "MISS" => line = Allocate(policy.type, old, r.blk, r.sec)
    BY <1>1, <1>2, <1>3, TagAccessCases
  <2>3. p.st = "SECTOR_MISS" => line = AllocateSector(old, r.sec)
    BY <1>1, <1>2, <1>3, TagAccessCases
  <2> HIDE DEF line, old
  <2>4. CASE p.st = "MISS"
    BY <1>2, <1>5, <2>2, <2>4, AllocateReadable
  <2>5. CASE p.st = "SECTOR_MISS"
    <3>1. old.status[r.sec] # "MODIFIED"
      BY <2>5 DEF old
    <3> QED
      BY <1>2, <1>5, <2>3, <2>5, <3>1, AllocateSectorClean
  <2> QED
    BY <2>1, <2>4, <2>5
<1>8. /\ new \in CacheBlockT /\ new.tag = r.blk /\ new.status[r.sec] = "MODIFIED"
      /\ \A x \in Sector \ {r.sec} : new.status[x] = line.status[x]
  <2>1. \A q \in BOOLEAN :
          /\ LazyBlock(line, r, q) \in CacheBlockT
          /\ LazyBlock(line, r, q).tag = line.tag
          /\ LazyBlock(line, r, q).status[r.sec] = "MODIFIED"
          /\ \A x \in Sector \ {r.sec} : LazyBlock(line, r, q).status[x] = line.status[x]
    BY <1>5, LazyFields
  <2> HIDE DEF line
  <2> QED
    BY <1>5, <2>1
<1>9. /\ Readable(new)
      /\ \A x \in Sector \ {r.sec} : Answerable(line, x) => Answerable(new, x)
  <2>1. \A q \in BOOLEAN :
          (~q /\ policy.type = "SECTOR" => ~line.set_modified_on_fill[r.sec]) =>
             /\ Readable(LazyBlock(line, r, q))
             /\ \A x \in Sector \ {r.sec} :
                  Answerable(line, x) => Answerable(LazyBlock(line, r, q), x)
    BY <1>5, <1>6, LazyKeeps
  <2> HIDE DEF line
  <2> QED
    BY <1>7, <2>1
<1>10. lines'[p.idx] = new
  BY <1>1, <1>4, <1>5
<1> HIDE DEF new, line
<1>11. ~IsInvalidLine(new)
  BY <1>2, <1>8 DEF IsInvalidLine
<1>12. p.st # "MISS" => Kept(old, new)
  <2> SUFFICES ASSUME p.st # "MISS" PROVE Kept(old, new)
    OBVIOUS
  <2>1. Kept(old, line) /\ ~Answerable(old, r.sec)
    BY <1>5
  <2>2. Readable(old)
    BY <1>5 DEF LinesInv, AllReadable
  <2> HIDE DEF old
  <2> QED
    BY <1>5, <1>8, <1>9, <1>11, <2>1, <2>2 DEF Kept
<1>13. Leaves(r, p, new)
  BY <1>4, <1>5, <1>8, <1>9, <1>11, <1>12 DEF Leaves
<1> QED
  BY <1>3, <1>8, <1>10, <1>13 DEF Serves

(* Every access.                                                           *)
LEMMA AccessServes ==
  ASSUME IInv, LinesInv, Steady, NEW m \in Mf, NEW r \in Issuable,
         ReadOnlyAccess(m, r) \/ DataAccess(m, r)
  PROVE  /\ r \in Request /\ FreeMf(m)
         /\ \/ UNCHANGED <<lines, mshr, current_response, extra_mf_fields>>
            \/ \E wr \in BOOLEAN : \E p \in Probe(r.blk, r.sec, wr) :
                 AccessAllowed(p) /\ Serves(m, r, p)
<1>1. r \in Request /\ FreeMf(m) /\ r.wr \in BOOLEAN
  BY RequestAssumption DEF Issuable, Request, ReadOnlyAccess, DataAccess
<1>2. CASE ReadOnlyAccess(m, r)
  <2>1. PICK p \in Probe(r.blk, r.sec, FALSE) :
          AccessAllowed(p) /\ (ReadOnlyHit(m, r, p) \/ ReadOnlyMiss(m, r, p))
    BY <1>2 DEF ReadOnlyAccess
  <2>2. \E wr \in BOOLEAN : p \in Probe(r.blk, r.sec, wr)
    BY <2>1
  <2>3. PICK wr \in BOOLEAN : p \in Probe(r.blk, r.sec, wr)
    BY <2>2
  <2>4. CASE ReadOnlyHit(m, r, p)
    <3>1. p.st = "HIT"
      BY <2>4 DEF ReadOnlyHit
    <3>2. Serves(m, r, p)
      BY <1>1, <2>3, <2>4, <3>1, HitServes
    <3> QED
      BY <1>1, <2>1, <2>3, <3>2
  <2>5. CASE ReadOnlyMiss(m, r, p)
    <3>1. p.st # "HIT"
      BY <2>5 DEF ReadOnlyMiss
    <3>2. Serves(m, r, p)
      BY <1>1, <2>1, <2>3, <2>5, <3>1, ReadServes
    <3> QED
      BY <1>1, <2>1, <2>3, <3>2
  <2> QED
    BY <2>1, <2>4, <2>5
<1>3. CASE DataAccess(m, r)
  <2>1. PICK p \in Probe(r.blk, r.sec, r.wr) :
          /\ AccessAllowed(p)
          /\ IF r.wr THEN WriteAccess(m, r, p) ELSE ReadAccess(m, r, p)
    BY <1>3 DEF DataAccess
  <2>2. r.wr /\ p.st = "SECTOR_MISS" => lines[p.idx].status[r.sec] # "MODIFIED"
    BY <1>1, RequestParts, ProbeStatus
  <2>3. PICK wr \in BOOLEAN : p \in Probe(r.blk, r.sec, wr)
    BY <1>1
  <2>4. CASE /\ p.st = "HIT"
             /\ RdHitBase(m, r, p) \/ WrHitWriteBack(m, r, p) \/ WrHitWriteThrough(m, r, p)
    <3>1. Serves(m, r, p)
      BY <1>1, <2>3, <2>4, HitServes
    <3> QED
      BY <1>1, <2>1, <2>3, <3>1
  <2>5. CASE p.st # "HIT" /\ (RdMissBase(m, r, p) \/ WrMissNaive(m, r, p))
    <3>1. Serves(m, r, p)
      BY <1>1, <2>1, <2>3, <2>5, ReadServes
    <3> QED
      BY <1>1, <2>1, <2>3, <3>1
  <2>6. CASE p.st # "HIT" /\ r.wr /\ WrMissLazyFetch(m, r, p)
    <3>1. Serves(m, r, p)
      BY <1>1, <2>1, <2>2, <2>3, <2>6, LazyServes
    <3> QED
      BY <1>1, <2>1, <2>3, <3>1
  <2>7. CASE WrMissNoAllocate(m, r, p)
    BY <1>1, <2>7 DEF WrMissNoAllocate, tagVars, mshrVars
  <2>8. /\ ~WrHitWriteEvict(m, r, p)
        /\ ~WrMissFetchFull(m, r, p) /\ ~WrMissFetchPartial(m, r, p)
    BY DEF WrHitWriteEvict, WrMissFetchFull, WrMissFetchPartial, Steady
  <2> QED
    BY <2>1, <2>4, <2>5, <2>6, <2>7, <2>8 DEF WriteAccess, ReadAccess
<1> QED
  BY <1>2, <1>3

-----------------------------------------------------------------------------
(* The invariant *)

(* The line that x, which waits in the entry of k, is recorded against     *)
(* holds the block, and the data once it has come.                         *)
Waits(k, x) ==
  LET i == pending_response_indices[x] IN
  /\ i \in Line /\ lines[i].tag = k[1] /\ ~IsInvalidLine(lines[i])
  /\ IsReady(k) => Answerable(lines[i], k[2])

EntriesWait == \A k \in Key : \A j \in DOMAIN mshr[k] : Waits(k, mshr[k][j])

ReservedAwaits ==
  \A i \in Line, s \in Sector : lines[i].status[s] = "RESERVED" =>
    \E x \in Mf : /\ extra_mf_fields[x] # NoExtra
                  /\ extra_mf_fields[x].idx = i
                  /\ extra_mf_fields[x].key = <<lines[i].tag, s>>

FillInv == LinesInv /\ EntriesWait /\ ReservedAwaits

(* A member of an MSHR entry is owed to the caller.                        *)
LEMMA MemberIsOwed ==
  ASSUME IInv, NEW k \in Key, NEW j \in DOMAIN mshr[k]
  PROVE  mshr[k][j] \in Mf /\ mshr[k][j] \in owed /\ req[mshr[k][j]] # NoReq
<1>1. QueueTypes /\ RequestInv
  BY IInvParts
<1>2. mshr[k] \in Seq(Mf)
  BY <1>1 DEF QueueTypes
<1>3. mshr[k][j] \in Mf
  BY <1>2
<1>4. InMshr(mshr[k][j])
  BY DEF InMshr
<1>5. mshr[k][j] \in owed
  BY <1>1, <1>3, <1>4 DEF RequestInv, OwedExactlyOnce
<1> QED
  BY <1>1, <1>3, <1>5 DEF RequestInv, TokensHeld, InCache

LEMMA MembersAreOwed ==
  IInv => \A k \in Key : \A j \in DOMAIN mshr[k] : mshr[k][j] \in owed
BY MemberIsOwed

LEMMA MembersAreOwedNext ==
  IInv' => \A k \in Key : \A j \in DOMAIN mshr'[k] : mshr'[k][j] \in owed'
<1>1. (IInv => \A k \in Key : \A j \in DOMAIN mshr[k] : mshr[k][j] \in owed)'
  BY MembersAreOwed, PTL
<1> QED
  BY <1>1

(* A member whose line is pinned goes on waiting on it.                    *)
LEMMA WaitsKept ==
  ASSUME IInv, LinesInv, NEW M \in SUBSET Mf, Keeps(M), NEW x \in M, x \in owed',
         NEW k \in Key, Waits(k, x), IsReady(k)' => IsReady(k),
         \A i \in Line : IsPinned(lines[i]) => Kept(lines[i], lines'[i])
  PROVE  Waits(k, x)'
<1>1. PICK i \in Line :
        /\ pending_response_indices[x] = i
        /\ lines[i].tag = k[1] /\ ~IsInvalidLine(lines[i])
        /\ IsReady(k) => Answerable(lines[i], k[2])
  BY DEF Waits
<1>2. i # NoLine
  BY <1>1, TagAssumption, LineFinite
<1>3. IsPinned(lines[i])
  BY <1>1, <1>2, IndexPins
<1>4. pending_response_indices'[x] = i /\ policy' = policy
  BY <1>1 DEF Keeps
<1>5. Readable(lines[i]) /\ k[2] \in Sector
  BY <1>1 DEF LinesInv, AllReadable, Key
<1>6. /\ lines'[i].tag = k[1] /\ ~IsInvalidLine(lines'[i])
      /\ IsReady(k) => Answerable(lines'[i], k[2])
  BY <1>1, <1>3, <1>5 DEF Kept
<1>7. (IsReady(k) => Answerable(lines[i], k[2]))'
  BY <1>4, <1>6 DEF Answerable
<1> QED
  BY <1>1, <1>4, <1>6, <1>7 DEF Waits, IsInvalidLine

(* No miss merges into an entry whose data has come.                       *)
LEMMA NoLateMerge ==
  ASSUME IInv, FillInv, NEW r \in Request, NEW wr \in BOOLEAN,
         NEW p \in Probe(r.blk, r.sec, wr), AccessAllowed(p), p.st # "HIT"
  PROVE  ~IsReady(KeyOf(r))
<1> SUFFICES ASSUME IsReady(KeyOf(r)) PROVE FALSE
  OBVIOUS
<1> DEFINE k == KeyOf(r)
<1>1. QueueTypes /\ RequestInv /\ policy \in Config
  BY IInvParts
<1>2. r.blk \in Nat /\ r.sec \in Sector /\ k \in Key /\ k[1] = r.blk /\ k[2] = r.sec
  BY RequestParts DEF KeyOf
<1> HIDE DEF k
<1>3. mshr[k] # <<>>
  BY <1>1, <1>2 DEF RequestInv, MshrEntryProgresses, MshrProbe, k
<1>4. 1 \in DOMAIN mshr[k]
  BY <1>1, <1>2, <1>3, TailElements DEF QueueTypes
<1>5. Waits(k, mshr[k][1])
  BY <1>2, <1>4 DEF FillInv, EntriesWait
<1>6. PICK i \in Line : lines[i].tag = r.blk /\ Answerable(lines[i], r.sec)
  BY <1>2, <1>5 DEF Waits, k
<1> QED
  BY <1>1, <1>2, <1>6, AnswerableHits DEF FillInv

-----------------------------------------------------------------------------
(* Accesses keep the invariant *)

LEMMA AccessLines ==
  ASSUME IInv, LinesInv, policy' = policy, NEW m \in Mf, NEW r \in Request,
         NEW wr \in BOOLEAN, NEW p \in Probe(r.blk, r.sec, wr), Serves(m, r, p)
  PROVE  /\ LinesInv'
         /\ \A i \in Line : IsPinned(lines[i]) => Kept(lines[i], lines'[i])
<1>1. lines \in [Line -> CacheBlockT] /\ r.blk \in Nat /\ r.sec \in Sector
  BY IInvParts, RequestParts
<1>2. PICK new : Leaves(r, p, new)
  BY DEF Serves
<1>3. p.st # "RESERVATION_FAIL"
  BY DEF Serves
<1>4. /\ p.idx \in Line
      /\ p.st = "MISS" => ~IsPinned(lines[p.idx])
      /\ p.st # "MISS" => Matches(p.idx, r.blk)
  BY <1>1, <1>3, ProbedLine
<1>5. /\ lines' = [lines EXCEPT ![p.idx] = new]
      /\ new.tag = r.blk
      /\ p.st # "MISS" => Kept(lines[p.idx], new)
      /\ p.st = "MISS" => Readable(new)
  BY <1>2 DEF Leaves
<1>6. Readable(new)
  BY <1>4, <1>5 DEF LinesInv, AllReadable, Kept
<1>7. CASE p.st = "MISS"
  <2>1. \A j \in Line : ~IsInvalidLine(lines[j]) => lines[j].tag # new.tag
    BY <1>1, <1>5, <1>7, MissMeansAbsent
  <2>2. p.idx \in Ways(new.tag)
    BY <1>1, <1>3, <1>5, ProbeMatches
  <2>3. LinesInv'
    BY <1>1, <1>4, <1>5, <1>6, <2>1, <2>2, OneLineChanges
  <2>4. \A i \in Line : IsPinned(lines[i]) => lines'[i] = lines[i]
    BY <1>1, <1>4, <1>5, <1>7
  <2> QED
    BY <2>3, <2>4 DEF Kept
<1>8. CASE p.st # "MISS"
  <2>1. new.tag = lines[p.idx].tag /\ ~IsInvalidLine(lines[p.idx])
    BY <1>4, <1>5, <1>8 DEF Matches
  <2>2. LinesInv'
    BY <1>1, <1>4, <1>5, <1>6, <2>1, OneLineChanges
  <2>3. \A i \in Line : lines'[i] = lines[i] \/ Kept(lines[i], lines'[i])
    BY <1>1, <1>4, <1>5, <1>8
  <2> QED
    BY <2>2, <2>3 DEF Kept
<1> QED
  BY <1>7, <1>8

(* What waits goes on waiting; the request that joins waits for the line   *)
(* it found or reserved.                                                   *)
LEMMA AccessWaits ==
  ASSUME IInv, IInv', FillInv, Deferring, NEW m \in Mf, NEW r \in Request,
         FreeMf(m), Keeps(Mf \ {m}),
         NEW wr \in BOOLEAN, NEW p \in Probe(r.blk, r.sec, wr), AccessAllowed(p),
         Serves(m, r, p)
  PROVE  EntriesWait'
<1> DEFINE kr == KeyOf(r)
<1>1. /\ lines \in [Line -> CacheBlockT] /\ r.blk \in Nat /\ r.sec \in Sector
      /\ kr \in Key /\ kr[1] = r.blk
      /\ pending_response_indices \in [Mf -> Line \cup {NoLine}]
      /\ mshr \in [Key -> Seq(Mf)] /\ current_response' = current_response
  BY IInvParts, RequestParts DEF KeyOf, QueueTypes, Serves
<1>2. LinesInv /\ policy' = policy /\ policy.defer
  BY DEF FillInv, Keeps, Deferring
<1>3. \A i \in Line : IsPinned(lines[i]) => Kept(lines[i], lines'[i])
  BY <1>2, AccessLines
<1>4. \A k \in Key : IsReady(k)' <=> IsReady(k)
  BY <1>1 DEF IsReady
<1>5. ASSUME NEW k \in Key, NEW j \in DOMAIN mshr[k], NEW x, x = mshr[k][j], x \in owed'
      PROVE  Waits(k, x)'
  <2>1. x \in Mf \ {m}
    BY <1>5, MemberIsOwed DEF FreeMf
  <2>2. Waits(k, x)
    BY <1>5 DEF FillInv, EntriesWait
  <2> QED
    BY <1>2, <1>3, <1>4, <1>5, <2>1, <2>2, WaitsKept
<1>6. SUFFICES ASSUME NEW k \in Key, NEW j \in DOMAIN mshr'[k], NEW x, x = mshr'[k][j]
               PROVE  Waits(k, x)'
  BY DEF EntriesWait, Waits
<1>7. x \in owed'
  BY <1>6, MembersAreOwedNext
<1>8. CASE mshr' = mshr
  BY <1>5, <1>6, <1>7, <1>8
<1>9. CASE /\ p.st # "HIT"
           /\ \E before, after : SendReadRequest(m, r, p.idx, before, after)
  <2>1. /\ mshr' = [mshr EXCEPT ![kr] = Append(@, m)]
        /\ pending_response_indices' = [pending_response_indices EXCEPT ![m] = p.idx]
    BY <1>2, <1>9 DEF SendReadRequest, MshrAdd, IndexIfDeferred
  <2> HIDE DEF kr
  <2>2. CASE k = kr /\ j = Len(mshr[kr]) + 1
    <3>1. x = m
      BY <1>1, <1>6, <2>1, <2>2, AppendElements
    <3>2. p.st # "RESERVATION_FAIL"
      BY DEF Serves
    <3>3. p.idx \in Line
      BY <1>1, <3>2, ProbedLine
    <3>4. pending_response_indices'[m] = p.idx
      BY <1>1, <2>1
    <3>5. lines'[p.idx].tag = kr[1] /\ ~IsInvalidLine(lines'[p.idx])
      <4>1. PICK new : Leaves(r, p, new)
        BY DEF Serves
      <4>2. lines'[p.idx] = new
        BY <1>1, <3>3, <4>1 DEF Leaves
      <4> QED
        BY <1>1, <4>1, <4>2 DEF Leaves
    <3>6. ~IsReady(kr)'
      BY <1>1, <1>4, <1>9, NoLateMerge DEF kr
    <3>7. Waits(kr, m)'
      BY <3>3, <3>4, <3>5, <3>6 DEF Waits, IsInvalidLine
    <3> QED
      BY <2>2, <3>1, <3>7
  <2>3. CASE ~(k = kr /\ j = Len(mshr[kr]) + 1)
    <3>1. j \in DOMAIN mshr[k] /\ x = mshr[k][j]
      BY <1>1, <1>6, <2>1, <2>3, AppendElements
    <3> QED
      BY <1>5, <1>7, <3>1
  <2> QED
    BY <2>2, <2>3
<1> QED
  BY <1>8, <1>9 DEF Serves

(* A sector that the access reserves waits for the read it sends, or for   *)
(* the one it joins.                                                       *)
LEMMA AccessReserves ==
  ASSUME IInv, FillInv, DataInv, NEW m \in Mf, NEW r \in Request, FreeMf(m),
         NEW wr \in BOOLEAN, NEW p \in Probe(r.blk, r.sec, wr), AccessAllowed(p),
         Serves(m, r, p)
  PROVE  ReservedAwaits'
<1> DEFINE kr == KeyOf(r)
<1>1. /\ lines \in [Line -> CacheBlockT] /\ r.blk \in Nat /\ r.sec \in Sector
      /\ kr \in Key /\ kr = <<r.blk, r.sec>>
      /\ extra_mf_fields \in [Mf -> ExtraFields \cup {NoExtra}]
      /\ RequestInv /\ LinesInv /\ ReservedAwaits
  BY IInvParts, RequestParts DEF KeyOf, QueueTypes, FillInv
<1>2. extra_mf_fields[m] = NoExtra
  BY ReadIsOwed DEF FreeMf
<1>3. /\ p.st # "RESERVATION_FAIL"
      /\ \/ lines'[p.idx].status[r.sec] # "RESERVED" /\ extra_mf_fields' = extra_mf_fields
         \/ p.st # "HIT" /\ \E before, after : SendReadRequest(m, r, p.idx, before, after)
  BY DEF Serves
<1>4. PICK new : Leaves(r, p, new)
  BY DEF Serves
<1>5. p.idx \in Line /\ (p.st # "MISS" => Matches(p.idx, r.blk))
  BY <1>1, <1>3, ProbedLine
<1>6. /\ lines'[p.idx] = new /\ new.tag = r.blk
      /\ \A i \in Line \ {p.idx} : lines'[i] = lines[i]
      /\ \A x \in Sector \ {r.sec} : new.status[x] = "RESERVED" =>
           p.st # "MISS" /\ lines[p.idx].status[x] = "RESERVED"
  BY <1>1, <1>4, <1>5 DEF Leaves
<1> HIDE DEF kr
<1>7. \/ extra_mf_fields' = extra_mf_fields
      \/ ~MshrProbe(kr) /\ \E n : extra_mf_fields' =
           [extra_mf_fields EXCEPT ![m] = [key |-> kr, idx |-> p.idx, pending_read |-> n]]
  BY <1>3 DEF SendReadRequest, kr
<1>8. \A x \in Mf \ {m} : extra_mf_fields'[x] = extra_mf_fields[x]
  BY <1>1, <1>7
<1>9. SUFFICES ASSUME NEW i \in Line, NEW s \in Sector, lines'[i].status[s] = "RESERVED"
               PROVE  \E x \in Mf : /\ extra_mf_fields'[x] # NoExtra
                                    /\ extra_mf_fields'[x].idx = i
                                    /\ extra_mf_fields'[x].key = <<lines'[i].tag, s>>
  BY DEF ReservedAwaits
<1>10. ASSUME lines[i].status[s] = "RESERVED", lines'[i].tag = lines[i].tag
       PROVE  \E x \in Mf : /\ extra_mf_fields'[x] # NoExtra
                            /\ extra_mf_fields'[x].idx = i
                            /\ extra_mf_fields'[x].key = <<lines'[i].tag, s>>
  <2>1. PICK x \in Mf : /\ extra_mf_fields[x] # NoExtra
                        /\ extra_mf_fields[x].idx = i
                        /\ extra_mf_fields[x].key = <<lines[i].tag, s>>
    BY <1>1, <1>10 DEF ReservedAwaits
  <2>2. extra_mf_fields'[x] = extra_mf_fields[x]
    BY <1>2, <1>8, <2>1
  <2> QED
    BY <1>10, <2>1, <2>2
<1>11. CASE i # p.idx
  BY <1>6, <1>9, <1>10, <1>11
<1>12. CASE i = p.idx /\ s # r.sec
  <2>1. p.st # "MISS" /\ lines[i].status[s] = "RESERVED"
    BY <1>6, <1>9, <1>12
  <2>2. lines'[i].tag = lines[i].tag
    BY <1>5, <1>6, <1>12, <2>1 DEF Matches
  <2> QED
    BY <1>10, <2>1, <2>2
<1>13. CASE i = p.idx /\ s = r.sec
  <2>1. p.st # "HIT" /\ \E before, after : SendReadRequest(m, r, p.idx, before, after)
    BY <1>3, <1>9, <1>13
  <2>2. lines'[i].tag = r.blk
    BY <1>6, <1>13
  <2>3. CASE MshrProbe(kr)
    <3>1. AwaitsFill(kr)
      BY <1>1, <2>1, <2>3, NoLateMerge DEF RequestInv, MshrEntryProgresses, kr
    <3>2. PICK x \in Mf : extra_mf_fields[x] # NoExtra /\ extra_mf_fields[x].key = kr
      BY <3>1 DEF AwaitsFill, FillPending
    <3> DEFINE e == extra_mf_fields[x]
    <3>3. e.idx \in Line /\ lines[e.idx].tag = r.blk /\ Pending(lines[e.idx], r.sec)
      BY <1>1, <3>2 DEF DataInv, PendingOf, ExtraFields
    <3> HIDE DEF e
    <3>4. ~IsInvalidLine(lines[e.idx])
      BY <1>1, <3>3 DEF Pending, IsInvalidLine
    <3>5. p.st # "MISS"
      BY <1>1, <3>3, <3>4, MissMeansAbsent
    <3>6. e.idx = p.idx
      BY <1>1, <1>5, <3>3, <3>4, <3>5 DEF LinesInv, OneCopy, Matches
    <3>7. extra_mf_fields'[x] = extra_mf_fields[x]
      BY <1>2, <1>8, <3>2
    <3> QED
      BY <1>1, <1>13, <2>2, <3>2, <3>6, <3>7 DEF e
  <2>4. CASE ~MshrProbe(kr)
    <3>1. \E n : extra_mf_fields' =
            [extra_mf_fields EXCEPT ![m] = [key |-> kr, idx |-> p.idx, pending_read |-> n]]
      BY <2>1, <2>4 DEF SendReadRequest, kr
    <3>2. extra_mf_fields'[m].key = kr /\ extra_mf_fields'[m].idx = p.idx
      BY <1>1, <3>1
    <3>3. extra_mf_fields'[m] # NoExtra
      <4>1. p.idx # NoLine
        BY <1>5, TagAssumption, LineFinite
      <4>2. NoExtra.idx = NoLine
        BY DEF NoExtra
      <4> QED
        BY <3>2, <4>1, <4>2
    <3> QED
      BY <1>1, <1>13, <2>2, <3>2, <3>3
  <2> QED
    BY <2>3, <2>4
<1> QED
  BY <1>11, <1>12, <1>13

LEMMA AccessFill ==
  ASSUME IInv, IInv', FillInv, DataInv, Deferring, NEW m \in Mf, NEW r \in Issuable,
         ReadOnlyAccess(m, r) \/ DataAccess(m, r)
  PROVE  FillInv'
<1>1. Keeps(Mf \ {m}) /\ policy' = policy
  BY AccessKeeps DEF Keeps
<1>2. LinesInv /\ Steady
  BY DEF FillInv, Deferring
<1>3. /\ r \in Request /\ FreeMf(m)
      /\ \/ UNCHANGED <<lines, mshr, current_response, extra_mf_fields>>
         \/ \E wr \in BOOLEAN : \E p \in Probe(r.blk, r.sec, wr) :
              AccessAllowed(p) /\ Serves(m, r, p)
  BY <1>2, AccessServes
<1>4. CASE UNCHANGED <<lines, mshr, current_response, extra_mf_fields>>
  <2>1. LinesInv'
    BY <1>1, <1>2, <1>4, BlocksStay DEF SameBlock
  <2>2. ASSUME NEW k \in Key, NEW j \in DOMAIN mshr[k], NEW x, x = mshr[k][j]
        PROVE  Waits(k, x)'
    <3>1. x \in Mf \ {m}
      BY <1>3, <2>2, MemberIsOwed DEF FreeMf
    <3>2. x \in owed'
      BY <1>4, <2>2, MembersAreOwedNext
    <3>3. Waits(k, x) /\ (IsReady(k)' => IsReady(k))
      BY <1>4, <2>2 DEF FillInv, EntriesWait, IsReady
    <3>4. \A i \in Line : Kept(lines[i], lines'[i])
      BY <1>4 DEF Kept
    <3> QED
      BY <1>1, <1>2, <2>2, <3>1, <3>2, <3>3, <3>4, WaitsKept
  <2>3. EntriesWait'
    BY <1>4, <2>2 DEF EntriesWait, Waits
  <2>4. ReservedAwaits'
    BY <1>4 DEF FillInv, ReservedAwaits
  <2> QED
    BY <2>1, <2>3, <2>4 DEF FillInv
<1>5. ASSUME NEW wr \in BOOLEAN, NEW p \in Probe(r.blk, r.sec, wr),
             AccessAllowed(p), Serves(m, r, p)
      PROVE  FillInv'
  BY <1>1, <1>2, <1>3, <1>5, AccessLines, AccessWaits, AccessReserves DEF FillInv
<1> QED
  BY <1>3, <1>4, <1>5

-----------------------------------------------------------------------------
(* The other operations keep it *)

(* Nothing joins an entry and none becomes ready, and no read comes to an  *)
(* end.                                                                    *)
LEMMA OtherBooks ==
  ASSUME IInv, [Works]_vars,
         ~\E m \in Mf, r \in Issuable : ReadOnlyAccess(m, r) \/ DataAccess(m, r),
         ~\E m \in Mf : Fill(m)
  PROVE  /\ \A k \in Key : \A j \in DOMAIN mshr'[k] :
              \E i \in DOMAIN mshr[k] : mshr'[k][j] = mshr[k][i]
         /\ \A k \in Key : IsReady(k)' => IsReady(k)
         /\ \A x \in Mf : extra_mf_fields[x] # NoExtra =>
              /\ extra_mf_fields'[x] # NoExtra
              /\ extra_mf_fields'[x].idx = extra_mf_fields[x].idx
              /\ extra_mf_fields'[x].key = extra_mf_fields[x].key
<1>1. /\ mshr \in [Key -> Seq(Mf)] /\ current_response \in Seq(Key)
      /\ extra_mf_fields \in [Mf -> ExtraFields \cup {NoExtra}]
      /\ QueueTypes /\ RequestInv
  BY IInvParts DEF QueueTypes
<1>2. ASSUME UNCHANGED mshrVars
      PROVE  /\ \A k \in Key : \A j \in DOMAIN mshr'[k] :
                  \E i \in DOMAIN mshr[k] : mshr'[k][j] = mshr[k][i]
             /\ \A k \in Key : IsReady(k)' => IsReady(k)
  BY <1>2 DEF mshrVars, IsReady
<1>3. CASE NextMshrAccess
  <2> DEFINE k0 == NextKey
  <2>1. /\ current_response # <<>>
        /\ mshr' = [mshr EXCEPT ![k0] = Tail(@)]
        /\ current_response' \in {Tail(current_response), current_response}
        /\ extra_mf_fields' = extra_mf_fields
    BY <1>3 DEF NextMshrAccess, MshrTake, ReadyAfterNext, missVars
  <2>2. k0 \in Key /\ mshr[k0] # <<>>
    BY <1>1, <2>1, ReadyHasRequest
  <2> HIDE DEF k0
  <2>3. \A k \in Key : \A j \in DOMAIN mshr'[k] :
          \E i \in DOMAIN mshr[k] : mshr'[k][j] = mshr[k][i]
    <3> TAKE k \in Key
    <3> TAKE j \in DOMAIN mshr'[k]
    <3>1. CASE k = k0
      <4>1. j + 1 \in DOMAIN mshr[k] /\ mshr'[k][j] = mshr[k][j + 1]
        BY <1>1, <2>1, <2>2, <3>1, TailElements
      <4> QED
        BY <4>1
    <3>2. CASE k # k0
      BY <1>1, <2>1, <3>2
    <3> QED
      BY <3>1, <3>2
  <2>4. \A k \in Key : IsReady(k)' => IsReady(k)
    <3>1. \A j \in DOMAIN Tail(current_response) :
            \E i \in DOMAIN current_response :
              Tail(current_response)[j] = current_response[i]
      <4> TAKE j \in DOMAIN Tail(current_response)
      <4>1. /\ j + 1 \in DOMAIN current_response
            /\ Tail(current_response)[j] = current_response[j + 1]
        BY <1>1, <2>1, TailElements
      <4> QED
        BY <4>1
    <3> QED
      BY <2>1, <3>1 DEF IsReady
  <2> QED
    BY <2>1, <2>3, <2>4
<1>4. CASE (\E portFull \in BOOLEAN : Cycle(portFull)) \/ NextReadyHit \/ StopIssuing
           \/ UNCHANGED vars
  <2>1. UNCHANGED mshrVars /\ extra_mf_fields' = extra_mf_fields
    BY <1>4 DEF Cycle, NextReadyHit, StopIssuing, vars, missVars
  <2> QED
    BY <1>2, <2>1
<1>5. CASE \E m \in Mf : FillChunk(m)
  <2>1. PICK m \in Mf : FillChunk(m)
    BY <1>5
  <2>2. /\ UNCHANGED mshrVars /\ extra_mf_fields[m] # NoExtra
        /\ extra_mf_fields' = [extra_mf_fields EXCEPT ![m].pending_read = @ - 1]
    BY <2>1 DEF FillChunk, InMemory
  <2>3. extra_mf_fields[m] \in ExtraFields
    BY <1>1, <2>2
  <2>4. /\ extra_mf_fields'[m].idx = extra_mf_fields[m].idx
        /\ extra_mf_fields'[m].key = extra_mf_fields[m].key
        /\ \A x \in Mf \ {m} : extra_mf_fields'[x] = extra_mf_fields[x]
    BY <1>1, <2>2, <2>3 DEF ExtraFields
  <2>5. extra_mf_fields'[m] # NoExtra
    <3>1. extra_mf_fields[m].idx # NoLine
      BY <2>3, TagAssumption, LineFinite DEF ExtraFields
    <3>2. NoExtra.idx = NoLine
      BY DEF NoExtra
    <3> QED
      BY <2>4, <3>1, <3>2
  <2> QED
    BY <1>2, <2>2, <2>4, <2>5
<1> QED
  BY <1>3, <1>4, <1>5 DEF Works

LEMMA OtherFill ==
  ASSUME IInv, IInv', FillInv, Deferring, [Works]_vars, Keeps(Mf),
         ~\E m \in Mf, r \in Issuable : ReadOnlyAccess(m, r) \/ DataAccess(m, r),
         ~\E m \in Mf : Fill(m)
  PROVE  FillInv'
<1>1. lines \in [Line -> CacheBlockT] /\ LinesInv /\ policy' = policy /\ Steady
  BY IInvParts DEF FillInv, Keeps, Deferring
<1>2. \A i \in Line : SameBlock(lines[i], lines'[i])
  BY <1>1, PinsOnly
<1>3. \A i \in Line : Kept(lines[i], lines'[i])
  BY <1>1, <1>2, PinsKeep
<1>4. /\ \A k \in Key : \A j \in DOMAIN mshr'[k] :
           \E i \in DOMAIN mshr[k] : mshr'[k][j] = mshr[k][i]
      /\ \A k \in Key : IsReady(k)' => IsReady(k)
      /\ \A x \in Mf : extra_mf_fields[x] # NoExtra =>
           /\ extra_mf_fields'[x] # NoExtra
           /\ extra_mf_fields'[x].idx = extra_mf_fields[x].idx
           /\ extra_mf_fields'[x].key = extra_mf_fields[x].key
  BY <1>1, OtherBooks
<1>5. LinesInv'
  BY <1>1, <1>2, BlocksStay
<1>6. EntriesWait'
  <2> SUFFICES ASSUME NEW k \in Key, NEW j \in DOMAIN mshr'[k], NEW x, x = mshr'[k][j]
               PROVE  Waits(k, x)'
    BY DEF EntriesWait, Waits
  <2>1. x \in owed'
    BY MembersAreOwedNext
  <2>2. PICK i \in DOMAIN mshr[k] : x = mshr[k][i]
    BY <1>4
  <2>3. x \in Mf /\ Waits(k, x)
    BY <2>2, MemberIsOwed DEF FillInv, EntriesWait
  <2> QED
    BY <1>1, <1>3, <1>4, <2>1, <2>3, WaitsKept
<1>7. ReservedAwaits'
  <2> SUFFICES ASSUME NEW i \in Line, NEW s \in Sector, lines'[i].status[s] = "RESERVED"
               PROVE  \E x \in Mf : /\ extra_mf_fields'[x] # NoExtra
                                    /\ extra_mf_fields'[x].idx = i
                                    /\ extra_mf_fields'[x].key = <<lines'[i].tag, s>>
    BY DEF ReservedAwaits
  <2>1. lines[i].status[s] = "RESERVED" /\ lines'[i].tag = lines[i].tag
    BY <1>2 DEF SameBlock
  <2>2. PICK x \in Mf : /\ extra_mf_fields[x] # NoExtra
                        /\ extra_mf_fields[x].idx = i
                        /\ extra_mf_fields[x].key = <<lines[i].tag, s>>
    BY <2>1 DEF FillInv, ReservedAwaits
  <2> QED
    BY <1>4, <2>1, <2>2
<1> QED
  BY <1>5, <1>6, <1>7 DEF FillInv

(* A fill brings the data to the line that everybody who waits for it has  *)
(* pinned: the block has no other copy.                                    *)
LEMMA FillStepKeepsFill ==
  ASSUME IInv, IInv', FillInv, DataInv, Deferring, Keeps(Mf), NEW m \in Mf, Fill(m)
  PROVE  FillInv'
<1>0. PICK e : e = extra_mf_fields[m]
  OBVIOUS
<1>1. /\ lines \in [Line -> CacheBlockT] /\ policy \in Config
      /\ extra_mf_fields \in [Mf -> ExtraFields \cup {NoExtra}]
      /\ current_response \in Seq(Key)
      /\ LinesInv /\ Steady /\ policy' = policy
  BY IInvParts DEF QueueTypes, FillInv, Deferring, Keeps
<1>2. /\ e # NoExtra /\ FillByIndex(e.idx, e.key[2], MaskOf(req[m]))
      /\ extra_mf_fields' = [extra_mf_fields EXCEPT ![m] = NoExtra]
      /\ mshr' = mshr /\ current_response' = Append(current_response, e.key)
  BY <1>0, <1>1 DEF Fill, InMemory, Steady, MarkReady
<1>3. e \in ExtraFields
  BY <1>0, <1>1, <1>2
<1>4. PICK i, s, b : i = e.idx /\ s = e.key[2] /\ b = e.key[1]
  OBVIOUS
<1>5. /\ i \in Line /\ s \in Sector /\ e.key \in Key /\ e.key = <<b, s>>
      /\ lines[i].tag = b /\ Pending(lines[i], s)
  BY <1>0, <1>2, <1>3, <1>4 DEF ExtraFields, DataInv, PendingOf, Key
<1>6. PICK new : new = FillBlock(policy.type, lines[i], s, MaskOf(req[m]))
  OBVIOUS
<1>7. lines' = [lines EXCEPT ![i] = new]
  BY <1>2, <1>4, <1>6 DEF FillByIndex
<1>8. /\ lines'[i] = new
      /\ \A j \in Line \ {i} : lines'[j] = lines[j]
  BY <1>1, <1>5, <1>7
<1>9. /\ Readable(lines[i]) /\ ~IsInvalidLine(lines[i])
  BY <1>1, <1>5 DEF LinesInv, AllReadable, Pending, IsInvalidLine
<1>10. /\ Kept(lines[i], new) /\ Answerable(new, s)
       /\ new.status[s] \in {"VALID", "MODIFIED"}
       /\ \A x \in Sector \ {s} : new.status[x] = lines[i].status[x]
  <2>1. lines[i] \in CacheBlockT
    BY <1>1, <1>5
  <2>2. \A x \in Sector \ {s} : new.status[x] = lines[i].status[x]
    BY <1>6, <2>1 DEF FillBlock, CacheBlockT
  <2> QED
    BY <1>1, <1>5, <1>6, <1>9, <2>1, <2>2, FillKeepsBlock
<1>11. LinesInv'
  BY <1>1, <1>5, <1>7, <1>9, <1>10, OneLineChanges DEF Kept
<1>12. \A j \in Line : Kept(lines[j], lines'[j])
  BY <1>8, <1>10 DEF Kept
<1>13. \A k \in Key : k # e.key => (IsReady(k)' => IsReady(k))
  <2> SUFFICES ASSUME NEW k \in Key, k # e.key, NEW j \in DOMAIN current_response',
                      current_response'[j] = k
               PROVE  IsReady(k)
    BY DEF IsReady
  <2>1. j \in DOMAIN current_response /\ current_response[j] = k
    BY <1>1, <1>2, <1>5
  <2> QED
    BY <2>1 DEF IsReady
<1>14. EntriesWait'
  <2> SUFFICES ASSUME NEW k \in Key, NEW j \in DOMAIN mshr[k], NEW x, x = mshr[k][j]
               PROVE  Waits(k, x)'
    BY <1>2 DEF EntriesWait, Waits
  <2>1. x \in Mf /\ x \in owed' /\ Waits(k, x)
    BY <1>2, MemberIsOwed, MembersAreOwedNext DEF FillInv, EntriesWait
  <2>2. CASE k # e.key
    BY <1>1, <1>12, <1>13, <2>1, <2>2, WaitsKept
  <2>3. CASE k = e.key
    <3>1. /\ pending_response_indices[x] \in Line
          /\ lines[pending_response_indices[x]].tag = b
          /\ ~IsInvalidLine(lines[pending_response_indices[x]])
      BY <1>4, <2>1, <2>3 DEF Waits
    <3>2. pending_response_indices[x] = i
      BY <1>1, <1>5, <1>9, <3>1 DEF LinesInv, OneCopy
    <3>3. pending_response_indices'[x] = i
      BY <2>1, <3>2 DEF Keeps
    <3>4. Answerable(lines[i], s)'
      BY <1>1, <1>8, <1>10 DEF Answerable
    <3>5. lines'[i].tag = b /\ ~IsInvalidLine(lines'[i])
      BY <1>5, <1>8, <1>9, <1>10 DEF Kept
    <3> QED
      BY <1>4, <1>5, <2>3, <3>3, <3>4, <3>5 DEF Waits, IsInvalidLine, Answerable
  <2> QED
    BY <2>2, <2>3
<1>15. ReservedAwaits'
  <2> SUFFICES ASSUME NEW j \in Line, NEW y \in Sector, lines'[j].status[y] = "RESERVED"
               PROVE  \E x \in Mf : /\ extra_mf_fields'[x] # NoExtra
                                    /\ extra_mf_fields'[x].idx = j
                                    /\ extra_mf_fields'[x].key = <<lines'[j].tag, y>>
    BY DEF ReservedAwaits
  <2>1. /\ lines[j].status[y] = "RESERVED" /\ lines'[j].tag = lines[j].tag
        /\ ~(j = i /\ y = s)
    BY <1>8, <1>10 DEF Kept
  <2>2. PICK x \in Mf : /\ extra_mf_fields[x] # NoExtra
                        /\ extra_mf_fields[x].idx = j
                        /\ extra_mf_fields[x].key = <<lines[j].tag, y>>
    BY <2>1 DEF FillInv, ReservedAwaits
  <2>3. x # m
    BY <1>0, <1>4, <2>1, <2>2
  <2>4. extra_mf_fields'[x] = extra_mf_fields[x]
    BY <1>1, <1>2, <2>3
  <2> QED
    BY <2>1, <2>2, <2>4
<1> QED
  BY <1>11, <1>14, <1>15 DEF FillInv

-----------------------------------------------------------------------------
(* Every step.                                                             *)
LEMMA FillInvStep ==
  ASSUME IInv, LInv, Steady => DataInv, Deferring => FillInv, [Works]_vars
  PROVE  (Deferring => FillInv)'
<1>0. [Next]_vars /\ IInv'
  BY WorksOnly, NextStep
<1>1. policy' = policy
  <2>1. CASE \E m \in Mf, r \in Issuable : ReadOnlyAccess(m, r) \/ DataAccess(m, r)
    BY <2>1, AccessTouches
  <2>2. CASE Keeps(Mf)
    BY <2>2 DEF Keeps
  <2> QED
    BY <1>0, <2>1, <2>2, OtherKeeps
<1> SUFFICES ASSUME Deferring, FillInv, DataInv PROVE FillInv'
  BY <1>1 DEF Deferring, Steady
<1>2. CASE \E m \in Mf, r \in Issuable : ReadOnlyAccess(m, r) \/ DataAccess(m, r)
  BY <1>0, <1>2, AccessFill
<1>3. CASE /\ ~\E m \in Mf, r \in Issuable : ReadOnlyAccess(m, r) \/ DataAccess(m, r)
           /\ \E m \in Mf : Fill(m)
  BY <1>0, <1>3, OtherKeeps, FillStepKeepsFill
<1>4. CASE /\ ~\E m \in Mf, r \in Issuable : ReadOnlyAccess(m, r) \/ DataAccess(m, r)
           /\ ~\E m \in Mf : Fill(m)
  BY <1>0, <1>4, OtherKeeps, OtherFill
<1> QED
  BY <1>2, <1>3, <1>4

(* The initial states.                                                     *)
LEMMA FillStart ==
  ASSUME Init
  PROVE  FillInv
<1>1. /\ lines = [i \in Line |-> InitBlock]
      /\ mshr = [k \in Key |-> <<>>]
  BY DEF Init, TagInit, MshrInit
<1>2. \A i \in Line : IsInvalidLine(lines[i])
  BY <1>1 DEF IsInvalidLine, InitBlock
<1>3. LinesInv
  BY <1>1, <1>2 DEF LinesInv, OneCopy, InItsSet, AllReadable, Readable, InitBlock
<1>4. EntriesWait
  BY <1>1 DEF EntriesWait
<1>5. ReservedAwaits
  BY <1>1 DEF ReservedAwaits, InitBlock
<1> QED
  BY <1>3, <1>4, <1>5 DEF FillInv

(* In every reachable state of a cache that defers its responses.          *)
THEOREM FillInvariance == Spec => [](Maintenance = {} /\ Deferring => FillInv)
<1> DEFINE J == (IInv /\ LInv) /\ (Undisturbed => DataInv)
           K == Maintenance = {} /\ Deferring => FillInv
<1>1. Spec => []J
  BY LineInvariance, DataInvariance, PTL
<1>2. Init => K
  BY FillStart
<1>3. J /\ K /\ [Next]_vars => K'
  <2> SUFFICES ASSUME J, K, [Next]_vars, Maintenance = {}
               PROVE  (Deferring => FillInv)'
    OBVIOUS
  <2> QED
    BY WorksOnly, FillInvStep DEF Undisturbed
<1> QED
  BY <1>1, <1>2, <1>3, PTL DEF Spec

(* A reserved sector waits for a fill that is on its way: no request of a  *)
(* cache that defers its responses merges into an entry whose fill has     *)
(* come and reserves a line that nothing will fill.                        *)
THEOREM ReservedFill == Spec => [](Undisturbed => ReservedHasFill)
<1>1. (Maintenance = {} /\ Deferring => FillInv) => (Undisturbed => ReservedHasFill)
  BY DEF Undisturbed, Deferring, FillInv, ReservedAwaits, ReservedHasFill
<1> QED
  BY <1>1, FillInvariance, PTL
=============================================================================
