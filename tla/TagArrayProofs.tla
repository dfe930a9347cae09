--------------------------- MODULE TagArrayProofs ---------------------------
(***************************************************************************)
(* Facts about the cache blocks and the tag array that the proofs about    *)
(* whole caches rest on.                                                   *)
(***************************************************************************)
EXTENDS TagArray, FiniteSetTheorems, WellFoundedInduction, TLAPS

-----------------------------------------------------------------------------
(* Cache blocks: what each method returns, and what it does to the pins.   *)

(* allocate returns a block without pins.                                  *)
LEMMA AllocateType ==
  ASSUME NEW type \in CacheType, NEW line \in CacheBlockT,
         NEW tag \in Nat, NEW s \in Sector
  PROVE  /\ Allocate(type, line, tag, s) \in CacheBlockT
         /\ Allocate(type, line, tag, s).pending_response_count = 0
         /\ IsReservedLine(Allocate(type, line, tag, s))
<1>1. InitBlock \in CacheBlockT
  BY DEF InitBlock, CacheBlockT, BlockState, ByteMask
<1> DEFINE old == IF type = "SECTOR" THEN InitBlock ELSE line
<1>2. old \in CacheBlockT
  BY <1>1
<1> HIDE DEF old
<1>3. /\ [old.status EXCEPT ![s] = "RESERVED"] \in [Sector -> BlockState]
      /\ [old.set_modified_on_fill EXCEPT ![s] = FALSE] \in [Sector -> BOOLEAN]
      /\ [old.set_readable_on_fill EXCEPT ![s] = FALSE] \in [Sector -> BOOLEAN]
      /\ old.readable \in [Sector -> BOOLEAN]
      /\ old.dirty_byte_mask \in ByteMask
      /\ [old.status EXCEPT ![s] = "RESERVED"][s] = "RESERVED"
  BY <1>2 DEF CacheBlockT, BlockState
<1>4. Allocate(type, line, tag, s) =
        [ tag                    |-> tag,
          status                 |-> [old.status EXCEPT ![s] = "RESERVED"],
          set_modified_on_fill   |-> [old.set_modified_on_fill EXCEPT ![s] = FALSE],
          set_readable_on_fill   |-> [old.set_readable_on_fill EXCEPT ![s] = FALSE],
          set_byte_mask_on_fill  |-> FALSE,
          readable               |-> old.readable,
          dirty_byte_mask        |-> old.dirty_byte_mask,
          pending_response_count |-> 0 ]
  BY DEF Allocate, old
<1> QED
  BY <1>3, <1>4 DEF CacheBlockT, IsReservedLine

(* allocate_sector keeps the pins.                                         *)
LEMMA AllocateSectorType ==
  ASSUME NEW line \in CacheBlockT, NEW s \in Sector
  PROVE  /\ AllocateSector(line, s) \in CacheBlockT
         /\ AllocateSector(line, s).pending_response_count = line.pending_response_count
BY DEF AllocateSector, CacheBlockT, BlockState

(* fill keeps the pins.                                                    *)
LEMMA FillBlockType ==
  ASSUME NEW type, NEW line \in CacheBlockT, NEW s \in Sector, NEW mask \in ByteMask
  PROVE  /\ FillBlock(type, line, s, mask) \in CacheBlockT
         /\ FillBlock(type, line, s, mask).pending_response_count
              = line.pending_response_count
BY DEF FillBlock, CacheBlockT, BlockState, ByteMask

(* The setters keep the pins; pin and unpin change them by one.            *)
LEMMA SetterType ==
  ASSUME NEW line \in CacheBlockT, NEW s \in Sector, NEW mask \in ByteMask,
         NEW st \in BlockState, NEW b \in BOOLEAN
  PROVE  /\ SetStatus(line, s, st) \in CacheBlockT
         /\ SetStatus(line, s, st).pending_response_count = line.pending_response_count
         /\ SetByteMask(line, mask) \in CacheBlockT
         /\ SetByteMask(line, mask).pending_response_count = line.pending_response_count
         /\ SetReadable(line, s, b) \in CacheBlockT
         /\ SetReadable(line, s, b).pending_response_count = line.pending_response_count
         /\ SetModifiedOnFill(line, s) \in CacheBlockT
         /\ SetModifiedOnFill(line, s).pending_response_count
              = line.pending_response_count
         /\ SetReadableOnFill(line, s) \in CacheBlockT
         /\ SetReadableOnFill(line, s).pending_response_count
              = line.pending_response_count
         /\ InvalidateLine(line) \in CacheBlockT
         /\ InvalidateLine(line).pending_response_count = line.pending_response_count
BY DEF SetStatus, SetByteMask, SetReadable, SetModifiedOnFill, SetReadableOnFill,
       InvalidateLine, CacheBlockT, BlockState, ByteMask

(* Pin and unpin change the count of pins alone.                           *)
LEMMA PinType ==
  ASSUME NEW line \in CacheBlockT
  PROVE  /\ Pin(line) \in CacheBlockT
         /\ Pin(line).pending_response_count = line.pending_response_count + 1
         /\ IsModifiedLine(Pin(line)) <=> IsModifiedLine(line)
         /\ line.pending_response_count > 0 => Unpin(line) \in CacheBlockT
         /\ Unpin(line).pending_response_count = line.pending_response_count - 1
         /\ IsModifiedLine(Unpin(line)) <=> IsModifiedLine(line)
BY DEF Pin, Unpin, CacheBlockT, IsModifiedLine

-----------------------------------------------------------------------------
(* The tag array *)

(* The ways of a set are lines of the cache.                               *)
LEMMA WaysAreLines ==
  ASSUME NEW b \in Nat
  PROVE  Ways(b) \subseteq Line
<1> DEFINE set == b % NSet
<1>1. NSet \in Nat \ {0} /\ Assoc \in Nat \ {0}
  BY GeometryAssumption
<1>2. set \in 0 .. (NSet - 1)
  BY <1>1
<1> HIDE DEF set
<1>3. set * Assoc \in Nat /\ NSet * Assoc \in Nat
  BY <1>1, <1>2
<1>4. set * Assoc + Assoc = (set + 1) * Assoc
  BY <1>1, <1>2
<1>5. (set + 1) * Assoc <= NSet * Assoc
  BY <1>1, <1>2
<1>6. Ways(b) = (set * Assoc) .. (set * Assoc + Assoc - 1)
  BY DEF Ways, set
<1> QED
  BY <1>1, <1>3, <1>4, <1>5, <1>6 DEF Line

(* The lines of a cache are finitely many.                                 *)
LEMMA LineFinite == Line \in SUBSET Nat /\ IsFiniteSet(Line)
<1>1. NSet * Assoc - 1 \in Int
  BY GeometryAssumption
<1> QED
  BY <1>1, FS_Interval DEF Line

(* What a probe can return: the line it names exists, and the line of a    *)
(* MISS can be replaced.                                                   *)
LEMMA ProbeFacts ==
  ASSUME NEW b \in Nat, NEW s \in Sector, NEW wr, NEW p \in Probe(b, s, wr)
  PROVE  /\ p.st \in {"HIT", "HIT_RESERVED", "MISS", "SECTOR_MISS", "RESERVATION_FAIL"}
         /\ p.st # "RESERVATION_FAIL" => p.idx \in Line
         /\ p.st = "MISS" => Replaceable(p.idx)
         /\ p.st \in {"HIT", "HIT_RESERVED", "SECTOR_MISS"} => Matches(p.idx, b)
<1>1. Ways(b) \subseteq Line
  BY WaysAreLines
<1>2. Victims(b) \subseteq {i \in Ways(b) : Replaceable(i)}
  BY DEF Victims
<1> DEFINE matching == {i \in Ways(b) : Matches(i, b)}
           first    == {i \in matching : \A j \in matching : i <= j}
<1>3. \/ \E i \in first : p = [st |-> StatusOnMatch(i, s, wr), idx |-> i]
      \/ \E i \in Victims(b) : p = [st |-> "MISS", idx |-> i]
      \/ p = [st |-> "RESERVATION_FAIL", idx |-> NoLine]
  BY DEF Probe
<1>4. \A i : StatusOnMatch(i, s, wr) \in {"HIT", "HIT_RESERVED", "SECTOR_MISS"}
  BY DEF StatusOnMatch
<1> QED
  BY <1>1, <1>2, <1>3, <1>4

(* The lines are cache blocks, and m_dirty is no less than the number of   *)
(* modified lines.                                                         *)
TagInv ==
  /\ lines \in [Line -> CacheBlockT]
  /\ dirty \in Nat
  /\ dirty >= Cardinality(ModifiedLines)

(* One line changes, and its pins by n.                                    *)
LineStep(i, n) ==
  /\ i \in Line
  /\ \E new \in CacheBlockT :
       /\ lines' = [lines EXCEPT ![i] = new]
       /\ new.pending_response_count = lines[i].pending_response_count + n

(* What a probe answers, and why.                                          *)
LEMMA ProbeCases ==
  ASSUME NEW b, NEW s, NEW wr, NEW p \in Probe(b, s, wr)
  PROVE  \/ \E i \in Ways(b) : Matches(i, b) /\ p = [st |-> StatusOnMatch(i, s, wr), idx |-> i]
         \/ p.st = "MISS"
         \/ Victims(b) = {} /\ p.st = "RESERVATION_FAIL"
BY DEF Probe

(* A set of lines that is not empty has a last one.                        *)
LEMMA LastLine ==
  ASSUME NEW S \in SUBSET Line, S # {}
  PROVE  \E i \in S : \A j \in S : j <= i
<1>1. PICK hi \in Nat : Line = 0 .. hi
  <2>1. NSet * Assoc - 1 \in Nat
    BY GeometryAssumption
  <2> QED
    BY <2>1 DEF Line
<1> DEFINE T == {hi - i : i \in S}
<1>2. T \in SUBSET Nat /\ T # {}
  <2>1. \A i \in S : i \in 0 .. hi
    BY <1>1
  <2>2. \A i \in S : hi - i \in Nat
    BY <2>1
  <2>3. PICK i \in S : TRUE
    OBVIOUS
  <2>4. hi - i \in T
    OBVIOUS
  <2>5. \A x \in T : x \in Nat
    BY <2>2
  <2> HIDE DEF T
  <2> QED
    BY <2>4, <2>5
<1>3. PICK x \in T : \A y \in T : ~(<<y, x>> \in OpToRel(<, Nat))
  <2> HIDE DEF T
  <2> QED
    BY <1>2, NatLessThanWellFounded, WFMin
<1>4. \A y \in T : ~(y < x)
  BY <1>2, <1>3 DEF OpToRel
<1>5. PICK i \in S : x = hi - i
  OBVIOUS
<1>6. \A j \in S : ~(hi - j < hi - i)
  BY <1>4, <1>5
<1>7. S \subseteq Int
  BY <1>1
<1> QED
  BY <1>6, <1>7

(* Where no victim is found, no way can be replaced.                       *)
LEMMA VictimsEmpty ==
  ASSUME NEW b \in Nat, Victims(b) = {}
  PROVE  \A i \in Ways(b) : ~Replaceable(i)
<1> SUFFICES ASSUME NEW w \in Ways(b), Replaceable(w)
             PROVE  FALSE
  OBVIOUS
<1> DEFINE c == {i \in Ways(b) : Replaceable(i)}
           invalid == {i \in c : IsInvalidLine(lines[i])}
<1>1. Victims(b) = IF invalid = {} THEN c
                   ELSE {i \in invalid : \A j \in invalid : j <= i}
  BY DEF Victims
<1>2. w \in c
  OBVIOUS
<1>3. invalid \in SUBSET Line
  BY WaysAreLines
<1> HIDE DEF c, invalid
<1>4. invalid # {}
  BY <1>1, <1>2
<1> QED
  BY <1>1, <1>3, <1>4, LastLine

LEMMA WayExists ==
  ASSUME NEW b \in Nat
  PROVE  \E i \in Ways(b) : i \in Line
<1>1. b % NSet \in Nat /\ Assoc \in Nat \ {0}
  BY GeometryAssumption
<1>2. (b % NSet) * Assoc \in Nat
  BY <1>1
<1>3. (b % NSet) * Assoc \in Ways(b)
  BY <1>1, <1>2 DEF Ways
<1> QED
  BY <1>3, WaysAreLines

(* The modified lines are finitely many.                                   *)
LEMMA ModifiedFinite ==
  /\ ModifiedLines \subseteq Line
  /\ IsFiniteSet(ModifiedLines)
  /\ Cardinality(ModifiedLines) \in Nat
BY LineFinite, FS_Subset, FS_CardinalityType DEF ModifiedLines

(* The modified lines after a change of one line.                          *)
LEMMA ModifiedAfter ==
  ASSUME lines \in [Line -> CacheBlockT], NEW i \in Line, NEW new,
         lines' = [lines EXCEPT ![i] = new]
  PROVE  /\ IsModifiedLine(new) => ModifiedLines' = ModifiedLines \cup {i}
         /\ ~IsModifiedLine(new) => ModifiedLines' = ModifiedLines \ {i}
<1>1. lines'[i] = new /\ \A j \in Line \ {i} : lines'[j] = lines[j]
  OBVIOUS
<1>2. ModifiedLines' = {j \in Line : IsModifiedLine(lines'[j])}
  BY DEF ModifiedLines, IsModifiedLine
<1> QED
  BY <1>1, <1>2 DEF ModifiedLines

(* Their number changes by one at most, as that line says.                 *)
LEMMA ModifiedCount ==
  ASSUME lines \in [Line -> CacheBlockT], NEW i \in Line, NEW new,
         lines' = [lines EXCEPT ![i] = new]
  PROVE  /\ Cardinality(ModifiedLines') \in Nat
         /\ (IsModifiedLine(new) <=> IsModifiedLine(lines[i])) =>
               Cardinality(ModifiedLines') = Cardinality(ModifiedLines)
         /\ IsModifiedLine(new) /\ ~IsModifiedLine(lines[i]) =>
               Cardinality(ModifiedLines') = Cardinality(ModifiedLines) + 1
         /\ ~IsModifiedLine(new) /\ IsModifiedLine(lines[i]) =>
               /\ Cardinality(ModifiedLines') = Cardinality(ModifiedLines) - 1
               /\ Cardinality(ModifiedLines) > 0
<1>1. IsFiniteSet(ModifiedLines) /\ Cardinality(ModifiedLines) \in Nat
  BY ModifiedFinite
<1>2. i \in ModifiedLines <=> IsModifiedLine(lines[i])
  BY DEF ModifiedLines
<1>3. CASE IsModifiedLine(new) <=> IsModifiedLine(lines[i])
  <2>1. ModifiedLines' = ModifiedLines
    BY <1>2, <1>3, ModifiedAfter
  <2> QED
    BY <1>1, <1>3, <2>1
<1>4. CASE IsModifiedLine(new) /\ ~IsModifiedLine(lines[i])
  <2>1. ModifiedLines' = ModifiedLines \cup {i} /\ i \notin ModifiedLines
    BY <1>2, <1>4, ModifiedAfter
  <2>2. Cardinality(ModifiedLines \cup {i}) = Cardinality(ModifiedLines) + 1
    BY <1>1, <2>1, FS_AddElement
  <2> QED
    BY <1>1, <1>4, <2>1, <2>2
<1>5. CASE ~IsModifiedLine(new) /\ IsModifiedLine(lines[i])
  <2>1. ModifiedLines' = ModifiedLines \ {i} /\ i \in ModifiedLines
    BY <1>2, <1>5, ModifiedAfter
  <2>2. Cardinality(ModifiedLines \ {i}) = Cardinality(ModifiedLines) - 1
    BY <1>1, <2>1, FS_RemoveElement
  <2>3. Cardinality(ModifiedLines) # 0
    BY <1>1, <2>1, FS_EmptySet
  <2> QED
    BY <1>1, <1>5, <2>1, <2>2, <2>3
<1> QED
  BY <1>3, <1>4, <1>5

(* m_dirty, counted down when a line leaves the modified ones for here and *)
(* up when here becomes new, stays no less than their number.              *)
LEMMA DirtyCounted ==
  ASSUME TagInv, NEW i \in Line, NEW here, NEW new \in CacheBlockT,
         IsModifiedLine(here) => IsModifiedLine(lines[i]),
         lines' = [lines EXCEPT ![i] = new],
         dirty' = DirtyAfter(DirtyLeft(lines[i], here), here, new)
  PROVE  TagInv'
<1> DEFINE old == lines[i]
<1>1. /\ Cardinality(ModifiedLines) \in Nat
      /\ Cardinality(ModifiedLines') \in Nat
      /\ (IsModifiedLine(new) <=> IsModifiedLine(old)) =>
            Cardinality(ModifiedLines') = Cardinality(ModifiedLines)
      /\ IsModifiedLine(new) /\ ~IsModifiedLine(old) =>
            Cardinality(ModifiedLines') = Cardinality(ModifiedLines) + 1
      /\ ~IsModifiedLine(new) /\ IsModifiedLine(old) =>
            /\ Cardinality(ModifiedLines') = Cardinality(ModifiedLines) - 1
            /\ Cardinality(ModifiedLines) > 0
  BY ModifiedFinite, ModifiedCount DEF TagInv
<1>2. IsModifiedLine(old) => Cardinality(ModifiedLines) > 0
  <2>1. IsModifiedLine(old) => i \in ModifiedLines
    BY DEF ModifiedLines
  <2> QED
    BY <1>1, <2>1, ModifiedFinite, FS_EmptySet
<1>3. lines' \in [Line -> CacheBlockT]
  BY DEF TagInv
<1>4. dirty' \in Nat /\ dirty' >= Cardinality(ModifiedLines')
  BY <1>1, <1>2 DEF TagInv, DirtyAfter, DirtyLeft
<1> QED
  BY <1>3, <1>4 DEF TagInv

(* A change that makes no line modified needs no change of m_dirty.        *)
LEMMA DirtyUntouched ==
  ASSUME TagInv, NEW i \in Line, NEW new \in CacheBlockT,
         IsModifiedLine(new) => IsModifiedLine(lines[i]),
         lines' = [lines EXCEPT ![i] = new],
         dirty' = dirty
  PROVE  TagInv'
<1>1. /\ Cardinality(ModifiedLines) \in Nat
      /\ Cardinality(ModifiedLines') \in Nat
      /\ Cardinality(ModifiedLines') <= Cardinality(ModifiedLines)
  <2>1. /\ Cardinality(ModifiedLines) \in Nat
        /\ Cardinality(ModifiedLines') \in Nat
        /\ (IsModifiedLine(new) <=> IsModifiedLine(lines[i])) =>
              Cardinality(ModifiedLines') = Cardinality(ModifiedLines)
        /\ ~IsModifiedLine(new) /\ IsModifiedLine(lines[i]) =>
              Cardinality(ModifiedLines') = Cardinality(ModifiedLines) - 1
    BY ModifiedFinite, ModifiedCount DEF TagInv
  <2> QED
    BY <2>1
<1>2. lines' \in [Line -> CacheBlockT]
  BY DEF TagInv
<1>3. dirty' \in Nat /\ dirty' >= Cardinality(ModifiedLines')
  BY <1>1 DEF TagInv
<1> QED
  BY <1>2, <1>3 DEF TagInv

(* access: whatever line it leaves has the pins of the line before, since  *)
(* only a line without pins is replaced, and is modified only if that was. *)
LEMMA TagAccessFacts ==
  ASSUME TagInv, policy \in Config, NEW b \in Nat, NEW s \in Sector, NEW wr,
         NEW p \in Probe(b, s, wr), p.st # "RESERVATION_FAIL"
  PROVE  LET t == TagAccess(p, b, s)
         IN  /\ p.idx \in Line
             /\ lines[p.idx] \in CacheBlockT
             /\ t.line \in CacheBlockT
             /\ t.line.pending_response_count = lines[p.idx].pending_response_count
             /\ IsModifiedLine(t.line) => IsModifiedLine(lines[p.idx])
             /\ t.dirty = DirtyLeft(lines[p.idx], t.line)
             /\ t.evicted.tag \in Nat
<1> DEFINE t == TagAccess(p, b, s)
           line == lines[p.idx]
           replaces == p.st = "MISS" /\ policy.alloc = "ON_MISS"
           extends  == p.st = "SECTOR_MISS" /\ policy.alloc = "ON_MISS"
<1>1. p.idx \in Line /\ line \in CacheBlockT /\ line.tag \in Nat
      /\ (p.st = "MISS" => line.pending_response_count = 0)
  BY ProbeFacts DEF TagInv, CacheBlockT, Replaceable, IsPinned
<1>2. policy.type \in CacheType
  BY DEF Config
<1>3. /\ t.line = IF replaces THEN Allocate(policy.type, line, b, s)
                  ELSE IF extends THEN AllocateSector(line, s) ELSE line
      /\ t.dirty = DirtyLeft(line, t.line)
      /\ t.evicted = line
  BY DEF TagAccess
<1>4. CASE replaces
  <2>1. /\ Allocate(policy.type, line, b, s) \in CacheBlockT
        /\ Allocate(policy.type, line, b, s).pending_response_count = 0
    BY <1>1, <1>2, AllocateType
  <2>2. IsModifiedLine(Allocate(policy.type, line, b, s)) => IsModifiedLine(line)
    BY <1>1 DEF Allocate, IsModifiedLine, InitBlock, CacheBlockT
  <2> QED
    BY <1>1, <1>3, <1>4, <2>1, <2>2
<1>5. CASE ~replaces /\ extends
  <2>1. /\ AllocateSector(line, s) \in CacheBlockT
        /\ AllocateSector(line, s).pending_response_count = line.pending_response_count
    BY <1>1, AllocateSectorType
  <2>2. IsModifiedLine(AllocateSector(line, s)) => IsModifiedLine(line)
    BY <1>1 DEF AllocateSector, IsModifiedLine, CacheBlockT
  <2> QED
    BY <1>1, <1>3, <1>5, <2>1, <2>2
<1>6. CASE ~replaces /\ ~extends
  BY <1>1, <1>3, <1>6
<1> QED
  BY <1>4, <1>5, <1>6

(* fill by index *)
LEMMA FillByIndexFacts ==
  ASSUME TagInv, NEW i \in Line, NEW s \in Sector, NEW mask \in ByteMask,
         FillByIndex(i, s, mask)
  PROVE  TagInv' /\ LineStep(i, 0)
<1> DEFINE new == FillBlock(policy.type, lines[i], s, mask)
<1>1. /\ lines[i] \in CacheBlockT
      /\ new \in CacheBlockT
      /\ new.pending_response_count = lines[i].pending_response_count + 0
  <2>1. lines[i] \in CacheBlockT
    BY DEF TagInv
  <2>2. /\ new \in CacheBlockT
        /\ new.pending_response_count = lines[i].pending_response_count
    BY <2>1, FillBlockType
  <2>3. lines[i].pending_response_count \in Nat
    BY <2>1 DEF CacheBlockT
  <2> QED
    BY <2>1, <2>2, <2>3
<1>2. /\ lines' = [lines EXCEPT ![i] = new]
      /\ dirty' = DirtyAfter(dirty, lines[i], new)
  BY DEF FillByIndex
<1>3. dirty = DirtyLeft(lines[i], lines[i])
  BY DEF DirtyLeft
<1> HIDE DEF new
<1>4. TagInv'
  BY <1>1, <1>2, <1>3, DirtyCounted
<1> QED
  BY <1>1, <1>2, <1>4 DEF LineStep

(* fill by address: the line it takes for a miss has no pins.              *)
LEMMA FillByAddressFacts ==
  ASSUME TagInv, policy \in Config, NEW b \in Nat, NEW s \in Sector, NEW wr,
         NEW mask \in ByteMask, FillByAddress(b, s, wr, mask)
  PROVE  TagInv' /\ (lines' = lines \/ \E i \in Line : LineStep(i, 0))
<1>1. PICK p \in Probe(b, s, wr) :
        IF p.st = "RESERVATION_FAIL"
        THEN UNCHANGED <<lines, dirty>>
        ELSE LET old  == lines[p.idx]
                 here == CASE p.st = "MISS" -> Allocate(policy.type, old, b, s)
                           [] p.st = "SECTOR_MISS" -> AllocateSector(old, s)
                           [] OTHER -> old
                 new  == FillBlock(policy.type, here, s, mask)
             IN  /\ lines' = [lines EXCEPT ![p.idx] = new]
                 /\ dirty' = DirtyAfter(DirtyLeft(old, here), here, new)
  BY DEF FillByAddress
<1>2. CASE p.st = "RESERVATION_FAIL"
  BY <1>1, <1>2 DEF TagInv, ModifiedLines
<1>3. CASE p.st # "RESERVATION_FAIL"
  <2> DEFINE old  == lines[p.idx]
             here == CASE p.st = "MISS" -> Allocate(policy.type, old, b, s)
                       [] p.st = "SECTOR_MISS" -> AllocateSector(old, s)
                       [] OTHER -> old
             new  == FillBlock(policy.type, here, s, mask)
  <2>1. p.idx \in Line /\ old \in CacheBlockT /\ policy.type \in CacheType
        /\ (p.st = "MISS" => old.pending_response_count = 0)
    BY <1>3, ProbeFacts DEF TagInv, Replaceable, IsPinned, Config
  <2>2. /\ here \in CacheBlockT
        /\ here.pending_response_count = old.pending_response_count
        /\ IsModifiedLine(here) => IsModifiedLine(old)
    <3>1. CASE p.st = "MISS"
      <4>1. here = Allocate(policy.type, old, b, s)
        BY <3>1
      <4>2. IsModifiedLine(Allocate(policy.type, old, b, s)) => IsModifiedLine(old)
        BY <2>1 DEF Allocate, IsModifiedLine, InitBlock, CacheBlockT
      <4> QED
        BY <2>1, <3>1, <4>1, <4>2, AllocateType
    <3>2. CASE p.st = "SECTOR_MISS"
      <4>1. here = AllocateSector(old, s)
        BY <3>2
      <4>2. IsModifiedLine(AllocateSector(old, s)) => IsModifiedLine(old)
        BY <2>1 DEF AllocateSector, IsModifiedLine, CacheBlockT
      <4> QED
        BY <2>1, <4>1, <4>2, AllocateSectorType
    <3>3. CASE p.st \notin {"MISS", "SECTOR_MISS"}
      <4>1. here = old
        BY <3>3
      <4> QED
        BY <2>1, <4>1
    <3> QED
      BY <3>1, <3>2, <3>3
  <2> HIDE DEF here
  <2>3. new \in CacheBlockT /\ new.pending_response_count = old.pending_response_count + 0
    <3>1. old.pending_response_count \in Nat
      BY <2>1 DEF CacheBlockT
    <3>2. /\ new \in CacheBlockT
          /\ new.pending_response_count = here.pending_response_count
      BY <2>2, FillBlockType
    <3> QED
      BY <2>2, <3>1, <3>2
  <2>4. /\ lines' = [lines EXCEPT ![p.idx] = new]
        /\ dirty' = DirtyAfter(DirtyLeft(old, here), here, new)
    BY <1>1, <1>3 DEF here
  <2> HIDE DEF new
  <2>5. TagInv'
    BY <2>1, <2>2, <2>3, <2>4, DirtyCounted
  <2> QED
    BY <2>1, <2>3, <2>4, <2>5 DEF LineStep
<1> QED
  BY <1>2, <1>3

(* flush and invalidate *)
LEMMA FlushFacts ==
  ASSUME TagInv, FlushTags \/ InvalidateTags
  PROVE  /\ TagInv'
         /\ \A i \in Line :
              lines'[i].pending_response_count = lines[i].pending_response_count
<1>1. \A i \in Line : /\ lines[i] \in CacheBlockT
                      /\ InvalidateLine(lines[i]) \in CacheBlockT
                      /\ InvalidateLine(lines[i]).pending_response_count
                           = lines[i].pending_response_count
                      /\ ~IsModifiedLine(InvalidateLine(lines[i]))
  BY DEF TagInv, InvalidateLine, CacheBlockT, BlockState, IsModifiedLine
<1>2. /\ lines' \in [Line -> CacheBlockT]
      /\ \A i \in Line : /\ ~IsModifiedLine(lines'[i])
                         /\ lines'[i].pending_response_count
                              = lines[i].pending_response_count
      /\ dirty' = 0
  <2>1. CASE FlushTags
    BY <1>1, <2>1 DEF FlushTags
  <2>2. CASE InvalidateTags
    BY <1>1, <2>2 DEF InvalidateTags
  <2> QED
    BY <2>1, <2>2
<1>3. ModifiedLines' = {}
  BY <1>2 DEF ModifiedLines, IsModifiedLine
<1>4. Cardinality(ModifiedLines') = 0
  BY <1>3, FS_EmptySet
<1> QED
  BY <1>2, <1>4 DEF TagInv

-----------------------------------------------------------------------------
(* Sequences, element by element *)

(* The elements of a sequence with one more at its end,                    *)
LEMMA AppendElements ==
  ASSUME NEW S, NEW q \in Seq(S), NEW x \in S
  PROVE  /\ Append(q, x) \in Seq(S)
         /\ Len(q) \in Nat /\ DOMAIN q = 1 .. Len(q)
         /\ DOMAIN Append(q, x) = 1 .. (Len(q) + 1)
         /\ \A i \in 1 .. Len(q) : Append(q, x)[i] = q[i]
         /\ Append(q, x)[Len(q) + 1] = x
OBVIOUS

(* without its first one,                                                  *)
LEMMA TailElements ==
  ASSUME NEW S, NEW q \in Seq(S), q # <<>>
  PROVE  /\ Tail(q) \in Seq(S)
         /\ Len(q) \in Nat \ {0} /\ DOMAIN q = 1 .. Len(q)
         /\ Head(q) = q[1] /\ q[1] \in S
         /\ DOMAIN Tail(q) = 1 .. (Len(q) - 1)
         /\ \A i \in 1 .. (Len(q) - 1) : Tail(q)[i] = q[i + 1]
OBVIOUS

(* and of two sequences one after the other.                               *)
LEMMA ConcatElements ==
  ASSUME NEW S, NEW q \in Seq(S), NEW e \in Seq(S)
  PROVE  /\ q \o e \in Seq(S)
         /\ Len(q) \in Nat /\ Len(e) \in Nat
         /\ DOMAIN q = 1 .. Len(q) /\ DOMAIN e = 1 .. Len(e)
         /\ DOMAIN (q \o e) = 1 .. (Len(q) + Len(e))
         /\ \A i \in 1 .. Len(q) : (q \o e)[i] = q[i]
         /\ \A i \in 1 .. Len(e) : (q \o e)[Len(q) + i] = e[i]
OBVIOUS

(* A function on an initial segment of the naturals is a sequence.         *)
LEMMA FunctionIsSeq ==
  ASSUME NEW S, NEW n \in Nat, NEW f \in [1 .. n -> S]
  PROVE  f \in Seq(S) /\ Len(f) = n
OBVIOUS
=============================================================================
