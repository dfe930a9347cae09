------------------------------ MODULE TagArray ------------------------------
(***************************************************************************)
(* tag_array: the blocks of a cache, found by set and tag, and the count   *)
(* m_dirty of modified lines, for a configuration that cache_config::init  *)
(* accepts.  A probe returns the set of its possible outcomes: which of    *)
(* the replaceable lines LRU or FIFO picks is left open.                   *)
(***************************************************************************)
EXTENDS CacheBlock, Integers, Sequences, FiniteSets

CONSTANTS
  NSet, Assoc,     \* geometry
  WrPercent,       \* m_wr_percent
  NoLine,          \* "no line"
  Policies         \* the configurations a run starts from

(* cache_config::init: the configurations it does not refuse.  STREAMING   *)
(* becomes ON_FILL there.  SECTOR_ASSOC and SECTOR_TEX_FIFO are for a line *)
(* cache above a sector cache: the lower level answers a read of a line    *)
(* with one response for each of its sectors.  The code also accepts       *)
(* SECTOR_ASSOC with sectors, where each read waits for more responses     *)
(* than a sector has; that combination is left out.                        *)
Config ==
  [ type        : CacheType,
    alloc       : {"ON_MISS", "ON_FILL"},
    write       : {"READ_ONLY", "WRITE_BACK", "WRITE_THROUGH", "WRITE_EVICT",
                   "LOCAL_WB_GLOBAL_WT"},
    write_alloc : {"NO_WRITE_ALLOCATE", "WRITE_ALLOCATE", "FETCH_ON_WRITE",
                   "LAZY_FETCH_ON_READ"},
    mshr        : {"ASSOC", "SECTOR_ASSOC", "TEX_FIFO", "SECTOR_TEX_FIFO"},
    defer       : BOOLEAN ]

ValidConfig ==
  { c \in Config :
      /\ c.alloc = "ON_FILL" =>
           /\ c.write # "WRITE_BACK"
           /\ c.write_alloc \notin {"FETCH_ON_WRITE", "LAZY_FETCH_ON_READ"}
      /\ c.mshr = "SECTOR_ASSOC" => c.type = "NORMAL" }

ASSUME GeometryAssumption == NSet \in Nat \ {0} /\ Assoc \in Nat \ {0}
ASSUME PolicyAssumption == Policies \subseteq ValidConfig
ASSUME TagAssumption == NoLine \notin Nat /\ WrPercent \in Nat

Line == 0 .. (NSet * Assoc - 1)

VARIABLES
  policy,             \* the configuration, fixed in the initial state
  lines, dirty, is_used

tagVars == <<lines, dirty, is_used>>

TagInit ==
  /\ policy \in Policies
  /\ lines = [i \in Line |-> InitBlock]
  /\ dirty = 0
  /\ is_used = FALSE

(* A line cache has no sectors: it uses the first one for the whole line.  *)
SectorsUsed == IF policy.type = "NORMAL" THEN {0} ELSE Sector

-----------------------------------------------------------------------------
Ways(b) == LET set == b % NSet IN (set * Assoc) .. (set * Assoc + Assoc - 1)

ModifiedLines == {i \in Line : IsModifiedLine(lines[i])}

DirtyEnough == dirty * 100 >= WrPercent * NSet * Assoc

Matches(i, b) == lines[i].tag = b /\ ~IsInvalidLine(lines[i])

(* Faulty variants of Replaceable: a pinned line, a reserved line can be   *)
(* replaced.                                                               *)
ReplaceablePinned(i) ==
  ~IsReservedLine(lines[i]) /\ (IsModifiedLine(lines[i]) => DirtyEnough)
ReplaceableReserved(i) ==
  ~IsPinned(lines[i]) /\ (IsModifiedLine(lines[i]) => DirtyEnough)

Replaceable(i) ==
  /\ ~IsPinned(lines[i])
  /\ ~IsReservedLine(lines[i])
  /\ IsModifiedLine(lines[i]) => DirtyEnough

StatusOnMatch(i, s, wr) ==
  CASE lines[i].status[s] = "RESERVED" -> "HIT_RESERVED"
    [] lines[i].status[s] = "VALID"    -> "HIT"
    [] lines[i].status[s] = "MODIFIED" ->
         IF wr \/ lines[i].readable[s] THEN "HIT" ELSE "SECTOR_MISS"
    [] OTHER -> "SECTOR_MISS"

(* The first way that matches decides.  Otherwise the last invalid way, or *)
(* any other replaceable way: which one LRU or FIFO picks is left open.    *)
Victims(b) ==
  LET c       == {i \in Ways(b) : Replaceable(i)}
      invalid == {i \in c : IsInvalidLine(lines[i])}
  IN  IF invalid = {} THEN c
      ELSE {i \in invalid : \A j \in invalid : j <= i}

Probe(b, s, wr) ==
  LET matching == {i \in Ways(b) : Matches(i, b)}
      first    == {i \in matching : \A j \in matching : i <= j}
  IN  IF matching # {}
      THEN {[st |-> StatusOnMatch(i, s, wr), idx |-> i] : i \in first}
      ELSE IF Victims(b) # {}
      THEN {[st |-> "MISS", idx |-> i] : i \in Victims(b)}
      ELSE {[st |-> "RESERVATION_FAIL", idx |-> NoLine]}

(* Faulty variant of DirtyLeft: every modified line that is touched counts *)
(* as gone.                                                                *)
DirtyLeftAlways(old, new) == IF IsModifiedLine(old) THEN dirty - 1 ELSE dirty

DirtyLeft(old, new) ==
  IF IsModifiedLine(old) /\ ~IsModifiedLine(new) THEN dirty - 1 ELSE dirty

(* tag_array::access after the probe p: the line it leaves, the change of  *)
(* m_dirty, and the line whose modified data has to be written back.  The  *)
(* code probes a second time here; nothing has changed since the first.    *)
TagAccess(p, b, s) ==
  LET line     == lines[p.idx]
      replaces == p.st = "MISS" /\ policy.alloc = "ON_MISS"
      extends  == p.st = "SECTOR_MISS" /\ policy.alloc = "ON_MISS"
      new      == IF replaces THEN Allocate(policy.type, line, b, s)
                  ELSE IF extends THEN AllocateSector(line, s)
                  ELSE line
  IN  [ line  |-> new,
        dirty |-> DirtyLeft(line, new),
        wb    |-> replaces /\ IsModifiedLine(line),
        evicted |-> line ]

(* The asserts the probe and access of a request run into.                 *)
AccessAllowed(p) ==
  /\ p.st = "RESERVATION_FAIL" => policy.alloc = "ON_MISS"
  /\ p.st = "SECTOR_MISS" => policy.type = "SECTOR"

(* Faulty variants of DirtyAfter: the count misses the new modified line,  *)
(* or takes a line that was modified already for a new one.                *)
DirtyAfterNone(d, old, new) == d
DirtyAfterAny(d, old, new)  == IF IsModifiedLine(new) THEN d + 1 ELSE d

(* A line whose first sector becomes modified adds one to m_dirty.         *)
DirtyAfter(d, old, new) ==
  IF IsModifiedLine(new) /\ ~IsModifiedLine(old) THEN d + 1 ELSE d

-----------------------------------------------------------------------------
(* tag_array::fill by address (ON_FILL and force_tag_access): no write     *)
(* back of what it replaces, nothing at all when there is no line to take. *)
FillByAddress(b, s, wr, mask) ==
  \E p \in Probe(b, s, wr) :
    /\ AccessAllowed(p)
    /\ IF p.st = "RESERVATION_FAIL"
       THEN UNCHANGED <<lines, dirty>>
       ELSE LET old  == lines[p.idx]
                here == CASE p.st = "MISS" -> Allocate(policy.type, old, b, s)
                          [] p.st = "SECTOR_MISS" -> AllocateSector(old, s)
                          [] OTHER -> old
                new  == FillBlock(policy.type, here, s, mask)
            IN  /\ lines' = [lines EXCEPT ![p.idx] = new]
                /\ dirty' = DirtyAfter(DirtyLeft(old, here), here, new)

(* Faulty variant of FillByIndex: always the first sector.                 *)
FillByIndexFirst(i, s, mask) ==
  LET new == FillBlock(policy.type, lines[i], 0, mask)
  IN  /\ lines' = [lines EXCEPT ![i] = new]
      /\ dirty' = DirtyAfter(dirty, lines[i], new)

FillByIndex(i, s, mask) ==
  LET new == FillBlock(policy.type, lines[i], s, mask)
  IN  /\ lines' = [lines EXCEPT ![i] = new]
      /\ dirty' = DirtyAfter(dirty, lines[i], new)

(* flush drops the modified lines; nothing is written back.                *)
FlushTags ==
  /\ is_used
  /\ lines' = [i \in Line |-> IF IsModifiedLine(lines[i])
                              THEN InvalidateLine(lines[i]) ELSE lines[i]]
  /\ dirty' = 0
  /\ is_used' = FALSE

InvalidateTags ==
  /\ lines' = [i \in Line |-> InvalidateLine(lines[i])]
  /\ dirty' = 0
  /\ is_used' = FALSE

=============================================================================
