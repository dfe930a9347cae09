----------------------------- MODULE CacheBlock -----------------------------
(***************************************************************************)
(* The two kinds of cache block of gpu_cache_ref.h: line_cache_block, one  *)
(* status for the whole line, and sector_cache_block, one status for each  *)
(* sector.  A block is a record and every method that changes a block is   *)
(* an operator from blocks to blocks.  A NORMAL cache uses one sector of   *)
(* the record, so both kinds share one shape; the operators in which they  *)
(* differ take the cache type.                                             *)
(*                                                                         *)
(* Time stamps are left out (the choice of a victim is nondeterministic in *)
(* TagArray), and so is m_ignore_on_fill_status, which the code writes and *)
(* never reads.                                                            *)
(***************************************************************************)
EXTENDS Naturals

CONSTANTS Blk,      \* block addresses, in units of a line
          Sector,   \* the sectors of a line; a NORMAL cache uses only one
          Byte      \* the bytes of a sector a byte mask tells apart

ASSUME AddressAssumption == Blk \subseteq Nat /\ Sector \subseteq Nat /\ 0 \in Sector

(* What mshr_addr tells apart: the line and, with sectors, the sector.     *)
Key == Blk \X Sector

CacheType == {"NORMAL", "SECTOR"}

BlockState == {"INVALID", "RESERVED", "VALID", "MODIFIED"}

ByteMask == SUBSET (Sector \X Byte)

CacheBlockT ==
  [ tag                    : Nat,
    status                 : [Sector -> BlockState],
    set_modified_on_fill   : [Sector -> BOOLEAN],
    set_readable_on_fill   : [Sector -> BOOLEAN],
    set_byte_mask_on_fill  : BOOLEAN,
    readable               : [Sector -> BOOLEAN],
    dirty_byte_mask        : ByteMask,
    pending_response_count : Nat ]

InitBlock ==
  [ tag                    |-> 0,
    status                 |-> [s \in Sector |-> "INVALID"],
    set_modified_on_fill   |-> [s \in Sector |-> FALSE],
    set_readable_on_fill   |-> [s \in Sector |-> FALSE],
    set_byte_mask_on_fill  |-> FALSE,
    readable               |-> [s \in Sector |-> TRUE],
    dirty_byte_mask        |-> {},
    pending_response_count |-> 0 ]

IsInvalidLine(line)  == \A s \in Sector : line.status[s] = "INVALID"
IsReservedLine(line) == \E s \in Sector : line.status[s] = "RESERVED"
IsModifiedLine(line) == \E s \in Sector : line.status[s] = "MODIFIED"
IsPinned(line)       == line.pending_response_count # 0

-----------------------------------------------------------------------------
(* line_cache_block::allocate keeps the readable flag and the dirty bytes  *)
(* of the line it replaces; sector_cache_block::allocate_line starts from  *)
(* a fresh block.                                                          *)
Allocate(type, line, tag, s) ==
  LET old == IF type = "SECTOR" THEN InitBlock ELSE line
  IN  [ tag                    |-> tag,
        status                 |-> [old.status EXCEPT ![s] = "RESERVED"],
        set_modified_on_fill   |-> [old.set_modified_on_fill EXCEPT ![s] = FALSE],
        set_readable_on_fill   |-> [old.set_readable_on_fill EXCEPT ![s] = FALSE],
        set_byte_mask_on_fill  |-> FALSE,
        readable               |-> old.readable,
        dirty_byte_mask        |-> old.dirty_byte_mask,
        pending_response_count |-> 0 ]

(* A sector of a line that is already there: the dirty bytes of the line,  *)
(* its byte-mask flag and its pins stay.                                   *)
AllocateSector(line, s) ==
  [line EXCEPT !.status[s]               = "RESERVED",
               !.set_modified_on_fill[s] = (line.status[s] = "MODIFIED"),
               !.set_readable_on_fill[s] = FALSE,
               !.readable[s]             = TRUE]

(* Faulty variant of FillBlock: the fill forgets set_modified_on_fill.     *)
FillBlockClean(type, line, s, mask) ==
  [line EXCEPT !.status[s] = "VALID", !.readable[s] = @ \/ line.set_readable_on_fill[s]]

(* fill: the fill of a line cache leaves set_readable_on_fill as it was.   *)
FillBlock(type, line, s, mask) ==
  [line EXCEPT
     !.status[s] = IF line.set_modified_on_fill[s] THEN "MODIFIED" ELSE "VALID",
     !.readable[s] = @ \/ line.set_readable_on_fill[s],
     !.set_readable_on_fill[s] = @ /\ type = "NORMAL",
     !.dirty_byte_mask = IF line.set_byte_mask_on_fill THEN @ \cup mask ELSE @]

SetStatus(line, s, st) == [line EXCEPT !.status[s] = st]

SetByteMask(line, mask) == [line EXCEPT !.dirty_byte_mask = @ \cup mask]

SetReadable(line, s, b) == [line EXCEPT !.readable[s] = b]

SetModifiedOnFill(line, s) == [line EXCEPT !.set_modified_on_fill[s] = TRUE,
                                           !.set_byte_mask_on_fill = TRUE]

SetReadableOnFill(line, s) == [line EXCEPT !.set_readable_on_fill[s] = TRUE]

(* tag_array::flush and invalidate write every status of a line.           *)
InvalidateLine(line) ==
  [line EXCEPT !.status = [s \in Sector |-> "INVALID"]]

(* Faulty variant of Unpin: the first response releases the whole line.    *)
UnpinAll(line) == [line EXCEPT !.pending_response_count = 0]

Pin(line)   == [line EXCEPT !.pending_response_count = @ + 1]
Unpin(line) == [line EXCEPT !.pending_response_count = @ - 1]

=============================================================================
