------------------------------ MODULE TexCache ------------------------------
(***************************************************************************)
(* tex_cache, after Igehy et al.: tags are looked up at the front of the   *)
(* pipeline and updated at once, data arrives later.  Every request waits  *)
(* in the fragment FIFO; a miss also takes a slot of the reorder buffer    *)
(* and a place in the request FIFO.  When a request comes to the head of   *)
(* the fragment FIFO its block goes to the data store (a miss whose data   *)
(* is back) or is expected to be there (a hit), and the request moves to   *)
(* the result FIFO.                                                        *)
(*                                                                         *)
(* The reorder buffer is the ring buffer of class fifo, since a fill finds *)
(* its slot by index; the other three FIFOs are sequences.                 *)
(***************************************************************************)
EXTENDS TagArray

CONSTANTS
  Mf,              \* mem_fetch tokens
  NoMf,            \* the NULL request of a slot that was never used
  FragmentEntries, RequestEntries, RobEntries, ResultEntries,
  Chunks,          \* m_line_sz / SECTOR_SIZE: responses to one read
  CallerStops      \* the caller at some point stops issuing

ASSUME TexAssumption ==
  /\ FragmentEntries \in Nat \ {0} /\ RequestEntries \in Nat \ {0}
  /\ RobEntries \in Nat \ {0} /\ ResultEntries \in Nat \ {0}
  /\ Chunks \in Nat \ {0} /\ CallerStops \in BOOLEAN
  /\ NoMf \notin Mf
ASSUME TexPolicyAssumption ==
  \A c \in Policies : /\ c.mshr \in {"TEX_FIFO", "SECTOR_TEX_FIFO"}
                      /\ c.write = "READ_ONLY" /\ c.alloc = "ON_MISS"

VARIABLES
  fragment_fifo, request_fifo, result_fifo,
  rob, rob_head, rob_tail, rob_num,
  data_store,      \* m_cache: which block each line's data is of
  extra_mf_fields, \* where the answer to a read goes, for reads outstanding
  fetching,        \* the block each token in use asks for
  closed           \* the caller has stopped issuing

robVars == <<rob, rob_head, rob_tail, rob_num>>
vars == <<policy, tagVars, fragment_fifo, request_fifo, result_fifo, robVars,
          data_store, extra_mf_fields, fetching, closed>>

Slot == 0 .. (RobEntries - 1)
Fragment == [mf : Mf, idx : Line, miss : BOOLEAN]
RobEntry == [ready : BOOLEAN, idx : Line, mf : Mf \cup {NoMf}, blk : Blk \cup {NoLine}]
ReadFields == [rob_index : Slot, pending_read : Nat]
NoRead  == [rob_index |-> NoLine, pending_read |-> 0]
NoBlock == NoLine

TexInit ==
  /\ TagInit
  /\ fragment_fifo = <<>>
  /\ request_fifo = <<>>
  /\ result_fifo = <<>>
  /\ rob = [i \in Slot |-> [ready |-> FALSE, idx |-> 0, mf |-> NoMf, blk |-> NoBlock]]
  /\ rob_head = 0 /\ rob_tail = 0 /\ rob_num = 0
  /\ data_store = [i \in Line |-> NoBlock]
  /\ extra_mf_fields = [m \in Mf |-> NoRead]
  /\ fetching = [m \in Mf |-> NoBlock]
  /\ closed = FALSE

-----------------------------------------------------------------------------
(* Faulty variant of RobNext: the index does not wrap at the last slot.    *)
RobNextShort(i) == IF i + 1 < RobEntries THEN i + 1 ELSE i

(* The ring buffer: inc_head and inc_tail.                                 *)
RobNext(i) == (i + 1) % RobEntries

FreeMf(m) == fetching[m] = NoBlock

(* The three queues a request may need; access looks at all of them before *)
(* it knows whether the request misses.                                    *)
RoomForRequest ==
  /\ Len(fragment_fifo) < FragmentEntries
  /\ Len(request_fifo) < RequestEntries
  /\ rob_num < RobEntries

(* Faulty variant of PushFragment: a hit goes ahead of what waits.         *)
PushFragmentHitsFirst(f) ==
  IF f.miss THEN Append(fragment_fifo, f) ELSE <<f>> \o fragment_fifo

PushFragment(f) == Append(fragment_fifo, f)

(* The asserts of access on what the tags may say.                         *)
TagsAllow(p) ==
  p.st \notin {"RESERVATION_FAIL", "HIT_RESERVED"} /\ AccessAllowed(p)

TexMiss(m, b, s, p) ==
  /\ p.st = "MISS"
  /\ lines' = [lines EXCEPT ![p.idx] =
                 FillBlock(policy.type, TagAccess(p, b, s).line, s, {})]
  /\ fragment_fifo' = PushFragment([mf |-> m, idx |-> p.idx, miss |-> TRUE])
  /\ rob' = [rob EXCEPT ![rob_head] =
               [ready |-> FALSE, idx |-> p.idx, mf |-> m, blk |-> b]]
  /\ rob_head' = RobNext(rob_head)
  /\ rob_num' = rob_num + 1
  /\ extra_mf_fields' = [extra_mf_fields EXCEPT ![m] =
       [ rob_index    |-> rob_head,
         pending_read |-> IF policy.mshr = "SECTOR_TEX_FIFO" THEN Chunks ELSE 0 ]]
  /\ request_fifo' = Append(request_fifo, m)
  /\ UNCHANGED rob_tail

(* A hit, and a miss of a sector only, which the code takes for a hit.     *)
TexHit(m, b, s, p) ==
  /\ p.st # "MISS"
  /\ lines' = [lines EXCEPT ![p.idx] = TagAccess(p, b, s).line]
  /\ fragment_fifo' = PushFragment([mf |-> m, idx |-> p.idx, miss |-> FALSE])
  /\ UNCHANGED <<robVars, extra_mf_fields, request_fifo>>

TexAccess(m, b, s) ==
  /\ FreeMf(m) /\ ~closed
  /\ RoomForRequest
  /\ \E p \in Probe(b, s, FALSE) :
        /\ TagsAllow(p)
        /\ TexMiss(m, b, s, p) \/ TexHit(m, b, s, p)
  /\ is_used' = TRUE
  /\ fetching' = [fetching EXCEPT ![m] = b]
  /\ UNCHANGED <<policy, dirty, result_fifo, data_store, closed>>

-----------------------------------------------------------------------------
(* Faulty variant of CanAdvance: one place of the result FIFO stays free.  *)
CanAdvanceLess ==
  /\ fragment_fifo # <<>>
  /\ Len(result_fifo) + 1 < ResultEntries
  /\ Head(fragment_fifo).miss => rob[rob_tail].ready

CanAdvance ==
  /\ fragment_fifo # <<>>
  /\ Len(result_fifo) < ResultEntries
  /\ Head(fragment_fifo).miss => rob[rob_tail].ready

(* Faulty variant of DataAfter: the block goes where the fragment of the   *)
(* newest miss will want it.                                               *)
DataAfterHead(f) ==
  IF f.miss THEN [data_store EXCEPT ![rob[rob_head].idx] = rob[rob_tail].blk] ELSE data_store

DataAfter(f) ==
  IF f.miss THEN [data_store EXCEPT ![rob[rob_tail].idx] = rob[rob_tail].blk] ELSE data_store

(* cycle: one request to the memory port, one fragment to the result FIFO. *)
TexCycle(portFull) ==
  LET send == request_fifo # <<>> /\ ~portFull
      f    == Head(fragment_fifo)
  IN  /\ send \/ CanAdvance
      /\ request_fifo' = IF send THEN Tail(request_fifo) ELSE request_fifo
      /\ IF CanAdvance
         THEN /\ data_store' = DataAfter(f)
              /\ result_fifo' = Append(result_fifo, f.mf)
              /\ fragment_fifo' = Tail(fragment_fifo)
              /\ rob_tail' = IF f.miss THEN RobNext(rob_tail) ELSE rob_tail
              /\ rob_num' = IF f.miss THEN rob_num - 1 ELSE rob_num
         ELSE UNCHANGED <<data_store, result_fifo, fragment_fifo, rob_tail, rob_num>>
      /\ UNCHANGED <<policy, tagVars, rob, rob_head, extra_mf_fields, fetching, closed>>

InMemory(m) ==
  extra_mf_fields[m] # NoRead /\ \A i \in DOMAIN request_fifo : request_fifo[i] # m

(* Faulty variant of SlotOf: the oldest slot, whoever is answered.         *)
SlotOldest(m) == rob_tail
SlotOf(m) == extra_mf_fields[m].rob_index

(* fill: with SECTOR_TEX_FIFO only the last response of a line is the one  *)
(* that marks its slot.                                                    *)
TexFill(m) ==
  /\ InMemory(m)
  /\ IF extra_mf_fields[m].pending_read > 1
     THEN /\ extra_mf_fields' = [extra_mf_fields EXCEPT ![m].pending_read = @ - 1]
          /\ UNCHANGED rob
     ELSE /\ rob' = [rob EXCEPT ![SlotOf(m)].ready = TRUE]
          /\ extra_mf_fields' = [extra_mf_fields EXCEPT ![m] = NoRead]
  /\ UNCHANGED <<policy, tagVars, fragment_fifo, request_fifo, result_fifo,
                 rob_head, rob_tail, rob_num, data_store, fetching, closed>>

TexNextAccess ==
  /\ result_fifo # <<>>
  /\ fetching' = [fetching EXCEPT ![Head(result_fifo)] = NoBlock]
  /\ result_fifo' = Tail(result_fifo)
  /\ UNCHANGED <<policy, tagVars, fragment_fifo, request_fifo, robVars,
                 data_store, extra_mf_fields, closed>>

TexQueuesEmpty ==
  /\ fragment_fifo = <<>> /\ request_fifo = <<>> /\ result_fifo = <<>>
  /\ rob_num = 0
  /\ \A m \in Mf : extra_mf_fields[m] = NoRead

(* invalidate, which the callers in the repository only use on a drained   *)
(* cache (final_check of the test suite): the code itself does not check.  *)
TexInvalidate ==
  /\ TexQueuesEmpty
  /\ InvalidateTags
  /\ data_store' = [i \in Line |-> NoBlock]
  /\ UNCHANGED <<policy, fragment_fifo, request_fifo, result_fifo, robVars,
                 extra_mf_fields, fetching, closed>>

TexStop ==
  /\ CallerStops /\ ~closed
  /\ closed' = TRUE
  /\ UNCHANGED <<policy, tagVars, fragment_fifo, request_fifo, result_fifo,
                 robVars, data_store, extra_mf_fields, fetching>>

TexNext ==
  \/ \E m \in Mf, b \in Blk, s \in SectorsUsed : TexAccess(m, b, s)
  \/ \E portFull \in BOOLEAN : TexCycle(portFull)
  \/ \E m \in Mf : TexFill(m)
  \/ TexNextAccess
  \/ TexInvalidate
  \/ TexStop

TexSpec == TexInit /\ [][TexNext]_vars

(* The main loop calls cycle every clock and the memory port does not stay *)
(* full; the memory answers; the caller takes what is ready.               *)
TexFairSpec ==
  TexSpec /\ WF_vars(TexCycle(FALSE)) /\ WF_vars(TexNextAccess)
          /\ \A m \in Mf : WF_vars(TexFill(m))

-----------------------------------------------------------------------------
(* Properties *)

(* The asserts of cycle: at the head of the fragment FIFO, a hit finds its *)
(* block in the data store although it was looked up, and other misses may *)
(* have replaced its line, long before; a miss finds its own slot at the   *)
(* head of the reorder buffer.                                             *)
HeadFindsItsData ==
  fragment_fifo # <<>> =>
    LET f == Head(fragment_fifo) IN
    IF f.miss
    THEN rob_num > 0 /\ rob[rob_tail].mf = f.mf /\ rob[rob_tail].idx = f.idx
    ELSE data_store[f.idx] = fetching[f.mf]

(* The asserts of access, fill and class fifo: no FIFO is pushed when it   *)
(* is full, whatever mix of hits and misses came before; the tags never    *)
(* answer HIT_RESERVED or RESERVATION_FAIL; an answer from memory finds    *)
(* its slot not ready and of its own block.                                *)
TexAssertionsHold ==
  /\ Len(fragment_fifo) <= FragmentEntries /\ Len(request_fifo) <= RequestEntries
  /\ Len(result_fifo) <= ResultEntries /\ rob_num \in 0 .. RobEntries
  /\ \A b \in Blk, s \in SectorsUsed : \A p \in Probe(b, s, FALSE) : TagsAllow(p)
  /\ \A m \in Mf : InMemory(m) =>
       /\ rob_num > 0
       /\ ~rob[extra_mf_fields[m].rob_index].ready
       /\ rob[extra_mf_fields[m].rob_index].blk = fetching[m]

(* Tags and data agree once everything outstanding is through: a tag hit   *)
(* after a drain finds its block, whatever the replacements before.        *)
TagsMatchDataWhenDrained ==
  fragment_fifo = <<>> =>
    \A i \in Line : ~IsInvalidLine(lines[i]) => data_store[i] = lines[i].tag

(* The cache implements InOrderService: hits do not overtake misses and    *)
(* misses whose answers come out of order are returned in order.           *)
Service ==
  INSTANCE InOrderService WITH
    Capacity    <- FragmentEntries + ResultEntries,
    outstanding <- result_fifo \o [i \in DOMAIN fragment_fifo |-> fragment_fifo[i].mf]

InOrder == Service!Spec

(* Once the caller stops issuing, the cache drains.                        *)
TexDrains == closed ~> TexQueuesEmpty
=============================================================================
