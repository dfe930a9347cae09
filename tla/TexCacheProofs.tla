--------------------------- MODULE TexCacheProofs ---------------------------
(***************************************************************************)
(* The texture cache returns requests in order, and the data a request     *)
(* finds at the head of the pipeline is of the block it was looked up for, *)
(* for any geometry, any sizes of the FIFOs and any number of requests.    *)
(* With line tags no assertion of the code fails.                          *)
(***************************************************************************)
EXTENDS TexCache, TagArrayProofs

-----------------------------------------------------------------------------
(* The inductive invariant *)

(* The types the other parts rest on.                                      *)
TexTypes ==
  /\ policy \in Policies
  /\ lines \in [Line -> CacheBlockT]
  /\ fragment_fifo \in Seq(Fragment)
  /\ result_fifo \in Seq(Mf)
  /\ Len(fragment_fifo) <= FragmentEntries
  /\ Len(result_fifo) <= ResultEntries
  /\ fetching \in [Mf -> Blk \cup {NoBlock}]
  /\ data_store \in [Line -> Blk \cup {NoBlock}]

(* The requests accepted and not yet returned, oldest first.               *)
InOrderOf(results, fragments) == results \o [i \in DOMAIN fragments |-> fragments[i].mf]
Outstanding == InOrderOf(result_fifo, fragment_fifo)

(* No token is outstanding twice, and each one is in use.                  *)
TokensInv ==
  /\ \A i \in DOMAIN Outstanding : fetching[Outstanding[i]] # NoBlock
  /\ \A i, j \in DOMAIN Outstanding : i # j => Outstanding[i] # Outstanding[j]

(* What the i-th fragment from the head asks for, and the slot k places    *)
(* from the tail of the reorder buffer.                                    *)
Wanted(i) == fetching[fragment_fifo[i].mf]
SlotFrom(tail, k) == (tail + k) % RobEntries
SlotAt(k) == SlotFrom(rob_tail, k)

(* The reorder buffer holds the misses of the fragment FIFO, in order: the *)
(* i-th fragment has before[i] misses ahead of it.                         *)
RobMatches(before) ==
  /\ before[1] = 0 /\ before[Len(fragment_fifo) + 1] = rob_num
  /\ \A i, j \in 1 .. (Len(fragment_fifo) + 1) : i <= j => before[i] <= before[j]
  /\ \A i \in 1 .. Len(fragment_fifo) :
       IF fragment_fifo[i].miss
       THEN /\ before[i + 1] = before[i] + 1
            /\ rob[SlotAt(before[i])].mf = fragment_fifo[i].mf
            /\ rob[SlotAt(before[i])].idx = fragment_fifo[i].idx
            /\ rob[SlotAt(before[i])].blk = Wanted(i)
       ELSE before[i + 1] = before[i]

RobInv ==
  /\ rob \in [Slot -> RobEntry]
  /\ rob_tail \in Slot
  /\ rob_num \in 0 .. RobEntries
  /\ rob_head = SlotAt(rob_num)
  /\ \E before \in [1 .. (Len(fragment_fifo) + 1) -> Nat] : RobMatches(before)

(* When the first n - 1 fragments of F have passed, line i of the data     *)
(* store ds holds block b: the last of them that misses at the line brings *)
(* it, or none does and it is there now.  wanted is the block each token   *)
(* asks for.                                                               *)
MissesAt(F, q, i) == F[q].miss /\ F[q].idx = i

Holds(F, wanted, ds, i, n, b) ==
  \/ \E q \in 1 .. (n - 1) :
       /\ MissesAt(F, q, i) /\ wanted[F[q].mf] = b
       /\ \A l \in (q + 1) .. (n - 1) : ~MissesAt(F, l, i)
  \/ ds[i] = b /\ \A l \in 1 .. (n - 1) : ~MissesAt(F, l, i)

(* Each hit in the fragment FIFO finds its block when its turn comes, and  *)
(* the next hit on any line would too.                                     *)
DataInv ==
  /\ \A n \in 1 .. Len(fragment_fifo) :
       ~fragment_fifo[n].miss =>
         Holds(fragment_fifo, fetching, data_store, fragment_fifo[n].idx, n, Wanted(n))
  /\ \A i \in Line : ~IsInvalidLine(lines[i]) =>
       Holds(fragment_fifo, fetching, data_store, i, Len(fragment_fifo) + 1, lines[i].tag)

TexInv == TexTypes /\ TokensInv /\ RobInv /\ DataInv

-----------------------------------------------------------------------------
(* The ring buffer *)

(* An index less than twice the size wraps at most once.                   *)
LEMMA Wraps ==
  ASSUME NEW n \in Nat \ {0}, NEW x \in 0 .. (2 * n - 1)
  PROVE  x % n = IF x < n THEN x ELSE x - n
<1>1. CASE x < n
  BY <1>1
<1>2. CASE x >= n
  BY <1>2
<1> QED
  BY <1>1, <1>2

(* The slots from a tail t on are slots of the buffer, and as long as they *)
(* are fewer than the buffer has, no two of them are the same.             *)
LEMMA SlotsDiffer ==
  ASSUME NEW t \in Slot, NEW k \in 0 .. RobEntries
  PROVE  /\ SlotFrom(t, k) \in Slot
         /\ SlotFrom(t, 0) = t
         /\ \A l \in 0 .. (RobEntries - 1) : k < l => SlotFrom(t, k) # SlotFrom(t, l)
         /\ k < RobEntries => RobNext(SlotFrom(t, k)) = SlotFrom(t, k + 1)
         /\ RobNext(t) \in Slot
         /\ k > 0 => SlotFrom(RobNext(t), k - 1) = SlotFrom(t, k)
<1>1. RobEntries \in Nat \ {0} /\ t \in 0 .. (RobEntries - 1)
  BY TexAssumption DEF Slot
<1> DEFINE Wrap(x) == x % RobEntries
<1>2. \A x \in 0 .. (2 * RobEntries - 1) :
        Wrap(x) = IF x < RobEntries THEN x ELSE x - RobEntries
  BY <1>1, Wraps
<1>3. (\A u, n : SlotFrom(u, n) = Wrap(u + n)) /\ (\A n : RobNext(n) = Wrap(n + 1))
  BY DEF SlotFrom, RobNext
<1> HIDE DEF Wrap
<1>4. \A u \in 0 .. (RobEntries - 1) : \A n \in 0 .. RobEntries :
        SlotFrom(u, n) = IF u + n < RobEntries THEN u + n ELSE u + n - RobEntries
  BY <1>1, <1>2, <1>3
<1>5. \A u \in 0 .. (RobEntries - 1) :
        RobNext(u) = IF u + 1 < RobEntries THEN u + 1 ELSE u + 1 - RobEntries
  BY <1>1, <1>2, <1>3
<1>6. SlotFrom(t, k) \in Slot /\ SlotFrom(t, 0) = t /\ RobNext(t) \in Slot
  BY <1>1, <1>4, <1>5 DEF Slot
<1>7. \A l \in 0 .. (RobEntries - 1) : k < l => SlotFrom(t, k) # SlotFrom(t, l)
  BY <1>1, <1>4
<1>8. ASSUME k < RobEntries PROVE RobNext(SlotFrom(t, k)) = SlotFrom(t, k + 1)
  <2>1. SlotFrom(t, k) \in 0 .. (RobEntries - 1) /\ k + 1 \in 0 .. RobEntries
    BY <1>1, <1>6, <1>8 DEF Slot
  <2> QED
    BY <1>1, <1>4, <1>5, <2>1
<1>9. ASSUME k > 0 PROVE SlotFrom(RobNext(t), k - 1) = SlotFrom(t, k)
  <2>1. RobNext(t) \in 0 .. (RobEntries - 1) /\ k - 1 \in 0 .. RobEntries
    BY <1>1, <1>6, <1>9 DEF Slot
  <2> QED
    BY <1>1, <1>4, <1>5, <2>1
<1> QED
  BY <1>6, <1>7, <1>8, <1>9

-----------------------------------------------------------------------------
(* Outstanding requests *)

(* The elements of Outstanding.                                            *)
LEMMA InOrderElements ==
  ASSUME NEW r \in Seq(Mf), NEW g \in Seq(Fragment)
  PROVE  /\ InOrderOf(r, g) \in Seq(Mf)
         /\ Len(r) \in Nat /\ Len(g) \in Nat
         /\ Len(InOrderOf(r, g)) = Len(r) + Len(g)
         /\ DOMAIN InOrderOf(r, g) = 1 .. (Len(r) + Len(g))
         /\ \A i \in 1 .. Len(r) : InOrderOf(r, g)[i] = r[i]
         /\ \A i \in 1 .. Len(g) : /\ g[i] \in Fragment
                                  /\ InOrderOf(r, g)[Len(r) + i] = g[i].mf
<1> DEFINE waiting == [i \in DOMAIN g |-> g[i].mf]
<1>1. /\ Len(g) \in Nat /\ DOMAIN g = 1 .. Len(g)
      /\ \A i \in 1 .. Len(g) : g[i] \in Fragment
  OBVIOUS
<1>2. /\ waiting \in [1 .. Len(g) -> Mf]
      /\ \A i \in 1 .. Len(g) : waiting[i] = g[i].mf
  BY <1>1 DEF Fragment
<1>3. waiting \in Seq(Mf) /\ Len(waiting) = Len(g)
  BY <1>1, <1>2, FunctionIsSeq
<1> HIDE DEF waiting
<1>4. /\ r \o waiting \in Seq(Mf)
      /\ Len(r) \in Nat /\ Len(r \o waiting) = Len(r) + Len(waiting)
      /\ DOMAIN (r \o waiting) = 1 .. (Len(r) + Len(waiting))
      /\ \A i \in 1 .. Len(r) : (r \o waiting)[i] = r[i]
      /\ \A i \in 1 .. Len(waiting) : (r \o waiting)[Len(r) + i] = waiting[i]
  BY <1>3
<1>5. InOrderOf(r, g) = r \o waiting
  BY DEF InOrderOf, waiting
<1> QED
  BY <1>1, <1>2, <1>3, <1>4, <1>5

(* It grows with the fragments,                                            *)
LEMMA InOrderGrows ==
  ASSUME NEW r \in Seq(Mf), NEW g \in Seq(Fragment), NEW f \in Fragment
  PROVE  InOrderOf(r, Append(g, f)) = Append(InOrderOf(r, g), f.mf)
<1> DEFINE w == [i \in DOMAIN g |-> g[i].mf]
           v == [i \in DOMAIN Append(g, f) |-> Append(g, f)[i].mf]
<1>1. /\ Len(g) \in Nat /\ DOMAIN g = 1 .. Len(g)
      /\ DOMAIN Append(g, f) = 1 .. (Len(g) + 1)
      /\ \A i \in 1 .. Len(g) : g[i] \in Fragment /\ Append(g, f)[i] = g[i]
      /\ Append(g, f)[Len(g) + 1] = f
  OBVIOUS
<1>2. w \in [1 .. Len(g) -> Mf] /\ v \in [1 .. (Len(g) + 1) -> Mf] /\ f.mf \in Mf
  BY <1>1 DEF Fragment
<1>3. w \in Seq(Mf) /\ v \in Seq(Mf) /\ Len(w) = Len(g) /\ Len(v) = Len(g) + 1
  BY <1>1, <1>2, FunctionIsSeq
<1>4. (\A i \in 1 .. Len(g) : v[i] = w[i]) /\ v[Len(g) + 1] = f.mf
  BY <1>1
<1> HIDE DEF w, v
<1>5. v = Append(w, f.mf)
  BY <1>1, <1>2, <1>3, <1>4
<1>6. r \o Append(w, f.mf) = Append(r \o w, f.mf)
  BY <1>2, <1>3
<1> QED
  BY <1>5, <1>6 DEF InOrderOf, w, v

(* is the same when the first fragment becomes the last result,            *)
LEMMA InOrderMoves ==
  ASSUME NEW r \in Seq(Mf), NEW g \in Seq(Fragment), g # <<>>
  PROVE  InOrderOf(Append(r, Head(g).mf), Tail(g)) = InOrderOf(r, g)
<1> DEFINE w == [i \in DOMAIN g |-> g[i].mf]
           v == [i \in DOMAIN Tail(g) |-> Tail(g)[i].mf]
           x == Head(g).mf
<1>1. /\ Len(g) \in Nat \ {0} /\ DOMAIN g = 1 .. Len(g)
      /\ DOMAIN Tail(g) = 1 .. (Len(g) - 1)
      /\ \A i \in 1 .. Len(g) : g[i] \in Fragment
      /\ \A i \in 1 .. (Len(g) - 1) : Tail(g)[i] = g[i + 1]
      /\ Head(g) = g[1]
  OBVIOUS
<1>2. w \in [1 .. Len(g) -> Mf] /\ v \in [1 .. (Len(g) - 1) -> Mf] /\ x \in Mf
  BY <1>1 DEF Fragment
<1>3. w \in Seq(Mf) /\ v \in Seq(Mf) /\ Len(w) = Len(g) /\ Len(v) = Len(g) - 1
  BY <1>1, <1>2, FunctionIsSeq
<1>4. (\A i \in 1 .. (Len(g) - 1) : v[i] = w[i + 1]) /\ w[1] = x
  BY <1>1
<1> HIDE DEF w, v, x
<1>5. w = <<x>> \o v
  <2> DEFINE u == <<x>> \o v
  <2>1. /\ u \in Seq(Mf) /\ Len(u) = Len(g) /\ u[1] = x
        /\ \A i \in 1 .. Len(v) : u[1 + i] = v[i]
    <3>1. /\ <<x>> \in Seq(Mf) /\ Len(<<x>>) = 1 /\ <<x>>[1] = x
      BY <1>2
    <3>2. /\ u \in Seq(Mf) /\ Len(u) = Len(<<x>>) + Len(v)
          /\ \A i \in 1 .. Len(<<x>>) : u[i] = <<x>>[i]
          /\ \A i \in 1 .. Len(v) : u[Len(<<x>>) + i] = v[i]
      BY <1>3, <3>1
    <3> HIDE DEF u
    <3> QED
      BY <1>1, <1>3, <3>1, <3>2
  <2>2. \A i \in 1 .. Len(g) : i = 1 \/ (i - 1 \in 1 .. Len(v) /\ i = 1 + (i - 1))
    BY <1>1, <1>3
  <2> HIDE DEF u
  <2>3. ASSUME NEW i \in 1 .. Len(g) PROVE u[i] = w[i]
    <3>1. CASE i = 1
      BY <1>4, <2>1, <3>1
    <3>2. CASE i # 1
      <4>1. PICK j \in 1 .. Len(v) : i = 1 + j /\ i = j + 1
        BY <2>2, <3>2
      <4> QED
        BY <1>3, <1>4, <2>1, <4>1
    <3> QED
      BY <3>1, <3>2
  <2>4. u = w
    BY <1>3, <2>1, <2>3
  <2> QED
    BY <2>4 DEF u
<1>6. Append(r, x) \o v = r \o (<<x>> \o v)
  BY <1>2, <1>3
<1> QED
  BY <1>5, <1>6 DEF InOrderOf, w, v, x

(* and loses the first result when the caller takes it.                    *)
LEMMA InOrderShrinks ==
  ASSUME NEW r \in Seq(Mf), NEW g \in Seq(Fragment), r # <<>>
  PROVE  /\ InOrderOf(r, g) # <<>> /\ InOrderOf(r, g)[1] = Head(r)
         /\ 1 \in DOMAIN InOrderOf(r, g)
         /\ InOrderOf(Tail(r), g) = Tail(InOrderOf(r, g))
<1> DEFINE w == [i \in DOMAIN g |-> g[i].mf]
<1>1. /\ Len(g) \in Nat /\ DOMAIN g = 1 .. Len(g)
      /\ \A i \in 1 .. Len(g) : g[i] \in Fragment
  OBVIOUS
<1>2. w \in [1 .. Len(g) -> Mf]
  BY <1>1 DEF Fragment
<1>3. w \in Seq(Mf)
  BY <1>1, <1>2, FunctionIsSeq
<1> HIDE DEF w
<1>4. Tail(r) \o w = Tail(r \o w) /\ r \o w # <<>>
  BY <1>3
<1>5. /\ Len(r) \in Nat \ {0} /\ Len(r \o w) \in Nat \ {0}
      /\ DOMAIN (r \o w) = 1 .. Len(r \o w) /\ Head(r) = r[1]
      /\ \A i \in 1 .. Len(r) : (r \o w)[i] = r[i]
  BY <1>3
<1>6. (r \o w)[1] = Head(r) /\ 1 \in DOMAIN (r \o w)
  BY <1>5
<1> QED
  BY <1>4, <1>6 DEF InOrderOf, w

(* The requests in the fragment FIFO are in use, and the one at the head   *)
(* of the result FIFO is not among them.                                   *)
LEMMA FragmentTokens ==
  ASSUME TexTypes, TokensInv, NEW i \in 1 .. Len(fragment_fifo)
  PROVE  /\ fragment_fifo[i] \in Fragment
         /\ fragment_fifo[i].mf \in Mf
         /\ ~FreeMf(fragment_fifo[i].mf)
         /\ result_fifo # <<>> => fragment_fifo[i].mf # Head(result_fifo)
<1>1. /\ fragment_fifo[i] \in Fragment
      /\ Len(result_fifo) + i \in DOMAIN Outstanding
      /\ Outstanding[Len(result_fifo) + i] = fragment_fifo[i].mf
  BY InOrderElements DEF TexTypes, Outstanding
<1>2. fragment_fifo[i].mf \in Mf
  BY <1>1 DEF Fragment
<1>3. ~FreeMf(fragment_fifo[i].mf)
  BY <1>1 DEF TokensInv, FreeMf
<1>4. ASSUME result_fifo # <<>> PROVE fragment_fifo[i].mf # Head(result_fifo)
  <2>1. Len(result_fifo) \in Nat \ {0} /\ Head(result_fifo) = result_fifo[1]
    BY <1>4, TailElements DEF TexTypes
  <2>2. result_fifo \in Seq(Mf) /\ fragment_fifo \in Seq(Fragment)
    BY DEF TexTypes
  <2>3. 1 \in DOMAIN Outstanding /\ Outstanding[1] = Head(result_fifo)
    BY <1>4, <2>2, InOrderShrinks DEF Outstanding
  <2>4. Len(result_fifo) + i # 1
    BY <2>1
  <2> QED
    BY <1>1, <2>3, <2>4 DEF TokensInv
<1> QED
  BY <1>1, <1>2, <1>3, <1>4

-----------------------------------------------------------------------------
(* What access and cycle do *)

(* A request m for block b is accepted as fragment f, and new is the line  *)
(* its probe found or allocated.                                           *)
Accepted(m, b, f, new) ==
  /\ FreeMf(m) /\ Len(fragment_fifo) < FragmentEntries
  /\ f \in Fragment /\ f.mf = m
  /\ new \in CacheBlockT /\ new.tag = b
  /\ ~f.miss => Matches(f.idx, b)
  /\ lines' = [lines EXCEPT ![f.idx] = new]
  /\ fragment_fifo' = Append(fragment_fifo, f)
  /\ fetching' = [fetching EXCEPT ![m] = b]
  /\ IF f.miss
     THEN /\ rob_num < RobEntries
          /\ rob' = [rob EXCEPT ![rob_head] =
                       [ready |-> FALSE, idx |-> f.idx, mf |-> m, blk |-> b]]
          /\ rob_head' = RobNext(rob_head)
          /\ rob_num' = rob_num + 1
          /\ rob_tail' = rob_tail
     ELSE UNCHANGED robVars
  /\ UNCHANGED <<policy, result_fifo, data_store>>

LEMMA AccessAccepts ==
  ASSUME TexTypes, NEW m \in Mf, NEW b \in Blk, NEW s \in SectorsUsed, TexAccess(m, b, s)
  PROVE  \E f \in Fragment, new \in CacheBlockT : Accepted(m, b, f, new)
<1>1. b \in Nat /\ s \in Sector /\ {} \in ByteMask
  BY AddressAssumption DEF SectorsUsed, ByteMask
<1>2. policy.type \in CacheType /\ policy.alloc = "ON_MISS"
  BY PolicyAssumption, TexPolicyAssumption DEF TexTypes, ValidConfig, Config
<1>3. PICK p \in Probe(b, s, FALSE) :
        TagsAllow(p) /\ (TexMiss(m, b, s, p) \/ TexHit(m, b, s, p))
  BY DEF TexAccess
<1>4. /\ p.st \in {"HIT", "MISS", "SECTOR_MISS"} /\ p.idx \in Line
      /\ p.st # "MISS" => Matches(p.idx, b)
      /\ lines[p.idx] \in CacheBlockT
  BY <1>1, <1>3, ProbeFacts DEF TagsAllow, TexTypes
<1>5. /\ FreeMf(m) /\ Len(fragment_fifo) < FragmentEntries /\ rob_num < RobEntries
      /\ fetching' = [fetching EXCEPT ![m] = b]
      /\ UNCHANGED <<policy, result_fifo, data_store>>
  BY DEF TexAccess, RoomForRequest
<1>6. CASE p.st = "MISS"
  <2> DEFINE f == [mf |-> m, idx |-> p.idx, miss |-> TRUE]
             line == Allocate(policy.type, lines[p.idx], b, s)
             new == FillBlock(policy.type, line, s, {})
  <2>1. line \in CacheBlockT /\ line.tag = b
    BY <1>1, <1>2, <1>4, AllocateType DEF Allocate
  <2> HIDE DEF line
  <2>2. new \in CacheBlockT /\ new.tag = b
    <3>1. new \in CacheBlockT
      BY <1>1, <2>1, FillBlockType
    <3>2. new.tag = line.tag
      BY <2>1 DEF FillBlock, CacheBlockT
    <3> QED
      BY <2>1, <3>1, <3>2
  <2>3. TagAccess(p, b, s).line = line
    BY <1>2, <1>6 DEF TagAccess, line
  <2>4. TexMiss(m, b, s, p)
    BY <1>3, <1>6 DEF TexHit
  <2>5. f \in Fragment
    BY <1>4 DEF Fragment
  <2> QED
    BY <1>5, <2>2, <2>3, <2>4, <2>5 DEF Accepted, TexMiss, PushFragment
<1>7. CASE p.st # "MISS"
  <2> DEFINE f == [mf |-> m, idx |-> p.idx, miss |-> FALSE]
             new == TagAccess(p, b, s).line
  <2>1. new = IF p.st = "SECTOR_MISS" THEN AllocateSector(lines[p.idx], s) ELSE lines[p.idx]
    BY <1>2, <1>7 DEF TagAccess
  <2>2. lines[p.idx].tag = b
    BY <1>4, <1>7 DEF Matches
  <2> HIDE DEF new
  <2>3. new \in CacheBlockT /\ new.tag = b
    <3>1. /\ AllocateSector(lines[p.idx], s) \in CacheBlockT
          /\ lines[p.idx] \in CacheBlockT
      BY <1>1, <1>4, AllocateSectorType
    <3>2. AllocateSector(lines[p.idx], s).tag = lines[p.idx].tag
      BY <1>4 DEF AllocateSector, CacheBlockT
    <3> QED
      BY <2>1, <2>2, <3>1, <3>2
  <2>4. TexHit(m, b, s, p)
    BY <1>3, <1>7 DEF TexMiss
  <2>5. f \in Fragment
    BY <1>4 DEF Fragment
  <2>6. lines' = [lines EXCEPT ![p.idx] = new] /\ fragment_fifo' = Append(fragment_fifo, f)
        /\ UNCHANGED robVars
    BY <2>4 DEF TexHit, PushFragment, new
  <2> QED
    BY <1>4, <1>5, <1>7, <2>3, <2>5, <2>6 DEF Accepted
<1> QED
  BY <1>6, <1>7

(* The request at the head of the fragment FIFO goes to the result FIFO.   *)
Advanced ==
  /\ fragment_fifo # <<>> /\ Len(result_fifo) < ResultEntries
  /\ data_store' = DataAfter(Head(fragment_fifo))
  /\ result_fifo' = Append(result_fifo, Head(fragment_fifo).mf)
  /\ fragment_fifo' = Tail(fragment_fifo)
  /\ IF Head(fragment_fifo).miss
     THEN rob_tail' = RobNext(rob_tail) /\ rob_num' = rob_num - 1
     ELSE UNCHANGED <<rob_tail, rob_num>>
  /\ UNCHANGED <<policy, lines, rob, rob_head, fetching>>

(* The fragment FIFO after access,                                         *)
LEMMA AcceptedElements ==
  ASSUME TexTypes, TokensInv, NEW m \in Mf, NEW b \in Blk, NEW f, NEW new,
         Accepted(m, b, f, new)
  PROVE  LET n == Len(fragment_fifo)
         IN  /\ n \in Nat /\ Len(fragment_fifo') = n + 1
             /\ fragment_fifo' \in Seq(Fragment)
             /\ \A i \in 1 .. n : fragment_fifo'[i] = fragment_fifo[i]
             /\ fragment_fifo'[n + 1] = f
             /\ \A i \in 1 .. n : Wanted(i)' = Wanted(i)
             /\ fetching'[fragment_fifo'[n + 1].mf] = b
             /\ f.idx \in Line /\ f.miss \in BOOLEAN
<1> DEFINE n == Len(fragment_fifo)
<1>1. fragment_fifo \in Seq(Fragment) /\ f \in Fragment /\ f.mf = m
      /\ fragment_fifo' = Append(fragment_fifo, f)
      /\ fetching' = [fetching EXCEPT ![m] = b]
      /\ fetching \in [Mf -> Blk \cup {NoBlock}]
  BY DEF Accepted, TexTypes
<1>2. /\ n \in Nat /\ Len(fragment_fifo') = n + 1
      /\ fragment_fifo' \in Seq(Fragment)
      /\ \A i \in 1 .. n : fragment_fifo'[i] = fragment_fifo[i]
      /\ fragment_fifo'[n + 1] = f
  BY <1>1, AppendElements
<1>3. ASSUME NEW i \in 1 .. n PROVE Wanted(i)' = Wanted(i)
  <2>1. fragment_fifo[i].mf \in Mf /\ fragment_fifo[i].mf # m
    BY <1>3, FragmentTokens DEF Accepted
  <2> QED
    BY <1>1, <1>2, <2>1 DEF Wanted
<1>4. fetching'[fragment_fifo'[n + 1].mf] = b
  BY <1>1, <1>2 DEF Wanted
<1>5. f.idx \in Line /\ f.miss \in BOOLEAN
  BY <1>1 DEF Fragment
<1> QED
  BY <1>2, <1>3, <1>4, <1>5

(* and after cycle.                                                        *)
LEMMA AdvancedElements ==
  ASSUME TexTypes, Advanced
  PROVE  LET n == Len(fragment_fifo)
         IN  /\ n \in Nat \ {0} /\ Len(fragment_fifo') = n - 1
             /\ fragment_fifo' \in Seq(Fragment)
             /\ \A i \in 1 .. (n - 1) : fragment_fifo'[i] = fragment_fifo[i + 1]
             /\ \A i \in 1 .. (n - 1) : Wanted(i)' = Wanted(i + 1)
             /\ Head(fragment_fifo) = fragment_fifo[1]
             /\ fragment_fifo[1] \in Fragment
<1> DEFINE n == Len(fragment_fifo)
<1>1. /\ fragment_fifo \in Seq(Fragment) /\ fragment_fifo # <<>>
      /\ fragment_fifo' = Tail(fragment_fifo) /\ fetching' = fetching
  BY DEF Advanced, TexTypes
<1>2. /\ n \in Nat \ {0} /\ Len(fragment_fifo') = n - 1
      /\ fragment_fifo' \in Seq(Fragment)
      /\ \A i \in 1 .. (n - 1) : fragment_fifo'[i] = fragment_fifo[i + 1]
      /\ Head(fragment_fifo) = fragment_fifo[1]
      /\ fragment_fifo[1] \in Fragment
  BY <1>1, TailElements
<1>3. \A i \in 1 .. (n - 1) : Wanted(i)' = Wanted(i + 1)
  BY <1>1, <1>2 DEF Wanted
<1> QED
  BY <1>2, <1>3

-----------------------------------------------------------------------------
(* The requests outstanding, as the caller sees them *)

(* access adds a request at the end,                                       *)
LEMMA AcceptedOutstanding ==
  ASSUME TexTypes, TokensInv, NEW m \in Mf, NEW b \in Blk, NEW f, NEW new,
         Accepted(m, b, f, new)
  PROVE  /\ TexTypes'
         /\ Outstanding' = Append(Outstanding, m)
         /\ \A i \in DOMAIN Outstanding : Outstanding[i] # m
         /\ Len(Outstanding) < FragmentEntries + ResultEntries
         /\ TokensInv'
<1>1. /\ Len(fragment_fifo') = Len(fragment_fifo) + 1
      /\ fragment_fifo' \in Seq(Fragment) /\ f.idx \in Line
  BY AcceptedElements
<1>2. TexTypes'
  BY <1>1, TexAssumption DEF Accepted, TexTypes
<1>3. /\ result_fifo \in Seq(Mf) /\ fragment_fifo \in Seq(Fragment)
      /\ Len(result_fifo) <= ResultEntries
  BY DEF TexTypes
<1>4. /\ Outstanding \in Seq(Mf)
      /\ Len(Outstanding) = Len(result_fifo) + Len(fragment_fifo)
  BY <1>3, InOrderElements DEF Outstanding
<1>5. Outstanding' = Append(Outstanding, m)
  BY <1>3, InOrderGrows DEF Accepted, Outstanding
<1>6. \A i \in DOMAIN Outstanding : Outstanding[i] # m
  BY DEF Accepted, TokensInv, FreeMf
<1>7. Len(Outstanding) < FragmentEntries + ResultEntries
  BY <1>3, <1>4, TexAssumption DEF Accepted
<1>8. TokensInv'
  <2>1. /\ DOMAIN Outstanding = 1 .. Len(Outstanding) /\ Len(Outstanding) \in Nat
        /\ DOMAIN Outstanding' = 1 .. (Len(Outstanding) + 1)
        /\ \A i \in DOMAIN Outstanding : Outstanding'[i] = Outstanding[i]
        /\ Outstanding'[Len(Outstanding) + 1] = m
    BY <1>4, <1>5, AppendElements
  <2>2. \A i \in DOMAIN Outstanding : fetching'[Outstanding[i]] # NoBlock
    BY <1>4, <1>6, <2>1 DEF Accepted, TokensInv, TexTypes
  <2>3. fetching'[m] = b /\ b # NoBlock
    BY AddressAssumption, TagAssumption DEF Accepted, TexTypes, NoBlock
  <2>4. \A i \in DOMAIN Outstanding' : fetching'[Outstanding'[i]] # NoBlock
    BY <2>1, <2>2, <2>3
  <2>5. \A i, j \in DOMAIN Outstanding' : i # j => Outstanding'[i] # Outstanding'[j]
    BY <1>6, <2>1 DEF TokensInv
  <2> QED
    BY <2>4, <2>5 DEF TokensInv
<1> QED
  BY <1>2, <1>5, <1>6, <1>7, <1>8

(* cycle changes nothing,                                                  *)
LEMMA AdvancedOutstanding ==
  ASSUME TexTypes, TokensInv, RobInv, Advanced
  PROVE  /\ TexTypes'
         /\ Outstanding' = Outstanding
         /\ TokensInv'
<1>1. /\ Len(fragment_fifo) \in Nat \ {0} /\ Len(fragment_fifo') = Len(fragment_fifo) - 1
      /\ fragment_fifo' \in Seq(Fragment)
      /\ Head(fragment_fifo) \in Fragment
  BY AdvancedElements
<1>2. /\ result_fifo' \in Seq(Mf) /\ Len(result_fifo') = Len(result_fifo) + 1
  BY <1>1, AppendElements DEF Advanced, TexTypes, Fragment
<1>3. data_store' \in [Line -> Blk \cup {NoBlock}]
  <2>1. rob[rob_tail].blk \in Blk \cup {NoBlock}
    BY DEF RobInv, RobEntry, NoBlock
  <2> QED
    BY <2>1 DEF Advanced, DataAfter, TexTypes
<1>4. TexTypes'
  BY <1>1, <1>2, <1>3, TexAssumption DEF Advanced, TexTypes
<1>5. Outstanding' = Outstanding
  BY InOrderMoves DEF Advanced, Outstanding, TexTypes
<1> QED
  BY <1>4, <1>5 DEF TokensInv, Advanced

(* and next_access takes the first.                                        *)
LEMMA NextAccessOutstanding ==
  ASSUME TexTypes, TokensInv, TexNextAccess
  PROVE  /\ TexTypes'
         /\ Outstanding # <<>> /\ Outstanding' = Tail(Outstanding)
         /\ TokensInv'
<1>1. /\ result_fifo \in Seq(Mf) /\ fragment_fifo \in Seq(Fragment) /\ result_fifo # <<>>
      /\ result_fifo' = Tail(result_fifo) /\ fragment_fifo' = fragment_fifo
      /\ fetching' = [fetching EXCEPT ![Head(result_fifo)] = NoBlock]
      /\ fetching \in [Mf -> Blk \cup {NoBlock}]
  BY DEF TexTypes, TexNextAccess
<1>2. /\ Tail(result_fifo) \in Seq(Mf) /\ Len(Tail(result_fifo)) <= ResultEntries
      /\ Head(result_fifo) \in Mf
  BY <1>1, TailElements, TexAssumption DEF TexTypes
<1>3. TexTypes'
  BY <1>1, <1>2 DEF TexTypes, TexNextAccess, tagVars
<1>4. Outstanding' = Tail(Outstanding) /\ Outstanding # <<>>
  BY <1>1, InOrderShrinks DEF Outstanding
<1>5. Outstanding \in Seq(Mf) /\ Outstanding[1] = Head(result_fifo)
  BY <1>1, InOrderElements, InOrderShrinks DEF Outstanding
<1>6. /\ Len(Outstanding) \in Nat \ {0} /\ DOMAIN Outstanding = 1 .. Len(Outstanding)
      /\ DOMAIN Outstanding' = 1 .. (Len(Outstanding) - 1)
      /\ \A i \in 1 .. (Len(Outstanding) - 1) : Outstanding'[i] = Outstanding[i + 1]
  BY <1>4, <1>5, TailElements
<1>7. TokensInv'
  <2>1. \A i \in DOMAIN Outstanding' :
          /\ Outstanding[i + 1] \in Mf
          /\ Outstanding[i + 1] # Outstanding[1]
          /\ fetching[Outstanding[i + 1]] # NoBlock
    BY <1>5, <1>6 DEF TokensInv
  <2>2. \A i \in DOMAIN Outstanding' : fetching'[Outstanding'[i]] # NoBlock
    BY <1>1, <1>5, <1>6, <2>1
  <2>3. \A i, j \in DOMAIN Outstanding' : i # j => Outstanding'[i] # Outstanding'[j]
    BY <1>6 DEF TokensInv
  <2> QED
    BY <2>2, <2>3 DEF TokensInv
<1> QED
  BY <1>3, <1>4, <1>7

-----------------------------------------------------------------------------
(* The reorder buffer keeps step with the fragment FIFO *)

(* The slots of the misses waiting are in use, and not the one at rob_head.*)
LEMMA MissSlots ==
  ASSUME TexTypes, RobInv,
         NEW before \in [1 .. (Len(fragment_fifo) + 1) -> Nat], RobMatches(before),
         NEW i \in 1 .. Len(fragment_fifo), fragment_fifo[i].miss
  PROVE  /\ before[i] \in 0 .. (rob_num - 1)
         /\ SlotAt(before[i]) \in Slot
         /\ rob_num < RobEntries => SlotAt(before[i]) # rob_head
<1>1. RobEntries \in Nat \ {0} /\ rob_num \in 0 .. RobEntries /\ rob_tail \in Slot
  BY TexAssumption DEF RobInv
<1>2. Len(fragment_fifo) \in Nat
  BY DEF TexTypes
<1>3. before[i] \in Nat /\ before[i + 1] = before[i] + 1 /\ before[i + 1] <= rob_num
  BY <1>2 DEF RobMatches
<1>4. before[i] \in 0 .. (rob_num - 1) /\ before[i] \in 0 .. RobEntries
  BY <1>1, <1>3
<1>5. SlotAt(before[i]) \in Slot
  BY <1>1, <1>4, SlotsDiffer DEF SlotAt
<1>6. ASSUME rob_num < RobEntries PROVE SlotAt(before[i]) # rob_head
  <2>1. rob_num \in 0 .. (RobEntries - 1) /\ before[i] < rob_num
    BY <1>1, <1>4, <1>6
  <2>2. \A l \in 0 .. (RobEntries - 1) :
          before[i] < l => SlotFrom(rob_tail, before[i]) # SlotFrom(rob_tail, l)
    BY <1>1, <1>4, SlotsDiffer, Zenon
  <2>3. rob_head = SlotFrom(rob_tail, rob_num)
    BY DEF RobInv, SlotAt
  <2> QED
    BY <2>1, <2>2, <2>3 DEF SlotAt
<1> QED
  BY <1>4, <1>5, <1>6

(* A miss takes the slot at rob_head, which none of the others has.        *)
LEMMA AcceptedRob ==
  ASSUME TexTypes, TokensInv, RobInv, NEW m \in Mf, NEW b \in Blk, NEW f, NEW new,
         Accepted(m, b, f, new)
  PROVE  RobInv'
<1> DEFINE n == Len(fragment_fifo)
<1>1. /\ n \in Nat /\ Len(fragment_fifo') = n + 1
      /\ \A i \in 1 .. n : fragment_fifo'[i] = fragment_fifo[i]
      /\ fragment_fifo'[n + 1] = f
      /\ \A i \in 1 .. n : Wanted(i)' = Wanted(i)
      /\ fetching'[fragment_fifo'[n + 1].mf] = b
      /\ f.idx \in Line /\ f.miss \in BOOLEAN
  BY AcceptedElements
<1>2. /\ RobEntries \in Nat \ {0} /\ rob_num \in 0 .. RobEntries /\ rob_tail \in Slot
      /\ rob_head = SlotAt(rob_num) /\ rob_head \in Slot
      /\ rob \in [Slot -> RobEntry]
  BY TexAssumption, SlotsDiffer DEF RobInv, SlotAt
<1>3. PICK before \in [1 .. (n + 1) -> Nat] : RobMatches(before)
  BY DEF RobInv
<1> DEFINE entry == [ready |-> FALSE, idx |-> f.idx, mf |-> m, blk |-> b]
<1>4. /\ rob' \in [Slot -> RobEntry] /\ rob_tail' = rob_tail
      /\ rob_num' \in 0 .. RobEntries /\ rob_num' = (IF f.miss THEN rob_num + 1 ELSE rob_num)
      /\ rob_head' = SlotFrom(rob_tail, rob_num')
  <2>1. CASE f.miss
    <3>1. entry \in RobEntry
      BY <1>1 DEF RobEntry
    <3>2. RobNext(rob_head) = SlotFrom(rob_tail, rob_num + 1)
      BY <1>2, <2>1, SlotsDiffer DEF SlotAt, Accepted
    <3>3. /\ rob' = [rob EXCEPT ![rob_head] = entry] /\ rob_num' = rob_num + 1
          /\ rob_num < RobEntries /\ rob_tail' = rob_tail
          /\ rob_head' = RobNext(rob_head)
      BY <2>1 DEF Accepted
    <3> HIDE DEF entry
    <3> QED
      BY <1>2, <2>1, <3>1, <3>2, <3>3
  <2>2. CASE ~f.miss
    BY <1>2, <2>2 DEF Accepted, robVars, SlotAt
  <2> QED
    BY <2>1, <2>2
<1>5. \A i \in 1 .. n : fragment_fifo[i].miss =>
        rob'[SlotAt(before[i])] = rob[SlotAt(before[i])]
  BY <1>2, <1>3, MissSlots DEF Accepted, robVars
<1>6. f.miss => /\ rob'[SlotFrom(rob_tail, rob_num)].mf = m
                /\ rob'[SlotFrom(rob_tail, rob_num)].idx = f.idx
                /\ rob'[SlotFrom(rob_tail, rob_num)].blk = b
  BY <1>2 DEF Accepted, SlotAt
<1>7. PICK after \in [1 .. (n + 2) -> Nat] :
        /\ after[1] = 0 /\ after[n + 1] = rob_num /\ after[n + 2] = rob_num'
        /\ \A i \in 1 .. (n + 1) : after[i] = before[i]
  <2> DEFINE after == [i \in 1 .. (n + 2) |-> IF i <= n + 1 THEN before[i] ELSE rob_num']
  <2>1. after \in [1 .. (n + 2) -> Nat]
    BY <1>1, <1>2, <1>3, <1>4
  <2>2. /\ after[1] = 0 /\ after[n + 1] = rob_num /\ after[n + 2] = rob_num'
        /\ \A i \in 1 .. (n + 1) : after[i] = before[i]
    BY <1>1, <1>3 DEF RobMatches
  <2> QED
    BY <2>1, <2>2
<1>8. \A i, j \in 1 .. (n + 2) : i <= j => after[i] <= after[j]
  <2>1. \A i, j \in 1 .. (n + 1) : i <= j => after[i] <= after[j]
    BY <1>1, <1>3, <1>7 DEF RobMatches
  <2>2. \A i \in 1 .. (n + 1) : after[i] <= rob_num'
    BY <1>1, <1>2, <1>4, <1>7, <2>1
  <2> QED
    BY <1>1, <1>2, <1>4, <1>7, <2>1, <2>2
<1>9. ASSUME NEW i \in 1 .. (n + 1)
      PROVE  IF fragment_fifo'[i].miss
             THEN /\ after[i + 1] = after[i] + 1
                  /\ rob'[SlotAt(after[i])'].mf = fragment_fifo'[i].mf
                  /\ rob'[SlotAt(after[i])'].idx = fragment_fifo'[i].idx
                  /\ rob'[SlotAt(after[i])'].blk = Wanted(i)'
             ELSE after[i + 1] = after[i]
  <2>1. SlotAt(after[i])' = SlotFrom(rob_tail, after[i])
    BY <1>4 DEF SlotAt
  <2>2. CASE i \in 1 .. n
    <3>1. /\ after[i] = before[i] /\ after[i + 1] = before[i + 1]
          /\ fragment_fifo'[i] = fragment_fifo[i] /\ Wanted(i)' = Wanted(i)
      BY <1>1, <1>7, <2>2
    <3>2. SlotAt(after[i])' = SlotAt(before[i])
      BY <2>1, <3>1 DEF SlotAt
    <3>3. IF fragment_fifo[i].miss
          THEN /\ before[i + 1] = before[i] + 1
               /\ rob[SlotAt(before[i])].mf = fragment_fifo[i].mf
               /\ rob[SlotAt(before[i])].idx = fragment_fifo[i].idx
               /\ rob[SlotAt(before[i])].blk = Wanted(i)
          ELSE before[i + 1] = before[i]
      BY <1>3, <2>2 DEF RobMatches
    <3> QED
      BY <1>5, <2>2, <3>1, <3>2, <3>3
  <2>3. CASE i = n + 1
    BY <1>1, <1>4, <1>6, <1>7, <2>1, <2>3 DEF Wanted, Accepted
  <2> QED
    BY <1>1, <2>2, <2>3
<1> QED
  <2>1. n + 2 = Len(fragment_fifo') + 1
    BY <1>1
  <2>2. RobMatches(after)'
    BY <1>1, <1>7, <1>8, <1>9, <2>1 DEF RobMatches
  <2> QED
    BY <1>2, <1>4, <1>7, <2>1, <2>2 DEF RobInv, SlotAt

(* A miss at the head of the fragment FIFO has the slot at rob_tail.       *)
LEMMA HeadSlot ==
  ASSUME TexTypes, RobInv, fragment_fifo # <<>>, Head(fragment_fifo).miss
  PROVE  /\ rob_num > 0
         /\ rob[rob_tail].mf = fragment_fifo[1].mf
         /\ rob[rob_tail].idx = fragment_fifo[1].idx
         /\ rob[rob_tail].blk = Wanted(1)
<1>1. Len(fragment_fifo) \in Nat \ {0} /\ fragment_fifo[1].miss
  BY TailElements DEF TexTypes
<1>2. PICK before \in [1 .. (Len(fragment_fifo) + 1) -> Nat] : RobMatches(before)
  BY DEF RobInv
<1>3. before[1] = 0 /\ before[1] \in 0 .. (rob_num - 1)
  BY <1>1, <1>2, MissSlots DEF RobMatches
<1>4. SlotAt(before[1]) = rob_tail
  BY <1>3, TexAssumption, SlotsDiffer DEF SlotAt, RobInv
<1>5. rob_num > 0
  BY <1>3 DEF RobInv
<1> QED
  BY <1>1, <1>2, <1>4, <1>5 DEF RobMatches

(* When it leaves, every other slot is one place nearer to the tail.       *)
LEMMA AdvancedRob ==
  ASSUME TexTypes, RobInv, Advanced
  PROVE  RobInv'
<1> DEFINE n == Len(fragment_fifo)
<1>1. /\ n \in Nat \ {0} /\ Len(fragment_fifo') = n - 1
      /\ \A i \in 1 .. (n - 1) : fragment_fifo'[i] = fragment_fifo[i + 1]
      /\ \A i \in 1 .. (n - 1) : Wanted(i)' = Wanted(i + 1)
      /\ Head(fragment_fifo) = fragment_fifo[1]
      /\ fragment_fifo[1].miss \in BOOLEAN
  BY AdvancedElements DEF Fragment
<1>2. /\ RobEntries \in Nat \ {0} /\ rob_num \in 0 .. RobEntries /\ rob_tail \in Slot
      /\ rob_head = SlotFrom(rob_tail, rob_num) /\ rob \in [Slot -> RobEntry]
      /\ rob' = rob /\ rob_head' = rob_head
  BY TexAssumption DEF RobInv, SlotAt, Advanced
<1>3. PICK before \in [1 .. (n + 1) -> Nat] : RobMatches(before)
  BY DEF RobInv
<1>4. PICK d \in {0, 1} : d = IF fragment_fifo[1].miss THEN 1 ELSE 0
  BY <1>1
<1>5. rob_num' = rob_num - d /\ rob_num' \in 0 .. RobEntries
  BY <1>1, <1>2, <1>4, HeadSlot DEF Advanced
<1>6. /\ rob_tail' \in Slot
      /\ \A k \in 0 .. RobEntries : k >= d => SlotFrom(rob_tail', k - d) = SlotFrom(rob_tail, k)
  <2>1. CASE fragment_fifo[1].miss
    BY <1>1, <1>2, <1>4, <2>1, SlotsDiffer DEF Advanced
  <2>2. CASE ~fragment_fifo[1].miss
    BY <1>1, <1>2, <1>4, <2>2 DEF Advanced
  <2> QED
    BY <2>1, <2>2
<1>7. \A i \in 1 .. n : before[i + 1] \in 0 .. rob_num /\ before[i + 1] >= d
  <2>1. before[1] = 0 /\ before[1 + 1] = before[1] + d
    BY <1>1, <1>3, <1>4 DEF RobMatches
  <2> QED
    BY <1>1, <1>2, <1>3, <1>4, <2>1 DEF RobMatches
<1>8. PICK after \in [1 .. n -> Nat] : \A i \in 1 .. n : after[i] = before[i + 1] - d
  <2> DEFINE after == [i \in 1 .. n |-> before[i + 1] - d]
  <2>1. after \in [1 .. n -> Nat]
    BY <1>2, <1>4, <1>7
  <2> QED
    BY <2>1
<1>9. rob_head' = SlotFrom(rob_tail', rob_num')
  BY <1>1, <1>2, <1>4, <1>5, <1>6, HeadSlot
<1>10. /\ after[1] = 0 /\ after[n] = rob_num'
       /\ \A i, j \in 1 .. n : i <= j => after[i] <= after[j]
  <2>1. before[1] = 0 /\ before[1 + 1] = before[1] + d /\ before[n + 1] = rob_num
    BY <1>1, <1>3, <1>4 DEF RobMatches
  <2>2. \A i, j \in 1 .. n : i <= j => before[i + 1] <= before[j + 1]
    BY <1>1, <1>3 DEF RobMatches
  <2> QED
    BY <1>1, <1>2, <1>4, <1>5, <1>7, <1>8, <2>1, <2>2
<1>11. ASSUME NEW i \in 1 .. (n - 1)
       PROVE  IF fragment_fifo'[i].miss
              THEN /\ after[i + 1] = after[i] + 1
                   /\ rob'[SlotAt(after[i])'].mf = fragment_fifo'[i].mf
                   /\ rob'[SlotAt(after[i])'].idx = fragment_fifo'[i].idx
                   /\ rob'[SlotAt(after[i])'].blk = Wanted(i)'
              ELSE after[i + 1] = after[i]
  <2>1. i + 1 \in 1 .. n /\ i \in 1 .. n /\ i + 1 + 1 = i + 2
    BY <1>1
  <2>2. SlotAt(after[i])' = SlotAt(before[i + 1])
    BY <1>2, <1>4, <1>6, <1>7, <1>8, <2>1 DEF SlotAt
  <2>3. /\ after[i] = before[i + 1] - d /\ after[i + 1] = before[i + 1 + 1] - d
        /\ before[i + 1] \in Nat /\ before[i + 1 + 1] \in Nat
    BY <1>2, <1>7, <1>8, <2>1
  <2>4. IF fragment_fifo[i + 1].miss
        THEN /\ before[i + 1 + 1] = before[i + 1] + 1
             /\ rob[SlotAt(before[i + 1])].mf = fragment_fifo[i + 1].mf
             /\ rob[SlotAt(before[i + 1])].idx = fragment_fifo[i + 1].idx
             /\ rob[SlotAt(before[i + 1])].blk = Wanted(i + 1)
        ELSE before[i + 1 + 1] = before[i + 1]
    BY <1>3, <2>1 DEF RobMatches
  <2>5. /\ fragment_fifo'[i] = fragment_fifo[i + 1] /\ Wanted(i)' = Wanted(i + 1)
        /\ rob' = rob
    BY <1>1, <1>2
  <2>6. CASE fragment_fifo[i + 1].miss
    <3>1. after[i + 1] = after[i] + 1
      BY <2>3, <2>4, <2>6
    <3> QED
      BY <2>2, <2>4, <2>5, <2>6, <3>1
  <2>7. CASE ~fragment_fifo[i + 1].miss
    BY <2>3, <2>4, <2>5, <2>7
  <2> QED
    BY <2>6, <2>7
<1> QED
  <2>1. n = Len(fragment_fifo') + 1
    BY <1>1
  <2>2. RobMatches(after)'
    BY <1>1, <1>8, <1>10, <1>11, <2>1 DEF RobMatches
  <2> QED
    BY <1>2, <1>5, <1>6, <1>8, <1>9, <2>1, <2>2 DEF RobInv, SlotAt

-----------------------------------------------------------------------------
(* The data a hit will find *)

(* What a prefix of the FIFO brings depends on that prefix alone.          *)
LEMMA HoldsOfPrefix ==
  ASSUME NEW F, NEW G, NEW w, NEW v, NEW ds, NEW k \in Nat,
         \A q \in 1 .. k : F[q] = G[q] /\ w[F[q].mf] = v[G[q].mf],
         NEW n \in 1 .. (k + 1), NEW i, NEW b, Holds(F, w, ds, i, n, b)
  PROVE  Holds(G, v, ds, i, n, b)
<1>1. \A l \in 1 .. (n - 1) : l \in 1 .. k
  OBVIOUS
<1>2. \A l \in 1 .. (n - 1) : MissesAt(F, l, i) <=> MissesAt(G, l, i)
  BY <1>1 DEF MissesAt
<1>3. CASE ds[i] = b /\ \A l \in 1 .. (n - 1) : ~MissesAt(F, l, i)
  BY <1>2, <1>3 DEF Holds
<1>4. CASE \E q \in 1 .. (n - 1) :
             /\ MissesAt(F, q, i) /\ w[F[q].mf] = b
             /\ \A l \in (q + 1) .. (n - 1) : ~MissesAt(F, l, i)
  <2>1. PICK q \in 1 .. (n - 1) :
             /\ MissesAt(F, q, i) /\ w[F[q].mf] = b
             /\ \A l \in (q + 1) .. (n - 1) : ~MissesAt(F, l, i)
    BY <1>4
  <2>2. \A l \in (q + 1) .. (n - 1) : l \in 1 .. (n - 1)
    OBVIOUS
  <2>3. MissesAt(G, q, i) /\ v[G[q].mf] = b /\ \A l \in (q + 1) .. (n - 1) : ~MissesAt(G, l, i)
    BY <1>1, <1>2, <2>1, <2>2
  <2> QED
    BY <2>3 DEF Holds
<1> QED
  BY <1>3, <1>4 DEF Holds

(* A fragment that does not miss at the line changes nothing there,        *)
LEMMA HoldsPastOther ==
  ASSUME NEW F, NEW w, NEW ds, NEW n \in Nat \ {0}, NEW i, NEW b,
         Holds(F, w, ds, i, n, b), ~MissesAt(F, n, i)
  PROVE  Holds(F, w, ds, i, n + 1, b)
<1>1. \A q \in 1 .. n : \A l \in (q + 1) .. n : l = n \/ l \in (q + 1) .. (n - 1)
  OBVIOUS
<1>2. (\A l \in 1 .. n : l = n \/ l \in 1 .. (n - 1)) /\ (\A q \in 1 .. (n - 1) : q \in 1 .. n)
  OBVIOUS
<1>3. n + 1 - 1 = n
  OBVIOUS
<1> QED
  BY <1>1, <1>2, <1>3 DEF Holds

(* and one that does brings its block.                                     *)
LEMMA HoldsPastMiss ==
  ASSUME NEW F, NEW w, NEW ds, NEW n \in Nat \ {0}, NEW i,
         MissesAt(F, n, i)
  PROVE  Holds(F, w, ds, i, n + 1, w[F[n].mf])
<1>1. n \in 1 .. n /\ n + 1 - 1 = n /\ \A l \in (n + 1) .. n : FALSE
  OBVIOUS
<1> QED
  BY <1>1 DEF Holds

(* access: a hit finds what its tag promises, a miss brings its own block. *)
LEMMA AcceptedData ==
  ASSUME TexTypes, TokensInv, DataInv, NEW m \in Mf, NEW b \in Blk, NEW f, NEW new,
         Accepted(m, b, f, new)
  PROVE  DataInv'
<1> DEFINE n == Len(fragment_fifo)
           F == fragment_fifo'
           H(i, k, x) == Holds(F, fetching', data_store, i, k, x)
<1>1. /\ n \in Nat /\ Len(F) = n + 1
      /\ \A i \in 1 .. n : F[i] = fragment_fifo[i]
      /\ F[n + 1] = f
      /\ \A i \in 1 .. n : Wanted(i)' = Wanted(i)
      /\ fetching'[F[n + 1].mf] = b
      /\ f.idx \in Line /\ f.miss \in BOOLEAN
  BY AcceptedElements
<1>2. \A i, x : \A k \in 1 .. (n + 1) :
        Holds(fragment_fifo, fetching, data_store, i, k, x) => H(i, k, x)
  <2>1. \A q \in 1 .. n : /\ fragment_fifo[q] = F[q]
                         /\ fetching[fragment_fifo[q].mf] = fetching'[F[q].mf]
    BY <1>1 DEF Wanted
  <2> QED
    BY <1>1, <2>1, HoldsOfPrefix
<1>3. ASSUME ~f.miss PROVE H(f.idx, n + 1, b)
  <2>1. lines[f.idx].tag = b /\ ~IsInvalidLine(lines[f.idx])
    BY <1>3 DEF Accepted, Matches
  <2>2. n + 1 \in 1 .. (n + 1)
    BY <1>1
  <2> QED
    BY <1>1, <1>2, <2>1, <2>2 DEF DataInv
<1>4. ASSUME NEW k \in 1 .. (n + 1), ~F[k].miss
      PROVE  H(F[k].idx, k, fetching'[F[k].mf])
  <2>1. CASE k = n + 1
    BY <1>1, <1>3, <1>4, <2>1
  <2>2. CASE k \in 1 .. n
    <3>1. Holds(fragment_fifo, fetching, data_store, F[k].idx, k, Wanted(k))
      BY <1>1, <1>4, <2>2 DEF DataInv
    <3>2. Wanted(k) = fetching'[F[k].mf]
      BY <1>1, <2>2 DEF Wanted
    <3> QED
      BY <1>2, <3>1, <3>2
  <2> QED
    BY <1>1, <2>1, <2>2
<1>5. ASSUME NEW i \in Line, ~IsInvalidLine(lines'[i])
      PROVE  H(i, n + 2, lines'[i].tag)
  <2>1. n + 1 \in Nat \ {0} /\ n + 1 + 1 = n + 2
    BY <1>1
  <2>2. MissesAt(F, n + 1, i) <=> f.miss /\ i = f.idx
    BY <1>1 DEF MissesAt
  <2>3. CASE i = f.idx
    <3>1. lines'[i].tag = b
      BY <2>3 DEF Accepted, TexTypes
    <3>2. CASE f.miss
      <4>1. MissesAt(F, n + 1, i)
        BY <2>2, <2>3, <3>2
      <4>2. H(i, n + 1 + 1, fetching'[F[n + 1].mf])
        BY <2>1, <4>1, HoldsPastMiss
      <4> QED
        BY <1>1, <2>1, <3>1, <4>2
    <3>3. CASE ~f.miss
      BY <1>3, <2>1, <2>2, <2>3, <3>1, <3>3, HoldsPastOther
    <3> QED
      BY <1>1, <3>2, <3>3
  <2>4. CASE i # f.idx
    <3>1. lines'[i] = lines[i]
      BY <2>4 DEF Accepted, TexTypes
    <3>2. H(i, n + 1, lines'[i].tag)
      BY <1>1, <1>2, <1>5, <3>1 DEF DataInv
    <3> QED
      BY <2>1, <2>2, <2>4, <3>2, HoldsPastOther
  <2> QED
    BY <2>3, <2>4
<1> QED
  <2>1. data_store' = data_store
    BY DEF Accepted
  <2>2. Len(F) + 1 = n + 2
    BY <1>1
  <2> QED
    BY <1>1, <1>4, <1>5, <2>1, <2>2 DEF DataInv, Wanted

(* When the first fragment has gone and has brought its block, the others  *)
(* bring what they did.                                                    *)
LEMMA HoldsOfTail ==
  ASSUME NEW F, NEW G, NEW w, NEW ds, NEW es, NEW k \in Nat \ {0}, NEW i, NEW x,
         \A l \in 1 .. (k - 1) : G[l] = F[l + 1],
         es[i] = IF MissesAt(F, 1, i) THEN w[F[1].mf] ELSE ds[i],
         Holds(F, w, ds, i, k + 1, x)
  PROVE  Holds(G, w, es, i, k, x)
<1>1. \A l \in 1 .. (k - 1) : /\ l + 1 \in 1 .. k
                             /\ MissesAt(G, l, i) <=> MissesAt(F, l + 1, i)
  BY DEF MissesAt
<1>2. CASE ds[i] = x /\ \A l \in 1 .. k : ~MissesAt(F, l, i)
  <2>1. ~MissesAt(F, 1, i)
    BY <1>2
  <2>2. es[i] = x /\ \A l \in 1 .. (k - 1) : ~MissesAt(G, l, i)
    BY <1>1, <1>2, <2>1
  <2> QED
    BY <2>2, Zenon DEF Holds
<1>3. ASSUME NEW q \in 1 .. k, MissesAt(F, q, i), w[F[q].mf] = x,
             \A l \in (q + 1) .. k : ~MissesAt(F, l, i)
      PROVE  Holds(G, w, es, i, k, x)
  <2>1. CASE q = 1
    <3>1. es[i] = x /\ \A l \in 1 .. (k - 1) : l + 1 \in (q + 1) .. k
      BY <1>3, <2>1
    <3>2. \A l \in 1 .. (k - 1) : ~MissesAt(G, l, i)
      BY <1>1, <1>3, <3>1
    <3> QED
      BY <3>1, <3>2, Zenon DEF Holds
  <2>2. CASE q # 1
    <3>1. PICK p \in 1 .. (k - 1) : q = p + 1
      BY <2>2
    <3>2. MissesAt(G, p, i) /\ w[G[p].mf] = x
      BY <1>1, <1>3, <3>1
    <3>3. \A l \in (p + 1) .. (k - 1) : l \in 1 .. (k - 1) /\ l + 1 \in (q + 1) .. k
      BY <3>1
    <3>4. \A l \in (p + 1) .. (k - 1) : ~MissesAt(G, l, i)
      BY <1>1, <1>3, <3>3
    <3> QED
      BY <3>2, <3>4, Zenon DEF Holds
  <2> QED
    BY <2>1, <2>2
<1>4. k + 1 - 1 = k
  OBVIOUS
<1> QED
  BY <1>2, <1>3, <1>4 DEF Holds

(* cycle: what the first fragment was to bring is in the data store now.   *)
LEMMA AdvancedData ==
  ASSUME TexTypes, RobInv, DataInv, Advanced
  PROVE  DataInv'
<1> DEFINE n == Len(fragment_fifo)
           F == fragment_fifo
           G == fragment_fifo'
<1>1. /\ n \in Nat \ {0} /\ Len(G) = n - 1
      /\ \A i \in 1 .. (n - 1) : G[i] = F[i + 1]
      /\ Head(F) = F[1] /\ F[1] \in Fragment
      /\ fetching' = fetching /\ lines' = lines
  BY AdvancedElements DEF Advanced
<1>2. \A i \in Line :
        data_store'[i] = IF MissesAt(F, 1, i) THEN Wanted(1) ELSE data_store[i]
  <2>1. CASE F[1].miss
    <3>1. rob[rob_tail].idx = F[1].idx /\ rob[rob_tail].blk = Wanted(1)
      BY <1>1, <2>1, HeadSlot DEF Advanced
    <3> QED
      BY <1>1, <2>1, <3>1 DEF Advanced, DataAfter, MissesAt, TexTypes, Fragment
  <2>2. CASE ~F[1].miss
    BY <1>1, <2>2 DEF Advanced, DataAfter, MissesAt
  <2> QED
    BY <2>1, <2>2
<1>3. ASSUME NEW i \in Line, NEW k \in 1 .. n, NEW x,
             Holds(F, fetching, data_store, i, k + 1, x)
      PROVE  Holds(G, fetching, data_store', i, k, x)
  <2>1. \A l \in 1 .. (k - 1) : G[l] = F[l + 1]
    BY <1>1
  <2>2. data_store'[i] = IF MissesAt(F, 1, i) THEN fetching[F[1].mf] ELSE data_store[i]
    BY <1>2 DEF Wanted
  <2>3. k \in Nat \ {0} /\ Holds(F, fetching, data_store, i, k + 1, x)
    BY <1>3
  <2> HIDE DEF F, G
  <2> QED
    BY <2>1, <2>2, <2>3, HoldsOfTail
<1>4. ASSUME NEW k \in 1 .. (n - 1), ~G[k].miss
      PROVE  Holds(G, fetching, data_store', G[k].idx, k, fetching[G[k].mf])
  <2>1. k + 1 \in 1 .. n /\ k \in 1 .. n /\ F[k + 1].idx \in Line
    <3>1. k + 1 \in 1 .. n /\ k \in 1 .. n
      BY <1>1
    <3>2. F[k + 1] \in Fragment
      BY <3>1 DEF TexTypes
    <3> QED
      BY <3>1, <3>2 DEF Fragment
  <2>2. Holds(F, fetching, data_store, F[k + 1].idx, k + 1, fetching[F[k + 1].mf])
    BY <1>1, <1>4, <2>1 DEF DataInv, Wanted
  <2> QED
    BY <1>1, <1>3, <2>1, <2>2
<1>5. ASSUME NEW i \in Line, ~IsInvalidLine(lines[i])
      PROVE  Holds(G, fetching, data_store', i, n, lines[i].tag)
  BY <1>1, <1>3, <1>5 DEF DataInv
<1> QED
  <2>1. Len(G) + 1 = n
    BY <1>1
  <2> QED
    BY <1>1, <1>4, <1>5, <2>1 DEF DataInv, Wanted

(* next_access: the request taken is not waiting any more.                 *)
LEMMA NextAccessData ==
  ASSUME TexTypes, TokensInv, DataInv, TexNextAccess
  PROVE  DataInv'
<1> DEFINE n == Len(fragment_fifo)
<1>1. /\ fragment_fifo' = fragment_fifo /\ data_store' = data_store /\ lines' = lines
      /\ result_fifo # <<>> /\ fetching' = [fetching EXCEPT ![Head(result_fifo)] = NoBlock]
      /\ n \in Nat
  BY DEF TexNextAccess, tagVars, TexTypes
<1>2. \A q \in 1 .. n : fetching[fragment_fifo[q].mf] = fetching'[fragment_fifo[q].mf]
  BY <1>1, FragmentTokens DEF TexTypes
<1>3. \A i, x : \A k \in 1 .. (n + 1) :
        Holds(fragment_fifo, fetching, data_store, i, k, x)
          => Holds(fragment_fifo, fetching', data_store, i, k, x)
  BY <1>1, <1>2, HoldsOfPrefix
<1>4. /\ n + 1 \in 1 .. (n + 1) /\ \A k \in 1 .. n : k \in 1 .. (n + 1)
  BY <1>1
<1>5. \A k \in 1 .. n : ~fragment_fifo[k].miss =>
        Holds(fragment_fifo, fetching', data_store, fragment_fifo[k].idx, k,
              fetching'[fragment_fifo[k].mf])
  BY <1>2, <1>3, <1>4 DEF DataInv, Wanted
<1>6. \A i \in Line : ~IsInvalidLine(lines[i]) =>
        Holds(fragment_fifo, fetching', data_store, i, n + 1, lines[i].tag)
  BY <1>3, <1>4 DEF DataInv
<1> QED
  BY <1>1, <1>5, <1>6 DEF DataInv, Wanted

-----------------------------------------------------------------------------
(* Every step of the cache *)

(* A step of neither the FIFOs nor the tags: a request goes to the memory  *)
(* port, or an answer marks its slot as ready.                             *)
OutsideStep ==
  /\ UNCHANGED <<policy, lines, fragment_fifo, result_fifo, fetching, data_store>>
  /\ UNCHANGED <<rob_head, rob_tail, rob_num>>
  /\ rob' \in [Slot -> RobEntry]
  /\ \A k \in Slot : /\ rob'[k].mf = rob[k].mf /\ rob'[k].idx = rob[k].idx
                     /\ rob'[k].blk = rob[k].blk

LEMMA OutsideKeeps ==
  ASSUME TexInv, OutsideStep
  PROVE  TexInv' /\ Outstanding' = Outstanding
<1>1. TexTypes' /\ Outstanding' = Outstanding
  BY DEF OutsideStep, TexInv, TexTypes, Outstanding
<1>2. TokensInv'
  BY <1>1 DEF OutsideStep, TexInv, TokensInv
<1>3. DataInv'
  BY DEF OutsideStep, TexInv, DataInv, Wanted
<1>4. RobInv'
  <2>1. PICK before \in [1 .. (Len(fragment_fifo) + 1) -> Nat] : RobMatches(before)
    BY DEF TexInv, RobInv
  <2>2. \A i \in 1 .. Len(fragment_fifo) :
          fragment_fifo[i].miss => SlotAt(before[i]) \in Slot
    BY <2>1, MissSlots DEF TexInv
  <2>3. RobMatches(before)'
    BY <2>1, <2>2 DEF OutsideStep, RobMatches, SlotAt, Wanted
  <2> QED
    BY <2>1, <2>3 DEF OutsideStep, TexInv, RobInv, SlotAt
<1> QED
  BY <1>1, <1>2, <1>3, <1>4 DEF TexInv

(* access *)
LEMMA AccessKeeps ==
  ASSUME TexInv, NEW m \in Mf, NEW b \in Blk, NEW s \in SectorsUsed, TexAccess(m, b, s)
  PROVE  /\ TexInv'
         /\ Outstanding' = Append(Outstanding, m)
         /\ \A i \in DOMAIN Outstanding : Outstanding[i] # m
         /\ Len(Outstanding) < FragmentEntries + ResultEntries
<1>1. PICK f \in Fragment, new \in CacheBlockT : Accepted(m, b, f, new)
  BY AccessAccepts DEF TexInv
<1> QED
  BY <1>1, AcceptedOutstanding, AcceptedRob, AcceptedData DEF TexInv

(* cycle *)
LEMMA CycleKeeps ==
  ASSUME TexInv, NEW portFull \in BOOLEAN, TexCycle(portFull)
  PROVE  TexInv' /\ Outstanding' = Outstanding
<1>1. CASE CanAdvance
  <2>1. Advanced
    BY <1>1 DEF TexCycle, CanAdvance, Advanced, tagVars
  <2> QED
    BY <2>1, AdvancedOutstanding, AdvancedRob, AdvancedData DEF TexInv
<1>2. CASE ~CanAdvance
  BY <1>2, OutsideKeeps DEF TexCycle, OutsideStep, TexInv, RobInv, tagVars
<1> QED
  BY <1>1, <1>2

(* fill *)
LEMMA TexFillKeeps ==
  ASSUME TexInv, NEW m \in Mf, TexFill(m)
  PROVE  TexInv' /\ Outstanding' = Outstanding
<1>1. rob \in [Slot -> RobEntry]
  BY DEF TexInv, RobInv
<1>2. rob' = rob \/ rob' = [rob EXCEPT ![SlotOf(m)].ready = TRUE]
  BY DEF TexFill
<1>3. rob' \in [Slot -> RobEntry] /\ \A k \in Slot :
        rob'[k].mf = rob[k].mf /\ rob'[k].idx = rob[k].idx /\ rob'[k].blk = rob[k].blk
  <2>1. CASE rob' = rob
    BY <1>1, <2>1
  <2>2. CASE rob' = [rob EXCEPT ![SlotOf(m)].ready = TRUE]
    <3>1. rob' = [k \in Slot |-> IF k = SlotOf(m) THEN [rob[k] EXCEPT !.ready = TRUE]
                                 ELSE rob[k]]
      BY <1>1, <2>2
    <3>2. \A k \in Slot :
            /\ [rob[k] EXCEPT !.ready = TRUE] \in RobEntry
            /\ [rob[k] EXCEPT !.ready = TRUE].mf = rob[k].mf
            /\ [rob[k] EXCEPT !.ready = TRUE].idx = rob[k].idx
            /\ [rob[k] EXCEPT !.ready = TRUE].blk = rob[k].blk
      BY <1>1 DEF RobEntry
    <3> QED
      BY <1>1, <3>1, <3>2
  <2> QED
    BY <1>2, <2>1, <2>2
<1>4. OutsideStep
  BY <1>3 DEF TexFill, OutsideStep, tagVars
<1> QED
  BY <1>4, OutsideKeeps

(* next_access *)
LEMMA TexNextAccessKeeps ==
  ASSUME TexInv, TexNextAccess
  PROVE  TexInv' /\ Outstanding # <<>> /\ Outstanding' = Tail(Outstanding)
<1>1. TexTypes' /\ TokensInv' /\ Outstanding # <<>> /\ Outstanding' = Tail(Outstanding)
  BY NextAccessOutstanding DEF TexInv
<1>2. DataInv'
  BY NextAccessData DEF TexInv
<1>3. RobInv'
  <2>1. PICK before \in [1 .. (Len(fragment_fifo) + 1) -> Nat] : RobMatches(before)
    BY DEF TexInv, RobInv
  <2>2. \A i \in 1 .. Len(fragment_fifo) : Wanted(i)' = Wanted(i)
    <3>1. /\ fragment_fifo' = fragment_fifo /\ result_fifo # <<>>
          /\ fetching' = [fetching EXCEPT ![Head(result_fifo)] = NoBlock]
      BY DEF TexNextAccess
    <3> QED
      BY <3>1, FragmentTokens DEF TexInv, TexTypes, Wanted
  <2>3. RobMatches(before)'
    BY <2>1, <2>2 DEF TexNextAccess, robVars, RobMatches, SlotAt
  <2> QED
    BY <2>1, <2>3 DEF TexNextAccess, robVars, TexInv, RobInv, SlotAt
<1> QED
  BY <1>1, <1>2, <1>3 DEF TexInv

(* invalidate of a drained cache: no tag and no data is left.              *)
LEMMA TexInvalidateKeeps ==
  ASSUME TexInv, TexInvalidate
  PROVE  TexInv' /\ Outstanding' = Outstanding
<1>1. /\ fragment_fifo = <<>> /\ fragment_fifo' = <<>> /\ result_fifo' = result_fifo
      /\ lines' = [i \in Line |-> InvalidateLine(lines[i])]
      /\ data_store' = [i \in Line |-> NoBlock]
      /\ fetching' = fetching /\ policy' = policy
      /\ UNCHANGED robVars
  BY DEF TexInvalidate, TexQueuesEmpty, InvalidateTags
<1>2. lines' \in [Line -> CacheBlockT] /\ \A i \in Line : IsInvalidLine(lines'[i])
  <2>1. \A i \in Line : lines[i] \in CacheBlockT
    BY DEF TexInv, TexTypes
  <2>2. \A i \in Line : /\ InvalidateLine(lines[i]) \in CacheBlockT
                       /\ IsInvalidLine(InvalidateLine(lines[i]))
    BY <2>1 DEF InvalidateLine, CacheBlockT, BlockState, IsInvalidLine
  <2> QED
    BY <1>1, <2>2
<1>3. TexTypes' /\ Outstanding' = Outstanding
  BY <1>1, <1>2 DEF TexInv, TexTypes, Outstanding
<1>4. TokensInv'
  BY <1>1, <1>3 DEF TexInv, TokensInv
<1>5. RobInv'
  BY <1>1 DEF TexInv, RobInv, RobMatches, SlotAt, Wanted, robVars
<1>6. DataInv'
  BY <1>1, <1>2 DEF DataInv
<1> QED
  BY <1>3, <1>4, <1>5, <1>6 DEF TexInv

(* The empty cache.                                                        *)
LEMMA TexInitHolds == ASSUME TexInit PROVE TexInv /\ Outstanding = <<>>
<1>1. /\ fragment_fifo = <<>> /\ result_fifo = <<>> /\ policy \in Policies
      /\ lines = [i \in Line |-> InitBlock]
      /\ fetching = [m \in Mf |-> NoBlock]
      /\ data_store = [i \in Line |-> NoBlock]
      /\ rob = [i \in Slot |-> [ready |-> FALSE, idx |-> 0, mf |-> NoMf, blk |-> NoBlock]]
      /\ rob_head = 0 /\ rob_tail = 0 /\ rob_num = 0
  BY DEF TexInit, TagInit
<1>2. InitBlock \in CacheBlockT /\ IsInvalidLine(InitBlock)
  BY DEF InitBlock, CacheBlockT, BlockState, ByteMask, IsInvalidLine
<1>3. TexTypes
  BY <1>1, <1>2, TexAssumption DEF TexTypes
<1>4. Outstanding = <<>> /\ DOMAIN Outstanding = {}
  <2>1. <<>> \in Seq(Mf) /\ <<>> \in Seq(Fragment)
    OBVIOUS
  <2>2. Outstanding = InOrderOf(<<>>, <<>>)
    BY <1>1 DEF Outstanding
  <2>3. Outstanding \in Seq(Mf) /\ Len(Outstanding) = Len(<<>>) + Len(<<>>)
    BY <2>1, <2>2, InOrderElements
  <2> QED
    BY <2>3
<1>5. TokensInv
  BY <1>4 DEF TokensInv
<1>6. RobInv
  <2>1. 0 \in Line
    <3>1. NSet * Assoc \in Nat \ {0}
      BY GeometryAssumption
    <3> QED
      BY <3>1 DEF Line
  <2>2. rob \in [Slot -> RobEntry]
    BY <1>1, <2>1 DEF RobEntry, NoBlock
  <2>3. 0 \in Slot /\ rob_head = SlotAt(rob_num)
    BY <1>1, TexAssumption, SlotsDiffer DEF Slot, SlotAt
  <2> DEFINE none == [i \in 1 .. (Len(fragment_fifo) + 1) |-> 0]
  <2>4. none \in [1 .. (Len(fragment_fifo) + 1) -> Nat] /\ RobMatches(none)
    BY <1>1 DEF RobMatches
  <2> HIDE DEF none
  <2>5. rob_tail \in Slot /\ rob_num \in 0 .. RobEntries
    BY <1>1, <2>3, TexAssumption
  <2> QED
    BY <2>2, <2>3, <2>4, <2>5 DEF RobInv
<1>7. DataInv
  BY <1>1, <1>2 DEF DataInv
<1> QED
  BY <1>3, <1>4, <1>5, <1>6, <1>7 DEF TexInv

-----------------------------------------------------------------------------
(* Each step preserves TexInv, and is a step of InOrderService or leaves   *)
(* the outstanding requests alone.                                         *)
LEMMA TexNextStep ==
  ASSUME TexInv, [TexNext]_vars
  PROVE  /\ TexInv'
         /\ [Service!Next]_Outstanding
<1> DEFINE Serves == [Service!Next]_Outstanding
<1>1. ASSUME NEW m \in Mf, NEW b \in Blk, NEW s \in SectorsUsed, TexAccess(m, b, s)
      PROVE  TexInv' /\ Serves
  <2>1. /\ TexInv' /\ Outstanding' = Append(Outstanding, m)
        /\ \A i \in DOMAIN Outstanding : Outstanding[i] # m
        /\ Len(Outstanding) < FragmentEntries + ResultEntries
    BY <1>1, AccessKeeps
  <2>2. Service!Accept(m)
    BY <2>1 DEF Service!Accept, Outstanding, InOrderOf
  <2> QED
    BY <2>1, <2>2 DEF Service!Next
<1>2. ASSUME NEW portFull \in BOOLEAN, TexCycle(portFull) PROVE TexInv' /\ Serves
  BY <1>2, CycleKeeps
<1>3. ASSUME NEW m \in Mf, TexFill(m) PROVE TexInv' /\ Serves
  BY <1>3, TexFillKeeps
<1>4. ASSUME TexNextAccess PROVE TexInv' /\ Serves
  <2>1. TexInv' /\ Outstanding # <<>> /\ Outstanding' = Tail(Outstanding)
    BY <1>4, TexNextAccessKeeps
  <2>2. Service!Return
    BY <2>1 DEF Service!Return, Outstanding, InOrderOf
  <2> QED
    BY <2>1, <2>2 DEF Service!Next
<1>5. CASE TexInvalidate
  BY <1>5, TexInvalidateKeeps
<1>6. CASE TexStop \/ UNCHANGED vars
  BY <1>6, OutsideKeeps
     DEF TexStop, vars, tagVars, robVars, OutsideStep, TexInv, RobInv
<1> QED
  BY <1>1, <1>2, <1>3, <1>4, <1>5, <1>6 DEF TexNext

(* TexInv holds in every reachable state.                                  *)
THEOREM TexInvariance == TexSpec => []TexInv
<1>1. TexInit => TexInv
  BY TexInitHolds
<1>2. TexInv /\ [TexNext]_vars => TexInv'
  BY TexNextStep
<1> QED
  BY <1>1, <1>2, PTL DEF TexSpec

(* The texture cache implements InOrderService: it returns each request it *)
(* accepts once and in the order of access, although hits find their data  *)
(* before older misses and the memory answers in any order.                *)
THEOREM ServedInOrder == TexSpec => InOrder
<1>1. TexInit => Service!Init
  BY TexInitHolds DEF Service!Init, Outstanding, InOrderOf
<1>2. TexInv /\ [TexNext]_vars => [Service!Next]_Outstanding
  BY TexNextStep
<1> QED
  BY <1>1, <1>2, TexInvariance, PTL
     DEF TexSpec, InOrder, Service!Spec, Outstanding, InOrderOf

(* The asserts of cycle: at the head of the fragment FIFO a hit finds its  *)
(* own block in the data store, a miss its own slot of the reorder buffer. *)
THEOREM HeadHasItsData == TexSpec => []HeadFindsItsData
<1>1. ASSUME TexInv PROVE HeadFindsItsData
  <2> SUFFICES ASSUME fragment_fifo # <<>>
               PROVE  IF Head(fragment_fifo).miss
                      THEN /\ rob_num > 0 /\ rob[rob_tail].mf = Head(fragment_fifo).mf
                           /\ rob[rob_tail].idx = Head(fragment_fifo).idx
                      ELSE data_store[Head(fragment_fifo).idx]
                             = fetching[Head(fragment_fifo).mf]
    BY <1>1 DEF HeadFindsItsData
  <2>1. Head(fragment_fifo) = fragment_fifo[1] /\ 1 \in 1 .. Len(fragment_fifo)
    BY <1>1, TailElements DEF TexInv, TexTypes
  <2>2. CASE Head(fragment_fifo).miss
    BY <1>1, <2>1, <2>2, HeadSlot DEF TexInv
  <2>3. CASE ~Head(fragment_fifo).miss
    BY <1>1, <2>1, <2>3 DEF TexInv, DataInv, Holds, Wanted
  <2> QED
    BY <2>2, <2>3
<1> QED
  BY <1>1, TexInvariance, PTL

(* Once the fragment FIFO is empty, a line the tags call valid has the     *)
(* data of its tag: what a hit after a drain relies on.                    *)
THEOREM DrainedTagsMatch == TexSpec => []TagsMatchDataWhenDrained
<1>1. ASSUME TexInv PROVE TagsMatchDataWhenDrained
  BY <1>1 DEF TexInv, DataInv, Holds, TagsMatchDataWhenDrained
<1> QED
  BY <1>1, TexInvariance, PTL

-----------------------------------------------------------------------------
(* The asserts of access, fill and class fifo *)

(* The slots in use belong to misses that wait, each to one.               *)
SlotsInv ==
  /\ \A k \in 0 .. (rob_num - 1) : \E i \in 1 .. Len(fragment_fifo) :
       fragment_fifo[i].miss /\ fragment_fifo[i].mf = rob[SlotAt(k)].mf
  /\ \A k, l \in 0 .. (rob_num - 1) :
       rob[SlotAt(k)].mf = rob[SlotAt(l)].mf => k = l

(* A read that is outstanding has one of them, which is not ready.         *)
ReadHasSlot(m) ==
  /\ extra_mf_fields[m].rob_index \in Slot
  /\ \E k \in 0 .. (rob_num - 1) : extra_mf_fields[m].rob_index = SlotAt(k)
  /\ ~rob[extra_mf_fields[m].rob_index].ready
  /\ rob[extra_mf_fields[m].rob_index].mf = m
  /\ rob[extra_mf_fields[m].rob_index].blk = fetching[m]

ReadsInv == \A m \in Mf : extra_mf_fields[m] # NoRead => ReadHasSlot(m)

(* Line tags: a line is valid and readable or invalid, and never pinned.   *)
CleanLine(line) ==
  /\ line.status[0] \in {"VALID", "INVALID"}
  /\ \A x \in Sector \ {0} : line.status[x] = "INVALID"
  /\ line.pending_response_count = 0

CleanTags == policy.type = "NORMAL" => \A i \in Line : CleanLine(lines[i])

SlotInv ==
  /\ extra_mf_fields \in [Mf -> ReadFields \cup {NoRead}]
  /\ Len(request_fifo) <= RequestEntries /\ request_fifo \in Seq(Mf)
  /\ SlotsInv /\ ReadsInv /\ CleanTags

(* A probe of clean lines finds its block or a line to replace.            *)
LEMMA CleanProbe ==
  ASSUME TexTypes, CleanTags, policy.type = "NORMAL",
         NEW b \in Blk, NEW s \in SectorsUsed, NEW wr, NEW p \in Probe(b, s, wr)
  PROVE  p.st \in {"HIT", "MISS"} /\ p.idx \in Line
<1>1. b \in Nat /\ s = 0 /\ s \in Sector /\ lines \in [Line -> CacheBlockT]
      /\ \A i \in Line : CleanLine(lines[i])
  BY AddressAssumption DEF SectorsUsed, TexTypes, CleanTags
<1>2. \/ \E i \in Ways(b) : Matches(i, b) /\ p = [st |-> StatusOnMatch(i, s, wr), idx |-> i]
      \/ p.st = "MISS"
      \/ Victims(b) = {} /\ p.st = "RESERVATION_FAIL"
  BY ProbeCases
<1>3. p.st # "RESERVATION_FAIL"
  <2>1. ASSUME Victims(b) = {} PROVE FALSE
    <3>1. PICK i \in Ways(b) : i \in Line
      BY <1>1, WayExists
    <3>2. ~Replaceable(i)
      BY <1>1, <2>1, VictimsEmpty
    <3>3. Replaceable(i)
      BY <1>1, <3>1 DEF Replaceable, CleanLine, IsPinned, IsReservedLine, IsModifiedLine
    <3> QED
      BY <3>2, <3>3
  <2> QED
    BY <1>2, <2>1 DEF StatusOnMatch
<1>4. CASE p.st = "MISS"
  BY <1>1, <1>4, ProbeFacts
<1>5. CASE \E i \in Ways(b) : Matches(i, b) /\ p = [st |-> StatusOnMatch(i, s, wr), idx |-> i]
  <2>1. PICK i \in Ways(b) : Matches(i, b) /\ p = [st |-> StatusOnMatch(i, s, wr), idx |-> i]
    BY <1>5
  <2>2. i \in Line /\ CleanLine(lines[i])
    BY <1>1, WaysAreLines
  <2>3. lines[i].status[0] = "VALID"
    BY <2>1, <2>2 DEF CleanLine, Matches, IsInvalidLine
  <2>4. p.st = StatusOnMatch(i, s, wr) /\ p.idx = i
    BY <2>1
  <2> QED
    BY <1>1, <2>2, <2>3, <2>4 DEF StatusOnMatch
<1> QED
  BY <1>2, <1>3, <1>4, <1>5

(* An access of a line cache leaves clean lines: a miss is filled at once. *)
LEMMA AccessClean ==
  ASSUME TexTypes, CleanTags, NEW m \in Mf, NEW b \in Blk, NEW s \in SectorsUsed,
         TexAccess(m, b, s)
  PROVE  CleanTags'
<1>1. policy' = policy
  BY DEF TexAccess
<1> SUFFICES ASSUME policy.type = "NORMAL"
             PROVE  \A i \in Line : CleanLine(lines'[i])
  BY <1>1 DEF CleanTags, CleanLine
<1>2. /\ b \in Nat /\ s = 0 /\ s \in Sector /\ lines \in [Line -> CacheBlockT]
      /\ policy.alloc = "ON_MISS"
      /\ \A i \in Line : CleanLine(lines[i])
  BY AddressAssumption, TexPolicyAssumption DEF SectorsUsed, TexTypes, CleanTags
<1>3. PICK p \in Probe(b, s, FALSE) : TexMiss(m, b, s, p) \/ TexHit(m, b, s, p)
  BY DEF TexAccess
<1>4. p.st \in {"HIT", "MISS"} /\ p.idx \in Line
  BY CleanProbe
<1>5. PICK old : old = lines[p.idx]
  OBVIOUS
<1>6. old \in CacheBlockT /\ CleanLine(old)
  BY <1>2, <1>4, <1>5
<1>7. CASE p.st = "HIT"
  <2>1. lines' = [lines EXCEPT ![p.idx] = TagAccess(p, b, s).line]
    BY <1>3, <1>7 DEF TexMiss, TexHit
  <2>2. TagAccess(p, b, s).line = lines[p.idx]
    BY <1>7 DEF TagAccess
  <2> QED
    BY <1>2, <1>4, <2>1, <2>2
<1>8. CASE p.st = "MISS"
  <2>1. PICK new : /\ new = FillBlock(policy.type, TagAccess(p, b, s).line, s, {})
                   /\ lines' = [lines EXCEPT ![p.idx] = new]
    BY <1>3, <1>8 DEF TexMiss, TexHit
  <2>2. PICK here : here = TagAccess(p, b, s).line
    OBVIOUS
  <2>3. here = Allocate(policy.type, old, b, s)
    BY <1>2, <1>5, <1>8, <2>2 DEF TagAccess
  <2>4. /\ here.set_modified_on_fill = [old.set_modified_on_fill EXCEPT ![s] = FALSE]
        /\ here.pending_response_count = 0
        /\ here.status = [old.status EXCEPT ![s] = "RESERVED"]
    BY <2>3 DEF Allocate
  <2>5. here \in CacheBlockT
    BY <1>2, <1>6, <2>3, AllocateType DEF CacheType
  <2>6. here.set_modified_on_fill[s] = FALSE /\ \A x \in Sector \ {s} : here.status[x] = "INVALID"
    BY <1>2, <1>6, <2>4 DEF CleanLine, CacheBlockT
  <2>7. new = FillBlock(policy.type, here, s, {})
    BY <2>1, <2>2
  <2>8. /\ new.status[s] = "VALID" /\ new.pending_response_count = 0
        /\ \A x \in Sector \ {s} : new.status[x] = "INVALID"
    BY <1>2, <2>4, <2>5, <2>6, <2>7 DEF FillBlock, CacheBlockT
  <2>9. CleanLine(new)
    BY <1>2, <2>8 DEF CleanLine
  <2> QED
    BY <1>2, <1>4, <2>1, <2>9
<1> QED
  BY <1>4, <1>7, <1>8

(* A new request takes the slot at the head, which no one has.             *)
LEMMA AccessSlots ==
  ASSUME TexInv, SlotInv, NEW m \in Mf, NEW b \in Blk, NEW s \in SectorsUsed,
         TexAccess(m, b, s)
  PROVE  SlotInv'
<1>1. /\ TexTypes /\ TokensInv /\ rob \in [Slot -> RobEntry] /\ rob_tail \in Slot
      /\ rob_num \in 0 .. RobEntries /\ rob_head = SlotAt(rob_num)
      /\ extra_mf_fields \in [Mf -> ReadFields \cup {NoRead}]
      /\ SlotsInv /\ ReadsInv
  BY DEF TexInv, RobInv, SlotInv
<1>2. CleanTags'
  BY <1>1, AccessClean DEF SlotInv
<1>3. PICK p \in Probe(b, s, FALSE) : TexMiss(m, b, s, p) \/ TexHit(m, b, s, p)
  BY DEF TexAccess
<1>4. /\ FreeMf(m) /\ fetching' = [fetching EXCEPT ![m] = b] /\ rob_num < RobEntries
      /\ request_fifo \in Seq(Mf) /\ Len(request_fifo) < RequestEntries
      /\ fetching \in [Mf -> Blk \cup {NoBlock}]
  BY <1>1 DEF TexAccess, RoomForRequest, SlotInv, TexTypes
<1>5. PICK f \in Fragment : f.mf = m /\ fragment_fifo' = Append(fragment_fifo, f)
  BY <1>3, AccessAccepts, <1>1 DEF Accepted
<1>6. LET n == Len(fragment_fifo)
      IN  /\ n \in Nat /\ Len(fragment_fifo') = n + 1
          /\ \A i \in 1 .. n : fragment_fifo'[i] = fragment_fifo[i]
          /\ fragment_fifo'[n + 1] = f
  BY <1>1, <1>5, AppendElements DEF TexTypes
<1>7. \A k \in 0 .. (rob_num - 1) : rob[SlotAt(k)].mf \in Mf \ {m}
  BY <1>1, <1>4, FragmentTokens DEF SlotsInv
<1>8. \A x \in Mf \ {m} : fetching'[x] = fetching[x]
  BY <1>4
<1>9. extra_mf_fields[m] = NoRead
  BY <1>1, <1>7 DEF ReadsInv, ReadHasSlot
<1>10. CASE TexHit(m, b, s, p)
  <2>1. UNCHANGED robVars /\ extra_mf_fields' = extra_mf_fields /\ request_fifo' = request_fifo
    BY <1>10 DEF TexHit
  <2>2. SlotsInv'
    BY <1>1, <1>6, <2>1 DEF SlotsInv, SlotAt, robVars
  <2>3. ReadsInv'
    BY <1>1, <1>8, <1>9, <2>1 DEF ReadsInv, ReadHasSlot, SlotAt, robVars
  <2> QED
    BY <1>2, <2>1, <2>2, <2>3 DEF SlotInv
<1>11. CASE TexMiss(m, b, s, p)
  <2>1. PICK e : e = [ready |-> FALSE, idx |-> p.idx, mf |-> m, blk |-> b]
    OBVIOUS
  <2>2. /\ rob' = [rob EXCEPT ![rob_head] = e]
        /\ rob_num' = rob_num + 1 /\ rob_tail' = rob_tail
        /\ request_fifo' = Append(request_fifo, m)
        /\ extra_mf_fields' = [extra_mf_fields EXCEPT ![m] =
             [ rob_index    |-> rob_head,
               pending_read |-> IF policy.mshr = "SECTOR_TEX_FIFO" THEN Chunks ELSE 0 ]]
    BY <1>11, <2>1 DEF TexMiss
  <2>3. \A k \in 0 .. (rob_num - 1) : SlotAt(k) \in Slot /\ SlotAt(k) # rob_head
    <3>1. rob_num \in 0 .. (RobEntries - 1) /\ RobEntries \in Nat
      BY <1>1, <1>4, TexAssumption
    <3>2. \A k \in 0 .. (rob_num - 1) : k \in 0 .. RobEntries /\ k < rob_num
      BY <3>1
    <3> QED
      BY <1>1, <3>1, <3>2, SlotsDiffer DEF SlotAt
  <2>4. rob_head \in Slot
    BY <1>1, SlotsDiffer DEF SlotAt
  <2>5. /\ rob'[rob_head] = e
        /\ \A k \in Slot : k # rob_head => rob'[k] = rob[k]
    BY <1>1, <2>2, <2>4
  <2>6. \A k : SlotAt(k)' = SlotAt(k)
    BY <2>2 DEF SlotAt
  <2>7. \A k \in 0 .. rob_num : IF k = rob_num THEN rob'[SlotAt(k)] = e
                                ELSE /\ k \in 0 .. (rob_num - 1)
                                     /\ rob'[SlotAt(k)] = rob[SlotAt(k)]
    BY <1>1, <2>3, <2>5
  <2>8. e.mf = m /\ e.blk = b /\ ~e.ready
    BY <2>1
  <2>9. 0 .. (rob_num' - 1) = 0 .. rob_num /\ 0 .. (rob_num - 1) \subseteq 0 .. rob_num
        /\ rob_num \in 0 .. rob_num
    BY <1>1, <2>2
  <2>14. f.miss
    <3>1. PICK g \in Fragment : /\ g = [mf |-> m, idx |-> p.idx, miss |-> TRUE]
                                /\ fragment_fifo' = Append(fragment_fifo, g)
      <4>1. p.idx \in Line
        BY <1>1, <1>4, <1>11, ProbeFacts, AddressAssumption DEF TexMiss, TexTypes, SectorsUsed
      <4> QED
        BY <1>11, <4>1 DEF TexMiss, PushFragment, Fragment
    <3>2. fragment_fifo'[Len(fragment_fifo) + 1] = g
      BY <1>1, <3>1, AppendElements DEF TexTypes
    <3> QED
      BY <1>6, <3>1, <3>2
  <2>10. SlotsInv'
    <3>1. \A k \in 0 .. rob_num : \E i \in 1 .. Len(fragment_fifo') :
            fragment_fifo'[i].miss /\ fragment_fifo'[i].mf = rob'[SlotAt(k)].mf
      <4> SUFFICES ASSUME NEW k \in 0 .. rob_num
                   PROVE  \E i \in 1 .. Len(fragment_fifo') :
                            fragment_fifo'[i].miss /\ fragment_fifo'[i].mf = rob'[SlotAt(k)].mf
        OBVIOUS
      <4>1. CASE k = rob_num
        <5>1. Len(fragment_fifo) + 1 \in 1 .. Len(fragment_fifo')
          BY <1>6
        <5> QED
          BY <1>5, <1>6, <2>7, <2>8, <2>14, <4>1, <5>1
      <4>2. CASE k # rob_num
        <5>1. PICK i \in 1 .. Len(fragment_fifo) :
                fragment_fifo[i].miss /\ fragment_fifo[i].mf = rob[SlotAt(k)].mf
          BY <1>1, <2>7, <4>2 DEF SlotsInv
        <5>2. i \in 1 .. Len(fragment_fifo') /\ fragment_fifo'[i] = fragment_fifo[i]
          BY <1>6
        <5> QED
          BY <2>7, <4>2, <5>1, <5>2
      <4> QED
        BY <4>1, <4>2
    <3>2. \A k, l \in 0 .. rob_num : rob'[SlotAt(k)].mf = rob'[SlotAt(l)].mf => k = l
      BY <1>1, <1>7, <2>7, <2>8 DEF SlotsInv
    <3> QED
      BY <2>6, <2>9, <3>1, <3>2 DEF SlotsInv
  <2>11. ReadsInv'
    <3>1. extra_mf_fields'[m].rob_index = rob_head
      BY <1>1, <2>2
    <3>2. ReadHasSlot(m)'
      BY <1>1, <1>4, <2>4, <2>5, <2>6, <2>8, <2>9, <3>1 DEF ReadHasSlot
    <3>3. ASSUME NEW x \in Mf \ {m}, extra_mf_fields[x] # NoRead
          PROVE  ReadHasSlot(x)'
      <4>1. PICK j \in 0 .. (rob_num - 1) : extra_mf_fields[x].rob_index = SlotAt(j)
        BY <1>1, <3>3 DEF ReadsInv, ReadHasSlot
      <4>2. extra_mf_fields'[x] = extra_mf_fields[x]
        BY <1>1, <2>2
      <4>3. /\ SlotAt(j) \in Slot /\ rob'[SlotAt(j)] = rob[SlotAt(j)]
            /\ j \in 0 .. (rob_num' - 1) /\ fetching'[x] = fetching[x]
        BY <1>8, <2>3, <2>5, <2>9
      <4> QED
        BY <1>1, <2>6, <3>3, <4>1, <4>2, <4>3 DEF ReadsInv, ReadHasSlot
    <3>4. \A x \in Mf \ {m} : extra_mf_fields'[x] = extra_mf_fields[x]
      BY <1>1, <2>2
    <3> QED
      BY <3>2, <3>3, <3>4 DEF ReadsInv
  <2>12. request_fifo' \in Seq(Mf) /\ Len(request_fifo') <= RequestEntries
    <3>1. Len(request_fifo') = Len(request_fifo) + 1 /\ Len(request_fifo) \in Nat
          /\ request_fifo' \in Seq(Mf)
      BY <1>4, <2>2, AppendElements
    <3> QED
      BY <1>4, <3>1, TexAssumption
  <2>13. extra_mf_fields' \in [Mf -> ReadFields \cup {NoRead}]
    BY <1>1, <2>2, <2>4, TexAssumption DEF ReadFields
  <2> QED
    BY <1>2, <2>10, <2>11, <2>12, <2>13 DEF SlotInv
<1> QED
  BY <1>3, <1>10, <1>11

(* A cycle gives up the slot at the tail, which is ready.                  *)
LEMMA CycleSlots ==
  ASSUME TexInv, SlotInv, NEW portFull \in BOOLEAN, TexCycle(portFull)
  PROVE  SlotInv'
<1>1. /\ TexTypes /\ TokensInv /\ RobInv /\ rob_tail \in Slot
      /\ rob_num \in 0 .. RobEntries /\ RobEntries \in Nat
      /\ request_fifo \in Seq(Mf) /\ Len(request_fifo) <= RequestEntries
      /\ SlotsInv /\ ReadsInv
  BY TexAssumption DEF TexInv, RobInv, SlotInv
<1>2. UNCHANGED <<policy, lines, rob, extra_mf_fields, fetching>>
  BY DEF TexCycle, tagVars
<1>3. extra_mf_fields' \in [Mf -> ReadFields \cup {NoRead}] /\ CleanTags'
  BY <1>2 DEF SlotInv, CleanTags, CleanLine
<1>4. request_fifo' \in Seq(Mf) /\ Len(request_fifo') <= RequestEntries
  <2>1. CASE request_fifo' = request_fifo
    BY <1>1, <2>1
  <2>2. CASE request_fifo # <<>> /\ request_fifo' = Tail(request_fifo)
    <3>1. /\ Tail(request_fifo) \in Seq(Mf) /\ Len(request_fifo) \in Nat
          /\ Len(Tail(request_fifo)) = Len(request_fifo) - 1
      BY <1>1, <2>2
    <3> QED
      BY <1>1, <2>2, <3>1, TexAssumption
  <2> QED
    BY <2>1, <2>2 DEF TexCycle
<1>5. ASSUME UNCHANGED <<fragment_fifo, rob_tail, rob_num>>
      PROVE  SlotsInv' /\ ReadsInv'
  BY <1>1, <1>2, <1>5 DEF SlotsInv, ReadsInv, ReadHasSlot, SlotAt
<1>6. CASE Advanced
  <2>1. LET n == Len(fragment_fifo)
        IN  /\ n \in Nat \ {0} /\ Len(fragment_fifo') = n - 1
            /\ \A i \in 1 .. (n - 1) : fragment_fifo'[i] = fragment_fifo[i + 1]
            /\ Head(fragment_fifo) = fragment_fifo[1]
    BY <1>1, <1>6, AdvancedElements
  <2>2. CASE Head(fragment_fifo).miss
    <3>1. rob_num > 0 /\ rob[rob_tail].mf = fragment_fifo[1].mf
      BY <1>1, <1>6, <2>2, HeadSlot DEF Advanced
    <3>2. rob_tail' = RobNext(rob_tail) /\ rob_num' = rob_num - 1
      BY <1>6, <2>2 DEF Advanced
    <3>3. SlotAt(0) = rob_tail
      BY <1>1, SlotsDiffer DEF SlotAt
    <3>4. rob[rob_tail].ready
      BY <1>6, <2>2 DEF TexCycle, CanAdvance, Advanced
    <3>5. \A k \in 0 .. (rob_num' - 1) : /\ SlotAt(k)' = SlotAt(k + 1)
                                         /\ k + 1 \in 0 .. (rob_num - 1) /\ k + 1 # 0
      <4>1. \A k \in 0 .. (rob_num - 2) :
              /\ k + 1 \in 0 .. (rob_num - 1) /\ k + 1 # 0 /\ k + 1 > 0
              /\ k + 1 \in 0 .. RobEntries /\ (k + 1) - 1 = k
        BY <1>1
      <4>2. \A k \in 0 .. (rob_num - 2) : SlotFrom(RobNext(rob_tail), k) = SlotFrom(rob_tail, k + 1)
        <5> SUFFICES ASSUME NEW k \in 0 .. (rob_num - 2)
                     PROVE  SlotFrom(RobNext(rob_tail), k) = SlotFrom(rob_tail, k + 1)
          OBVIOUS
        <5>1. PICK j \in 0 .. RobEntries : j = k + 1 /\ j > 0 /\ j - 1 = k
          BY <4>1
        <5>2. SlotFrom(RobNext(rob_tail), j - 1) = SlotFrom(rob_tail, j)
          BY <1>1, <5>1, SlotsDiffer
        <5> QED
          BY <5>1, <5>2
      <4>3. 0 .. (rob_num' - 1) = 0 .. (rob_num - 2)
        BY <1>1, <3>2
      <4> QED
        BY <3>2, <4>1, <4>2, <4>3 DEF SlotAt
    <3>6. 0 \in 0 .. (rob_num - 1)
      BY <1>1, <3>1
    <3>7. SlotsInv'
      <4>1. ASSUME NEW k \in 0 .. (rob_num' - 1)
            PROVE  \E i \in 1 .. Len(fragment_fifo') :
                     fragment_fifo'[i].miss /\ fragment_fifo'[i].mf = rob[SlotAt(k + 1)].mf
        <5>1. PICK i \in 1 .. Len(fragment_fifo) :
                fragment_fifo[i].miss /\ fragment_fifo[i].mf = rob[SlotAt(k + 1)].mf
          BY <1>1, <3>5 DEF SlotsInv
        <5>2. rob[SlotAt(k + 1)].mf # rob[SlotAt(0)].mf
          BY <1>1, <3>5, <3>6 DEF SlotsInv
        <5>3. i # 1
          BY <3>1, <3>3, <5>1, <5>2
        <5>4. PICK j \in 1 .. Len(fragment_fifo') : j + 1 = i
          <6>1. i - 1 \in 1 .. (Len(fragment_fifo) - 1) /\ (i - 1) + 1 = i
            BY <2>1, <5>3
          <6> QED
            BY <2>1, <6>1
        <5> QED
          BY <2>1, <5>1, <5>4
      <4>2. \A k, l \in 0 .. (rob_num' - 1) :
              rob[SlotAt(k + 1)].mf = rob[SlotAt(l + 1)].mf => k + 1 = l + 1
        BY <1>1, <3>5 DEF SlotsInv
      <4>3. \A k, l \in 0 .. (rob_num' - 1) : k + 1 = l + 1 => k = l
        BY <1>1, <3>2
      <4> QED
        BY <1>2, <3>5, <4>1, <4>2, <4>3 DEF SlotsInv
    <3>8. ReadsInv'
      <4> SUFFICES ASSUME NEW m \in Mf, extra_mf_fields[m] # NoRead
                   PROVE  ReadHasSlot(m)'
        BY <1>2 DEF ReadsInv
      <4>1. ReadHasSlot(m)
        BY <1>1 DEF ReadsInv
      <4>2. PICK k \in 0 .. (rob_num - 1) : extra_mf_fields[m].rob_index = SlotAt(k)
        BY <4>1 DEF ReadHasSlot
      <4>3. k # 0
        BY <3>3, <3>4, <4>1, <4>2 DEF ReadHasSlot
      <4>4. PICK j \in 0 .. (rob_num' - 1) : j + 1 = k
        <5>1. k - 1 \in 0 .. (rob_num' - 1) /\ (k - 1) + 1 = k
          BY <1>1, <3>2, <4>3
        <5> QED
          BY <5>1
      <4>5. extra_mf_fields'[m].rob_index = SlotAt(j)'
        BY <1>2, <3>5, <4>2, <4>4
      <4> QED
        BY <1>2, <4>1, <4>4, <4>5 DEF ReadHasSlot
    <3> QED
      BY <1>3, <1>4, <3>7, <3>8 DEF SlotInv
  <2>3. CASE ~Head(fragment_fifo).miss
    <3>1. rob_tail' = rob_tail /\ rob_num' = rob_num
      BY <1>6, <2>3 DEF Advanced
    <3>2. ReadsInv'
      BY <1>1, <1>2, <3>1 DEF ReadsInv, ReadHasSlot, SlotAt
    <3>3. ASSUME NEW k \in 0 .. (rob_num - 1)
          PROVE  \E i \in 1 .. Len(fragment_fifo') :
                   fragment_fifo'[i].miss /\ fragment_fifo'[i].mf = rob[SlotAt(k)].mf
      <4>1. PICK i \in 1 .. Len(fragment_fifo) :
              fragment_fifo[i].miss /\ fragment_fifo[i].mf = rob[SlotAt(k)].mf
        BY <1>1 DEF SlotsInv
      <4>2. i # 1
        BY <2>1, <2>3, <4>1
      <4>3. PICK j \in 1 .. Len(fragment_fifo') : j + 1 = i
        <5>1. i - 1 \in 1 .. (Len(fragment_fifo) - 1) /\ (i - 1) + 1 = i
          BY <2>1, <4>2
        <5> QED
          BY <2>1, <5>1
      <4> QED
        BY <2>1, <4>1, <4>3
    <3>4. SlotsInv'
      BY <1>1, <1>2, <3>1, <3>3 DEF SlotsInv, SlotAt
    <3> QED
      BY <1>3, <1>4, <3>2, <3>4 DEF SlotInv
  <2> QED
    BY <2>2, <2>3
<1>7. CASE ~CanAdvance
  BY <1>3, <1>4, <1>5, <1>7 DEF TexCycle, SlotInv
<1>8. CanAdvance => Advanced
  BY DEF TexCycle, CanAdvance, Advanced, tagVars
<1> QED
  BY <1>6, <1>7, <1>8

(* An answer makes its own slot ready: no other read waits for that slot.  *)
LEMMA FillSlots ==
  ASSUME TexInv, SlotInv, NEW m \in Mf, TexFill(m)
  PROVE  SlotInv'
<1>1. /\ rob \in [Slot -> RobEntry] /\ SlotsInv /\ ReadsInv
      /\ extra_mf_fields \in [Mf -> ReadFields \cup {NoRead}]
      /\ extra_mf_fields[m] # NoRead
  BY DEF TexInv, RobInv, SlotInv, TexFill, InMemory
<1>2. UNCHANGED <<policy, lines, fragment_fifo, request_fifo, rob_tail, rob_num, fetching>>
  BY DEF TexFill, tagVars
<1>3. \A k : SlotAt(k)' = SlotAt(k)
  BY <1>2 DEF SlotAt
<1>4. CleanTags'
  BY <1>2 DEF SlotInv, CleanTags, CleanLine
<1>5. ReadHasSlot(m) /\ extra_mf_fields[m] \in ReadFields
  BY <1>1 DEF ReadsInv
<1>6. CASE extra_mf_fields[m].pending_read > 1
  <2>1. rob' = rob
        /\ extra_mf_fields' = [extra_mf_fields EXCEPT ![m].pending_read = @ - 1]
    BY <1>6 DEF TexFill
  <2>2. extra_mf_fields' = [extra_mf_fields EXCEPT ![m] =
                              [extra_mf_fields[m] EXCEPT !.pending_read = @ - 1]]
    BY <1>1, <2>1
  <2>3. PICK e : e = [extra_mf_fields[m] EXCEPT !.pending_read = @ - 1]
    OBVIOUS
  <2>4. e \in ReadFields /\ e.rob_index = extra_mf_fields[m].rob_index
    BY <1>5, <1>6, <2>3 DEF ReadFields
  <2>5. /\ extra_mf_fields' \in [Mf -> ReadFields \cup {NoRead}]
        /\ extra_mf_fields'[m] = e
        /\ \A x \in Mf \ {m} : extra_mf_fields'[x] = extra_mf_fields[x]
    BY <1>1, <2>2, <2>3, <2>4
  <2>6. ASSUME NEW x \in Mf, extra_mf_fields'[x] # NoRead PROVE ReadHasSlot(x)'
    <3>1. ReadHasSlot(x) /\ extra_mf_fields'[x].rob_index = extra_mf_fields[x].rob_index
      BY <1>1, <1>5, <2>4, <2>5, <2>6 DEF ReadsInv
    <3> QED
      BY <1>2, <1>3, <2>1, <3>1 DEF ReadHasSlot
  <2> QED
    BY <1>1, <1>2, <1>3, <1>4, <2>1, <2>5, <2>6 DEF SlotInv, SlotsInv, ReadsInv
<1>7. CASE ~(extra_mf_fields[m].pending_read > 1)
  <2>1. PICK j \in Slot : j = extra_mf_fields[m].rob_index
    BY <1>5 DEF ReadHasSlot
  <2>2. /\ rob' = [rob EXCEPT ![j].ready = TRUE]
        /\ extra_mf_fields' = [extra_mf_fields EXCEPT ![m] = NoRead]
    BY <1>7, <2>1 DEF TexFill, SlotOf
  <2>3. rob' = [rob EXCEPT ![j] = [rob[j] EXCEPT !.ready = TRUE]]
    BY <1>1, <2>2
  <2>4. \A k \in Slot : /\ rob'[k].mf = rob[k].mf
                        /\ k # j => rob'[k] = rob[k]
    BY <1>1, <2>1, <2>3 DEF RobEntry
  <2>5. /\ extra_mf_fields' \in [Mf -> ReadFields \cup {NoRead}]
        /\ extra_mf_fields'[m] = NoRead
        /\ \A x \in Mf \ {m} : extra_mf_fields'[x] = extra_mf_fields[x]
    BY <1>1, <2>2
  <2>6. \A k \in 0 .. (rob_num - 1) : SlotAt(k) \in Slot
    <3>1. \A k \in 0 .. (rob_num - 1) : k \in 0 .. RobEntries
      BY TexAssumption DEF TexInv, RobInv
    <3> QED
      BY <3>1, SlotsDiffer DEF TexInv, RobInv, SlotAt
  <2>7. SlotsInv'
    <3>1. \A k \in 0 .. (rob_num - 1) : rob'[SlotAt(k)].mf = rob[SlotAt(k)].mf
      BY <2>4, <2>6, Zenon
    <3>2. /\ \A k \in 0 .. (rob_num - 1) : \E i \in 1 .. Len(fragment_fifo) :
               fragment_fifo[i].miss /\ fragment_fifo[i].mf = rob'[SlotAt(k)].mf
          /\ \A k, l \in 0 .. (rob_num - 1) :
               rob'[SlotAt(k)].mf = rob'[SlotAt(l)].mf => k = l
      BY <1>1, <3>1 DEF SlotsInv
    <3> QED
      BY <1>2, <1>3, <3>2 DEF SlotsInv
  <2>8. ASSUME NEW x \in Mf, extra_mf_fields'[x] # NoRead PROVE ReadHasSlot(x)'
    <3>1. x # m /\ ReadHasSlot(x) /\ extra_mf_fields'[x] = extra_mf_fields[x]
      BY <1>1, <2>5, <2>8 DEF ReadsInv
    <3>2. extra_mf_fields[x].rob_index # j
      BY <1>5, <2>1, <3>1 DEF ReadHasSlot
    <3>3. rob'[extra_mf_fields[x].rob_index] = rob[extra_mf_fields[x].rob_index]
      <4>1. extra_mf_fields[x].rob_index \in Slot
        BY <3>1 DEF ReadHasSlot
      <4> QED
        BY <2>4, <3>2, <4>1, Zenon
    <3> QED
      BY <1>2, <1>3, <3>1, <3>3 DEF ReadHasSlot
  <2> QED
    BY <1>2, <1>4, <2>5, <2>7, <2>8 DEF SlotInv, ReadsInv
<1> QED
  BY <1>6, <1>7

(* The request next_access takes has left the fragment FIFO: it reads      *)
(* nothing any more.                                                       *)
LEMMA NextAccessSlots ==
  ASSUME TexInv, SlotInv, TexNextAccess
  PROVE  SlotInv'
<1>1. /\ SlotsInv /\ ReadsInv /\ TexTypes /\ TokensInv
      /\ fetching \in [Mf -> Blk \cup {NoBlock}] /\ result_fifo # <<>>
      /\ fetching' = [fetching EXCEPT ![Head(result_fifo)] = NoBlock]
  BY DEF TexInv, SlotInv, TexNextAccess, TexTypes
<1>2. UNCHANGED <<policy, lines, fragment_fifo, request_fifo, rob, rob_tail, rob_num,
                  extra_mf_fields>>
  BY DEF TexNextAccess, tagVars, robVars
<1>3. ASSUME NEW m \in Mf, extra_mf_fields[m] # NoRead PROVE fetching'[m] = fetching[m]
  <2>1. PICK k \in 0 .. (rob_num - 1) : rob[SlotAt(k)].mf = m
    BY <1>1, <1>3 DEF ReadsInv, ReadHasSlot
  <2>2. PICK i \in 1 .. Len(fragment_fifo) : fragment_fifo[i].mf = m
    BY <1>1, <2>1 DEF SlotsInv
  <2>3. m # Head(result_fifo)
    BY <1>1, <2>2, FragmentTokens
  <2> QED
    BY <1>1, <2>3
<1> QED
  BY <1>1, <1>2, <1>3
     DEF SlotInv, SlotsInv, ReadsInv, ReadHasSlot, SlotAt, CleanTags, CleanLine

(* What touches neither the reads nor the reorder buffer.                  *)
LEMMA OtherSlots ==
  ASSUME SlotInv, CleanTags',
         UNCHANGED <<fragment_fifo, request_fifo, rob, rob_tail, rob_num,
                     extra_mf_fields, fetching>>
  PROVE  SlotInv'
BY DEF SlotInv, SlotsInv, ReadsInv, ReadHasSlot, SlotAt

(* invalidate leaves clean lines.                                         *)
LEMMA InvalidateSlots ==
  ASSUME TexInv, SlotInv, TexInvalidate
  PROVE  SlotInv'
<1>1. /\ lines \in [Line -> CacheBlockT] /\ policy' = policy
      /\ lines' = [i \in Line |-> InvalidateLine(lines[i])]
  BY DEF TexInv, TexTypes, TexInvalidate, InvalidateTags
<1>2. ASSUME policy.type = "NORMAL", NEW i \in Line PROVE CleanLine(lines'[i])
  <2>1. CleanLine(lines[i]) /\ lines[i] \in CacheBlockT
    BY <1>1, <1>2 DEF SlotInv, CleanTags
  <2> QED
    BY <1>1, <2>1 DEF CleanLine, InvalidateLine, CacheBlockT
<1>3. CleanTags'
  BY <1>1, <1>2 DEF CleanTags
<1> QED
  BY <1>3, OtherSlots DEF TexInvalidate, robVars

(* The empty cache has no slot in use.                                     *)
LEMMA InitSlots == ASSUME TexInit PROVE SlotInv
<1>1. /\ lines = [i \in Line |-> InitBlock] /\ rob_num = 0 /\ request_fifo = <<>>
      /\ extra_mf_fields = [m \in Mf |-> NoRead]
  BY DEF TexInit, TagInit
<1>2. CleanLine(InitBlock)
  BY AddressAssumption DEF CleanLine, InitBlock
<1>3. CleanTags
  BY <1>1, <1>2 DEF CleanTags
<1>4. 0 .. (rob_num - 1) = {}
  BY <1>1
<1>5. SlotsInv /\ ReadsInv
  BY <1>1, <1>4 DEF SlotsInv, ReadsInv
<1>6. request_fifo \in Seq(Mf) /\ Len(request_fifo) <= RequestEntries
  BY <1>1, TexAssumption
<1> QED
  BY <1>1, <1>3, <1>5, <1>6 DEF SlotInv

(* Each step preserves SlotInv.                                            *)
LEMMA SlotStep ==
  ASSUME TexInv, SlotInv, [TexNext]_vars
  PROVE  SlotInv'
<1>1. ASSUME NEW m \in Mf, NEW b \in Blk, NEW s \in SectorsUsed, TexAccess(m, b, s)
      PROVE  SlotInv'
  BY <1>1, AccessSlots
<1>2. ASSUME NEW portFull \in BOOLEAN, TexCycle(portFull) PROVE SlotInv'
  BY <1>2, CycleSlots
<1>3. ASSUME NEW m \in Mf, TexFill(m) PROVE SlotInv'
  BY <1>3, FillSlots
<1>4. CASE TexNextAccess
  BY <1>4, NextAccessSlots
<1>5. CASE TexInvalidate
  BY <1>5, InvalidateSlots
<1>6. CASE TexStop \/ UNCHANGED vars
  <2>1. UNCHANGED <<policy, lines, fragment_fifo, request_fifo, rob, rob_tail, rob_num,
                    extra_mf_fields, fetching>>
    BY <1>6 DEF TexStop, vars, tagVars, robVars
  <2>2. CleanTags'
    BY <2>1 DEF SlotInv, CleanTags, CleanLine
  <2> QED
    BY <2>1, <2>2, OtherSlots
<1> QED
  BY <1>1, <1>2, <1>3, <1>4, <1>5, <1>6 DEF TexNext

(* With line tags no assert of access, fill or class fifo fails: no FIFO   *)
(* overflows, a probe says HIT or MISS, and an answer finds its own slot,  *)
(* not ready, of its own block.                                            *)
THEOREM LineTagsAssert == TexSpec => [](policy.type = "NORMAL" => TexAssertionsHold)
<1>1. TexInit => SlotInv
  BY InitSlots
<1>2. TexInv /\ SlotInv /\ [TexNext]_vars => SlotInv'
  BY SlotStep
<1>3. ASSUME TexInv, SlotInv, policy.type = "NORMAL" PROVE TexAssertionsHold
  <2>1. /\ Len(fragment_fifo) <= FragmentEntries /\ Len(request_fifo) <= RequestEntries
        /\ Len(result_fifo) <= ResultEntries /\ rob_num \in 0 .. RobEntries
    BY <1>3 DEF TexInv, TexTypes, RobInv, SlotInv
  <2>2. ASSUME NEW b \in Blk, NEW s \in SectorsUsed, NEW p \in Probe(b, s, FALSE)
        PROVE  TagsAllow(p)
    <3>1. p.st \in {"HIT", "MISS"} /\ p.idx \in Line
      BY <1>3, <2>2, CleanProbe DEF TexInv, SlotInv
    <3>2. CleanLine(lines[p.idx])
      BY <1>3, <3>1 DEF SlotInv, CleanTags
    <3> QED
      BY <3>1, <3>2 DEF TagsAllow, AccessAllowed, CleanLine
  <2>3. ASSUME NEW m \in Mf, InMemory(m)
        PROVE  /\ rob_num > 0
               /\ ~rob[extra_mf_fields[m].rob_index].ready
               /\ rob[extra_mf_fields[m].rob_index].blk = fetching[m]
    <3>1. ReadHasSlot(m)
      BY <1>3, <2>3 DEF SlotInv, ReadsInv, InMemory
    <3>2. rob_num > 0
      BY <1>3, <3>1 DEF ReadHasSlot, TexInv, RobInv
    <3> QED
      BY <3>1, <3>2 DEF ReadHasSlot
  <2> QED
    BY <2>1, <2>2, <2>3 DEF TexAssertionsHold
<1> QED
  BY <1>1, <1>2, <1>3, TexInvariance, PTL DEF TexSpec

=============================================================================
