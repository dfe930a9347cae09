-------------------------------- MODULE FaLru --------------------------------
(* The fully associative LRU store, FALRU of gem5_cache/src/mem/cache/tags/ *)
(* fa_lru.{hh,cc}: a doubly linked list of the blocks, a hash from keys to  *)
(* blocks and, per tracked smaller cache size, the last block that such a   *)
(* cache would still hold (CacheTracking).                                  *)
(*                                                                         *)
(* A store is one record s; blocks are 1..numBlocks and 0 is nullptr.       *)
(* Tracked cache i holds 2^(i+1) blocks (min_tracked_cache_size is two      *)
(* blocks), the store itself twice the largest of them; inCachesMask is the *)
(* set of tracked caches.  FALRU::tagsInit leaves the tag extractor of its  *)
(* blocks unset, which TaggedEntry::insert asserts: the model is of a store *)
(* whose owner has registered it.                                           *)
EXTENDS Integers, FiniteSets

nullptr == 0
Tracked(s)  == DOMAIN s.boundaries
FaBlocks(s) == DOMAIN s.blk

NoFaBlk == [valid |-> FALSE, addr |-> -1, secure |-> FALSE]

\* CacheTracking::init: the block at the end of each tracked cache, in the
\* order of the list, and the caches each block is in.
trackingInit(numBlocks, tracked) ==
  [mask       |-> [b \in 1..numBlocks |-> {i \in tracked : b <= 2^(i + 1)}],
   boundaries |-> [i \in tracked |-> 2^(i + 1)]]

\* tagsInit: the list in the order of the blocks.
faInit(c) ==
  LET numBlocks == 2^(c.tracked + 1)
      tracking  == trackingInit(numBlocks, 0..c.tracked - 1)
  IN  [c     |-> c,
       blk   |-> [b \in 1..numBlocks |-> NoFaBlk],
       prev  |-> [b \in 1..numBlocks |-> b - 1],
       next  |-> [b \in 1..numBlocks |-> IF b = numBlocks THEN nullptr ELSE b + 1],
       head  |-> 1, tail |-> numBlocks,
       mask  |-> tracking.mask, boundaries |-> tracking.boundaries,
       tagHash |-> <<>>, inUse |-> 0, bad |-> FALSE]

(***************************************************************************)
(* CacheTracking: the boundaries move by one block in every tracked cache   *)
(* that the moved block enters or leaves.                                   *)
(***************************************************************************)
\* Faulty variant: a boundary that is the moved block itself moves with it.
moveBlockToHeadWithBoundary(s, b) ==
  LET shift == Tracked(s) \ s.mask[b] IN
  [s EXCEPT !.boundaries = [i \in Tracked(s) |-> IF i \in shift THEN s.prev[@[i]] ELSE @[i]],
            !.mask = [x \in FaBlocks(s) |->
              IF x = b THEN Tracked(s)
              ELSE @[x] \ {i \in shift : s.boundaries[i] = x}]]

moveBlockToHead(s, b) ==
  LET shift == Tracked(s) \ s.mask[b] IN
  [s EXCEPT !.boundaries = [i \in Tracked(s) |->
              IF i \in shift \/ @[i] = b THEN s.prev[@[i]] ELSE @[i]],
            !.mask = [x \in FaBlocks(s) |->
              IF x = b THEN Tracked(s)
              ELSE @[x] \ {i \in shift : s.boundaries[i] = x}]]

moveBlockToTail(s, b) ==
  LET n(i)  == s.next[s.boundaries[i]]
      to(i) == IF n(i) = b THEN s.next[b] ELSE n(i)
  IN  [s EXCEPT !.boundaries = [i \in Tracked(s) |-> IF i \in s.mask[b] THEN to(i) ELSE @[i]],
                !.mask = [x \in FaBlocks(s) |->
                  IF x = b THEN {} ELSE @[x] \cup {i \in s.mask[b] : to(i) = x}]]

(***************************************************************************)
(* The list                                                                 *)
(***************************************************************************)
\* Take b out: its neighbours meet.
unlink(s, b) ==
  LET p == s.prev[b]  n == s.next[b] IN
  [s EXCEPT !.head = IF b = s.head THEN n ELSE @,
            !.tail = IF b = s.tail THEN p ELSE @,
            !.next = [x \in FaBlocks(s) |-> IF x = p THEN n ELSE @[x]],
            !.prev = [x \in FaBlocks(s) |-> IF x = n THEN p ELSE @[x]],
            !.bad  = @ \/ (b = s.tail /\ n # nullptr) \/ (b = s.head /\ p # nullptr)]

moveToHead(s, b) ==
  IF b = s.head THEN s
  ELSE LET u == unlink(moveBlockToHead(s, b), b) IN
       [u EXCEPT !.next[b] = u.head, !.prev[b] = nullptr, !.prev[u.head] = b, !.head = b]

moveToTail(s, b) ==
  IF b = s.tail THEN s
  ELSE LET u == unlink(moveBlockToTail(s, b), b) IN
       [u EXCEPT !.prev[b] = u.tail, !.next[b] = nullptr, !.next[u.tail] = b, !.tail = b]

(***************************************************************************)
(* The operations of BaseTags.                                              *)
(***************************************************************************)
keyOf(s, b) == [addr |-> s.blk[b].addr, secure |-> s.blk[b].secure]

faFindBlock(s, key) == IF key \in DOMAIN s.tagHash THEN s.tagHash[key] ELSE nullptr

\* Faulty variant: the key stays in the hash.
faInvalidateKeepsKey(s, b) ==
  LET s1 == [s EXCEPT !.blk[b] = NoFaBlk, !.inUse = @ - 1] IN moveToTail(s1, b)

faInvalidate(s, b) ==
  LET s1 == [s EXCEPT !.tagHash = [k \in DOMAIN @ \ {keyOf(s, b)} |-> @[k]],
                      !.bad = @ \/ keyOf(s, b) \notin DOMAIN s.tagHash \/ ~s.blk[b].valid,
                      !.blk[b] = NoFaBlk, !.inUse = @ - 1]
  IN  moveToTail(s1, b)

faAccessBlock(s, b) == IF b # nullptr /\ s.blk[b].valid THEN moveToHead(s, b) ELSE s

faInsertBlock(s, b, key) ==
  LET s1 == moveToHead([s EXCEPT !.blk[b] = [valid |-> TRUE, addr |-> key.addr,
                                             secure |-> key.secure],
                                 !.bad = @ \/ s.mask[b] # {} \/ s.blk[b].valid,
                                 !.inUse = @ + 1], b)
  IN  [s1 EXCEPT !.tagHash = [k \in DOMAIN @ \cup {key} |-> IF k = key THEN b ELSE @[k]]]

\* The victim is the tail; a valid one is evicted first.
faAllocateBlock(s, key) ==
  LET v == s.tail IN
  faInsertBlock(IF s.blk[v].valid THEN faInvalidate(s, v) ELSE s, v, key)
=============================================================================
