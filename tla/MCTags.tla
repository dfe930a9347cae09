------------------------------- MODULE MCTags -------------------------------
(* Instances of Gem5TagStore for TLC. *)
EXTENDS Gem5TagStore, SkewedAssociative

K(addrs) == {[addr |-> a, secure |-> FALSE] : a \in addrs}
Secure(addrs) == {[addr |-> a, secure |-> TRUE] : a \in addrs}
Store(kind, pol, sets, ways, offs, parts, keys, bound) ==
  [kind |-> kind, pol |-> pol, sets |-> sets, ways |-> ways, offs |-> offs,
   parts |-> parts, keys |-> keys, ops |-> bound, tracked |-> 0]

Timed   == {"LRU", "WeightedLRU", "MRU", "BIP"}
Untimed == {"FIFO", "LFU", "Random", "SecondChance", "BRRIP", "SHiP"}

MCConfigs ==
  {Store("setassoc", p, 1, 2, 1, {}, K({0, 1, 2}), 6) : p \in Timed} \cup
  {Store("setassoc", p, 1, 2, 1, {}, K({0, 1, 2}), 7) : p \in Untimed} \cup
  {Store("setassoc", "LRU", 2, 2, 1, {}, K({0, 2, 3}) \cup Secure({0}), 5),
   Store("setassoc", "TreePLRU", 1, 4, 1, {}, K(0..4), 6),
   Store("setassoc", "Dueling", 4, 2, 1, {}, K({0, 3, 7, 1, 5, 4}), 6),
   Store("setassoc", "LRU", 2, 2, 1, {"max"}, K(0..3), 4),
   Store("setassoc", "FIFO", 1, 3, 1, {"way", "max"}, K(0..3), 5),
   Store("sector", "LRU", 1, 2, 2, {}, K(0..4) \cup Secure({0}), 5),
   Store("compressed", "LRU", 1, 2, 2, {}, K(0..3), 5)} \cup
  {[Store("falru", "list", 1, 1, 1, {}, K(0..4), 6) EXCEPT !.tracked = n] : n \in {1, 2}}

MCPartIds  == {1, 2, 3}
MCCapacity == (1 :> 1) @@ (2 :> 2) @@ (3 :> -1)     \* partition 3 is not policed
MCWaysOf   == (1 :> {0}) @@ (2 :> {1, 2})
=============================================================================
