---------------------------- MODULE GpuSetIndex ----------------------------
(***************************************************************************)
(* cache_config::hash_function: the set a block goes to, for block numbers *)
(* of 128-byte lines.  HASH_IPOLY is the function of hashing.cc in the     *)
(* original sources; gpgpu_stubs.h replaces it by another one, a           *)
(* multiplicative hash of the higher bits that does not look at the index  *)
(* at all and is not modelled.                                             *)
(***************************************************************************)
EXTENDS Naturals, FiniteSets, FiniteSetsExt

Bit(x, i) == (x \div 2^i) % 2

(* The xor of some bits of x, and a number from its bits.                  *)
XorOf(x, taps) == Cardinality({i \in taps : Bit(x, i) = 1}) % 2
FromBits(n, bit(_)) == MapThenSumSet(LAMBDA i : bit(i) * 2^i, 0 .. n - 1)
Xor(n, x, y) == FromBits(n, LAMBDA i : (Bit(x, i) + Bit(y, i)) % 2)

Log2(nset) == CHOOSE n \in 0 .. 16 : 2^n = nset

(* Bits 13, 14, 15, 17 and 19 of the address are bits 6, 7, 8, 10 and 12   *)
(* of the block; a cache of 64 sets takes bit 12 as well.                  *)
fermi_hash(blk, nset) ==
  LET upper == <<6, 7, 8, 10, 12>>
      low   == FromBits(5, LAMBDA i : (Bit(blk, i) + Bit(blk, upper[i + 1])) % 2)
  IN  low + (IF nset = 64 THEN 32 * Bit(blk, 5) ELSE 0)

bitwise_hash_function(higher_bits, index, bank_set_num) ==
  Xor(Log2(bank_set_num), index, higher_bits % bank_set_num)

(* The taps of IPOLY(5), IPOLY(37) and IPOLY(67).                          *)
ipoly_taps(bank_set_num) ==
  CASE bank_set_num = 16 ->
         << {11, 10, 9, 8, 6, 4, 3, 0}, {12, 8, 7, 6, 5, 3, 1, 0},
            {9, 8, 7, 6, 4, 2, 1}, {10, 9, 8, 7, 5, 3, 2} >>
    [] bank_set_num = 32 ->
         << {13, 12, 11, 10, 9, 6, 5, 3, 0}, {14, 13, 12, 11, 10, 7, 6, 4, 1},
            {14, 10, 9, 8, 7, 6, 3, 2, 0}, {11, 10, 9, 8, 7, 4, 3, 1},
            {12, 11, 10, 9, 8, 5, 4, 2} >>
    [] bank_set_num = 64 ->
         << {18, 17, 16, 15, 12, 10, 6, 5, 0}, {15, 13, 12, 11, 10, 7, 5, 1, 0},
            {16, 14, 13, 12, 11, 8, 6, 2, 1}, {17, 15, 14, 13, 12, 9, 7, 3, 2},
            {18, 16, 15, 14, 13, 10, 8, 4, 3}, {17, 16, 15, 14, 11, 9, 5, 4} >>

ipoly_hash_function(higher_bits, index, bank_set_num) ==
  LET taps == ipoly_taps(bank_set_num)
  IN  FromBits(Log2(bank_set_num),
               LAMBDA i : (XorOf(higher_bits, taps[i + 1]) + Bit(index, i)) % 2)

(* CUSTOM has no implementation: every block goes to set 0.                *)
hash_function(blk, nset, func) ==
  LET higher_bits == blk \div nset
      index       == blk % nset
  IN  CASE func = "FERMI_HASH"     -> fermi_hash(blk, nset)
        [] func = "BITWISE_XORING" -> bitwise_hash_function(higher_bits, index, nset)
        [] func = "HASH_IPOLY"     -> ipoly_hash_function(higher_bits, index, nset)
        [] func = "CUSTOM"         -> 0
        [] func = "LINEAR"         -> index

-----------------------------------------------------------------------------
(* The sets that nset blocks at a distance of 2^k go to.                   *)
StrideSets(nset, func, k) == {hash_function(i * 2^k, nset, func) : i \in 0 .. nset - 1}

(* The largest k for which the function uses all the bits such blocks      *)
(* differ in.                                                              *)
MaxStride(nset, func) ==
  CASE func = "HASH_IPOLY" -> (CASE nset = 16 -> 13 [] nset = 32 -> 15 [] nset = 64 -> 19)
    [] func = "BITWISE_XORING" -> Log2(nset)
    [] OTHER -> 0

(* "IPOLY hashing guarantees conflict-free for all 2^n strides": up to the *)
(* highest tap of the equations, nset blocks at a power-of-two distance go *)
(* to nset different sets.  The other functions promise it for fewer       *)
(* distances.                                                              *)
ASSUME StridesSpread ==
  \A nset \in {16, 32, 64} :
    \A func \in {"LINEAR", "BITWISE_XORING", "HASH_IPOLY"} \cup
                (IF nset = 16 THEN {} ELSE {"FERMI_HASH"}) :
      \A k \in 0 .. MaxStride(nset, func) : StrideSets(nset, func, k) = 0 .. nset - 1

=============================================================================
