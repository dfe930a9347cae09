------------------------------ MODULE SetIndex ------------------------------
(* The set index functions of deprecated/src/cache_config.cc, on block      *)
(* numbers (addresses without the bits of the line).  The multiplicative    *)
(* hash HASH_IPOLY is left out: its 32-bit products exceed TLC's integers.  *)
EXTENDS Integers, Bitwise

hash_addr(blk, nset, func) ==
  LET index == blk % nset
      high  == (blk \div nset) % nset
  IN  IF func = "XOR" THEN index ^^ high ELSE index
=============================================================================
