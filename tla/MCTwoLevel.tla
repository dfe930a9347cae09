----------------------------- MODULE MCTwoLevel -----------------------------
(* Small instances of SimpleTwoLevel for TLC. *)
EXTENDS SimpleTwoLevel, GpuSetIndex, GpuConfig, TLC

Symmetry == Permutations(Mf)

C(type, write, write_alloc, defer) ==
  [ type |-> type, alloc |-> "ON_MISS", write |-> write,
    write_alloc |-> write_alloc, mshr |-> "ASSOC", defer |-> defer ]

(* A read-only cache for both users, a write-back and a write-through      *)
(* cache for the caller.                                                   *)
MCPolicies ==
  { C("NORMAL", "READ_ONLY", "NO_WRITE_ALLOCATE", TRUE),
    C("SECTOR", "WRITE_BACK", "LAZY_FETCH_ON_READ", TRUE),
    C("NORMAL", "WRITE_BACK", "WRITE_ALLOCATE", FALSE),
    C("NORMAL", "WRITE_THROUGH", "NO_WRITE_ALLOCATE", TRUE) }

R(b, s, wr, bytes) ==
  [blk |-> b, sec |-> s, wr |-> wr, global |-> TRUE, bytes |-> bytes]

(* Reads of one byte and of two, so that hits take one cycle or two.       *)
MCRequests ==
  { R(0, 0, FALSE, {1}), R(0, 0, FALSE, {1, 2}), R(0, 0, TRUE, {1}),
    R(1, 0, FALSE, {1, 2}) }

(* Each stream uses a block of its own.                                    *)
MCStreamOf == [b \in Blk |-> b]

(* Block 0 is preloaded, block 1 is not.                                   *)
MCDram == [b \in {0} |-> [x \in Byte |-> 1]]

=============================================================================
