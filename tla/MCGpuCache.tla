----------------------------- MODULE MCGpuCache -----------------------------
(* Small instances of GpuCache for TLC. *)
EXTENDS GpuCache, TLC

Symmetry == Permutations(Mf)

C(type, alloc, write, write_alloc, mshr_type, defer) ==
  [ type |-> type, alloc |-> alloc, write |-> write,
    write_alloc |-> write_alloc, mshr |-> mshr_type, defer |-> defer ]

(* Allocate on miss, hits deferred (the default) or not.  A line cache     *)
(* cannot fetch lazily: reading a partly written line is a sector miss.    *)
WriteBackPolicies ==
  { C("SECTOR", "ON_MISS", "WRITE_BACK", "LAZY_FETCH_ON_READ", "ASSOC", TRUE),
    C("SECTOR", "ON_MISS", "WRITE_BACK", "WRITE_ALLOCATE", "ASSOC", TRUE),
    C("NORMAL", "ON_MISS", "WRITE_BACK", "NO_WRITE_ALLOCATE", "SECTOR_ASSOC", TRUE),
    C("SECTOR", "ON_MISS", "WRITE_BACK", "WRITE_ALLOCATE", "ASSOC", FALSE),
    C("NORMAL", "ON_MISS", "READ_ONLY", "NO_WRITE_ALLOCATE", "ASSOC", TRUE) }

(* Sector caches of every policy the code accepts, and line caches of the  *)
(* policies that differ for them.                                          *)
AllPolicies ==
  { c \in ValidConfig :
      /\ c.type = "SECTOR"
      /\ c.write = "READ_ONLY" => c.write_alloc = "NO_WRITE_ALLOCATE"
      /\ c.alloc = "ON_FILL" => ~c.defer
      /\ c.mshr = "ASSOC" }
  \cup
  { C("NORMAL", "ON_MISS", "WRITE_BACK", "FETCH_ON_WRITE", "SECTOR_ASSOC", TRUE),
    C("NORMAL", "ON_MISS", "LOCAL_WB_GLOBAL_WT", "WRITE_ALLOCATE", "ASSOC", TRUE),
    C("NORMAL", "ON_FILL", "WRITE_EVICT", "NO_WRITE_ALLOCATE", "SECTOR_ASSOC", FALSE) }

(* One configuration for each kind of path a response can take.            *)
DrainPolicies ==
  { C("SECTOR", "ON_MISS", "WRITE_BACK", "LAZY_FETCH_ON_READ", "ASSOC", TRUE),
    C("SECTOR", "ON_MISS", "WRITE_EVICT", "WRITE_ALLOCATE", "ASSOC", TRUE),
    C("NORMAL", "ON_MISS", "WRITE_BACK", "FETCH_ON_WRITE", "SECTOR_ASSOC", TRUE),
    C("NORMAL", "ON_FILL", "WRITE_THROUGH", "NO_WRITE_ALLOCATE", "ASSOC", FALSE) }

(* Single configurations in which the code departs from what it says.      *)
FetchOnWritePolicy ==
  { C("SECTOR", "ON_MISS", "WRITE_BACK", "FETCH_ON_WRITE", "ASSOC", TRUE) }
WriteEvictPolicy ==
  { C("SECTOR", "ON_MISS", "WRITE_EVICT", "NO_WRITE_ALLOCATE", "ASSOC", TRUE) }
OnFillPolicy ==
  { C("SECTOR", "ON_FILL", "READ_ONLY", "NO_WRITE_ALLOCATE", "ASSOC", TRUE) }

R(b, s, wr, g, bytes) == [blk |-> b, sec |-> s, wr |-> wr, global |-> g, bytes |-> bytes]

(* Reads of whole atoms and writes of every byte mask.  Only block 0 is    *)
(* used in more than one sector.                                           *)
Atoms == {k \in Key : k[1] = 0 \/ \A s \in Sector : k[2] <= s}
Reads  == {R(k[1], k[2], FALSE, TRUE, Byte) : k \in Atoms}
Writes(global) ==
  {R(k[1], k[2], TRUE, global, w) : k \in Atoms, w \in (SUBSET Byte) \ {{}}}

(* Of the partial writes one per atom, of the local writes one in all: the *)
(* byte masks matter to NoLostWrite alone.                                 *)
FewWrites ==
  Reads \cup {w \in Writes(TRUE) : w.bytes \in {Byte, {1}}}
        \cup {w \in Writes(FALSE) : w.bytes = Byte /\ w.blk = 0}

=============================================================================
