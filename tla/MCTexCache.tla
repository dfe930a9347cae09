----------------------------- MODULE MCTexCache -----------------------------
(* Small instances of TexCache for TLC. *)
EXTENDS TexCache

T(type, mshr_type) ==
  [ type |-> type, alloc |-> "ON_MISS", write |-> "READ_ONLY",
    write_alloc |-> "NO_WRITE_ALLOCATE", mshr |-> mshr_type, defer |-> TRUE ]

LineTags   == { T("NORMAL", "TEX_FIFO"), T("NORMAL", "SECTOR_TEX_FIFO") }
=============================================================================
