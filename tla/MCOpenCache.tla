---------------------------- MODULE MCOpenCache ----------------------------
(* Instances of OpenCache for TLC. *)
EXTENDS OpenCache, SetIndex, OpenConfig

Addr(blks, secs) == [blk : blks, sec : 0..secs - 1]
Req(type, whole, global) == [type |-> type, whole |-> whole, global |-> global]
Read   == Req("READ", FALSE, TRUE)
Writes == {Req("WRITE", w, FALSE) : w \in BOOLEAN}

Base == [type |-> "NORMAL", sets |-> 1, ways |-> 2, secs |-> 1, setOf |-> [b \in 0..2 |-> hash_addr(b, 1, "LINEAR")],
         repl |-> "LRU", write |-> "WRITE_BACK", alloc |-> "ON_FILL",
         walloc |-> "WRITE_ALLOCATE", mshr |-> "ASSOC", mshrs |-> 2, merge |-> 2,
         queue |-> 4, flushes |-> TRUE, ops |-> 4,
         addrs |-> Addr(0..2, 1), reqs |-> {Read} \cup Writes]

ReadOnly == [Base EXCEPT !.write = "READ_ONLY", !.walloc = "NO_WRITE_ALLOCATE",
                         !.reqs = {Read}, !.ops = 5]
OneMiss(c) == [c EXCEPT !.alloc = "ON_MISS", !.mshrs = 1, !.flushes = FALSE]

MCConfigs ==
  {[ReadOnly EXCEPT !.repl = r] : r \in {"LRU", "FIFO", "RANDOM"}} \cup
  {OneMiss(ReadOnly), [ReadOnly EXCEPT !.alloc = "ON_MISS"]} \cup
  {[ReadOnly EXCEPT !.sets = 2, !.addrs = Addr({0, 3, 1, 4}, 1),
                         !.setOf = [b \in 0..4 |-> hash_addr(b, 2, "XOR")]]} \cup
  {[Base EXCEPT !.walloc = w] :
     w \in {"NO_WRITE_ALLOCATE", "WRITE_ALLOCATE", "FETCH_ON_WRITE"}} \cup
  {[OneMiss(Base) EXCEPT !.walloc = w] : w \in {"NO_WRITE_ALLOCATE", "WRITE_ALLOCATE"}} \cup
  {[Base EXCEPT !.alloc = "ON_MISS", !.walloc = w] : w \in {"FETCH_ON_WRITE", "LAZY_FETCH_ON_READ"}} \cup
  {[Base EXCEPT !.write = "WRITE_THROUGH", !.walloc = "NO_WRITE_ALLOCATE",
                !.reqs = {Read, Req("WRITE", TRUE, FALSE), Req("WRITE_BACK", TRUE, FALSE)}],
   [Base EXCEPT !.write = "WRITE_EVICT", !.walloc = "FETCH_ON_WRITE",
                !.reqs = {Read, Req("WRITE", TRUE, TRUE)}],
   [Base EXCEPT !.write = "LOCAL_WB_GLOBAL_WT", !.walloc = "FETCH_ON_WRITE",
                !.reqs = {Read, Req("WRITE", TRUE, FALSE), Req("WRITE", TRUE, TRUE)}]} \cup
  {[Base EXCEPT !.type = "SECTOR", !.secs = 2, !.ways = 1, !.mshr = "SECTOR_ASSOC",
                !.addrs = Addr(0..1, 2), !.alloc = a, !.walloc = w] :
     a \in {"ON_FILL", "ON_MISS"}, w \in {"FETCH_ON_WRITE", "LAZY_FETCH_ON_READ"}}
=============================================================================
