------------------------------- MODULE MCGem5 -------------------------------
(* Instances of Gem5System for TLC. *)
EXTENDS Gem5System

R(cmd, bytes, addrs) == {[cmd |-> cmd, bytes |-> bytes, addr |-> a] : a \in addrs}
RW(A)   == R("ReadReq", {}, A) \cup R("WriteReq", {1}, A)
Line(A) == R("WriteReq", {1}, A) \cup R("WriteReq", {2}, A) \cup R("WriteReq", {1, 2}, A)
LLSC(A) == R("LoadLockedReq", {}, A) \cup R("StoreCondReq", {1}, A)
PF(A)   == R("SoftPFReq", {}, A) \cup R("SoftPFExReq", {}, A)
Both(S) == [c \in Caches |-> S]
Cfg(alloc, buffers, clean) ==
  [coherent |-> TRUE, writeAllocator |-> alloc, writeBuffers |-> buffers, writebackClean |-> clean]
Timing(req, cfg) == [req |-> req, atomic |-> FALSE, mostlyExcl |-> FALSE, cfg |-> cfg,
                     prefetch |-> {}]
Swap(A) == R("SwapReq", {1}, A)
All == RW({1, 2}) \cup R("WriteReq", {1, 2}, {1}) \cup LLSC({1})
       \cup Swap({1}) \cup R("CleanSharedReq", {}, {1}) \cup R("CleanInvalidReq", {}, {1})

Tight == Cfg(FALSE, 1, FALSE)   \* one writeback fills the write buffer
Loose == Cfg(FALSE, 2, TRUE)    \* a miss can meet the writeback of its own block

MCMenus ==
  {Timing(<<RW({1, 2}), R("WriteReq", {1}, {1})>>, cfg) : cfg \in {Tight, Loose}} \cup
  {Timing(Both(Line({1}) \cup R("ReadReq", {}, {1})), Tight),
   Timing(Both(LLSC({1}) \cup R("WriteReq", {1}, {1})), Tight),
   Timing(Both(PF({1}) \cup RW({1})), Tight),
   Timing(Both(R("LockedRMWReadReq", {}, {1}) \cup R("WriteReq", {1}, {1})), Tight),
   Timing(<<R("ReadReq", {}, {1}) \cup R("CleanSharedReq", {}, {1}),
            R("ReadReq", {}, {1})>>, Tight),
   Timing(<<R("WriteReq", {1}, {1}) \cup R("CleanInvalidReq", {}, {1}), {}>>, Tight),
   Timing(<<Line({1}) \cup R("WriteReq", {1}, {2}), R("ReadReq", {}, {1})>>,
          Cfg(TRUE, 1, FALSE))} \cup
  {Timing(<<RW({1, 2}) \cup LLSC({1}), {}>>, [Cfg(FALSE, 1, b) EXCEPT !.coherent = FALSE]) :
     b \in BOOLEAN} \cup
  {[Timing(Both(Swap({1}) \cup R("WriteReq", {1}, {1})), Tight) EXCEPT !.prefetch = {1}],
   [Timing(<<RW({1}), R("WriteReq", {1}, {1})>>, Tight) EXCEPT !.prefetch = {1, 2}]} \cup
  {[req |-> Both(All), prefetch |-> {}, atomic |-> TRUE, mostlyExcl |-> b, cfg |-> Cfg(FALSE, 1, b)] :
     b \in BOOLEAN}

\* One core cleans the block it reads and writes.
MCMaintenance == {Timing(<<RW({1}) \cup R("CleanSharedReq", {}, {1}), {}>>, Tight)}
=============================================================================
