---------------------------- MODULE ReadOnlyCache ----------------------------
(***************************************************************************)
(* read_only_cache::access: the constant and instruction caches.  A        *)
(* request is accepted as a hit or as a miss; anything the code answers    *)
(* with RESERVATION_FAIL leaves the cache as it was and is no step here.   *)
(***************************************************************************)
EXTENDS BaselineCache

ReadOnlyHit(m, r, p) ==
  /\ p.st = "HIT"
  /\ ~HitResponseQueueFull
  /\ lines' = [lines EXCEPT ![p.idx] = PinIfDeferred(@)]
  /\ is_used' = TRUE
  /\ RespondToHit(m, p.idx)
  /\ UNCHANGED <<policy, dirty, mshrVars, missVars, unsent, closed>>
  /\ Accept(m, r)

ReadOnlyMiss(m, r, p) ==
  LET t == TagAccess(p, r.blk, r.sec) IN
  /\ p.st \notin {"HIT", "RESERVATION_FAIL"}
  /\ ~MissQueueFull(0)
  /\ SendReadRequest(m, r, p.idx, <<>>, <<>>)
  /\ lines' = [lines EXCEPT ![p.idx] = PinIfDeferred(t.line)]
  /\ dirty' = t.dirty
  /\ is_used' = TRUE
  /\ UNCHANGED <<policy, unsent, closed>>
  /\ Accept(m, r)

ReadOnlyAccess(m, r) ==
  /\ policy.write = "READ_ONLY"
  /\ ~r.wr
  /\ FreeMf(m) /\ ~closed
  /\ \E p \in Probe(r.blk, r.sec, FALSE) :
        /\ AccessAllowed(p)
        /\ ReadOnlyHit(m, r, p) \/ ReadOnlyMiss(m, r, p)

=============================================================================
