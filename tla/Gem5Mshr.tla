------------------------------ MODULE Gem5Mshr ------------------------------
(* The miss status holding register of the gem5 cache, MSHR in              *)
(* gem5_cache/src/mem/cache/mshr.{hh,cc}, as records and operators on them. *)
(*                                                                         *)
(* A packet is [cmd, bytes, id, src]: the command, the bytes of the block a *)
(* write covers, the request's number (0 for a snoop) and the cache it      *)
(* comes from.  An MSHR is one record per missing block.  The requesters    *)
(* are cores, whose packets carry no MSHR in their sender state, so         *)
(* downstreamPending and markedPending stay false and are left out; every   *)
(* target allocates on a fill (a mostly inclusive cache), so allocOnFill is *)
(* left out too.                                                            *)
EXTENDS Naturals, Sequences, SequencesExt

CONSTANT Bytes          \* the bytes of a block: the bitmap of a whole-line write

(* Attributes of the commands, MemCmd of gem5's packet.hh, as cache.cc and  *)
(* mshr.cc use them.                                                        *)
Invalidating == {"ReadExReq", "UpgradeReq", "SCUpgradeReq", "SCUpgradeFailReq",
                 "InvalidateReq", "CleanInvalidReq",
                 "ReadRespWithInvalidate", "InvalidateResp", "CleanInvalidResp"}
Writes == {"WriteReq", "WriteLineReq", "StoreCondReq", "StoreCondFailReq",
           "LockedRMWWriteReq", "SwapReq", "CondSwapReq"}
Reads  == {"ReadReq", "SwapReq", "CondSwapReq", "HardPFReq", "LoadLockedReq", "SoftPFReq", "SoftPFExReq", "LockedRMWReadReq",
           "ReadSharedReq", "ReadExReq", "SCUpgradeFailReq",
           "ReadResp", "ReadExResp", "UpgradeFailResp", "ReadRespWithInvalidate"}
NeedsWritable == Writes \cup {"SoftPFExReq", "LockedRMWReadReq", "ReadExReq", "UpgradeReq",
                              "SCUpgradeReq", "SCUpgradeFailReq", "InvalidateReq"}
Llsc  == {"LoadLockedReq", "StoreCondReq", "StoreCondFailReq",
          "SCUpgradeReq", "SCUpgradeFailReq"}
NoMerge == Llsc \cup {"SwapReq", "CondSwapReq", "LockedRMWWriteReq"}
Maintenance == {"CleanSharedReq", "CleanInvalidReq"}
Clean == Maintenance \cup {"CleanSharedResp", "CleanInvalidResp"}

(***************************************************************************)
(* TargetList: the targets and the flags summarising them.                 *)
(***************************************************************************)
resetFlags(ts) == [ts |-> ts, needsWritable |-> FALSE, hasUpgrade |-> FALSE,
                   canMergeWrites |-> TRUE, written |-> {}]

isReset(l) == ~l.needsWritable /\ ~l.hasUpgrade /\ l.canMergeWrites

isWholeLineWrite(l) == l.written = Bytes

\* A list that can still merge takes the bytes of the write; a read, or a
\* write with special flags, ends the merging.
updateWriteFlags(l, pkt, first) ==
  IF isWholeLineWrite(l) \/ ~l.canMergeWrites THEN l
  ELSE IF pkt.cmd \notin Writes THEN [l EXCEPT !.canMergeWrites = FALSE]
  ELSE [l EXCEPT !.written = IF first \/ pkt.cmd \notin NoMerge
                             THEN @ \cup pkt.bytes ELSE @,
                 !.canMergeWrites = pkt.cmd \notin NoMerge]

updateFlags(l, t, first) ==
  IF t.source = "FromSnoop" THEN l
  ELSE updateWriteFlags(
         [l EXCEPT !.needsWritable = @ \/ t.pkt.cmd \in NeedsWritable,
                   !.hasUpgrade = @ \/ t.pkt.cmd \in {"UpgradeReq", "SCUpgradeReq",
                                                      "StoreCondReq"}],
         t.pkt, first)

populateFlags(ts) ==
  FoldLeft(LAMBDA l, t : updateFlags(l, t, FALSE), resetFlags(ts), ts)

addTarget(l, t) ==
  LET f == updateFlags(l, t, l.ts = <<>>) IN [f EXCEPT !.ts = Append(@, t)]

\* A store conditional behind an invalidation can only fail.
replaceUpgrade(pkt) ==
  IF pkt.cmd = "StoreCondReq" THEN [pkt EXCEPT !.cmd = "StoreCondFailReq"] ELSE pkt

replaceUpgrades(l) ==
  IF ~l.hasUpgrade THEN l
  ELSE [l EXCEPT !.hasUpgrade = FALSE,
                 !.ts = [i \in DOMAIN @ |-> [@[i] EXCEPT !.pkt = replaceUpgrade(@)]]]

(***************************************************************************)
(* MSHR: one missing block.                                                *)
(***************************************************************************)
Target(pkt, order, source) == [pkt |-> pkt, order |-> order, source |-> source]

allocateMSHR(addr, pkt, order) ==
  [addr |-> addr, order |-> order, inService |-> FALSE,
   pendingModified |-> FALSE, postInvalidate |-> FALSE, postDowngrade |-> FALSE,
   wasWholeLineWrite |-> FALSE, isForward |-> FALSE,
   targets |-> addTarget(resetFlags(<<>>),
                 Target(pkt, order, IF pkt.cmd = "HardPFReq" THEN "FromPrefetcher" ELSE "FromCPU")),
   deferred |-> resetFlags(<<>>)]

getTarget(m) == m.targets.ts[1]

getNumTargets(m) == Len(m.targets.ts) + Len(m.deferred.ts)

isCleaning(m) == getTarget(m).pkt.cmd \in Clean

markMSHRInService(m, pendingModifiedResp, forward) ==
  [m EXCEPT !.inService = TRUE, !.isForward = forward,
            !.pendingModified = m.targets.needsWritable \/ pendingModifiedResp,
            !.postInvalidate = FALSE, !.postDowngrade = FALSE,
            !.wasWholeLineWrite = isWholeLineWrite(m.targets)]

\* A new target joins the request in service or waits for the next one.
allocateTarget(m, pkt, order) ==
  IF \/ pkt.cmd \in Maintenance \/ getTarget(m).pkt.cmd \in Maintenance
     \/ m.deferred.ts # <<>>
     \/ /\ m.inService
        /\ \/ m.postInvalidate
           \/ /\ pkt.cmd \in NeedsWritable
              /\ ~m.pendingModified \/ m.postDowngrade \/ m.isForward
  THEN [m EXCEPT !.deferred =
          addTarget(@, Target(IF m.inService /\ m.postInvalidate
                              THEN replaceUpgrade(pkt) ELSE pkt, order, "FromCPU"))]
  ELSE [m EXCEPT !.targets = addTarget(@, Target(pkt, order, "FromCPU"))]

\* What a snooped request does to the MSHR of its block: the new MSHR, whether
\* the snoop ends here (the cache must not look at its block), and the flags it
\* sets on the snooped packet.
mshrHandleSnoop(m, pkt, order) ==
  LET inv == pkt.cmd \in NeedsWritable \/ pkt.cmd = "CleanInvalidReq"
      res(mm, d, r, s, sat) == [mshr |-> mm, deferred |-> d, responding |-> r,
                                sharers |-> s, satisfied |-> sat]
  IN
  IF ~m.inService THEN
    res(IF inv THEN [m EXCEPT !.targets = replaceUpgrades(@),
                              !.deferred = replaceUpgrades(@)] ELSE m,
        FALSE, FALSE, FALSE, FALSE)
  ELSE
  LET m1 == IF inv THEN [m EXCEPT !.deferred = replaceUpgrades(@)] ELSE m IN
  IF m.postInvalidate \/ getTarget(m).pkt.cmd = "CleanInvalidReq"
  THEN res(m1, TRUE, FALSE, FALSE, FALSE)
  ELSE
  LET respond == m.pendingModified /\ pkt.cmd \notin Clean
      save    == m.pendingModified \/ pkt.cmd \in Invalidating
      down    == pkt.cmd \notin NeedsWritable
      m2 == IF ~save THEN m1
            ELSE [m1 EXCEPT !.targets = addTarget(@, Target(pkt, order, "FromSnoop")),
                            !.postInvalidate = @ \/ pkt.cmd \in NeedsWritable \cup Invalidating]
  IN res([m2 EXCEPT !.postDowngrade = @ \/ down], respond, respond, down,
         save /\ ~respond /\ m.pendingModified /\ pkt.cmd \in Clean)

NumBefore(ts, cmds) ==   \* the number of targets before the first of cmds
  CHOOSE n \in 0..Len(ts) : /\ \A i \in 1..n : ts[i].pkt.cmd \notin cmds
                            /\ n = Len(ts) \/ ts[n+1].pkt.cmd \in cmds

\* The locked read whose write has not come yet stays at the head.
hasLockedRMWReadTarget(m) ==
  m.targets.ts # <<>> /\ getTarget(m).pkt.cmd = "LockedRMWReadReq"

\* The targets a response serves, and the MSHR left with the others: after an
\* invalidating response only the first target and the snoops are served; a
\* locked read is served but stays, and nothing behind it is served.
extractServiceableTargets(m, resp) ==
  LET ts == m.targets.ts
      fresh(t) == t.source = "FromCPU"
      lock == NumBefore(ts, {"LockedRMWReadReq"}) + 1
      left(ready, rest) == [ready |-> ready, mshr |-> [m EXCEPT !.targets = populateFlags(rest)]]
  IN IF resp = "ReadRespWithInvalidate"
     THEN IF lock = 1 THEN left(<<ts[1]>>, ts)
          ELSE left(<<ts[1]>> \o SelectSeq(Tail(ts), LAMBDA t : ~fresh(t)),
                    SelectSeq(Tail(ts), fresh))
     ELSE IF lock > Len(ts) THEN left(ts, <<>>)
     ELSE left(SubSeq(ts, 1, lock), SubSeq(ts, lock, Len(ts)))

\* After a response the deferred targets before the next maintenance request
\* become the targets of a new request.
promoteDeferredTargets(m) ==
  LET d  == m.deferred.ts
      n  == NumBefore(d, Maintenance)
      k  == IF n > 0 \/ d = <<>> THEN n ELSE IF m.targets.ts = <<>> THEN 1 ELSE 0
      ts == m.targets.ts \o SubSeq(d, 1, k)
  IN [m EXCEPT !.targets = populateFlags(ts), !.order = ts[1].order,
               !.deferred = populateFlags(SubSeq(d, k + 1, Len(d)))]

promoteIf(m, stops) ==   \* stops: the commands for which pred is false
  LET d == m.deferred.ts
      n == NumBefore(d, stops)
  IN [m EXCEPT !.targets.ts = @ \o SubSeq(d, 1, n),
               !.deferred = populateFlags(SubSeq(d, n + 1, Len(d)))]

promoteReadable(m) ==
  IF m.deferred.ts = <<>> \/ m.postInvalidate THEN m
  ELSE promoteIf(m, NeedsWritable \cup {"CleanInvalidReq"})

promoteWritable(m) ==
  IF \/ m.deferred.ts = <<>> \/ ~m.deferred.needsWritable
     \/ m.postInvalidate \/ m.postDowngrade
     \/ m.deferred.ts[1].pkt.cmd = "CleanInvalidReq"
  THEN m
  ELSE promoteIf([m EXCEPT !.targets.needsWritable = TRUE], {"CleanInvalidReq"})
=============================================================================
