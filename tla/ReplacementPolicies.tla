------------------------ MODULE ReplacementPolicies ------------------------
(* The replacement policies of gem5_cache/src/mem/cache/                    *)
(* replacement_policies/, as operators on one record per policy object.     *)
(*                                                                         *)
(* A policy keeps its data in the entries (ReplacementData); the record     *)
(* gathers them: d maps an entry <<set, way>> to                            *)
(*   tick     lastTouchTick (LRU, MRU, BIP) or tickInserted (FIFO)          *)
(*   n        refCount (LFU)                                                *)
(*   occ      last_occ_ptr (WeightedLRU): 0, for no tag store calls the     *)
(*            touch that sets it                                            *)
(*   valid    the flag of Random and BRRIP                                  *)
(*   chance   hasSecondChance                                               *)
(*   rrpv     the re-reference prediction of BRRIP and SHiP                 *)
(*   sig, out the signature and the outcome of SHiP                         *)
(* and ticks is FIFO's timeTicks, shct SHiP's history counters, tree the    *)
(* PLRU tree of each set.  What the code draws at random is a parameter.    *)
EXTENDS Integers, Sequences, FiniteSets

CONSTANTS RrpvBits,        \* num_bits of BRRIP and of the counters of SHiP
          ShctSize,        \* shct_size
          InsertThreshold, \* insertion_threshold of SHiP, in percent
          HitPriority,     \* hit_priority of BRRIP and SHiP
          SelectorBits     \* num_bits of the dueling monitor

ASSUME PolicyAssumption ==
  /\ {RrpvBits, ShctSize, SelectorBits} \subseteq Nat \ {0}
  /\ InsertThreshold \in 0..100
  /\ HitPriority \in BOOLEAN

\* The policies but for the one that lets two of them duel.
PlainPolicies == {"LRU", "WeightedLRU", "BIP", "MRU", "FIFO", "LFU", "Random", "SecondChance",
                  "BRRIP", "SHiP", "TreePLRU"}

(***************************************************************************)
(* GenericSatCounter                                                        *)
(***************************************************************************)
maxVal(bits) == 2^bits - 1
inc(c, bits) == IF c < maxVal(bits) THEN c + 1 ELSE c
dec(c)       == IF c > 0 THEN c - 1 ELSE c
plus(c, v, bits) == IF maxVal(bits) - c >= v THEN c + v ELSE maxVal(bits)

(***************************************************************************)
(* TreePLRU: nodes 0..leaves-2 of a heap, the leaves behind them.           *)
(***************************************************************************)
parentIndex(i) == (i - 1) \div 2
isRightSubtree(i) == i % 2 = 0

\* The nodes above a leaf, each with the side on which the leaf lies.
PathTo(leaves, way) ==
  LET up[i \in 0..(2 * leaves - 2)] ==
        IF i = 0 THEN {} ELSE {<<parentIndex(i), isRightSubtree(i)>>} \cup up[parentIndex(i)]
  IN  up[way + leaves - 1]

\* Every node of the path points to the leaf (towards) or away from it.
pointPath(tree, leaves, way, towards) ==
  [i \in DOMAIN tree |->
     LET on == {p \in PathTo(leaves, way) : p[1] = i} IN
     IF on = {} THEN tree[i]
     ELSE LET right == (CHOOSE p \in on : TRUE)[2] IN IF towards THEN right ELSE ~right]

treeVictim(tree, leaves) ==
  LET down[i \in 0..(2 * leaves - 2)] ==
        IF i >= leaves - 1 THEN i
        ELSE down[IF tree[i] THEN 2 * i + 2 ELSE 2 * i + 1]
  IN  down[0] - (leaves - 1)

(***************************************************************************)
(* instantiateEntry                                                         *)
(***************************************************************************)
instantiateEntry ==
  [tick |-> 0, n |-> 0, occ |-> 0, valid |-> FALSE, chance |-> FALSE, rrpv |-> 0, sig |-> 0,
   out |-> FALSE]

policyInit(pol, sets, ways) ==
  [pol |-> pol, ways |-> ways,
   d |-> [e \in (0..sets - 1) \X (0..ways - 1) |-> instantiateEntry],
   ticks |-> 0,
   shct |-> [s \in 0..ShctSize - 1 |-> 0],
   tree |-> [s \in 0..sets - 1 |-> [i \in 0..ways - 2 |-> FALSE]]]

(***************************************************************************)
(* invalidate, touch and reset of an entry.  now is curTick(); sig is the   *)
(* signature of the packet (SHiPMem: the address modulo the table); rnd is  *)
(* the outcome of the draw against btp.                                     *)
(***************************************************************************)
SetTick(R, e, t) == [R EXCEPT !.d[e].tick = t]

lruInvalidate(R, e)  == SetTick(R, e, 0)
lruTouch(R, e, now)  == SetTick(R, e, now)
lruReset(R, e, now)  == SetTick(R, e, now)

\* BIP is LRU but for the insertions that the draw puts at the LRU end.
bipReset(R, e, now, rnd) == SetTick(R, e, IF rnd THEN now ELSE 1)

mruInvalidate(R, e)  == SetTick(R, e, 0)
mruTouch(R, e, now)  == SetTick(R, e, now)
mruReset(R, e, now)  == SetTick(R, e, now)

fifoInvalidate(R, e) == SetTick(R, e, 0)
fifoTouch(R)         == R
fifoReset(R, e)      == SetTick([R EXCEPT !.ticks = @ + 1], e, R.ticks + 1)

lfuInvalidate(R, e)  == [R EXCEPT !.d[e].n = 0]
lfuTouch(R, e)       == [R EXCEPT !.d[e].n = @ + 1]
lfuReset(R, e)       == [R EXCEPT !.d[e].n = 1]

randomInvalidate(R, e) == [R EXCEPT !.d[e].valid = FALSE]
randomReset(R, e)      == [R EXCEPT !.d[e].valid = TRUE]

secondChanceInvalidate(R, e) == [fifoInvalidate(R, e) EXCEPT !.d[e].chance = FALSE]
secondChanceTouch(R, e)      == [fifoTouch(R) EXCEPT !.d[e].chance = TRUE]
secondChanceReset(R, e)      == [fifoReset(R, e) EXCEPT !.d[e].chance = FALSE]

\* The re-reference prediction is lowered by a hit and by a lucky insertion.
brripInvalidate(R, e) == [R EXCEPT !.d[e].valid = FALSE]
brripTouch(R, e) == [R EXCEPT !.d[e].rrpv = IF HitPriority THEN 0 ELSE dec(@)]
brripReset(R, e, rnd) ==
  [R EXCEPT !.d[e].rrpv = IF rnd THEN dec(maxVal(RrpvBits)) ELSE maxVal(RrpvBits),
            !.d[e].valid = TRUE]

shipInvalidate(R, e) ==
  brripInvalidate([R EXCEPT !.shct[R.d[e].sig] = IF R.d[e].out THEN dec(@) ELSE @], e)
shipTouch(R, e, sig) ==
  brripTouch([R EXCEPT !.shct[sig] = inc(@, RrpvBits), !.d[e].out = TRUE], e)
shipReset(R, e, sig, rnd) ==
  LET R1 == brripReset([R EXCEPT !.d[e].sig = sig, !.d[e].out = FALSE], e, rnd) IN
  IF R.shct[sig] * 100 >= InsertThreshold * maxVal(RrpvBits)
  THEN [R1 EXCEPT !.d[e].rrpv = dec(@)] ELSE R1

treeInvalidate(R, e) == [R EXCEPT !.tree[e[1]] = pointPath(@, R.ways, e[2], TRUE)]
treeTouch(R, e)      == [R EXCEPT !.tree[e[1]] = pointPath(@, R.ways, e[2], FALSE)]
treeReset(R, e)      == treeTouch(R, e)

baseInvalidate(R, e) ==
  CASE R.pol \in {"LRU", "WeightedLRU", "BIP"} -> lruInvalidate(R, e)
    [] R.pol = "MRU"            -> mruInvalidate(R, e)
    [] R.pol = "FIFO"           -> fifoInvalidate(R, e)
    [] R.pol = "LFU"            -> lfuInvalidate(R, e)
    [] R.pol = "Random"         -> randomInvalidate(R, e)
    [] R.pol = "SecondChance"   -> secondChanceInvalidate(R, e)
    [] R.pol = "BRRIP"          -> brripInvalidate(R, e)
    [] R.pol = "SHiP"           -> shipInvalidate(R, e)
    [] R.pol = "TreePLRU"       -> treeInvalidate(R, e)

baseTouch(R, e, now, sig) ==
  CASE R.pol \in {"LRU", "WeightedLRU", "BIP"} -> lruTouch(R, e, now)
    [] R.pol = "MRU"            -> mruTouch(R, e, now)
    [] R.pol = "FIFO"           -> fifoTouch(R)
    [] R.pol = "Random"         -> R
    [] R.pol = "LFU"            -> lfuTouch(R, e)
    [] R.pol = "SecondChance"   -> secondChanceTouch(R, e)
    [] R.pol = "BRRIP"          -> brripTouch(R, e)
    [] R.pol = "SHiP"           -> shipTouch(R, e, sig)
    [] R.pol = "TreePLRU"       -> treeTouch(R, e)

baseReset(R, e, now, sig, rnd) ==
  CASE R.pol \in {"LRU", "WeightedLRU"} -> lruReset(R, e, now)
    [] R.pol = "BIP"            -> bipReset(R, e, now, rnd)
    [] R.pol = "MRU"            -> mruReset(R, e, now)
    [] R.pol = "FIFO"           -> fifoReset(R, e)
    [] R.pol = "LFU"            -> lfuReset(R, e)
    [] R.pol = "Random"         -> randomReset(R, e)
    [] R.pol = "SecondChance"   -> secondChanceReset(R, e)
    [] R.pol = "BRRIP"          -> brripReset(R, e, rnd)
    [] R.pol = "SHiP"           -> shipReset(R, e, sig, rnd)
    [] R.pol = "TreePLRU"       -> treeReset(R, e)

(***************************************************************************)
(* getVictim of the candidates cs, in the order of the ways: the possible   *)
(* results, each with the policy's record after the search.                 *)
(***************************************************************************)
FirstMin(cs, f(_)) ==
  cs[CHOOSE i \in DOMAIN cs : \A j \in DOMAIN cs :
       f(cs[i]) < f(cs[j]) \/ (f(cs[i]) = f(cs[j]) /\ i <= j)]
Members(cs) == {cs[i] : i \in DOMAIN cs}

lruVictim(R, cs)  == LET f(e) == R.d[e].tick IN FirstMin(cs, f)

\* The smallest weight; of the entries with that weight, the oldest.
weightedVictim(R, cs) ==
  LET d(i) == R.d[cs[i]]
      before(i, j) == \/ d(i).occ < d(j).occ
                      \/ /\ d(i).occ = d(j).occ
                         /\ d(i).tick < d(j).tick \/ (d(i).tick = d(j).tick /\ i <= j)
  IN  cs[CHOOSE i \in DOMAIN cs : \A j \in DOMAIN cs : before(i, j)]
fifoVictim(R, cs) == LET f(e) == R.d[e].tick IN FirstMin(cs, f)

\* Faulty variant: an entry that holds nothing is not looked for.
mruVictimAnyEntry(R, cs) == LET f(e) == -R.d[e].tick IN FirstMin(cs, f)

mruVictim(R, cs) ==
  LET f(e) == -R.d[e].tick IN
  IF \E e \in Members(cs) : R.d[e].tick = 0
  THEN lruVictim(R, cs) ELSE FirstMin(cs, f)
lfuVictim(R, cs) == LET f(e) == R.d[e].n IN FirstMin(cs, f)
firstInvalid(R, cs) == LET f(e) == IF R.d[e].valid THEN 1 ELSE 0 IN FirstMin(cs, f)
someInvalid(R, cs) == \E e \in Members(cs) : ~R.d[e].valid

randomVictims(R, cs) == IF someInvalid(R, cs) THEN {firstInvalid(R, cs)} ELSE Members(cs)

\* Entries met in FIFO order give up their second chance and go to the back of
\* the queue until one without it is found.
secondChanceVictim(R, cs) ==
  LET fresh  == {e \in Members(cs) : ~R.d[e].chance}
      v      == IF fresh = {} THEN fifoVictim(R, cs)
                ELSE LET f(e) == R.d[e].tick + IF e \in fresh THEN 0 ELSE R.ticks + 1
                     IN  FirstMin(cs, f)
      passed == {e \in Members(cs) \ fresh : fresh = {} \/ R.d[e].tick < R.d[v].tick}
      rank(e) == Cardinality({x \in passed : R.d[x].tick <= R.d[e].tick})
  IN  [v |-> v,
       R |-> IF R.d[v].tick = 0 THEN R
             ELSE [R EXCEPT !.ticks = @ + Cardinality(passed),
                            !.d = [e \in DOMAIN @ |->
                                     IF e \in passed
                                     THEN [@[e] EXCEPT !.tick = R.ticks + rank(e),
                                                       !.chance = FALSE]
                                     ELSE @[e]]]]

\* The victim's prediction is saturated and all the others age with it.
brripVictim(R, cs) ==
  IF someInvalid(R, cs) THEN [v |-> firstInvalid(R, cs), R |-> R]
  ELSE LET f(e) == maxVal(RrpvBits) - R.d[e].rrpv
           v    == FirstMin(cs, f)
       IN  [v |-> v,
            R |-> [R EXCEPT !.d = [e \in DOMAIN R.d |->
                     IF e \in Members(cs)
                     THEN [R.d[e] EXCEPT !.rrpv = plus(R.d[e].rrpv, f(v), RrpvBits)]
                     ELSE R.d[e]]]]

baseGetVictim(R, cs) ==
  CASE R.pol \in {"LRU", "BIP"} -> {[v |-> lruVictim(R, cs), R |-> R]}
    [] R.pol = "WeightedLRU"  -> {[v |-> weightedVictim(R, cs), R |-> R]}
    [] R.pol = "FIFO"         -> {[v |-> fifoVictim(R, cs), R |-> R]}
    [] R.pol = "MRU"          -> {[v |-> mruVictim(R, cs), R |-> R]}
    [] R.pol = "LFU"          -> {[v |-> lfuVictim(R, cs), R |-> R]}
    [] R.pol = "Random"       -> {[v |-> e, R |-> R] : e \in randomVictims(R, cs)}
    [] R.pol = "SecondChance" -> {secondChanceVictim(R, cs)}
    [] R.pol \in {"BRRIP", "SHiP"} -> {brripVictim(R, cs)}
    [] R.pol = "TreePLRU"     ->
         {[v |-> cs[treeVictim(R.tree[cs[1][1]], R.ways) + 1], R |-> R]}

(***************************************************************************)
(* Dueling: policies a and b are both kept up to date; the sample sets use  *)
(* the policy of their team, the others that of the winning team.           *)
(***************************************************************************)
\* initEntry: the first entries of the constituency, one set of them, are
\* samples of team A (FALSE), the last set of team B (TRUE).
teamOf(R, e) == IF e[1] = 0 THEN "A" ELSE IF e[1] = R.sets - 1 THEN "B" ELSE "none"

duelingInit(a, b, sets, ways) ==
  LET selector == maxVal(SelectorBits) \div 2 IN
  [pol |-> "Dueling", sets |-> sets, a |-> policyInit(a, sets, ways),
   b |-> policyInit(b, sets, ways), selector |-> selector,
   winner |-> 2 * selector >= maxVal(SelectorBits)]

\* A miss of team B moves the selector up, a miss of team A down; the winner
\* flips at half of its range (low_threshold and high_threshold).
sample(R, e) ==
  LET s == CASE teamOf(R, e) = "B" -> inc(R.selector, SelectorBits)
             [] teamOf(R, e) = "A" -> dec(R.selector)
             [] OTHER -> R.selector
  IN  [R EXCEPT !.selector = s,
                !.winner = CASE teamOf(R, e) = "B" -> @ \/ 2 * s >= maxVal(SelectorBits)
                             [] teamOf(R, e) = "A" -> @ /\ 2 * s >= maxVal(SelectorBits)
                             [] OTHER -> @]

usesA(R, cs) == \/ teamOf(R, cs[1]) = "A"
                \/ teamOf(R, cs[1]) = "none" /\ R.winner

duelingGetVictim(R, cs) ==
  IF usesA(R, cs) THEN {[v |-> x.v, R |-> [R EXCEPT !.a = x.R]] : x \in baseGetVictim(R.a, cs)}
  ELSE {[v |-> x.v, R |-> [R EXCEPT !.b = x.R]] : x \in baseGetVictim(R.b, cs)}

(***************************************************************************)
(* The interface of replacement_policy::Base.                               *)
(***************************************************************************)
rpInvalidate(R, e) ==
  IF R.pol = "Dueling"
  THEN [R EXCEPT !.a = baseInvalidate(@, e), !.b = baseInvalidate(@, e)]
  ELSE baseInvalidate(R, e)

rpTouch(R, e, now, sig) ==
  IF R.pol = "Dueling"
  THEN [R EXCEPT !.a = baseTouch(@, e, now, sig), !.b = baseTouch(@, e, now, sig)]
  ELSE baseTouch(R, e, now, sig)

rpReset(R, e, now, sig, rnd) ==
  IF R.pol = "Dueling"
  THEN sample([R EXCEPT !.a = baseReset(@, e, now, sig, rnd),
                        !.b = baseReset(@, e, now, sig, rnd)], e)
  ELSE baseReset(R, e, now, sig, rnd)

getVictim(R, cs) == IF R.pol = "Dueling" THEN duelingGetVictim(R, cs) ELSE baseGetVictim(R, cs)
=============================================================================
