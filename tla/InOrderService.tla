--------------------------- MODULE InOrderService ---------------------------
(***************************************************************************)
(* What a texture cache promises its caller: each request it accepts is    *)
(* returned once, in the order of acceptance, and never more than Capacity *)
(* of them are outstanding.                                                *)
(***************************************************************************)
EXTENDS Naturals, Sequences

CONSTANTS Mf, Capacity

VARIABLE outstanding      \* accepted and not yet returned, oldest first

Init == outstanding = <<>>

Accept(m) ==
  /\ Len(outstanding) < Capacity
  /\ \A i \in DOMAIN outstanding : outstanding[i] # m
  /\ outstanding' = Append(outstanding, m)

Return == outstanding # <<>> /\ outstanding' = Tail(outstanding)

Next == (\E m \in Mf : Accept(m)) \/ Return

Spec == Init /\ [][Next]_outstanding
=============================================================================
