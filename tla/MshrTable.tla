----------------------------- MODULE MshrTable ------------------------------
(***************************************************************************)
(* mshr_table: for each address with a miss outstanding the list of the    *)
(* requests that wait for it, and the queue of the addresses whose data    *)
(* has come.  There are no atomics: isatomic() of gpgpu_stubs.h returns    *)
(* false, so m_has_atomic of an entry is never set.                        *)
(***************************************************************************)
EXTENDS CacheBlock, Sequences, FiniteSets

CONSTANTS MshrEntries, MshrMaxMerge

ASSUME MshrAssumption == MshrEntries \in Nat /\ MshrMaxMerge \in Nat \ {0}

VARIABLES mshr, current_response

mshrVars == <<mshr, current_response>>

MshrInit == mshr = [k \in Key |-> <<>>] /\ current_response = <<>>

MshrProbe(k) == mshr[k] # <<>>
MshrCount == Cardinality({k \in Key : MshrProbe(k)})
MshrFull(k) == IF MshrProbe(k) THEN Len(mshr[k]) >= MshrMaxMerge
               ELSE MshrCount >= MshrEntries

(* Both the reads of the caller and the reads a write miss allocates are   *)
(* built with the write flag off, so no member of a list is a write.       *)
MshrHoldsWrite(m) == FALSE
IsReadAfterWritePending(k) ==
  \E i, j \in DOMAIN mshr[k] :
     i < j /\ MshrHoldsWrite(mshr[k][i]) /\ ~MshrHoldsWrite(mshr[k][j])

(* Faulty variant of MshrAdd: a merged request is not recorded.            *)
MshrAddFirst(k, m) == IF mshr[k] = <<>> THEN [mshr EXCEPT ![k] = <<m>>] ELSE mshr

MshrAdd(k, m) == [mshr EXCEPT ![k] = Append(@, m)]

MarkReady(k) == Append(current_response, k)

(* next_access takes the oldest request of the first address that is       *)
(* ready; the address stays ready until its list is empty.                 *)
NextKey == Head(current_response)
MshrTake(k) == [mshr EXCEPT ![k] = Tail(@)]

(* Faulty variant of ReadyAfterNext: it is dropped with the first request. *)
ReadyAfterNextEarly(k) == Tail(current_response)

ReadyAfterNext(k) ==
  IF Len(mshr[k]) = 1 THEN Tail(current_response) ELSE current_response

=============================================================================
