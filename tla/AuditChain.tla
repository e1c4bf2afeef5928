----------------------------- MODULE AuditChain -----------------------------
(***************************************************************************)
(* What the audit archive promises (features/audit/sweep.ts, header): the  *)
(* events are recorded one after the other, each recorded event stays in   *)
(* the database until a segment of the archive holds it, and the archive   *)
(* is one chain of segments that only grows, each continuing exactly where *)
(* the one before it ends.                                                 *)
(***************************************************************************)
EXTENDS Naturals, Sequences

VARIABLES recorded,     \* the last event recorded, 0 before the first
          hot,          \* the events the database still holds
          chain         \* the archive: the segments, each a set of events

vars == <<recorded, hot, chain>>

Held == UNION {chain[i] : i \in DOMAIN chain}

\* The segment holds the events of one unbroken, non-empty stretch.
Stretch(segment, first, last) == first <= last /\ segment = first..last

\* The segments of c follow each other without gap or overlap, from the first event on.
Contiguous(c) ==
    \E ends \in [0..Len(c) -> 0..recorded] :
        ends[0] = 0 /\ \A i \in 1..Len(c) : Stretch(c[i], ends[i - 1] + 1, ends[i])

Init == recorded = 0 /\ hot = {} /\ chain = <<>>

Record == /\ recorded' = recorded + 1
          /\ hot' = hot \cup {recorded + 1}
          /\ UNCHANGED chain

\* Segments are added at the end; what the chain holds already is as it was.
Keep == /\ Len(chain') > Len(chain)
        /\ \A i \in 1..Len(chain) : chain'[i] = chain[i]
        /\ Contiguous(chain')
        /\ UNCHANGED <<recorded, hot>>

Forget == /\ hot' \subseteq hot
          /\ hot \ hot' \subseteq Held
          /\ UNCHANGED <<recorded, chain>>

Next == Record \/ Keep \/ Forget
Spec == Init /\ [][Next]_vars

\* Every event ever recorded is in the database or in the archive.
NothingLost == 1..recorded \subseteq hot \cup Held
=============================================================================
