------------------------------ MODULE Delivery ------------------------------
(***************************************************************************)
(* What every intake path of the connector service promises for a record  *)
(* it takes from a source: once the service considers the record dealt     *)
(* with (`settled'), the registry holds it or an operator can still find   *)
(* it in the dead-letter queue (`parked').  A parked record leaves the      *)
(* queue only when the registry has it.  Nothing is promised about how     *)
(* often the registry is sent a record.                                    *)
(*                                                                         *)
(* The module is abstract: it names no table, task or transaction.  The    *)
(* detailed modules implement it through a refinement mapping.             *)
(***************************************************************************)

CONSTANT Sources         \* the records, by source_event_id

VARIABLES
    received,            \* records the Partner API has accepted at least once
    parked,              \* records with an entry in dead_letter_queue
    settled              \* records the service will not look at again by itself

vars == <<received, parked, settled>>

Init ==
    /\ received = {}
    /\ parked = {}
    /\ settled = {}

\* The registry accepts x, for the first time or again.
Accept(x) ==
    /\ received' = received \cup {x}
    /\ UNCHANGED <<parked, settled>>

\* The service closes the books on the records in done: the queue becomes
\* stays, which may only drop records the registry holds.
Settle(done, stays) ==
    /\ parked \ stays \subseteq received
    /\ done \subseteq received \cup stays
    /\ parked' = stays
    /\ settled' = settled \cup done
    /\ UNCHANGED received

Next ==
    \/ \E x \in Sources : Accept(x)
    \/ \E done, stays \in SUBSET Sources : Settle(done, stays)

Spec == Init /\ [][Next]_vars

AtLeastOnce == settled \subseteq received \cup parked

=============================================================================
