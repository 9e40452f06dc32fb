----------------------------- MODULE Redelivery -----------------------------
(***************************************************************************)
(* The redelivery counters of one idempotency key and its canonical run,   *)
(* as process_record keeps them (ingestion_service.py:89-118): the key row *)
(* is read, then the run row, both counters are set in memory, and a flush *)
(* writes what changed.  A read takes no lock, an UPDATE locks the row to   *)
(* the end of the transaction, and the ORM leaves a column alone that was   *)
(* set to the value it was loaded with.                                    *)
(***************************************************************************)
EXTENDS Naturals, FiniteSets

CONSTANTS
    Sessions,        \* transactions that may deliver the record again
    MaxHits          \* bound: duplicate deliveries

VARIABLES
    keyCount,        \* committed idempotency_keys.redelivery_count
    runCount,        \* committed ingestion_runs.redelivery_count
    lock,            \* the sessions that have updated the rows: one at most
    pc, ik, canonical, \* per session: step, loaded key count, loaded run count
    hits,            \* history: short-circuits committed
    raced            \* history: two sessions were ever in the short-circuit

vars == <<keyCount, runCount, lock, pc, ik, canonical, hits, raced>>

TypeOK ==
    /\ keyCount \in Nat /\ runCount \in Nat /\ hits \in Nat
    /\ lock \in SUBSET Sessions
    /\ pc \in [Sessions -> {"idle", "run", "flush", "commit"}]
    /\ ik \in [Sessions -> Nat]
    /\ canonical \in [Sessions -> Nat]
    /\ raced \in BOOLEAN

Init ==
    /\ keyCount = 0 /\ runCount = 0 /\ hits = 0
    /\ lock = {}
    /\ pc = [s \in Sessions |-> "idle"]
    /\ ik = [s \in Sessions |-> 0]
    /\ canonical = [s \in Sessions |-> 0]
    /\ raced = FALSE

Others(s) == {t \in Sessions \ {s} : pc[t] # "idle"}

\* SELECT of the key row.
ReadKey(s) ==
    /\ pc[s] = "idle"
    /\ hits + Cardinality(Others(s)) < MaxHits
    /\ ik' = [ik EXCEPT ![s] = keyCount]
    /\ pc' = [pc EXCEPT ![s] = "run"]
    /\ raced' = (raced \/ Others(s) # {})
    /\ UNCHANGED <<keyCount, runCount, lock, canonical, hits>>

\* session.get of the canonical run.
ReadRun(s) ==
    /\ pc[s] = "run"
    /\ canonical' = [canonical EXCEPT ![s] = runCount]
    /\ pc' = [pc EXCEPT ![s] = "flush"]
    /\ UNCHANGED <<keyCount, runCount, lock, ik, hits, raced>>

\* Both counters are set; the UPDATE of the key row waits for the row lock.
Flush(s) ==
    /\ pc[s] = "flush"
    /\ lock = {}
    /\ lock' = {s}
    /\ pc' = [pc EXCEPT ![s] = "commit"]
    /\ UNCHANGED <<keyCount, runCount, ik, canonical, hits, raced>>

\* Mutant of NewCount: both counters are added up.
CountBoth(s) == ik[s] + canonical[s] + 1

\* The new value of both counters, as the session computed it.
NewCount(s) == ik[s] + 1

Commit(s) ==
    /\ pc[s] = "commit"
    /\ keyCount' = NewCount(s)
    /\ runCount' = IF NewCount(s) = canonical[s] THEN runCount ELSE NewCount(s)
    /\ hits' = hits + 1
    /\ lock' = {}
    /\ pc' = [pc EXCEPT ![s] = "idle"]
    /\ UNCHANGED <<ik, canonical, raced>>

Rollback(s) ==
    /\ pc[s] # "idle"
    /\ lock' = lock \ {s}
    /\ pc' = [pc EXCEPT ![s] = "idle"]
    /\ UNCHANGED <<keyCount, runCount, ik, canonical, hits, raced>>

Next ==
    \E s \in Sessions :
        ReadKey(s) \/ ReadRun(s) \/ Flush(s) \/ Commit(s) \/ Rollback(s)

Spec == Init /\ [][Next]_vars

-----------------------------------------------------------------------------
(* Properties.                                                             *)

\* However the sessions interleave, neither counter reports a redelivery
\* that was not committed.
NeverOvercounts == keyCount <= hits /\ runCount <= hits

\* As long as no two sessions ever worked on the record at once, both
\* counters are exact, rollbacks included.
ExactWhenAlone == ~raced => keyCount = hits /\ runCount = hits

\* What an operator may read off the counters: never more redeliveries than
\* there were, and all of them while deliveries did not overlap.
CountersSound == NeverOvercounts /\ ExactWhenAlone

=============================================================================
