------------------------------ MODULE Ingestion ------------------------------
(***************************************************************************)
(* IngestionService.process_record as it runs in the processes that call   *)
(* it: webhook and Kafka workers (one record per transaction), the ODK     *)
(* poll (many records in ONE transaction) and the dead-letter replay (one  *)
(* entry per transaction).  Each caller is a database session at READ      *)
(* COMMITTED; the tables ingestion_runs, idempotency_keys and              *)
(* dead_letter_queue change when it commits, while a send to the registry  *)
(* happens at once and no rollback takes it back.                          *)
(*                                                                         *)
(* Abstracted: payloads, mapper and schema (a record is either rejected    *)
(* before the send or sent), error categories (they only label a failure), *)
(* and the redelivery counters, which have a module of their own.          *)
(***************************************************************************)
EXTENDS Naturals, FiniteSets

CONSTANTS
    Sessions,        \* database sessions: Celery workers, API requests, consumers
    Sources,         \* source records, by source_event_id
    Keyless,         \* the records that come without a source_event_id
    NoSource,
    MaxRuns,         \* bound: rows in ingestion_runs
    MaxBatch,        \* bound: records one poll takes from the source
    MaxSends,        \* bound: new work on a record stops after this many sends
    CanClear,        \* the operator may clear idempotency keys
    CanCrash         \* processes may be killed, replies lost, records raise

ASSUME KeylessAssumption == Keyless \subseteq Sources
ASSUME NoneAssumption == NoSource \notin Sources
ASSUME BoundsAssumption == MaxRuns \in Nat /\ MaxBatch \in Nat /\ MaxSends \in Nat
ASSUME SwitchAssumption == CanClear \in BOOLEAN /\ CanCrash \in BOOLEAN

VARIABLES
    \* committed rows
    src,             \* run_id -> source_event_id, NoSource before first use
    ok,              \* runs committed with status SUCCESS
    failed,          \* runs committed with status FAILED
    dlq,             \* dead-letter entries, each named by the run that failed
    key,             \* Sources -> run_id of the idempotency key, or NoRun
    \* outside the database
    delivered,       \* Sources -> how often the registry accepted the record
    settled,         \* records whose processing was committed
    \* per session
    tx,              \* uncommitted writes of the session
    pc, job, cur, run, entry,
    \* history
    exposed          \* records that an accident or an overlap may duplicate

dbVars == <<src, ok, failed, dlq, key>>
ctlVars == <<pc, job, cur, run, entry>>
vars == <<src, ok, failed, dlq, key, delivered, settled, tx,
          pc, job, cur, run, entry, exposed>>

\* A run_id is a fresh uuid; the model hands out the smallest free number.
RunIds == 1 .. MaxRuns
NoRun == 0

Jobs == {"event", "poll", "replay"}
Steps == {"idle", "lookup", "send", "key", "bump", "next", "closing"}

\* ok, failed: runs added; keys: the runs of ok whose key row is inserted;
\* bumped: sources whose key row is updated; seen: records worked off;
\* taken: how many records this was.
EmptyTx ==
    [ok |-> {}, failed |-> {}, keys |-> {}, bumped |-> {}, seen |-> {}, taken |-> 0]

TypeOK ==
    /\ src \in [RunIds -> Sources \cup {NoSource}]
    /\ ok \subseteq RunIds
    /\ failed \subseteq RunIds
    /\ dlq \subseteq RunIds
    /\ key \in [Sources -> RunIds \cup {NoRun}]
    /\ delivered \in [Sources -> Nat]
    /\ settled \subseteq Sources
    /\ tx \in [Sessions -> [ok : SUBSET RunIds, failed : SUBSET RunIds,
                            keys : SUBSET RunIds, bumped : SUBSET Sources,
                            seen : SUBSET Sources, taken : Nat]]
    /\ pc \in [Sessions -> Steps]
    /\ job \in [Sessions -> Jobs]
    /\ cur \in [Sessions -> Sources \cup {NoSource}]
    /\ run \in [Sessions -> RunIds \cup {NoRun}]
    /\ entry \in [Sessions -> RunIds \cup {NoRun}]
    /\ exposed \subseteq Sources

Init ==
    /\ src = [r \in RunIds |-> NoSource]
    /\ ok = {} /\ failed = {} /\ dlq = {}
    /\ key = [x \in Sources |-> NoRun]
    /\ delivered = [x \in Sources |-> 0]
    /\ settled = {}
    /\ tx = [s \in Sessions |-> EmptyTx]
    /\ pc = [s \in Sessions |-> "idle"]
    /\ job = [s \in Sessions |-> "event"]
    /\ cur = [s \in Sessions |-> NoSource]
    /\ run = [s \in Sessions |-> NoRun]
    /\ entry = [s \in Sessions |-> NoRun]
    /\ exposed = {}

-----------------------------------------------------------------------------
(* What a session sees, and whom it waits for.                             *)

InUse == UNION {tx[s].ok \cup tx[s].failed \cup {run[s]} : s \in Sessions}
FreeRuns == RunIds \ (ok \cup failed \cup InUse)

\* Mutant of KeyRuns: the session's own inserts are not flushed before a read.
KeyRunsCommitted(s, x) == {r \in {key[x]} : r # NoRun /\ src[r] = x}

\* The runs whose key row for x session s can read: the committed one and
\* its own insert.
KeyRuns(s, x) == {r \in {key[x]} \cup tx[s].keys : r # NoRun /\ src[r] = x}

\* Key rows s has inserted or updated stay locked until s ends.
Locks(s) == {src[r] : r \in tx[s].keys} \cup tx[s].bumped

Blockers(s) ==
    {t \in Sessions \ {s} : pc[s] \in {"key", "bump"} /\ cur[s] \in Locks(t)}

\* s is on a cycle of waiting sessions; PostgreSQL cancels one of them.
Deadlocked(s) ==
    \E C \in SUBSET Sessions :
        /\ s \in C
        /\ \A u \in C : Blockers(u) \cap C # {}
        /\ \A u \in C : \E v \in C : u \in Blockers(v)

\* Another session is past the lookup of x and has not committed.
Overlaps(s, x) ==
    \E t \in Sessions \ {s} :
        \/ pc[t] \in {"send", "key"} /\ cur[t] = x
        \/ \E r \in tx[t].ok : src[r] = x

-----------------------------------------------------------------------------
(* Callers: who starts a transaction and with which record.                *)

\* The bounds of the workload: sends of a record, and a free identity for
\* every session that may need one.
Room(x) ==
    /\ delivered[x] < MaxSends
    /\ Cardinality({s \in Sessions : pc[s] = "lookup"}) < Cardinality(FreeRuns)

Begin(s, j, x, e) ==
    /\ pc[s] = "idle"
    /\ Room(x)
    /\ pc' = [pc EXCEPT ![s] = "lookup"]
    /\ job' = [job EXCEPT ![s] = j]
    /\ cur' = [cur EXCEPT ![s] = x]
    /\ entry' = [entry EXCEPT ![s] = e]
    /\ UNCHANGED <<dbVars, delivered, settled, tx, run, exposed>>

StartEvent(s, x) == Begin(s, "event", x, NoRun)

StartPoll(s, x) == Begin(s, "poll", x, NoRun)

\* Mutant of StartReplay: the entry is remembered by its source_event_id.
ReplayBySource(s, e) == e \in dlq /\ Begin(s, "replay", src[e], src[e])

StartReplay(s, e) == e \in dlq /\ Begin(s, "replay", src[e], e)

\* The poll loop hands the next fetched record to process_record.
NextRecord(s, x) ==
    /\ pc[s] = "next"
    /\ job[s] = "poll"
    /\ tx[s].taken < MaxBatch
    /\ Room(x)
    /\ pc' = [pc EXCEPT ![s] = "lookup"]
    /\ cur' = [cur EXCEPT ![s] = x]
    /\ UNCHANGED <<dbVars, delivered, settled, tx, job, run, entry, exposed>>

-----------------------------------------------------------------------------
(* process_record, from its first statement to its return.                 *)

\* The record is dealt with, as far as this transaction is concerned.
Return(s, t) ==
    /\ tx' = [tx EXCEPT ![s] =
                [ok |-> t.ok, failed |-> t.failed, keys |-> t.keys,
                 bumped |-> t.bumped, seen |-> t.seen \cup {cur[s]},
                 taken |-> t.taken + 1]]
    /\ pc' = [pc EXCEPT ![s] = "next"]

\* Mutant of End: the transaction of a finished session keeps its row locks.
EndHoldingLocks(s) ==
    /\ tx' = [tx EXCEPT ![s] = [EmptyTx EXCEPT !.bumped = Locks(s)]]
    /\ pc' = [pc EXCEPT ![s] = "idle"]
    /\ job' = [job EXCEPT ![s] = "event"]
    /\ cur' = [cur EXCEPT ![s] = NoSource]
    /\ run' = [run EXCEPT ![s] = NoRun]
    /\ entry' = [entry EXCEPT ![s] = NoRun]

\* The session ends and forgets its transaction.
End(s) ==
    /\ tx' = [tx EXCEPT ![s] = EmptyTx]
    /\ pc' = [pc EXCEPT ![s] = "idle"]
    /\ job' = [job EXCEPT ![s] = "event"]
    /\ cur' = [cur EXCEPT ![s] = NoSource]
    /\ run' = [run EXCEPT ![s] = NoRun]
    /\ entry' = [entry EXCEPT ![s] = NoRun]

\* Rollback: what was sent stays sent, and no key will say so.
Rollback(s) ==
    /\ exposed' = exposed \cup {src[r] : r \in tx[s].ok}
    /\ End(s)
    /\ UNCHANGED <<dbVars, delivered, settled>>

\* The key points at a run this session can read: a duplicate delivery.
Duplicate(s, r) ==
    /\ cur[s] \notin Keyless
    /\ r \in KeyRuns(s, cur[s])
    /\ r \in ok \cup tx[s].ok

LookupHit(s) ==
    /\ pc[s] = "lookup"
    /\ \E r \in RunIds :
        /\ Duplicate(s, r)
        /\ run' = [run EXCEPT ![s] = r]
    /\ pc' = [pc EXCEPT ![s] = "bump"]
    /\ UNCHANGED <<dbVars, delivered, settled, tx, job, cur, entry, exposed>>

\* A new run row, IN_PROGRESS until the outcome of the send is known.
LookupMiss(s) ==
    /\ pc[s] = "lookup"
    /\ \A r \in RunIds : ~Duplicate(s, r)
    /\ \E r \in FreeRuns :
        /\ \A q \in FreeRuns : r <= q
        /\ run' = [run EXCEPT ![s] = r]
        /\ src' = [src EXCEPT ![r] = cur[s]]
    /\ pc' = [pc EXCEPT ![s] = "send"]
    /\ exposed' = IF Overlaps(s, cur[s]) THEN exposed \cup {cur[s]} ELSE exposed
    /\ UNCHANGED <<ok, failed, dlq, key, delivered, settled, tx, job, cur, entry>>

\* The redelivery counters are updated by primary key.  A key row deleted
\* since the lookup makes the flush fail and poisons the session.
Bump(s) ==
    /\ pc[s] = "bump"
    /\ Blockers(s) = {}
    /\ IF run[s] \in KeyRuns(s, cur[s])
       THEN /\ Return(s, [tx[s] EXCEPT !.bumped = @ \cup {cur[s]}])
            /\ UNCHANGED <<dbVars, delivered, settled, job, cur, run, entry, exposed>>
       ELSE Rollback(s)

SendSucceeds(s) ==
    /\ pc[s] = "send"
    /\ delivered' = [delivered EXCEPT ![cur[s]] = @ + 1]
    /\ LET t == [tx[s] EXCEPT !.ok = @ \cup {run[s]}]
       IN  IF cur[s] \in Keyless
           THEN Return(s, t)
           ELSE tx' = [tx EXCEPT ![s] = t] /\ pc' = [pc EXCEPT ![s] = "key"]
    /\ UNCHANGED <<dbVars, settled, job, cur, run, entry, exposed>>

\* Mutant of FailRun: the key is recorded whatever the outcome.
FailRunWithKey(s) ==
    /\ Return(s, [tx[s] EXCEPT !.failed = @ \cup {run[s]}, !.keys = @ \cup {run[s]}])
    /\ UNCHANGED <<dbVars, settled, job, cur, run, entry>>

\* Mutant of FailRun: no dead-letter entry.
FailRunSilent(s) ==
    /\ Return(s, tx[s])
    /\ UNCHANGED <<dbVars, settled, job, cur, run, entry>>

\* _fail_run: the run becomes FAILED and one dead-letter entry is written.
FailRun(s) ==
    /\ Return(s, [tx[s] EXCEPT !.failed = @ \cup {run[s]}])
    /\ UNCHANGED <<dbVars, settled, job, cur, run, entry>>

\* Mapping, validation or envelope fails, or the registry refuses.
Refused(s) ==
    /\ pc[s] = "send"
    /\ FailRun(s)
    /\ UNCHANGED <<delivered, exposed>>

\* What process_record does not guard raises: the envelope's expression, or
\* the routing of what was mapped.  No run fails and no entry is written; a
\* poll catches the error and commits what it has, an IN_PROGRESS run that
\* nobody looks at again included.  Everywhere else the transaction is lost.
Raised(s) ==
    /\ CanCrash /\ pc[s] = "send"
    /\ IF job[s] = "poll"
       THEN /\ pc' = [pc EXCEPT ![s] = "closing"]
            /\ UNCHANGED <<dbVars, delivered, settled, tx, job, cur, run, entry, exposed>>
       ELSE Rollback(s)

\* The registry accepts but the answer is lost (read timeout).
ReplyLost(s) ==
    /\ CanCrash
    /\ pc[s] = "send"
    /\ delivered' = [delivered EXCEPT ![cur[s]] = @ + 1]
    /\ exposed' = exposed \cup {cur[s]}
    /\ FailRun(s)

\* Mutant of InsertKey: ON CONFLICT DO UPDATE.
UpsertKey(s) ==
    /\ pc[s] = "key"
    /\ Blockers(s) = {}
    /\ Return(s, [tx[s] EXCEPT !.keys = @ \cup {run[s]}])
    /\ UNCHANGED <<dbVars, delivered, settled, job, cur, run, entry, exposed>>

\* INSERT of the key in a savepoint.  It waits for a session that holds the
\* same key uncommitted; a committed key is an IntegrityError, swallowed.
InsertKey(s) ==
    /\ pc[s] = "key"
    /\ Blockers(s) = {}
    /\ Return(s, IF key[cur[s]] = NoRun
                 THEN [tx[s] EXCEPT !.keys = @ \cup {run[s]}]
                 ELSE tx[s])
    /\ UNCHANGED <<dbVars, delivered, settled, job, cur, run, entry, exposed>>

\* The deadlock detector cancels a waiting statement.  Inside the savepoint
\* only the key is undone: the error leaves process_record, a poll catches
\* it and commits what it has.  Everywhere else the transaction is lost.
DeadlockVictim(s) ==
    /\ Deadlocked(s)
    /\ IF pc[s] = "key" /\ job[s] = "poll"
       THEN /\ pc' = [pc EXCEPT ![s] = "closing"]
            /\ exposed' = exposed \cup {cur[s]}
            /\ UNCHANGED <<dbVars, delivered, settled, tx, job, cur, run, entry>>
       ELSE Rollback(s)

-----------------------------------------------------------------------------
(* End of the transaction, and the operator.                               *)

\* Mutant of Replayed: the outcome of the run is not looked at.
ReplayedAnyhow(s) == {e \in {entry[s]} : job[s] = "replay"}

\* A replay deletes its entry when the run it got back is a SUCCESS.
Replayed(s) ==
    {e \in {entry[s]} : job[s] = "replay" /\ run[s] \in ok \cup tx[s].ok}

Commit(s) ==
    /\ pc[s] \in {"next", "closing"}
    /\ ok' = ok \cup tx[s].ok
    /\ failed' = failed \cup tx[s].failed
    /\ dlq' = (dlq \cup tx[s].failed) \ Replayed(s)
    /\ key' = [x \in Sources |->
                 IF \E r \in tx[s].keys : src[r] = x
                 THEN CHOOSE r \in tx[s].keys : src[r] = x
                 ELSE key[x]]
    /\ settled' = settled \cup tx[s].seen
    /\ End(s)
    /\ UNCHANGED <<src, delivered, exposed>>

\* The process is killed, or its database connection is lost.
Crash(s) ==
    /\ CanCrash
    /\ pc[s] # "idle"
    /\ Rollback(s)

\* POST .../clear-idempotency: DELETE of all committed keys, which waits for
\* rows a session has updated.
ClearIdempotency ==
    /\ CanClear
    /\ \A s \in Sessions : tx[s].bumped = {}
    /\ exposed' = exposed \cup {x \in Sources : key[x] # NoRun}
    /\ key' = [x \in Sources |-> NoRun]
    /\ UNCHANGED <<src, ok, failed, dlq, delivered, settled, tx, ctlVars>>

-----------------------------------------------------------------------------
ProcessRecord(s) ==
    \/ LookupHit(s) \/ LookupMiss(s)
    \/ SendSucceeds(s) \/ Refused(s) \/ Raised(s) \/ ReplyLost(s)
    \/ Bump(s) \/ InsertKey(s) \/ DeadlockVictim(s)

Next ==
    \/ \E s \in Sessions, x \in Sources :
        StartEvent(s, x) \/ StartPoll(s, x) \/ NextRecord(s, x)
    \/ \E s \in Sessions, e \in RunIds : StartReplay(s, e)
    \/ \E s \in Sessions : ProcessRecord(s) \/ Commit(s) \/ Crash(s)
    \/ ClearIdempotency

Spec == Init /\ [][Next]_vars

\* A task that was started runs on.  Waiters for a row lock are served in
\* order of arrival, so a wait that can end again and again does end.
Fairness ==
    \A s \in Sessions :
        /\ WF_vars(ProcessRecord(s) \/ Commit(s))
        /\ SF_vars(Bump(s) \/ InsertKey(s))

FairSpec == Spec /\ Fairness

-----------------------------------------------------------------------------
(* Properties.                                                             *)

\* Whatever was dealt with in a committed transaction (a Kafka offset that
\* may be committed, a poll watermark that may move on) is in the registry
\* or in the dead-letter queue, and a FAILED run whose entry is gone from
\* the queue has been delivered since.  ingestion_service.py:190, :358;
\* runs.py:278.
NothingLost ==
    /\ \A x \in settled :
        delivered[x] > 0 \/ \E e \in dlq : src[e] = x
    /\ \A r \in failed : r \in dlq \/ delivered[src[r]] > 0

\* A committed key stops every later delivery of its record, so it must be
\* backed by a committed SUCCESS run of that very record, which the registry
\* accepted: the branch for a missing canonical run (ingestion_service.py:99)
\* is never taken.
KeyBacked ==
    \A x \in Sources : key[x] # NoRun =>
        /\ key[x] \in ok
        /\ src[key[x]] = x
        /\ delivered[x] > 0

\* The registry is sent a record twice only after an overlap of two sessions,
\* a rollback after a send, a lost reply, a broken deadlock or a cleared key.
\* A failure, a replay, a redelivery or a second poll alone never does it.
OnceUnlessExposed ==
    \A x \in Sources \ (exposed \cup Keyless) : delivered[x] <= 1

\* A committed key is never redirected to another run, however the sessions
\* that race for it interleave: it stays or is cleared.
KeyStable ==
    [][\A x \in Sources : key[x] # NoRun => key'[x] \in {key[x], NoRun}]_vars

\* The glossary's promise (USER-MANUAL.md:407): a key prevents the same
\* record from being ingested twice.  Two sessions that both look the key up
\* before either commits end in two SUCCESS runs (ingestion_service.py:214).
IngestedOnce ==
    \A x \in Sources \ Keyless : Cardinality({r \in ok : src[r] = x}) <= 1

\* Every task that starts ends: nobody waits for ever for a key row, and a
\* poll that loses a deadlock still closes its transaction.
SessionsEnd == \A s \in Sessions : []<>(pc[s] = "idle")

\* The abstract promise, with tables read as sets of records.
Promise == INSTANCE Delivery WITH
    received <- {x \in Sources : delivered[x] > 0},
    parked <- {src[e] : e \in dlq},
    settled <- settled

ImplementsDelivery == Promise!Spec

-----------------------------------------------------------------------------
(* The inductive invariant behind them, by the part of the state it relates. *)

\* Committed rows: every SUCCESS run is in the registry, every FAILED run is
\* dead-lettered or in the registry.
TablesInv ==
    /\ dlq \subseteq failed
    /\ \A r \in ok : src[r] \in Sources /\ delivered[src[r]] > 0
    /\ \A r \in failed : src[r] \in Sources
    /\ NothingLost
    /\ KeyBacked

\* Uncommitted rows: the same promise, kept inside one transaction.
TxInv ==
    \A s \in Sessions :
        /\ \A r \in tx[s].ok : src[r] \in Sources /\ delivered[src[r]] > 0
        /\ \A r \in tx[s].failed : src[r] \in Sources
        /\ tx[s].keys \subseteq tx[s].ok
        /\ \A x \in tx[s].seen :
            delivered[x] > 0 \/ \E r \in tx[s].failed : src[r] = x

\* Where a session is and what it holds there.
ControlInv ==
    \A s \in Sessions : pc[s] # "idle" =>
        /\ cur[s] \in Sources
        /\ pc[s] \in {"send", "key", "bump", "next"} =>
            run[s] \in RunIds /\ src[run[s]] = cur[s]
        /\ pc[s] = "key" => run[s] \in tx[s].ok
        /\ pc[s] = "bump" => run[s] \in ok \cup tx[s].ok
        /\ job[s] = "replay" => entry[s] \in failed /\ src[entry[s]] = cur[s]
        /\ pc[s] = "closing" => job[s] = "poll"

\* A key row is inserted only where none is committed and nobody else has one.
LockInv ==
    \A s \in Sessions : \A r \in tx[s].keys :
        /\ key[src[r]] = NoRun
        /\ \A t \in Sessions \ {s} : \A q \in tx[t].keys : src[q] # src[r]

\* Session s has sent x, or is about to, and has not committed.
Active(s, x) ==
    \/ pc[s] \in {"send", "key"} /\ cur[s] = x
    \/ \E r \in tx[s].ok : src[r] = x

\* Session s has sent x and its key is on the way.
Pending(s, x) ==
    \/ pc[s] = "key" /\ cur[s] = x
    \/ \E r \in tx[s].keys : src[r] = x

\* Unless x is exposed, one session at most works on it, and a delivery has
\* a key to show for it.
OnceInv ==
    \A x \in Sources \ (exposed \cup Keyless) :
        /\ delivered[x] <= 1
        /\ delivered[x] = 1 => key[x] # NoRun \/ \E s \in Sessions : Pending(s, x)
        /\ \A s \in Sessions : pc[s] = "send" /\ cur[s] = x => delivered[x] = 0
        /\ \A s, t \in Sessions : Active(s, x) /\ Active(t, x) => s = t

IInv == TypeOK /\ TablesInv /\ TxInv /\ ControlInv /\ LockInv /\ OnceInv

=============================================================================
