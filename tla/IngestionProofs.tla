--------------------------- MODULE IngestionProofs ---------------------------
(***************************************************************************)
(* What Ingestion guarantees for every set of sessions and records, every  *)
(* bound and every choice of switches.  The argument is one inductive       *)
(* invariant, IInv, proved part by part: each lemma takes the whole of IInv *)
(* before a step and shows one part of it after the step.                   *)
(***************************************************************************)
EXTENDS Ingestion, TLAPS

USE DEF RunIds, NoRun

-----------------------------------------------------------------------------
(* Types.                                                                  *)

TxType == [ok : SUBSET RunIds, failed : SUBSET RunIds, keys : SUBSET RunIds,
           bumped : SUBSET Sources, seen : SUBSET Sources, taken : Nat]

LEMMA InitTypeOK == Init => TypeOK
  BY NoneAssumption DEF Init, TypeOK, EmptyTx, Steps, Jobs

\* Handing a record back keeps a session's transaction well typed.
LEMMA ReturnType ==
    ASSUME TypeOK, NEW s \in Sessions, cur[s] \in Sources,
           NEW t \in TxType, Return(s, t)
    PROVE  tx' \in [Sessions -> TxType] /\ pc' \in [Sessions -> Steps]
  BY DEF TypeOK, Return, TxType, Steps

\* So does ending it.
LEMMA EndType ==
    ASSUME TypeOK, NEW s \in Sessions, End(s)
    PROVE  /\ tx' \in [Sessions -> TxType]
           /\ pc' \in [Sessions -> Steps]
           /\ job' \in [Sessions -> Jobs]
           /\ cur' \in [Sessions -> Sources \cup {NoSource}]
           /\ run' \in [Sessions -> RunIds \cup {NoRun}]
           /\ entry' \in [Sessions -> RunIds \cup {NoRun}]
  BY DEF TypeOK, End, TxType, EmptyTx, Steps, Jobs

LEMMA RollbackType ==
    ASSUME TypeOK, TxInv, NEW s \in Sessions, Rollback(s)
    PROVE  TypeOK'
  <1>1. exposed' \subseteq Sources
    BY DEF Rollback, TxInv, TypeOK
  <1>2. QED
    BY <1>1, EndType DEF Rollback, TypeOK, dbVars, TxType

LEMMA TypeStep == IInv /\ [Next]_vars => TypeOK'
  <1> SUFFICES ASSUME IInv, [Next]_vars PROVE TypeOK'
    OBVIOUS
  <1> USE DEF IInv
  <1>1. ASSUME NEW s \in Sessions, NEW x \in Sources, StartEvent(s, x)
        PROVE  TypeOK'
    BY <1>1 DEF StartEvent, Begin, TypeOK, dbVars, Steps, Jobs
  <1>2. ASSUME NEW s \in Sessions, NEW x \in Sources, StartPoll(s, x)
        PROVE  TypeOK'
    BY <1>2 DEF StartPoll, Begin, TypeOK, dbVars, Steps, Jobs
  <1>3. ASSUME NEW s \in Sessions, NEW x \in Sources, NextRecord(s, x)
        PROVE  TypeOK'
    BY <1>3 DEF NextRecord, TypeOK, dbVars, Steps, Jobs
  <1>4. ASSUME NEW s \in Sessions, NEW e \in RunIds, StartReplay(s, e)
        PROVE  TypeOK'
    <2>1. src[e] \in Sources
      BY <1>4 DEF StartReplay, TablesInv
    <2>2. QED
      BY <1>4, <2>1 DEF StartReplay, Begin, TypeOK, dbVars, Steps, Jobs
  <1>5. ASSUME NEW s \in Sessions, LookupHit(s)
        PROVE  TypeOK'
    BY <1>5 DEF LookupHit, TypeOK, dbVars, Steps
  <1>6. ASSUME NEW s \in Sessions, LookupMiss(s)
        PROVE  TypeOK'
    <2>1. cur[s] \in Sources
      BY <1>6 DEF LookupMiss, ControlInv
    <2>2. QED
      BY <1>6, <2>1 DEF LookupMiss, TypeOK, Steps, FreeRuns
  <1>7. ASSUME NEW s \in Sessions, SendSucceeds(s)
        PROVE  TypeOK'
    <2>1. cur[s] \in Sources /\ run[s] \in RunIds
      BY <1>7 DEF SendSucceeds, ControlInv
    <2>2. [tx[s] EXCEPT !.ok = @ \cup {run[s]}] \in TxType
      BY <2>1 DEF TypeOK, TxType
    <2>3. tx' \in [Sessions -> TxType] /\ pc' \in [Sessions -> Steps]
      <3>1. CASE cur[s] \in Keyless
        BY <1>7, <2>1, <2>2, <3>1, ReturnType DEF SendSucceeds
      <3>2. CASE cur[s] \notin Keyless
        BY <1>7, <2>2, <3>2 DEF SendSucceeds, TypeOK, Steps, TxType
      <3>3. QED
        BY <3>1, <3>2
    <2>4. QED
      BY <1>7, <2>1, <2>3 DEF SendSucceeds, TypeOK, dbVars, TxType
  <1>8. ASSUME NEW s \in Sessions, FailRun(s), pc[s] = "send"
        PROVE  tx' \in [Sessions -> TxType] /\ pc' \in [Sessions -> Steps]
    <2>1. cur[s] \in Sources /\ run[s] \in RunIds
      BY <1>8 DEF ControlInv
    <2>2. [tx[s] EXCEPT !.failed = @ \cup {run[s]}] \in TxType
      BY <2>1 DEF TypeOK, TxType
    <2>3. QED
      BY <1>8, <2>1, <2>2, ReturnType DEF FailRun
  <1>9. ASSUME NEW s \in Sessions, Refused(s)
        PROVE  TypeOK'
    BY <1>9, <1>8 DEF Refused, FailRun, TypeOK, dbVars, TxType
  <1>10. ASSUME NEW s \in Sessions, ReplyLost(s)
         PROVE  TypeOK'
    <2>1. cur[s] \in Sources
      BY <1>10 DEF ReplyLost, ControlInv
    <2>2. delivered' \in [Sources -> Nat] /\ exposed' \subseteq Sources
      BY <1>10, <2>1 DEF ReplyLost, TypeOK
    <2>3. FailRun(s) /\ pc[s] = "send"
      BY <1>10 DEF ReplyLost
    <2>4. QED
      BY <1>8, <2>2, <2>3 DEF FailRun, TypeOK, dbVars, TxType
  <1>11. ASSUME NEW s \in Sessions, Bump(s)
         PROVE  TypeOK'
    <2>1. CASE run[s] \in KeyRuns(s, cur[s])
      <3>1. cur[s] \in Sources
        BY <1>11 DEF Bump, ControlInv
      <3>2. [tx[s] EXCEPT !.bumped = @ \cup {cur[s]}] \in TxType
        BY <3>1 DEF TypeOK, TxType
      <3>3. QED
        BY <1>11, <2>1, <3>1, <3>2, ReturnType DEF Bump, TypeOK, dbVars, TxType
    <2>2. CASE run[s] \notin KeyRuns(s, cur[s])
      BY <1>11, <2>2, RollbackType DEF Bump
    <2>3. QED
      BY <2>1, <2>2
  <1>12. ASSUME NEW s \in Sessions, InsertKey(s)
         PROVE  TypeOK'
    <2>1. cur[s] \in Sources /\ run[s] \in RunIds
      BY <1>12 DEF InsertKey, ControlInv
    <2> DEFINE t == IF key[cur[s]] = NoRun
                    THEN [tx[s] EXCEPT !.keys = @ \cup {run[s]}]
                    ELSE tx[s]
    <2>2. t \in TxType
      BY <2>1 DEF TypeOK, TxType
    <2>3. Return(s, t)
      BY <1>12 DEF InsertKey
    <2>4. tx' \in [Sessions -> TxType] /\ pc' \in [Sessions -> Steps]
      BY <2>1, <2>2, <2>3, ReturnType
    <2>5. QED
      BY <1>12, <2>4 DEF InsertKey, TypeOK, dbVars, TxType
  <1>13. ASSUME NEW s \in Sessions, DeadlockVictim(s)
         PROVE  TypeOK'
    <2>1. CASE pc[s] = "key" /\ job[s] = "poll"
      <3>1. cur[s] \in Sources
        BY <2>1 DEF ControlInv
      <3>2. QED
        BY <1>13, <2>1, <3>1 DEF DeadlockVictim, TypeOK, dbVars, Steps
    <2>2. CASE ~(pc[s] = "key" /\ job[s] = "poll")
      BY <1>13, <2>2, RollbackType DEF DeadlockVictim
    <2>3. QED
      BY <2>1, <2>2
  <1>13a. ASSUME NEW s \in Sessions, Raised(s)
          PROVE  TypeOK'
    <2>1. CASE job[s] = "poll"
      BY <1>13a, <2>1 DEF Raised, TypeOK, dbVars, Steps
    <2>2. CASE job[s] # "poll"
      BY <1>13a, <2>2, RollbackType DEF Raised
    <2>3. QED
      BY <2>1, <2>2
  <1>14. ASSUME NEW s \in Sessions, Commit(s)
         PROVE  TypeOK'
    <2>1. tx[s] \in TxType
      BY DEF TypeOK, TxType
    <2>2. key' \in [Sources -> RunIds \cup {NoRun}]
      <3> SUFFICES ASSUME NEW x \in Sources
                   PROVE  (IF \E r \in tx[s].keys : src[r] = x
                           THEN CHOOSE r \in tx[s].keys : src[r] = x
                           ELSE key[x]) \in RunIds \cup {NoRun}
        BY <1>14 DEF Commit
      <3>1. QED
        BY <2>1 DEF TypeOK, TxType
    <2>3. QED
      BY <1>14, <2>1, <2>2, EndType DEF Commit, TypeOK, TxType
  <1>15. ASSUME NEW s \in Sessions, Crash(s)
         PROVE  TypeOK'
    BY <1>15, RollbackType DEF Crash
  <1>16. CASE ClearIdempotency
    BY <1>16 DEF ClearIdempotency, TypeOK, ctlVars
  <1>17. CASE UNCHANGED vars
    BY <1>17 DEF vars, TypeOK
  <1>18. QED
    BY <1>1, <1>2, <1>3, <1>4, <1>5, <1>6, <1>7, <1>9, <1>10, <1>11, <1>12,
       <1>13, <1>13a, <1>14, <1>15, <1>16, <1>17 DEF Next, ProcessRecord

-----------------------------------------------------------------------------
(* Which steps touch what.                                                 *)

\* The steps that leave every table, the registry and all transactions alone.
Quiet(s) ==
    \/ \E x \in Sources : StartEvent(s, x) \/ StartPoll(s, x) \/ NextRecord(s, x)
    \/ \E e \in RunIds : StartReplay(s, e)
    \/ LookupHit(s)

LEMMA QuietFrame ==
    ASSUME NEW s \in Sessions, Quiet(s)
    PROVE  UNCHANGED <<src, ok, failed, dlq, key, delivered, settled, tx, exposed>>
  BY DEF Quiet, StartEvent, StartPoll, NextRecord, StartReplay, Begin,
         LookupHit, dbVars

\* A step of the system is one of these.
LEMMA NextCases ==
    ASSUME [Next]_vars
    PROVE  \/ \E s \in Sessions :
                \/ Quiet(s) \/ LookupMiss(s) \/ SendSucceeds(s) \/ Refused(s)
                \/ ReplyLost(s) \/ Bump(s) \/ InsertKey(s) \/ DeadlockVictim(s)
                \/ Raised(s) \/ Commit(s) \/ Crash(s)
           \/ ClearIdempotency
           \/ UNCHANGED vars
  BY DEF Next, ProcessRecord, Quiet

\* A free run is named by nothing the database or a session knows.
LEMMA FreeIsFresh ==
    ASSUME IInv, NEW r \in FreeRuns
    PROVE  /\ r \in RunIds /\ r \notin ok /\ r \notin failed /\ r \notin dlq
           /\ \A x \in Sources : key[x] # r
           /\ \A t \in Sessions : /\ r \notin tx[t].ok /\ r \notin tx[t].failed
                                  /\ r \notin tx[t].keys /\ run[t] # r
                                  /\ pc[t] # "idle" /\ job[t] = "replay" => entry[t] # r
  <1>1. r \in RunIds /\ r \notin ok /\ r \notin failed /\ r \notin InUse
    BY DEF FreeRuns
  <1>2. r \notin dlq /\ \A x \in Sources : key[x] # r
    BY <1>1 DEF IInv, TablesInv, KeyBacked
  <1>3. ASSUME NEW t \in Sessions
        PROVE  r \notin tx[t].ok /\ r \notin tx[t].failed /\ run[t] # r
    BY <1>1 DEF InUse
  <1>4. ASSUME NEW t \in Sessions
        PROVE  r \notin tx[t].keys
    BY <1>3 DEF IInv, TxInv
  <1>5. ASSUME NEW t \in Sessions, pc[t] # "idle", job[t] = "replay"
        PROVE  entry[t] # r
    BY <1>1, <1>5 DEF IInv, ControlInv
  <1>6. QED
    BY <1>1, <1>2, <1>3, <1>4, <1>5

\* What a session read back as the canonical run is in the registry.
LEMMA CanonicalDelivered ==
    ASSUME IInv, NEW s \in Sessions, NEW r \in ok \cup tx[s].ok
    PROVE  src[r] \in Sources /\ delivered[src[r]] > 0
  BY DEF IInv, TablesInv, TxInv

-----------------------------------------------------------------------------
(* Committed rows.                                                         *)

LEMMA TablesStep == IInv /\ [Next]_vars => TablesInv'
  <1> SUFFICES ASSUME IInv, [Next]_vars PROVE TablesInv'
    OBVIOUS
  <1>1. ASSUME UNCHANGED <<src, ok, failed, dlq, key, settled>>,
               \A x \in Sources : delivered[x] > 0 => delivered'[x] > 0
        PROVE  TablesInv'
    BY <1>1 DEF IInv, TypeOK, TablesInv, NothingLost, KeyBacked
  <1>2. ASSUME NEW s \in Sessions, LookupMiss(s)
        PROVE  TablesInv'
    <2>1. PICK r \in FreeRuns : src' = [src EXCEPT ![r] = cur[s]]
      BY <1>2 DEF LookupMiss
    <2>2. \A q \in ok \cup failed \cup dlq : q \in RunIds /\ src'[q] = src[q]
      BY <2>1, FreeIsFresh DEF IInv, TypeOK
    <2>3. UNCHANGED <<ok, failed, dlq, key, delivered, settled>>
      BY <1>2 DEF LookupMiss
    <2>4. QED
      BY <2>2, <2>3 DEF IInv, TypeOK, TablesInv, NothingLost, KeyBacked
  <1>3. ASSUME NEW s \in Sessions, Commit(s)
        PROVE  TablesInv'
    <2>1. /\ ok' = ok \cup tx[s].ok
          /\ failed' = failed \cup tx[s].failed
          /\ dlq' = (dlq \cup tx[s].failed) \ Replayed(s)
          /\ settled' = settled \cup tx[s].seen
          /\ UNCHANGED <<src, delivered>>
      BY <1>3 DEF Commit
    <2>2. \A e \in Replayed(s) : delivered[src[e]] > 0
      <3> SUFFICES ASSUME job[s] = "replay", run[s] \in ok \cup tx[s].ok
                   PROVE  delivered[src[entry[s]]] > 0
        BY DEF Replayed
      <3>1. pc[s] = "next"
        BY <1>3 DEF Commit, IInv, ControlInv
      <3>2. src[entry[s]] = cur[s] /\ src[run[s]] = cur[s]
        BY <3>1 DEF IInv, ControlInv
      <3>3. QED
        BY <3>2, CanonicalDelivered
    <2>3. dlq' \subseteq failed'
      BY <2>1 DEF IInv, TablesInv
    <2>4. \A r \in ok' : src[r] \in Sources /\ delivered[src[r]] > 0
      BY <2>1, CanonicalDelivered
    <2>5. \A r \in failed' : /\ src[r] \in Sources
                             /\ r \in dlq' \/ delivered[src[r]] > 0
      BY <2>1, <2>2 DEF IInv, TablesInv, TxInv, NothingLost
    <2>6. ASSUME NEW x \in settled'
          PROVE  delivered[x] > 0 \/ \E e \in dlq' : src[e] = x
      BY <2>1, <2>2 DEF IInv, TablesInv, TxInv, NothingLost
    <2>7. ASSUME NEW x \in Sources, key'[x] # NoRun
          PROVE  key'[x] \in ok' /\ src[key'[x]] = x /\ delivered[x] > 0
      <3>1. key'[x] = IF \E r \in tx[s].keys : src[r] = x
                      THEN CHOOSE r \in tx[s].keys : src[r] = x
                      ELSE key[x]
        BY <1>3 DEF Commit
      <3>2. CASE \E r \in tx[s].keys : src[r] = x
        <4>1. key'[x] \in tx[s].keys /\ src[key'[x]] = x
          BY <3>1, <3>2
        <4>2. QED
          BY <4>1, <2>1 DEF IInv, TxInv
      <3>3. CASE ~ \E r \in tx[s].keys : src[r] = x
        BY <3>1, <3>3, <2>7, <2>1 DEF IInv, TablesInv, KeyBacked
      <3>4. QED
        BY <3>2, <3>3
    <2>8. QED
      BY <2>1, <2>3, <2>4, <2>5, <2>6, <2>7
         DEF TablesInv, NothingLost, KeyBacked
  <1>4. CASE ClearIdempotency
    BY <1>4 DEF ClearIdempotency, IInv, TypeOK, TablesInv, NothingLost, KeyBacked
  <1>5. ASSUME NEW s \in Sessions, SendSucceeds(s) \/ ReplyLost(s)
        PROVE  TablesInv'
    <2>1. cur[s] \in Sources /\ delivered' = [delivered EXCEPT ![cur[s]] = @ + 1]
      BY <1>5 DEF SendSucceeds, ReplyLost, IInv, ControlInv
    <2>2. \A x \in Sources : delivered[x] > 0 => delivered'[x] > 0
      BY <2>1 DEF IInv, TypeOK
    <2>3. QED
      BY <1>5, <1>1, <2>2 DEF SendSucceeds, ReplyLost, FailRun, dbVars
  <1>6. ASSUME NEW s \in Sessions,
               Quiet(s) \/ Refused(s) \/ Bump(s) \/ InsertKey(s)
                 \/ DeadlockVictim(s) \/ Raised(s) \/ Crash(s)
        PROVE  TablesInv'
    <2>1. UNCHANGED <<src, ok, failed, dlq, key, settled, delivered>>
      BY <1>6, QuietFrame DEF Refused, FailRun, Bump, InsertKey,
                              DeadlockVictim, Raised, Crash, Rollback, dbVars
    <2>2. QED
      BY <1>1, <2>1
  <1>7. CASE UNCHANGED vars
    BY <1>1, <1>7 DEF vars
  <1>8. QED
    BY <1>2, <1>3, <1>4, <1>5, <1>6, <1>7, NextCases

-----------------------------------------------------------------------------
(* Uncommitted rows and the control state of the sessions.                 *)

\* What a session that is neither s nor free to change keeps.
LEMMA Keep ==
    ASSUME IInv, NEW r \in FreeRuns, NEW x \in Sources,
           src' = [src EXCEPT ![r] = x]
    PROVE  \A t \in Sessions :
             /\ \A q \in ok \cup failed \cup tx[t].ok \cup tx[t].failed \cup tx[t].keys :
                    q \in RunIds /\ src'[q] = src[q]
             /\ run[t] \in RunIds => src'[run[t]] = src[run[t]]
             /\ pc[t] # "idle" /\ job[t] = "replay" => src'[entry[t]] = src[entry[t]]
  <1>1. \A q \in RunIds \ {r} : src'[q] = src[q]
    BY DEF IInv, TypeOK
  <1>2. ASSUME NEW t \in Sessions
        PROVE  /\ \A q \in ok \cup failed \cup tx[t].ok \cup tx[t].failed \cup tx[t].keys :
                      q \in RunIds \ {r}
               /\ run[t] # r
               /\ pc[t] # "idle" /\ job[t] = "replay" => entry[t] \in RunIds \ {r}
    BY FreeIsFresh DEF IInv, TypeOK, ControlInv
  <1>3. QED
    BY <1>1, <1>2

LEMMA TxStep == IInv /\ [Next]_vars => TxInv'
  <1> SUFFICES ASSUME IInv, [Next]_vars PROVE TxInv'
    OBVIOUS
  <1> DEFINE Good(t) ==
        /\ \A r \in t.ok : src[r] \in Sources /\ delivered[src[r]] > 0
        /\ \A r \in t.failed : src[r] \in Sources
        /\ t.keys \subseteq t.ok
        /\ \A x \in t.seen : delivered[x] > 0 \/ \E r \in t.failed : src[r] = x
  <1>1. \A s \in Sessions : Good(tx[s])
    BY DEF IInv, TxInv
  <1>2. ASSUME UNCHANGED <<src, delivered>>, NEW s \in Sessions, NEW t, Good(t),
               tx' = [tx EXCEPT ![s] = t]
        PROVE  TxInv'
    <2>1. \A q \in Sessions : tx'[q] = t \/ tx'[q] = tx[q]
      BY <1>2 DEF IInv, TypeOK
    <2>2. \A q \in Sessions : Good(tx'[q])
      BY <1>1, <1>2, <2>1
    <2>3. QED
      BY <1>2, <2>2 DEF TxInv
  <1>3. ASSUME UNCHANGED <<src, delivered, tx>>
        PROVE  TxInv'
    BY <1>1, <1>3 DEF TxInv
  <1>4. Good(EmptyTx)
    BY DEF EmptyTx
  <1>5. ASSUME NEW s \in Sessions, LookupMiss(s)
        PROVE  TxInv'
    <2>1. cur[s] \in Sources
      BY <1>5 DEF LookupMiss, IInv, ControlInv
    <2>2. PICK r \in FreeRuns : src' = [src EXCEPT ![r] = cur[s]]
      BY <1>5 DEF LookupMiss
    <2>3. UNCHANGED <<delivered, tx>>
      BY <1>5 DEF LookupMiss
    <2>4. \A t \in Sessions : \A q \in tx[t].ok \cup tx[t].failed : src'[q] = src[q]
      BY <2>1, <2>2, Keep
    <2>5. QED
      BY <1>1, <2>3, <2>4 DEF TxInv
  <1>6. ASSUME NEW s \in Sessions, SendSucceeds(s)
        PROVE  TxInv'
    <2>1. /\ cur[s] \in Sources /\ run[s] \in RunIds /\ src[run[s]] = cur[s]
          /\ delivered' = [delivered EXCEPT ![cur[s]] = @ + 1]
          /\ UNCHANGED src
      BY <1>6 DEF SendSucceeds, IInv, ControlInv, dbVars
    <2>2. /\ delivered'[cur[s]] > 0
          /\ \A x \in Sources : delivered[x] > 0 => delivered'[x] > 0
          /\ \A x : x \notin Sources => delivered'[x] = delivered[x]
      BY <2>1 DEF IInv, TypeOK
    <2>3. /\ tx'[s].ok = tx[s].ok \cup {run[s]}
          /\ tx'[s].failed = tx[s].failed
          /\ tx'[s].keys = tx[s].keys
          /\ tx'[s].seen \subseteq tx[s].seen \cup {cur[s]}
          /\ \A t \in Sessions \ {s} : tx'[t] = tx[t]
      <3>1. tx[s] \in TxType
        BY DEF IInv, TypeOK, TxType
      <3>2. CASE cur[s] \in Keyless
        BY <1>6, <3>1, <3>2 DEF SendSucceeds, Return, IInv, TypeOK, TxType
      <3>3. CASE cur[s] \notin Keyless
        <4>1. tx' = [tx EXCEPT ![s] = [tx[s] EXCEPT !.ok = @ \cup {run[s]}]]
          BY <1>6, <3>3 DEF SendSucceeds
        <4>2. tx'[s] = [tx[s] EXCEPT !.ok = @ \cup {run[s]}]
              /\ \A t \in Sessions \ {s} : tx'[t] = tx[t]
          BY <4>1 DEF IInv, TypeOK
        <4>3. QED
          BY <3>1, <4>2 DEF TxType
      <3>4. QED
        BY <3>2, <3>3
    <2>4. \A t \in Sessions : tx[t].seen \subseteq Sources
      BY DEF IInv, TypeOK
    <2>5. QED
      BY <1>1, <2>1, <2>2, <2>3, <2>4 DEF TxInv
  <1>7. ASSUME NEW s \in Sessions, FailRun(s), pc[s] = "send",
               \A x \in Sources : delivered[x] > 0 => delivered'[x] > 0
        PROVE  TxInv'
    <2>1. cur[s] \in Sources /\ run[s] \in RunIds /\ src[run[s]] = cur[s]
      BY <1>7 DEF IInv, ControlInv
    <2>2. /\ tx'[s].ok = tx[s].ok
          /\ tx'[s].failed = tx[s].failed \cup {run[s]}
          /\ tx'[s].keys = tx[s].keys
          /\ tx'[s].seen = tx[s].seen \cup {cur[s]}
          /\ \A t \in Sessions \ {s} : tx'[t] = tx[t]
          /\ UNCHANGED src
      BY <1>7 DEF FailRun, Return, IInv, TypeOK, dbVars
    <2>3. \A t \in Sessions : tx[t].seen \subseteq Sources
      BY DEF IInv, TypeOK
    <2>4. QED
      BY <1>1, <1>7, <2>1, <2>2, <2>3 DEF TxInv
  <1>8. ASSUME NEW s \in Sessions, Refused(s)
        PROVE  TxInv'
    BY <1>7, <1>8 DEF Refused
  <1>9. ASSUME NEW s \in Sessions, ReplyLost(s)
        PROVE  TxInv'
    <2>1. \A x \in Sources : delivered[x] > 0 => delivered'[x] > 0
      BY <1>9 DEF ReplyLost, IInv, TypeOK, ControlInv
    <2>2. QED
      BY <1>7, <1>9, <2>1 DEF ReplyLost
  <1>10. ASSUME NEW s \in Sessions, End(s), UNCHANGED <<src, delivered>>
         PROVE  TxInv'
    BY <1>2, <1>4, <1>10 DEF End
  <1>11. ASSUME NEW s \in Sessions, Rollback(s)
         PROVE  TxInv'
    BY <1>10, <1>11 DEF Rollback, dbVars
  <1>12. ASSUME NEW s \in Sessions, Bump(s)
         PROVE  TxInv'
    <2>1. CASE run[s] \in KeyRuns(s, cur[s])
      <3>1. delivered[cur[s]] > 0
        <4>1. src[run[s]] = cur[s] /\ run[s] \in ok \cup tx[s].ok
          BY <1>12 DEF Bump, IInv, ControlInv
        <4>2. QED
          BY <4>1, CanonicalDelivered
      <3>2. /\ tx'[s].ok = tx[s].ok
            /\ tx'[s].failed = tx[s].failed
            /\ tx'[s].keys = tx[s].keys
            /\ tx'[s].seen = tx[s].seen \cup {cur[s]}
            /\ \A t \in Sessions \ {s} : tx'[t] = tx[t]
            /\ UNCHANGED <<src, delivered>>
        BY <1>12, <2>1 DEF Bump, Return, IInv, TypeOK, dbVars
      <3>3. QED
        BY <1>1, <3>1, <3>2 DEF TxInv
    <2>2. CASE run[s] \notin KeyRuns(s, cur[s])
      BY <1>11, <1>12, <2>2 DEF Bump
    <2>3. QED
      BY <2>1, <2>2
  <1>13. ASSUME NEW s \in Sessions, InsertKey(s)
         PROVE  TxInv'
    <2>1. run[s] \in tx[s].ok /\ src[run[s]] = cur[s]
      BY <1>13 DEF InsertKey, IInv, ControlInv
    <2>2. delivered[cur[s]] > 0
      BY <2>1, CanonicalDelivered
    <2>3. /\ tx'[s].ok = tx[s].ok
          /\ tx'[s].failed = tx[s].failed
          /\ tx'[s].keys \subseteq tx[s].keys \cup {run[s]}
          /\ tx'[s].seen = tx[s].seen \cup {cur[s]}
          /\ \A t \in Sessions \ {s} : tx'[t] = tx[t]
          /\ UNCHANGED <<src, delivered>>
      BY <1>13 DEF InsertKey, Return, IInv, TypeOK, dbVars
    <2>4. QED
      BY <1>1, <2>1, <2>2, <2>3 DEF TxInv
  <1>14. ASSUME NEW s \in Sessions, DeadlockVictim(s) \/ Raised(s)
         PROVE  TxInv'
    BY <1>3, <1>11, <1>14 DEF DeadlockVictim, Raised, dbVars
  <1>15. ASSUME NEW s \in Sessions, Commit(s)
         PROVE  TxInv'
    BY <1>10, <1>15 DEF Commit
  <1>16. ASSUME NEW s \in Sessions, Quiet(s)
         PROVE  TxInv'
    BY <1>3, <1>16, QuietFrame
  <1>17. CASE ClearIdempotency
    BY <1>3, <1>17 DEF ClearIdempotency
  <1>18. CASE UNCHANGED vars
    BY <1>3, <1>18 DEF vars
  <1>19. QED
    BY <1>5, <1>6, <1>8, <1>9, <1>11, <1>12, <1>13, <1>14, <1>15, <1>16, <1>17,
       <1>18, NextCases DEF Crash

-----------------------------------------------------------------------------
(* Where the sessions are.                                                 *)

\* The steps of one session.
Step(s) ==
    \/ Quiet(s) \/ LookupMiss(s) \/ SendSucceeds(s) \/ Refused(s)
    \/ ReplyLost(s) \/ Bump(s) \/ InsertKey(s) \/ DeadlockVictim(s)
    \/ Raised(s) \/ Commit(s) \/ Crash(s)

\* A session moves nobody but itself.
LEMMA OthersStay ==
    ASSUME TypeOK, NEW s \in Sessions, Step(s), NEW t \in Sessions \ {s}
    PROVE  /\ tx'[t] = tx[t] /\ pc'[t] = pc[t] /\ job'[t] = job[t]
           /\ cur'[t] = cur[t] /\ run'[t] = run[t] /\ entry'[t] = entry[t]
  <1>1. ASSUME End(s)
        PROVE  /\ tx'[t] = tx[t] /\ pc'[t] = pc[t] /\ job'[t] = job[t]
               /\ cur'[t] = cur[t] /\ run'[t] = run[t] /\ entry'[t] = entry[t]
    BY <1>1 DEF End, TypeOK
  <1>2. ASSUME NEW u, Return(s, u)
        PROVE  tx'[t] = tx[t] /\ pc'[t] = pc[t]
    BY <1>2 DEF Return, TypeOK
  <1>3. CASE Quiet(s)
    BY <1>3 DEF Quiet, StartEvent, StartPoll, StartReplay, NextRecord, Begin,
                LookupHit, TypeOK
  <1>4. CASE LookupMiss(s)
    BY <1>4 DEF LookupMiss, TypeOK
  <1>5. CASE SendSucceeds(s)
    <2>1. CASE cur[s] \in Keyless
      BY <1>2, <1>5, <2>1 DEF SendSucceeds
    <2>2. CASE cur[s] \notin Keyless
      <3>1. tx' = [tx EXCEPT ![s] = [tx[s] EXCEPT !.ok = @ \cup {run[s]}]]
        BY <1>5, <2>2 DEF SendSucceeds
      <3>2. QED
        BY <1>5, <2>2, <3>1 DEF SendSucceeds, TypeOK
    <2>3. QED
      BY <2>1, <2>2
  <1>6. CASE Refused(s) \/ ReplyLost(s)
    BY <1>2, <1>6 DEF Refused, ReplyLost, FailRun
  <1>7. CASE InsertKey(s)
    BY <1>2, <1>7 DEF InsertKey
  <1>8. CASE Bump(s)
    BY <1>1, <1>2, <1>8 DEF Bump, Rollback
  <1>9. CASE DeadlockVictim(s) \/ Raised(s)
    BY <1>1, <1>9 DEF DeadlockVictim, Raised, Rollback, TypeOK
  <1>10. CASE Commit(s) \/ Crash(s)
    BY <1>1, <1>10 DEF Commit, Crash, Rollback
  <1>11. QED
    BY <1>3, <1>4, <1>5, <1>6, <1>7, <1>8, <1>9, <1>10 DEF Step

\* Runs are neither renamed nor taken back from the tables.
LEMMA RunsStay ==
    ASSUME IInv, NEW s \in Sessions, Step(s)
    PROVE  /\ ok \subseteq ok' /\ failed \subseteq failed'
           /\ \A t \in Sessions :
                /\ \A q \in ok \cup failed \cup tx[t].ok \cup tx[t].failed \cup tx[t].keys :
                       q \in RunIds /\ src'[q] = src[q]
                /\ run[t] \in RunIds => src'[run[t]] = src[run[t]]
                /\ pc[t] # "idle" /\ job[t] = "replay" => src'[entry[t]] = src[entry[t]]
  <1>1. CASE LookupMiss(s)
    <2>1. cur[s] \in Sources
      BY <1>1 DEF LookupMiss, IInv, ControlInv
    <2>2. PICK r \in FreeRuns : src' = [src EXCEPT ![r] = cur[s]]
      BY <1>1 DEF LookupMiss
    <2>3. UNCHANGED <<ok, failed>>
      BY <1>1 DEF LookupMiss
    <2>4. QED
      BY <2>1, <2>2, <2>3, Keep
  <1>2. CASE ~LookupMiss(s)
    <2>1. UNCHANGED src /\ ok \subseteq ok' /\ failed \subseteq failed'
      BY <1>2, QuietFrame
         DEF Step, SendSucceeds, Refused, ReplyLost, FailRun, Bump, InsertKey,
             DeadlockVictim, Raised, Commit, Crash, Rollback, dbVars
    <2>2. QED
      BY <2>1 DEF IInv, TypeOK
  <1>3. QED
    BY <1>1, <1>2

LEMMA ControlStep == IInv /\ [Next]_vars => ControlInv'
  <1> SUFFICES ASSUME IInv, [Next]_vars PROVE ControlInv'
    OBVIOUS
  <1> DEFINE Control(t) ==
        pc[t] # "idle" =>
          /\ cur[t] \in Sources
          /\ pc[t] \in {"send", "key", "bump", "next"} =>
              run[t] \in RunIds /\ src[run[t]] = cur[t]
          /\ pc[t] = "key" => run[t] \in tx[t].ok
          /\ pc[t] = "bump" => run[t] \in ok \cup tx[t].ok
          /\ job[t] = "replay" => entry[t] \in failed /\ src[entry[t]] = cur[t]
          /\ pc[t] = "closing" => job[t] = "poll"
  <1>1. \A t \in Sessions : Control(t)
    BY DEF IInv, ControlInv
  <1>2. ASSUME NEW s \in Sessions, Step(s), NEW t \in Sessions \ {s}
        PROVE  Control(t)'
    BY <1>1, <1>2, OthersStay, RunsStay DEF IInv
  <1>3. ASSUME NEW s \in Sessions, End(s)
        PROVE  Control(s)'
    BY <1>3 DEF End, IInv, TypeOK
  <1>4. ASSUME NEW s \in Sessions, NEW u, Return(s, u), Step(s),
               pc[s] \in {"send", "key", "bump"},
               UNCHANGED <<job, cur, run, entry>>
        PROVE  Control(s)'
    <2>1. pc'[s] = "next"
      BY <1>4 DEF Return, IInv, TypeOK
    <2>2. QED
      BY <1>1, <1>4, <2>1, RunsStay
  <1>5. ASSUME NEW s \in Sessions, Quiet(s)
        PROVE  Control(s)'
    <2>1. ASSUME NEW x \in Sources, StartEvent(s, x) \/ StartPoll(s, x)
          PROVE  Control(s)'
      BY <2>1 DEF StartEvent, StartPoll, Begin, IInv, TypeOK
    <2>2. ASSUME NEW x \in Sources, NextRecord(s, x)
          PROVE  Control(s)'
      BY <2>2 DEF NextRecord, IInv, TypeOK
    <2>3. ASSUME NEW e \in RunIds, StartReplay(s, e)
          PROVE  Control(s)'
      <3>1. e \in failed /\ src[e] \in Sources
        BY <2>3 DEF StartReplay, IInv, TablesInv
      <3>2. /\ pc'[s] = "lookup" /\ cur'[s] = src[e] /\ entry'[s] = e
            /\ failed' = failed /\ src' = src
        BY <2>3 DEF StartReplay, Begin, IInv, TypeOK, dbVars
      <3>3. QED
        BY <3>1, <3>2
    <2>4. ASSUME LookupHit(s)
          PROVE  Control(s)'
      <3>1. PICK r \in RunIds : Duplicate(s, r) /\ run' = [run EXCEPT ![s] = r]
        BY <2>4 DEF LookupHit
      <3>2. src[r] = cur[s] /\ r \in ok \cup tx[s].ok
        BY <3>1 DEF Duplicate, KeyRuns
      <3>3. /\ pc[s] = "lookup" /\ pc'[s] = "bump" /\ run'[s] = r
            /\ UNCHANGED <<src, ok, failed, tx, job, cur, entry>>
        BY <2>4, <3>1 DEF LookupHit, IInv, TypeOK, dbVars
      <3>4. QED
        BY <1>1, <3>2, <3>3
    <2>5. QED
      BY <1>5, <2>1, <2>2, <2>3, <2>4 DEF Quiet
  <1>6. ASSUME NEW s \in Sessions, LookupMiss(s)
        PROVE  Control(s)'
    <2>1. PICK r \in FreeRuns : /\ run' = [run EXCEPT ![s] = r]
                                /\ src' = [src EXCEPT ![r] = cur[s]]
      BY <1>6 DEF LookupMiss
    <2>2. r \in RunIds
      BY DEF FreeRuns
    <2>3. /\ pc[s] = "lookup" /\ pc'[s] = "send"
          /\ run'[s] = r /\ src'[r] = cur[s]
          /\ UNCHANGED <<job, cur, entry, failed>>
      BY <1>6, <2>1, <2>2 DEF LookupMiss, IInv, TypeOK
    <2>4. QED
      BY <1>1, <1>6, <2>2, <2>3, RunsStay DEF Step
  <1>7. ASSUME NEW s \in Sessions, SendSucceeds(s)
        PROVE  Control(s)'
    <2>1. CASE cur[s] \in Keyless
      BY <1>4, <1>7, <2>1 DEF SendSucceeds, Step
    <2>2. CASE cur[s] \notin Keyless
      <3>1. tx' = [tx EXCEPT ![s] = [tx[s] EXCEPT !.ok = @ \cup {run[s]}]]
        BY <1>7, <2>2 DEF SendSucceeds
      <3>2. tx'[s] = [tx[s] EXCEPT !.ok = @ \cup {run[s]}]
        BY <3>1 DEF IInv, TypeOK
      <3>3. run[s] \in tx'[s].ok
        BY <3>2 DEF IInv, TypeOK
      <3>4. /\ pc[s] = "send" /\ pc'[s] = "key"
            /\ UNCHANGED <<src, failed, job, cur, run, entry>>
        BY <1>7, <2>2 DEF SendSucceeds, IInv, TypeOK, dbVars
      <3>5. QED
        BY <1>1, <3>3, <3>4
    <2>3. QED
      BY <2>1, <2>2
  <1>8. ASSUME NEW s \in Sessions, Refused(s) \/ ReplyLost(s) \/ InsertKey(s)
        PROVE  Control(s)'
    BY <1>4, <1>8 DEF Refused, ReplyLost, FailRun, InsertKey, Step
  <1>9. ASSUME NEW s \in Sessions, Bump(s)
        PROVE  Control(s)'
    BY <1>3, <1>4, <1>9 DEF Bump, Rollback, Step
  <1>10. ASSUME NEW s \in Sessions, DeadlockVictim(s)
         PROVE  Control(s)'
    <2>1. CASE pc[s] = "key" /\ job[s] = "poll"
      <3>1. pc'[s] = "closing" /\ UNCHANGED <<job, cur, entry>>
        BY <1>10, <2>1 DEF DeadlockVictim, IInv, TypeOK
      <3>2. QED
        BY <1>1, <2>1, <3>1
    <2>2. CASE ~(pc[s] = "key" /\ job[s] = "poll")
      BY <1>3, <1>10, <2>2 DEF DeadlockVictim, Rollback
    <2>3. QED
      BY <2>1, <2>2
  <1>10a. ASSUME NEW s \in Sessions, Raised(s)
          PROVE  Control(s)'
    <2>1. CASE job[s] = "poll"
      <3>1. pc[s] = "send" /\ pc'[s] = "closing" /\ UNCHANGED <<job, cur, entry>>
        BY <1>10a, <2>1 DEF Raised, IInv, TypeOK
      <3>2. QED
        BY <1>1, <2>1, <3>1
    <2>2. CASE job[s] # "poll"
      BY <1>3, <1>10a, <2>2 DEF Raised, Rollback
    <2>3. QED
      BY <2>1, <2>2
  <1>11. ASSUME NEW s \in Sessions, Commit(s) \/ Crash(s)
         PROVE  Control(s)'
    BY <1>3, <1>11 DEF Commit, Crash, Rollback
  <1>12. ASSUME NEW s \in Sessions, Step(s)
         PROVE  ControlInv'
    <2>1. Control(s)'
      BY <1>5, <1>6, <1>7, <1>8, <1>9, <1>10, <1>10a, <1>11, <1>12 DEF Step
    <2>2. \A t \in Sessions : Control(t)'
      BY <1>2, <1>12, <2>1
    <2>3. QED
      BY <2>2 DEF ControlInv
  <1>13. CASE ClearIdempotency \/ UNCHANGED vars
    BY <1>13 DEF ClearIdempotency, vars, ctlVars, IInv, ControlInv
  <1>14. QED
    BY <1>12, <1>13, NextCases DEF Step

-----------------------------------------------------------------------------
(* Key rows.                                                               *)

\* What the steps that insert no key and commit nothing do to keys: nothing
\* but forget them.
LEMMA KeysShrink ==
    ASSUME IInv, NEW s \in Sessions, Step(s), ~InsertKey(s), ~Commit(s)
    PROVE  key' = key /\ tx'[s].keys \subseteq tx[s].keys
  <1> USE DEF IInv
  <1>1. tx[s] \in TxType
    BY DEF TypeOK, TxType
  <1>2. ASSUME End(s)
        PROVE  tx'[s].keys \subseteq tx[s].keys
    BY <1>2 DEF End, EmptyTx, TypeOK
  <1>3. ASSUME NEW u, Return(s, u)
        PROVE  tx'[s].keys = u.keys
    BY <1>3 DEF Return, TypeOK
  <1>4. CASE Quiet(s)
    BY <1>4, QuietFrame
  <1>5. CASE LookupMiss(s)
    BY <1>5 DEF LookupMiss
  <1>6. CASE SendSucceeds(s)
    <2> DEFINE t == [tx[s] EXCEPT !.ok = @ \cup {run[s]}]
    <2>1. Return(s, t) \/ tx' = [tx EXCEPT ![s] = t]
      BY <1>6 DEF SendSucceeds
    <2>2. tx'[s].keys = t.keys
      BY <1>3, <2>1 DEF TypeOK
    <2>3. QED
      BY <1>1, <1>6, <2>2 DEF SendSucceeds, dbVars, TxType
  <1>7. CASE Refused(s) \/ ReplyLost(s)
    BY <1>1, <1>3, <1>7 DEF Refused, ReplyLost, FailRun, dbVars, TxType
  <1>8. CASE Bump(s)
    BY <1>1, <1>2, <1>3, <1>8 DEF Bump, Rollback, dbVars, TxType
  <1>9. CASE DeadlockVictim(s) \/ Raised(s) \/ Crash(s)
    BY <1>2, <1>9 DEF DeadlockVictim, Raised, Crash, Rollback, dbVars
  <1>10. QED
    BY <1>4, <1>5, <1>6, <1>7, <1>8, <1>9 DEF Step

LEMMA LockStep == IInv /\ [Next]_vars => LockInv'
  <1> SUFFICES ASSUME IInv, [Next]_vars PROVE LockInv'
    OBVIOUS
  <1>1. ASSUME \A t \in Sessions : /\ tx'[t].keys \subseteq tx[t].keys
                                   /\ \A q \in tx[t].keys : src'[q] = src[q],
               \A x \in Sources : key'[x] \in {key[x], NoRun}
        PROVE  LockInv'
    <2>1. \A t \in Sessions : \A q \in tx[t].keys : src[q] \in Sources
      BY DEF IInv, TxInv
    <2>2. QED
      BY <1>1, <2>1 DEF IInv, LockInv
  <1>2. ASSUME NEW s \in Sessions, Step(s), ~InsertKey(s), ~Commit(s)
        PROVE  LockInv'
    <2>1. \A t \in Sessions : /\ tx'[t].keys \subseteq tx[t].keys
                              /\ \A q \in tx[t].keys : src'[q] = src[q]
      BY <1>2, KeysShrink, OthersStay, RunsStay DEF IInv
    <2>2. QED
      BY <1>1, <1>2, <2>1, KeysShrink
  <1>3. ASSUME NEW s \in Sessions, InsertKey(s)
        PROVE  LockInv'
    <2>1. /\ run[s] \in tx[s].ok /\ src[run[s]] = cur[s]
          /\ \A t \in Sessions \ {s} : tx'[t] = tx[t]
          /\ UNCHANGED <<src, key>>
      BY <1>3, OthersStay DEF InsertKey, IInv, ControlInv, Step, dbVars
    <2>2. \/ tx'[s].keys = tx[s].keys
          \/ key[cur[s]] = NoRun /\ tx'[s].keys = tx[s].keys \cup {run[s]}
      <3>1. tx[s] \in TxType
        BY DEF IInv, TypeOK, TxType
      <3>2. QED
        BY <1>3, <3>1 DEF InsertKey, Return, IInv, TypeOK, TxType
    <2>3. \A t \in Sessions \ {s} : \A q \in tx[t].keys : src[q] # cur[s]
      BY <1>3 DEF InsertKey, Blockers, Locks
    <2>4. QED
      BY <2>1, <2>2, <2>3 DEF IInv, LockInv
  <1>4. ASSUME NEW s \in Sessions, Commit(s)
        PROVE  LockInv'
    <2>1. /\ \A t \in Sessions \ {s} : tx'[t] = tx[t]
          /\ tx'[s].keys = {}
          /\ UNCHANGED src
      BY <1>4, OthersStay DEF Commit, End, EmptyTx, IInv, TypeOK, Step
    <2>2. ASSUME NEW t \in Sessions \ {s}, NEW r \in tx[t].keys
          PROVE  key'[src[r]] = NoRun
      <3>1. src[r] \in Sources
        BY DEF IInv, TxInv
      <3>2. ~ \E q \in tx[s].keys : src[q] = src[r]
        BY DEF IInv, LockInv
      <3>3. key'[src[r]] = key[src[r]]
        BY <1>4, <3>1, <3>2 DEF Commit
      <3>4. QED
        BY <3>3 DEF IInv, LockInv
    <2>3. QED
      BY <2>1, <2>2 DEF IInv, LockInv
  <1>5. CASE ClearIdempotency
    BY <1>1, <1>5 DEF ClearIdempotency
  <1>6. CASE UNCHANGED vars
    BY <1>1, <1>6 DEF vars
  <1>7. QED
    BY <1>2, <1>3, <1>4, <1>5, <1>6, NextCases DEF Step

-----------------------------------------------------------------------------
(* One delivery.                                                           *)

\* The part of OnceInv about record x.
OnceAt(x) ==
    /\ delivered[x] <= 1
    /\ delivered[x] = 1 => key[x] # NoRun \/ \E s \in Sessions : Pending(s, x)
    /\ \A s \in Sessions : pc[s] = "send" /\ cur[s] = x => delivered[x] = 0
    /\ \A s, t \in Sessions : Active(s, x) /\ Active(t, x) => s = t

\* What another session does leaves a session as active and as pending as it was.
LEMMA OthersActive ==
    ASSUME IInv, NEW s \in Sessions, Step(s), NEW t \in Sessions \ {s}, NEW x
    PROVE  /\ Active(t, x)' <=> Active(t, x)
           /\ Pending(t, x)' <=> Pending(t, x)
           /\ pc'[t] = "send" /\ cur'[t] = x <=> pc[t] = "send" /\ cur[t] = x
  <1>1. tx'[t] = tx[t] /\ pc'[t] = pc[t] /\ cur'[t] = cur[t]
    BY OthersStay DEF IInv
  <1>2. \A q \in tx[t].ok \cup tx[t].keys : src'[q] = src[q]
    BY RunsStay
  <1>3. QED
    BY <1>1, <1>2 DEF Active, Pending

\* A step of s preserves OnceAt(x) if it does not deliver x, does not make s
\* start on x, and does not lose the evidence of a delivery.
LEMMA OnceKept ==
    ASSUME IInv, NEW s \in Sessions, Step(s), NEW x, OnceAt(x),
           delivered'[x] = delivered[x],
           Active(s, x)' => Active(s, x),
           pc'[s] = "send" /\ cur'[s] = x => pc[s] = "send" /\ cur[s] = x,
           key[x] # NoRun => key'[x] # NoRun,
           Pending(s, x) => key'[x] # NoRun \/ Pending(s, x)'
    PROVE  OnceAt(x)'
  BY OthersActive DEF OnceAt

\* After a rollback whose sends are exposed, s has nothing to do with x.
LEMMA OnceRollback ==
    ASSUME IInv, NEW s \in Sessions, Step(s), Rollback(s),
           NEW x \in Sources, x \notin exposed', OnceAt(x)
    PROVE  OnceAt(x)'
  <1>1. /\ UNCHANGED <<key, delivered>>
        /\ pc'[s] = "idle" /\ tx'[s] = EmptyTx
    BY DEF Rollback, End, IInv, TypeOK, dbVars
  <1>2. ~ \E r \in tx[s].ok : src[r] = x
    BY DEF Rollback
  <1>3. ~Pending(s, x)
    BY <1>2 DEF Pending, IInv, TxInv, ControlInv
  <1>4. ~Active(s, x)'
    BY <1>1 DEF Active, EmptyTx
  <1>5. QED
    BY <1>1, <1>3, <1>4, OnceKept

LEMMA OnceLookupMiss ==
    ASSUME IInv, NEW s \in Sessions, LookupMiss(s),
           NEW x \in Sources \ Keyless, x \notin exposed', OnceAt(x)
    PROVE  OnceAt(x)'
  <1> USE DEF IInv
  <1>1. PICK r \in FreeRuns : /\ run' = [run EXCEPT ![s] = r]
                              /\ src' = [src EXCEPT ![r] = cur[s]]
    BY DEF LookupMiss
  <1>2. /\ pc[s] = "lookup" /\ pc'[s] = "send"
        /\ UNCHANGED <<ok, key, delivered, tx, cur>>
    BY DEF LookupMiss, TypeOK
  <1>3. \A q \in tx[s].ok \cup tx[s].keys : src'[q] = src[q]
    BY RunsStay DEF Step
  <1>4. CASE cur[s] # x
    BY <1>2, <1>3, <1>4, OnceKept DEF Step, Active, Pending
  <1>5. CASE cur[s] = x
    <2>1. \A q \in RunIds : ~Duplicate(s, q)
      BY DEF LookupMiss
    <2>2. ~Overlaps(s, x)
      BY <1>5 DEF LookupMiss
    <2>3. key[x] = NoRun
      <3> SUFFICES ASSUME key[x] # NoRun PROVE FALSE
        OBVIOUS
      <3>1. key[x] \in RunIds /\ key[x] \in ok /\ src[key[x]] = x
        BY DEF TypeOK, TablesInv, KeyBacked
      <3>2. QED
        BY <1>5, <2>1, <3>1 DEF Duplicate, KeyRuns
    <2>4. ~ \E q \in tx[s].keys : src[q] = x
      <3> SUFFICES ASSUME NEW q \in tx[s].keys, src[q] = x PROVE FALSE
        OBVIOUS
      <3>1. q \in RunIds /\ q # NoRun /\ q \in tx[s].ok
        BY DEF TypeOK, TxInv
      <3>2. QED
        BY <1>5, <2>1, <3>1 DEF Duplicate, KeyRuns
    <2>5. \A t \in Sessions : ~Pending(t, x)
      <3>1. ~Pending(s, x)
        BY <1>2, <2>4 DEF Pending
      <3>2. \A t \in Sessions \ {s} : ~Pending(t, x)
        BY <2>2 DEF Pending, Overlaps, TxInv
      <3>3. QED
        BY <3>1, <3>2
    <2>6. delivered[x] = 0
      BY <2>3, <2>5 DEF OnceAt, TypeOK
    <2>7. \A t \in Sessions \ {s} : ~Active(t, x)'
      <3>1. \A t \in Sessions \ {s} : ~Active(t, x)
        BY <2>2 DEF Active, Overlaps
      <3>2. QED
        BY <3>1, OthersActive DEF Step
    <2>8. QED
      BY <1>2, <2>6, <2>7 DEF OnceAt
  <1>6. QED
    BY <1>4, <1>5

LEMMA OnceSend ==
    ASSUME IInv, NEW s \in Sessions, SendSucceeds(s),
           NEW x \in Sources \ Keyless, x \notin exposed', OnceAt(x)
    PROVE  OnceAt(x)'
  <1> USE DEF IInv
  <1>1. /\ pc[s] = "send" /\ cur[s] \in Sources
        /\ run[s] \in RunIds /\ src[run[s]] = cur[s]
        /\ delivered' = [delivered EXCEPT ![cur[s]] = @ + 1]
        /\ UNCHANGED <<src, key, cur>>
    BY DEF SendSucceeds, ControlInv, dbVars
  <1> DEFINE u == [tx[s] EXCEPT !.ok = @ \cup {run[s]}]
  <1>2. /\ tx'[s].ok = tx[s].ok \cup {run[s]}
        /\ tx'[s].keys = tx[s].keys
        /\ pc'[s] = IF cur[s] \in Keyless THEN "next" ELSE "key"
    <2>1. tx[s] \in TxType
      BY DEF TypeOK, TxType
    <2>2. CASE cur[s] \in Keyless
      <3>1. Return(s, u)
        BY <2>2 DEF SendSucceeds
      <3>2. QED
        BY <2>1, <2>2, <3>1 DEF Return, TypeOK, TxType
    <2>3. CASE cur[s] \notin Keyless
      <3>1. tx' = [tx EXCEPT ![s] = u] /\ pc' = [pc EXCEPT ![s] = "key"]
        BY <2>3 DEF SendSucceeds
      <3>2. tx'[s] = u /\ pc'[s] = "key"
        BY <3>1 DEF TypeOK
      <3>3. QED
        BY <2>1, <2>3, <3>2 DEF TxType
    <2>4. QED
      BY <2>2, <2>3
  <1>3. CASE cur[s] # x
    <2>1. delivered'[x] = delivered[x]
      BY <1>1, <1>3 DEF TypeOK
    <2>2. Active(s, x)' => Active(s, x)
      BY <1>1, <1>2, <1>3 DEF Active
    <2>3. Pending(s, x) => Pending(s, x)'
      BY <1>1, <1>2, <1>3 DEF Pending
    <2>4. pc'[s] # "send"
      BY <1>2
    <2>5. QED
      BY <1>1, <2>1, <2>2, <2>3, <2>4, OnceKept DEF Step
  <1>4. CASE cur[s] = x
    <2>1. delivered[x] = 0
      BY <1>1, <1>4 DEF OnceAt
    <2>2. delivered'[x] = 1
      BY <1>1, <1>4, <2>1 DEF TypeOK
    <2>3. pc'[s] = "key" /\ cur'[s] = x
      BY <1>1, <1>2, <1>4
    <2>4. Pending(s, x)'
      BY <2>3 DEF Pending
    <2>5. Active(s, x)
      BY <1>1, <1>4 DEF Active
    <2>6. \A t \in Sessions \ {s} : ~Active(t, x)
      BY <2>5 DEF OnceAt
    <2>7. \A t \in Sessions \ {s} : ~Active(t, x)' /\ ~(pc'[t] = "send" /\ cur'[t] = x)
      BY <2>6, OthersActive DEF Step, Active
    <2>8. QED
      BY <2>2, <2>3, <2>4, <2>7 DEF OnceAt
  <1>5. QED
    BY <1>3, <1>4

LEMMA OnceInsertKey ==
    ASSUME IInv, NEW s \in Sessions, InsertKey(s),
           NEW x \in Sources \ Keyless, x \notin exposed', OnceAt(x)
    PROVE  OnceAt(x)'
  <1> USE DEF IInv
  <1>1. /\ pc[s] = "key" /\ pc'[s] = "next"
        /\ run[s] \in tx[s].ok /\ src[run[s]] = cur[s]
        /\ UNCHANGED <<src, key, delivered, cur>>
    BY DEF InsertKey, Return, ControlInv, TypeOK, dbVars
  <1>2. /\ tx'[s].ok = tx[s].ok
        /\ tx[s].keys \subseteq tx'[s].keys
        /\ key[cur[s]] = NoRun => run[s] \in tx'[s].keys
    <2>1. tx[s] \in TxType
      BY DEF TypeOK, TxType
    <2>2. QED
      BY <2>1 DEF InsertKey, Return, TypeOK, TxType
  <1>3. Active(s, x)' => Active(s, x)
    BY <1>1, <1>2 DEF Active
  <1>4. Pending(s, x) => key'[x] # NoRun \/ Pending(s, x)'
    BY <1>1, <1>2 DEF Pending
  <1>5. QED
    BY <1>1, <1>3, <1>4, OnceKept DEF Step

LEMMA OnceCommit ==
    ASSUME IInv, NEW s \in Sessions, Commit(s),
           NEW x \in Sources \ Keyless, x \notin exposed', OnceAt(x)
    PROVE  OnceAt(x)'
  <1> USE DEF IInv
  <1>1. /\ pc[s] \in {"next", "closing"} /\ pc'[s] = "idle"
        /\ tx'[s] = EmptyTx
        /\ UNCHANGED <<src, delivered>>
    BY DEF Commit, End, TypeOK
  <1>2. key'[x] = IF \E r \in tx[s].keys : src[r] = x
                  THEN CHOOSE r \in tx[s].keys : src[r] = x
                  ELSE key[x]
    BY DEF Commit
  <1>3. Pending(s, x) => key'[x] # NoRun
    BY <1>1, <1>2 DEF Pending, TypeOK
  <1>4. key[x] # NoRun => key'[x] # NoRun
    BY <1>2 DEF TypeOK
  <1>5. ~Active(s, x)'
    BY <1>1 DEF Active, EmptyTx
  <1>6. QED
    BY <1>1, <1>3, <1>4, <1>5, OnceKept DEF Step

LEMMA OnceStep == IInv /\ [Next]_vars => OnceInv'
  <1> SUFFICES ASSUME IInv, [Next]_vars,
                      NEW x \in Sources \ Keyless, x \notin exposed'
               PROVE  OnceAt(x)'
    BY DEF OnceInv, OnceAt
  <1>1. x \notin exposed
    BY NextCases, QuietFrame
       DEF LookupMiss, SendSucceeds, Refused, ReplyLost, FailRun, Bump, InsertKey,
           DeadlockVictim, Raised, Rollback, Commit, Crash, ClearIdempotency, vars
  <1>2. OnceAt(x)
    BY <1>1 DEF IInv, OnceInv, OnceAt
  <1>3. ASSUME NEW s \in Sessions, Quiet(s)
        PROVE  OnceAt(x)'
    <2>1. UNCHANGED <<src, key, delivered, tx>>
      BY <1>3, QuietFrame
    <2>2. pc[s] \notin {"send", "key"} /\ pc'[s] \notin {"send", "key"}
      BY <1>3 DEF Quiet, StartEvent, StartPoll, StartReplay, NextRecord, Begin,
                  LookupHit, IInv, TypeOK
    <2>3. QED
      BY <1>2, <1>3, <2>1, <2>2, OnceKept DEF Step, Active, Pending
  <1>4. ASSUME NEW s \in Sessions, Refused(s) \/ ReplyLost(s)
        PROVE  OnceAt(x)'
    <2>1. /\ pc[s] = "send" /\ pc'[s] = "next"
          /\ tx'[s].ok = tx[s].ok /\ tx'[s].keys = tx[s].keys
          /\ UNCHANGED <<src, key, cur>>
      <3>1. tx[s] \in TxType
        BY DEF IInv, TypeOK, TxType
      <3>2. QED
        BY <1>4, <3>1 DEF Refused, ReplyLost, FailRun, Return, IInv, TypeOK,
                          TxType, dbVars
    <2>2. delivered'[x] = delivered[x]
      BY <1>4 DEF Refused, ReplyLost, IInv, TypeOK
    <2>3. QED
      BY <1>2, <1>4, <2>1, <2>2, OnceKept DEF Step, Active, Pending
  <1>5. ASSUME NEW s \in Sessions, Bump(s)
        PROVE  OnceAt(x)'
    <2>1. CASE run[s] \in KeyRuns(s, cur[s])
      <3>1. tx[s] \in TxType
        BY DEF IInv, TypeOK, TxType
      <3>2. /\ pc[s] = "bump" /\ pc'[s] = "next"
            /\ tx'[s].ok = tx[s].ok /\ tx'[s].keys = tx[s].keys
            /\ UNCHANGED <<src, key, delivered, cur>>
        BY <1>5, <2>1, <3>1 DEF Bump, Return, IInv, TypeOK, TxType, dbVars
      <3>3. QED
        BY <1>2, <1>5, <3>2, OnceKept DEF Step, Active, Pending
    <2>2. CASE run[s] \notin KeyRuns(s, cur[s])
      BY <1>2, <1>5, <2>2, OnceRollback DEF Bump, Step
    <2>3. QED
      BY <2>1, <2>2
  <1>6. ASSUME NEW s \in Sessions, DeadlockVictim(s)
        PROVE  OnceAt(x)'
    <2>1. CASE pc[s] = "key" /\ job[s] = "poll"
      <3>1. /\ cur[s] # x /\ pc'[s] = "closing"
            /\ UNCHANGED <<src, key, delivered, tx, cur>>
        BY <1>6, <2>1 DEF DeadlockVictim, IInv, TypeOK, dbVars
      <3>2. QED
        BY <1>2, <1>6, <2>1, <3>1, OnceKept DEF Step, Active, Pending
    <2>2. CASE ~(pc[s] = "key" /\ job[s] = "poll")
      BY <1>2, <1>6, <2>2, OnceRollback DEF DeadlockVictim, Step
    <2>3. QED
      BY <2>1, <2>2
  <1>6a. ASSUME NEW s \in Sessions, Raised(s)
         PROVE  OnceAt(x)'
    <2>1. CASE job[s] = "poll"
      <3>1. /\ pc[s] = "send" /\ pc'[s] = "closing"
            /\ UNCHANGED <<src, key, delivered, tx, cur>>
        BY <1>6a, <2>1 DEF Raised, IInv, TypeOK, dbVars
      <3>2. QED
        BY <1>2, <1>6a, <3>1, OnceKept DEF Step, Active, Pending
    <2>2. CASE job[s] # "poll"
      BY <1>2, <1>6a, <2>2, OnceRollback DEF Raised, Step
    <2>3. QED
      BY <2>1, <2>2
  <1>7. ASSUME NEW s \in Sessions, Crash(s)
        PROVE  OnceAt(x)'
    BY <1>2, <1>7, OnceRollback DEF Crash, Step
  <1>8. CASE ClearIdempotency
    <2>1. key[x] = NoRun /\ key'[x] = NoRun
      BY <1>8 DEF ClearIdempotency
    <2>2. UNCHANGED <<src, delivered, tx, pc, cur>>
      BY <1>8 DEF ClearIdempotency, ctlVars
    <2>3. QED
      BY <1>2, <2>1, <2>2 DEF OnceAt, Active, Pending
  <1>9. CASE UNCHANGED vars
    BY <1>2, <1>9 DEF vars, OnceAt, Active, Pending
  <1>10. QED
    BY <1>2, <1>3, <1>4, <1>5, <1>6, <1>6a, <1>7, <1>8, <1>9, OnceLookupMiss, OnceSend,
       OnceInsertKey, OnceCommit, NextCases

-----------------------------------------------------------------------------
(* The theorems.                                                           *)

LEMMA InitIInv == Init => IInv
  <1> SUFFICES ASSUME Init PROVE IInv
    OBVIOUS
  <1>1. TypeOK
    BY InitTypeOK
  <1>2. TablesInv
    BY DEF Init, TablesInv, NothingLost, KeyBacked
  <1>3. TxInv /\ ControlInv /\ LockInv
    BY DEF Init, EmptyTx, TxInv, ControlInv, LockInv
  <1>4. OnceInv
    BY DEF Init, EmptyTx, OnceInv, Active
  <1>5. QED
    BY <1>1, <1>2, <1>3, <1>4 DEF IInv

LEMMA StepIInv == IInv /\ [Next]_vars => IInv'
  BY TypeStep, TablesStep, TxStep, ControlStep, LockStep, OnceStep DEF IInv

\* IInv holds in every reachable state, for every set of sessions and records.
THEOREM Inductive == Spec => []IInv
  BY InitIInv, StepIInv, PTL DEF Spec

\* Every reachable state is well typed.
THEOREM TypeCorrect == Spec => []TypeOK
  <1>1. IInv => TypeOK
    BY DEF IInv
  <1>2. QED
    BY <1>1, Inductive, PTL

\* A record that the service considers dealt with is in the registry or in the
\* dead-letter queue, whatever fails, crashes or is cleared.
THEOREM NoRecordLost == Spec => []NothingLost
  <1>1. IInv => NothingLost
    BY DEF IInv, TablesInv
  <1>2. QED
    BY <1>1, Inductive, PTL

\* A committed idempotency key names a committed SUCCESS run of its record.
THEOREM KeysAreBacked == Spec => []KeyBacked
  <1>1. IInv => KeyBacked
    BY DEF IInv, TablesInv
  <1>2. QED
    BY <1>1, Inductive, PTL

\* Short of the accidents and overlaps that `exposed' records, a record with a
\* source_event_id reaches the registry once at most.
THEOREM DeliveredOnce == Spec => []OnceUnlessExposed
  <1>1. IInv => OnceUnlessExposed
    BY DEF IInv, OnceInv, OnceUnlessExposed
  <1>2. QED
    BY <1>1, Inductive, PTL

\* No race redirects a committed key.
THEOREM KeysAreStable == Spec => KeyStable
  <1>1. ASSUME IInv, [Next]_vars
        PROVE  [\A x \in Sources : key[x] # NoRun => key'[x] \in {key[x], NoRun}]_vars
    <2> SUFFICES ASSUME NEW x \in Sources, key[x] # NoRun
                 PROVE  key'[x] \in {key[x], NoRun}
      OBVIOUS
    <2>1. ASSUME NEW s \in Sessions, Commit(s)
          PROVE  key'[x] = key[x]
      <3>1. ~ \E r \in tx[s].keys : src[r] = x
        BY <1>1 DEF IInv, LockInv
      <3>2. QED
        BY <2>1, <3>1 DEF Commit
    <2>2. ASSUME NEW s \in Sessions, InsertKey(s)
          PROVE  key'[x] = key[x]
      BY <2>2 DEF InsertKey, dbVars
    <2>3. ASSUME NEW s \in Sessions, Step(s), ~InsertKey(s), ~Commit(s)
          PROVE  key'[x] = key[x]
      BY <1>1, <2>3, KeysShrink
    <2>4. CASE ClearIdempotency \/ UNCHANGED vars
      BY <2>4, <1>1 DEF ClearIdempotency, vars
    <2>5. QED
      BY <1>1, <2>1, <2>2, <2>3, <2>4, NextCases DEF Step
  <1>2. QED
    BY <1>1, Inductive, PTL DEF Spec, KeyStable

-----------------------------------------------------------------------------
(* Refinement: Ingestion implements Delivery.                              *)

Received == {x \in Sources : delivered[x] > 0}
Parked == {src[e] : e \in dlq}

LEMMA RefineInit == Init => Promise!Init
  BY DEF Init, Promise!Init

\* A commit closes the books on the records of the transaction.
LEMMA RefineCommit ==
    ASSUME IInv, IInv', NEW s \in Sessions, Commit(s)
    PROVE  Promise!Next
  <1>1. /\ dlq' = (dlq \cup tx[s].failed) \ Replayed(s)
        /\ settled' = settled \cup tx[s].seen
        /\ UNCHANGED <<src, delivered>>
    BY DEF Commit
  <1>2. \A e \in Replayed(s) : src[e] \in Received
    <2> SUFFICES ASSUME job[s] = "replay", run[s] \in ok \cup tx[s].ok
                 PROVE  src[entry[s]] \in Received
      BY DEF Replayed
    <2>1. pc[s] = "next"
      BY DEF Commit, IInv, ControlInv
    <2>2. src[entry[s]] = cur[s] /\ src[run[s]] = cur[s]
      BY <2>1 DEF IInv, ControlInv
    <2>3. QED
      BY <2>2, CanonicalDelivered DEF Received
  <1>3. Parked' \in SUBSET Sources
    BY DEF Parked, IInv, TablesInv
  <1>4. tx[s].seen \in SUBSET Sources
    BY DEF IInv, TypeOK
  <1>5. Parked \ Parked' \subseteq Received
    BY <1>1, <1>2 DEF Parked
  <1>6. tx[s].seen \subseteq Received \cup Parked'
    <2> SUFFICES ASSUME NEW x \in tx[s].seen, x \notin Received
                 PROVE  x \in Parked'
      OBVIOUS
    <2>1. PICK r \in tx[s].failed : src[r] = x
      BY <1>4 DEF Received, IInv, TxInv
    <2>2. r \in dlq' /\ src'[r] = x
      BY <1>1, <1>2, <2>1
    <2>3. QED
      BY <2>2 DEF Parked
  <1>7. Received' = Received
    BY <1>1 DEF Received
  <1>8. \E done, stays \in SUBSET Sources :
          /\ Parked \ stays \subseteq Received
          /\ done \subseteq Received \cup stays
          /\ Parked' = stays
          /\ settled' = settled \cup done
    BY <1>1, <1>3, <1>4, <1>5, <1>6
  <1>9. QED
    BY <1>7, <1>8 DEF Promise!Next, Promise!Settle, Received, Parked

\* A send, answered or not, is an acceptance.
LEMMA RefineSend ==
    ASSUME IInv, NEW s \in Sessions, SendSucceeds(s) \/ ReplyLost(s)
    PROVE  Promise!Next
  <1>1. /\ cur[s] \in Sources
        /\ delivered' = [delivered EXCEPT ![cur[s]] = @ + 1]
        /\ UNCHANGED <<src, dlq, settled>>
    BY DEF SendSucceeds, ReplyLost, FailRun, IInv, ControlInv, dbVars
  <1>2. Received' = Received \cup {cur[s]}
    BY <1>1 DEF Received, IInv, TypeOK
  <1>3. Parked' = Parked
    BY <1>1 DEF Parked
  <1>4. \E x \in Sources : Received' = Received \cup {x}
    BY <1>1, <1>2
  <1>5. QED
    BY <1>1, <1>3, <1>4 DEF Promise!Next, Promise!Accept, Received, Parked

\* Every other step is invisible.
LEMMA RefineStutter ==
    ASSUME IInv, UNCHANGED <<dlq, delivered, settled>>,
           \A e \in dlq : src'[e] = src[e]
    PROVE  UNCHANGED Promise!vars
  <1>1. Received' = Received
    BY DEF Received
  <1>2. Parked' = Parked
    BY DEF Parked
  <1>3. QED
    BY <1>1, <1>2 DEF Promise!vars, Received, Parked

LEMMA RefineStep == IInv /\ IInv' /\ [Next]_vars => [Promise!Next]_Promise!vars
  <1> SUFFICES ASSUME IInv, IInv', [Next]_vars
               PROVE  Promise!Next \/ UNCHANGED Promise!vars
    OBVIOUS
  <1>1. ASSUME NEW s \in Sessions, LookupMiss(s)
        PROVE  UNCHANGED Promise!vars
    <2>1. \A e \in dlq : src'[e] = src[e]
      BY <1>1, RunsStay DEF Step, IInv, TablesInv
    <2>2. QED
      BY <1>1, <2>1, RefineStutter DEF LookupMiss
  <1>2. ASSUME NEW s \in Sessions,
               Quiet(s) \/ Refused(s) \/ Bump(s) \/ InsertKey(s)
                 \/ DeadlockVictim(s) \/ Raised(s) \/ Crash(s)
        PROVE  UNCHANGED Promise!vars
    <2>1. UNCHANGED <<src, dlq, settled, delivered>>
      BY <1>2, QuietFrame DEF Refused, FailRun, Bump, InsertKey,
                              DeadlockVictim, Raised, Crash, Rollback, dbVars
    <2>2. QED
      BY <2>1, RefineStutter
  <1>3. CASE ClearIdempotency \/ UNCHANGED vars
    BY <1>3, RefineStutter DEF ClearIdempotency, vars
  <1>4. QED
    BY <1>1, <1>2, <1>3, RefineCommit, RefineSend, NextCases

\* process_record, with all its callers, keeps the promise of Delivery.
THEOREM Refinement == Spec => ImplementsDelivery
  <1>1. Init => Promise!Init
    BY RefineInit
  <1>2. IInv /\ IInv' /\ [Next]_vars => [Promise!Next]_Promise!vars
    BY RefineStep
  <1>3. QED
    BY <1>1, <1>2, Inductive, PTL DEF Spec, ImplementsDelivery, Promise!Spec

=============================================================================
