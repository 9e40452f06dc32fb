----------------------- MODULE ConnectorServiceProofs -----------------------
(***************************************************************************)
(* What the runs of ConnectorServiceMC check on small instances, for every  *)
(* value of the constants.  Each part has an inductive invariant of its     *)
(* own, with a lemma on its initial states and one on its steps; the polls  *)
(* take theirs from OdkPollProofs, once for polls that overlap and once for *)
(* one poll at a time.  The invariant of the service is that of the part    *)
(* which a behaviour shows.                                                 *)
(***************************************************************************)
EXTENDS ConnectorService, OdkPollProofs, FiniteSetTheorems, SequenceTheorems, TLAPS

Q == INSTANCE OdkPollProofs WITH
    Polls <- {Alone}, Configs <- AloneConfigs, MaxTies <- AloneTies, CanReset <- FALSE

-----------------------------------------------------------------------------
(* The one poll of the service and that of the proofs are the same.         *)

LEMMA SingleInit == Single!Init <=> Q!Init
  BY DEF Single!Init, Q!Init, Single!Idle, Q!Idle, Single!NoCheckpoint, Q!NoCheckpoint,
     Single!NoValue, Q!NoValue

LEMMA SingleNext == Single!Next <=> Q!Next
  BY DEF Single!Next, Q!Next, Single!Submit, Q!Submit, Single!Edit, Q!Edit, Single!Replay, Q!Replay,
     Single!Tick, Q!Tick, Single!StartPoll, Q!StartPoll, Single!PollStep, Q!PollStep,
     Single!FetchPage, Q!FetchPage, Single!SkipSeen, Q!SkipSeen,
     Single!IngestSucceeds, Q!IngestSucceeds, Single!IngestFails, Q!IngestFails,
     Single!EndPage, Q!EndPage, Single!ClosePoll, Q!ClosePoll, Single!FetchFails, Q!FetchFails,
     Single!CrashPoll, Q!CrashPoll, Single!ResetCursor, Q!ResetCursor,
     Single!sourceVars, Q!sourceVars, Single!dbVars, Q!dbVars, Single!Idle, Q!Idle,
     Single!NoCheckpoint, Q!NoCheckpoint, Single!NoValue, Q!NoValue, Single!Stamp, Q!Stamp,
     Single!Ordered, Q!Ordered, Single!Everything, Q!Everything, Single!Page, Q!Page,
     Single!InOrder, Q!InOrder, Single!Found, Q!Found, Single!Before, Q!Before,
     Single!Field, Q!Field, Single!Matches, Q!Matches, Single!Timed, Q!Timed,
     Single!Seen, Q!Seen, Single!RecordCheckpoint, Q!RecordCheckpoint,
     Single!BuildCheckpoint, Q!BuildCheckpoint, Single!Advance, Q!Advance,
     Single!IsAdvancedOver, Q!IsAdvancedOver, Single!MergedWith, Q!MergedWith,
     Single!Cardinality, Q!Cardinality

LEMMA SingleTypes == Q!TypeOK => Single!TypeOK
  BY DEF Single!TypeOK, Q!TypeOK, Single!CheckpointsOrNone, Q!CheckpointsOrNone, Single!PollStates,
     Q!PollStates, Single!Checkpoints, Q!Checkpoints, Single!Modes, Q!Modes,
     Single!NoCheckpoint, Q!NoCheckpoint, Single!NoValue, Q!NoValue

-----------------------------------------------------------------------------
(* Redelivery: the counters of a record are bounded by the redeliveries     *)
(* that were committed, for every number of sessions, and exact while       *)
(* sessions do not overlap.  A loaded count may be stale, but never beyond  *)
(* the committed redeliveries; without overlap it is not even stale.        *)

\* What a session has loaded was once committed.
Loaded == \A s \in Sessions : pc[s] # "idle" => ik[s] <= hits

\* Without overlap there is one session at most and what it loaded is current.
Undisturbed ==
    ~raced =>
        /\ keyCount = hits /\ runCount = hits
        /\ \A s, t \in Sessions : pc[s] # "idle" /\ pc[t] # "idle" => s = t
        /\ \A s \in Sessions :
            /\ pc[s] # "idle" => ik[s] = hits
            /\ pc[s] \in {"flush", "commit"} => canonical[s] = hits

CountersInv == Counters!TypeOK /\ Counters!NeverOvercounts /\ Loaded /\ Undisturbed

LEMMA CountersInit == Counters!Init => CountersInv
  <1> SUFFICES ASSUME Counters!Init PROVE CountersInv
    OBVIOUS
  <1>1. Counters!TypeOK
    BY DEF Counters!Init, Counters!TypeOK
  <1>2. Counters!NeverOvercounts /\ Loaded /\ Undisturbed
    BY DEF Counters!Init, Counters!NeverOvercounts, Loaded, Undisturbed
  <1>3. QED
    BY <1>1, <1>2 DEF CountersInv

LEMMA CountersStep ==
    ASSUME CountersInv, Counters!Next \/ UNCHANGED counters
    PROVE  CountersInv'
  <1> USE DEF CountersInv, Counters!TypeOK
  <1>1. ASSUME NEW s \in Sessions, Counters!ReadKey(s)
        PROVE  CountersInv'
    <2>1. Counters!TypeOK'
      BY <1>1 DEF Counters!ReadKey
    <2>2. Counters!NeverOvercounts' /\ Loaded'
      BY <1>1 DEF Counters!ReadKey, Counters!NeverOvercounts, Loaded
    <2>3. Undisturbed'
      <3> SUFFICES ASSUME ~raced' PROVE Undisturbed'
        BY DEF Undisturbed
      <3>1. ~raced /\ \A t \in Sessions : pc[t] = "idle"
        BY <1>1 DEF Counters!ReadKey, Counters!Others
      <3>2. QED
        BY <1>1, <3>1 DEF Counters!ReadKey, Undisturbed
    <2>4. QED
      BY <2>1, <2>2, <2>3
  <1>2. ASSUME NEW s \in Sessions, Counters!ReadRun(s)
        PROVE  CountersInv'
    BY <1>2 DEF Counters!ReadRun, Counters!NeverOvercounts, Loaded, Undisturbed
  <1>3. ASSUME NEW s \in Sessions, Counters!Flush(s)
        PROVE  CountersInv'
    BY <1>3 DEF Counters!Flush, Counters!NeverOvercounts, Loaded, Undisturbed
  <1>4. ASSUME NEW s \in Sessions, Counters!Commit(s)
        PROVE  CountersInv'
    <2>1. /\ pc[s] = "commit" /\ hits' = hits + 1 /\ keyCount' = ik[s] + 1
          /\ runCount' = IF ik[s] + 1 = canonical[s] THEN runCount ELSE ik[s] + 1
          /\ lock' = {}
          /\ pc' = [pc EXCEPT ![s] = "idle"]
          /\ UNCHANGED <<ik, canonical, raced>>
      BY <1>4 DEF Counters!Commit, Counters!NewCount
    <2>2. Counters!TypeOK'
      BY <2>1
    <2>3. Counters!NeverOvercounts' /\ Loaded'
      BY <2>1 DEF Counters!NeverOvercounts, Loaded
    <2>4. Undisturbed'
      BY <2>1 DEF Undisturbed
    <2>5. QED
      BY <2>2, <2>3, <2>4
  <1>5. ASSUME NEW s \in Sessions, Counters!Rollback(s)
        PROVE  CountersInv'
    BY <1>5 DEF Counters!Rollback, Counters!NeverOvercounts, Loaded, Undisturbed
  <1>6. CASE UNCHANGED counters
    BY <1>6 DEF counters, Counters!NeverOvercounts, Loaded, Undisturbed
  <1>7. QED
    BY <1>1, <1>2, <1>3, <1>4, <1>5, <1>6 DEF Counters!Next

-----------------------------------------------------------------------------
(* WebhookIntake: an acknowledged event is kept, for any bodies, envelope   *)
(* paths and number of deliveries.  AcceptedKept is not inductive: a        *)
(* duplicate ends well because its key is there, so keys must have been     *)
(* ingested; and a task that finds its connector switched off drops the     *)
(* event, so what waits at such a time must be known as exposed.            *)

Sent(e) == \E r \in ingested : r.event = e
Dead(e) == \E d \in dead : d.event = e
Waits(e) == queue[e] > 0 \/ running = e

KeysSent == \A e \in keys : Sent(e)
OffExposed == state # "active" => \A e \in accepted : Waits(e) => e \in exposed

KeptInv ==
    /\ queue \in [Intake!Events -> Nat] /\ accepted \subseteq Intake!Events
    /\ running \in Intake!Events \cup {NULL}
    /\ KeysSent /\ OffExposed /\ Intake!AcceptedKept

\* Whatever is made of an event that does not raise, it is sent or dead-lettered
\* in the end, and nothing that was is forgotten.
LEMMA SucceedsKeeps ==
    ASSUME KeysSent, NEW e, NEW raw, Intake!Succeeds(e, raw)
    PROVE  KeysSent' /\ Sent(e)' /\ \A f : Sent(f) => Sent(f)'
  <1>1. CASE Intake!Duplicate(e)
    <2>1. e \in keys /\ UNCHANGED <<keys, ingested>>
      BY <1>1 DEF Intake!Succeeds, Intake!Duplicate
    <2> QED BY <2>1 DEF KeysSent, Sent
  <1>2. CASE ~Intake!Duplicate(e)
    <2> DEFINE new == [event |-> e, payload |-> Intake!ExtractEnvelope(raw)]
    <2>1. ingested' = ingested \cup {new} /\ keys' \subseteq keys \cup {e} /\ new.event = e
      BY <1>2 DEF Intake!Succeeds
    <2> HIDE DEF new
    <2> QED BY <2>1 DEF KeysSent, Sent
  <1> QED BY <1>1, <1>2

LEMMA ProcessKeeps ==
    ASSUME KeysSent, NEW e, NEW raw, Intake!Process(e, raw)
    PROVE  /\ KeysSent' /\ (Sent(e)' \/ Dead(e)' \/ e \in Raising)
           /\ \A f : (Sent(f) => Sent(f)') /\ (Dead(f) => Dead(f)')
  <1>1. CASE Intake!Succeeds(e, raw) /\ UNCHANGED dead
    BY <1>1, SucceedsKeeps DEF Dead
  <1>2. CASE Intake!Fails(e, raw)
    <2> DEFINE new == [event |-> e, raw |-> raw]
    <2>1. dead' = dead \cup {new} /\ new.event = e /\ UNCHANGED <<keys, ingested>>
      BY <1>2 DEF Intake!Fails
    <2> HIDE DEF new
    <2> QED BY <2>1 DEF KeysSent, Sent, Dead
  <1>3. CASE Intake!Raises(e)
    BY <1>3 DEF Intake!Raises, KeysSent, Sent, Dead
  <1> QED BY <1>1, <1>2, <1>3 DEF Intake!Process

LEMMA KeptStep ==
    ASSUME KeptInv, Intake!Next \/ UNCHANGED intake
    PROVE  KeptInv'
  <1> USE NullAssumption DEF KeptInv, Intake!Events
  <1> DEFINE Kept(e) == Waits(e) \/ Sent(e) \/ Dead(e)
  <1>0. Intake!AcceptedKept <=> \A e \in accepted \ (exposed \cup Raising) : Kept(e)
    BY DEF Intake!AcceptedKept, Intake!Kept, Waits, Sent, Dead
  <1>00. Intake!AcceptedKept' <=> \A e \in accepted' \ (exposed' \cup Raising) : Kept(e)'
    BY DEF Intake!AcceptedKept, Intake!Kept, Waits, Sent, Dead
  <1>1. ASSUME NEW e \in Intake!Events, Intake!Enqueue(e) PROVE KeptInv'
    <2>1. queue' \in [Intake!Events -> Nat] /\ queue'[e] > 0 /\ \A f \in Intake!Events \ {e} : queue'[f] = queue[f]
      BY <1>1 DEF Intake!Enqueue
    <2>2. accepted' = accepted \cup {e} /\ exposed' = exposed \ {e} /\ state = "active"
          /\ UNCHANGED <<state, running, keys, ingested, dead>>
      BY <1>1 DEF Intake!Enqueue, Intake!Acceptable, Intake!ResolveConnector
    <2>3. \A f \in accepted' \ (exposed' \cup Raising) : Kept(f)'
      BY <1>0, <2>1, <2>2 DEF Waits, Sent, Dead
    <2> QED BY <1>00, <2>1, <2>2, <2>3 DEF KeysSent, OffExposed, Sent
  <1>2. ASSUME NEW e \in Intake!Events, Intake!ProcessInline(e) PROVE KeptInv'
    <2>1. KeysSent' /\ \A f : (Sent(f) => Sent(f)') /\ (Dead(f) => Dead(f)')
      BY <1>2, ProcessKeeps DEF Intake!ProcessInline
    <2>2. UNCHANGED <<state, queue, running, accepted, exposed>>
      BY <1>2 DEF Intake!ProcessInline
    <2>3. \A f \in accepted' \ (exposed' \cup Raising) : Kept(f)'
      BY <1>0, <2>1, <2>2 DEF Waits
    <2> QED BY <1>00, <2>1, <2>2, <2>3 DEF OffExposed, Waits
  <1>3. ASSUME NEW e \in Intake!Events, Intake!Take(e) PROVE KeptInv'
    <2>1. queue' \in [Intake!Events -> Nat] /\ running' = e /\ running = NULL /\ queue[e] > 0
          /\ \A f \in Intake!Events \ {e} : queue'[f] = queue[f]
      BY <1>3 DEF Intake!Take
    <2>2. UNCHANGED <<state, keys, ingested, dead, accepted, exposed>>
      BY <1>3 DEF Intake!Take
    <2>3. \A f \in accepted : (Waits(f) => Waits(f)') /\ (Waits(f)' => Waits(f))
      BY <2>1 DEF Waits
    <2>4. \A f \in accepted' \ (exposed' \cup Raising) : Kept(f)'
      BY <1>0, <2>2, <2>3 DEF Sent, Dead
    <2> QED BY <1>00, <2>1, <2>2, <2>3, <2>4 DEF KeysSent, OffExposed, Sent
  <1>4. CASE Intake!ProcessWebhook
    <2>1. running \in Intake!Events /\ running' = NULL /\ UNCHANGED <<state, queue, accepted, exposed>>
      BY <1>4 DEF Intake!ProcessWebhook
    <2>2. \A f \in accepted : /\ Waits(f) => Waits(f)' \/ f = running
                              /\ Waits(f)' => Waits(f)
      BY <2>1 DEF Waits
    <2>3. CASE state = "active"
      <3>1. PICK e \in Intake!Events : running = e
        BY <2>1
      <3>2. /\ KeysSent' /\ (Sent(e)' \/ Dead(e)' \/ e \in Raising)
            /\ \A f : (Sent(f) => Sent(f)') /\ (Dead(f) => Dead(f)')
        <4>1. Intake!Process(e, Intake!Unwrapped(Body[e]))
          BY <1>4, <2>3, <3>1 DEF Intake!ProcessWebhook
        <4> QED BY <4>1, ProcessKeeps
      <3>3. \A f \in accepted' \ (exposed' \cup Raising) : Kept(f)'
        <4> SUFFICES ASSUME NEW f \in accepted \ (exposed \cup Raising) PROVE Kept(f)'
          BY <2>1
        <4>1. Waits(f)' \/ f = e \/ Sent(f) \/ Dead(f)
          BY <1>0, <2>2, <3>1
        <4> QED BY <3>2, <4>1
      <3> QED BY <1>00, <2>1, <2>2, <2>3, <3>2, <3>3 DEF OffExposed
    <2>4. CASE state # "active"
      <3>1. UNCHANGED <<keys, ingested, dead>>
        BY <1>4, <2>4 DEF Intake!ProcessWebhook
      <3>2. running \in accepted => running \in exposed
        BY <2>4 DEF OffExposed, Waits
      <3>3. \A f \in accepted' \ (exposed' \cup Raising) : Kept(f)'
        BY <1>0, <2>1, <2>2, <3>1, <3>2 DEF Sent, Dead
      <3> QED BY <1>00, <2>1, <2>2, <3>1, <3>3 DEF KeysSent, OffExposed, Sent
    <2> QED BY <2>3, <2>4
  <1>5. CASE Intake!Crash
    <2>1. /\ running \in Intake!Events /\ running' = NULL /\ exposed' = exposed \cup {running}
          /\ UNCHANGED <<state, queue, keys, ingested, dead, accepted>>
      BY <1>5 DEF Intake!Crash
    <2>2. \A f \in accepted : /\ Waits(f) => Waits(f)' \/ f = running
                              /\ Waits(f)' => Waits(f)
      BY <2>1 DEF Waits
    <2>3. \A f \in accepted' \ (exposed' \cup Raising) : Kept(f)'
      BY <1>0, <2>1, <2>2 DEF Sent, Dead
    <2> QED BY <1>00, <2>1, <2>2, <2>3 DEF KeysSent, OffExposed, Sent
  <1>6. ASSUME NEW d \in dead, Intake!ReplayDlq(d) PROVE KeptInv'
    <2>1. KeysSent' /\ Sent(d.event)' /\ \A f : Sent(f) => Sent(f)'
      BY <1>6, SucceedsKeeps DEF Intake!ReplayDlq
    <2>2. dead' = dead \ {d} /\ UNCHANGED <<state, queue, running, accepted, exposed>>
      BY <1>6 DEF Intake!ReplayDlq
    <2>3. \A f : Dead(f) => Dead(f)' \/ f = d.event
      BY <2>2 DEF Dead
    <2>4. \A f \in accepted' \ (exposed' \cup Raising) : Kept(f)'
      BY <1>0, <2>1, <2>2, <2>3 DEF Waits
    <2> QED BY <1>00, <2>1, <2>2, <2>4 DEF OffExposed, Waits
  <1>7. ASSUME NEW s \in {"active", "off", "gone"}, Intake!Switch(s) PROVE KeptInv'
    <2>1. /\ exposed' = exposed \cup {e \in accepted : Waits(e)}
          /\ UNCHANGED <<queue, running, keys, ingested, dead, accepted>>
      BY <1>7 DEF Intake!Switch, Waits
    <2>2. \A f \in accepted' \ (exposed' \cup Raising) : Kept(f)'
      BY <1>0, <2>1 DEF Waits, Sent, Dead
    <2>3. OffExposed'
      BY <2>1 DEF OffExposed, Waits
    <2> QED BY <1>00, <2>1, <2>2, <2>3 DEF KeysSent, Sent
  <1>8. CASE UNCHANGED intake
    BY <1>8 DEF intake, KeysSent, OffExposed, Intake!AcceptedKept, Intake!Kept, Sent, Waits
  <1> QED BY <1>1, <1>2, <1>3, <1>4, <1>5, <1>6, <1>7, <1>8 DEF Intake!Next


\* What process_record makes of raw data under envelope path p.
EnvelopeOf(p, raw) == IF p # <<>> /\ Intake!Search(p, raw) # {} THEN Intake!Search(p, raw) ELSE raw

\* Under setting c the task, which is given the whole body, finds the payload
\* that the request has extracted, and a replay finds it again.
SameReading(c) ==
    \A e \in Intake!Events :
        LET data == Intake!ExtractPayload(Body[e], Intake!RequestPath(c))
            p == Intake!RecordPath(c)
        IN  data # {} => /\ EnvelopeOf(p, Intake!Unwrapped(Body[e])) = data
                         /\ EnvelopeOf(p, data) = data

\* Without a configured envelope that is so for every body.
LEMMA PlainReading ==
    ASSUME NEW c, c.envelope = <<>>, c.data_path = <<>>
    PROVE  SameReading(c)
  <1>0. Intake!RequestPath(c) = <<>> /\ Intake!RecordPath(c) = <<>>
    BY DEF Intake!RequestPath, Intake!RecordPath
  <1> SUFFICES ASSUME NEW e \in Intake!Events, Intake!ExtractPayload(Body[e], <<>>) # {}
               PROVE  Intake!Unwrapped(Body[e]) = Intake!ExtractPayload(Body[e], <<>>)
    BY <1>0 DEF SameReading, EnvelopeOf
  <1>1. ASSUME ~Intake!HasKey(Body[e], "data") PROVE Intake!Sub(Body[e], "data") = {}
    BY <1>1 DEF Intake!Sub, Intake!HasKey
  <1>2. QED
    BY <1>1 DEF Intake!ExtractPayload, Intake!Unwrapped, Intake!NoDict

Readable(e) == Intake!ExtractPayload(Body[e], Intake!RequestPath(path)) # {}

TypedInv ==
    /\ Intake!TypeOK
    /\ \A e \in Intake!Events : Waits(e) => Readable(e)

\* What was sent, and what a replay would send, is what the request extracted.
PayloadInv ==
    SameReading(path) =>
        /\ Intake!SamePayload
        /\ \A d \in dead : Intake!ExtractEnvelope(d.raw) = Intake!ExtractPayload(Body[d.event], Intake!RequestPath(path))

IntakeInv == KeptInv /\ TypedInv /\ PayloadInv

LEMMA IntakeInit == Intake!Init => IntakeInv
  <1> SUFFICES ASSUME Intake!Init PROVE IntakeInv
    OBVIOUS
  <1>1. KeptInv
    BY DEF Intake!Init, KeptInv, KeysSent, OffExposed, Intake!AcceptedKept
  <1>2. TypedInv
    BY NullAssumption, PartsAssumption DEF Intake!Init, TypedInv, Intake!TypeOK, Waits, Intake!Events
  <1>3. PayloadInv
    BY DEF Intake!Init, PayloadInv, Intake!SamePayload
  <1>4. QED
    BY <1>1, <1>2, <1>3 DEF IntakeInv

\* Processing what yields the payload of the request keeps all of that.
LEMMA ProcessReads ==
    ASSUME TypedInv, PayloadInv, NEW e \in Intake!Events, NEW raw, Intake!Process(e, raw), path' = path,
           SameReading(path) => Intake!ExtractEnvelope(raw) = Intake!ExtractPayload(Body[e], Intake!RequestPath(path))
    PROVE  /\ PayloadInv'
           /\ keys' \subseteq Intake!Events
           /\ \A r \in ingested' : r.event \in Intake!Events
           /\ \A d \in dead' : d.event \in Intake!Events
  <1> USE DEF TypedInv, Intake!TypeOK
  <1>1. PICK record, letter : /\ record = [event |-> e, payload |-> Intake!ExtractEnvelope(raw)]
                            /\ letter = [event |-> e, raw |-> raw]
    OBVIOUS
  <1>2. /\ ingested' \subseteq ingested \cup {record} /\ dead' \subseteq dead \cup {letter}
        /\ keys' \subseteq keys \cup {e}
    BY <1>1 DEF Intake!Process, Intake!Succeeds, Intake!Fails, Intake!Raises
  <1>3. PayloadInv'
    <2> SUFFICES ASSUME SameReading(path)
                 PROVE  /\ \A r \in ingested' : r.payload = Intake!ExtractPayload(Body[r.event], Intake!RequestPath(path))
                        /\ \A d \in dead' :
                              Intake!ExtractEnvelope(d.raw) = Intake!ExtractPayload(Body[d.event], Intake!RequestPath(path))
      BY DEF PayloadInv, Intake!SamePayload, Intake!ExtractEnvelope, Intake!ExtractPayload
    <2>1. QED
      BY <1>1, <1>2 DEF PayloadInv, Intake!SamePayload
  <1>4. QED
    BY <1>1, <1>2, <1>3

LEMMA TypedStep ==
    ASSUME TypedInv, PayloadInv, Intake!Next \/ UNCHANGED intake
    PROVE  TypedInv' /\ PayloadInv'
  <1> USE NullAssumption, PartsAssumption DEF TypedInv, Intake!TypeOK
  <1> DEFINE Quiet == path' = path /\ UNCHANGED <<ingested, dead>>
  <1>0. Quiet => PayloadInv'
    BY DEF PayloadInv, Intake!SamePayload, Intake!ExtractEnvelope, Intake!ExtractPayload
  <1>00. path' = path => \A e : Readable(e)' = Readable(e)
    BY DEF Readable
  <1> HIDE DEF Quiet
  <1>1. ASSUME NEW e \in Intake!Events, Intake!Enqueue(e) PROVE TypedInv' /\ PayloadInv'
    <2>1. Quiet /\ Readable(e) /\ queue' = [queue EXCEPT ![e] = @ + 1] /\ queue[e] < MaxQueued
          /\ accepted' = accepted \cup {e} /\ exposed' = exposed \ {e}
          /\ UNCHANGED <<path, state, running, keys, ingested, dead>>
      BY <1>1 DEF Quiet, Intake!Enqueue, Intake!Acceptable, Readable, Intake!NoDict
    <2>2. queue' \in [Intake!Events -> 0 .. MaxQueued]
      BY <2>1
    <2>3. \A f \in Intake!Events : Waits(f)' => Readable(f)
      BY <2>1 DEF Waits
    <2>4. QED
      BY <1>0, <1>00, <2>1, <2>2, <2>3
  <1>2. ASSUME NEW e \in Intake!Events, Intake!ProcessInline(e) PROVE TypedInv' /\ PayloadInv'
    <2>1. UNCHANGED <<path, state, queue, running, accepted, exposed>>
      BY <1>2 DEF Intake!ProcessInline
    <2>2. /\ Intake!Process(e, Intake!ExtractPayload(Body[e], Intake!RequestPath(path))) /\ Readable(e)
      BY <1>2 DEF Intake!ProcessInline, Intake!Acceptable, Readable, Intake!NoDict
    <2>3. SameReading(path) => Intake!ExtractEnvelope(Intake!ExtractPayload(Body[e], Intake!RequestPath(path)))
                                 = Intake!ExtractPayload(Body[e], Intake!RequestPath(path))
      BY <2>2 DEF SameReading, EnvelopeOf, Intake!ExtractEnvelope, Readable, Intake!NoDict
    <2>4. QED
      BY <1>00, <2>1, <2>2, <2>3, ProcessReads DEF Waits
  <1>3. ASSUME NEW e \in Intake!Events, Intake!Take(e) PROVE TypedInv' /\ PayloadInv'
    <2>1. Quiet /\ queue' = [queue EXCEPT ![e] = @ - 1] /\ queue[e] > 0 /\ running' = e
          /\ UNCHANGED <<path, state, keys, ingested, dead, accepted, exposed>>
      BY <1>3 DEF Quiet, Intake!Take
    <2>2. queue' \in [Intake!Events -> 0 .. MaxQueued]
      BY <2>1
    <2>3. \A f \in Intake!Events : Waits(f)' => Readable(f)
      BY <2>1 DEF Waits
    <2>4. QED
      BY <1>0, <1>00, <2>1, <2>2, <2>3
  <1>4. CASE Intake!ProcessWebhook
    <2>1. running \in Intake!Events /\ running' = NULL /\ UNCHANGED <<path, state, queue, accepted, exposed>>
      BY <1>4 DEF Intake!ProcessWebhook
    <2>2. \A f \in Intake!Events : Waits(f)' => Readable(f)'
      BY <1>00, <2>1 DEF Waits, Intake!Events
    <2>3. CASE state = "active"
      <3>1. PICK e \in Intake!Events : running = e /\ Readable(e)
        BY <2>1 DEF Waits
      <3>2. Intake!Process(e, Intake!Unwrapped(Body[e]))
        BY <1>4, <2>3, <3>1 DEF Intake!ProcessWebhook
      <3>3. SameReading(path) => Intake!ExtractEnvelope(Intake!Unwrapped(Body[e]))
                                   = Intake!ExtractPayload(Body[e], Intake!RequestPath(path))
        BY <3>1 DEF SameReading, EnvelopeOf, Intake!ExtractEnvelope, Readable, Intake!NoDict
      <3>4. QED
        BY <2>1, <2>2, <3>2, <3>3, ProcessReads
    <2>4. CASE state # "active"
      <3>1. UNCHANGED <<keys, ingested, dead>> /\ Quiet
        BY <1>4, <2>1, <2>4 DEF Intake!ProcessWebhook, Quiet
      <3>2. QED
        BY <1>0, <2>1, <2>2, <3>1
    <2>5. QED
      BY <2>3, <2>4
  <1>5. CASE Intake!Crash
    <2>1. /\ running \in Intake!Events /\ running' = NULL /\ exposed' = exposed \cup {running}
          /\ UNCHANGED <<path, state, queue, keys, ingested, dead, accepted>> /\ Quiet
      BY <1>5 DEF Intake!Crash, Quiet
    <2>2. \A f \in Intake!Events : Waits(f)' => Readable(f)'
      BY <1>00, <2>1 DEF Waits, Intake!Events
    <2>3. QED
      BY <1>0, <2>1, <2>2
  <1>6. ASSUME NEW d \in dead, Intake!ReplayDlq(d) PROVE TypedInv' /\ PayloadInv'
    <2>1. /\ Intake!Succeeds(d.event, d.raw) /\ dead' = dead \ {d} /\ d.event \in Intake!Events
          /\ UNCHANGED <<path, state, queue, running, accepted, exposed>>
      BY <1>6 DEF Intake!ReplayDlq
    <2>2. PICK record : record = [event |-> d.event, payload |-> Intake!ExtractEnvelope(d.raw)]
      OBVIOUS
    <2>3. ingested' \subseteq ingested \cup {record} /\ keys' \subseteq keys \cup {d.event}
      BY <2>1, <2>2 DEF Intake!Succeeds
    <2>4. PayloadInv'
      <3> SUFFICES ASSUME SameReading(path)
                   PROVE  /\ \A r \in ingested' : r.payload = Intake!ExtractPayload(Body[r.event], Intake!RequestPath(path))
                          /\ \A f \in dead' :
                                Intake!ExtractEnvelope(f.raw) = Intake!ExtractPayload(Body[f.event], Intake!RequestPath(path))
        BY <2>1 DEF PayloadInv, Intake!SamePayload, Intake!ExtractEnvelope, Intake!ExtractPayload
      <3>1. QED
        BY <2>1, <2>2, <2>3 DEF PayloadInv, Intake!SamePayload
    <2>5. QED
      BY <1>00, <2>1, <2>2, <2>3, <2>4 DEF Waits
  <1>7. ASSUME NEW s \in {"active", "off", "gone"}, Intake!Switch(s) PROVE TypedInv' /\ PayloadInv'
    <2>1. /\ state' = s /\ exposed' \subseteq exposed \cup accepted
          /\ UNCHANGED <<path, queue, running, keys, ingested, dead, accepted>> /\ Quiet
      BY <1>7 DEF Intake!Switch, Quiet
    <2>2. QED
      BY <1>0, <1>00, <2>1 DEF Waits
  <1>8. CASE UNCHANGED intake
    BY <1>0, <1>00, <1>8 DEF intake, Waits, Quiet
  <1>9. QED
    BY <1>1, <1>2, <1>3, <1>4, <1>5, <1>6, <1>7, <1>8 DEF Intake!Next

LEMMA IntakeStep ==
    ASSUME IntakeInv, Intake!Next \/ UNCHANGED intake
    PROVE  IntakeInv'
  BY KeptStep, TypedStep DEF IntakeInv

-----------------------------------------------------------------------------
(* HubSync: what a report says is decided topic by topic while the hub may  *)
(* restart and challenges fail, so the outcomes noted so far must hold at   *)
(* every step, and the topics noted and to do are all topics.  A challenge  *)
(* that fails takes one subscription away, which has one entry at the hub.  *)

Asked == {Topics[i] : i \in DOMAIN Topics}
Outcomes == UNION {[D -> BOOLEAN] : D \in SUBSET Asked}
Syncs == [todo : Seq(Asked), callback : Callbacks, asked : BOOLEAN,
          ok : Outcomes, hubUp : BOOLEAN]

\* The outcomes of a synchronisation or report hold at the hub.
Holds(s) ==
    s.hubUp => \A t \in DOMAIN s.ok :
        s.ok[t] => Hub!Sub(t, s.callback) \in Hub!Known \cup refused

SyncOK ==
    sync # NULL =>
        /\ sync \in Syncs
        /\ DOMAIN sync.ok \cup {sync.todo[i] : i \in DOMAIN sync.todo} = Asked
        /\ sync.asked => sync.todo # <<>>
        /\ Holds(sync)

ReportOK ==
    report # NULL =>
        /\ report \in [ok : [Asked -> BOOLEAN], callback : Callbacks, hubUp : BOOLEAN, all : BOOLEAN]
        /\ report.all = \A t \in Asked : report.ok[t]
        /\ Holds(report)

OneEntry == \A a, b \in subs : a.sub = b.sub => a = b

HubInv == Hub!TypeOK /\ OneEntry /\ SyncOK /\ ReportOK

LEMMA TopicsAsked == Hub!ToSet(Topics) = Asked
  BY DEF Hub!ToSet, Asked

LEMMA HubInit == Hub!Init => HubInv
  BY TopicsAsked, PartsAssumption
     DEF Hub!Init, HubInv, Hub!TypeOK, OneEntry, SyncOK, ReportOK, Hub!Known

\* While the hub is up, a subscription leaves it only when it is refused.
LEMMA OutcomesStay ==
    ASSUME NEW s, Holds(s), Hub!Known \cup refused \subseteq (Hub!Known \cup refused)'
    PROVE  \A t \in DOMAIN s.ok :
              s.hubUp /\ s.ok[t] => Hub!Sub(t, s.callback) \in (Hub!Known \cup refused)'
  BY DEF Holds

\* Nothing of a synchronisation and of the report changes.
LEMMA HubKept ==
    ASSUME HubInv, UNCHANGED <<sync, report>>,
           Hub!Known \cup refused \subseteq (Hub!Known \cup refused)'
    PROVE  SyncOK' /\ ReportOK'
  <1>1. ASSUME NEW s, Holds(s) PROVE Holds(s)'
    BY <1>1, OutcomesStay DEF Holds
  <1>2. QED
    BY <1>1 DEF HubInv, SyncOK, ReportOK

LEMMA SubscribeHolds ==
    ASSUME HubInv, Hub!Subscribe
    PROVE  HubInv'
  <1> USE DEF HubInv
  <1> DEFINE t == Head(sync.todo)
             new == Hub!Sub(t, sync.callback)
             entry == [sub |-> new, verified |-> FALSE]
  <1>1. PICK made \in BOOLEAN, ok \in BOOLEAN :
          /\ Hub!Answered(ok, made)
          /\ subs' = IF made THEN {s \in subs : s.sub # new} \cup {entry} ELSE subs
          /\ refused' = IF made THEN refused \ {new} ELSE refused
          /\ sync' = [sync EXCEPT !.todo = Tail(@), !.asked = FALSE,
                          !.ok = [u \in DOMAIN @ \cup {t} |-> IF u = t THEN ok ELSE @[u]]]
    BY Zenon DEF Hub!Subscribe
  <1>2. /\ UNCHANGED <<active, callback, registered, report, edits>>
        /\ sync # NULL /\ sync.asked
    BY DEF Hub!Subscribe
  <1>3. sync \in Syncs /\ sync.todo \in Seq(Asked) /\ sync.todo # <<>>
    BY <1>2 DEF SyncOK, Syncs
  <1>4. t \in Asked /\ Tail(sync.todo) \in Seq(Asked) /\ new \in [topic : Asked, callback : Callbacks]
    BY <1>3 DEF Hub!Sub, Syncs
  <1>5. entry \in [sub : [topic : Asked, callback : Callbacks], verified : BOOLEAN] /\ entry.sub = new
    BY <1>4
  <1> HIDE DEF entry
  <1>6. Hub!Known' = IF made THEN Hub!Known \cup {new} ELSE Hub!Known
    <2>1. CASE made
      <3>1. subs' = {s \in subs : s.sub # new} \cup {entry}
        BY <1>1, <2>1
      <3>2. Hub!Known' = (Hub!Known \ {new}) \cup {entry.sub}
        BY <3>1 DEF Hub!Known
      <3>3. QED
        BY <1>5, <2>1, <3>2
    <2>2. CASE ~made
      BY <1>1, <2>2 DEF Hub!Known
    <2>3. QED
      BY <2>1, <2>2
  <1> HIDE DEF new
  <1>7. Hub!TypeOK' /\ OneEntry'
    BY <1>1, <1>2, <1>5, <1>6, TopicsAsked DEF Hub!TypeOK, OneEntry
  <1>8. Hub!Known \cup refused \subseteq (Hub!Known \cup refused)'
    BY <1>1, <1>6
  <1>9. ReportOK'
    BY <1>2, <1>8, OutcomesStay DEF ReportOK, Holds
  <1>10. SyncOK'
    <2> DEFINE answer == [u \in DOMAIN sync.ok \cup {t} |-> IF u = t THEN ok ELSE sync.ok[u]]
    <2>1. /\ sync'.todo = Tail(sync.todo) /\ sync'.asked = FALSE /\ sync'.ok = answer
          /\ sync'.callback = sync.callback /\ sync'.hubUp = sync.hubUp
      BY <1>1, <1>3 DEF Syncs
    <2>2. DOMAIN sync.ok \subseteq Asked /\ \A u \in DOMAIN sync.ok : sync.ok[u] \in BOOLEAN
      BY <1>3 DEF Syncs, Outcomes
    <2>3. answer \in Outcomes
      <3>1. answer \in [DOMAIN sync.ok \cup {t} -> BOOLEAN]
        BY <2>2
      <3>2. DOMAIN sync.ok \cup {t} \in SUBSET Asked
        BY <1>4, <2>2
      <3>3. QED
        BY <3>1, <3>2, Zenon DEF Outcomes
    <2>4. sync' \in Syncs
      BY <1>1, <1>3, <1>4, <2>3 DEF Syncs
    <2>5. {sync.todo[i] : i \in DOMAIN sync.todo} = {t} \cup {Tail(sync.todo)[i] : i \in DOMAIN Tail(sync.todo)}
      <3>1. ASSUME NEW i \in DOMAIN sync.todo
            PROVE  sync.todo[i] \in {t} \cup {Tail(sync.todo)[j] : j \in DOMAIN Tail(sync.todo)}
        <4>1. CASE i = 1
          BY <1>3, <4>1
        <4>2. CASE i # 1
          <5>1. i - 1 \in DOMAIN Tail(sync.todo) /\ Tail(sync.todo)[i - 1] = sync.todo[i]
            BY <1>3, <3>1, <4>2
          <5>2. QED
            BY <5>1
        <4>3. QED
          BY <4>1, <4>2
      <3>2. ASSUME NEW j \in DOMAIN Tail(sync.todo)
            PROVE  j + 1 \in DOMAIN sync.todo /\ Tail(sync.todo)[j] = sync.todo[j + 1]
        BY <1>3, <3>2
      <3>3. 1 \in DOMAIN sync.todo /\ t = sync.todo[1]
        BY <1>3
      <3>4. QED
        BY <3>1, <3>2, <3>3
    <2>6. DOMAIN answer = DOMAIN sync.ok \cup {t}
      OBVIOUS
    <2>7. Holds(sync)'
      <3>1. SUFFICES ASSUME sync.hubUp, NEW u \in DOMAIN sync.ok \cup {t}, answer[u]
                     PROVE  Hub!Sub(u, sync.callback) \in (Hub!Known \cup refused)'
        BY <2>1, <2>6 DEF Holds
      <3>2. CASE u = t
        BY <1>1, <1>6, <3>1, <3>2 DEF Hub!Answered, new
      <3>3. CASE u # t
        BY <1>2, <1>8, <3>1, <3>3, OutcomesStay DEF SyncOK
      <3>4. QED
        BY <3>2, <3>3
    <2>8. DOMAIN sync.ok \cup {sync.todo[i] : i \in DOMAIN sync.todo} = Asked
      BY <1>2 DEF SyncOK
    <2> HIDE DEF answer
    <2>9. DOMAIN sync'.ok \cup {Tail(sync.todo)[i] : i \in DOMAIN Tail(sync.todo)} = Asked
      BY <2>1, <2>5, <2>6, <2>8
    <2>10. QED
      BY <2>1, <2>4, <2>7, <2>9 DEF SyncOK
  <1>11. QED
    BY <1>7, <1>9, <1>10

LEMMA HubStep ==
    ASSUME HubInv, Hub!Next \/ UNCHANGED hub
    PROVE  HubInv'
  <1> USE DEF HubInv
  <1>1. CASE Hub!StartSync
    <2>1. [t \in {} |-> TRUE] \in Outcomes
      BY Zenon DEF Outcomes
    <2>2. SyncOK'
      BY <1>1, <2>1, TopicsAsked, PartsAssumption
         DEF Hub!StartSync, SyncOK, Syncs, Holds, Asked, Hub!TypeOK
    <2>3. QED
      BY <1>1, <2>2, HubKept DEF Hub!StartSync, Hub!TypeOK, OneEntry, ReportOK, Hub!Known, Holds
  <1>2. CASE Hub!Register
    <2>1. Head(sync.todo) \in Asked /\ sync \in Syncs
      BY <1>2 DEF Hub!Register, SyncOK, Syncs
    <2>2. /\ sync' = [sync EXCEPT !.asked = TRUE] /\ registered' \subseteq registered \cup {Head(sync.todo)}
          /\ sync # NULL /\ sync.todo # <<>>
          /\ UNCHANGED <<active, callback, subs, refused, report, edits>>
      BY <1>2 DEF Hub!Register
    <2>3. SyncOK'
      BY <2>1, <2>2 DEF SyncOK, Syncs, Holds, Hub!Known
    <2>4. QED
      BY <2>1, <2>2, <2>3, TopicsAsked DEF Hub!TypeOK, OneEntry, ReportOK, Hub!Known, Holds
  <1>3. CASE Hub!Subscribe
    BY <1>3, SubscribeHolds
  <1>4. CASE Hub!Report
    <2>1. /\ sync \in Syncs /\ DOMAIN sync.ok = Asked /\ Holds(sync)
      <3>1. sync # NULL /\ sync.todo = <<>> /\ DOMAIN <<>> = {}
        BY <1>4 DEF Hub!Report
      <3>2. {sync.todo[i] : i \in DOMAIN sync.todo} = {}
        BY <3>1
      <3>3. QED
        BY <3>1, <3>2 DEF SyncOK
    <2>2. sync.ok \in [Asked -> BOOLEAN]
      BY <2>1 DEF Syncs, Outcomes
    <2>3. UNCHANGED <<active, callback, registered, subs, refused, edits>> /\ sync' = NULL
      BY <1>4 DEF Hub!Report
    <2>4. PICK b \in BOOLEAN : b = \A t \in DOMAIN sync.ok : sync.ok[t]
      BY Zenon
    <2>5. report' = [ok |-> sync.ok, callback |-> sync.callback, hubUp |-> sync.hubUp, all |-> b]
      BY <1>4, <2>4 DEF Hub!Report
    <2>6. ReportOK'
      BY <2>1, <2>2, <2>3, <2>4, <2>5 DEF ReportOK, Syncs, Holds, Hub!Known
    <2>7. QED
      BY <2>3, <2>6 DEF Hub!TypeOK, OneEntry, SyncOK, Hub!Known
  <1>5. CASE Hub!Abort
    BY <1>5 DEF Hub!Abort, Hub!TypeOK, OneEntry, SyncOK, ReportOK, Hub!Known, Holds
  <1>6. ASSUME NEW s \in subs, Hub!Challenge(s)
        PROVE  HubInv'
    <2>1. s \in [sub : [topic : Asked, callback : Callbacks], verified : BOOLEAN]
      BY TopicsAsked DEF Hub!TypeOK
    <2>2. UNCHANGED <<active, callback, registered, sync, report, edits>>
      BY <1>6 DEF Hub!Challenge
    <2>3. CASE active /\ s.sub.callback = callback
      <3>1. PICK v : v = [s EXCEPT !.verified = TRUE]
        OBVIOUS
      <3>2. v \in [sub : [topic : Asked, callback : Callbacks], verified : BOOLEAN] /\ v.sub = s.sub
        BY <2>1, <3>1
      <3>3. subs' = (subs \ {s}) \cup {v} /\ refused' = refused
        BY <1>6, <2>3, <3>1 DEF Hub!Challenge
      <3>4. Hub!Known' = Hub!Known
        BY <3>2, <3>3 DEF Hub!Known
      <3>5. QED
        BY <2>2, <3>2, <3>3, <3>4, HubKept, TopicsAsked DEF Hub!TypeOK, OneEntry
    <2>4. CASE ~(active /\ s.sub.callback = callback)
      <3>1. subs' = subs \ {s} /\ refused' = refused \cup {s.sub}
        BY <1>6, <2>4 DEF Hub!Challenge
      <3>2. Hub!Known' = Hub!Known \ {s.sub} /\ s.sub \in Hub!Known
        BY <3>1 DEF Hub!Known, OneEntry
      <3>3. QED
        BY <2>2, <3>1, <3>2, HubKept DEF Hub!TypeOK, OneEntry
    <2>5. QED
      BY <2>3, <2>4
  <1>7. CASE Hub!HubRestarts
    <2>1. /\ UNCHANGED <<active, callback, edits>> /\ registered' = {} /\ subs' = {} /\ refused' = {}
      BY <1>7 DEF Hub!HubRestarts
    <2>2. SyncOK'
      <3>1. SUFFICES ASSUME sync # NULL PROVE SyncOK'
        BY <1>7 DEF Hub!HubRestarts, SyncOK
      <3>2. sync' = [sync EXCEPT !.hubUp = FALSE] /\ sync \in Syncs
        BY <1>7, <3>1 DEF Hub!HubRestarts, SyncOK
      <3>3. QED
        BY <3>1, <3>2 DEF SyncOK, Syncs, Holds
    <2>3. ReportOK'
      <3>1. SUFFICES ASSUME report # NULL PROVE ReportOK'
        BY <1>7 DEF Hub!HubRestarts, ReportOK
      <3>2. report' = [report EXCEPT !.hubUp = FALSE]
        BY <1>7, <3>1 DEF Hub!HubRestarts
      <3>3. QED
        BY <3>1, <3>2 DEF ReportOK, Holds
    <2>4. QED
      BY <2>1, <2>2, <2>3 DEF Hub!TypeOK, OneEntry, Hub!Known
  <1>8. ASSUME NEW a \in BOOLEAN, NEW c \in Callbacks, Hub!Edit(a, c)
        PROVE  HubInv'
    BY <1>8, HubKept, PartsAssumption DEF Hub!Edit, Hub!TypeOK, OneEntry, Hub!Known
  <1>9. CASE UNCHANGED hub
    BY <1>9, HubKept DEF hub, Hub!TypeOK, OneEntry, Hub!Known
  <1>10. QED
    BY <1>1, <1>2, <1>3, <1>4, <1>5, <1>6, <1>7, <1>8, <1>9 DEF Hub!Next

-----------------------------------------------------------------------------
(* Connectors: a task in the queue names a connector that a poll may run    *)
(* for, since the transport of a row never changes and no id comes back     *)
(* while a task names it; so a push connector is never the one polled.      *)

RowSet ==
    [name : Registry!AllNames, slug : Slugs \cup {Blank, NULL},
     transport : Registry!Transports, active : BOOLEAN,
     last : 0 .. MaxTicks \cup {NULL}, status : {NULL, "FAILED", "PARTIAL", "SUCCESS"}]

RowsOK(d) ==
    /\ DOMAIN d = Registry!AllIds
    /\ Registry!Unique(d)
    /\ \A i \in Registry!AllIds : d[i] # NULL => d[i] \in RowSet /\ d[i].slug # Blank

\* A push connector is neither queued nor polled, and has never been.
Pulled ==
    \A i \in Registry!Rows : defs[i].transport \in Registry!Push =>
        /\ i \notin tasks /\ i # polling
        /\ defs[i].last = NULL /\ defs[i].status = NULL

RegistryInv == Registry!TypeOK /\ RowsOK(defs) /\ Pulled

LEMMA RegistrySound ==
    ASSUME RegistryInv
    PROVE  Registry!TypeOK /\ Registry!ConnectorsSound
  BY DEF RegistryInv, RowsOK, Pulled, Registry!ConnectorsSound, Registry!Rows

LEMMA RegistryInit == Registry!Init => RegistryInv
  BY PartsAssumption
     DEF Registry!Init, RegistryInv, Registry!TypeOK, RowsOK, Pulled, Registry!Rows, Registry!Unique

\* Where one row is written, the rest is as it was.
LEMMA WriteOne ==
    ASSUME RegistryInv, NEW i \in Registry!AllIds, NEW r,
           Registry!Write([defs EXCEPT ![i] = r]),
           r # NULL => /\ r \in RowSet /\ r.slug # Blank
                       /\ r.transport \in Registry!Push =>
                             i \notin tasks /\ i # polling /\ r.last = NULL /\ r.status = NULL
    PROVE  RegistryInv'
  <1> USE DEF RegistryInv
  <1>1. /\ UNCHANGED <<schema, tasks, polling, time>>
        /\ defs' = [defs EXCEPT ![i] = r] /\ Registry!Unique(defs')
    BY DEF Registry!Write
  <1>2. RowsOK(defs)'
    BY <1>1 DEF RowsOK, Registry!Unique
  <1>3. Pulled'
    BY <1>1 DEF Pulled, RowsOK, Registry!Rows
  <1>4. Registry!TypeOK'
    BY <1>1, <1>2 DEF RowsOK, RowSet, Registry!TypeOK, Registry!Rows
  <1>5. QED
    BY <1>2, <1>3, <1>4

LEMMA EditsOK ==
    ASSUME RegistryInv, NEW i \in Registry!AllIds, NEW name \in Registry!AllNames,
           NEW slug \in Slugs \cup {Blank}
    PROVE  /\ \A t \in Registry!Transports : i \in Ids /\ Registry!Create(i, name, slug, t) => RegistryInv'
           /\ \A a \in BOOLEAN : Registry!Update(i, name, slug, a) => RegistryInv'
           /\ Registry!Delete(i) => RegistryInv'
  <1> DEFINE kept == Registry!NormalizePayload(slug)
  <1>1. kept \in Slugs \cup {Blank, NULL} /\ kept # Blank
    BY NullAssumption DEF Registry!NormalizePayload
  <1> HIDE DEF kept
  <1>2. ASSUME NEW t \in Registry!Transports, i \in Ids, Registry!Create(i, name, slug, t)
        PROVE  RegistryInv'
    <2>1. PICK r : r = [name |-> name, slug |-> kept, transport |-> t,
                        active |-> TRUE, last |-> NULL, status |-> NULL]
      OBVIOUS
    <2>2. Registry!Write([defs EXCEPT ![i] = r]) /\ i \notin tasks \cup {polling}
      BY <1>2, <2>1 DEF Registry!Create, kept
    <2>3. r \in RowSet /\ r.slug # Blank /\ r.last = NULL /\ r.status = NULL
      BY <1>1, <2>1 DEF RowSet
    <2>4. QED
      BY <2>2, <2>3, WriteOne
  <1>3. ASSUME NEW a \in BOOLEAN, Registry!Update(i, name, slug, a)
        PROVE  RegistryInv'
    <2>1. PICK r : r = [defs[i] EXCEPT !.name = name, !.slug = kept, !.active = a]
      OBVIOUS
    <2>2. defs[i] \in RowSet /\ i \in Registry!Rows
      BY <1>3 DEF Registry!Update, RegistryInv, RowsOK, Registry!Rows
    <2>3. Registry!Write([defs EXCEPT ![i] = r])
      <3>1. [defs EXCEPT ![i].name = name, ![i].slug = kept, ![i].active = a] = [defs EXCEPT ![i] = r]
        BY <2>1, <2>2 DEF RegistryInv, RowsOK
      <3>2. QED
        BY <1>3, <3>1 DEF Registry!Update, kept
    <2>4. r \in RowSet /\ r.slug # Blank
      BY <1>1, <2>1, <2>2 DEF RowSet
    <2>5. r.transport = defs[i].transport /\ r.last = defs[i].last /\ r.status = defs[i].status
      BY <2>1, <2>2 DEF RowSet
    <2>6. QED
      BY <2>2, <2>3, <2>4, <2>5, WriteOne DEF RegistryInv, Pulled
  <1>4. ASSUME Registry!Delete(i)
        PROVE  RegistryInv'
    BY <1>4, WriteOne DEF Registry!Delete
  <1>5. QED
    BY <1>2, <1>3, <1>4

\* What the start writes: nothing over an existing row.
LEMMA SeedWrites ==
    ASSUME RegistryInv, NEW configured \in BOOLEAN, Registry!Boot(configured)
    PROVE  /\ defs' = defs \/ /\ defs' = [defs EXCEPT ![Seeded] = Registry!SeedRow]
                              /\ Seeded \notin Registry!Rows
                              /\ \A i \in Registry!Rows : defs[i].name # SeedName
           /\ schema' = "current" \/ (schema' = schema /\ defs[Seeded].name # SeedName)
  BY DEF Registry!Boot, Registry!SeedDefaultPipelines, Registry!Aborted

LEMMA BootHolds ==
    ASSUME RegistryInv, NEW configured \in BOOLEAN, Registry!Boot(configured)
    PROVE  RegistryInv' /\ Registry!StartKept
  <1> USE DEF RegistryInv
  <1>1. UNCHANGED <<tasks, polling, time>> /\ schema' \in {"none", "older", "current"}
    BY DEF Registry!Boot, Registry!TypeOK
  <1>2. Registry!StartKept
    BY SeedWrites DEF Registry!StartKept, Registry!Rows, RowsOK
  <1>3. CASE defs' = defs
    BY <1>1, <1>2, <1>3 DEF RowsOK, Pulled, Registry!TypeOK, Registry!Rows
  <1>4. CASE /\ defs' = [defs EXCEPT ![Seeded] = Registry!SeedRow]
             /\ Seeded \notin Registry!Rows
             /\ \A i \in Registry!Rows : defs[i].name # SeedName
    <2>1. PICK r : r = Registry!SeedRow
      OBVIOUS
    <2>2. /\ r \in RowSet /\ r.name = SeedName /\ r.slug = NULL
          /\ r.transport = "odk_central" /\ Seeded \in Registry!AllIds
      BY <2>1 DEF Registry!SeedRow, RowSet, Registry!AllNames, Registry!Transports, Registry!AllIds
    <2>3. RowsOK(defs)'
      BY <1>4, <2>1, <2>2, NullAssumption DEF RowsOK, Registry!Rows, Registry!Unique
    <2>4. Pulled'
      BY <1>1, <1>4, <2>1, <2>2 DEF RowsOK, Registry!Rows, Pulled, Registry!Push
    <2>5. Registry!TypeOK'
      BY <1>1, <2>3 DEF RowsOK, RowSet, Registry!TypeOK, Registry!Rows
    <2>6. QED
      BY <1>2, <2>3, <2>4, <2>5
  <1>5. QED
    BY <1>3, <1>4, SeedWrites

LEMMA RegistryStep ==
    ASSUME RegistryInv, Registry!Next \/ UNCHANGED registry
    PROVE  RegistryInv'
  <1> USE DEF RegistryInv
  <1>1. ASSUME NEW i \in Ids, NEW n \in Registry!AllNames, NEW s \in Slugs \cup {Blank},
               NEW t \in Registry!Transports, Registry!Create(i, n, s, t)
        PROVE  RegistryInv'
    BY <1>1, EditsOK DEF Registry!AllIds
  <1>2. ASSUME NEW i \in Registry!AllIds, NEW n \in Registry!AllNames, NEW s \in Slugs \cup {Blank},
               NEW a \in BOOLEAN, Registry!Update(i, n, s, a)
        PROVE  RegistryInv'
    BY <1>2, EditsOK
  <1>3. ASSUME NEW i \in Registry!AllIds, Registry!Delete(i)
        PROVE  RegistryInv'
    BY <1>3, EditsOK DEF Registry!AllNames
  <1>4. ASSUME NEW i \in Registry!AllIds, Registry!TriggerPoll(i)
        PROVE  RegistryInv'
    BY <1>4 DEF Registry!TriggerPoll, RowsOK, Pulled, Registry!TypeOK, Registry!Rows
  <1>5. ASSUME NEW i \in Registry!AllIds, Registry!StartPoll(i)
        PROVE  RegistryInv'
    BY <1>5, NullAssumption DEF Registry!StartPoll, RowsOK, Pulled, Registry!TypeOK, Registry!Rows,
       Registry!AllIds
  <1>6. ASSUME NEW configured \in BOOLEAN, Registry!Boot(configured)
        PROVE  RegistryInv'
    BY <1>6, BootHolds
  <1>7. CASE Registry!Upgrade
    BY <1>7 DEF Registry!Upgrade, RowsOK, Pulled, Registry!TypeOK, Registry!Rows
  <1>8. CASE Registry!DispatchPolls
    BY <1>8 DEF Registry!DispatchPolls, Registry!Dispatchable, RowsOK, Pulled, Registry!TypeOK,
       Registry!Rows
  <1>9. CASE Registry!FinishPoll
    <2>1. polling # NULL /\ polling' = NULL /\ UNCHANGED <<schema, tasks, time>>
      BY <1>9 DEF Registry!FinishPoll
    <2>2. CASE polling \notin Registry!Rows
      BY <1>9, <2>1, <2>2, NullAssumption DEF Registry!FinishPoll, RowsOK, Pulled, Registry!TypeOK,
         Registry!Rows, Registry!AllIds
    <2>3. CASE polling \in Registry!Rows
      <3>1. PICK s \in {"FAILED", "PARTIAL", "SUCCESS"} :
               defs' = [defs EXCEPT ![polling].last = time, ![polling].status = s]
        BY <1>9, <2>3 DEF Registry!FinishPoll, Registry!Outcomes
      <3>2. defs[polling] \in RowSet /\ time \in 0 .. MaxTicks /\ polling \in Registry!AllIds
        BY <2>3 DEF RowsOK, Registry!Rows, Registry!TypeOK
      <3>3. PICK r : r = [defs[polling] EXCEPT !.last = time, !.status = s]
        OBVIOUS
      <3>4. /\ r \in RowSet /\ r.name = defs[polling].name /\ r.slug = defs[polling].slug
            /\ r.transport = defs[polling].transport
        BY <3>2, <3>3 DEF RowSet
      <3>5. defs' = [defs EXCEPT ![polling] = r]
        BY <3>1, <3>2, <3>3 DEF RowsOK
      <3>6. RowsOK(defs)'
        BY <2>3, <3>2, <3>4, <3>5 DEF RowsOK, Registry!Unique, Registry!Rows
      <3>7. Pulled'
        BY <2>1, <2>3, <3>4, <3>5, NullAssumption DEF Pulled, RowsOK, Registry!Rows, Registry!AllIds
      <3>8. QED
        BY <2>1, <3>6, <3>7 DEF RowsOK, RowSet, Registry!TypeOK, Registry!Rows
    <2>4. QED
      BY <2>2, <2>3
  <1>10. CASE Registry!CrashPoll
    BY <1>10, NullAssumption DEF Registry!CrashPoll, RowsOK, Pulled, Registry!TypeOK, Registry!Rows,
       Registry!AllIds
  <1>11. CASE Registry!Tick
    BY <1>11, PartsAssumption DEF Registry!Tick, RowsOK, Pulled, Registry!TypeOK, Registry!Rows
  <1>12. CASE UNCHANGED registry
    BY <1>12 DEF registry, RowsOK, Pulled, Registry!TypeOK, Registry!Rows
  <1>13. QED
    BY <1>1, <1>2, <1>3, <1>4, <1>5, <1>6, <1>7, <1>8, <1>9, <1>10, <1>11, <1>12 DEF Registry!Next

-----------------------------------------------------------------------------
(* OdkPages: as long as the form is neither published nor deleted it only   *)
(* grows, so what a poll has read of its beginning follows from the offset  *)
(* alone: from the front in a query by the incremental field, and from the  *)
(* back in one without, where new submissions push the rest down.  A 501    *)
(* comes on the first page if at all, so a poll that drops its query has    *)
(* read nothing yet; and a draft that is gone has been so from the start.   *)

IsForm(f) == f = NULL \/ \E n \in 0 .. MaxSubmissions : f = Pages!Numbered(n)

Statuses == SUBSET {200, 404, 501}
Requests ==
    [step : {"list", "published", "full", "done"}, attempt : 0 .. MaxRetries,
     ok : Statuses, skip : Nat, page : 1 .. MaxPages,
     draft : BOOLEAN, incremental : BOOLEAN, outcome : {"none", "FAILED", "SUCCESS"}]

\* The form a poll with these settings is about.
AboutDraft == settings.useDraft /\ ~(draft = NULL /\ settings.fallback)
Target == IF AboutDraft THEN draft ELSE published

PagesTyped ==
    /\ settings \in Pages!Confs /\ supported \in BOOLEAN /\ changed \in BOOLEAN
    /\ read \subseteq 1 .. MaxSubmissions
    /\ IsForm(draft) /\ IsForm(published) /\ IsForm(start)
    /\ request \in Requests
    /\ request.outcome = "none" <=> request.step # "done"

Policy ==
    /\ settings.strict /\ ~settings.allow /\ ~settings.fullScan => request.incremental
    /\ 404 \in request.ok => settings.useDraft /\ settings.fallback
    /\ request.draft => settings.useDraft
    /\ request.incremental /\ ~supported => request.skip = 0
    /\ request.skip = (request.page - 1) * PageSize

\* Which form the poll is at, and that it has not shrunk.
AtForm ==
    /\ start = NULL <=> Target = NULL
    /\ start # NULL => Len(start) <= Len(Target)
    /\ ~request.draft => ~AboutDraft
    /\ request.draft /\ draft = NULL => request.skip = 0 /\ request.outcome # "SUCCESS"

\* What it has read of the submissions that were there when it began.
Covered(r) ==
    \A k \in 1 .. Len(start) :
        (IF r.incremental THEN k <= r.skip ELSE k > Len(Target) - r.skip) => k \in read

Complete ==
    IF start = NULL THEN settings.useDraft
    ELSE Len(IF request.incremental THEN start ELSE Target) <= PageSize * MaxPages
            => 1 .. Len(start) \subseteq read

PagesInv ==
    /\ PagesTyped /\ Policy
    /\ ~changed => /\ AtForm
                   /\ start # NULL /\ request.step # "done" => Covered(request)
                   /\ request.outcome = "SUCCESS" => Complete

-----------------------------------------------------------------------------
\* Forms are numbered from one, and no form is none.
LEMMA FormLength ==
    ASSUME NEW n \in 0 .. MaxSubmissions
    PROVE  /\ Pages!Numbered(n) # NULL /\ Len(Pages!Numbered(n)) = n
           /\ Pages!Numbered(n) \in Seq(Nat)
           /\ DOMAIN Pages!Numbered(n) = 1 .. n
           /\ \A k \in 1 .. n : Pages!Numbered(n)[k] = k
  <1>1. n \in Nat
    BY PartsAssumption
  <1>2. QED
    BY <1>1, NullAssumption DEF Pages!Numbered

LEMMA GrownForm ==
    ASSUME NEW f, IsForm(f), Pages!HasRoom(f)
    PROVE  /\ IsForm(Pages!Grown(f)) /\ f # NULL /\ Pages!Grown(f) # NULL
           /\ Len(Pages!Grown(f)) = Len(f) + 1 /\ Len(f) \in Nat
  <1>1. PICK n \in 0 .. MaxSubmissions : f = Pages!Numbered(n)
    BY DEF IsForm, Pages!HasRoom
  <1>2. n < MaxSubmissions /\ n + 1 \in 0 .. MaxSubmissions /\ n \in Nat
    BY <1>1, FormLength, PartsAssumption DEF Pages!HasRoom
  <1>3. Append(Pages!Numbered(n), n + 1) = Pages!Numbered(n + 1)
    BY <1>2 DEF Pages!Numbered
  <1>4. QED
    BY <1>1, <1>2, <1>3, FormLength DEF Pages!Grown, IsForm

LEMMA SameCardinality == \A S : Pages!Cardinality(S) = Cardinality(S)
  BY DEF Pages!Cardinality, Cardinality

\* The next page of a form of m submissions: as long as the form goes on
\* beyond it, it is full.
LEMMA PageOf ==
    ASSUME NEW m \in 0 .. MaxSubmissions, Pages!List = Pages!Numbered(m), request \in Requests
    PROVE  LET skip == request.skip
               page == IF request.incremental
                       THEN {k \in 1 .. m : skip < k /\ k <= skip + PageSize}
                       ELSE {k \in 1 .. m : m - skip - PageSize < k /\ k <= m - skip}
           IN  /\ Pages!PageEntries = page
               /\ skip + PageSize <= m => Cardinality(page) = PageSize
  <1> DEFINE skip == request.skip
             page == IF request.incremental
                     THEN {k \in 1 .. m : skip < k /\ k <= skip + PageSize}
                     ELSE {k \in 1 .. m : m - skip - PageSize < k /\ k <= m - skip}
             ordered == IF request.incremental THEN Pages!List ELSE Pages!Reverse(Pages!List)
  <1>1. m \in Nat /\ skip \in Nat /\ PageSize \in Nat \ {0} /\ request.incremental \in BOOLEAN
    BY PartsAssumption DEF Requests
  <1>2. Pages!PageEntries = {ordered[k] : k \in DOMAIN ordered \cap (skip + 1) .. (skip + PageSize)}
    BY DEF Pages!PageEntries
  <1>3. DOMAIN ordered = 1 .. m /\ \A k \in 1 .. m : ordered[k] = IF request.incremental THEN k ELSE m - k + 1
    BY <1>1, FormLength DEF Pages!Reverse
  <1> HIDE DEF ordered, skip
  <1>4. Pages!PageEntries = page
    <2>1. CASE request.incremental
      BY <1>1, <1>2, <1>3, <2>1
    <2>2. CASE ~request.incremental
      <3>1. ASSUME NEW k \in DOMAIN ordered \cap (skip + 1) .. (skip + PageSize)
            PROVE  ordered[k] \in page
        BY <1>1, <1>3, <2>2, <3>1
      <3>2. ASSUME NEW j \in page
            PROVE  m - j + 1 \in DOMAIN ordered \cap (skip + 1) .. (skip + PageSize) /\ ordered[m - j + 1] = j
        BY <1>1, <1>3, <2>2, <3>2
      <3> HIDE DEF page
      <3>3. QED
        BY <1>2, <3>1, <3>2
    <2>3. QED
      BY <1>1, <2>1, <2>2
  <1>5. ASSUME skip + PageSize <= m PROVE Cardinality(page) = PageSize
    <2>1. CASE request.incremental
      <3>1. page = (skip + 1) .. (skip + PageSize)
        BY <1>1, <1>5, <2>1
      <3>2. QED
        BY <1>1, <3>1, FS_Interval
    <2>2. CASE ~request.incremental
      <3>1. page = (m - skip - PageSize + 1) .. (m - skip)
        BY <1>1, <1>5, <2>2
      <3>2. m - skip - PageSize + 1 \in Int /\ m - skip \in Int /\ m - skip - PageSize + 1 <= m - skip
        BY <1>1
      <3>3. Cardinality(page) = (m - skip) - (m - skip - PageSize + 1) + 1
        BY <3>1, <3>2, FS_Interval
      <3>4. QED
        BY <1>1, <3>3
    <2>3. QED
      BY <1>1, <2>1, <2>2
  <1>6. QED
    BY <1>4, <1>5 DEF skip

LEMMA PagesSound ==
    ASSUME PagesInv
    PROVE  Pages!TypeOK /\ Pages!PollHonest
  <1> USE DEF PagesInv
  <1>1. Pages!TypeOK
    BY DEF PagesTyped, Requests, Pages!TypeOK
  <1>2. ASSUME request.outcome = "SUCCESS", ~changed, start # NULL
        PROVE  Pages!List = Target /\ Pages!ToSet(start) = 1 .. Len(start)
    <2>1. ~(request.draft /\ draft = NULL) /\ request.draft => settings.useDraft
      BY <1>2 DEF AtForm, Policy
    <2>2. Pages!List = Target
      BY <1>2, <2>1 DEF AtForm, Pages!List, Target, AboutDraft, Policy, PagesTyped, Requests
    <2>3. PICK n \in 0 .. MaxSubmissions : start = Pages!Numbered(n)
      BY <1>2 DEF PagesTyped, IsForm
    <2>4. Pages!ToSet(start) = 1 .. Len(start)
      BY <2>3, FormLength DEF Pages!ToSet
    <2>5. QED
      BY <2>2, <2>4
  <1>3. QED
    BY <1>1, <1>2 DEF Policy, Complete, Pages!PollHonest

LEMMA PagesInit == Pages!Init => PagesInv
  <1> SUFFICES ASSUME Pages!Init PROVE PagesInv
    OBVIOUS
  <1>1. IsForm(draft) /\ IsForm(published) /\ IsForm(start)
    BY PartsAssumption DEF Pages!Init, IsForm
  <1>2. /\ settings \in Pages!Confs /\ supported \in BOOLEAN /\ changed = FALSE /\ read = {}
        /\ start = Target
    BY DEF Pages!Init, Target, AboutDraft
  <1>3. PICK first : first = [step |-> "list", attempt |-> 0, ok |-> {}, skip |-> 0, page |-> 1,
                              draft |-> settings.useDraft, incremental |-> ~settings.fullScan,
                              outcome |-> "none"]
    OBVIOUS
  <1>4. request = [[first EXCEPT !.step = "list", !.attempt = 0] EXCEPT !.ok = Pages!OkIf(first)]
    BY <1>3 DEF Pages!Init, Pages!Page, Pages!Asking
  <1>5. Pages!OkIf(first) \in SUBSET {200, 404, 501}
        /\ (404 \in Pages!OkIf(first) => settings.useDraft /\ settings.fallback)
    BY <1>3 DEF Pages!OkIf
  <1>6. first \in Requests
    BY <1>2, <1>3, PartsAssumption DEF Requests, Statuses, Pages!Confs
  <1>7. /\ request \in Requests /\ request.step = "list" /\ request.ok = Pages!OkIf(first)
        /\ request.skip = 0 /\ request.page = 1 /\ request.draft = settings.useDraft
        /\ request.outcome = "none"
    <2>1. PICK ok : ok = Pages!OkIf(first)
      OBVIOUS
    <2>2. PICK asked : asked = [first EXCEPT !.step = "list", !.attempt = 0]
      OBVIOUS
    <2>3. /\ asked \in Requests /\ asked.step = "list" /\ asked.skip = 0 /\ asked.page = 1
          /\ asked.draft = settings.useDraft /\ asked.outcome = "none"
      BY <1>3, <1>6, <2>2, PartsAssumption DEF Requests
    <2>4. request = [asked EXCEPT !.ok = ok] /\ ok \in Statuses
      BY <1>4, <1>5, <2>1, <2>2 DEF Statuses
    <2>5. QED
      BY <2>1, <2>3, <2>4 DEF Requests
  <1>8. request.incremental = ~settings.fullScan
    BY <1>3, <1>4
  <1>9. PagesTyped
    BY <1>1, <1>2, <1>7 DEF PagesTyped
  <1>10. Policy
    BY <1>2, <1>5, <1>7, <1>8, PartsAssumption DEF Policy, Pages!Confs
  <1>11. AtForm
    <2>1. start # NULL => Len(start) \in Nat
      BY <1>1, FormLength DEF IsForm
    <2>2. QED
      BY <1>2, <1>7, <2>1 DEF AtForm, Target, AboutDraft
  <1>12. start # NULL => Covered(request)
    <2>1. start # NULL => Len(start) \in Nat
      BY <1>1, FormLength DEF IsForm
    <2>2. QED
      BY <1>2, <1>7, <2>1 DEF Covered
  <1>13. QED
    BY <1>7, <1>9, <1>10, <1>11, <1>12 DEF PagesInv

\* What a request may turn into without anything else changing.
LEMMA RequestMoves ==
    ASSUME PagesInv, NEW r \in Requests, request' = r,
           UNCHANGED <<draft, published, supported, settings, read, start, changed>>,
           r.outcome = "none" <=> r.step # "done",
           r.skip = request.skip, r.page = request.page, r.ok \subseteq request.ok \cup {200},
           r.incremental = request.incremental, r.draft = request.draft,
           r.outcome # "SUCCESS",
           r.outcome = "none" => request.outcome = "none"
    PROVE  PagesInv'
  <1>1. PagesTyped'
    BY DEF PagesInv, PagesTyped, IsForm
  <1>2. Policy'
    BY DEF PagesInv, Policy
  <1>3. ~changed => AtForm'
    BY DEF PagesInv, AtForm, Target, AboutDraft
  <1>4. ~changed /\ start # NULL /\ r.step # "done" => Covered(request)'
    BY DEF PagesInv, PagesTyped, Covered, Target, AboutDraft
  <1>5. QED
    BY <1>1, <1>2, <1>3, <1>4 DEF PagesInv

LEMMA FailedHolds ==
    ASSUME PagesInv, request' = Pages!Finished("FAILED"),
           UNCHANGED <<draft, published, supported, settings, read, start, changed>>
    PROVE  PagesInv'
  <1>1. PICK r : r = [request EXCEPT !.step = "done", !.outcome = "FAILED"]
    OBVIOUS
  <1>2. request \in Requests
    BY DEF PagesInv, PagesTyped
  <1>3. /\ r \in Requests /\ r.step = "done" /\ r.outcome = "FAILED"
        /\ r.skip = request.skip /\ r.page = request.page /\ r.ok = request.ok
        /\ r.incremental = request.incremental /\ r.draft = request.draft
    BY <1>1, <1>2 DEF Requests
  <1>4. request' = r
    BY <1>1 DEF Pages!Finished
  <1>5. QED
    BY <1>3, <1>4, RequestMoves

LEMMA RetryHolds ==
    ASSUME PagesInv, NEW status, Pages!Retry(status)
    PROVE  PagesInv'
  <1>1. UNCHANGED <<draft, published, supported, settings, read, start, changed>>
    BY DEF Pages!Retry
  <1>2. CASE request.attempt = MaxRetries
    BY <1>1, <1>2, FailedHolds DEF Pages!Retry
  <1>3. CASE request.attempt # MaxRetries
    <2>1. PICK r : r = [request EXCEPT !.attempt = @ + 1]
      OBVIOUS
    <2>2. request \in Requests /\ request.step # "done" /\ request' = r /\ request.outcome = "none"
      BY <1>3, <2>1 DEF PagesInv, PagesTyped, Pages!Retry, Pages!Requesting
    <2>3. request.attempt + 1 \in 0 .. MaxRetries
      <3>1. MaxRetries \in Nat
        BY PartsAssumption
      <3>2. request.attempt \in 0 .. MaxRetries
        BY <2>2 DEF Requests
      <3>3. QED
        BY <1>3, <3>1, <3>2
    <2>4. /\ r \in Requests /\ r.step = request.step /\ r.outcome = request.outcome
          /\ r.skip = request.skip /\ r.page = request.page /\ r.ok = request.ok
          /\ r.incremental = request.incremental /\ r.draft = request.draft
      BY <2>1, <2>2, <2>3 DEF Requests
    <2>5. QED
      BY <1>1, <2>2, <2>4, RequestMoves
  <1>4. QED
    BY <1>2, <1>3

\* While the poll has read nothing by offset, whatever it asks next is covered.
LEMMA NothingYet ==
    ASSUME PagesInv, ~changed, start # NULL, NEW r, r.skip = 0
    PROVE  Covered(r)
  <1>1. PICK n \in 0 .. MaxSubmissions : start = Pages!Numbered(n)
    BY DEF PagesInv, PagesTyped, IsForm
  <1>2. IsForm(Target) /\ Target # NULL /\ Len(start) <= Len(Target)
    BY DEF PagesInv, PagesTyped, AtForm, Target, AboutDraft
  <1>3. Len(Target) \in Nat /\ Len(start) \in Nat
    BY <1>1, <1>2, FormLength DEF IsForm
  <1>4. QED
    BY <1>2, <1>3 DEF Covered

LEMMA FallBackHolds ==
    ASSUME PagesInv, Pages!FallBackToPublished
    PROVE  PagesInv'
  <1> USE DEF PagesInv
  <1>1. PICK asked : asked = [request EXCEPT !.step = "published", !.attempt = 0]
    OBVIOUS
  <1>2. PICK r : r = [asked EXCEPT !.draft = FALSE]
    OBVIOUS
  <1>3. request \in Requests /\ 0 \in 0 .. MaxRetries
    BY PartsAssumption DEF PagesTyped
  <1>4. /\ asked \in Requests /\ asked.step = "published" /\ asked.outcome = request.outcome
        /\ asked.skip = request.skip /\ asked.page = request.page /\ asked.ok = request.ok
        /\ asked.incremental = request.incremental
    BY <1>1, <1>3 DEF Requests
  <1>5. /\ r \in Requests /\ r.step = "published" /\ r.outcome = request.outcome
        /\ r.skip = request.skip /\ r.page = request.page /\ r.ok = request.ok
        /\ r.incremental = request.incremental /\ r.draft = FALSE
    BY <1>2, <1>4 DEF Requests
  <1>6. /\ request' = r /\ UNCHANGED <<draft, published, supported, settings, read, start, changed>>
        /\ request.step = "list" /\ request.draft /\ draft = NULL /\ 404 \in request.ok
    BY <1>1, <1>2 DEF Pages!FallBackToPublished, Pages!Asking, Pages!Status, Pages!List
  <1>7. settings.useDraft /\ settings.fallback /\ Target = published
    BY <1>6 DEF Policy, Target, AboutDraft
  <1>8. PagesTyped'
    BY <1>5, <1>6 DEF PagesTyped, IsForm
  <1>9. Policy'
    BY <1>5, <1>6 DEF Policy
  <1>10. ~changed => AtForm' /\ r.skip = 0
    BY <1>5, <1>6, <1>7 DEF AtForm, Target, AboutDraft
  <1>11. ~changed /\ start # NULL => Covered(request)'
    BY <1>6, <1>10, NothingYet DEF Covered, Target, AboutDraft
  <1>12. request'.outcome = "none"
    BY <1>5, <1>6 DEF PagesTyped
  <1>13. QED
    BY <1>6, <1>8, <1>9, <1>10, <1>11, <1>12

LEMMA MissingHolds ==
    ASSUME PagesInv, Pages!PublishedMissing
    PROVE  PagesInv'
  <1> USE DEF PagesInv
  <1>1. PICK r : r = [request EXCEPT !.step = "done", !.outcome = "SUCCESS"]
    OBVIOUS
  <1>2. request \in Requests
    BY DEF PagesTyped
  <1>3. /\ r \in Requests /\ r.step = "done" /\ r.outcome = "SUCCESS"
        /\ r.skip = request.skip /\ r.page = request.page /\ r.ok = request.ok
        /\ r.incremental = request.incremental /\ r.draft = request.draft
    BY <1>1, <1>2 DEF Requests
  <1>4. /\ request' = r /\ UNCHANGED <<draft, published, supported, settings, read, start, changed>>
        /\ ~request.draft /\ published = NULL /\ 404 \in request.ok
    BY <1>1 DEF Pages!PublishedMissing, Pages!Finished, Pages!Status, Pages!List
  <1>5. PagesTyped' /\ Policy'
    BY <1>3, <1>4 DEF PagesTyped, Policy, IsForm
  <1>6. ~changed => AtForm' /\ start = NULL /\ settings.useDraft
    BY <1>3, <1>4 DEF AtForm, Target, AboutDraft, Policy
  <1>7. QED
    BY <1>3, <1>4, <1>5, <1>6 DEF Complete

LEMMA UnsupportedHolds ==
    ASSUME PagesInv, Pages!Unsupported
    PROVE  PagesInv'
  <1> USE DEF PagesInv
  <1>1. /\ UNCHANGED <<draft, published, supported, settings, read, start, changed>>
        /\ request.step # "done" /\ request.incremental /\ ~supported
    BY DEF Pages!Unsupported, Pages!Status
  <1>2. CASE Pages!IncrementalUnsupported
    BY <1>1, <1>2, FailedHolds DEF Pages!Unsupported
  <1>3. CASE ~Pages!IncrementalUnsupported
    <2>1. PICK asked : asked = [request EXCEPT !.step = "full", !.attempt = 0]
      OBVIOUS
    <2>2. PICK r : r = [asked EXCEPT !.incremental = FALSE, !.ok = {200}]
      OBVIOUS
    <2>3. request \in Requests /\ 0 \in 0 .. MaxRetries /\ request.outcome = "none"
      BY <1>1, PartsAssumption DEF PagesTyped
    <2>4. /\ asked \in Requests /\ asked.step = "full" /\ asked.outcome = "none"
          /\ asked.skip = request.skip /\ asked.page = request.page /\ asked.draft = request.draft
      BY <2>1, <2>3 DEF Requests
    <2>5. /\ r \in Requests /\ r.step = "full" /\ r.outcome = "none"
          /\ r.skip = request.skip /\ r.page = request.page /\ r.ok = {200}
          /\ r.incremental = FALSE /\ r.draft = request.draft
      <3>1. {200} \in Statuses
        BY DEF Statuses
      <3>2. QED
        BY <2>2, <2>4, <3>1 DEF Requests
    <2>6. request' = r
      BY <1>3, <2>1, <2>2 DEF Pages!Unsupported, Pages!Unfiltered, Pages!Asking
    <2>7. PagesTyped'
      BY <1>1, <2>5, <2>6 DEF PagesTyped, IsForm
    <2>8. Policy'
      BY <1>1, <1>3, <2>5, <2>6 DEF Policy, Pages!IncrementalUnsupported
    <2>9. ~changed => AtForm' /\ r.skip = 0
      BY <1>1, <2>5, <2>6 DEF AtForm, Target, AboutDraft, Policy
    <2>10. ~changed /\ start # NULL => Covered(request)'
      BY <1>1, <2>6, <2>9, NothingYet DEF Covered, Target, AboutDraft
    <2>11. QED
      BY <1>1, <2>5, <2>6, <2>7, <2>8, <2>9, <2>10
  <1>4. QED
    BY <1>2, <1>3

LEMMA NextOffsetOf ==
    ASSUME NEW p \in Int, NEW q, q = p + 1, NEW size \in Int
    PROVE  (q - 1) * size = (p - 1) * size + size
  OBVIOUS

\* A page that is not full, or is the last one, reaches the other end.
LEMMA ReadPageHolds ==
    ASSUME PagesInv, Pages!ReadPage
    PROVE  PagesInv'
  <1> USE DEF PagesInv
  <1> DEFINE page == Pages!PageEntries
             short == Cardinality(page) < PageSize \/ request.page = MaxPages
  <1>1. /\ UNCHANGED <<draft, published, supported, settings, start, changed>>
        /\ read' = read \cup page /\ request.step # "done" /\ Pages!List # NULL
    BY DEF Pages!ReadPage, Pages!Requesting, Pages!Status
  <1>2. request \in Requests /\ request.outcome = "none"
    BY <1>1 DEF PagesTyped
  <1>3. /\ PageSize \in Nat \ {0} /\ MaxPages \in Nat \ {0} /\ 0 \in 0 .. MaxRetries
        /\ request.skip \in Nat /\ request.page \in 1 .. MaxPages /\ request.incremental \in BOOLEAN
    BY <1>2, PartsAssumption DEF Requests
  <1>4. PICK m \in 0 .. MaxSubmissions : Pages!List = Pages!Numbered(m)
    BY <1>1 DEF PagesTyped, IsForm, Pages!List
  <1>5. m \in Nat /\ Len(Pages!List) = m
    BY <1>4, FormLength, PartsAssumption
  <1>6. /\ page \subseteq 1 .. m
        /\ \A k \in 1 .. m : (IF request.incremental
                              THEN request.skip < k /\ k <= request.skip + PageSize
                              ELSE m - request.skip - PageSize < k /\ k <= m - request.skip) => k \in page
        /\ request.skip + PageSize <= m => Cardinality(page) = PageSize
    BY <1>2, <1>3, <1>4, PageOf
  <1>7. PICK r :
           /\ request' = r /\ r \in Requests
           /\ r.outcome = (IF short THEN "SUCCESS" ELSE "none") /\ (r.step = "done" <=> short)
           /\ r.incremental = request.incremental /\ r.draft = request.draft
           /\ short => r.skip = request.skip /\ r.page = request.page /\ r.ok = request.ok
           /\ ~short => /\ r.skip = request.skip + PageSize /\ r.page = request.page + 1
                        /\ 404 \in r.ok => request.draft /\ settings.fallback
    <2>1. Cardinality(page) = Pages!Cardinality(page)
      BY SameCardinality
    <2>2. CASE short
      <3>1. PICK r : r = [request EXCEPT !.step = "done", !.outcome = "SUCCESS"]
        OBVIOUS
      <3>2. request' = r
        BY <2>1, <2>2, <3>1 DEF Pages!ReadPage, Pages!Finished
      <3>3. /\ r \in Requests /\ r.outcome = "SUCCESS" /\ r.step = "done"
            /\ r.incremental = request.incremental /\ r.draft = request.draft
            /\ r.skip = request.skip /\ r.page = request.page /\ r.ok = request.ok
        BY <1>2, <3>1 DEF Requests
      <3>4. QED
        BY <2>2, <3>2, <3>3
    <2>3. CASE ~short
      <3>1. PICK next : next = [request EXCEPT !.skip = @ + PageSize, !.page = @ + 1]
        OBVIOUS
      <3>2. PICK asked : asked = [next EXCEPT !.step = "list", !.attempt = 0]
        OBVIOUS
      <3>3. PICK ok : ok = Pages!OkIf(next)
        OBVIOUS
      <3>4. PICK r : r = [asked EXCEPT !.ok = ok]
        OBVIOUS
      <3>5. request' = r
        BY <2>1, <2>3, <3>1, <3>2, <3>3, <3>4 DEF Pages!ReadPage, Pages!Page, Pages!Asking
      <3>6. request.skip + PageSize \in Nat /\ request.page + 1 \in 1 .. MaxPages
        BY <1>3, <2>3
      <3>7. /\ next \in Requests /\ next.skip = request.skip + PageSize /\ next.page = request.page + 1
            /\ next.incremental = request.incremental /\ next.draft = request.draft
            /\ next.outcome = "none"
        BY <1>2, <3>1, <3>6 DEF Requests
      <3>8. ok \in Statuses /\ (404 \in ok => request.draft /\ settings.fallback)
        BY <3>3, <3>7 DEF Pages!OkIf, Statuses
      <3>9. /\ asked \in Requests /\ asked.skip = next.skip /\ asked.page = next.page
            /\ asked.incremental = next.incremental /\ asked.draft = next.draft
            /\ asked.outcome = "none" /\ asked.step = "list"
        BY <1>3, <3>2, <3>7 DEF Requests
      <3>10. /\ r \in Requests /\ r.skip = next.skip /\ r.page = next.page /\ r.ok = ok
             /\ r.incremental = next.incremental /\ r.draft = next.draft
             /\ r.outcome = "none" /\ r.step = "list"
        BY <3>4, <3>8, <3>9 DEF Requests
      <3>11. QED
        BY <2>3, <3>5, <3>7, <3>8, <3>10
    <2>4. QED
      BY <2>2, <2>3
  <1> HIDE DEF page, short
  <1>8. PagesTyped'
    <2>1. page \subseteq 1 .. MaxSubmissions
      BY <1>4, <1>5, <1>6, PartsAssumption
    <2>2. request.outcome = "none" <=> request.step # "done"
      BY DEF PagesTyped
    <2>3. QED
      BY <1>1, <1>7, <2>1, <2>2 DEF PagesTyped, IsForm
  <1>9. Policy'
    <2>2. request.incremental => supported
      BY DEF Pages!ReadPage, Pages!Status
    <2>3. CASE short
      BY <1>1, <1>7, <2>2, <2>3 DEF Policy
    <2>4. CASE ~short
      <3>1. request'.skip = (request'.page - 1) * PageSize
        <4>1. request.skip = (request.page - 1) * PageSize
          BY DEF Policy
        <4>2. request'.skip = request.skip + PageSize /\ request'.page = request.page + 1
          BY <1>7, <2>4
        <4>3. QED
          BY <1>3, <4>1, <4>2, NextOffsetOf
      <3>2. QED
        BY <1>1, <1>7, <2>2, <2>4, <3>1 DEF Policy
    <2>5. QED
      BY <2>3, <2>4
  <1> SUFFICES ASSUME ~changed
               PROVE  AtForm' /\ (start # NULL /\ request'.step # "done" => Covered(request)')
                      /\ (request'.outcome = "SUCCESS" => Complete')
    BY <1>1, <1>8, <1>9
  <1>11. ~(request.draft /\ draft = NULL) /\ Target = Pages!List
    BY <1>1, <1>2 DEF AtForm, Pages!List, Target, AboutDraft, Policy, Requests
  <1>12. AtForm'
    BY <1>1, <1>7, <1>11 DEF AtForm, Target, AboutDraft
  <1>13. start # NULL
    BY <1>1, <1>11 DEF AtForm
  <1>14. Len(start) \in Nat /\ Len(start) <= m /\ Len(Target) = m /\ Target' = Target
    <2>1. Len(start) \in Nat
      BY <1>13, FormLength DEF PagesTyped, IsForm
    <2>2. QED
      BY <1>1, <1>5, <1>11, <1>13, <2>1 DEF AtForm, Target, AboutDraft
  <1>15. \A k \in 1 .. Len(start) :
            (IF request.incremental THEN k <= request.skip + PageSize
             ELSE k > m - (request.skip + PageSize)) => k \in read'
    BY <1>1, <1>2, <1>3, <1>5, <1>6, <1>13, <1>14 DEF Covered
  <1>16. ~short => Covered(request)'
    BY <1>1, <1>7, <1>14, <1>15 DEF Covered, Target, AboutDraft
  <1>17. short => Complete'
    <2> SUFFICES ASSUME short, (IF request.incremental THEN Len(start) ELSE m) <= PageSize * MaxPages
                 PROVE  1 .. Len(start) \subseteq read'
      BY <1>1, <1>7, <1>13, <1>14 DEF Complete
    <2>1. CASE request.page = MaxPages
      <3>1. request.skip + PageSize = PageSize * MaxPages
        BY <1>3, <2>1 DEF Policy
      <3>2. QED
        BY <1>3, <1>5, <1>14, <1>15, <3>1
    <2>2. CASE Cardinality(page) < PageSize
      <3>1. m < request.skip + PageSize
        BY <1>3, <1>5, <1>6, <2>2
      <3>2. QED
        BY <1>3, <1>5, <1>14, <1>15, <3>1
    <2>3. QED
      BY <2>1, <2>2 DEF short
  <1>18. QED
    BY <1>7, <1>12, <1>16, <1>17

LEMMA SubmitHolds ==
    ASSUME PagesInv, Pages!Submit
    PROVE  PagesInv'
  <1> USE DEF PagesInv
  <1>1. UNCHANGED <<supported, settings, request, read, start, changed>>
    BY DEF Pages!Submit
  <1>2. /\ IsForm(draft) /\ IsForm(published)
        /\ \/ Pages!HasRoom(draft) /\ draft' = Pages!Grown(draft) /\ published' = published
           \/ Pages!HasRoom(published) /\ published' = Pages!Grown(published) /\ draft' = draft
    BY DEF Pages!Submit, PagesTyped
  <1>3. /\ IsForm(draft') /\ IsForm(published')
        /\ draft' = NULL <=> draft = NULL
        /\ published' = NULL <=> published = NULL
        /\ draft # NULL => Len(draft) \in Nat /\ Len(draft') \in Nat /\ Len(draft) <= Len(draft')
        /\ published # NULL =>
              Len(published) \in Nat /\ Len(published') \in Nat /\ Len(published) <= Len(published')
    <2>1. \A f : IsForm(f) /\ f # NULL => Len(f) \in Nat
      BY FormLength, PartsAssumption DEF IsForm
    <2>2. QED
      BY <1>2, <2>1, GrownForm
  <1>4. PagesTyped' /\ Policy'
    BY <1>1, <1>3 DEF PagesTyped, Policy, IsForm
  <1>5. /\ Target' = NULL <=> Target = NULL
        /\ Target # NULL => Len(Target) \in Nat /\ Len(Target') \in Nat /\ Len(Target) <= Len(Target')
    BY <1>1, <1>3 DEF Target, AboutDraft
  <1>6. ~changed /\ start # NULL => Len(start) \in Nat /\ Target # NULL
    BY FormLength, PartsAssumption DEF PagesTyped, IsForm, AtForm
  <1>7. ~changed => AtForm'
    <2>1. AboutDraft' = AboutDraft
      BY <1>1, <1>3 DEF AboutDraft
    <2>2. QED
      BY <1>1, <1>3, <1>5, <1>6, <2>1 DEF AtForm
  <1>8. ~changed /\ start # NULL /\ Covered(request) => Covered(request)'
    <2>1. request.skip \in Nat
      BY DEF PagesTyped, Requests
    <2>2. QED
      BY <1>1, <1>5, <1>6, <2>1 DEF Covered
  <1>9. ~changed /\ Complete => Complete'
    <2>1. PageSize * MaxPages \in Nat
      BY PartsAssumption
    <2>2. QED
      BY <1>1, <1>5, <1>6, <2>1 DEF Complete
  <1>10. QED
    BY <1>1, <1>4, <1>7, <1>8, <1>9

LEMMA PagesStep ==
    ASSUME PagesInv, Pages!Next \/ UNCHANGED pages
    PROVE  PagesInv'
  <1>1. CASE Pages!NotFound
    BY <1>1, FailedHolds DEF Pages!NotFound
  <1>2. CASE Pages!Publish \/ Pages!DeleteForm
    <2>1. IsForm(<<>>)
      <3>1. 0 \in 0 .. MaxSubmissions /\ Pages!Numbered(0) = <<>>
        BY PartsAssumption DEF Pages!Numbered
      <3>2. QED
        BY <3>1 DEF IsForm
    <2>2. /\ UNCHANGED <<supported, settings, request, read, start>> /\ changed' = TRUE
          /\ draft' \in {draft, NULL} /\ published' \in {published, NULL, <<>>}
      BY <1>2 DEF Pages!Publish, Pages!DeleteForm
    <2>3. PagesTyped' /\ Policy'
      BY <2>1, <2>2 DEF PagesInv, PagesTyped, Policy, IsForm
    <2>4. QED
      BY <2>2, <2>3 DEF PagesInv
  <1>3. CASE UNCHANGED pages
    BY <1>3 DEF pages, PagesInv, PagesTyped, Policy, IsForm, AtForm, Target, AboutDraft, Covered, Complete
  <1>4. QED
    BY <1>1, <1>2, <1>3, RetryHolds, FallBackHolds, MissingHolds, UnsupportedHolds, ReadPageHolds,
       SubmitHolds DEF Pages!Next

-----------------------------------------------------------------------------
(* NavLinks and RunListing, whose proofs are in AnswersProofs.              *)

A == INSTANCE AnswersProofs

LEMMA AnswersInputs == A!ListingInputs /\ A!FormsAreTrees
  BY NullAssumption, PartsAssumption, ListingAssumption, FormsAreTrees
     DEF A!ListingInputs, A!FormsAreTrees, A!Rows, A!IsFiniteSet, IsFiniteSet

LEMMA SameRepeats ==
    /\ Repeats!Init <=> A!Repeats!Init
    /\ Repeats!Next <=> A!Repeats!Next
    /\ Repeats!LinksExpanded <=> A!Repeats!LinksExpanded
  <1>1. Repeats!Init <=> A!Repeats!Init
    BY Zenon DEF Repeats!Init, A!Repeats!Init, Repeats!Links, A!Repeats!Links, Repeats!Nodes, A!Repeats!Nodes
  <1>2. Repeats!Next <=> A!Repeats!Next
    <2>1. Repeats!ResolveNavLinks = A!Repeats!ResolveNavLinks
      BY Zenon DEF Repeats!ResolveNavLinks, A!Repeats!ResolveNavLinks, Repeats!AtDict, A!Repeats!AtDict,
         Repeats!AtLink, A!Repeats!AtLink, Repeats!All, A!Repeats!All, Repeats!Plus, A!Repeats!Plus,
         Repeats!Nothing, A!Repeats!Nothing, Repeats!Asked, A!Repeats!Asked,
         Repeats!Expanded, A!Repeats!Expanded, Repeats!Passes, A!Repeats!Passes,
         Repeats!ChildrenOf, A!Repeats!ChildrenOf, Repeats!Links, A!Repeats!Links,
         Repeats!Nodes, A!Repeats!Nodes, Repeats!SumFunction, A!Repeats!SumFunction,
         Repeats!SumFunctionOnSet, A!Repeats!SumFunctionOnSet, Repeats!FoldFunctionOnSet, A!Repeats!FoldFunctionOnSet,
         Repeats!MapThenFoldSet, A!Repeats!MapThenFoldSet
    <2>2. QED
      BY <2>1, Zenon DEF Repeats!Next, A!Repeats!Next, Repeats!Resolve, A!Repeats!Resolve
  <1>3. Repeats!LinksExpanded <=> A!Repeats!LinksExpanded
    BY Zenon DEF Repeats!LinksExpanded, A!Repeats!LinksExpanded, Repeats!Links, A!Repeats!Links,
       Repeats!Nodes, A!Repeats!Nodes, Repeats!Ancestors, A!Repeats!Ancestors, Repeats!Costs, A!Repeats!Costs,
       Repeats!SumFunctionOnSet, A!Repeats!SumFunctionOnSet,
       Repeats!FoldFunctionOnSet, A!Repeats!FoldFunctionOnSet,
       Repeats!MapThenFoldSet, A!Repeats!MapThenFoldSet, Repeats!Cardinality, A!Repeats!Cardinality
  <1>4. QED
    BY <1>1, <1>2, <1>3

LEMMA SameListing ==
    /\ Listing!Init <=> A!Listing!Init
    /\ Listing!Next <=> A!Listing!Next
    /\ Listing!TypeOK <=> A!Listing!TypeOK
    /\ Listing!ListingComplete <=> A!Listing!ListingComplete
  <1>1. Listing!Matching = A!Listing!Matching
    BY Zenon DEF Listing!Matching, A!Listing!Matching, Listing!Matches, A!Listing!Matches
  <1>2. Listing!Queries = A!Listing!Queries
    BY DEF Listing!Queries, A!Listing!Queries
  <1>3. Listing!Init <=> A!Listing!Init
    BY <1>1, <1>2, Zenon DEF Listing!Init, A!Listing!Init
  <1>4. Listing!Next <=> A!Listing!Next
    BY Zenon DEF Listing!Next, A!Listing!Next, Listing!List, A!Listing!List, Listing!Touch, A!Listing!Touch,
       Listing!Replayed, A!Listing!Replayed, Listing!Arrive, A!Listing!Arrive,
       Listing!NextOffset, A!Listing!NextOffset, Listing!Matching, A!Listing!Matching,
       Listing!Matches, A!Listing!Matches, Listing!Orders, A!Listing!Orders, Listing!Ties, A!Listing!Ties,
       Listing!Before, A!Listing!Before, Listing!NameBefore, A!Listing!NameBefore,
       Listing!Newest, A!Listing!Newest, Listing!CanTick, A!Listing!CanTick,
       Listing!Max, A!Listing!Max, Listing!SetToSeqs, A!Listing!SetToSeqs, Listing!Cardinality, A!Listing!Cardinality
  <1>5. Listing!TypeOK <=> A!Listing!TypeOK
    BY <1>2 DEF Listing!TypeOK, A!Listing!TypeOK
  <1>6. Listing!ListingComplete <=> A!Listing!ListingComplete
    BY Zenon DEF Listing!ListingComplete, A!Listing!ListingComplete
  <1>7. QED
    BY <1>3, <1>4, <1>5, <1>6

LEMMA LinksStep ==
    ASSUME A!LinksInv, Repeats!Next \/ UNCHANGED links
    PROVE  A!LinksInv'
  BY SameRepeats, A!LinksStep DEF links, A!links

LEMMA ListingStep ==
    ASSUME A!ListingInv, Listing!Next \/ UNCHANGED listing
    PROVE  A!ListingInv'
  BY SameListing, AnswersInputs, A!ListingStep DEF listing, A!listing

-----------------------------------------------------------------------------
(* The service: a part that is not shown has nothing to hold, and the steps *)
(* of the others leave it alone.                                            *)

PollsInv ==
    IF Overlapping THEN IInv ELSE DOMAIN poll = {Alone} /\ Q!IInv /\ Q!SoleInv

ServiceInv ==
    /\ focus \in Parts
    /\ focus = "polls" => PollsInv
    /\ focus = "counters" => CountersInv
    /\ focus = "intake" => IntakeInv
    /\ focus = "hub" => HubInv
    /\ focus = "registry" => RegistryInv
    /\ focus = "pages" => PagesInv
    /\ focus = "listing" => A!ListingInv
    /\ focus = "links" => A!LinksInv

LEMMA PollsInit == Init \/ Single!Init => PollsInv
  <1>1. ASSUME Init PROVE PollsInv
    BY <1>1, InitOK DEF Init, Overlapping, PollsInv
  <1>2. ASSUME Single!Init PROVE PollsInv
    <2>1. DOMAIN poll = {Alone} /\ ~Overlapping
      BY <1>2, AloneAssumption DEF Single!Init, Overlapping
    <2>2. Q!IInv
      BY <1>2, SingleInit, Q!InitOK, AloneAssumption, EntriesAssumption, BoundsAssumption, PoisonAssumption, SwitchAssumption
    <2>3. Q!SoleInv
      BY <1>2, SingleInit, Q!SoleInit, AloneAssumption, EntriesAssumption, BoundsAssumption, PoisonAssumption, SwitchAssumption
    <2>4. QED
      BY <2>1, <2>2, <2>3 DEF PollsInv
  <1>3. QED
    BY <1>1, <1>2

LEMMA PollsStep ==
    ASSUME PollsInv, (Overlapping /\ Next) \/ (~Overlapping /\ Single!Next) \/ UNCHANGED polls
    PROVE  PollsInv'
  <1>1. CASE Overlapping
    <2>1. IInv'
      BY <1>1, StepOK, StutterOK DEF PollsInv, polls
    <2>2. Overlapping'
      BY <2>1 DEF IInv, TypeOK, Overlapping
    <2>3. QED
      BY <2>1, <2>2 DEF PollsInv
  <1>2. CASE ~Overlapping
    <2>1. Q!IInv' /\ Q!SoleInv'
      BY <1>2, SingleNext, Q!StepOK, Q!StutterOK, Q!SoleStep, AloneAssumption, EntriesAssumption, BoundsAssumption, PoisonAssumption, SwitchAssumption DEF PollsInv, polls, vars, Q!vars
    <2>2. DOMAIN poll' = {Alone}
      BY <2>1 DEF Q!IInv, Q!TypeOK
    <2>3. QED
      BY <2>1, <2>2, AloneAssumption DEF PollsInv, Overlapping
  <1>3. QED
    BY <1>1, <1>2

LEMMA ServiceInitOK == ServiceInit => ServiceInv
  BY PollsInit, CountersInit, IntakeInit, HubInit, RegistryInit, PagesInit, AnswersInputs,
     SameRepeats, SameListing, A!ListingInit, A!LinksInit
     DEF ServiceInit, ServiceInv, Parts

\* What a step of the service is for the part that is shown.
LEMMA PartSteps ==
    ASSUME [ServiceNext]_all
    PROVE  /\ focus' = focus
           /\ focus = "polls" => (Overlapping /\ Next) \/ (~Overlapping /\ Single!Next) \/ UNCHANGED polls
           /\ focus = "counters" => Counters!Next \/ UNCHANGED counters
           /\ focus = "intake" => Intake!Next \/ UNCHANGED intake
           /\ focus = "hub" => Hub!Next \/ UNCHANGED hub
           /\ focus = "registry" => Registry!Next \/ UNCHANGED registry
           /\ focus = "pages" => Pages!Next \/ UNCHANGED pages
           /\ focus = "listing" => Listing!Next \/ UNCHANGED listing
           /\ focus = "links" => Repeats!Next \/ UNCHANGED links
  <1>1. CASE ServiceNext
    BY <1>1, Zenon DEF ServiceNext, PollsNext
  <1>2. CASE UNCHANGED all
    BY <1>2 DEF all
  <1>3. QED
    BY <1>1, <1>2

LEMMA ServiceStepOK == ServiceInv /\ [ServiceNext]_all => ServiceInv'
  <1> SUFFICES ASSUME ServiceInv, [ServiceNext]_all
               PROVE  ServiceInv'
    OBVIOUS
  <1> USE PartSteps DEF ServiceInv
  <1>1. focus = "polls" => PollsInv'
    BY PollsStep
  <1>2. focus = "counters" => CountersInv'
    BY CountersStep
  <1>3. focus = "intake" => IntakeInv'
    BY IntakeStep
  <1>4. focus = "hub" => HubInv'
    BY HubStep
  <1>5. focus = "registry" => RegistryInv'
    BY RegistryStep
  <1>6. focus = "pages" => PagesInv'
    BY PagesStep
  <1>7. focus = "listing" => A!ListingInv'
    BY ListingStep
  <1>8. focus = "links" => A!LinksInv'
    BY LinksStep
  <1>9. QED
    BY <1>1, <1>2, <1>3, <1>4, <1>5, <1>6, <1>7, <1>8

\* The invariant of the service, from which the theorems below follow.
LEMMA ServiceHolds == ServiceSpec => []ServiceInv
  BY ServiceInitOK, ServiceStepOK, PTL DEF ServiceSpec

-----------------------------------------------------------------------------
\* Every part keeps the types of its own variables, whatever the instances.
THEOREM PartsTyped == ServiceSpec => []PartTypeOK
  <1>1. ServiceInv => PartTypeOK
    <2> SUFFICES ASSUME ServiceInv PROVE PartTypeOK
      OBVIOUS
    <2> USE DEF ServiceInv, Parts
    <2>1. focus = "polls" => IF Overlapping THEN TypeOK ELSE Single!TypeOK
      BY SingleTypes DEF PollsInv, IInv, Q!IInv
    <2>2. focus = "pages" => Pages!TypeOK
      BY PagesSound
    <2>3. focus = "registry" => Registry!TypeOK
      BY RegistrySound
    <2>4. focus = "counters" => Counters!TypeOK
      BY DEF CountersInv
    <2>5. focus = "intake" => Intake!TypeOK
      BY DEF IntakeInv, TypedInv
    <2>6. focus = "hub" => Hub!TypeOK
      BY DEF HubInv
    <2>7. focus = "listing" => Listing!TypeOK
      BY SameListing DEF A!ListingInv
    <2>8. QED
      BY <2>1, <2>2, <2>3, <2>4, <2>5, <2>6, <2>7 DEF PartTypeOK
  <1>2. QED
    BY <1>1, ServiceHolds, PTL

\* However polls overlap, fail, die and overwrite each other's checkpoint, and
\* however often the cursor is reset, the watermark passes no submission that
\* is neither sent nor dead-lettered (worker.py:124-140): under every setting
\* in which a submission, once on a page, does not come to stand on another.
THEOREM NothingIsSkipped ==
    ASSUME \A c \in Configs \cup AloneConfigs : PagesStay(c)
    PROVE  ServiceSpec => []NothingSkipped
  <1>1. ServiceInv => NothingSkipped
    <2> SUFFICES ASSUME ServiceInv, focus = "polls"
                 PROVE  IF Overlapping THEN NoSkip ELSE Single!NoSkip
      BY DEF NothingSkipped
    <2>1. CASE Overlapping
      <3>1. IInv /\ conf \in Configs
        BY <2>1 DEF ServiceInv, PollsInv, IInv, TypeOK
      <3>2. QED
        BY <2>1, <3>1, InvariantSuffices
    <2>2. CASE ~Overlapping
      <3>1. Q!IInv /\ conf \in AloneConfigs
        BY <2>2 DEF ServiceInv, PollsInv, Q!IInv, Q!TypeOK
      <3>2. Q!PagesStay(conf)
        <4>1. \A S : Q!IsFiniteSet(S) <=> IsFiniteSet(S)
          BY DEF Q!IsFiniteSet, IsFiniteSet
        <4>2. \A S : Q!Cardinality(S) = Cardinality(S)
          BY DEF Q!Cardinality, Cardinality
        <4>3. Q!FitsOnePage(conf) <=> FitsOnePage(conf)
          BY <4>1, <4>2 DEF FitsOnePage, Q!FitsOnePage
        <4>4. QED
          BY <3>1, <4>3 DEF PagesStay, Q!PagesStay
      <3>3. Q!NoSkip
        BY <3>1, <3>2, Q!InvariantSuffices, AloneAssumption, EntriesAssumption, BoundsAssumption, PoisonAssumption, SwitchAssumption
      <3>4. QED
        BY <2>2, <3>3 DEF Q!NoSkip, Single!NoSkip, Q!Fetchable, Single!Fetchable, Q!Matches, Single!Matches,
           Q!Seen, Single!Seen, Q!Timed, Single!Timed, Q!Field, Single!Field, Q!NoValue, Single!NoValue
    <2>3. QED
      BY <2>1, <2>2
  <1>2. QED
    BY <1>1, ServiceHolds, PTL

\* One poll at a time hands no submission to process_record again, however
\* many share the watermark's instant (odk_central.py:14-16).
THEOREM AloneNeverTwice == ServiceSpec => []OnceWhenAlone
  <1>1. ServiceInv => OnceWhenAlone
    <2> SUFFICES ASSUME ServiceInv, focus = "polls", ~Overlapping
                 PROVE  Single!NotReprocessed
      BY DEF OnceWhenAlone
    <2>1. Q!NotReprocessed
      BY Q!SoleSuffices, AloneAssumption, EntriesAssumption, BoundsAssumption, PoisonAssumption, SwitchAssumption DEF ServiceInv, PollsInv
    <2>2. QED
      BY <2>1 DEF Q!NotReprocessed, Single!NotReprocessed, Q!Seen, Single!Seen, Q!Timed, Single!Timed,
         Q!NoValue, Single!NoValue
  <1>2. QED
    BY <1>1, ServiceHolds, PTL

\* One poll at a time never takes the checkpoint of a timestamp connector back
\* (checkpoints.py:130-183, worker.py:139-162).
THEOREM AloneGoesForward == ServiceSpec => AdvancesWhenAlone
  <1>1. ASSUME ServiceInv, [ServiceNext]_all, focus = "polls", ~Overlapping, conf.mode = "timestamp"
        PROVE  Single!NoStepBack(ckpt, ckpt') \/ UNCHANGED vars
    <2>1. Single!Next \/ UNCHANGED vars
      BY <1>1, PartSteps DEF polls
    <2>2. Single!Next => Q!NoStepBack(ckpt, ckpt')
      BY <1>1, SingleNext, Q!SoleForward, AloneAssumption, EntriesAssumption, BoundsAssumption, PoisonAssumption, SwitchAssumption DEF ServiceInv, PollsInv
    <2>3. QED
      BY <2>1, <2>2 DEF Q!NoStepBack, Single!NoStepBack
  <1>2. ServiceInv /\ [ServiceNext]_all
        => [(focus = "polls" /\ ~Overlapping /\ conf.mode = "timestamp")
              => Single!NoStepBack(ckpt, ckpt')]_vars
    BY <1>1
  <1>3. QED
    BY <1>2, ServiceHolds, PTL DEF ServiceSpec, AdvancesWhenAlone

\* Lost updates only ever make the redelivery counters too small, and sessions
\* that never overlap lose none (ingestion_service.py:89-118).
THEOREM CountersAreSound == ServiceSpec => []CountersSound
  <1>1. ServiceInv => CountersSound
    BY DEF ServiceInv, CountersInv, Undisturbed, CountersSound, Counters!CountersSound,
       Counters!ExactWhenAlone
  <1>2. QED
    BY <1>1, ServiceHolds, PTL

\* An event whose sender was told "queued" waits, is in the registry or is in
\* the dead-letter queue, unless a worker died with it, an operator switched the
\* connector while it waited or process_record raises over it: for any bodies,
\* envelopes and deliveries.
THEOREM AcceptedEventsAreKept == ServiceSpec => [](focus = "intake" => Intake!AcceptedKept)
  <1>1. ServiceInv => (focus = "intake" => Intake!AcceptedKept)
    BY DEF ServiceInv, IntakeInv, KeptInv
  <1>2. QED
    BY <1>1, ServiceHolds, PTL

\* And queued, inline or replayed, the registry gets what the request has
\* extracted, under the envelopes that the task reads as the request does.
THEOREM IntakeIsSound ==
    ASSUME \A p \in Paths : SameReading(p)
    PROVE  ServiceSpec => []IntakeSound
  <1>1. ServiceInv => IntakeSound
    BY DEF ServiceInv, IntakeInv, KeptInv, TypedInv, Intake!TypeOK, PayloadInv, IntakeSound
  <1>2. QED
    BY <1>1, ServiceHolds, PTL

\* What the report of a synchronisation calls subscribed is known to the hub,
\* through failed registrations, lost answers, challenges and hub restarts.
THEOREM ReportsHold == ServiceSpec => []ReportHolds
  <1>1. ServiceInv => ReportHolds
    BY TopicsAsked DEF ServiceInv, HubInv, ReportOK, Holds, ReportHolds, Hub!ReportHolds
  <1>2. QED
    BY <1>1, ServiceHolds, PTL

\* However connectors are created, edited and deleted, a slug leads to one of
\* them, a blank to none, and no push connector is ever polled.
THEOREM ConnectorsAreSound == ServiceSpec => []ConnectorsSound
  <1>1. ServiceInv => ConnectorsSound
    BY RegistrySound DEF ServiceInv, ConnectorsSound
  <1>2. QED
    BY <1>1, ServiceHolds, PTL

\* A start of the service overwrites no pipeline (default_pipelines.py).
THEOREM StartsKeep == ServiceSpec => StartKeeps
  <1>1. ServiceInv
        => [focus = "registry" => \A configured \in BOOLEAN :
               Registry!Boot(configured) => Registry!StartKept]_all
    BY BootHolds DEF ServiceInv
  <1>2. QED
    BY <1>1, ServiceHolds, PTL DEF StartKeeps

\* A poll that succeeds has read every submission the form had when it began,
\* through retries, fallbacks, pages and submissions that arrive meanwhile, and
\* none downloads the form against its policy.
THEOREM FormsAreRead == ServiceSpec => []FormRead
  <1>1. ServiceInv => FormRead
    BY PagesSound DEF ServiceInv, FormRead
  <1>2. QED
    BY <1>1, ServiceHolds, PTL

\* Following "next" to the end of a listing shows every row that was due, while
\* rows arrive, are touched and are replayed, unless rows that the order does
\* not tell apart were listed; and a repeat that fails hides no other.
THEOREM AnswersAreComplete == ServiceSpec => []AnswersComplete
  <1>1. ServiceInv => AnswersComplete
    BY SameRepeats, SameListing, A!ListingHolds, A!LinksHold DEF ServiceInv, AnswersComplete
  <1>2. QED
    BY <1>1, ServiceHolds, PTL

=============================================================================
