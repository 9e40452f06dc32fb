--------------------------- MODULE WebhookIntake ----------------------------
(* Pushed events of one connector: the request that accepts an event, the   *)
(* Celery task that processes it (or the request itself when the broker     *)
(* cannot be reached), and the replay of a dead-lettered one.               *)
(*                                                                          *)
(* A JSON object is the set of the key sequences that lead to its scalars.  *)
(* What the connector says of envelopes is fixed in a behaviour.            *)
EXTENDS Naturals, FiniteSets, SequencesExt

CONSTANTS
    Body,        \* event -> JSON object of its request
    Paths,       \* envelope settings an operator may have configured
    Raising,     \* events whose payload the routing of a record cannot read
    MaxQueued,   \* bound on the deliveries of one event waiting in the queue
    Idle         \* no task

VARIABLES
    path,        \* envelope, data_path: <<>> is none; set: envelope is a key
    state,       \* the connector: "active", "off" (disabled, paused) or "gone"
    queue,       \* event -> its tasks in the broker
    running,     \* event of the task the worker has taken
    keys,        \* events with an idempotency key
    ingested,    \* what the registry was sent: event and payload
    dead,        \* dead-letter entries: event and raw data
    accepted,    \* events whose sender was told that they are queued
    exposed      \* accepted events that met a crash or an operator's switch

vars == <<path, state, queue, running, keys, ingested, dead, accepted, exposed>>

Events == DOMAIN Body

----------------------------------------------------------------------------
Sub(object, k) == {Tail(q) : q \in {p \in object : Head(p) = k /\ Len(p) > 1}}
HasKey(object, k) == \E p \in object : Head(p) = k
Search(p, object) == FoldLeft(Sub, object, p)
NoDict == {}

\* The request goes by whether webhook_payload_envelope is a key, the record by
\* whether it says something.
RequestPath(c) == IF c.set THEN c.envelope ELSE c.data_path
RecordPath(c) == IF c.envelope # <<>> THEN c.envelope ELSE c.data_path

\* What the request takes for the data of the event.
ExtractPayload(body, p) ==
    IF p # <<>> THEN Search(p, body)
    ELSE IF HasKey(body, "data") THEN Sub(body, "data") ELSE body

SourceEventId(body, data) == HasKey(body, "source_event_id") \/ HasKey(data, "_id")
Identified(e) == SourceEventId(Body[e], ExtractPayload(Body[e], RequestPath(path)))

\* Mutant of Unwrapped: the task hands the whole body on.
NotUnwrapped(body) == body

\* What the task takes for it: it is given the body, and knows no envelope.
Unwrapped(body) == IF Sub(body, "data") # NoDict THEN Sub(body, "data") ELSE body

\* What process_record makes of either.
ExtractEnvelope(raw) ==
    LET p == RecordPath(path)
    IN  IF p # <<>> /\ Search(p, raw) # NoDict THEN Search(p, raw) ELSE raw

\* A duplicate of an ingested event ends well without a second send.
Duplicate(e) == Identified(e) /\ e \in keys
Succeeds(e, raw) ==
    IF Duplicate(e) THEN UNCHANGED <<keys, ingested>>
    ELSE /\ e \notin Raising
         /\ ingested' = ingested \cup {[event |-> e, payload |-> ExtractEnvelope(raw)]}
         /\ keys' = IF Identified(e) THEN keys \cup {e} ELSE keys

Fails(e, raw) ==
    /\ ~Duplicate(e)
    /\ dead' = dead \cup {[event |-> e, raw |-> raw]}
    /\ UNCHANGED <<keys, ingested>>

\* Mapped, but process_record raises before it is sent: the transaction is
\* lost and the task with it, or the request answers with 500.
Raises(e) ==
    /\ e \in Raising /\ ~Duplicate(e)
    /\ UNCHANGED <<keys, ingested, dead>>

Process(e, raw) == (Succeeds(e, raw) /\ UNCHANGED dead) \/ Fails(e, raw) \/ Raises(e)

----------------------------------------------------------------------------
ResolveConnector == state = "active"

\* A body without a usable payload is answered with 400.
Acceptable(e) == ResolveConnector /\ ExtractPayload(Body[e], RequestPath(path)) # NoDict

Enqueue(e) ==
    /\ Acceptable(e)
    /\ queue[e] < MaxQueued
    /\ queue' = [queue EXCEPT ![e] = @ + 1]
    /\ accepted' = accepted \cup {e}
    /\ exposed' = exposed \ {e}
    /\ UNCHANGED <<path, state, running, keys, ingested, dead>>

ProcessInline(e) ==
    /\ Acceptable(e)
    /\ Process(e, ExtractPayload(Body[e], RequestPath(path)))
    /\ UNCHANGED <<path, state, queue, running, accepted, exposed>>

\* The broker forgets a task as soon as a worker has it.
Take(e) ==
    /\ running = Idle /\ queue[e] > 0
    /\ running' = e
    /\ queue' = [queue EXCEPT ![e] = @ - 1]
    /\ UNCHANGED <<path, state, keys, ingested, dead, accepted, exposed>>

ProcessWebhook ==
    /\ running # Idle
    /\ IF state = "active"
       THEN Process(running, Unwrapped(Body[running]))
       ELSE UNCHANGED <<keys, ingested, dead>>
    /\ running' = Idle
    /\ UNCHANGED <<path, state, queue, accepted, exposed>>

\* A worker dies, or its database connection does: the task is not retried.
Crash ==
    /\ running # Idle
    /\ exposed' = exposed \cup {running}
    /\ running' = Idle
    /\ UNCHANGED <<path, state, queue, keys, ingested, dead, accepted>>

\* An entry that fails or raises again stays, as if nothing had happened.
ReplayDlq(d) ==
    /\ state # "gone"
    /\ Succeeds(d.event, d.raw)
    /\ dead' = dead \ {d}
    /\ UNCHANGED <<path, state, queue, running, accepted, exposed>>

\* The operator switches the connector on and off, or deletes it.
Switch(s) ==
    /\ state # "gone" /\ s # state
    /\ state' = s
    /\ exposed' = exposed \cup {e \in accepted : queue[e] > 0 \/ running = e}
    /\ UNCHANGED <<path, queue, running, keys, ingested, dead, accepted>>

Next ==
    \/ \E e \in Events : Enqueue(e) \/ ProcessInline(e) \/ Take(e)
    \/ ProcessWebhook
    \/ Crash
    \/ \E d \in dead : ReplayDlq(d)
    \/ \E s \in {"active", "off", "gone"} : Switch(s)

Init ==
    /\ path \in Paths
    /\ state = "active"
    /\ queue = [e \in Events |-> 0]
    /\ running = Idle
    /\ keys = {} /\ ingested = {} /\ dead = {} /\ accepted = {} /\ exposed = {}

Spec == Init /\ [][Next]_vars

----------------------------------------------------------------------------
TypeOK ==
    /\ path \in Paths /\ state \in {"active", "off", "gone"}
    /\ queue \in [Events -> 0..MaxQueued]
    /\ running \in Events \cup {Idle}
    /\ keys \subseteq Events /\ accepted \subseteq Events /\ exposed \subseteq Events
    /\ \A r \in ingested : r.event \in Events
    /\ \A d \in dead : d.event \in Events

Kept(e) ==
    \/ queue[e] > 0 \/ running = e
    \/ \E r \in ingested : r.event = e
    \/ \E d \in dead : d.event = e

\* An event whose sender was told "queued" waits, is being processed, is in
\* the registry or is in the dead-letter queue, unless a worker died with it,
\* an operator switched the connector while it waited or process_record
\* raises over it, which leaves no trace of it.
AcceptedKept == \A e \in accepted \ (exposed \cup Raising) : Kept(e)

\* webhook.py: the request "enqueues heavy processing; otherwise it processes
\* inline".  Queued, inline or replayed, the registry gets what the request
\* has extracted.
SamePayload ==
    \A r \in ingested : r.payload = ExtractPayload(Body[r.event], RequestPath(path))

=============================================================================
