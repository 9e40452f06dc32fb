----------------------------- MODULE Connectors -----------------------------
(* The connector definitions: what the API creates, edits and deletes, what *)
(* a start of the service adds, and which of them the beat and the operator *)
(* have polled.  Tasks of one connector in the queue count once.            *)
EXTENDS Naturals, FiniteSets

CONSTANTS
    Ids,         \* generated connector ids
    Seeded,      \* the fixed id of the default pipeline
    SeedName,    \* and its name
    Names,       \* names an operator gives
    Slugs,       \* slugs of callback paths
    Blank,       \* what the form submits for no slug
    NULL,        \* no row, no slug, no poll
    Interval,    \* poll_interval_seconds, in ticks
    MaxClock     \* bound on the clock

VARIABLES
    defs,        \* id -> row of connector_definitions
    schema,      \* of that table: "none", "older" than this release or "current"
    tasks,       \* connectors with a poll task in the queue
    polling,     \* the connector whose poll is running
    clock

vars == <<defs, schema, tasks, polling, clock>>

AllIds == Ids \cup {Seeded}
AllNames == Names \cup {SeedName}
Transports == {"odk_central", "kafka_consumer", "websub"}
Push == {"webhook", "websub"}
Rows == {i \in AllIds : defs[i] # NULL}

----------------------------------------------------------------------------
(* services/connector_service.py.  Names and slugs are unique columns: a    *)
(* row that breaks this is refused, and so is a read of a missing column.   *)

NormalizePayload(slug) == IF slug = Blank THEN NULL ELSE slug

Unique(d) ==
    \A i, j \in AllIds :
        (i # j /\ d[i] # NULL /\ d[j] # NULL) =>
            /\ d[i].name # d[j].name
            /\ d[i].slug = d[j].slug => d[i].slug = NULL

Write(d) ==
    /\ schema = "current"
    /\ Unique(d)
    /\ defs' = d
    /\ UNCHANGED <<schema, tasks, polling, clock>>

\* Generated ids are new: none comes back that a task still names.
Create(i, name, slug, transport) ==
    /\ defs[i] = NULL /\ i \notin tasks \cup {polling}
    /\ Write([defs EXCEPT ![i] =
           [name |-> name, slug |-> NormalizePayload(slug), transport |-> transport,
            active |-> TRUE, last |-> NULL, status |-> NULL]])

Update(i, name, slug, active) ==
    /\ defs[i] # NULL
    /\ Write([defs EXCEPT ![i].name = name, ![i].slug = NormalizePayload(slug),
                          ![i].active = active])

Delete(i) ==
    /\ defs[i] # NULL
    /\ Write([defs EXCEPT ![i] = NULL])

----------------------------------------------------------------------------
(* The start of the API: tables, columns and the default pipeline in one    *)
(* transaction.                                                             *)

SeedRow == [name |-> SeedName, slug |-> NULL, transport |-> "odk_central",
            active |-> TRUE, last |-> NULL, status |-> NULL]

\* Mutant of SeedDefaultPipelines: ON CONFLICT DO UPDATE.
OverwritePipeline ==
    [i \in AllIds |->
        IF defs[i] # NULL /\ defs[i].name = SeedName THEN SeedRow
        ELSE IF i = Seeded /\ \A j \in Rows : defs[j].name # SeedName THEN SeedRow
        ELSE defs[i]]

\* A pipeline of that name is left as it is.
SeedDefaultPipelines ==
    IF \E i \in Rows : defs[i].name = SeedName THEN defs
    ELSE [defs EXCEPT ![Seeded] = SeedRow]

\* The seed fails where its id has another name by now.  Its error is caught,
\* but PostgreSQL rolls the whole transaction back.
Aborted == Seeded \in Rows /\ \A i \in Rows : defs[i].name # SeedName

Boot(configured) ==
    /\ IF configured /\ Aborted THEN UNCHANGED <<defs, schema>>
       ELSE /\ schema' = "current"
            /\ defs' = IF configured THEN SeedDefaultPipelines ELSE defs
    /\ UNCHANGED <<tasks, polling, clock>>

\* A release whose models have one more column.
Upgrade ==
    /\ schema = "current"
    /\ schema' = "older"
    /\ UNCHANGED <<defs, tasks, polling, clock>>

----------------------------------------------------------------------------
(* worker.py and the operator's "Poll now". *)

ShouldPoll(i) == defs[i].last = NULL \/ clock - defs[i].last >= Interval

\* Mutant of Dispatchable: whatever its transport.
DispatchableAny(i) == defs[i].active /\ ShouldPoll(i)

Dispatchable(i) ==
    /\ defs[i].active
    /\ defs[i].transport \notin Push
    /\ ShouldPoll(i)

DispatchPolls ==
    /\ schema = "current"
    /\ tasks' = tasks \cup {i \in Rows : Dispatchable(i)}
    /\ UNCHANGED <<defs, schema, polling, clock>>

TriggerPoll(i) ==
    /\ schema = "current"
    /\ i \in Rows /\ defs[i].transport \notin Push
    /\ tasks' = tasks \cup {i}
    /\ UNCHANGED <<defs, schema, polling, clock>>

StartPoll(i) ==
    /\ schema = "current"
    /\ i \in tasks /\ polling = NULL
    /\ tasks' = tasks \ {i}
    /\ polling' = IF i \in Rows /\ defs[i].active THEN i ELSE NULL
    /\ UNCHANGED <<defs, schema, clock>>

\* A Kafka connector is dispatched too, and its transport cannot fetch.
Outcomes(transport) ==
    IF transport = "kafka_consumer" THEN {"FAILED"} ELSE {"FAILED", "PARTIAL", "SUCCESS"}

\* The row is read again: it may have been edited meanwhile, or deleted.
FinishPoll ==
    /\ polling # NULL /\ schema = "current"
    /\ IF polling \in Rows
       THEN \E s \in Outcomes(defs[polling].transport) :
                defs' = [defs EXCEPT ![polling].last = clock, ![polling].status = s]
       ELSE UNCHANGED defs
    /\ polling' = NULL
    /\ UNCHANGED <<schema, tasks, clock>>

CrashPoll ==
    /\ polling # NULL
    /\ polling' = NULL
    /\ UNCHANGED <<defs, schema, tasks, clock>>

Tick ==
    /\ clock < MaxClock
    /\ clock' = clock + 1
    /\ UNCHANGED <<defs, schema, tasks, polling>>

Next ==
    \/ \E i \in Ids, n \in AllNames, s \in Slugs \cup {Blank}, t \in Transports :
          Create(i, n, s, t)
    \/ \E i \in AllIds, n \in AllNames, s \in Slugs \cup {Blank}, a \in BOOLEAN :
          Update(i, n, s, a)
    \/ \E i \in AllIds : Delete(i) \/ TriggerPoll(i) \/ StartPoll(i)
    \/ \E configured \in BOOLEAN : Boot(configured)
    \/ Upgrade \/ DispatchPolls \/ FinishPoll \/ CrashPoll \/ Tick

Init ==
    /\ defs = [i \in AllIds |-> NULL]
    /\ schema = "none"
    /\ tasks = {} /\ polling = NULL /\ clock = 0

Spec == Init /\ [][Next]_vars

----------------------------------------------------------------------------
TypeOK ==
    /\ \A i \in Rows :
          /\ defs[i].name \in AllNames
          /\ defs[i].slug \in Slugs \cup {Blank, NULL}
          /\ defs[i].transport \in Transports
          /\ defs[i].active \in BOOLEAN
          /\ defs[i].last \in 0..MaxClock \cup {NULL}
          /\ defs[i].status \in {NULL, "FAILED", "PARTIAL", "SUCCESS"}
    /\ schema \in {"none", "older", "current"}
    /\ tasks \subseteq AllIds /\ polling \in AllIds \cup {NULL}
    /\ clock \in 0..MaxClock

\* A slug leads to one connector, a blank to none, however connectors are
\* created and edited; and no push connector is ever polled, by whom ever and
\* whatever its row was edited to meanwhile.
ConnectorsSound ==
    /\ Unique(defs)
    /\ \A i \in Rows :
          /\ defs[i].slug # Blank
          /\ defs[i].transport \in Push =>
                i # polling /\ defs[i].last = NULL /\ defs[i].status = NULL

\* default_pipelines.py: "a pipeline that has since been edited in the UI is
\* never overwritten".  A start changes no row that exists; and it leaves the
\* columns of this release, unless the default pipeline has been renamed.
StartKept ==
    /\ \A i \in Rows : defs'[i] = defs[i]
    /\ schema' = "current" \/ defs[Seeded].name # SeedName
StartKeeps == [][\A configured \in BOOLEAN : Boot(configured) => StartKept]_vars

=============================================================================
