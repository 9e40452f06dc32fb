# A formal model of the farmer registry

This directory holds a TLA+ model of the OpenG2P farmer registry, the TLC
configurations that check it on small instances, and proofs, checked by TLAPS,
that hold for every instance. Paths are relative to the repository; `S/` stands
for `src/openg2p-connector-service/src/openg2p_connector_service/`, `F/` for
`src/farmer-extension/src/openg2p_registry_farmer_extension/`, `D/` for
`src/docker/`.

Contents: the system, the hard parts, the plan, the modules and the code they
stand for, the runs, what they found, the proofs, the limits.

## 1. The system

Records about farmers come from partner systems (ODK Central forms, webhooks,
WebSub hubs, Kafka topics). The **connector service** takes them in, maps them
and sends each to the registry's Partner API. The **farmer extension** gives the
registry its rules for farmers, phones, land and households, and migrates its
tables whenever a container starts. **Seed jobs** fill a new installation with
places and sample people. Reporting views and a dashboard read the result.

### Connector service

| Component | State it keeps | Operations | Correct when | Module |
|---|---|---|---|---|
| Ingestion pipeline, `S/services/ingestion_service.py` | `ingestion_runs`, `idempotency_keys`, `dead_letter_queue` | `process_record`, `_fail_run` | no record is lost, and none is sent again unless that cannot be avoided | `Ingestion` |
| Redelivery counters, same file | two counters | the duplicate short-circuit | they count what happened | `Redelivery` |
| Partner client, `S/clients/partner_ingest_client.py` | none; its effect cannot be rolled back | `send` | each call ends as accepted, refused or unknown | in `Ingestion` |
| Checkpoints, `S/transports/checkpoints.py` | a value in `poll_state_json` | `is_advanced_over`, `merged_with` | folding checkpoints only moves on | `Checkpoint` |
| ODK Central, `S/transports/odk_central.py`, `S/worker.py` | watermark, page, filter | `fetch`, retries, fallbacks, `_poll_async` | the watermark passes nothing that was not dealt with | `OdkPoll`, `OdkPages`, `NavLinks` |
| Webhook and WebSub intake, `S/controllers/webhook.py`, `S/worker.py` | Celery queue | acknowledge, then process in a task | what is acknowledged is processed, as it was received | `WebhookIntake` |
| Kafka, `S/consumer_supervisor.py`, `S/transports/events/kafka_consumer.py` | offsets at the broker | consume, restart, stop when paused | an offset is committed only after its message | `KafkaConsumer` |
| Hub sync, `S/services/websub_hub_sync.py` | subscriptions at a hub | register and subscribe per topic | the report says what the hub knows | `HubSync` |
| Definitions and dispatch, `S/services/connector_service.py`, `S/services/default_pipelines.py`, `S/worker.py` | connector rows, queued tasks | create, edit, delete, seed, dispatch, poll now | a slug leads to one connector; push connectors are not polled; a start overwrites nothing | `Connectors` |
| Operator endpoints, `S/controllers/runs.py`, `S/controllers/connectors.py` | all of the above | replay, reset, clear, list | they take effect although tasks run | `Ingestion`, `OdkPoll`, `RunListing` |

The processes are API servers, Celery workers, one beat scheduler and consumer
supervisors. They share nothing but PostgreSQL, at READ COMMITTED. A webhook, a
Kafka message and a replayed dead letter have a transaction each; **a poll has
one transaction for all its records**. A send to the registry takes place in the
middle of such a transaction and no rollback undoes it. Most of what is
difficult about the service comes from these facts.

### Farmer extension, intake form, seed jobs

| Component | State | Correct when | Module |
|---|---|---|---|
| Households and heads, `F/register_domain/services/..._farmer.py`, `..._household.py` | the flag on farmers, the name on the household | one head, and it is the one named | `HouseholdHeads` |
| Land roll-ups, `..._land.py`, `F/app.py` | totals on the farmer row | totals equal the sum of the parcels | `LandRollup` |
| Phones, `..._farmer_phone.py` | primary phone, its copy on the farmer | one primary, and the copy agrees | `FarmerPhones` |
| Deduplication, `..._farmer.py` | duplicate flags and result rows | a stored pair names flagged farmers | `Dedup` |
| Calendars, `F/.../ethiopian_calendar.py`, `D/staff-ui/assets/farmer-intake-rules.js` | none | both agree with the calendars | `Calendar` |
| Section rules, `F/register_domain/services` | a section of a form | two stored dates name one day; what the browser lets pass is accepted | `FormRules` |
| Land form, `..._land.py` | the land table, uploaded certificates | one area per land, certificates in storage | `ParcelForm` |
| Intake page, `D/staff-ui/assets/farmer-intake-rules.js` | the form's fields, timers, pending images | once the rules have run, the page shows the form's truth | `IntakeScreen` |
| Schema at boot, `F/app.py` | tables and columns | concurrent starts converge | `BootSchema` |
| Repairs at boot, `F/app.py` | names, source and status of existing rows | no name is lost; boots come to rest | `BootMigration` |
| Seed jobs, `D/db-seed`, `D/.../sync_catalogue_attributes.py` | geography, sample people, links, photos, lists | running one again, or stopping it, leaves no broken link | `SampleData`, `GeoChain`, `CodeLists` |
| Reporting refresh, dashboard, user interfaces, charts | views, a cache | – | not modelled |

`PROJECT.json` lists every component with its status, and every hazard at the
line where it bites with the properties that would notice.

## 2. What is hard here

- **Check, act, commit.** `process_record` looks the idempotency key up, sends,
  and inserts the key. Other sessions see the key only after the commit, which
  for a poll is at the end of the poll.
- **An effect outside the transaction.** A crash, a rollback or a lost reply
  after the send leaves a registry that has the record and tables that do not.
- **Row locks.** An uncommitted key makes another session wait. Two polls that
  take the same records in opposite order deadlock; the poll that loses catches
  the error and *commits what it has*.
- **A read-modify-write across a whole poll.** The checkpoint is read when a poll
  starts and written back when it ends, over whatever is stored by then.
- **A moving source.** Submissions arrive and are edited between two pages of one
  query, several may carry one timestamp, a draft is published in between.
- **Acknowledged first, processed later**, by other code than that which would
  have processed it at once.
- **Hooks in concurrent transactions.** Heads, totals, phones and duplicate flags
  are derived in the transaction that changes one row, from rows that others are
  changing.
- **Repairs at every boot**, over rows any release, form, import or partner left.
- **Rules on a page**, queued behind timers and images, each of which sets off
  others.
- **Jobs that run again** over what they, a purge or an operator left.

## 3. The plan

The first part built `Delivery`, `Ingestion`, `Checkpoint`, `OdkPoll`,
`Redelivery` and `KafkaConsumer`, because every record passes through them. The
second took the rest of the service (`WebhookIntake`, `HubSync`, `Connectors`,
`OdkPages`, `NavLinks`, `RunListing`), then the extension (`HouseholdHeads`,
`LandRollup`, `FarmerPhones`, `Dedup`, `Calendar`, `BootSchema`,
`BootMigration`), the form (`FormRules`, `ParcelForm`, `IntakeScreen`) and the
seed jobs (`SampleData`, `GeoChain`, `CodeLists`).

What composes what: `OdkPoll` extends `Checkpoint`; `Ingestion` and
`KafkaConsumer` implement `Delivery`. The other modules meet only in tables that
each describes from its own side. Two specifications bring them together,
**`ConnectorService`** and **`FarmerRegistry`** (section 4): they are what TLC
checks, through `ConnectorServiceMC` and `FarmerRegistryMC`, and what the theorems
are about. `LivenessMC` has the three parts that wait for something.

The proofs followed the same order: `Ingestion` and `KafkaConsumer` first, then
polling, the rest of the service, the extension, the forms and the seed jobs, and
last what is computed by walking: listings, repeats, chains of units, loads.

Left to model: the legacy `last_submission_id` cursor and sequence mode as a run;
a connector reconfigured between polls; a Kafka message whose bytes cannot be
decoded; livestock, farm-input, consent and membership sections; the reporting
refresh. Every invariant of a passing run is a theorem; left to TLC is liveness
(section 7).

## 4. The modules

An operator whose comment begins "Mutant of X" is a deliberately wrong variant of
X: the mistake a change to the code could plausibly make. No specification
uses one. Each is kept beside the definition it varies so that every property
can be shown to notice at least one such mistake. A variable called `exposed`,
`overlapped`, `raced`, `stale`, `clash`, `unseated` or `shifted` is a history
variable: it marks what an accident or an overlap has happened to that the code
does not undo, which makes "correct otherwise" a statement that can be checked.

### Delivery and its intakes

**`Delivery`** is the abstract promise. Three sets: what the registry has
received, what is parked in the dead-letter queue, what the service considers
settled. `Accept` is a send. `Settle` closes the books on some records and
changes the queue: what is settled is received or parked, and an entry leaves
the queue only for a received record.

**`Ingestion`** is `process_record` between sessions.

| Model | Code |
|---|---|
| `ok`, `failed`, `src` | committed `ingestion_runs` with status and source |
| `key`, `dlq` | committed `idempotency_keys`, `dead_letter_queue` |
| `tx[s]` | what session `s` has written and not committed |
| `delivered`, `settled` | what the registry accepted; records whose transaction was committed |
| `StartEvent`, `StartPoll`, `StartReplay`, `NextRecord` | webhook or Kafka task, poll, `replay_dlq`, next record of a poll |
| `LookupHit`, `LookupMiss` | ingestion_service.py 89–127 |
| `Refused`, `SendSucceeds`, `ReplyLost` | 129–204, with `_fail_run` 358–405 |
| `Raised` | an exception outside the tries of 129–182: a poll ends and commits what it has, another task or request is rolled back |
| `InsertKey` | 204–224, INSERT in a savepoint, IntegrityError swallowed |
| `Bump` | 105–118, UPDATE by primary key; StaleDataError if the row is gone |
| `Commit`, `Rollback`, `Crash` | end of the transaction, of the process |
| `DeadlockVictim` | PostgreSQL cancels one waiter; worker.py 140–146 |
| `ClearIdempotency` | connectors.py 182–194 |

Every statement that meets the database or the registry is a step of its own, so
any other session may act in between. A session sees what is committed plus its
own writes; `Blockers` are the sessions whose uncommitted key rows it must wait
for. A run number is the smallest unused one, which loses nothing because runs
are only compared for equality.

**`Redelivery`** has the counters of one key: `ReadKey`, `ReadRun`, `Flush`,
`Commit` are ingestion_service.py 89–118. The detail that matters is the ORM's:
a column set to the value it was loaded with is not written, and the UPDATE
locks its row.

**`Checkpoint`** is `checkpoints.py` in all four modes and the fold of the poll
loop. Strings are numbers in the same order; `NoValue` is `None`, which
`_str_or_empty` sorts before every string.

**`OdkPoll`** polls with a cursor. The source has submissions with a stamp, the
time they were submitted or last edited. A poll reads the checkpoint
(`StartPoll`), reads pages (`FetchPage`), skips submissions at the boundary
(`SkipSeen`), hands each record on (`IngestSucceeds`, `IngestFails`), moves on or
stops (`EndPage`) and commits once (`ClosePoll`). `process_record` is one step:
`Ingestion` has its interior, and the cursor depends on its outcome alone. The
query names no order among equal dates (odk_central.py:202), so the server's is a
constant: with `TiesByArrival` a late arrival comes last among its equals.
`InOrder` is the sort.

**`OdkPages`** looks inside the requests of a poll: retries while the server is
busy, the draft of a form and the published form when the draft is gone, and the
501 policy, while submissions are drafted, published and a form is deleted.
**`NavLinks`** walks the repeats of a submission, one request per link; groups
hold links and items of repeats hold further ones.

**`WebhookIntake`** has the request, the Celery task and the inline path.
`Enqueue`, `Take` and `ProcessWebhook` are apart because Celery acknowledges a
task when a worker has it. A JSON object is the set of key sequences that lead to
its scalars, which is all that "extract", "unwrap" and "envelope" depend on. The
request asks whether the connector has an envelope setting, the record whether the
setting says something (`RequestPath`, `RecordPath`), and `Raises` is an exception
that leaves `process_record` before the send.

**`KafkaConsumer`** has one partition and a group of supervisors: `Fetch`, the
pause check (`Disabled`), the transaction (`Ingest`, `DeadLetter`), the commit
when the generator resumes (`Ack`, `AckRefused`), `Raise` before the commit,
`Restart` after the backoff, `Rebalance` while the owner is at work, `Boot`
after its process has ended (`src/openg2p-connector-service/deploy/charts/openg2p-connector/templates/consumer-deployment.yaml`).

**`ConnectorService`** has `OdkPoll` itself (two polls that overlap, and an
instance `Single` with one poll at a time, in more modes) and an instance of each of
`Redelivery`, `WebhookIntake`, `HubSync`, `Connectors`, `OdkPages`, `NavLinks` and
`RunListing`. `focus` is chosen once: the part it names takes its steps and the
others have no state. Parts share no variable, so a property of one is true of
the interleaving of all exactly when it is true of the part alone: nothing is
lost, and neither TLC nor a proof need multiply the parts.

**`HubSync`**: `Register` fails for every topic but the first, `Subscribe` is
answered before the hub verifies it (`Challenge`), the hub may forget everything,
and an operator edits the connector meanwhile. **`Connectors`** has the rows, the
service's start with migrations and the default pipeline, and the beat with its
tasks. **`RunListing`** pages a listing while rows are touched, arrive and go.

### The farmer extension

`HouseholdHeads`, `LandRollup`, `FarmerPhones` and `Dedup` are transactions over
shared rows. In each, a hook is a step that reads what is committed and waits for
rows others have written, its writes stay in a transaction until `Commit`, and
`Restart` is what a boot repairs. In `HouseholdHeads` the hook of a head is two
steps: `Hook` loads the household, `Demote` waits for the other members' rows, takes
their flags and assigns the name to the household *as it was loaded*. The ORM writes
a column only if its value differs from the loaded one (`NewHeadName`), so what
another transaction has written meanwhile may stay.

`Calendar` has the arithmetic of the server and of the browser, and beside it
`NextGregorian` and `NextEthiopic`, written from what the calendars are. A
behaviour walks day by day from an anchor, a pair of dates that name one day.
The inverse of a day number is written in the code's own steps, from the era to
the century, the year and the month (`Century`, `InCentury`, `YearOf`, `InYear`,
`FromMarch`), so that each can be reasoned about alone.

`BootSchema` has the groups of columns, `Script` what each group of statements
adds, converts and needs, over older schemas in which `land_size` is missing, text or
numeric (`LandSizes` is the choice for the register). `BootMigration` has the UPDATEs in their order on one
farmer, between submissions, ingestions and approvals.

`FormRules`: a record is a function over the keys that were sent, and a rule maps
it to the set of what is left, empty when the save is refused. Its `...Problems`
are what the browser flags. `ParcelForm` saves the land table row by row, each
certificate uploaded in a transaction of its own. `IntakeScreen` has the timers
and promises of the page: an edit queues its rule, a rule's writing is an edit
again. Beside the page's family rule it has the server's (`HouseholdSize`), with
negative counts and the boxes Father Included and Mother Included, which the page's
does not look at.

`SampleData` runs the seed jobs in any order, any number of times and stopped
between commits, over a country pack that grows and whose people have households or
none (`HomeIn`). `GeoChain` places records in
units that may be misnamed, orphaned or their own ancestors. `CodeLists` merges a
catalogue release, resolved once when a run starts, into lists that are edited
while releases are edited and activated.

**`FarmerRegistry`** is to these modules what `ConnectorService` is to those of the
service: `BootMigration` itself and an instance of each other, one in focus.

## 5. The runs

`ConnectorService` and `FarmerRegistry` check many parts in one run. Their MC
modules hold the values of constants, which the configurations assign; they
define nothing else. `LivenessMC` has its instances inline.

| Run | Instance | What it shows |
|---|---|---|
| `IngestionSafety` | two sessions, two records with a key, crashes, lost replies, cleared keys, replays | `NothingLost`, `KeyBacked`, `OnceUnlessExposed`, `KeyStable`, and that each step is a step of `Delivery` |
| `ConnectorService` | the parts of the service, one at a time | see below |
| `KafkaDelivery` | two supervisors, three messages (one junk, two of one event), three faults | offsets cover what is dealt with and only advance; every message is consumed; each step is a step of `Delivery` |
| `Liveness` | sessions that deadlock; polls of two submissions; two containers over old schemas with a numeric `land_size` in the register | every transaction ends, every submission arrives, every container serves |
| `FarmerRegistry` | the parts of the extension, one at a time | see below |
| `IngestionTwice` | two sessions, one record, no failure | *violates* `IngestedOnce` |
| `OdkReset` | one poll and a reset | *violates* `ResetTakesEffect` |
| `OdkFullScan` | a full scan that reads two of three submissions | *violates* `EventuallyIngested` |
| `OdkShift` | pages of one, by last edit | *violates* `NoSkip` |
| `KafkaPaused` | one supervisor that serves other connectors too | *violates* `EventuallyConsumed` |
| `BootPartner` | a partner's draft with a middle name | *violates* `PartnerNamesKept` |
| `WebhookPaths` | an envelope path below `data` | *violates* `SamePayload` |

`CHECK_DEADLOCK FALSE` stands in each configuration because the workload is
bounded: when all submissions, sends or messages are used up, the system may rest.

**`ConnectorService`** (about 1 208 000 distinct states):
`NothingSkipped` – polls that overlap, fail, crash and are reset skip nothing, nor
does one poll at a time by date, by last edit and without the server's filter,
with ties and edits;
`OnceWhenAlone`, `AdvancesWhenAlone` – one poll at a time repeats nothing and never
takes the checkpoint back; `CountersSound` – counters never exceed the truth and
are exact without a race; `IntakeSound` – what was acknowledged is kept, and the
payload sent is the one extracted; `ReportHolds` – a report of success means the
hub knows the subscription or has a challenge out, unless somebody interfered;
`ConnectorsSound`, `StartKeeps`; `FormRead` – a poll that succeeds has read the
form and downloads it all only under the policy that allows it;
`AnswersComplete` – reading all pages of a listing shows every row that was due
and did not move, and a repeat of a submission that fails hides no other.

**`FarmerRegistry`** (about 940 000 distinct states):
`NamesKept`, `BootsSettle`, `StaffNotPartner` (boots), `OneHeadNamed` (heads),
`TotalsFollow` (land), `PhonesAgree`, `PairsFlagged` (deduplication),
`CalendarsAgree`, `FormsSound` and `BrowserSound` (sections and land form),
`ScreenTruthful` (intake page), `SeedsSound` (a second load changes nothing, links
and places are right), `MergesSound` (lists, parents and photos) and
`ServesCurrentSchema` (schema at boot).
`OneHeadNamed` has two halves. Two heads only remain where two arrived at once. The
name on the household only differs from the head's where the code takes it away or
leaves it stale, and `unseated` marks those.
`BrowserSound` is about the tables of ids and crops. Of the family section the page
checks less than the server: `ScreenTruthful` has what it does check, the size and the
children. `MergesSound` has runs that begin with one of two releases, the active one or
one an operator names, while the other is activated or either is edited.

**`Liveness`** (about 225 000 distinct states): `SessionsEnd`,
`EventuallyIngested`, `EventuallyServing`.

**Bounds.** Two sessions are enough for each race here: the races are over one
row, between one that looked and one that wrote. Three would repeat the roles,
except in a longer cycle of waits; the proofs have any number. `MaxSends` is 2
because the question is whether a second send happens; `MaxBatch` 2 because a
deadlock needs two keys per poll; `MaxRuns` 3 lets one record fail, be replayed
and be delivered while another session works. Polls have two or three
submissions, pages of one and up to three pages, so that a poll ends with work
left and the next continues from its watermark; `MaxTies` of 2 or 3 puts several
submissions on one watermark; `MaxClock` 2 or 3 gives a before and an after.
Three Kafka messages are one good, one junk and one that repeats an event; three
faults allow a crash, a rebalance and a failed transaction in one history. Two
farmers of one household, two lands of one farmer, three phones of which one is a
copy, two scans over two criteria: each is the least in which two transactions
touch one row and a third state can be seen. Two timers of the intake page let the
user edit one field while the rule of another waits to fill it. The calendar walks 800 days from
four anchors: before 1900, over a leap Pagumen and a leap February, and across
2100. Three geographic units allow a ring with a tail. Two containers and one
crash let one find the other's half-made tables.

**Fairness.** `Ingestion`: a session that has started takes its next step, since
a Celery worker or a request handler runs its coroutine to the end (weak
fairness), and a wait for a row lock that is freed again and again ends, since
PostgreSQL serves waiters in order (strong fairness on the two statements that
wait). Nothing starts a session by itself, and crashes, replies and the operator
have no fairness. `OdkPoll`: beat dispatches an enabled connector every minute
and a worker goes on with its poll; the source and the operator have none.
`BootSchema`: a container runs on and its orchestrator restarts it after a
failure. `LivenessMC` states one weak condition for the first session, poll and
container together, and one for the second: `focus` never changes, so each
condition is that of the part in focus. `KafkaConsumer`: a process that ended is
started again, its loop goes on, and the broker assigns a partition that nobody
has; `EventuallyConsumed` further assumes that the connector stays active from
some moment on, and faults are bounded, which is the usual "eventually the
failures stop".

**Symmetry** is used only where a run checks invariants and properties of single
steps: poll tasks in `ConnectorService`, sessions in `IngestionTwice`.

## 6. What the runs found

1. *A key does not prevent a second ingest* (`IngestionTwice`). Two deliveries
   that overlap both miss the key and both send. The second INSERT fails, the
   IntegrityError is swallowed (ingestion_service.py:214), and two SUCCESS runs
   remain. The manual says the key prevents "the same record from being ingested
   twice" (`src/openg2p-connector-ui/manual/USER-MANUAL.md:407`).
2. *A reset may be undone* (`OdkReset`). A poll in flight writes the checkpoint
   it computed over the cleared one (worker.py:162), although the endpoint says
   "the next poll re-fetches from the beginning" (connectors.py:172).
3. *The full-scan fallback is capped* (`OdkFullScan`). It "re-downloads every
   submission" (odk_central.py:543), but stops at `page_size * max_pages` and
   starts at offset 0 next time (odk_central.py:230).
4. *Editing shifts pages* (`OdkShift`). By last edit, an edit between two pages
   moves a submission into the page already read, and the watermark passes it.
   The mode "works similarly" to submission dates according to odk_central.py:101.
5. *A paused Kafka connector does not come back* (`KafkaPaused`). A supervisor
   reads the connectors to consume once, without the paused ones
   (consumer_supervisor.py:109), and the loop of one that is paused when a
   message arrives returns (line 61). While other loops run in the process,
   nothing takes the connector up after it is resumed. The manual says
   "Processing stops until you clear it." (USER-MANUAL.md:380).
6. *A boot moves a partner's names* (`BootPartner`). Intake rows have no
   `import_source` until they are ingested, so a partner's draft with a middle
   name and no father's name is repaired like a form's (app.py:484). The comment
   two lines below says "Only form-entered records".
7. *Queued and inline webhooks differ* (`WebhookPaths`). The task parses the body
   again and unwraps its `data` before the envelope path is applied
   (worker.py:311), so a path that begins with `data` finds nothing and another
   payload is ingested than inline. webhook.py:4 promises the same processing,
   now or later.

Met while modelling, without a run of their own:

- A household may name another than its head. A head loads the household, which has
  its name already, and waits for a member's row; the member, head until then, has
  been renamed, and its commit renames the household; the assignment equals what was
  loaded and is not written (farmer service, 254–277). `HeadNamed` without `unseated`
  has this history as a counterexample.
- The form checks less of a family than the server. A negative count, or Father
  Included over no males (household service, 42–70), is refused without a message
  in the page, which "now checks the same rules" (line 40). `FamilyFlagged` is about
  the others.
- The page remembers that a family size is of its own making when another record is
  opened in it; the first count typed there then replaces the stored size, although
  farmer-intake-rules.js:139 says "never overwrite something the enumerator typed
  themselves". `OpenRecord` keeps that memory (`auto`).
- A failure is not always dead-lettered. The envelope is extracted and the route
  resolved outside any try of `process_record` (ingestion_service.py:130, 157–161,
  317); an exception there takes the run with it, a queued task is not retried, and
  no entry is left. `AcceptedKept` excepts the events in `Raising`.
- A boot cannot add a missing `land_size` of the register, nor convert one that is
  text. The roll-up of totals reads the column (app.py:605) before it is added
  (687–700) or converted (736–783), and fails at every start; app.py:702 says the
  former "fixes a MISSING land_size". `BootSchema` has these schemas (`LandSizes`), no
  container ever serves over them, and `EventuallyServing` is checked over the others.
- Over a country pack of people without households the fixtures' household links lead
  nowhere (load_sample_data.py:421), though line 373 says they are "remapped onto
  whoever was actually loaded". The theorems assume a pack with a household.
- `redelivery_count` loses increments of concurrent duplicates
  (ingestion_service.py:106): the counters are proved to be lower bounds.
- Beat dispatches `kafka_consumer` connectors to a poll whose transport has no
  `fetch`; each interval ends FAILED (worker.py:201).
- When an operator has renamed the seeded pipeline, each start's seed hits the
  primary key, which aborts the transaction and with it that start's migrations
  (default_pipelines.py:131, main.py:32); a deleted one comes back.
- Hub sync never unsubscribes a topic or callback that was edited away, and its
  `all_subscribe_ok` says only that the hub has accepted the requests.
- A navigation link below `k` others is requested up to 2^k times.
- A land row refused for its size or year leaves the certificates that earlier
  rows uploaded (land.py:38 speaks of none being left).
- The bulk generator's walk over a ring of parents never ends
  (generate_fr_bulk_sample.py:178), which the sample loader's does.
- A list value whose id another code holds is skipped and reported as added.
- On the intake page an earlier, slower photo can overwrite a later one, and
  clearing a date does not clear its derived twin.

`GeoChain`, `ParcelForm`, `CodeLists` and `IntakeScreen` have these behaviours as
the code does; their properties are stated around them.

Met while proving:

- `NoSkip` needs more of the server than that dates do not change. Two submissions
  may carry one instant, and the query does not say in which order they are listed.
  If a late one is listed before its equals, it pushes them down a page while a
  poll of three or more pages is reading, and one is passed over. The proof did not go
  through without excluding this; TLC then found it with pages of one. The theorem
  therefore has the hypothesis `PagesStay` (section 7).
- A full download has the opposite trouble: without an incremental field ODK lists
  newcomers first and they push the rest *down*, so a submission is read twice but
  none is passed over. The invariant of `OdkPages` counts pages from the end.
- The ids of a `sequence` connector are in no order of time. Its cursor is outside
  every theorem about skipping.
- A conversion of values in `FormRules` had two CASE arms that overlapped: TLC takes
  the first, a proof may take either. They are disjoint now.

## 7. The proofs

The theorems hold for arbitrary constants under the named assumptions of the
modules: bounds are natural numbers, the null values are not members of the sets
they are null for, tables are finite, a hectare is worth one, the anchors of a walk
name one day, the years of `FormRules` run to 3 at least, the people of a sample are
numbered, a walk up the units takes at least one step. No assumption restricts
the behaviour. TLC evaluates each of them in the runs.

Eight modules hold theorems. Three are about one component (`IngestionProofs`,
`KafkaConsumerProofs`, `OdkPollProofs`) and two about several that share nothing but
the general lemmas they need: `AnswersProofs` (`NavLinks`, `RunListing`) and
`FarmerPartsProofs` (`HouseholdHeads`, `Dedup`, `GeoChain`, `SampleData`).
`ConnectorServiceProofs` and `FarmerRegistryProofs`, with `FarmerFormsProofs` below
the latter, take the runs of the same name to every instance. In those the invariant is that of the part
in focus (`ServiceInv`, `RegistryInv`): each part has a lemma on its initial states,
one on its steps and one on what its invariant implies, and only the last lemmas
speak of `focus`.

### Delivery

**`IngestionProofs`**: `TypeCorrect`, `NoRecordLost`, `KeysAreBacked`,
`DeliveredOnce`, `KeysAreStable`, `Refinement`, all from `Inductive`:
`Spec => []IInv`. `NothingLost` alone is not inductive, as a commit makes true
what the session has promised before. So `IInv` says the same about uncommitted
work (`TxInv`: a record seen in a transaction is received or has failed in it),
ties a session's position to what it holds (`ControlInv`: a replay's entry
belongs to the record it handles), says that uncommitted keys exclude each other
(`LockInv`), and, for records not exposed, that at most one session works on
the record and a delivery has a key committed or on the way (`OnceInv`). Each
lemma takes the whole of `IInv` before a step and shows one part after it.

**`KafkaConsumerProofs`**: `TypeCorrect`, `OffsetsAreCovered`, `OffsetsAdvance` and
`Refinement`. `OffsetCovered` is not inductive because a commit takes the owner's
position. `IInv` adds that everything the owner has read is covered except the
message in its hands, and that its position is not below the committed offset. A
rebalance keeps it because the new owner starts at the committed offset and the
old one's message no longer matters.

### Polling

**`OdkPollProofs`** begins with the checkpoints: no checkpoint advances over itself,
folding never steps back, the folded checkpoint covers the record folded in, and
timestamp checkpoints commute. Then polling, for any number of polls at a time, any
page size, any number of submissions.

`WatermarkSkipsNothing` is `Spec => []NoSkip`. `NoSkip` is about the saved
checkpoint; a poll saves, over whatever others have saved, a checkpoint it has
computed from pages that it read while the form was changing. So `IInv` says of
the checkpoint a poll started from, of the one it has reached, and of the saved one,
that nothing below is unsettled (`CheckpointOK`, where a poll may count the dead
letters that it commits itself); of the page in hand, that nothing unsettled behind
an entry is older (`PageOK`); and of the pages read, that everything ranked before
them is settled or in hand (`ReadOK`). The last is the heart: pages are cut by
`$skip` from a list that grows, so "ranked before" must still mean the same when the
next page is cut. `RanksAreNumbers` and its companions prove, by the least
counterexample, that in a finite total order the numbers of smaller members are
0, 1, 2, ..., which gives the page its meaning. That ranks stay is `PagesStay`: the
list grows at the end only (dates that never change, ties by arrival), or the poll
reads one page, or it reads without a filter. Outside of it the statement is
false, as `OdkShift` shows.

`AloneAdvances` and `AloneIngestsOnce` are the two about a single poll: `SoleInv`
says that what it has done is covered by its checkpoint, or was poison.

**`ConnectorServiceProofs`** takes both from there, once for overlapping polls and
once for the instance `Single` (`NothingIsSkipped`, `AloneNeverTwice`,
`AloneGoesForward`), and adds:

- `CountersAreSound`: what each session has loaded is bounded by the committed hits,
  with equality for the holder of the lock as long as nobody raced.
- `AcceptedEventsAreKept`, `IntakeIsSound`: a key belongs to an event that was sent,
  whatever waits while the connector is off is known as exposed, and what waits can
  be read. That queued and inline agree on the payload needs `SameReading(p)` for
  every configured path: the task reads the body as the request does. For paths
  below `data` it fails (`WebhookPaths`).
- `ReportsHold`: the outcomes noted so far hold at the hub after every step of
  anybody, and the hub has one entry per subscription, so a failed challenge takes
  one away and no more.
- `ConnectorsAreSound`, `StartsKeep`: a queued or running task never names a push
  connector, which holds because no transport changes and an id does not come back
  while a task names it.
- `FormsAreRead`: what a poll has read of what was there when it began, counted from
  the front of a list with a filter and from the back of one without; retries, the
  draft and the policy enter as invariants of their own.
- `AnswersAreComplete`: the two parts of `AnswersProofs`, instantiated.
- `PartsTyped`: types of all parts, from the same invariants.

**`AnswersProofs`** is about two answers that are put together step by step.

- A listing: a row that is due and not read is on a page to come, that is, at least
  as many rows as the offset stand before it (`Ahead`, `StillAhead`). The database
  orders by what is asked for, and a page is cut where the offset says; `PageTaken`
  turns the one into the other by counting. In ascending order an update moves a row
  to the end, and those behind it forward: so the invariant has that rows not read
  are on pages to come also when they are not due, if one that is due stands with
  them, as an update may let them pass to where it counts them.
- The repeats: the walk is a function that is defined by itself, from the depth that
  is left. `UpToExists` and `RepeatedStep` show that there is such a function, which
  no library fact says without an operator for a parameter. `WalkRight` goes by the
  least depth at which the count would be wrong: `DictRight` has it that of the
  groups and links in a dict exactly one leads to a node below (`OneWayDown`, from
  `FormsAreTrees`), so of the sum over them one part is not zero (`SumFacts`), and
  every repeat on the way doubles it (`Doubles`).

### The extension

**`FarmerPartsProofs`** takes four parts by themselves.

`Dedup`, for any farmers, criteria and requests: a commit makes pairs and
flags visible at once, so the invariant speaks of the open requests: the rows they
have locked are apart (`LocksApart`), what they have found they have flagged
(`FoundAreMarked`), and a row whose flag they have cleared has no result left that
they have not deleted (`ClearedAreDeleted`).

`HouseholdHeads`: at a commit it is too late to ask who else is head, so
the invariant is about hooks that have run: a head on its way has every other head
of the household among the rows it has written (`Demoting`), a newcomer has all of
the household (`Newcomer`), rows written by one are no other's (`LocksHeld`), and at
most one head is on its way (`Seating`). A boot, which is alone, gives the flag to
one row by its number. `Naming` adds that a transaction about to commit a head
carries that head's name for the household row, or leaves the row alone because the
name was its own when it was read: then either it still is, or `unseated` says so.

`GeoChain` (`PlacesHoldFromType`): nothing is assumed of the units but their kinds, so
it holds in every state. A chain that is built up from a unit is a path of parents
without repetition, and after as many steps as there are units it cannot be made
longer (`Ended`): it has come to the root or met itself, and then the unit is on a
ring for ever, which is what the walk of the bulk sample asks. Two such paths to one
unit are one (`OnePath`, by the first place from the end where they differ), so what
was followed down the names is the path that leads up from its last unit.

`SampleData` (`RowsInv`): a load inserts what is missing of `NewRows`, which depends on
the pack alone (`SamePack`). So a second load changes nothing because what the first
one read is still there: nothing but a purge deletes, and a purge takes rows of the
bulk sample only, to which nothing else links. The links of `NewRows` are
within it, whatever the pack (`NewRowsLink`): the links that leave the fixtures are
moved onto records that are loaded (`RemapIs`), and a parcel always keeps its row
(`ParcelsStay`). For one row per record the invariant says which record a row
describes (`Describes`): the one of the row's own number, in the CSV or in the order
of the pack; a pack that grows at its end leaves everybody his number (`GrowsAtEnd`).

**`FarmerFormsProofs`** has the lemmas on the calendar, the forms and the intake
page, **`FarmerRegistryProofs`** the other parts and the theorems:

- `PartsTyped`: types of all parts.
- Boots (`RegistryKeepsNames`, `RegistryKeepsStaff`, `RegistryBootsSettle`, from
  `NamesAreKept`, `StaffStayStaff`, `BootsReachAFixpoint`): names need the intake row
  as well, because ingestion copies it after boots may have moved its names; staff
  entries need that a boot leaves no source empty, because an approval fills in an
  empty one. The fixpoint is by what a boot leaves (`Corrected`): from such a row a
  boot changes no source, so the second boot also settles the names. Phones settle
  because a cleaned number is clean.
- `RollupsFollowLands`: while nothing has committed since a hook read the lands, its
  sums are those of the lands as they will be (`SumsCurrent`). The sum over a finite
  set does not depend on the order it is taken in and changes by the changed member:
  shown by the smallest counterexample, as the induction theorems take an operator.
- `PhonesAlwaysAgree`: a transaction whose reading is still the latest is about to
  commit the projection of the rows as it leaves them, with one primary if it chose
  one (`Faithful`).
- `CalendarsAlwaysAgree`: two dates walk together because each is one to one with a
  day number. That the inverse arithmetic is right is proved field by field, from the
  bounds of each division: the century, the year in it, the days before a month.
  `AnchorsAreDays` turns the assumption on the anchors into an equation of day numbers.
- `FormsAreSound`, `BrowserNeverMisleads`: two stored dates are paired, and an age a
  save filled in was the age then (`FilledInv`); stored land rows have an area that is
  size times unit and name certificates that are in storage (`ParcelsInv`).
- `ScreenIsTruthful`: two dates that differ wait for a rule (`DatesPending`); a row
  has the name of its file, or that name waits for the row to be drawn (`NamesPending`).
- `HouseholdsHaveOneHead`, `StoredPairsAreFlagged`, `SeedsAreSound`: the parts of
  `FarmerPartsProofs`, instantiated. The lemmas before them (`NewRowsSame`,
  `SeedsNext`, `PlacesSay` and others) say that the operators of the registry's
  instances are those of the proofs.
- `MergesAreSound`: what a sync is going to add is not there except under the id it
  would get, and with it the list has the codes of the release (`Fits`), unless an edit
  raced with it; parents chosen by the seeds are in the register. The release is that of the run, for
any number of releases.
- `CurrentSchemaIsServed`: what a container has seen of the columns has been migrated
  by the steps it has passed (`Migrated`), and whoever is past the tables has seen
  them (`TablesSeen`), so a first start that is still to come cannot change them.

### Only model-checked

- Liveness: `SessionsEnd`, `EventuallyIngested`, `EventuallyConsumed`,
  `EventuallyServing`. Fairness and ENABLED are beyond the prover.
- What a definition by itself computes is proved where an invariant needs it, by a
  least counterexample. The library's induction theorems take an operator, which no
  backend instantiates, so there is no general theorem about folds or walks.
- That a violated statement is violated: those runs are counterexamples.

## 8. Limits

- Payloads, mappers, error categories, credentials and metrics are abstracted: a
  record is accepted, refused, or accepted without an answer.
- `EventuallyIngested` is checked where fewer submissions share an instant than
  one poll reads; with more, the code reads the same ones again for ever.
- What is proved about skipping is for servers that list equal dates in order of
  arrival, or polls that read one page or everything (`PagesStay`). Whether ODK
  Central is such a server cannot be seen from this repository.
- `NoSkip` does not speak of submissions whose `updatedAt` is null (never edited,
  in mode `updated_at`): no filter ever returns them. A connector's configuration
  is constant in `OdkPoll`; the modes `timestamp` and `updated_at` share a
  checkpoint mode, so switching between them is not covered. Sequence mode, whose
  ids are compared as strings, is in `Checkpoint` but in no run.
- In `OdkPages`, publishing a draft between two pages leaves `$skip` counting on
  the other list; the property speaks of forms that did not change.
- In `KafkaConsumer` one partition stands for each of several, and a consumer
  that stops leaves the group at once. Messages that cannot be decoded at all are
  a hazard without a property.
- `WebhookIntake` has one worker; the races between several are `Ingestion`'s.
- `HouseholdHeads` does not have a change request that edits the household's own head
  name, nor one that takes a household away.
- The theorems on seeds are for packs with a household, `EventuallyServing` for
  registers with a numeric `land_size`; section 6 says what happens otherwise.
- `BrowserSound` says nothing of the family section, where the page checks less.
- `FormRules` has years for dates and the tables of ids and crops, `IntakeScreen` the
  counts of families; the other sections repeat their pattern and are not modelled.
- `BootSchema` takes the schemas of older releases as the groups of columns they
  had and the type of `land_size` in each land table, and the seed's own writes as part of `SampleData`.
- Reporting refresh, dashboard and user interfaces have no module: a sequential
  script, a read-only API with a cache, and presentation.
