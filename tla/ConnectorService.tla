-------------------------- MODULE ConnectorService --------------------------
(* The connector service but for its ingestion sessions and its Kafka       *)
(* consumers, one part at a time: focus is the part whose steps a behaviour *)
(* shows.  The parts share no state, so interleaving them would add nothing.*)
(*                                                                          *)
(* OdkPoll is there twice, on the same variables: polls that overlap (this  *)
(* module's own), and one poll at a time, on settings of its own.  The      *)
(* domain of poll tells which one a behaviour is of.                        *)
EXTENDS OdkPoll, Integers

CONSTANTS
    NULL,                        \* nothing, and the state of a part not shown
    Alone,                       \* OdkPoll: the poll that never meets another,
    AloneConfigs, AloneTies,     \* its settings, and ties of its submissions
    Sessions, MaxHits,                                          \* Redelivery
    Body, Paths, Raising, MaxQueued,                         \* WebhookIntake
    Topics, Callbacks, MaxEdits,                                   \* HubSync
    Ids, Seeded, SeedName, Names, Slugs, Blank, Interval, MaxTicks, \* Connectors
    PageSize, MaxPages, MaxRetries, MaxSubmissions,               \* OdkPages
    Root, Trees, Depths,                                          \* NavLinks
    Tables, Arriving, Ranks, Limit, MaxTime                     \* RunListing

ASSUME AloneAssumption ==
    /\ Alone \notin Polls
    /\ AloneConfigs \subseteq
           [mode : {"timestamp", "updated_at", "sequence", "full_scan"},
            supported : BOOLEAN, strict : BOOLEAN,
            top : Nat \ {0}, pages : Nat \ {0}]
    /\ AloneTies \in Nat

\* NULL is no event, connector, number or form, nor what a blank field submits.
ASSUME NullAssumption ==
    /\ NULL \notin Nat /\ NULL \notin DOMAIN Body /\ NULL \notin Ids \cup {Seeded, Blank}
    /\ \A n \in 0 .. MaxSubmissions : NULL # [k \in 1 .. n |-> k]
ASSUME PartsAssumption ==
    /\ {MaxHits, MaxQueued, MaxEdits, MaxTicks, MaxRetries, MaxTime} \subseteq Nat
    /\ {PageSize, MaxPages, MaxSubmissions, Limit} \subseteq Nat \ {0}
    /\ Topics \in Seq({Topics[i] : i \in DOMAIN Topics})

\* Rows have a connector, a status and times; names sort by rank.
ASSUME ListingAssumption ==
    /\ Ranks \in [DOMAIN Ranks -> Int]
    /\ \A t \in Tables :
          /\ IsFiniteSet(DOMAIN t)
          /\ t \in [DOMAIN t -> [connector : STRING, status : STRING, created : Nat, time : Nat]]
    /\ Arriving \in [DOMAIN Arriving -> [connector : STRING, status : STRING]]

\* A form is a finite tree: no node is below itself.
ASSUME FormsAreTrees ==
    /\ Depths \subseteq Int
    /\ \A t \in Trees :
          /\ IsFiniteSet(DOMAIN t) /\ Root \notin DOMAIN t
          /\ t \in [DOMAIN t -> [parent : DOMAIN t \cup {Root}, kind : {"group", "link"}]]
          /\ \A S \in SUBSET DOMAIN t : S # {} => \E n \in S : t[n].parent \notin S

VARIABLES
    focus,
    keyCount, runCount, lock, pc, ik, canonical, hits, raced,      \* Redelivery
    path, state, queue, running, keys, ingested, dead, accepted, exposed,
                                                                \* WebhookIntake
    active, callback, registered, subs, refused, sync, report, edits, \* HubSync
    defs, schema, tasks, polling, time,                            \* Connectors
    draft, published, supported, settings, request, read, start, changed,
                                                                     \* OdkPages
    tree, allowed, broken, gone, depth, result,                      \* NavLinks
    kind, rows, query, offset, seen, total, due, shifted           \* RunListing

polls    == vars
counters == <<keyCount, runCount, lock, pc, ik, canonical, hits, raced>>
intake   == <<path, state, queue, running, keys, ingested, dead, accepted, exposed>>
hub      == <<active, callback, registered, subs, refused, sync, report, edits>>
registry == <<defs, schema, tasks, polling, time>>
pages    == <<draft, published, supported, settings, request, read, start, changed>>
links    == <<tree, allowed, broken, gone, depth, result>>
listing  == <<kind, rows, query, offset, seen, total, due, shifted>>
all      == <<focus, polls, counters, intake, hub, registry, pages, links, listing>>

Parts == {"polls", "counters", "intake", "hub", "registry", "pages", "links", "listing"}

----------------------------------------------------------------------------
Single == INSTANCE OdkPoll WITH
    Polls <- {Alone}, Configs <- AloneConfigs, MaxTies <- AloneTies, CanReset <- FALSE

Overlapping == DOMAIN poll = Polls

Counters == INSTANCE Redelivery

Intake == INSTANCE WebhookIntake WITH Idle <- NULL

Hub == INSTANCE HubSync

Registry == INSTANCE Connectors WITH MaxClock <- MaxTicks, clock <- time

Pages == INSTANCE OdkPages WITH Missing <- NULL, conf <- settings, poll <- request

Repeats == INSTANCE NavLinks

Listing == INSTANCE RunListing WITH Names <- Ranks, Unset <- NULL

----------------------------------------------------------------------------
\* A part not shown has no state.
ServiceInit ==
    /\ focus \in Parts
    /\ IF focus = "polls" THEN Init \/ Single!Init
       ELSE /\ there = NULL /\ stamp = NULL /\ clock = NULL /\ conf = NULL
            /\ ckpt = NULL /\ done = NULL /\ dlq = NULL /\ sent = NULL
            /\ poll = NULL /\ resetDue = NULL
    /\ IF focus = "counters" THEN Counters!Init
       ELSE /\ keyCount = NULL /\ runCount = NULL /\ lock = NULL /\ pc = NULL
            /\ ik = NULL /\ canonical = NULL /\ hits = NULL /\ raced = NULL
    /\ IF focus = "intake" THEN Intake!Init
       ELSE /\ path = NULL /\ state = NULL /\ queue = NULL /\ running = NULL
            /\ keys = NULL /\ ingested = NULL /\ dead = NULL /\ accepted = NULL
            /\ exposed = NULL
    /\ IF focus = "hub" THEN Hub!Init
       ELSE /\ active = NULL /\ callback = NULL /\ registered = NULL /\ subs = NULL
            /\ refused = NULL /\ sync = NULL /\ report = NULL /\ edits = NULL
    /\ IF focus = "registry" THEN Registry!Init
       ELSE defs = NULL /\ schema = NULL /\ tasks = NULL /\ polling = NULL /\ time = NULL
    /\ IF focus = "pages" THEN Pages!Init
       ELSE /\ draft = NULL /\ published = NULL /\ supported = NULL /\ settings = NULL
            /\ request = NULL /\ read = NULL /\ start = NULL /\ changed = NULL
    /\ IF focus = "links" THEN Repeats!Init
       ELSE /\ tree = NULL /\ allowed = NULL /\ broken = NULL /\ gone = NULL
            /\ depth = NULL /\ result = NULL
    /\ IF focus = "listing" THEN Listing!Init
       ELSE /\ kind = NULL /\ rows = NULL /\ query = NULL /\ offset = NULL
            /\ seen = NULL /\ total = NULL /\ due = NULL /\ shifted = NULL

PollsNext ==
    /\ focus = "polls"
    /\ (Overlapping /\ Next) \/ (~Overlapping /\ Single!Next)
    /\ UNCHANGED <<counters, intake, hub, registry, pages, links, listing>>

ServiceNext ==
    /\ UNCHANGED focus
    /\ \/ PollsNext
       \/ /\ focus = "counters" /\ Counters!Next
          /\ UNCHANGED <<polls, intake, hub, registry, pages, links, listing>>
       \/ /\ focus = "intake" /\ Intake!Next
          /\ UNCHANGED <<polls, counters, hub, registry, pages, links, listing>>
       \/ /\ focus = "hub" /\ Hub!Next
          /\ UNCHANGED <<polls, counters, intake, registry, pages, links, listing>>
       \/ /\ focus = "registry" /\ Registry!Next
          /\ UNCHANGED <<polls, counters, intake, hub, pages, links, listing>>
       \/ /\ focus = "pages" /\ Pages!Next
          /\ UNCHANGED <<polls, counters, intake, hub, registry, links, listing>>
       \/ /\ focus = "links" /\ Repeats!Next
          /\ UNCHANGED <<polls, counters, intake, hub, registry, pages, listing>>
       \/ /\ focus = "listing" /\ Listing!Next
          /\ UNCHANGED <<polls, counters, intake, hub, registry, pages, links>>

ServiceSpec == ServiceInit /\ [][ServiceNext]_all

----------------------------------------------------------------------------
\* Every part keeps the types of its own variables.
PartTypeOK ==
    CASE focus = "polls"    -> IF Overlapping THEN TypeOK ELSE Single!TypeOK
      [] focus = "counters" -> Counters!TypeOK
      [] focus = "intake"   -> Intake!TypeOK
      [] focus = "hub"      -> Hub!TypeOK
      [] focus = "registry" -> Registry!TypeOK
      [] focus = "pages"    -> Pages!TypeOK
      [] focus = "links"    -> TRUE
      [] focus = "listing"  -> Listing!TypeOK

\* OdkPoll: a submission in the form is fetchable, sent or dead-lettered, with
\* overlapping polls and operator resets as with one poll in every mode.
NothingSkipped ==
    focus = "polls" => IF Overlapping THEN NoSkip ELSE Single!NoSkip

\* OdkPoll: one poll at a time does not ingest a submission again.
OnceWhenAlone == (focus = "polls" /\ ~Overlapping) => Single!NotReprocessed

\* OdkPoll: one poll at a time never takes the checkpoint back.
AdvancesWhenAlone ==
    [][(focus = "polls" /\ ~Overlapping /\ conf.mode = "timestamp")
       => Single!NoStepBack(ckpt, ckpt')]_vars

\* Redelivery: counters never exceed the committed redeliveries, and are exact
\* while deliveries do not overlap.
CountersSound == focus = "counters" => Counters!CountersSound

\* WebhookIntake: an event that was acknowledged is kept somewhere, and the
\* registry gets the payload the request extracted.
IntakeSound == focus = "intake" => Intake!AcceptedKept /\ Intake!SamePayload

\* HubSync: what the report calls subscribed is known to the hub.
ReportHolds == focus = "hub" => Hub!ReportHolds

\* Connectors: slugs lead to one connector, push connectors are never polled.
ConnectorsSound == focus = "registry" => Registry!ConnectorsSound

\* Connectors: a start of the service overwrites no pipeline.
StartKeeps ==
    [][focus = "registry" => \A configured \in BOOLEAN :
          Registry!Boot(configured) => Registry!StartKept]_all

\* OdkPages: a poll that succeeds has read the form, and none downloads it all
\* against its policy.
FormRead == focus = "pages" => Pages!PollHonest

\* RunListing, NavLinks: reading all pages of a listing shows every row that
\* was due, and a repeat that fails hides no other.
AnswersComplete ==
    /\ focus = "listing" => Listing!ListingComplete
    /\ focus = "links" => Repeats!LinksExpanded

=============================================================================
