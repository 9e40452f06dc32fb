------------------------------- MODULE OdkPoll -------------------------------
(***************************************************************************)
(* Incremental polling of an ODK Central form: the poll task of worker.py  *)
(* (_poll_async) driving OdkCentralTransport.fetch, against a form whose   *)
(* submissions arrive and change while polls run.  Several polls of one    *)
(* connector may run at once: beat dispatches again until the first poll   *)
(* has committed last_poll_at, and the API can trigger one at any time.    *)
(*                                                                         *)
(* A poll is one transaction.  process_record is one step here, with the   *)
(* outcomes that matter for the cursor (Ingestion has its interleavings).  *)
(* Abstracted: authentication, draft forms, navigation links, the legacy   *)
(* last_submission_id, last_poll_* columns, metrics.                       *)
(***************************************************************************)
EXTENDS Naturals, Sequences, FiniteSets, Checkpoint

CONSTANTS
    Entries,         \* submissions, by instance id; a set of numbers
    Polls,           \* poll tasks that may run at the same time
    Configs,         \* settings the connector may have, see below
    MaxClock,        \* bound: the last instant of source time
    MaxTies,         \* submissions the source can stamp with one instant
    TiesByArrival,   \* the server lists those in the order they arrived in
    Poison,          \* submissions that process_record may fail on
    CanCrash,        \* workers may be killed, requests fail, records raise
    CanReset         \* the operator may reset the cursor

ASSUME EntriesAssumption == Entries \subseteq Nat \ {0}
ASSUME BoundsAssumption == MaxClock \in Nat \ {0} /\ MaxTies \in Nat

\* mode: incremental_mode; supported: the server can filter and order by the
\* field of that mode, it does not answer 501; strict: a 501 is an error, not a
\* reason to scan everything; top, pages: page_size and max_pages.
ASSUME ConfigsAssumption ==
    Configs \subseteq
        [mode : {"timestamp", "updated_at", "sequence", "full_scan"},
         supported : BOOLEAN, strict : BOOLEAN,
         top : Nat \ {0}, pages : Nat \ {0}]

ASSUME PoisonAssumption == Poison \subseteq Entries
ASSUME SwitchAssumption == {CanCrash, CanReset, TiesByArrival} \subseteq BOOLEAN

VARIABLES
    \* the form
    there,           \* submissions it has
    stamp,           \* value of the incremental field; NoValue is null
    clock,
    \* the connector's rows
    conf,            \* source_config_json
    ckpt,            \* poll_state_json["_checkpoint"]
    done,            \* idempotency keys
    dlq,             \* submissions with a dead-letter entry
    \* the registry
    sent,            \* submissions it has accepted
    \* the tasks
    poll,
    \* history
    resetDue         \* a reset has been acknowledged and no poll started since

sourceVars == <<there, stamp, clock, conf>>
dbVars == <<ckpt, done, dlq>>
vars == <<there, stamp, clock, conf, ckpt, done, dlq, sent, poll, resetDue>>

\* pc: where the task is; prev: checkpoint when it started; cur: checkpoint
\* so far; changed: cur is to be saved; inc: $filter and $orderby are in use;
\* pages: pages read; page: submissions of the current page not yet handled;
\* full: that page had page_size entries; ok, dead: uncommitted keys, entries.
Idle == [pc |-> "idle", prev |-> NoCheckpoint, cur |-> NoCheckpoint,
         changed |-> FALSE, inc |-> TRUE, pages |-> 0, page |-> <<>>,
         full |-> FALSE, ok |-> {}, dead |-> {}]

Timed == conf.mode \in {"timestamp", "updated_at"}
CheckpointsOrNone == Checkpoints(Entries) \cup {NoCheckpoint}

PollStates ==
    [pc : {"idle", "fetch", "page", "closing"},
     prev : CheckpointsOrNone, cur : CheckpointsOrNone,
     changed : BOOLEAN, inc : BOOLEAN, pages : 0 .. conf.pages,
     page : Seq([id : Entries, value : Nat]),
     full : BOOLEAN, ok : SUBSET Entries, dead : SUBSET Entries]

TypeOK ==
    /\ there \subseteq Entries
    /\ stamp \in [Entries -> 0 .. MaxClock]
    /\ clock \in 1 .. MaxClock
    /\ conf \in Configs
    /\ ckpt \in CheckpointsOrNone
    /\ done \subseteq Entries
    /\ dlq \subseteq Entries
    /\ sent \subseteq Entries
    /\ poll \in [Polls -> PollStates]
    /\ resetDue \in BOOLEAN

Init ==
    /\ there = {}
    /\ stamp = [e \in Entries |-> NoValue]
    /\ clock = 1
    /\ conf \in Configs
    /\ ckpt = NoCheckpoint
    /\ done = {} /\ dlq = {} /\ sent = {}
    /\ poll = [p \in Polls |-> Idle]
    /\ resetDue = FALSE

-----------------------------------------------------------------------------
(* The form.  Source time never runs backwards, and a submission is visible *)
(* from the instant it is stamped with.                                     *)

Stamp(e) ==
    /\ Cardinality({f \in there : stamp[f] = clock}) < MaxTies
    /\ stamp' = [stamp EXCEPT ![e] = clock]

\* A submission has a submissionDate at once, an updatedAt when first edited.
\* The query names no order for equal dates (odk_central.py:202), so whether a
\* late arrival comes last among its equals is the server's choice.
Submit(e) ==
    /\ e \notin there
    /\ TiesByArrival /\ conf.mode = "timestamp"
        => \A f \in there : stamp[f] = clock => f < e
    /\ there' = there \cup {e}
    /\ IF conf.mode = "updated_at" THEN UNCHANGED stamp ELSE Stamp(e)
    /\ UNCHANGED <<clock, conf, dbVars, sent, poll, resetDue>>

Edit(e) ==
    /\ conf.mode = "updated_at"
    /\ e \in there
    /\ Stamp(e)
    /\ UNCHANGED <<there, clock, conf, dbVars, sent, poll, resetDue>>

Tick ==
    /\ clock < MaxClock
    /\ clock' = clock + 1
    /\ UNCHANGED <<there, stamp, conf, dbVars, sent, poll, resetDue>>

\* The field the query filters and orders by.
Field(e) == IF conf.mode = "sequence" THEN e ELSE stamp[e]

-----------------------------------------------------------------------------
(* OdkCentralTransport.fetch                                               *)

\* The $filter of a poll that started from checkpoint c.
Matches(c, e) ==
    /\ Timed /\ c.mode = "timestamp" /\ c.value # NoValue => Field(e) >= c.value
    /\ conf.mode = "sequence" /\ c.mode = "sequence" /\ c.value # NoValue
        => Field(e) > c.value

\* Ascending by the field, nulls last; the server breaks ties the same way
\* on every request.
Before(d, e) ==
    \/ Field(d) # NoValue /\ (Field(e) = NoValue \/ Field(d) < Field(e))
    \/ Field(d) = Field(e) /\ d < e

\* The members of S, one after the other: e stands behind those Sooner than it.
InOrder(S, Sooner(_, _)) ==
    [i \in 1 .. Cardinality(S) |->
        CHOOSE e \in S : Cardinality({d \in S : Sooner(d, e)}) = i - 1]

Found(c) == {e \in there : Matches(c, e)}

\* Mutant of Ordered: newest first.
OrderedDesc(c) == InOrder(Found(c), LAMBDA d, e : Before(e, d))

\* What the form answers to a query with the incremental parameters, and to
\* one without: everything, in an order of its own.
Ordered(c) == InOrder(Found(c), Before)
Everything == InOrder(there, <)

Page(list, n) ==
    LET last == IF Len(list) < (n + 1) * conf.top THEN Len(list)
                                                  ELSE (n + 1) * conf.top
    IN  SubSeq(list, n * conf.top + 1, last)

\* Boundary dedupe: seen at exactly the watermark by an earlier poll.
Seen(c, e, v) ==
    /\ Timed /\ v # NoValue
    /\ c.mode = "timestamp" /\ c.value = v
    /\ e \in c.ids

\* Mutant of BuildCheckpoint: the watermark is the time of the poll.
CheckpointNow(inc, e, v) ==
    CASE inc /\ Timed /\ v # NoValue ->
            [mode |-> "timestamp", value |-> clock, ids |-> {e}]
      [] inc /\ conf.mode = "sequence" -> [mode |-> "sequence", value |-> e, ids |-> {}]
      [] OTHER -> NoCheckpoint

\* Mutant of BuildCheckpoint: no boundary ids.
CheckpointBare(inc, e, v) ==
    CASE inc /\ Timed /\ v # NoValue ->
            [mode |-> "timestamp", value |-> v, ids |-> {}]
      [] inc /\ conf.mode = "sequence" -> [mode |-> "sequence", value |-> e, ids |-> {}]
      [] OTHER -> NoCheckpoint

\* _build_record_checkpoint: a full scan, and a null in the field, have none.
BuildCheckpoint(inc, e, v) ==
    CASE inc /\ Timed /\ v # NoValue ->
            [mode |-> "timestamp", value |-> v, ids |-> {e}]
      [] inc /\ conf.mode = "sequence" -> [mode |-> "sequence", value |-> e, ids |-> {}]
      [] OTHER -> NoCheckpoint

\* _record_checkpoint: a record without a checkpoint gets the legacy cursor,
\* its instance id, as a sequence checkpoint.
RecordCheckpoint(c, e) ==
    IF c # NoCheckpoint THEN c ELSE [mode |-> "sequence", value |-> e, ids |-> {}]

-----------------------------------------------------------------------------
(* _poll_async                                                             *)

StartPoll(p) ==
    /\ poll[p].pc = "idle"
    /\ poll' = [poll EXCEPT ![p] =
                  [Idle EXCEPT !.pc = "fetch", !.prev = ckpt, !.cur = ckpt,
                               !.inc = (conf.mode # "full_scan")]]
    /\ resetDue' = FALSE
    /\ UNCHANGED <<sourceVars, dbVars, sent>>

\* A 501 in strict mode ends the poll; otherwise this and all later pages of
\* the poll are read without filter and order, from the same offset.
FetchPage(p) ==
    /\ poll[p].pc = "fetch"
    /\ IF poll[p].inc /\ ~conf.supported /\ conf.strict
       THEN poll' = [poll EXCEPT ![p].pc = "closing"]
       ELSE LET inc == poll[p].inc /\ conf.supported
                list == IF inc THEN Ordered(poll[p].prev) ELSE Everything
                page == Page(list, poll[p].pages)
            IN  poll' = [poll EXCEPT ![p] =
                  [poll[p] EXCEPT
                       !.pc = "page", !.inc = inc, !.pages = @ + 1,
                       !.page = [i \in DOMAIN page |->
                           [id |-> page[i], value |-> stamp[page[i]]]],
                       !.full = (Len(page) = conf.top)]]
    /\ UNCHANGED <<sourceVars, dbVars, sent, resetDue>>

\* A request that keeps failing, or a record process_record raises over: the
\* poll commits what it has done so far.
FetchFails(p) ==
    /\ CanCrash
    /\ poll[p].pc \in {"fetch", "page"}
    /\ poll' = [poll EXCEPT ![p].pc = "closing"]
    /\ UNCHANGED <<sourceVars, dbVars, sent, resetDue>>

SkipSeen(p) ==
    /\ poll[p].pc = "page" /\ poll[p].page # <<>>
    /\ LET r == Head(poll[p].page)
       IN  poll[p].inc /\ Seen(poll[p].prev, r.id, r.value)
    /\ poll' = [poll EXCEPT ![p].page = Tail(@)]
    /\ UNCHANGED <<sourceVars, dbVars, sent, resetDue>>

\* process_record returned SUCCESS, for a new record or for one whose key is
\* there already; the checkpoint follows.
IngestSucceeds(p) ==
    /\ poll[p].pc = "page" /\ poll[p].page # <<>>
    /\ LET r == Head(poll[p].page)
           q == poll[p]
           c == RecordCheckpoint(BuildCheckpoint(q.inc, r.id, r.value), r.id)
           next == Advance(q.cur, c)
       IN  /\ ~(q.inc /\ Seen(q.prev, r.id, r.value))
           /\ sent' = sent \cup {r.id}
           /\ poll' = [poll EXCEPT ![p] =
                [q EXCEPT !.page = Tail(@), !.ok = @ \cup {r.id},
                          !.cur = next, !.changed = @ \/ next # q.cur]]
    /\ UNCHANGED <<sourceVars, dbVars, resetDue>>

\* process_record returned FAILED: dead-lettered, the checkpoint stays.
IngestFails(p) ==
    /\ poll[p].pc = "page" /\ poll[p].page # <<>>
    /\ LET r == Head(poll[p].page)
           q == poll[p]
       IN  /\ ~(q.inc /\ Seen(q.prev, r.id, r.value))
           /\ r.id \in Poison \ (done \cup q.ok)
           /\ poll' = [poll EXCEPT ![p] =
                [q EXCEPT !.page = Tail(@), !.dead = @ \cup {r.id}]]
    /\ UNCHANGED <<sourceVars, dbVars, sent, resetDue>>

\* Mutant of EndPage: one page too many.
EndPageLate(p) ==
    /\ poll[p].pc = "page" /\ poll[p].page = <<>>
    /\ poll' = [poll EXCEPT ![p].pc =
                  IF poll[p].full /\ poll[p].pages <= conf.pages
                  THEN "fetch" ELSE "closing"]
    /\ UNCHANGED <<sourceVars, dbVars, sent, resetDue>>

\* A short page is the last one; so is the max_pages-th.
EndPage(p) ==
    /\ poll[p].pc = "page" /\ poll[p].page = <<>>
    /\ poll' = [poll EXCEPT ![p].pc =
                  IF poll[p].full /\ poll[p].pages < conf.pages
                  THEN "fetch" ELSE "closing"]
    /\ UNCHANGED <<sourceVars, dbVars, sent, resetDue>>

\* The one commit of a poll; a changed checkpoint overwrites whatever is there.
ClosePoll(p) ==
    /\ poll[p].pc = "closing"
    /\ done' = done \cup poll[p].ok
    /\ dlq' = dlq \cup poll[p].dead
    /\ ckpt' = IF poll[p].changed THEN poll[p].cur ELSE ckpt
    /\ poll' = [poll EXCEPT ![p] = Idle]
    /\ UNCHANGED <<sourceVars, sent, resetDue>>

\* The worker dies: nothing of the poll remains but what was sent.
CrashPoll(p) ==
    /\ CanCrash
    /\ poll[p].pc # "idle"
    /\ poll' = [poll EXCEPT ![p] = Idle]
    /\ UNCHANGED <<sourceVars, dbVars, sent, resetDue>>

-----------------------------------------------------------------------------
(* The operator.                                                           *)

ResetCursor ==
    /\ CanReset
    /\ ckpt' = NoCheckpoint
    /\ resetDue' = TRUE
    /\ UNCHANGED <<sourceVars, done, dlq, sent, poll>>

\* A replay that succeeds; one that fails leaves the record dead-lettered.
Replay(e) ==
    /\ e \in dlq
    /\ dlq' = dlq \ {e}
    /\ done' = done \cup {e}
    /\ sent' = sent \cup {e}
    /\ UNCHANGED <<sourceVars, ckpt, poll, resetDue>>

-----------------------------------------------------------------------------
PollStep(p) ==
    \/ FetchPage(p) \/ SkipSeen(p) \/ IngestSucceeds(p) \/ IngestFails(p)
    \/ EndPage(p) \/ ClosePoll(p)

Next ==
    \/ \E e \in Entries : Submit(e) \/ Edit(e) \/ Replay(e)
    \/ Tick
    \/ \E p \in Polls : StartPoll(p) \/ PollStep(p) \/ FetchFails(p) \/ CrashPoll(p)
    \/ ResetCursor

Spec == Init /\ [][Next]_vars

\* Beat dispatches an enabled connector again and again, and a worker that
\* runs a poll goes on with it.
Fairness == \A p \in Polls : WF_vars(StartPoll(p)) /\ WF_vars(PollStep(p))

FairSpec == Spec /\ Fairness

-----------------------------------------------------------------------------
(* Properties.                                                             *)

\* Would a poll that starts from c, and reads far enough, look at e?
Fetchable(c, e) == Matches(c, e) /\ ~Seen(c, e, Field(e))

\* The watermark never passes a submission that is neither in the registry
\* nor dead-lettered, although records fail, pages shift, polls overlap and
\* overwrite each other's checkpoint, and workers die (worker.py:124-140).
\* A null in the field (a submission never edited, in updated_at mode) is
\* outside: no filter ever returns it.
NoSkip ==
    \A e \in there :
        stamp[e] # NoValue /\ ~Fetchable(ckpt, e) => e \in sent \cup dlq

\* When polls do not overlap, the persisted checkpoint of a timestamp connector
\* never moves back, and at a tie keeps the boundary ids it has
\* (checkpoints.py:130-183).  Under updated_at it may: a null updatedAt turns
\* it into a sequence checkpoint, over which any timestamp counts as progress.
NoRegress ==
    [][conf.mode = "timestamp" => NoStepBack(ckpt, ckpt')]_vars

\* When polls do not overlap, a submission that was ingested is not handed to
\* process_record again: ties at the watermark are recognised by their
\* boundary ids (odk_central.py:14-16, "so equal-timestamp ties don't get
\* re-processed on the next poll").  This is about the default mode on a server
\* that supports it, since a full scan hands over everything every time, and
\* not about a submission that a replay ingested: no checkpoint knows of it.
NotReprocessed ==
    conf.mode = "timestamp" /\ conf.supported =>
        \A p \in Polls : poll[p].pc = "page" /\ poll[p].page # <<>> =>
            LET r == Head(poll[p].page)
            IN  r.id \in done \ Poison => Seen(poll[p].prev, r.id, r.value)

\* The endpoint's docstring (connectors.py:170): after a reset "the next poll
\* re-fetches from the beginning".  A poll in flight writes its checkpoint
\* back over the cleared one (worker.py:162).
ResetTakesEffect == resetDue => ckpt = NoCheckpoint

\* The form holds finitely many submissions, and in the end each of them is
\* ingested or dead-lettered, as long as fewer submissions share an instant
\* than one poll can read.
AllIngested == there \subseteq sent \cup dlq
EventuallyIngested == <>[]AllIngested

=============================================================================
