------------------------------ MODULE OdkPages ------------------------------
(* The requests of one poll of ODK Central: a page after the other, each    *)
(* tried again while the server is busy, of the draft of a form or, once    *)
(* that is gone, of the published form, and without the incremental query   *)
(* when the server cannot do it and the policy allows to go on.             *)
EXTENDS Naturals, Sequences, SequencesExt, FiniteSets

CONSTANTS
    Missing,     \* no such form
    PageSize, MaxPages, MaxRetries,
    MaxSubmissions  \* bound on the submissions of a form

VARIABLES
    draft, published,   \* submissions of either form, oldest first
    supported,   \* the server filters and orders by the incremental field
    conf,        \* the connector's configuration
    poll,        \* what the poll works with
    read,        \* submissions it has read
    start,       \* those of the form when it began
    changed      \* the form was published or deleted meanwhile

vars == <<draft, published, supported, conf, poll, read, start, changed>>

Confs == [useDraft : BOOLEAN, fallback : BOOLEAN, fullScan : BOOLEAN,
          strict : BOOLEAN, allow : BOOLEAN]

----------------------------------------------------------------------------
List == IF poll.draft THEN draft ELSE published

\* What the server says to a request, if it is not too busy (503).
Status == IF List = Missing THEN 404
          ELSE IF poll.incremental /\ ~supported THEN 501 ELSE 200

\* Mutant of OkIf: a form that does not exist is never an error.
OkAlways404(p) == {200, 404, 501}

\* Statuses the poll deals with itself; another ends it.
OkIf(p) ==
    {200} \cup (IF p.draft /\ conf.fallback THEN {404} ELSE {})
          \cup (IF p.incremental THEN {501} ELSE {})

\* The next request, with the attempts it may take.
Asking(step, p) == [p EXCEPT !.step = step, !.attempt = 0]
Page(p) == [Asking("list", p) EXCEPT !.ok = OkIf(p)]
Finished(outcome) == [poll EXCEPT !.step = "done", !.outcome = outcome]

\* A dropped fallback: without the query, and no status tolerated.
Unfiltered(p) == [Asking("full", p) EXCEPT !.incremental = FALSE, !.ok = {200}]

Requesting == poll.step \in {"list", "published", "full"}

\* 429 and any 5xx that is not tolerated is tried again.
Retry(status) ==
    /\ Requesting
    /\ status = 503 \/ (status = Status /\ status = 501 /\ 501 \notin poll.ok)
    /\ poll' = IF poll.attempt = MaxRetries THEN Finished("FAILED")
               ELSE [poll EXCEPT !.attempt = @ + 1]
    /\ UNCHANGED <<draft, published, supported, conf, read, start, changed>>

NotFound ==
    /\ Requesting
    /\ Status = 404 /\ 404 \notin poll.ok
    /\ poll' = Finished("FAILED")
    /\ UNCHANGED <<draft, published, supported, conf, read, start, changed>>

\* The draft is gone: ask for the published form, with what was tolerated.
FallBackToPublished ==
    /\ poll.step = "list" /\ poll.draft
    /\ Status = 404 /\ 404 \in poll.ok
    /\ poll' = [Asking("published", poll) EXCEPT !.draft = FALSE]
    /\ UNCHANGED <<draft, published, supported, conf, read, start, changed>>

\* A published form that does not exist either passes for an empty one.
PublishedMissing ==
    /\ Requesting /\ ~poll.draft
    /\ Status = 404 /\ 404 \in poll.ok
    /\ poll' = Finished("SUCCESS")
    /\ UNCHANGED <<draft, published, supported, conf, read, start, changed>>

IncrementalUnsupported == conf.strict /\ ~conf.allow

Unsupported ==
    /\ poll.step \in {"list", "published"}
    /\ Status = 501 /\ 501 \in poll.ok
    /\ poll' = IF IncrementalUnsupported THEN Finished("FAILED") ELSE Unfiltered(poll)
    /\ UNCHANGED <<draft, published, supported, conf, read, start, changed>>

\* In order of the incremental field, or newest first.
PageEntries ==
    LET ordered == IF poll.incremental THEN List ELSE Reverse(List)
    IN {ordered[k] : k \in DOMAIN ordered \cap (poll.skip + 1)..(poll.skip + PageSize)}

ReadPage ==
    /\ Requesting /\ Status = 200
    /\ read' = read \cup PageEntries
    /\ poll' = IF Cardinality(PageEntries) < PageSize \/ poll.page = MaxPages THEN Finished("SUCCESS")
               ELSE Page([poll EXCEPT !.skip = @ + PageSize, !.page = @ + 1])
    /\ UNCHANGED <<draft, published, supported, conf, start, changed>>

----------------------------------------------------------------------------
(* ODK Central, meanwhile. *)

Grown(form) == Append(form, Len(form) + 1)
HasRoom(form) == form # Missing /\ Len(form) < MaxSubmissions

Submit ==
    /\ \/ HasRoom(draft) /\ draft' = Grown(draft) /\ UNCHANGED published
       \/ HasRoom(published) /\ published' = Grown(published) /\ UNCHANGED draft
    /\ UNCHANGED <<supported, conf, poll, read, start, changed>>

Publish ==
    /\ draft # Missing
    /\ draft' = Missing
    /\ published' = IF published = Missing THEN <<>> ELSE published
    /\ changed' = TRUE
    /\ UNCHANGED <<supported, conf, poll, read, start>>

DeleteForm ==
    /\ published # Missing
    /\ published' = Missing
    /\ changed' = TRUE
    /\ UNCHANGED <<draft, supported, conf, poll, read, start>>

Next ==
    \/ Retry(503) \/ Retry(501)
    \/ NotFound \/ FallBackToPublished \/ PublishedMissing \/ Unsupported \/ ReadPage
    \/ Submit \/ Publish \/ DeleteForm

Numbered(n) == [k \in 1..n |-> k]
Init ==
    /\ draft \in {Missing} \cup {Numbered(n) : n \in 0..(MaxSubmissions - 1)}
    /\ published \in {Missing} \cup {Numbered(n) : n \in 0..(MaxSubmissions - 1)}
    /\ supported \in BOOLEAN
    /\ conf \in Confs
    /\ poll = Page([step |-> "list", attempt |-> 0, ok |-> {}, skip |-> 0, page |-> 1,
                    draft |-> conf.useDraft, incremental |-> ~conf.fullScan,
                    outcome |-> "none"])
    /\ start = IF conf.useDraft /\ ~(draft = Missing /\ conf.fallback) THEN draft ELSE published
    /\ read = {} /\ changed = FALSE

Spec == Init /\ [][Next]_vars

----------------------------------------------------------------------------
TypeOK ==
    /\ conf \in Confs /\ supported \in BOOLEAN /\ changed \in BOOLEAN
    /\ read \subseteq 1..MaxSubmissions
    /\ poll.step \in {"list", "published", "full", "done"}
    /\ poll.attempt \in 0..MaxRetries /\ poll.page \in 1..MaxPages
    /\ poll.outcome \in {"none", "FAILED", "SUCCESS"}
    /\ poll.outcome = "none" <=> poll.step # "done"

\* config.py: a transport that cannot query incrementally "MUST raise instead
\* of silently re-downloading every record".  And a poll that succeeds has
\* read every submission the form had when it began, if its pages suffice and
\* the form was neither published nor deleted meanwhile; a form that does not
\* exist is an error, unless a draft was asked for.  What arrives meanwhile
\* comes after the rest in a query by the incremental field; without it, it
\* comes first and pushes the rest down, so that the pages must suffice for it.
PollHonest ==
    /\ (conf.strict /\ ~conf.allow /\ ~conf.fullScan) => poll.incremental
    /\ (poll.outcome = "SUCCESS" /\ ~changed) =>
          IF start = Missing THEN conf.useDraft
          ELSE Len(IF poll.incremental THEN start ELSE List) <= PageSize * MaxPages
                  => ToSet(start) \subseteq read

=============================================================================
