----------------------------- MODULE RunListing -----------------------------
(* The listings of runs and of dead letters, read page by page while runs   *)
(* are updated, and entries arrive and are replayed.  A row is listed by    *)
(* time: of its last update for a run, of its creation for a dead letter.   *)
EXTENDS Integers, Sequences, FiniteSets, FiniteSetsExt, SequencesExt

CONSTANTS
    Tables,      \* tables to begin with: id -> connector, status, created, time
    Arriving,    \* the row that may be added, without its times
    Names,       \* connector -> rank of its name; a deleted one has none
    Unset,       \* a filter that is not given
    Limit,       \* rows of a page
    MaxTime      \* bound on the clock

VARIABLES
    kind,        \* "runs" or "dlq"
    rows,        \* id -> row
    query,       \* filters and order asked for
    offset,      \* where the next page begins
    seen,        \* rows read so far
    total,       \* what the last page said of their number, Unset before it
    due,         \* rows that were there at the beginning and have not moved up
    shifted      \* what follows a row already read has moved up, or rows tie

vars == <<kind, rows, query, offset, seen, total, due, shifted>>

Queries == [connector : {"a", Unset}, status : {"FAILED", Unset}, from : {2, Unset},
            to : {2, Unset}, sort : {"asc", "desc"}, order : {"time", "connector"}]

----------------------------------------------------------------------------
Matches(r, q) ==
    /\ q.connector \in {Unset, r.connector} /\ q.status \in {Unset, r.status}
    /\ q.from = Unset \/ r.created >= q.from
    /\ q.to = Unset \/ r.created <= q.to

Matching == {i \in DOMAIN rows : Matches(rows[i], query)}

\* Rows of connectors that are gone have no name, and come last.
NameBefore(a, b) ==
    /\ a.connector \in DOMAIN Names
    /\ b.connector \in DOMAIN Names => Names[a.connector] < Names[b.connector]

Before(i, j) ==
    LET a == rows[i]  b == rows[j]  grouped == query.order = "connector" IN
    \/ grouped /\ NameBefore(a, b)
    \/ /\ ~(grouped /\ NameBefore(b, a))
       /\ IF query.sort = "asc" THEN a.time < b.time ELSE a.time > b.time

\* Rows that compare equal come in an order of the database's choosing.
Orders ==
    {s \in SetToSeqs(Matching) : \A m, n \in DOMAIN s : m < n => ~Before(s[n], s[m])}

Ties == \E i, j \in Matching : i # j /\ ~Before(i, j) /\ ~Before(j, i)

\* Mutant of NextOffset: a row too far.
NextOffsetSkips(o) == o + Limit + 1

NextOffset(o) == o + Limit

\* list_runs, list_dlq: a page, and the number of rows that match.
List ==
    /\ total # Unset => offset < total
    /\ \E s \in Orders :
          seen' = seen \cup {s[k] : k \in DOMAIN s \cap (offset + 1)..(offset + Limit)}
    /\ total' = Cardinality(Matching)
    /\ offset' = NextOffset(offset)
    /\ shifted' = (shifted \/ Ties)
    /\ UNCHANGED <<kind, rows, query, due>>

----------------------------------------------------------------------------
Newest == Max({rows[i].time : i \in DOMAIN rows} \cup {0})
CanTick == Newest < MaxTime

\* A redelivery or a retry updates a run.
Touch(i) ==
    /\ kind = "runs" /\ CanTick
    /\ rows' = [rows EXCEPT ![i].time = Newest + 1]
    /\ due' = IF query.sort = "desc" THEN due \ ({i} \ seen) ELSE due
    /\ shifted' = (shifted \/ (query.sort = "asc" /\ i \in seen))
    /\ UNCHANGED <<kind, query, offset, seen, total>>

Arrive(i) ==
    /\ CanTick /\ i \notin DOMAIN rows
    /\ rows' = [j \in DOMAIN rows \cup {i} |->
                   IF j = i THEN [connector |-> Arriving[i].connector, status |-> Arriving[i].status,
                                  created |-> Newest + 1, time |-> Newest + 1]
                   ELSE rows[j]]
    /\ UNCHANGED <<kind, query, offset, seen, total, due, shifted>>

\* A dead letter is replayed.
Replayed(i) ==
    /\ kind = "dlq"
    /\ rows' = [j \in DOMAIN rows \ {i} |-> rows[j]]
    /\ due' = due \ {i}
    /\ shifted' = (shifted \/ i \in seen \/ i \notin due)
    /\ UNCHANGED <<kind, query, offset, seen, total>>

Next ==
    \/ List
    \/ \E i \in DOMAIN rows : Touch(i) \/ Replayed(i)
    \/ \E i \in DOMAIN Arriving : Arrive(i)

Init ==
    /\ kind \in {"runs", "dlq"}
    /\ rows \in Tables
    /\ query \in Queries
    /\ offset = 0 /\ seen = {} /\ total = Unset
    /\ due = Matching
    /\ shifted = FALSE

Spec == Init /\ [][Next]_vars

----------------------------------------------------------------------------
TypeOK ==
    /\ kind \in {"runs", "dlq"} /\ query \in Queries /\ offset \in Nat
    /\ total \in Nat \cup {Unset} /\ shifted \in BOOLEAN
    /\ due \subseteq DOMAIN rows

\* Who reads all pages has read every row of the period, connector and status
\* asked for that was there when the reading began: whatever arrives, is
\* updated or replayed meanwhile, except a run that moved to a page read
\* before, rows behind one that was replayed or updated when it had been read
\* or had come later, and rows of one time, which no order tells apart.
ListingComplete ==
    (total # Unset /\ offset >= total /\ ~shifted) =>
        /\ due \subseteq seen
        /\ \A i \in seen \cap DOMAIN rows :
              /\ query.from # Unset => rows[i].created >= query.from
              /\ query.to # Unset => rows[i].created <= query.to
              /\ query.connector # Unset => rows[i].connector = query.connector

=============================================================================
