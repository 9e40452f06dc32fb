---------------------------- MODULE FarmerPhones ----------------------------
(* The phone rows of one farmer and the projection of them on the farmer's  *)
(* row: the hooks that end an ingestion and an approved change request, and *)
(* the phone statements of a boot.  A hook reads and locks in its own       *)
(* transaction, then commits; rows inserted by others are not seen.         *)
(*                                                                          *)
(* phone  the committed rows; json: phone_numbers of the farmer, by row     *)
(* tx     what each open transaction writes                                 *)
(* stale  the last projection was read before another transaction committed *)
(* clash  so was the last choice of a primary phone                         *)
EXTENDS FiniteSets, Naturals

CONSTANTS
    Minted,         \* rows a boot made of the legacy JSON, by position
    Real,           \* rows of a form or a feed; all numbered by creation
    Subscribers,    \* numbers the normaliser knows
    Junk,           \* a value that is no Ethiopian number
    NULL

VARIABLES phone, json, tx, stale, clash

vars == <<phone, json, tx, stale, clash>>

Ids == Minted \cup Real

\* A number in the national form or in another one, primary or not.
Rows == [sub : Subscribers, national : BOOLEAN, primary : BOOLEAN]
            \cup [sub : {Junk}, national : {FALSE}, primary : BOOLEAN]
Table(f) == DOMAIN f \subseteq Ids /\ \A i \in DOMAIN f : f[i] \in Rows

\* The one form a number is stored in; a value of no known form stays.
Cleaned(r) == IF r.sub = Junk THEN r ELSE [r EXCEPT !.national = TRUE]

Live(p) == {i \in Ids : p[i] # NULL}
Primaries(p) == {i \in Live(p) : p[i].primary}
First(S) == CHOOSE i \in S : \A j \in S : i <= j
Projection(p) == [i \in Live(p) |-> p[i]]

\* The rows as the transaction sees them, and those it has written.
Seen(w) == [i \in Ids |-> IF i \in DOMAIN w THEN w[i] ELSE phone[i]]
Locked == UNION {DOMAIN tx[t].writes : t \in {u \in DOMAIN tx : tx[u] # NULL}}

----------------------------------------------------------------------------
(* The hook: the others give way to the preferred primary; when none is     *)
(* left primary, the first row becomes it.                                  *)

\* Mutant of Demote: only the rows of the section give way.
DemoteSection(w, preferred) ==
    [i \in DOMAIN w |-> IF preferred = NULL \/ w[i] = NULL \/ i = preferred THEN w[i]
                        ELSE [w[i] EXCEPT !.primary = FALSE]]

Demote(w, preferred) ==
    IF preferred = NULL THEN w
    ELSE [i \in DOMAIN w \cup Live(phone) |->
             IF Seen(w)[i] = NULL \/ i = preferred THEN Seen(w)[i]
             ELSE [Seen(w)[i] EXCEPT !.primary = FALSE]]

Promote(w) ==
    LET p == Seen(w) IN
    IF Live(p) = {} \/ Primaries(p) # {} THEN w
    ELSE [i \in DOMAIN w \cup {First(Live(p))} |->
             IF i = First(Live(p)) THEN [p[i] EXCEPT !.primary = TRUE] ELSE w[i]]

Sync(t, w, preferred) ==
    LET all == Promote(Demote(w, preferred)) IN
    /\ tx[t] = NULL
    /\ DOMAIN all \cap Locked = {}
    /\ tx' = [tx EXCEPT ![t] = [writes |-> all, latest |-> TRUE,
                                chosen |-> preferred # NULL,
                                json |-> Projection(Seen(all))]]
    /\ UNCHANGED <<phone, json, stale, clash>>

\* Ingestion takes a number as it comes, and normalises it when it can.
Ingest(i, r) ==
    /\ phone[i] = NULL
    /\ Sync(i, [j \in {i} |-> Cleaned(r)], IF r.primary THEN i ELSE NULL)

\* What the form accepts: known numbers, each once, and one primary at most.
Valid(w) ==
    LET kept == {i \in DOMAIN w : w[i] # NULL} IN
    /\ \A i \in kept : w[i].sub # Junk /\ w[i].national
    /\ Cardinality({i \in kept : w[i].primary}) <= 1
    /\ \A i, j \in kept : w[i].sub = w[j].sub => i = j

\* An approved change request adds, edits and deletes rows.
Approve(w) ==
    /\ Valid(w) /\ \A i \in DOMAIN w : phone[i] # NULL \/ (i \in Real /\ w[i] # NULL)
    /\ LET chosen == {i \in DOMAIN w : w[i] # NULL /\ w[i].primary}
       IN Sync(0, w, IF chosen = {} THEN NULL ELSE First(chosen))

\* The farmer's row is written by one transaction after the other.
Commit(t) ==
    /\ tx[t] # NULL
    /\ phone' = Seen(tx[t].writes)
    /\ json' = tx[t].json
    /\ stale' = ~tx[t].latest
    /\ clash' = (~tx[t].latest \/ (clash /\ ~tx[t].chosen))
    /\ tx' = [u \in DOMAIN tx |-> IF u = t \/ tx[u] = NULL THEN NULL
                                  ELSE [tx[u] EXCEPT !.latest = FALSE]]

----------------------------------------------------------------------------
(* The boot: drop the minted copies of real rows, mint rows for a farmer    *)
(* who has none, normalise, and refresh the projection of whoever has rows. *)

DropCopies(p) ==
    [i \in Ids |->
        IF i \in Minted /\ p[i] # NULL /\ \E j \in Real :
               p[j] # NULL /\ p[j].sub = p[i].sub /\ p[j].national = p[i].national
        THEN NULL ELSE p[i]]

\* Mutant of Mint: for a farmer who has rows as well.
MintAlways(p, j) == [i \in Ids |-> IF i \in DOMAIN j \cap Minted THEN j[i] ELSE p[i]]

Mint(p, j) ==
    LET first == {i \in DOMAIN j : j[i].primary} IN
    IF Live(p) # {} THEN p
    ELSE [i \in Ids |-> IF i \in DOMAIN j \cap Minted
                        THEN [j[i] EXCEPT !.primary = (first # {} /\ i = First(first))]
                        ELSE NULL]

NormalisePhones(p) == [i \in Ids |-> IF p[i] = NULL THEN NULL ELSE Cleaned(p[i])]

Boot(p, j) == NormalisePhones(Mint(DropCopies(p), j))
Refreshed(p, j) == IF Live(p) = {} THEN j ELSE Projection(p)

Restart ==
    /\ \A t \in DOMAIN tx : tx[t] = NULL
    /\ phone' = Boot(phone, json)
    /\ json' = Refreshed(phone', json)
    /\ stale' = FALSE
    /\ clash' = (clash /\ Cardinality(Primaries(phone')) > 1)
    /\ UNCHANGED tx

Next ==
    \/ \E i \in Real, r \in Rows : Ingest(i, r)
    \/ \E D \in SUBSET Ids : D # {} /\ Cardinality(D) <= 2
                             /\ \E w \in [D -> Rows \cup {NULL}] : Approve(w)
    \/ \E t \in Real \cup {0} : Commit(t)
    \/ Restart

\* No phone; or the JSON of an older release; or a row of a form, with the
\* copy of it that older boots minted of its projection.
Init ==
    /\ phone \in {[i \in Ids |-> IF i \in D THEN p[i] ELSE NULL] :
                     D \in {{}, {First(Real)}, {First(Minted), First(Real)}},
                     p \in {[i \in Ids |-> r] : r \in Rows}}
    /\ json \in IF Live(phone) # {} THEN {Projection(phone)}
                ELSE UNION {[D -> Rows] : D \in {{}, Minted}}
    /\ tx = [t \in Real \cup {0} |-> NULL]
    /\ stale = FALSE
    /\ clash = (Cardinality(Primaries(phone)) > 1)

Spec == Init /\ [][Next]_vars

----------------------------------------------------------------------------
TypeOK ==
    /\ phone \in [Ids -> Rows \cup {NULL}]
    /\ Table(json)
    /\ \A t \in Real \cup {0} : tx[t] # NULL =>
           /\ DOMAIN tx[t].writes \subseteq Ids /\ Table(tx[t].json)
           /\ tx[t].latest \in BOOLEAN /\ tx[t].chosen \in BOOLEAN
    /\ stale \in BOOLEAN /\ clash \in BOOLEAN

\* A farmer never has two primary phones, whatever is ingested, edited,
\* deleted, minted or dropped, unless two transactions overlapped, and then
\* only until the next phone that is sent as primary.
OnePrimary == clash \/ Cardinality(Primaries(phone)) <= 1

\* The projection the farmer carries is that of the rows, unless the last two
\* writers overlapped, and then only until the next write or boot; before its
\* first boot an older release's JSON has no rows.
ProjectionFollows ==
    stale \/ json = Projection(phone) \/ Live(phone) = {}

\* Older numbers hide a copy from the first boot, which normalises both; the
\* second drops it.  After that no minted row repeats a real one and a boot
\* changes nothing.
PhonesSettle ==
    LET once  == Boot(phone, json)
        j     == Refreshed(once, json)
        twice == Boot(once, j)
    IN /\ Boot(twice, Refreshed(twice, j)) = twice
       /\ \A i \in Minted, k \in Real :
              (twice[i] # NULL /\ twice[k] # NULL /\ twice[i].sub # Junk)
                  => twice[i].sub # twice[k].sub

=============================================================================
