--------------------------- MODULE HouseholdHeads ---------------------------
(* The head of a household: the flag on the farmer rows and the name on the *)
(* household row, kept in step by the hooks that end an approval or an      *)
(* ingestion, and by every boot.  Transactions of different farmers overlap *)
(* under READ COMMITTED: a row written by one is locked until it commits,   *)
(* and a row it inserted, or moved here, is not seen by the others' WHERE.  *)
(*                                                                          *)
(* row      the committed farmer rows, or Nobody                            *)
(* home     the name on each household row, Nobody for NULL, or Absent      *)
(* tx       the farmer's open transaction: what it writes, and the name on  *)
(*          the household as it read it (seen), Absent before that          *)
(* exposed  the household has seen two arrivals overlap, or a head arrive   *)
(*          before the household row itself                                 *)
(* unseated a member of the same name, not its head, has had the name       *)
(*          cleared, or a head's save left a name that was the right one    *)
(*          when it read it; until a head's save writes the name, or a boot *)
EXTENDS FiniteSets, Naturals

CONSTANTS
    Farmers,    \* in the order their rows were created: 1, 2, ...
    Homes,
    Names,
    Nobody,     \* NULL, no row, no household; none of these is a name
    Absent      \* no household row

VARIABLES row, home, tx, exposed, unseated

vars == <<row, home, tx, exposed, unseated>>

Rows == [name : Names, head : BOOLEAN, link : Homes \cup {Nobody}]
Writes == [row : Rows, hooked : BOOLEAN, demoted : SUBSET Farmers,
           seen : Names \cup {Nobody, Absent}, headName : Names \cup {Nobody, Absent}]

Open == {f \in Farmers : tx[f] # Nobody}
Live(h) == {f \in Farmers : row[f] # Nobody /\ row[f].link = h}
Heads(h) == {f \in Live(h) : row[f].head}

\* The transaction inserts its row into the household, or moves it there.
Arrives(f, h) == tx[f] # Nobody /\ tx[f].row.link = h /\ f \notin Live(h)

\* Rows that an open transaction has written and not committed.
LockedBy(g) == IF tx[g] = Nobody THEN {} ELSE {g} \cup tx[g].demoted
LockedFor(f) == UNION {LockedBy(g) : g \in Farmers \ {f}}

\* The household is being created: nobody else knows its id before the commit.
Unborn(h) == home[h] = Absent /\ \E g \in Open :
                 tx[g].row.link = h /\ tx[g].headName # Absent

----------------------------------------------------------------------------
\* A new farmer is ingested, or a change request of one is approved.
Begin(f, r) ==
    /\ tx[f] = Nobody /\ f \notin LockedFor(f)
    /\ r.link # Nobody => ~Unborn(r.link)
    /\ tx' = [tx EXCEPT ![f] = [row |-> r, hooked |-> FALSE, demoted |-> {},
                                seen |-> Absent, headName |-> Absent]]
    /\ exposed' = [h \in Homes |->
           exposed[h] \/ (/\ r.link = h /\ f \notin Live(h)
                          /\ \E g \in Farmers \ {f} : Arrives(g, h))]
    /\ UNCHANGED <<row, home, unseated>>

\* A head without a household is given one, whose name is already right.
CreateHousehold(f, h) ==
    /\ tx[f] # Nobody /\ ~tx[f].hooked
    /\ tx[f].row.head /\ tx[f].row.link = Nobody
    /\ home[h] = Absent /\ Live(h) = {} /\ \A g \in Farmers : ~Arrives(g, h)
    /\ tx' = [tx EXCEPT ![f] = [row |-> [tx[f].row EXCEPT !.link = h],
                                hooked |-> TRUE, demoted |-> {},
                                seen |-> Absent, headName |-> tx[f].row.name]]
    /\ UNCHANGED <<row, home, exposed, unseated>>

\* Mutant of Demoted: only those who are head already.
DemotedHeads(f) == Heads(tx[f].row.link) \ {f}

\* The others of the household: the committed rows of the same link, all of
\* them written, whatever their flag.
Demoted(f) == Live(tx[f].row.link) \ {f}

\* What the household's name becomes; Absent when it is left as it is.  A head
\* assigns its own name to the row as it was read: where the two are equal,
\* nothing is written.
NewHeadName(f) ==
    LET r == tx[f].row IN
    IF r.head THEN IF tx[f].seen = r.name THEN Absent ELSE r.name
    ELSE IF home[r.link] = r.name THEN Nobody ELSE Absent

\* The household row is read.  Where there is none, that is all; a member who
\* is not its head clears its own name from it; a head goes on to Demote.
Hook(f) ==
    /\ tx[f] # Nobody /\ ~tx[f].hooked /\ tx[f].seen = Absent
    /\ IF tx[f].row.link = Nobody \/ home[tx[f].row.link] = Absent
       THEN /\ tx[f].row.link = Nobody => ~tx[f].row.head
            /\ tx' = [tx EXCEPT ![f].hooked = TRUE]
            /\ exposed' = [h \in Homes |-> exposed[h] \/
                               (h = tx[f].row.link /\ tx[f].row.head)]
       ELSE /\ IF tx[f].row.head
               THEN tx' = [tx EXCEPT ![f].seen = home[tx[f].row.link]]
               ELSE tx' = [tx EXCEPT ![f].hooked = TRUE, ![f].headName = NewHeadName(f)]
            /\ UNCHANGED exposed
    /\ UNCHANGED <<row, home, unseated>>

\* The head takes the flag from the others, once none of their rows is in
\* another transaction's hands, and assigns its name to the household it read
\* before it waited for them.
Demote(f) ==
    /\ tx[f] # Nobody /\ ~tx[f].hooked /\ tx[f].seen # Absent
    /\ Demoted(f) \cap LockedFor(f) = {}
    /\ tx' = [tx EXCEPT ![f].hooked = TRUE, ![f].demoted = Demoted(f),
                        ![f].headName = NewHeadName(f)]
    /\ UNCHANGED <<row, home, exposed, unseated>>

\* A head that left the name alone, and another has changed it since.
Overtaken(f) ==
    /\ tx[f].row.head /\ tx[f].seen # Absent
    /\ tx[f].seen # home[tx[f].row.link]

Commit(f) ==
    /\ tx[f] # Nobody /\ tx[f].hooked
    /\ row' = [g \in Farmers |->
                  IF g = f THEN tx[f].row
                  ELSE IF g \in tx[f].demoted THEN [row[g] EXCEPT !.head = FALSE]
                  ELSE row[g]]
    /\ home' = [h \in Homes |->
                   IF h = tx[f].row.link /\ tx[f].headName # Absent
                   THEN tx[f].headName ELSE home[h]]
    /\ unseated' = [h \in Homes |->
           IF h # tx[f].row.link THEN unseated[h]
           ELSE IF tx[f].headName = Absent THEN unseated[h] \/ Overtaken(f)
           ELSE tx[f].headName = Nobody /\ f \notin Heads(h)]
    /\ tx' = [tx EXCEPT ![f] = Nobody]
    /\ UNCHANGED exposed

\* Two heads that wait for each other's row: the database ends one of them.
Abort(f) ==
    /\ tx[f] # Nobody /\ ~tx[f].hooked /\ tx[f].seen # Absent
    /\ \E g \in Open \ {f} :
           /\ ~tx[g].hooked /\ tx[g].seen # Absent /\ tx[g].row.link = tx[f].row.link
           /\ g \in Demoted(f) /\ f \in Demoted(g)
    /\ tx' = [tx EXCEPT ![f] = Nobody]
    /\ UNCHANGED <<row, home, exposed, unseated>>

\* The household row of the intake is ingested: the first head gives the name,
\* and where there is none it keeps the one of the form.
IngestHousehold(h, n) ==
    /\ home[h] = Absent /\ ~Unborn(h)
    /\ home' = [home EXCEPT ![h] =
           IF Heads(h) = {} THEN n
           ELSE row[CHOOSE f \in Heads(h) : \A g \in Heads(h) : f <= g].name]
    /\ UNCHANGED <<row, tx, exposed, unseated>>

\* A boot, alone on the table: one head, the first row of the household's name.
Ranked(h) == {f \in Live(h) : row[f].name = home[h]}
Restart ==
    /\ Open = {}
    /\ row' = [f \in Farmers |->
           IF row[f] = Nobody \/ row[f].link = Nobody THEN row[f]
           ELSE IF home[row[f].link] = Absent THEN row[f]
           ELSE [row[f] EXCEPT !.head = /\ f \in Ranked(row[f].link)
                                        /\ \A g \in Ranked(row[f].link) : f <= g]]
    /\ exposed' = [h \in Homes |-> exposed[h] /\ home[h] = Absent]
    /\ unseated' = [h \in Homes |-> FALSE]
    /\ UNCHANGED <<home, tx>>

Next ==
    \/ \E f \in Farmers, r \in Rows : Begin(f, r)
    \/ \E f \in Farmers, h \in Homes : CreateHousehold(f, h)
    \/ \E f \in Farmers : Hook(f) \/ Demote(f) \/ Commit(f) \/ Abort(f)
    \/ \E h \in Homes, n \in Names \cup {Nobody} : IngestHousehold(h, n)
    \/ Restart

Init ==
    /\ row = [f \in Farmers |-> Nobody]
    /\ home = [h \in Homes |-> Absent]
    /\ tx = [f \in Farmers |-> Nobody]
    /\ exposed = [h \in Homes |-> FALSE]
    /\ unseated = [h \in Homes |-> FALSE]

Spec == Init /\ [][Next]_vars

----------------------------------------------------------------------------
TypeOK ==
    /\ row \in [Farmers -> Rows \cup {Nobody}]
    /\ home \in [Homes -> Names \cup {Nobody, Absent}]
    /\ tx \in [Farmers -> Writes \cup {Nobody}]
    /\ exposed \in [Homes -> BOOLEAN] /\ unseated \in [Homes -> BOOLEAN]

\* However approvals and ingestions of a household overlap, and whoever waits
\* for whom, two farmers never both end up its head, unless two of them
\* arrived at once or a head came before the household.  A boot heals those.
OneHead ==
    \A h \in Homes : exposed[h] \/ Cardinality(Heads(h)) <= 1

\* The head's name is the one on the household: else the next boot, which
\* trusts the name, takes the flag away.  Two things only part them: the
\* approval of a namesake who is not the head clears the name, and a head finds
\* its name on the household, waits for a member's row and writes nothing though
\* that member's commit has changed the name.  A boot, or the next head that
\* writes its name, heals both.
HeadNamed ==
    \A h \in Homes : \A f \in Heads(h) :
        exposed[h] \/ unseated[h] \/ home[h] \in {row[f].name, Absent}

=============================================================================
