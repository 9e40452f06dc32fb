------------------------- MODULE FarmerPartsProofs --------------------------
(* Proofs about four parts of the farmer extension (FarmerRegistry), each   *)
(* for any constants and by itself: one head per household                  *)
(* (HouseholdHeads), stored pairs of flagged farmers (Dedup), the places of *)
(* records (GeoChain) and the links of the sample's rows (SampleData).      *)
EXTENDS HouseholdHeads, Integers, Sequences, FiniteSetTheorems, SequenceTheorems,
        FunctionTheorems, NaturalsInduction, WellFoundedInduction, TLAPS

CONSTANTS
    Criteria, Values, Requests,                                         \* Dedup
    Size, Depth,                                                     \* GeoChain
    People, HomeIn, Seed, Leaves                                   \* SampleData

VARIABLES
    key, flag, results, kind, step, todo, found, wrote, deleted,        \* Dedup
    parent, unit,                                                    \* GeoChain
    geo, chosen, complete, pack, spliced, links, queue, bucket, docs, portrait,
    source                                                         \* SampleData

Scan == INSTANCE Dedup WITH NULL <- Nobody

Places == INSTANCE GeoChain WITH name <- unit

Seeds == INSTANCE SampleData WITH Nowhere <- Nobody, rows <- links, photo <- portrait

-----------------------------------------------------------------------------
(* HouseholdHeads: one head per household, for any farmers and households,  *)
(* and any number of overlapping approvals and ingestions.  What commits    *)
(* say later is settled when a hook runs: the head's transaction has all    *)
(* other heads of the household in its hands, and no second one can get     *)
(* there.                                                                   *)

\* Farmers are numbered as their rows were created, Nobody is no row, no write
\* and no household, and Absent is no name.
NullsApart ==
    /\ Farmers \subseteq Nat
    /\ Nobody \notin Rows \cup Writes \cup Homes
    /\ Absent \notin Names

\* A transaction that has yet to commit a head of the household.
Seats(f, h) == tx[f] # Nobody /\ tx[f].hooked /\ tx[f].row.head /\ tx[f].row.link = h

TxType == tx \in [Farmers -> Writes \cup {Nobody}]
RowType == row \in [Farmers -> Rows \cup {Nobody}]
HomeType == home \in [Homes -> Names \cup {Nobody, Absent}]

\* What holds of a household that has not seen what its hooks do not handle.
AtMostOne(h) == \A f, g \in Heads(h) : f = g
Arriving(h) == \A f, g \in Farmers : Arrives(f, h) /\ Arrives(g, h) => f = g
Seating(h) == \A f, g \in Farmers : Seats(f, h) /\ Seats(g, h) => f = g
Demoting(h) == \A f \in Farmers : Seats(f, h) => Heads(h) \ {f} \subseteq tx[f].demoted
\* One who is not in the household yet has all of it in its hands.
Newcomer(h) ==
    \A f \in Farmers : Seats(f, h) /\ Arrives(f, h) => Live(h) \subseteq tx[f].demoted

Orderly(h) == AtMostOne(h) /\ Arriving(h) /\ Seating(h) /\ Demoting(h) /\ Newcomer(h)

\* A row that a transaction has written is no other one's.
LocksHeld ==
    \A f, g \in Farmers : tx[f] # Nobody /\ tx[g] # Nobody => f \notin tx[g].demoted

\* What it has written is there: rows are never removed.
DemotedExist ==
    \A f \in Farmers : tx[f] # Nobody => \A g \in tx[f].demoted : row[g] # Nobody

Inductive ==
    /\ RowType /\ TxType /\ HomeType /\ DemotedExist
    /\ exposed \in [Homes -> BOOLEAN]
    /\ LocksHeld
    /\ \A h \in Homes : exposed[h] \/ Orderly(h)

-----------------------------------------------------------------------------
LEMMA WritesAre ==
    ASSUME NEW w \in Writes
    PROVE  w.row \in Rows /\ w.hooked \in BOOLEAN /\ w.demoted \subseteq Farmers
  BY DEF Writes

LEMMA InitHolds == ASSUME NullsApart, Init PROVE Inductive
  <1>1. RowType /\ TxType /\ HomeType /\ DemotedExist /\ exposed \in [Homes -> BOOLEAN]
        /\ LocksHeld
    BY DEF Init, RowType, TxType, HomeType, DemotedExist, LocksHeld
  <1>2. ASSUME NEW h \in Homes PROVE Orderly(h)
    BY DEF Init, Orderly, AtMostOne, Arriving, Seating, Demoting, Newcomer, Heads, Live,
       Arrives, Seats
  <1> QED BY <1>1, <1>2 DEF Inductive

\* A transaction begins: it may arrive, and holds its own row only.
LEMMA BeginHolds ==
    ASSUME NullsApart, Inductive, NEW f \in Farmers, NEW r \in Rows, Begin(f, r)
    PROVE  Inductive'
  <1> DEFINE w == [row |-> r, hooked |-> FALSE, demoted |-> {}, seen |-> Absent,
                   headName |-> Absent]
  <1>0. w \in Writes /\ w # Nobody /\ w.row = r /\ ~w.hooked /\ w.demoted = {}
    <2>1. w \in Writes
      BY DEF Writes
    <2> QED BY <2>1 DEF NullsApart
  <1>1. tx' = [tx EXCEPT ![f] = w]
    BY DEF Begin
  <1> HIDE DEF w
  <1>2. TxType' /\ tx'[f] = w /\ \A g \in Farmers \ {f} : tx'[g] = tx[g]
    BY <1>0, <1>1 DEF Inductive, TxType
  <1>3. row' = row /\ home' = home /\ tx[f] = Nobody
    BY DEF Begin
  <1>4. LocksHeld'
    <2> SUFFICES ASSUME NEW g \in Farmers, NEW k \in Farmers,
                        tx'[g] # Nobody, tx'[k] # Nobody
                 PROVE  g \notin tx'[k].demoted
      BY DEF LocksHeld
    <2>1. CASE k = f
      BY <1>0, <1>2, <2>1
    <2>2. CASE k # f /\ g = f
      <3>1. f \notin LockedBy(k)
        BY <2>2 DEF Begin, LockedFor
      <3> QED BY <1>2, <2>2, <3>1 DEF LockedBy
    <2>3. CASE k # f /\ g # f
      BY <1>2, <2>3 DEF Inductive, LocksHeld
    <2> QED BY <2>1, <2>2, <2>3
  <1>5. \A h \in Homes : exposed'[h] = (exposed[h] \/ (/\ r.link = h /\ f \notin Live(h)
                              /\ \E g \in Farmers \ {f} : Arrives(g, h)))
    BY DEF Begin
  <1>6. exposed' \in [Homes -> BOOLEAN]
    BY DEF Begin, Inductive
  <1>7. ASSUME NEW h \in Homes, ~exposed'[h] PROVE Orderly(h)'
    <2>1. Orderly(h)
      BY <1>5, <1>7 DEF Inductive
    <2>2. Live(h)' = Live(h) /\ Heads(h)' = Heads(h)
      BY <1>3 DEF Live, Heads
    <2>3. \A g \in Farmers : Seats(g, h)' => g # f /\ Seats(g, h) /\ tx'[g] = tx[g]
      BY <1>0, <1>2 DEF Seats
    <2>4. \A g \in Farmers \ {f} : Arrives(g, h)' <=> Arrives(g, h)
      BY <1>2, <2>2 DEF Arrives
    <2>5. Arrives(f, h)' => r.link = h /\ f \notin Live(h)
      BY <1>0, <1>2, <2>2 DEF Arrives
    <2>6. Arriving(h)'
      BY <1>5, <1>7, <2>1, <2>4, <2>5 DEF Orderly, Arriving
    <2>7. AtMostOne(h)' /\ Seating(h)' /\ Demoting(h)'
      BY <2>1, <2>2, <2>3 DEF Orderly, AtMostOne, Seating, Demoting
    <2>8. Newcomer(h)'
      BY <2>1, <2>2, <2>3, <2>4 DEF Orderly, Newcomer
    <2> QED BY <2>6, <2>7, <2>8 DEF Orderly
  <1>8. DemotedExist'
    BY <1>0, <1>2, <1>3 DEF Inductive, DemotedExist
  <1> QED BY <1>2, <1>3, <1>4, <1>6, <1>7, <1>8 DEF Inductive, RowType, HomeType

\* A head without a household has an empty one to itself.
LEMMA CreateHolds ==
    ASSUME NullsApart, Inductive, NEW f \in Farmers, NEW u \in Homes, CreateHousehold(f, u)
    PROVE  Inductive'
  <1> DEFINE w == [row |-> [tx[f].row EXCEPT !.link = u], hooked |-> TRUE, demoted |-> {},
                   seen |-> Absent, headName |-> tx[f].row.name]
  <1>0. tx[f] \in Writes
    BY DEF CreateHousehold, Inductive, TxType
  <1>1. w \in Writes /\ w # Nobody /\ w.row.link = u /\ w.row.head
    <2>1. tx[f].row \in Rows /\ tx[f].row.head
      BY <1>0, WritesAre DEF CreateHousehold
    <2>2. w.row \in Rows /\ w.row.link = u /\ w.row.head /\ tx[f].row.name \in Names
      BY <2>1 DEF Rows
    <2>3. w \in Writes
      BY <2>2 DEF Writes
    <2> QED BY <2>2, <2>3 DEF NullsApart
  <1> HIDE DEF w
  <1>2. tx' = [tx EXCEPT ![f] = w] /\ row' = row /\ home' = home /\ exposed' = exposed
    BY DEF CreateHousehold, w
  <1>3. TxType' /\ tx'[f] = w /\ \A g \in Farmers \ {f} : tx'[g] = tx[g]
    BY <1>1, <1>2 DEF Inductive, TxType
  <1>4. tx[f] # Nobody /\ ~tx[f].hooked /\ tx[f].row.link = Nobody
        /\ Live(u) = {} /\ \A g \in Farmers : ~Arrives(g, u)
    BY DEF CreateHousehold
  <1>5. w.demoted = {}
    BY DEF w
  <1>6. LocksHeld'
    BY <1>3, <1>4, <1>5 DEF Inductive, LocksHeld
  <1>7. ASSUME NEW h \in Homes, ~exposed'[h] PROVE Orderly(h)'
    <2>1. Orderly(h)
      BY <1>2, <1>7 DEF Inductive
    <2>2. Live(h)' = Live(h) /\ Heads(h)' = Heads(h)
      BY <1>2 DEF Live, Heads
    <2>3. \A g \in Farmers \ {f} : /\ Arrives(g, h)' <=> Arrives(g, h)
                                   /\ Seats(g, h)' <=> Seats(g, h)
      BY <1>3, <2>2 DEF Arrives, Seats
    <2>4. CASE h # u
      <3>1. ~Arrives(f, h)' /\ ~Seats(f, h)'
        BY <1>1, <1>3, <2>4 DEF Arrives, Seats
      <3> QED BY <1>3, <2>1, <2>2, <2>3, <3>1
              DEF Orderly, AtMostOne, Arriving, Seating, Demoting, Newcomer
    <2>5. CASE h = u
      <3>1. Live(h)' = {} /\ Heads(h)' = {}
        BY <1>4, <2>2, <2>5 DEF Heads
      <3>2. \A g \in Farmers : Seats(g, h) => Arrives(g, h)
        BY <1>4, <2>5 DEF Seats, Arrives
      <3>3. \A g \in Farmers \ {f} : ~Arrives(g, h)' /\ ~Seats(g, h)'
        BY <1>4, <2>3, <2>5, <3>2
      <3> QED BY <3>1, <3>3 DEF Orderly, AtMostOne, Arriving, Seating, Demoting, Newcomer
    <2> QED BY <2>4, <2>5
  <1>8. DemotedExist'
    BY <1>2, <1>3, <1>5 DEF Inductive, DemotedExist
  <1> QED BY <1>2, <1>3, <1>6, <1>7, <1>8 DEF Inductive, RowType, HomeType

\* Reading the household settles nothing: a head that finds none exposes it.
LEMMA HookHolds ==
    ASSUME NullsApart, Inductive, NEW f \in Farmers, Hook(f)
    PROVE  Inductive'
  <1> DEFINE l == tx[f].row.link
             alone == l = Nobody \/ home[l] = Absent
  <1>1. tx[f] # Nobody /\ ~tx[f].hooked /\ row' = row /\ home' = home /\ tx[f] \in Writes
    BY DEF Hook, Inductive, TxType
  <1>2. PICK w : /\ w \in Writes /\ tx' = [tx EXCEPT ![f] = w]
                 /\ w.row = tx[f].row /\ w.demoted = tx[f].demoted
                 /\ w.hooked => alone \/ ~tx[f].row.head
    <2>1. CASE alone
      <3> DEFINE w == [tx[f] EXCEPT !.hooked = TRUE]
      <3>1. tx' = [tx EXCEPT ![f] = w]
        BY <2>1 DEF Hook
      <3>2. w \in Writes /\ w.row = tx[f].row /\ w.demoted = tx[f].demoted
        BY <1>1 DEF Writes
      <3> QED BY <2>1, <3>1, <3>2
    <2>2. CASE ~alone /\ tx[f].row.head
      <3> DEFINE w == [tx[f] EXCEPT !.seen = home[l]]
      <3>1. tx' = [tx EXCEPT ![f] = w]
        BY <2>2 DEF Hook
      <3>2. home[l] \in Names \cup {Nobody, Absent}
        BY <1>1, <2>2, WritesAre DEF Inductive, HomeType, Rows
      <3>3. w \in Writes /\ w.row = tx[f].row /\ w.demoted = tx[f].demoted /\ ~w.hooked
        BY <1>1, <3>2 DEF Writes
      <3> QED BY <3>1, <3>3
    <2>3. CASE ~alone /\ ~tx[f].row.head
      <3> DEFINE n == NewHeadName(f)
                 w == [tx[f] EXCEPT !.hooked = TRUE, !.headName = n]
      <3>1. tx' = [tx EXCEPT ![f] = w]
        BY <2>3 DEF Hook
      <3>2. n \in {Nobody, Absent}
        BY <2>3 DEF NewHeadName
      <3> HIDE DEF n
      <3>3. w \in Writes /\ w.row = tx[f].row /\ w.demoted = tx[f].demoted
        BY <1>1, <3>2 DEF Writes
      <3> QED BY <2>3, <3>1, <3>3
    <2> QED BY <2>1, <2>2, <2>3
  <1>3. /\ TxType' /\ tx'[f] # Nobody /\ tx'[f] = w
        /\ \A g \in Farmers \ {f} : tx'[g] = tx[g]
    BY <1>2 DEF Inductive, TxType, NullsApart
  <1>4. LocksHeld' /\ DemotedExist'
    BY <1>1, <1>2, <1>3 DEF Inductive, LocksHeld, DemotedExist
  <1>5. /\ exposed' \in [Homes -> BOOLEAN]
        /\ \A h \in Homes : ~exposed'[h] =>
               ~exposed[h] /\ (alone => ~(h = l /\ tx[f].row.head))
    BY DEF Hook, Inductive
  <1>6. ASSUME NEW h \in Homes, ~exposed'[h] PROVE Orderly(h)'
    <2>1. Orderly(h)
      BY <1>5, <1>6 DEF Inductive
    <2>2. Live(h)' = Live(h) /\ Heads(h)' = Heads(h)
      BY <1>1 DEF Live, Heads
    <2>3. \A g \in Farmers : Arrives(g, h)' <=> Arrives(g, h)
      BY <1>1, <1>2, <1>3, <2>2 DEF Arrives
    <2>4. \A g \in Farmers \ {f} : Seats(g, h)' <=> Seats(g, h)
      BY <1>3 DEF Seats
    <2>5. ~Seats(f, h)'
      BY <1>2, <1>3, <1>5, <1>6 DEF Seats
    <2> QED BY <1>3, <2>1, <2>2, <2>3, <2>4, <2>5
            DEF Orderly, AtMostOne, Arriving, Seating, Demoting, Newcomer
  <1> QED BY <1>1, <1>3, <1>4, <1>5, <1>6 DEF Inductive, RowType, HomeType

\* The hook of a head takes all others of the household in its hands, which it
\* cannot while one of them is in another's.
LEMMA DemoteHolds ==
    ASSUME NullsApart, Inductive, NEW f \in Farmers, Demote(f)
    PROVE  Inductive'
  <1> DEFINE l == tx[f].row.link
  <1>1. /\ tx[f] # Nobody /\ ~tx[f].hooked /\ tx[f] \in Writes
        /\ row' = row /\ home' = home /\ exposed' = exposed
    BY DEF Demote, Inductive, TxType
  <1>2. Demoted(f) \subseteq Farmers
    BY DEF Demoted, Live
  <1>3. /\ TxType' /\ tx'[f] # Nobody
        /\ tx'[f].row = tx[f].row /\ tx'[f].hooked /\ tx'[f].demoted = Demoted(f)
        /\ \A g \in Farmers \ {f} : tx'[g] = tx[g]
    <2> DEFINE n == NewHeadName(f)
               d == Demoted(f)
               w == [tx[f] EXCEPT !.hooked = TRUE, !.demoted = d, !.headName = n]
    <2>1. tx' = [tx EXCEPT ![f] = w]
      BY DEF Demote
    <2>2. n \in Names \cup {Nobody, Absent}
      BY <1>1, WritesAre DEF NewHeadName, Rows
    <2> HIDE DEF n, d
    <2>3. w \in Writes
      BY <1>1, <1>2, <2>2 DEF Writes, d
    <2>4. w.row = tx[f].row /\ w.hooked /\ w.demoted = d
      BY <1>1 DEF Writes
    <2> QED BY <2>1, <2>3, <2>4 DEF Inductive, TxType, NullsApart, d
  <1>4. Demoted(f) \cap LockedFor(f) = {}
    BY DEF Demote
  <1>5. LocksHeld'
    <2> SUFFICES ASSUME NEW g \in Farmers, NEW k \in Farmers,
                        tx'[g] # Nobody, tx'[k] # Nobody, g \in tx'[k].demoted
                 PROVE  FALSE
      BY DEF LocksHeld
    <2>1. tx[g] # Nobody /\ tx[k] # Nobody
      BY <1>1, <1>3
    <2>2. g \notin tx[k].demoted
      BY <2>1 DEF Inductive, LocksHeld
    <2>3. k = f /\ g \in Demoted(f)
      BY <1>3, <2>2
    <2>4. g # f /\ g \in LockedFor(f)
      BY <2>1, <2>3 DEF Demoted, LockedFor, LockedBy
    <2> QED BY <1>4, <2>3, <2>4
  <1>6. ASSUME NEW h \in Homes, ~exposed'[h] PROVE Orderly(h)'
    <2>1. Orderly(h)
      BY <1>1, <1>6 DEF Inductive
    <2>2. Live(h)' = Live(h) /\ Heads(h)' = Heads(h)
      BY <1>1 DEF Live, Heads
    <2>3. \A g \in Farmers : Arrives(g, h)' <=> Arrives(g, h)
      BY <1>1, <1>3, <2>2 DEF Arrives
    <2>4. \A g \in Farmers \ {f} : Seats(g, h)' <=> Seats(g, h)
      BY <1>3 DEF Seats
    <2>5. CASE ~Seats(f, h)'
      BY <1>3, <2>1, <2>2, <2>3, <2>4, <2>5
      DEF Orderly, AtMostOne, Arriving, Seating, Demoting, Newcomer
    <2>6. CASE Seats(f, h)'
      <3>1. h = l /\ tx'[f].demoted = Live(h) \ {f} /\ Heads(h) \subseteq Live(h)
        BY <1>3, <2>6 DEF Seats, Demoted, Heads
      <3>2. ASSUME NEW g \in Farmers \ {f}, Seats(g, h) PROVE FALSE
        <4>1. tx[g] # Nobody /\ g \in LockedFor(f) /\ tx[g].row.link = h
          BY <3>2 DEF Seats, LockedFor, LockedBy
        <4>2. g \notin Live(h)
          BY <1>4, <3>1, <4>1 DEF Demoted
        <4>3. Arrives(g, h)
          BY <4>1, <4>2 DEF Arrives
        <4>4. f \in Live(h)
          BY <1>1, <2>1, <3>1, <4>3 DEF Arrives, Orderly, Arriving
        <4>5. f \in tx[g].demoted
          BY <2>1, <3>2, <4>3, <4>4 DEF Orderly, Newcomer
        <4> QED BY <1>1, <4>1, <4>5 DEF Inductive, LocksHeld
      <3>3. Seating(h)'
        BY <2>4, <3>2 DEF Seating
      <3>4. Demoting(h)'
        BY <2>2, <2>4, <3>1, <3>2 DEF Demoting
      <3>5. Newcomer(h)'
        BY <2>2, <2>3, <2>4, <3>1, <3>2 DEF Newcomer, Arrives
      <3> QED BY <2>1, <2>2, <2>3, <3>3, <3>4, <3>5 DEF Orderly, AtMostOne, Arriving
    <2> QED BY <2>5, <2>6
  <1>7. DemotedExist'
    <2>1. \A g \in Demoted(f) : row[g] # Nobody
      BY DEF Demoted, Live
    <2> QED BY <1>1, <1>3, <2>1 DEF Inductive, DemotedExist
  <1> QED BY <1>1, <1>3, <1>5, <1>6, <1>7 DEF Inductive, RowType, HomeType

\* A commit moves one farmer, and takes the flag of those in its hands.
LEMMA CommitHolds ==
    ASSUME NullsApart, Inductive, NEW f \in Farmers, Commit(f)
    PROVE  Inductive'
  <1> DEFINE r == tx[f].row
  <1>1. tx[f] # Nobody /\ tx[f].hooked /\ tx[f] \in Writes /\ exposed' = exposed
    BY DEF Commit, Inductive, TxType
  <1>2. tx'[f] = Nobody /\ TxType' /\ \A g \in Farmers \ {f} : tx'[g] = tx[g]
    BY DEF Commit, Inductive, TxType
  <1>3. r \in Rows /\ r # Nobody
    BY <1>1, WritesAre DEF NullsApart
  <1>4. row' = [g \in Farmers |-> IF g = f THEN r
                    ELSE IF g \in tx[f].demoted THEN [row[g] EXCEPT !.head = FALSE]
                    ELSE row[g]]
    BY DEF Commit
  <1>5. /\ row'[f] = r
        /\ \A g \in Farmers \ {f} :
               row'[g] = IF g \in tx[f].demoted THEN [row[g] EXCEPT !.head = FALSE]
                         ELSE row[g]
    BY <1>4
  <1> HIDE DEF r
  <1>6. ASSUME NEW g \in Farmers \ {f}
        PROVE  /\ row'[g] \in Rows \cup {Nobody}
               /\ row'[g] = Nobody <=> row[g] = Nobody
               /\ row[g] # Nobody => /\ row'[g].link = row[g].link
                                     /\ row'[g].head <=> row[g].head /\ g \notin tx[f].demoted
    <2>1. CASE g \notin tx[f].demoted
      BY <1>5, <2>1 DEF Inductive, RowType
    <2>2. CASE g \in tx[f].demoted
      <3>1. row[g] \in Rows
        BY <1>1, <2>2 DEF Inductive, RowType, DemotedExist
      <3>2. row'[g] = [row[g] EXCEPT !.head = FALSE]
        BY <1>5, <2>2
      <3>3. /\ row'[g] \in Rows /\ row'[g].link = row[g].link /\ ~row'[g].head
        BY <3>1, <3>2 DEF Rows
      <3>4. row[g] # Nobody /\ row'[g] # Nobody
        BY <3>1, <3>3 DEF NullsApart
      <3> QED BY <2>2, <3>3, <3>4
    <2> QED BY <2>1, <2>2
  <1>7. RowType'
    <2>1. \A g \in Farmers : row'[g] \in Rows \cup {Nobody}
      BY <1>3, <1>5, <1>6
    <2>2. DOMAIN row' = Farmers /\ row' = [g \in Farmers |-> row'[g]]
      BY <1>4
    <2> QED BY <2>1, <2>2 DEF RowType
  <1>8. DemotedExist' /\ LocksHeld'
    BY <1>1, <1>2, <1>3, <1>5, <1>6 DEF Inductive, DemotedExist, LocksHeld, TxType, Writes
  <1>9. ASSUME NEW h \in Homes, ~exposed'[h] PROVE Orderly(h)'
    <2>1. Orderly(h)
      BY <1>1, <1>9 DEF Inductive
    <2>2. \A g \in Farmers \ {f} : /\ g \in Live(h)' <=> g \in Live(h)
                                   /\ g \in Heads(h)' <=> g \in Heads(h) \ tx[f].demoted
      BY <1>6 DEF Live, Heads
    <2>3. f \in Live(h)' <=> r.link = h
      BY <1>3, <1>5 DEF Live
    <2>4. f \in Heads(h)' <=> r.link = h /\ r.head
      BY <1>5, <2>3 DEF Heads
    <2>5. \A g \in Farmers \ {f} : /\ Arrives(g, h)' <=> Arrives(g, h)
                                   /\ Seats(g, h)' <=> Seats(g, h)
      BY <1>2, <2>2 DEF Arrives, Seats
    <2>6. ~Arrives(f, h)' /\ ~Seats(f, h)'
      BY <1>2 DEF Arrives, Seats
    <2>7. r.link = h /\ r.head => Seats(f, h)
      BY <1>1 DEF Seats, r
    <2>8. Heads(h)' \subseteq Farmers /\ Heads(h) \subseteq Live(h) /\ Live(h)' \subseteq Farmers
      BY DEF Heads, Live
    <2>9. AtMostOne(h)'
      <3>1. CASE r.link = h /\ r.head
        <4>1. Heads(h) \ {f} \subseteq tx[f].demoted
          BY <2>1, <2>7, <3>1 DEF Orderly, Demoting
        <4> QED BY <2>2, <2>8, <4>1 DEF AtMostOne
      <3>2. CASE ~(r.link = h /\ r.head)
        BY <2>1, <2>2, <2>4, <2>8, <3>2 DEF Orderly, AtMostOne
      <3> QED BY <3>1, <3>2
    <2>10. Arriving(h)' /\ Seating(h)'
      BY <2>1, <2>5, <2>6 DEF Orderly, Arriving, Seating
    <2>11. Demoting(h)'
      <3> SUFFICES ASSUME NEW g \in Farmers \ {f}, Seats(g, h), NEW k \in Heads(h)' \ {g}
                   PROVE  k \in tx'[g].demoted
        BY <2>5, <2>6 DEF Demoting
      <3>1. k # f
        BY <2>1, <2>4, <2>7 DEF Orderly, Seating
      <3>2. k \in Heads(h)
        BY <2>2, <2>8, <3>1
      <3> QED BY <1>2, <2>1, <3>2 DEF Orderly, Demoting
    <2>12. Newcomer(h)'
      <3> SUFFICES ASSUME NEW g \in Farmers \ {f}, Seats(g, h), Arrives(g, h),
                          NEW k \in Live(h)'
                   PROVE  k \in tx'[g].demoted
        BY <2>5, <2>6 DEF Newcomer
      <3>1. ~Arrives(f, h)
        BY <2>1 DEF Orderly, Arriving
      <3>2. k \in Live(h)
        BY <1>1, <2>2, <2>3, <2>8, <3>1 DEF Arrives, r
      <3> QED BY <1>2, <2>1, <3>2 DEF Orderly, Newcomer
    <2> QED BY <2>9, <2>10, <2>11, <2>12 DEF Orderly
  <1>10. HomeType'
    <2>1. tx[f].headName \in Names \cup {Nobody, Absent}
      BY <1>1 DEF Writes
    <2> QED BY <2>1 DEF Commit, Inductive, HomeType
  <1> QED BY <1>1, <1>2, <1>7, <1>8, <1>9, <1>10 DEF Inductive

\* The transaction that a deadlock ends had written nothing yet.
LEMMA AbortHolds ==
    ASSUME NullsApart, Inductive, NEW f \in Farmers, Abort(f)
    PROVE  Inductive'
  <1>1. /\ tx'[f] = Nobody /\ TxType' /\ \A g \in Farmers \ {f} : tx'[g] = tx[g]
        /\ row' = row /\ home' = home /\ exposed' = exposed
    BY DEF Abort, Inductive, TxType
  <1>2. RowType' /\ HomeType' /\ DemotedExist' /\ LocksHeld'
    BY <1>1 DEF Inductive, RowType, HomeType, DemotedExist, LocksHeld
  <1>3. ASSUME NEW h \in Homes, Orderly(h) PROVE Orderly(h)'
    <2>1. Live(h)' = Live(h) /\ Heads(h)' = Heads(h)
      BY <1>1 DEF Live, Heads
    <2>2. \A g \in Farmers : /\ Arrives(g, h)' => Arrives(g, h) /\ g # f
                             /\ Seats(g, h)' => Seats(g, h) /\ g # f
      BY <1>1, <2>1 DEF Arrives, Seats
    <2> QED BY <1>1, <1>3, <2>1, <2>2
            DEF Orderly, AtMostOne, Arriving, Seating, Demoting, Newcomer
  <1> QED BY <1>1, <1>2, <1>3 DEF Inductive

\* A boot is alone and leaves each household whose row is there one head.
LEMMA RestartHolds == ASSUME NullsApart, Inductive, Restart PROVE Inductive'
  <1>1. tx' = tx /\ \A f \in Farmers : tx[f] = Nobody
    BY DEF Restart, Open
  <1>2. row' = [f \in Farmers |->
           IF row[f] = Nobody \/ row[f].link = Nobody THEN row[f]
           ELSE IF home[row[f].link] = Absent THEN row[f]
           ELSE [row[f] EXCEPT !.head = /\ f \in Ranked(row[f].link)
                                        /\ \A g \in Ranked(row[f].link) : f <= g]]
    BY DEF Restart
  <1>3. ASSUME NEW f \in Farmers
        PROVE  /\ row'[f] \in Rows \cup {Nobody}
               /\ row'[f] = Nobody <=> row[f] = Nobody
               /\ row[f] # Nobody => row'[f].link = row[f].link
    <2> DEFINE b == /\ f \in Ranked(row[f].link)
                    /\ \A g \in Ranked(row[f].link) : f <= g
    <2>1. b \in BOOLEAN
      OBVIOUS
    <2>2. \/ row'[f] = row[f]
          \/ row[f] # Nobody /\ row'[f] = [row[f] EXCEPT !.head = b]
      BY <1>2
    <2> HIDE DEF b
    <2> QED BY <2>1, <2>2 DEF Inductive, RowType, Rows, NullsApart
  <1>4. RowType'
    <2>1. row' = [f \in Farmers |-> row'[f]]
      BY <1>2
    <2> QED BY <1>3, <2>1 DEF RowType
  <1>5. ASSUME NEW h \in Homes, ~exposed'[h] PROVE Orderly(h)'
    <2>1. AtMostOne(h)'
      <3> SUFFICES ASSUME NEW f \in Heads(h)', NEW g \in Heads(h)' PROVE f = g
        BY DEF AtMostOne
      <3>1. /\ f \in Farmers /\ row'[f] # Nobody /\ row'[f].link = h /\ row'[f].head
            /\ g \in Farmers /\ row'[g] # Nobody /\ row'[g].link = h /\ row'[g].head
        BY DEF Heads, Live
      <3>2. row[f] # Nobody /\ row[f].link = h /\ row[g] # Nobody /\ row[g].link = h
        BY <1>3, <3>1
      <3>3. CASE home[h] = Absent
        <4>1. ~exposed[h]
          BY <1>5, <3>3 DEF Restart
        <4>2. row'[f] = row[f] /\ row'[g] = row[g]
          BY <1>2, <3>1, <3>2, <3>3
        <4>3. f \in Heads(h) /\ g \in Heads(h)
          BY <3>1, <3>2, <4>2 DEF Heads, Live
        <4> QED BY <4>1, <4>3 DEF Inductive, Orderly, AtMostOne
      <3>4. CASE home[h] # Absent
        <4>1. ASSUME NEW k \in Farmers, row[k] # Nobody, row[k].link = h, row'[k].head
              PROVE  k \in Ranked(h) /\ \A m \in Ranked(h) : k <= m
          <5> DEFINE b == k \in Ranked(h) /\ \A m \in Ranked(h) : k <= m
          <5>1. row'[k] = [row[k] EXCEPT !.head = b]
            BY <1>2, <3>4, <4>1 DEF NullsApart
          <5>2. row[k] \in Rows
            BY <4>1 DEF Inductive, RowType
          <5> HIDE DEF b
          <5>3. row'[k].head = b
            BY <5>1, <5>2 DEF Rows
          <5> QED BY <4>1, <5>3 DEF b
        <4>2. f <= g /\ g <= f
          BY <3>1, <3>2, <4>1
        <4>3. f \in Nat /\ g \in Nat
          BY <3>1 DEF NullsApart
        <4> QED BY <4>2, <4>3
      <3> QED BY <3>3, <3>4
    <2>2. \A f \in Farmers : ~Arrives(f, h)' /\ ~Seats(f, h)'
      BY <1>1 DEF Arrives, Seats
    <2> QED BY <2>1, <2>2 DEF Orderly, Arriving, Seating, Demoting, Newcomer
  <1>6. exposed' \in [Homes -> BOOLEAN] /\ DemotedExist' /\ LocksHeld' /\ TxType' /\ HomeType'
    BY <1>1 DEF Restart, Inductive, DemotedExist, LocksHeld, TxType, HomeType
  <1> QED BY <1>4, <1>5, <1>6 DEF Inductive

\* Steps that leave the farmers' rows alone.
LEMMA SameRows ==
    ASSUME Inductive, UNCHANGED <<row, tx, exposed>>, HomeType'
    PROVE  Inductive'
  BY DEF Inductive, RowType, TxType, DemotedExist, LocksHeld, Orderly, AtMostOne,
     Arriving,
     Seating, Demoting, Newcomer, Heads, Live, Arrives, Seats

\* Of several heads one was created first: a set of numbers has a least one.
LEMMA LeastExists ==
    ASSUME NEW S, S \subseteq Nat, S # {}
    PROVE  \E x \in S : \A y \in S : x <= y
  <1>1. IsWellFoundedOn(OpToRel(<, Nat), Nat)
    BY NatLessThanWellFounded, Zenon
  <1>2. PICK x \in S : \A y \in S : ~(<<y, x>> \in OpToRel(<, Nat))
    BY <1>1, WFMin, Zenon
  <1>3. \A y \in S : x <= y
    <2> SUFFICES ASSUME NEW y \in S PROVE x <= y
      OBVIOUS
    <2>1. x \in Nat /\ y \in Nat
      OBVIOUS
    <2>2. ~(<<y, x>> \in OpToRel(<, Nat))
      BY <1>2, Zenon
    <2>3. ~(y < x)
      BY <2>1, <2>2, Zenon DEF OpToRel
    <2> QED BY <2>1, <2>3
  <1> QED BY <1>3

\* The household row of the intake takes a member's name, or the form's.
LEMMA IngestHolds ==
    ASSUME NullsApart, Inductive, NEW h \in Homes, NEW f \in Names \cup {Nobody},
           IngestHousehold(h, f)
    PROVE  Inductive'
  <1> DEFINE n == IF Heads(h) = {} THEN f
                  ELSE row[CHOOSE g \in Heads(h) : \A k \in Heads(h) : g <= k].name
  <1>1. home' = [home EXCEPT ![h] = n] /\ UNCHANGED <<row, tx, exposed>>
    BY DEF IngestHousehold
  <1>2. n \in Names \cup {Nobody, Absent}
    <2>1. CASE Heads(h) = {}
      BY <2>1
    <2>2. CASE Heads(h) # {}
      <3>1. Heads(h) \subseteq Nat
        BY DEF Heads, Live, NullsApart
      <3>2. \E g \in Heads(h) : \A k \in Heads(h) : g <= k
        BY <2>2, <3>1, LeastExists
      <3>3. (CHOOSE g \in Heads(h) : \A k \in Heads(h) : g <= k) \in Heads(h)
        BY <3>2
      <3>4. \A g \in Heads(h) : row[g] \in Rows
        BY DEF Heads, Live, Inductive, RowType
      <3>5. \A r \in Rows : r.name \in Names
        BY DEF Rows
      <3> QED BY <2>2, <3>3, <3>4, <3>5
    <2> QED BY <2>1, <2>2
  <1> HIDE DEF n
  <1>3. HomeType'
    BY <1>1, <1>2 DEF Inductive, HomeType
  <1> QED BY <1>1, <1>3, SameRows

-----------------------------------------------------------------------------
\* In every reachable state a household that saw no two arrivals at once, and
\* no head before its own row, is orderly: one head at most, committed or on
\* the way, with all others of the household in its hands.
LEMMA StepHolds == ASSUME NullsApart, Inductive, [Next]_vars PROVE Inductive'
  <1>1. ASSUME NEW f \in Farmers, NEW r \in Rows, Begin(f, r) PROVE Inductive'
    BY <1>1, BeginHolds
  <1>2. ASSUME NEW f \in Farmers, NEW h \in Homes, CreateHousehold(f, h) PROVE Inductive'
    BY <1>2, CreateHolds
  <1>3. ASSUME NEW f \in Farmers, Hook(f) \/ Demote(f) \/ Commit(f) \/ Abort(f)
        PROVE  Inductive'
    BY <1>3, HookHolds, DemoteHolds, CommitHolds, AbortHolds
  <1>4. ASSUME NEW h \in Homes, NEW n \in Names \cup {Nobody}, IngestHousehold(h, n)
        PROVE  Inductive'
    BY <1>4, IngestHolds
  <1>5. CASE Restart
    BY <1>5, RestartHolds
  <1>6. CASE UNCHANGED vars
    BY <1>6, SameRows DEF vars, Inductive, HomeType
  <1> QED BY <1>1, <1>2, <1>3, <1>4, <1>5, <1>6 DEF Next

THEOREM HeadsInvariant == ASSUME NullsApart PROVE Spec => []Inductive
  <1>1. Init => Inductive
    BY InitHolds
  <1>2. Inductive /\ [Next]_vars => Inductive'
    BY StepHolds
  <1> QED BY <1>1, <1>2, PTL DEF Spec

LEMMA OneHeadHolds == ASSUME Inductive PROVE OneHead
  <1> SUFFICES ASSUME NEW h \in Homes, ~exposed[h]
               PROVE  Cardinality(Heads(h)) <= 1
    BY DEF OneHead
  <1>1. CASE Heads(h) = {}
    BY <1>1, FS_EmptySet
  <1>2. CASE Heads(h) # {}
    <2>1. PICK f \in Heads(h) : TRUE
      BY <1>2
    <2>2. Heads(h) = {f}
      BY <2>1 DEF Inductive, Orderly, AtMostOne
    <2>3. Cardinality({f}) = 1
      BY FS_Singleton
    <2> QED BY <2>2, <2>3
  <1> QED BY <1>1, <1>2

\* However approvals and ingestions of a household overlap, two farmers never
\* both end up its head, for any number of farmers and households.
THEOREM HouseholdsHaveOneHead == ASSUME NullsApart PROVE Spec => []OneHead
  BY HeadsInvariant, OneHeadHolds, PTL

-----------------------------------------------------------------------------
(* The name on the household.  A transaction that has run its hook carries  *)
(* the name it will leave: its own when it seats the head, unless that was  *)
(* the one it read, and none when it clears a namesake's.                   *)
Carries(f) ==
    tx[f] # Nobody =>
        IF ~tx[f].hooked THEN tx[f].headName = Absent
        ELSE IF tx[f].row.head
        THEN \A h \in Homes : tx[f].row.link = h =>
                 \/ exposed[h]
                 \/ tx[f].headName = tx[f].row.name
                 \/ tx[f].headName = Absent /\ tx[f].seen = tx[f].row.name
        ELSE tx[f].headName \in {Nobody, Absent}

Naming ==
    /\ unseated \in [Homes -> BOOLEAN]
    /\ HeadNamed
    /\ \A f \in Farmers : Carries(f)

\* Where the rows and the household stay, the name does.
LEMMA NameStays ==
    ASSUME HeadNamed, UNCHANGED <<row, home, unseated>>, NEW h \in Homes,
           exposed[h] => exposed'[h], NEW f \in Heads(h)'
    PROVE  exposed'[h] \/ unseated'[h] \/ home'[h] \in {row'[f].name, Absent}
  BY DEF HeadNamed, Heads, Live

LEMMA OpeningNames ==
    ASSUME NullsApart, Inductive, Naming,
           \/ \E f \in Farmers, r \in Rows : Begin(f, r)
           \/ \E f \in Farmers, h \in Homes : CreateHousehold(f, h)
           \/ \E f \in Farmers : Abort(f)
    PROVE  Naming'
  <1>1. UNCHANGED <<row, home, unseated>> /\ \A h \in Homes : exposed[h] => exposed'[h]
    BY DEF Begin, CreateHousehold, Abort, Inductive
  <1>2. HeadNamed'
    BY <1>1, NameStays DEF HeadNamed, Naming
  <1>3. PICK f \in Farmers : \/ \E r \in Rows : Begin(f, r)
                             \/ \E h \in Homes : CreateHousehold(f, h)
                             \/ Abort(f)
    OBVIOUS
  <1>4. \A g \in Farmers \ {f} : tx'[g] = tx[g]
    BY <1>3 DEF Begin, CreateHousehold, Abort, Inductive, TxType
  <1>5. \A g \in Farmers \ {f} : Carries(g)'
    BY <1>1, <1>4 DEF Carries, Naming
  <1>6. Carries(f)'
    <2>1. CASE \E r \in Rows : Begin(f, r)
      BY <2>1 DEF Carries, Begin, Inductive, TxType
    <2>2. CASE \E h \in Homes : CreateHousehold(f, h)
      <3>1. PICK u \in Homes : CreateHousehold(f, u)
        BY <2>2
      <3>2. PICK r : r = [tx[f].row EXCEPT !.link = u]
        OBVIOUS
      <3>3. tx[f] # Nobody /\ tx[f].row.head
            /\ tx' = [tx EXCEPT ![f] = [row |-> r, hooked |-> TRUE, demoted |-> {},
                                        seen |-> Absent, headName |-> tx[f].row.name]]
        BY <3>1, <3>2 DEF CreateHousehold
      <3>4. tx[f] \in Writes
        BY <3>3 DEF Inductive, TxType
      <3>5. tx[f].row \in Rows
        BY <3>4, WritesAre
      <3>6. r.head = tx[f].row.head /\ r.name = tx[f].row.name
        BY <3>2, <3>5 DEF Rows
      <3>7. tx'[f] = [row |-> r, hooked |-> TRUE, demoted |-> {},
                      seen |-> Absent, headName |-> tx[f].row.name]
        BY <3>3 DEF Inductive, TxType
      <3>8. tx'[f].row = r /\ tx'[f].headName = r.name /\ tx'[f].hooked
        BY <3>6, <3>7
      <3> QED BY <3>3, <3>6, <3>8 DEF Carries
    <2>3. CASE Abort(f)
      BY <2>3 DEF Carries, Abort, Inductive, TxType
    <2> QED BY <1>3, <2>1, <2>2, <2>3
  <1> QED BY <1>1, <1>2, <1>5, <1>6 DEF Naming

\* A head whose household row is not there yet exposes it; another has read the
\* name when it takes the flags, and leaves it alone only where it is its own.
LEMMA HookNames ==
    ASSUME NullsApart, Inductive, Naming, NEW f \in Farmers, Hook(f) \/ Demote(f)
    PROVE  Naming'
  <1>1. UNCHANGED <<row, home, unseated>> /\ tx[f] # Nobody /\ tx[f] \in Writes
    BY DEF Hook, Demote, Inductive, TxType
  <1>2. \A h \in Homes : exposed[h] => exposed'[h]
    BY DEF Hook, Demote, Inductive
  <1>3. HeadNamed'
    BY <1>1, <1>2, NameStays DEF HeadNamed, Naming
  <1>4. \A g \in Farmers \ {f} : tx'[g] = tx[g]
    BY DEF Hook, Demote, Inductive, TxType
  <1>5. \A g \in Farmers \ {f} : Carries(g)'
    BY <1>2, <1>4 DEF Carries, Naming
  <1>6. ~tx[f].hooked /\ tx[f].headName = Absent
    BY <1>1 DEF Naming, Carries, Hook, Demote
  <1>7. Carries(f)'
    <2>1. CASE Hook(f) /\ (tx[f].row.link = Nobody \/ home[tx[f].row.link] = Absent)
      <3>1. PICK w : w = [tx[f] EXCEPT !.hooked = TRUE]
        OBVIOUS
      <3>2. w.row = tx[f].row /\ w.headName = tx[f].headName /\ w.hooked
        BY <1>1, <3>1 DEF Writes
      <3>3. tx'[f] = w
        BY <2>1, <3>1 DEF Hook, Inductive, TxType
      <3>4. tx[f].row.link = Nobody => ~tx[f].row.head
        BY <2>1 DEF Hook
      <3>5. \A h \in Homes : h = tx[f].row.link /\ tx[f].row.head => exposed'[h]
        BY <2>1 DEF Hook
      <3> QED BY <1>6, <3>2, <3>3, <3>4, <3>5 DEF Carries
    <2>2. CASE /\ Hook(f) /\ tx[f].row.head
               /\ ~(tx[f].row.link = Nobody \/ home[tx[f].row.link] = Absent)
      <3>1. PICK w : w = [tx[f] EXCEPT !.seen = home[tx[f].row.link]]
        OBVIOUS
      <3>2. w.headName = tx[f].headName /\ w.hooked = tx[f].hooked
        BY <1>1, <3>1 DEF Writes
      <3>3. tx'[f] = w
        BY <2>2, <3>1 DEF Hook, Inductive, TxType
      <3> QED BY <1>6, <3>2, <3>3 DEF Carries
    <2>3. CASE /\ Hook(f) /\ ~tx[f].row.head
               /\ ~(tx[f].row.link = Nobody \/ home[tx[f].row.link] = Absent)
      <3>1. PICK n : n = NewHeadName(f)
        OBVIOUS
      <3>2. PICK w : w = [tx[f] EXCEPT !.hooked = TRUE, !.headName = n]
        OBVIOUS
      <3>3. w.row = tx[f].row /\ w.headName = n /\ w.hooked
        BY <1>1, <3>2 DEF Writes
      <3>4. tx'[f] = w
        BY <2>3, <3>1, <3>2 DEF Hook, Inductive, TxType
      <3>5. n \in {Nobody, Absent}
        BY <2>3, <3>1 DEF NewHeadName
      <3> QED BY <2>3, <3>3, <3>4, <3>5 DEF Carries
    <2>4. CASE Demote(f)
      <3>1. PICK n : n = NewHeadName(f)
        OBVIOUS
      <3>2. PICK w : w = [tx[f] EXCEPT !.hooked = TRUE, !.demoted = Demoted(f), !.headName = n]
        OBVIOUS
      <3>3. w.row = tx[f].row /\ w.headName = n /\ w.seen = tx[f].seen /\ w.hooked
        BY <1>1, <3>2 DEF Writes
      <3>4. tx'[f] = w
        BY <2>4, <3>1, <3>2 DEF Demote, Inductive, TxType
      <3>5. IF tx[f].row.head
            THEN n = tx[f].row.name \/ (n = Absent /\ tx[f].seen = tx[f].row.name)
            ELSE n \in {Nobody, Absent}
        BY <3>1 DEF NewHeadName
      <3> QED BY <3>3, <3>4, <3>5 DEF Carries
    <2> QED BY <2>1, <2>2, <2>3, <2>4
  <1> QED BY <1>1, <1>3, <1>5, <1>7 DEF Naming

LEMMA CommitNames ==
    ASSUME NullsApart, Inductive, Naming, NEW f \in Farmers, Commit(f)
    PROVE  Naming'
  <1>1. tx[f] # Nobody /\ tx[f].hooked /\ tx[f] \in Writes /\ exposed' = exposed
    BY DEF Commit, Inductive, TxType
  <1>2. PICK r : r = tx[f].row
    OBVIOUS
  <1>3. r \in Rows /\ r # Nobody
    BY <1>1, <1>2, WritesAre DEF NullsApart
  <1>4. /\ row'[f] = r
        /\ \A g \in Farmers \ {f} :
               row'[g] = IF g \in tx[f].demoted THEN [row[g] EXCEPT !.head = FALSE]
                         ELSE row[g]
    BY <1>2 DEF Commit
  <1>5. \A h \in Homes : \A g \in Heads(h)' \ {f} :
            g \in Heads(h) /\ g \notin tx[f].demoted /\ row'[g] = row[g]
    <2> SUFFICES ASSUME NEW h \in Homes, NEW g \in Heads(h)' \ {f}
                 PROVE  g \in Heads(h) /\ g \notin tx[f].demoted /\ row'[g] = row[g]
      OBVIOUS
    <2>1. g \in Farmers /\ row'[g] # Nobody /\ row'[g].link = h /\ row'[g].head
      BY DEF Heads, Live
    <2>2. g \notin tx[f].demoted
      <3> SUFFICES ASSUME g \in tx[f].demoted PROVE FALSE
        OBVIOUS
      <3>1. row[g] \in Rows
        BY <1>1, <2>1 DEF Inductive, RowType, DemotedExist
      <3>2. row'[g] = [row[g] EXCEPT !.head = FALSE]
        BY <1>4, <2>1
      <3>3. ~row'[g].head
        BY <3>1, <3>2 DEF Rows
      <3> QED BY <2>1, <3>3
    <2>3. row'[g] = row[g]
      BY <1>4, <2>1, <2>2
    <2> QED BY <2>1, <2>2, <2>3 DEF Heads, Live
  <1>6. \A g \in Farmers \ {f} : Carries(g)'
    BY <1>1 DEF Carries, Naming, Commit, Inductive, TxType
  <1>7. Carries(f)'
    BY DEF Carries, Commit, Inductive, TxType
  <1>8. ASSUME NEW h \in Homes, NEW k \in Heads(h)', ~exposed[h], ~unseated'[h]
        PROVE  home'[h] \in {row'[k].name, Absent}
    <2>1. Orderly(h)
      BY <1>8 DEF Inductive
    <2>2. k \in Farmers /\ (k = f => r.link = h /\ r.head)
      BY <1>3, <1>4 DEF Heads, Live
    <2>3. CASE h = r.link /\ r.head
      <3>1. /\ r.name # Absent
            /\ tx[f].headName = r.name \/ (tx[f].headName = Absent /\ tx[f].seen = r.name)
        BY <1>1, <1>2, <1>3, <1>8, <2>3 DEF Naming, Carries, Rows, NullsApart
      <3>2. home'[h] = r.name
        <4>1. CASE tx[f].headName = r.name
          BY <1>2, <2>3, <3>1, <4>1 DEF Commit
        <4>2. CASE tx[f].headName = Absent /\ tx[f].seen = r.name
          <5>1. ~Overtaken(f)
            BY <1>2, <1>8, <2>3, <4>2 DEF Commit
          <5>2. home[h] = r.name
            BY <1>2, <2>3, <3>1, <4>2, <5>1 DEF Overtaken
          <5> QED BY <4>2, <5>2 DEF Commit
        <4> QED BY <3>1, <4>1, <4>2
      <3>3. Seats(f, h)
        BY <1>1, <1>2, <2>3 DEF Seats
      <3>4. Heads(h) \ {f} \subseteq tx[f].demoted
        BY <2>1, <3>3 DEF Orderly, Demoting
      <3>5. k = f
        BY <1>5, <3>4
      <3> QED BY <1>4, <3>2, <3>5
    <2>4. CASE h = r.link /\ ~r.head /\ tx[f].headName # Absent
      <3>1. tx[f].headName = Nobody
        BY <1>1, <1>2, <2>4 DEF Naming, Carries
      <3>2. f \in Heads(h)
        BY <1>2, <1>8, <2>4, <3>1 DEF Commit
      <3>3. k # f /\ k \in Heads(h)
        BY <1>5, <2>2, <2>4
      <3> QED BY <2>1, <3>2, <3>3 DEF Orderly, AtMostOne
    <2>5. CASE h # r.link \/ (~r.head /\ tx[f].headName = Absent)
      <3>1. home'[h] = home[h] /\ ~unseated[h]
        BY <1>2, <1>8, <2>5 DEF Commit
      <3>2. k # f
        BY <2>2, <2>5
      <3>3. k \in Heads(h) /\ row'[k] = row[k]
        BY <1>5, <3>2
      <3> QED BY <1>8, <3>1, <3>3 DEF Naming, HeadNamed
    <2> QED BY <2>3, <2>4, <2>5
  <1>9. HeadNamed'
    BY <1>1, <1>8 DEF HeadNamed
  <1>10. unseated' \in [Homes -> BOOLEAN]
    <2>1. \A h \in Homes : unseated'[h] \in BOOLEAN
      BY DEF Commit, Naming, Overtaken
    <2>2. unseated' = [h \in Homes |-> unseated'[h]]
      BY DEF Commit
    <2> QED BY <2>1, <2>2
  <1> QED BY <1>6, <1>7, <1>9, <1>10 DEF Naming

\* The household row takes the name of the only head there is.
LEMMA IngestNames ==
    ASSUME NullsApart, Inductive, Naming, NEW h \in Homes, NEW n \in Names \cup {Nobody},
           IngestHousehold(h, n)
    PROVE  Naming'
  <1>1. UNCHANGED <<row, tx, exposed, unseated>>
    BY DEF IngestHousehold
  <1>2. \A f \in Farmers : Carries(f)'
    BY <1>1 DEF Naming, Carries
  <1>3. ASSUME NEW u \in Homes, NEW f \in Heads(u)', ~exposed[u], ~unseated[u]
        PROVE  home'[u] \in {row'[f].name, Absent}
    <2>1. f \in Heads(u)
      BY <1>1 DEF Heads, Live
    <2>2. CASE u # h
      <3>1. home'[u] = home[u]
        BY <2>2 DEF IngestHousehold, Inductive, HomeType
      <3>2. home[u] \in {row[f].name, Absent}
        BY <1>3, <2>1 DEF Naming, HeadNamed
      <3> QED BY <1>1, <3>1, <3>2
    <2>3. CASE u = h
      <3>1. Heads(h) = {f}
        BY <1>3, <2>1, <2>3 DEF Inductive, Orderly, AtMostOne
      <3>2. f \in Nat
        BY <2>1 DEF Heads, Live, NullsApart
      <3>3. (CHOOSE g \in Heads(h) : \A k \in Heads(h) : g <= k) = f
        BY <3>1, <3>2
      <3>4. home'[h] = row[CHOOSE g \in Heads(h) : \A k \in Heads(h) : g <= k].name
        BY <3>1 DEF IngestHousehold, Inductive, HomeType
      <3> QED BY <1>1, <2>3, <3>3, <3>4
    <2> QED BY <2>2, <2>3
  <1>4. HeadNamed'
    BY <1>1, <1>3 DEF HeadNamed
  <1> QED BY <1>1, <1>2, <1>4 DEF Naming

\* A boot leaves the flag with one whose name the household has.
LEMMA RestartNames ==
    ASSUME NullsApart, Inductive, Naming, Restart
    PROVE  Naming'
  <1>1. tx' = tx /\ home' = home /\ unseated' = [h \in Homes |-> FALSE]
        /\ \A f \in Farmers : tx[f] = Nobody
    BY DEF Restart, Open
  <1>2. \A f \in Farmers : Carries(f)'
    BY <1>1 DEF Carries
  <1>3. ASSUME NEW h \in Homes, NEW f \in Heads(h)', ~exposed'[h]
        PROVE  home[h] \in {row'[f].name, Absent}
    <2>1. f \in Farmers /\ row'[f] # Nobody /\ row'[f].link = h /\ row'[f].head
      BY DEF Heads, Live
    <2>2. CASE home[h] = Absent
      BY <2>2
    <2>3. CASE home[h] # Absent
      <3>1. PICK b \in BOOLEAN : b = (/\ f \in Ranked(row[f].link)
                                      /\ \A g \in Ranked(row[f].link) : f <= g)
        OBVIOUS
      <3>2. row'[f] = IF row[f] = Nobody \/ row[f].link = Nobody THEN row[f]
                      ELSE IF home[row[f].link] = Absent THEN row[f]
                      ELSE [row[f] EXCEPT !.head = b]
        BY <2>1, <3>1 DEF Restart
      <3>3. row[f] \in Rows
        BY <2>1, <3>2 DEF Inductive, RowType
      <3>4. row[f].link = h /\ row'[f].name = row[f].name
        BY <2>1, <3>2, <3>3 DEF Rows
      <3>5. row'[f] = [row[f] EXCEPT !.head = b]
        BY <2>1, <2>3, <3>2, <3>3, <3>4 DEF NullsApart
      <3>6. row'[f].head = b
        BY <3>3, <3>5 DEF Rows
      <3>7. f \in Ranked(h)
        BY <2>1, <3>1, <3>4, <3>6
      <3> QED BY <3>4, <3>7 DEF Ranked
    <2> QED BY <2>2, <2>3
  <1>4. HeadNamed'
    BY <1>1, <1>3 DEF HeadNamed
  <1> QED BY <1>1, <1>2, <1>4 DEF Naming

LEMMA NamingStart == ASSUME Init PROVE Naming
  BY DEF Init, Naming, HeadNamed, Carries, Heads, Live

LEMMA NamingStep ==
    ASSUME NullsApart, Inductive, Naming, [Next]_vars
    PROVE  Naming'
  <1>1. CASE \/ \E f \in Farmers, r \in Rows : Begin(f, r)
             \/ \E f \in Farmers, h \in Homes : CreateHousehold(f, h)
             \/ \E f \in Farmers : Abort(f)
    BY <1>1, OpeningNames
  <1>2. CASE \E f \in Farmers : Hook(f) \/ Demote(f) \/ Commit(f)
    BY <1>2, HookNames, CommitNames
  <1>3. CASE \E h \in Homes, n \in Names \cup {Nobody} : IngestHousehold(h, n)
    BY <1>3, IngestNames
  <1>4. CASE Restart
    BY <1>4, RestartNames
  <1>5. CASE UNCHANGED vars
    BY <1>5 DEF vars, Naming, HeadNamed, Carries, Heads, Live
  <1> QED BY <1>1, <1>2, <1>3, <1>4, <1>5 DEF Next

\* The name on a household is that of its head, so that no boot takes the flag
\* away, unless the approval of a namesake has cleared it, or a head left it
\* alone that read its own name there before another changed it: nothing else
\* parts them, for any number of farmers and households.
THEOREM HouseholdsNameTheirHead == ASSUME NullsApart PROVE Spec => [](TypeOK /\ HeadNamed)
  <1>1. Init => Inductive /\ Naming
    BY InitHolds, NamingStart
  <1>2. (Inductive /\ Naming) /\ [Next]_vars => (Inductive /\ Naming)'
    BY StepHolds, NamingStep
  <1>3. Inductive /\ Naming => TypeOK /\ HeadNamed
    BY DEF Inductive, Naming, TypeOK, RowType, TxType, HomeType
  <1> QED BY <1>1, <1>2, <1>3, PTL DEF Spec

-----------------------------------------------------------------------------
(* Dedup: stored pairs name flagged farmers only, whatever the farmers, the *)
(* criteria and the requests.                                               *)

(* Writing extends the flags a request wrote and sets those of S to b. *)
LEMMA WritingFlags ==
    ASSUME NEW w \in Scan!Flags, NEW S \in SUBSET Farmers, NEW b \in BOOLEAN
    PROVE  /\ Scan!Writing(w, S, b) \in Scan!Flags
           /\ DOMAIN Scan!Writing(w, S, b) = DOMAIN w \cup S
           /\ \A f \in S : Scan!Writing(w, S, b)[f] = b
           /\ \A f \in DOMAIN w \ S : Scan!Writing(w, S, b)[f] = w[f]
<1>1. PICK D \in SUBSET Farmers : w \in [D -> BOOLEAN]
  BY DEF Scan!Flags
<1>2. Scan!Writing(w, S, b) \in [D \cup S -> BOOLEAN]
  BY <1>1 DEF Scan!Writing
<1>3. D \cup S \in SUBSET Farmers
  BY <1>1
<1> QED
  BY <1>1, <1>2, <1>3 DEF Scan!Flags, Scan!Writing

(* A request that wrote nothing has written the flags of nobody. *)
LEMMA NothingFlags == Scan!Nothing \in Scan!Flags /\ DOMAIN Scan!Nothing = {}
<1>1. Scan!Nothing \in [{} -> BOOLEAN]
  BY DEF Scan!Nothing
<1> QED
  BY <1>1 DEF Scan!Flags, Scan!Nothing

(* The pairs a criterion finds are sets of farmers. *)
LEMMA PairsType == \A c : Scan!Pairs(c) \subseteq SUBSET Farmers
  BY DEF Scan!Pairs

(* What is found names farmers of the register. *)
LEMMA HitFarmers ==
    ASSUME Scan!TypeOK, NEW q \in Requests
    PROVE  UNION {r.pair : r \in found[q]} \in SUBSET Farmers
  BY DEF Scan!TypeOK, Scan!Results

(* Every variable keeps its type. *)
LEMMA ScanTypeStep == Scan!TypeOK /\ [Scan!Next]_Scan!vars => Scan!TypeOK'
<1> SUFFICES ASSUME Scan!TypeOK, [Scan!Next]_Scan!vars PROVE Scan!TypeOK'
  OBVIOUS
<1> USE DEF Scan!TypeOK
<1>1. ASSUME NEW f \in Farmers, NEW c \in Criteria, NEW v \in Values \cup {Nobody},
             Scan!Edit(f, c, v)
      PROVE  Scan!TypeOK'
  <2>1. key' \in [Farmers -> [Criteria -> Values \cup {Nobody}]]
    BY <1>1 DEF Scan!Edit
  <2> QED
    BY <1>1, <2>1 DEF Scan!Edit, Scan!request
<1>2. ASSUME NEW q \in Requests, NEW k \in {"fresh", "add", "reset"}, Scan!Start(q, k)
      PROVE  Scan!TypeOK'
  BY <1>2 DEF Scan!Start, Scan!Steps
<1>3. ASSUME NEW q \in Requests, NEW c \in Criteria, Scan!Match(q, c)
      PROVE  Scan!TypeOK'
  <2>1. {[by |-> q, pair |-> p, criterion |-> c] : p \in Scan!Pairs(c)} \subseteq Scan!Results
    BY PairsType DEF Scan!Results
  <2>2. found' \in [Requests -> SUBSET Scan!Results]
    BY <1>3, <2>1 DEF Scan!Match
  <2>3. step' \in [Requests -> Scan!Steps] /\ todo' \in [Requests -> SUBSET Criteria]
    BY <1>3 DEF Scan!Match, Scan!Steps
  <2> QED
    BY <1>3, <2>2, <2>3 DEF Scan!Match
<1>4. ASSUME NEW q \in Requests, Scan!ResetFlags(q)
      PROVE  Scan!TypeOK'
  <2>1. Scan!Writing(wrote[q], {f \in Farmers : flag[f]}, FALSE) \in Scan!Flags
    BY WritingFlags
  <2>2. wrote' \in [Requests -> Scan!Flags]
    BY <1>4, <2>1 DEF Scan!ResetFlags
  <2> QED
    BY <1>4, <2>2 DEF Scan!ResetFlags, Scan!Steps
<1>5. ASSUME NEW q \in Requests, Scan!DeleteResults(q)
      PROVE  Scan!TypeOK'
  BY <1>5 DEF Scan!DeleteResults, Scan!Steps
<1>6. ASSUME NEW q \in Requests, Scan!Mark(q)
      PROVE  Scan!TypeOK'
  <2>1. Scan!Writing(wrote[q], UNION {r.pair : r \in found[q]}, TRUE) \in Scan!Flags
    BY WritingFlags, HitFarmers
  <2>2. wrote' \in [Requests -> Scan!Flags]
    BY <1>6, <2>1 DEF Scan!Mark
  <2> QED
    BY <1>6, <2>2 DEF Scan!Mark, Scan!Steps
<1>7. ASSUME NEW q \in Requests, Scan!Commit(q)
      PROVE  Scan!TypeOK'
  <2>1. \A f \in Farmers : f \in DOMAIN wrote[q] => wrote[q][f] \in BOOLEAN
    BY DEF Scan!Flags
  <2>2. flag' \in [Farmers -> BOOLEAN]
    BY <1>7, <2>1 DEF Scan!Commit
  <2>3. wrote' \in [Requests -> Scan!Flags]
    BY <1>7, NothingFlags DEF Scan!Commit
  <2>4. results' \subseteq Scan!Results
    BY <1>7 DEF Scan!Commit
  <2> QED
    BY <1>7, <2>2, <2>3, <2>4 DEF Scan!Commit, Scan!Steps
<1>8. CASE UNCHANGED Scan!vars
  BY <1>8 DEF Scan!vars, Scan!request
<1> QED
  BY <1>1, <1>2, <1>3, <1>4, <1>5, <1>6, <1>7, <1>8 DEF Scan!Next

(* What a request writes is locked until it commits. *)
LEMMA ScanLocksStep == Scan!TypeOK /\ Scan!LocksApart /\ [Scan!Next]_Scan!vars => Scan!LocksApart'
<1> SUFFICES ASSUME Scan!TypeOK, Scan!LocksApart, [Scan!Next]_Scan!vars PROVE Scan!LocksApart'
  OBVIOUS
<1>1. ASSUME NEW q \in Requests, NEW S \in SUBSET Farmers, NEW b \in BOOLEAN,
             S \cap Scan!Locked(q) = {},
             wrote' = [wrote EXCEPT ![q] = Scan!Writing(wrote[q], S, b)]
      PROVE  Scan!LocksApart'
  <2>0. wrote'[q] = Scan!Writing(wrote[q], S, b) /\ wrote[q] \in Scan!Flags
    BY <1>1 DEF Scan!TypeOK
  <2>1. DOMAIN wrote'[q] = DOMAIN wrote[q] \cup S
    BY <2>0 DEF Scan!Writing
  <2>2. \A o \in Requests \ {q} : wrote'[o] = wrote[o]
    BY <1>1 DEF Scan!TypeOK
  <2>3. \A o \in Requests \ {q} : S \cap DOMAIN wrote[o] = {}
    BY <1>1 DEF Scan!Locked
  <2>4. ASSUME NEW p \in Requests, NEW o \in Requests, p # o
        PROVE  DOMAIN wrote'[p] \cap DOMAIN wrote'[o] = {}
    <3>1. DOMAIN wrote[p] \cap DOMAIN wrote[o] = {}
      BY <2>4 DEF Scan!LocksApart
    <3>2. CASE p = q
      BY <2>1, <2>2, <2>3, <2>4, <3>1, <3>2
    <3>3. CASE o = q
      BY <2>1, <2>2, <2>3, <2>4, <3>1, <3>3
    <3>4. CASE p # q /\ o # q
      BY <2>2, <3>1, <3>4
    <3> QED
      BY <3>2, <3>3, <3>4
  <2> QED
    BY <2>4 DEF Scan!LocksApart
<1>2. ASSUME NEW q \in Requests, Scan!ResetFlags(q)
      PROVE  Scan!LocksApart'
  BY <1>1, <1>2 DEF Scan!ResetFlags
<1>3. ASSUME NEW q \in Requests, Scan!Mark(q)
      PROVE  Scan!LocksApart'
  BY <1>1, <1>3, HitFarmers DEF Scan!Mark
<1>4. ASSUME NEW q \in Requests, Scan!Commit(q)
      PROVE  Scan!LocksApart'
  <2>1. wrote'[q] = Scan!Nothing /\ \A o \in Requests \ {q} : wrote'[o] = wrote[o]
    BY <1>4 DEF Scan!Commit, Scan!TypeOK
  <2> QED
    BY <2>1, NothingFlags DEF Scan!LocksApart
<1>5. CASE UNCHANGED wrote
  BY <1>5 DEF Scan!LocksApart
<1> QED
  BY <1>2, <1>3, <1>4, <1>5 DEF Scan!Next, Scan!Edit, Scan!Start, Scan!Match,
     Scan!DeleteResults, Scan!vars, Scan!request

(* Before it matches, a request has found nothing; before its reset, it has *)
(* written nothing.                                                         *)
LEMMA ScanNothingStep == Scan!TypeOK /\ Scan!NothingYet /\ [Scan!Next]_Scan!vars => Scan!NothingYet'
<1> SUFFICES ASSUME Scan!TypeOK, Scan!NothingYet, [Scan!Next]_Scan!vars PROVE Scan!NothingYet'
  OBVIOUS
<1> USE DEF Scan!TypeOK, Scan!NothingYet
<1>1. ASSUME NEW q \in Requests, Scan!Commit(q)
      PROVE  Scan!NothingYet'
  BY <1>1, NothingFlags DEF Scan!Commit
<1>2. ASSUME NEW q \in Requests, Scan!ResetFlags(q) \/ Scan!DeleteResults(q) \/ Scan!Mark(q)
      PROVE  Scan!NothingYet'
  BY <1>2 DEF Scan!ResetFlags, Scan!DeleteResults, Scan!Mark
<1>3. ASSUME NEW q \in Requests, NEW k \in {"fresh", "add", "reset"}, Scan!Start(q, k)
      PROVE  Scan!NothingYet'
  BY <1>3 DEF Scan!Start
<1>4. ASSUME NEW q \in Requests, NEW c \in Criteria, Scan!Match(q, c)
      PROVE  Scan!NothingYet'
  BY <1>4 DEF Scan!Match
<1> QED
  BY <1>1, <1>2, <1>3, <1>4 DEF Scan!Next, Scan!Edit, Scan!vars, Scan!request

(* A request in its last step has marked whoever it found. *)
LEMMA ScanMarkedStep ==
    Scan!TypeOK /\ Scan!NothingYet /\ Scan!FoundAreMarked /\ [Scan!Next]_Scan!vars => Scan!FoundAreMarked'
<1> SUFFICES ASSUME Scan!TypeOK, Scan!NothingYet, Scan!FoundAreMarked, [Scan!Next]_Scan!vars,
                    NEW q \in Requests, step'[q] = "commit",
                    NEW r \in found'[q], NEW f \in r.pair
             PROVE  f \in DOMAIN wrote'[q] /\ wrote'[q][f]
  BY DEF Scan!FoundAreMarked
<1>1. CASE step[q] = "commit" /\ found'[q] = found[q] /\ wrote'[q] = wrote[q]
  BY <1>1 DEF Scan!FoundAreMarked
<1>2. ASSUME NEW o \in Requests, Scan!Mark(o)
      PROVE  f \in DOMAIN wrote'[q] /\ wrote'[q][f]
  <2>1. CASE o # q
    BY <1>1, <1>2, <2>1 DEF Scan!Mark, Scan!TypeOK
  <2>2. CASE o = q
    <3>1. wrote'[q] = Scan!Writing(wrote[q], UNION {p.pair : p \in found[q]}, TRUE)
      BY <1>2, <2>2 DEF Scan!Mark, Scan!TypeOK
    <3>2. f \in UNION {p.pair : p \in found[q]}
      BY <1>2 DEF Scan!Mark
    <3> QED
      BY <3>1, <3>2 DEF Scan!Writing
  <2> QED
    BY <2>1, <2>2
<1>3. ASSUME NEW o \in Requests, Scan!DeleteResults(o)
      PROVE  f \in DOMAIN wrote'[q] /\ wrote'[q][f]
  <2>1. o = q => found[q] = {}
    BY <1>3 DEF Scan!DeleteResults, Scan!NothingYet
  <2> QED
    BY <1>1, <1>3, <2>1 DEF Scan!DeleteResults, Scan!TypeOK
<1> QED
  BY <1>1, <1>2, <1>3
  DEF Scan!Next, Scan!Edit, Scan!Start, Scan!Match, Scan!ResetFlags, Scan!Commit,
     Scan!TypeOK, Scan!vars, Scan!request

(* What a request leaves in the table names nobody whose flag it clears: a  *)
(* result committed since names farmers another request had locked.         *)
LEMMA ScanClearedStep == Scan!Inductive /\ [Scan!Next]_Scan!vars => Scan!ClearedAreDeleted'
<1> SUFFICES ASSUME Scan!Inductive, [Scan!Next]_Scan!vars,
                    NEW q \in Requests, step'[q] \in {"match", "mark", "commit"},
                    NEW r \in results' \ deleted'[q], NEW f \in r.pair,
                    f \in DOMAIN wrote'[q]
             PROVE  wrote'[q][f]
  BY DEF Scan!ClearedAreDeleted
<1> USE DEF Scan!Inductive, Scan!TypeOK
<1>1. CASE /\ step[q] \in {"match", "mark", "commit"}
           /\ deleted'[q] = deleted[q] /\ wrote'[q] = wrote[q] /\ r \in results
  BY <1>1 DEF Scan!ClearedAreDeleted
<1>2. ASSUME NEW o \in Requests, NEW k \in {"fresh", "add", "reset"}, Scan!Start(o, k)
      PROVE  wrote'[q][f]
  <2>1. CASE o = q
    BY <1>2, <2>1 DEF Scan!Start, Scan!NothingYet
  <2>2. CASE o # q
    BY <1>1, <1>2, <2>2 DEF Scan!Start
  <2> QED
    BY <2>1, <2>2
<1>3. ASSUME NEW o \in Requests, Scan!Mark(o)
      PROVE  wrote'[q][f]
  <2>1. CASE o # q
    BY <1>1, <1>3, <2>1 DEF Scan!Mark
  <2>2. CASE o = q
    <3> DEFINE hit == UNION {p.pair : p \in found[q]}
    <3>1. wrote'[q] = Scan!Writing(wrote[q], hit, TRUE)
      BY <1>3, <2>2 DEF Scan!Mark
    <3>2. f \in hit => wrote'[q][f] = TRUE
      BY <3>1 DEF Scan!Writing
    <3>3. f \notin hit => f \in DOMAIN wrote[q] /\ wrote'[q][f] = wrote[q][f]
      BY <3>1 DEF Scan!Writing
    <3>4. f \in DOMAIN wrote[q] => wrote[q][f]
      BY <1>3, <2>2 DEF Scan!Mark, Scan!ClearedAreDeleted
    <3> QED
      BY <3>2, <3>3, <3>4
  <2> QED
    BY <2>1, <2>2
<1>4. ASSUME NEW o \in Requests, Scan!Commit(o)
      PROVE  wrote'[q][f]
  <2>1. o # q
    BY <1>4 DEF Scan!Commit
  <2>2. step'[q] = step[q] /\ deleted'[q] = deleted[q] /\ wrote'[q] = wrote[q]
    BY <1>4, <2>1 DEF Scan!Commit
  <2>3. CASE r \in results
    BY <1>1, <2>2, <2>3
  <2>4. CASE r \in found[o]
    <3>1. f \in DOMAIN wrote[o]
      BY <1>4, <2>4 DEF Scan!Commit, Scan!FoundAreMarked
    <3> QED
      BY <2>1, <2>2, <3>1 DEF Scan!LocksApart
  <2> QED
    BY <1>4, <2>3, <2>4 DEF Scan!Commit
<1> QED
  BY <1>1, <1>2, <1>3, <1>4
  DEF Scan!Next, Scan!Edit, Scan!Match, Scan!ResetFlags, Scan!DeleteResults, Scan!vars,
     Scan!request

(* Flags change when a request commits: those it wrote are right for the    *)
(* pairs it leaves and for those it adds.                                   *)
LEMMA ScanFlaggedStep == Scan!Inductive /\ [Scan!Next]_Scan!vars => Scan!PairsFlagged'
<1> SUFFICES ASSUME Scan!Inductive, [Scan!Next]_Scan!vars, NEW r \in results', NEW f \in r.pair
             PROVE  flag'[f]
  BY DEF Scan!PairsFlagged
<1> USE DEF Scan!Inductive, Scan!TypeOK
<1>1. CASE results' = results /\ flag' = flag
  BY <1>1 DEF Scan!PairsFlagged
<1>2. ASSUME NEW q \in Requests, Scan!Commit(q)
      PROVE  flag'[f]
  <2>1. r \in Scan!Results
    BY <1>2 DEF Scan!Commit
  <2>2. f \in Farmers
    BY <2>1 DEF Scan!Results
  <2>3. f \in DOMAIN wrote[q] => flag'[f] = wrote[q][f]
    BY <1>2, <2>2 DEF Scan!Commit
  <2>4. f \notin DOMAIN wrote[q] => flag'[f] = flag[f]
    BY <1>2, <2>2 DEF Scan!Commit
  <2>5. CASE r \in found[q]
    BY <1>2, <2>3, <2>5 DEF Scan!Commit, Scan!FoundAreMarked
  <2>6. CASE r \in results \ deleted[q]
    <3>1. flag[f]
      BY <2>6 DEF Scan!PairsFlagged
    <3>2. f \in DOMAIN wrote[q] => wrote[q][f]
      BY <1>2, <2>6 DEF Scan!Commit, Scan!ClearedAreDeleted
    <3> QED
      BY <2>3, <2>4, <3>1, <3>2
  <2> QED
    BY <1>2, <2>5, <2>6 DEF Scan!Commit
<1> QED
  BY <1>1, <1>2
  DEF Scan!Next, Scan!Edit, Scan!Start, Scan!Match, Scan!ResetFlags, Scan!DeleteResults,
     Scan!Mark, Scan!vars, Scan!request

(* All parts of the invariant hold at first and are kept by every step. *)
LEMMA ScanInitHolds == Scan!Init => Scan!Inductive
<1> SUFFICES ASSUME Scan!Init PROVE Scan!Inductive
  OBVIOUS
<1>1. Scan!TypeOK
  BY NothingFlags DEF Scan!Init, Scan!TypeOK, Scan!Steps
<1>2. \A q \in Requests : wrote[q] = Scan!Nothing /\ step[q] = "idle" /\ found[q] = {}
  BY DEF Scan!Init
<1> QED
  BY <1>1, <1>2, NothingFlags
  DEF Scan!Init, Scan!Inductive, Scan!PairsFlagged, Scan!LocksApart,
     Scan!ClearedAreDeleted, Scan!NothingYet,
      Scan!FoundAreMarked

LEMMA ScanStepHolds == Scan!Inductive /\ [Scan!Next]_Scan!vars => Scan!Inductive'
  BY ScanTypeStep, ScanLocksStep, ScanNothingStep, ScanMarkedStep, ScanClearedStep,
     ScanFlaggedStep
  DEF Scan!Inductive

THEOREM DedupInvariant == Scan!Spec => []Scan!Inductive
  BY ScanInitHolds, ScanStepHolds, PTL DEF Scan!Spec

(* Scans and resets may overlap in any way: a stored pair never names a     *)
(* farmer who is not flagged.                                               *)
THEOREM StoredPairsAreFlagged == Scan!Spec => []Scan!PairsFlagged
<1>1. Scan!Inductive => Scan!PairsFlagged
  BY DEF Scan!Inductive
<1> QED
  BY <1>1, DedupInvariant, PTL

-----------------------------------------------------------------------------
(* Functions on the first numbers, and finite orders.                       *)

\* A function that is defined by itself, from z by steps g of its number and
\* the value before: there is such a function.
UpTo(h, m, V, z, g) ==
    h \in [0 .. m -> V] /\ h[0] = z /\ \A k \in 0 .. m - 1 : h[k + 1] = g[<<k, h[k]>>]

LEMMA UpToExists ==
    ASSUME NEW V, NEW z \in V, NEW g \in [Nat \X V -> V], NEW m \in Nat
    PROVE  \E h : UpTo(h, m, V, z, g)
  <1> DEFINE Bad == {n \in Nat : ~ \E h : UpTo(h, n, V, z, g)}
  <1> SUFFICES ASSUME m \in Bad PROVE FALSE
    OBVIOUS
  <1>1. PICK n \in Bad : \A k \in Bad : n <= k
    <2>1. Bad \subseteq Nat /\ Bad # {}
      OBVIOUS
    <2>2. QED
      BY ONLY <2>1, LeastExists
  <1>2. n # 0
    <2>1. UpTo([k \in 0 .. 0 |-> z], 0, V, z, g)
      BY DEF UpTo
    <2>2. QED
      BY <1>1, <2>1
  <1>3. n \in Nat /\ n - 1 \in Nat /\ ~(n <= n - 1)
    BY <1>1, <1>2
  <1>4. PICK h : UpTo(h, n - 1, V, z, g)
    <2>1. n - 1 \notin Bad
      BY <1>1, <1>3
    <2>2. QED
      BY <1>3, <2>1
  <1> DEFINE e == [k \in 0 .. n |-> IF k = n THEN g[<<n - 1, h[n - 1]>>] ELSE h[k]]
  <1>5. UpTo(e, n, V, z, g)
    <2>1. h \in [0 .. n - 1 -> V] /\ h[0] = z /\ \A k \in 0 .. n - 2 : h[k + 1] = g[<<k, h[k]>>]
      BY <1>3, <1>4 DEF UpTo
    <2>2. g[<<n - 1, h[n - 1]>>] \in V
      <3>1. <<n - 1, h[n - 1]>> \in Nat \X V
        BY <1>3, <2>1
      <3>2. QED
        BY <3>1
    <2>3. e \in [0 .. n -> V]
      BY <1>3, <2>1, <2>2
    <2>4. e[0] = z
      BY <1>2, <1>3, <2>1
    <2>5. ASSUME NEW k \in 0 .. n - 1 PROVE e[k + 1] = g[<<k, e[k]>>]
      <3>1. e[k] = h[k]
        BY <1>3
      <3>2. CASE k = n - 1
        BY <1>3, <3>1, <3>2
      <3>3. CASE k # n - 1
        <4>1. k \in 0 .. n - 2 /\ k + 1 \in 0 .. n /\ k + 1 # n
          BY <1>3, <3>3
        <4>2. QED
          BY <2>1, <3>1, <4>1
      <3>4. QED
        BY <3>2, <3>3
    <2> HIDE DEF e
    <2>6. QED
      BY <2>3, <2>4, <2>5 DEF UpTo
  <1>6. QED
    BY <1>1, <1>5

\* The members of S below e in R.
Below(S, R, e) == {d \in S : <<d, e>> \in R}

\* In a finite total order the numbers of smaller members are 0, 1, 2, ...
LEMMA RanksAreNumbers ==
    ASSUME NEW S, IsFiniteSet(S), NEW R,
           \A x \in S : <<x, x>> \notin R,
           \A x, y \in S : x # y => <<x, y>> \in R \/ <<y, x>> \in R,
           \A x, y, z \in S : <<x, y>> \in R /\ <<y, z>> \in R => <<x, z>> \in R
    PROVE  /\ \A x \in S : Cardinality(Below(S, R, x)) \in 0 .. Cardinality(S) - 1
           /\ \A x, y \in S : <<x, y>> \in R
                <=> Cardinality(Below(S, R, x)) < Cardinality(Below(S, R, y))
           /\ \A n \in 0 .. Cardinality(S) - 1 :
                \E x \in S : Cardinality(Below(S, R, x)) = n
  <1> DEFINE size == Cardinality(S)
             rank == [x \in S |-> Cardinality(Below(S, R, x))]
  <1>1. size \in Nat
    BY FS_CardinalityType
  <1>2. \A x \in S : Below(S, R, x) \in SUBSET S /\ x \notin Below(S, R, x)
    BY DEF Below
  <1>3. \A x \in S : rank[x] \in 0 .. size - 1
    <2> SUFFICES ASSUME NEW x \in S
                 PROVE  rank[x] \in 0 .. size - 1
      OBVIOUS
    <2> DEFINE B == Below(S, R, x)
    <2>1. IsFiniteSet(B) /\ Cardinality(B) <= size /\ (size = Cardinality(B) => S = B)
      BY <1>2, FS_Subset
    <2>2. Cardinality(B) \in Nat
      BY <2>1, FS_CardinalityType
    <2>3. S # B
      BY <1>2
    <2>4. QED
      BY <1>1, <2>1, <2>2, <2>3
  <1>4. ASSUME NEW x \in S, NEW y \in S, <<x, y>> \in R
        PROVE  rank[x] < rank[y]
    <2> DEFINE B == Below(S, R, x)
               C == Below(S, R, y)
    <2>1. B \in SUBSET C /\ x \in C /\ x \notin B
      BY <1>2, <1>4 DEF Below
    <2>2. IsFiniteSet(C)
      BY <1>2, FS_Subset
    <2>3. Cardinality(B) <= Cardinality(C) /\ (Cardinality(C) = Cardinality(B) => C = B)
      BY <2>1, <2>2, FS_Subset
    <2>4. rank[x] = Cardinality(B) /\ rank[y] = Cardinality(C) /\ rank[x] \in Nat /\ rank[y] \in Nat
      BY <1>1, <1>3
    <2>5. QED
      BY <2>1, <2>3, <2>4
  <1>5. \A x, y \in S : <<x, y>> \in R <=> rank[x] < rank[y]
    <2> SUFFICES ASSUME NEW x \in S, NEW y \in S, rank[x] < rank[y]
                 PROVE  <<x, y>> \in R
      BY <1>4
    <2>1. rank[x] \in Nat /\ rank[y] \in Nat
      BY <1>1, <1>3
    <2>2. x # y /\ <<y, x>> \notin R
      BY <1>4, <2>1
    <2>3. QED
      BY <2>2
  <1>6. rank \in Injection(S, 0 .. size - 1)
    <2>1. \A x, y \in S : x # y => rank[x] # rank[y]
      <3> SUFFICES ASSUME NEW x \in S, NEW y \in S, x # y
                   PROVE  rank[x] # rank[y]
        OBVIOUS
      <3>1. rank[x] \in Nat /\ rank[y] \in Nat
        BY <1>1, <1>3
      <3>2. rank[x] < rank[y] \/ rank[y] < rank[x]
        BY <1>4
      <3>3. QED
        BY <3>1, <3>2
    <2>2. rank \in [S -> 0 .. size - 1]
      BY <1>3
    <2>3. QED
      BY <2>1, <2>2 DEF Injection, IsInjective
  <1>7. IsFiniteSet(0 .. size - 1) /\ Cardinality(0 .. size - 1) = size
    <2> HIDE DEF size
    <2>1. 0 \in Int /\ size - 1 \in Int
      BY <1>1
    <2>2. /\ IsFiniteSet(0 .. size - 1)
          /\ Cardinality(0 .. size - 1) = IF 0 > size - 1 THEN 0 ELSE size - 1 - 0 + 1
      BY ONLY <2>1, FS_Interval
    <2>3. QED
      BY <1>1, <2>2
  <1>8. rank \in Surjection(S, 0 .. size - 1)
    BY <1>6, <1>7, FS_Injection
  <1>9. \A n \in 0 .. size - 1 : \E x \in S : rank[x] = n
    BY <1>8 DEF Surjection
  <1>10. QED
    BY <1>3, <1>5, <1>9

LEMMA SeedsCount == \A S : Seeds!Cardinality(S) = Cardinality(S)
  BY DEF Seeds!Cardinality, Cardinality

\* Records with different numbers, by their numbers.
LEMMA AsSeqIs ==
    ASSUME NEW S, IsFiniteSet(S), \A r \in S : r.n \in Int,
           \A q, r \in S : q.n = r.n => q = r
    PROVE  /\ Cardinality(S) \in Nat
           /\ Seeds!AsSeq(S) \in Seq(S) /\ Len(Seeds!AsSeq(S)) = Cardinality(S)
           /\ \A i \in 1 .. Cardinality(S) :
                 /\ Seeds!AsSeq(S)[i] \in S
                 /\ Cardinality(Seeds!Before(S, Seeds!AsSeq(S)[i])) = i - 1
           /\ Seeds!ToSet(Seeds!AsSeq(S)) = S
  <1> DEFINE R == {x \in S \X S : x[1].n < x[2].n}
             a == Seeds!AsSeq(S)
             m == Cardinality(S)
  <1>1. m \in Nat
    BY FS_CardinalityType
  <1>2. \A q, r \in S : <<q, r>> \in R <=> q.n < r.n
    OBVIOUS
  <1>3. \A r \in S : Below(S, R, r) = Seeds!Before(S, r)
    BY <1>2 DEF Below, Seeds!Before
  <1>4. /\ \A x \in S : <<x, x>> \notin R
        /\ \A x, y \in S : x # y => <<x, y>> \in R \/ <<y, x>> \in R
        /\ \A x, y, z \in S : <<x, y>> \in R /\ <<y, z>> \in R => <<x, z>> \in R
    BY <1>2
  <1> HIDE DEF R
  <1>5. /\ \A x \in S : Cardinality(Below(S, R, x)) \in 0 .. Cardinality(S) - 1
        /\ \A x, y \in S : <<x, y>> \in R
              <=> Cardinality(Below(S, R, x)) < Cardinality(Below(S, R, y))
        /\ \A n \in 0 .. Cardinality(S) - 1 :
              \E x \in S : Cardinality(Below(S, R, x)) = n
    BY <1>4, RanksAreNumbers
  <1>6. a = [i \in 1 .. m |-> CHOOSE r \in S : Cardinality(Seeds!Before(S, r)) = i - 1]
    BY SeedsCount DEF Seeds!AsSeq
  <1> HIDE DEF a
  <1>7. \A i \in 1 .. m : a[i] \in S /\ Cardinality(Seeds!Before(S, a[i])) = i - 1
    <2> SUFFICES ASSUME NEW i \in 1 .. m
                 PROVE  a[i] \in S /\ Cardinality(Seeds!Before(S, a[i])) = i - 1
      OBVIOUS
    <2>1. i - 1 \in 0 .. m - 1
      BY <1>1
    <2>2. \E x \in S : Cardinality(Below(S, R, x)) = i - 1
      BY <1>5, <2>1
    <2>3. \E x \in S : Cardinality(Seeds!Before(S, x)) = i - 1
      BY <1>3, <2>2
    <2>4. QED
      BY <1>6, <2>3
  <1>8. a \in [1 .. m -> S]
    BY <1>6, <1>7
  <1>9. a \in Seq(S) /\ Len(a) = m /\ DOMAIN a = 1 .. m
    <2> HIDE DEF m
    <2>1. a \in Seq(S)
      BY <1>1, <1>8, SeqDef
    <2>2. DOMAIN a = 1 .. m
      BY <1>8
    <2>3. QED
      BY <1>1, <2>1, <2>2, LenProperties
  <1>10. Seeds!ToSet(a) = S
    <2>1. ASSUME NEW r \in S PROVE r \in Seeds!ToSet(a)
      <3>1. Cardinality(Seeds!Before(S, r)) \in 0 .. m - 1
        BY <1>3, <1>5
      <3> DEFINE i == Cardinality(Seeds!Before(S, r)) + 1
      <3>2. i \in 1 .. m /\ Cardinality(Seeds!Before(S, r)) = i - 1
        BY <1>1, <3>1
      <3> HIDE DEF i
      <3>3. a[i] \in S /\ Cardinality(Seeds!Before(S, a[i])) = i - 1
        BY <1>7, <3>2
      <3>4. Cardinality(Below(S, R, a[i])) = i - 1 /\ Cardinality(Below(S, R, r)) = i - 1
        BY <1>3, <3>2, <3>3
      <3>5. ~(a[i].n < r.n) /\ ~(r.n < a[i].n)
        <4>1. <<a[i], r>> \notin R /\ <<r, a[i]>> \notin R
          BY <1>5, <3>2, <3>3, <3>4
        <4>2. QED
          BY <1>2, <3>3, <4>1
      <3>6. a[i] = r
        BY <3>3, <3>5
      <3>7. QED
        BY <1>9, <3>2, <3>6 DEF Seeds!ToSet
    <2>2. \A r \in Seeds!ToSet(a) : r \in S
      BY <1>7, <1>9 DEF Seeds!ToSet
    <2>3. QED
      BY <2>1, <2>2
  <1>11. QED
    BY <1>1, <1>7, <1>9, <1>10 DEF a

-----------------------------------------------------------------------------
(* GeoChain.  A path is a chain of units, each the parent of the next, none *)
(* of them twice; it has ended when it cannot be made longer.               *)

Path(s, p) ==
    /\ s \in Seq(Places!Nodes) /\ Places!IsInjective(s) /\ Places!Linked(s)
    /\ s # <<>> => s[Len(s)] = p
Ended(s, p) == Places!Longer(s, p) = s

LEMMA PathIs ==
    ASSUME NEW p, NEW s, Path(s, p)
    PROVE  /\ Len(s) \in Nat /\ DOMAIN s = 1 .. Len(s) /\ s \in [1 .. Len(s) -> Places!Nodes]
           /\ s = <<>> <=> Len(s) = 0
           /\ s # <<>> => Head(s) = s[1] /\ 1 \in DOMAIN s /\ Len(s) \in DOMAIN s /\ s[1] \in Places!Nodes
           /\ \A k \in 2 .. Len(s) : parent[s[k]] = s[k - 1]
           /\ Places!ToSet(s) = {s[k] : k \in DOMAIN s} /\ Places!ToSet(s) \subseteq Places!Nodes
           /\ \A j, k \in DOMAIN s : s[j] = s[k] => j = k
           /\ s \in Seq(Places!Nodes) /\ (s # <<>> => s[Len(s)] = p)
  <1>1. /\ Len(s) \in Nat /\ DOMAIN s = 1 .. Len(s) /\ s \in [1 .. Len(s) -> Places!Nodes]
        /\ s = <<>> <=> Len(s) = 0
    BY LenProperties, EmptySeq DEF Path
  <1>2. s # <<>> => Head(s) = s[1]
    BY <1>1 DEF Path
  <1>3. Places!ToSet(s) = {s[k] : k \in DOMAIN s}
    BY DEF Places!ToSet
  <1>4. QED
    BY <1>1, <1>2, <1>3 DEF Path, Places!Linked, Places!IsInjective

\* What a path is made longer with, if it is.
LEMMA LongerIs ==
    ASSUME NEW p, NEW s, Path(s, p)
    PROVE  LET cur == IF s = <<>> THEN p ELSE parent[s[1]] IN
           /\ Ended(s, p) <=> cur \notin Places!Nodes \ Places!ToSet(s)
           /\ ~Ended(s, p) =>
                /\ Places!Longer(s, p) \in Seq(Places!Nodes)
                /\ Len(Places!Longer(s, p)) = Len(s) + 1
                /\ \A k \in 1 .. Len(s) + 1 :
                      Places!Longer(s, p)[k] = IF k = 1 THEN cur ELSE s[k - 1]
  <1> DEFINE cur == IF s = <<>> THEN p ELSE parent[s[1]]
             t == Places!Longer(s, p)
  <1>1. t = IF cur \in Places!Nodes \ Places!ToSet(s) THEN <<cur>> \o s ELSE s
    BY PathIs DEF Places!Longer
  <1>2. ASSUME cur \in Places!Nodes
        PROVE  /\ <<cur>> \o s \in Seq(Places!Nodes) /\ Len(<<cur>> \o s) = Len(s) + 1
               /\ \A k \in 1 .. Len(s) + 1 : (<<cur>> \o s)[k] = IF k = 1 THEN cur ELSE s[k - 1]
    <2> HIDE DEF cur
    <2>1. <<cur>> \in Seq(Places!Nodes) /\ Len(<<cur>>) = 1 /\ <<cur>>[1] = cur /\ s \in Seq(Places!Nodes)
      BY <1>2 DEF Path
    <2>2. /\ <<cur>> \o s \in Seq(Places!Nodes) /\ Len(<<cur>> \o s) = 1 + Len(s)
          /\ \A k \in 1 .. 1 + Len(s) : (<<cur>> \o s)[k] = IF k <= 1 THEN <<cur>>[k] ELSE s[k - 1]
      BY <2>1, ConcatProperties
    <2>3. Len(s) \in Nat /\ 1 + Len(s) = Len(s) + 1
      BY PathIs
    <2>4. \A k \in 1 .. Len(s) + 1 : k <= 1 <=> k = 1
      BY <2>3
    <2>5. QED
      BY <2>1, <2>2, <2>3, <2>4
  <1>3. Len(s) \in Nat
    BY PathIs
  <1>4. Ended(s, p) <=> cur \notin Places!Nodes \ Places!ToSet(s)
    <2>1. ASSUME cur \in Places!Nodes \ Places!ToSet(s) PROVE t # s
      <3>1. Len(t) = Len(s) + 1
        BY <1>1, <1>2, <2>1
      <3>2. QED
        BY <1>3, <3>1
    <2>2. QED
      BY <1>1, <2>1 DEF Ended
  <1>5. QED
    BY <1>1, <1>2, <1>4

LEMMA LongerKeeps ==
    ASSUME NEW p, NEW s, Path(s, p)
    PROVE  Path(Places!Longer(s, p), p)
  <1> DEFINE cur == IF s = <<>> THEN p ELSE parent[s[1]]
             t == Places!Longer(s, p)
  <1>1. CASE Ended(s, p)
    BY <1>1 DEF Ended
  <1>2. CASE ~Ended(s, p)
    <2>1. /\ cur \in Places!Nodes /\ cur \notin Places!ToSet(s)
          /\ t \in Seq(Places!Nodes) /\ Len(t) = Len(s) + 1
          /\ \A k \in 1 .. Len(s) + 1 : t[k] = IF k = 1 THEN cur ELSE s[k - 1]
      BY <1>2, LongerIs
    <2>2. /\ Len(s) \in Nat /\ DOMAIN s = 1 .. Len(s) /\ s = <<>> <=> Len(s) = 0
          /\ \A k \in 2 .. Len(s) : parent[s[k]] = s[k - 1]
          /\ \A k \in DOMAIN s : s[k] \in Places!ToSet(s)
          /\ \A j, k \in DOMAIN s : s[j] = s[k] => j = k
      BY PathIs
    <2>3. DOMAIN t = 1 .. Len(s) + 1
      BY <2>1, LenProperties
    <2> HIDE DEF t
    <2>4. Places!IsInjective(t)
      <3> SUFFICES ASSUME NEW j \in DOMAIN t, NEW k \in DOMAIN t, t[j] = t[k], j # k PROVE FALSE
        BY DEF Places!IsInjective
      <3>1. CASE j # 1 /\ k # 1
        <4>1. j - 1 \in DOMAIN s /\ k - 1 \in DOMAIN s /\ j - 1 # k - 1
          BY <2>2, <2>3, <3>1
        <4>2. t[j] = s[j - 1] /\ t[k] = s[k - 1]
          BY <2>1, <2>3, <3>1
        <4>3. QED
          BY <2>2, <4>1, <4>2
      <3>2. CASE j = 1
        <4>1. k - 1 \in DOMAIN s /\ t[k] = s[k - 1] /\ t[j] = cur
          BY <2>1, <2>2, <2>3, <3>2
        <4>2. s[k - 1] \in Places!ToSet(s)
          BY <2>2, <4>1
        <4>3. cur \notin Places!ToSet(s)
          BY <2>1
        <4>4. QED
          BY <4>1, <4>2, <4>3
      <3>3. CASE k = 1
        <4>1. j - 1 \in DOMAIN s /\ t[j] = s[j - 1] /\ t[k] = cur
          BY <2>1, <2>2, <2>3, <3>3
        <4>2. s[j - 1] \in Places!ToSet(s)
          BY <2>2, <4>1
        <4>3. cur \notin Places!ToSet(s)
          BY <2>1
        <4>4. QED
          BY <4>1, <4>2, <4>3
      <3>4. QED
        BY <3>1, <3>2, <3>3
    <2>5. Places!Linked(t)
      <3> SUFFICES ASSUME NEW k \in 2 .. Len(t) PROVE parent[t[k]] = t[k - 1]
        BY DEF Places!Linked
      <3>1. k \in 1 .. Len(s) + 1 /\ k # 1 /\ k - 1 \in 1 .. Len(s) + 1 /\ k - 1 \in 1 .. Len(s)
        BY <2>1, <2>2
      <3>2. t[k] = s[k - 1] /\ t[k - 1] = IF k - 1 = 1 THEN cur ELSE s[(k - 1) - 1]
        BY <2>1, <3>1
      <3>3. CASE k = 2
        BY <2>2, <3>1, <3>2, <3>3
      <3>4. CASE k # 2
        BY <2>2, <3>1, <3>2, <3>4
      <3>5. QED
        BY <3>3, <3>4
    <2>6. t[Len(t)] = p
      <3>1. CASE s = <<>>
        BY <2>1, <2>2, <3>1
      <3>2. CASE s # <<>>
        BY <2>1, <2>2, <3>2 DEF Path
      <3>3. QED
        BY <3>1, <3>2
    <2>7. QED
      BY <2>1, <2>4, <2>5, <2>6 DEF Path, t
  <1>3. QED
    BY <1>1, <1>2

\* What stands for the numbers of the model: units and levels.
Sizes == Size \in Nat /\ Depth \in Nat \ {0}

\* A path of all units has ended.
LEMMA FullPathEnds ==
    ASSUME Sizes, Places!TypeOK, NEW p, NEW s, Path(s, p), Len(s) = Size, s # <<>>
    PROVE  Ended(s, p)
  <1>1. /\ s \in [1 .. Size -> Places!Nodes] /\ DOMAIN s = 1 .. Size
        /\ Places!ToSet(s) = {s[k] : k \in DOMAIN s} /\ s[1] \in Places!Nodes
        /\ \A j, k \in DOMAIN s : s[j] = s[k] => j = k
        /\ Places!ToSet(s) \subseteq Places!Nodes
    BY PathIs
  <1>2. Places!Nodes = 1 .. Size /\ IsFiniteSet(Places!Nodes)
    BY FS_Interval DEF Places!Nodes, Sizes
  <1>3. s \in Bijection(1 .. Size, Places!ToSet(s))
    <2>1. s \in [1 .. Size -> Places!ToSet(s)]
      BY <1>1
    <2>2. QED
      BY <1>1, <2>1 DEF Bijection, Injection, IsInjective, Surjection
  <1>4. Cardinality(Places!ToSet(s)) = Cardinality(Places!Nodes)
    BY <1>2, <1>3, FS_Bijection DEF ExistsBijection
  <1>5. Places!ToSet(s) = Places!Nodes
    BY <1>1, <1>2, <1>4, FS_Subset
  <1>6. QED
    BY <1>5, LongerIs

\* The units above one form a path that has ended.
LEMMA HierarchyIs ==
    ASSUME Sizes, Places!TypeOK, NEW p
    PROVE  Path(Places!HierarchyFromPcode(p), p) /\ Ended(Places!HierarchyFromPcode(p), p)
  <1> DEFINE V == {s \in Seq(Places!Nodes) : Path(s, p)}
             g == [x \in Nat \X V |-> Places!Longer(x[2], p)]
             Is(c) == c = [k \in 0 .. Size |-> IF k = 0 THEN <<>> ELSE Places!Longer(c[k - 1], p)]
             chain == CHOOSE c : Is(c)
  <1>1. Path(<<>>, p) /\ <<>> \in V
    <2>1. <<>> \in Seq(Places!Nodes) /\ Len(<<>>) = 0
      BY EmptySeq
    <2>2. Places!IsInjective(<<>>) /\ Places!Linked(<<>>)
      BY <2>1 DEF Places!IsInjective, Places!Linked
    <2>3. QED
      BY <2>1, <2>2 DEF Path
  <1>2. g \in [Nat \X V -> V]
    <2>1. \A s \in V : Places!Longer(s, p) \in V
      BY LongerKeeps DEF Path
    <2>2. QED
      BY <2>1
  <1>3. PICK h : UpTo(h, Size, V, <<>>, g)
    <2> HIDE DEF V, g
    <2>1. QED
      BY <1>1, <1>2, UpToExists DEF Sizes
  <1>4. Is(h)
    <2>1. h \in [0 .. Size -> V] /\ h[0] = <<>> /\ \A k \in 0 .. Size - 1 : h[k + 1] = g[<<k, h[k]>>]
      BY <1>3 DEF UpTo
    <2>2. ASSUME NEW k \in 0 .. Size, k # 0 PROVE h[k] = Places!Longer(h[k - 1], p)
      <3>1. k - 1 \in 0 .. Size - 1 /\ (k - 1) + 1 = k /\ k - 1 \in 0 .. Size
        BY <2>2 DEF Sizes
      <3>2. h[k] = g[<<k - 1, h[k - 1]>>] /\ h[k - 1] \in V
        BY <2>1, <3>1
      <3>3. QED
        BY <3>1, <3>2
    <2> HIDE DEF g, V
    <2>3. QED
      BY <2>1, <2>2
  <1>5. Is(chain)
    BY <1>4
  <1>6. Places!HierarchyFromPcode(p) = chain[Size]
    BY Zenon DEF Places!HierarchyFromPcode
  <1> HIDE DEF chain
  <1>7. chain[0] = <<>> /\ \A k \in 1 .. Size : chain[k] = Places!Longer(chain[k - 1], p)
    BY <1>5 DEF Sizes
  <1> HIDE DEF Is
  <1> DEFINE Good(k) == Path(chain[k], p) /\ (Ended(chain[k], p) \/ Len(chain[k]) = k)
             Bad == {k \in 0 .. Size : ~Good(k)}
  <1>8. Size \notin Bad
    <2> SUFFICES ASSUME Size \in Bad PROVE FALSE
      OBVIOUS
    <2>1. PICK k \in Bad : \A j \in Bad : k <= j
      <3>1. Bad \subseteq Nat /\ Bad # {}
        OBVIOUS
      <3>2. QED
        BY ONLY <3>1, LeastExists
    <2>2. k # 0
      <3>1. Good(0)
        BY <1>1, <1>7
      <3>2. QED
        BY <2>1, <3>1
    <2>3. k \in 1 .. Size /\ k - 1 \in 0 .. Size /\ ~(k <= k - 1) /\ k - 1 \in Nat
      BY <2>1, <2>2 DEF Sizes
    <2>4. k - 1 \notin Bad
      BY <2>1, <2>3
    <2>5. Path(chain[k - 1], p) /\ (Ended(chain[k - 1], p) \/ Len(chain[k - 1]) = k - 1)
      BY <2>3, <2>4
    <2>6. chain[k] = Places!Longer(chain[k - 1], p)
      BY <1>7, <2>3
    <2>7. Path(chain[k], p)
      BY <2>5, <2>6, LongerKeeps
    <2>8. Ended(chain[k], p) \/ Len(chain[k]) = k
      <3>1. CASE Ended(chain[k - 1], p)
        BY <2>6, <3>1 DEF Ended
      <3>2. CASE ~Ended(chain[k - 1], p)
        <4>1. Len(chain[k]) = Len(chain[k - 1]) + 1
          BY <2>5, <2>6, <3>2, LongerIs
        <4>2. QED
          BY <2>3, <2>5, <3>2, <4>1
      <3>3. QED
        BY <3>1, <3>2
    <2>9. QED
      BY <2>1, <2>7, <2>8
  <1>9. Path(chain[Size], p) /\ (Ended(chain[Size], p) \/ Len(chain[Size]) = Size)
    BY <1>8 DEF Sizes
  <1>10. Ended(chain[Size], p)
    <2>1. CASE chain[Size] # <<>>
      BY <1>9, <2>1, FullPathEnds
    <2>2. CASE chain[Size] = <<>> /\ ~Ended(chain[Size], p)
      <3>1. Size = 0
        BY <1>9, <2>2, PathIs
      <3>2. Places!Nodes = {}
        BY <3>1 DEF Places!Nodes
      <3>3. QED
        BY <1>9, <3>2, LongerIs
    <2>3. QED
      BY <2>1, <2>2
  <1>11. QED
    BY <1>6, <1>9, <1>10

\* A path from the root down to p is the one that goes up from p.
LEMMA OnePath ==
    ASSUME Sizes, Places!TypeOK, NEW p, NEW s, Path(s, p), Ended(s, p),
           NEW f, Path(f, p), f # <<>>, parent[f[1]] = Places!Root
    PROVE  s = f
  <1> DEFINE n == Len(s)  d == Len(f)
  <1>1. /\ n \in Nat /\ DOMAIN s = 1 .. n /\ \A k \in 2 .. n : parent[s[k]] = s[k - 1]
        /\ \A k \in 1 .. n : s[k] \in Places!Nodes
        /\ s # <<>> => n > 0 /\ s[1] \in Places!Nodes /\ s[n] = p
        /\ Places!ToSet(s) = {s[k] : k \in 1 .. n}
    BY PathIs
  <1>2. /\ d \in Nat /\ d > 0 /\ DOMAIN f = 1 .. d /\ \A k \in 2 .. d : parent[f[k]] = f[k - 1]
        /\ \A k \in 1 .. d : f[k] \in Places!Nodes
        /\ \A j, k \in 1 .. d : f[j] = f[k] => j = k
        /\ f[d] = p
    BY PathIs
  <1>3. Places!Root \notin Places!Nodes
    BY DEF Places!Root, Places!Nodes
  <1>4. s # <<>>
    <2>1. p \in Places!Nodes
      BY <1>2
    <2>2. s = <<>> => Places!ToSet(s) = {}
      BY PathIs
    <2>3. QED
      BY <2>1, <2>2, LongerIs
  <1>5. n > 0 /\ s[n] = p
    BY <1>1, <1>4
  <1>6. parent[s[1]] \in Places!Nodes => parent[s[1]] \in Places!ToSet(s)
    BY <1>4, LongerIs
  <1> HIDE DEF n, d
  <1> DEFINE Bad == {m \in Nat : m < n /\ m < d /\ s[n - m] # f[d - m]}
  <1>7. \A m \in Nat : m < n /\ m < d => s[n - m] = f[d - m]
    <2> SUFFICES ASSUME NEW i \in Bad PROVE FALSE
      OBVIOUS
    <2>1. PICK m \in Bad : \A j \in Bad : m <= j
      <3>1. Bad \subseteq Nat /\ Bad # {}
        OBVIOUS
      <3>2. QED
        BY ONLY <3>1, LeastExists
    <2>2. m # 0
      BY <1>1, <1>2, <1>5, <2>1
    <2>3. m - 1 \in Nat /\ m - 1 < n /\ m - 1 < d /\ ~(m <= m - 1)
      BY <1>1, <1>2, <2>1, <2>2
    <2>4. s[n - (m - 1)] = f[d - (m - 1)]
      BY <2>1, <2>3
    <2>5. /\ n - (m - 1) \in 2 .. n /\ (n - (m - 1)) - 1 = n - m
          /\ d - (m - 1) \in 2 .. d /\ (d - (m - 1)) - 1 = d - m
      BY <1>1, <1>2, <2>1, <2>2
    <2>6. s[n - m] = f[d - m]
      BY <1>1, <1>2, <2>4, <2>5
    <2>7. QED
      BY <2>1, <2>6
  <1>8. ~(n > d)
    <2> SUFFICES ASSUME n > d PROVE FALSE
      OBVIOUS
    <2>1. d - 1 \in Nat /\ d - 1 < n /\ d - 1 < d /\ d - (d - 1) = 1 /\ n - (d - 1) \in 2 .. n
          /\ (n - (d - 1)) - 1 \in 1 .. n
      BY <1>1, <1>2
    <2>2. s[n - (d - 1)] = f[1]
      BY <1>7, <2>1
    <2>3. parent[f[1]] = s[(n - (d - 1)) - 1]
      BY <1>1, <2>1, <2>2
    <2>4. QED
      BY <1>1, <1>3, <2>1, <2>3
  <1>9. ~(n < d)
    <2> SUFFICES ASSUME n < d PROVE FALSE
      OBVIOUS
    <2>1. /\ n - 1 \in Nat /\ n - 1 < n /\ n - 1 < d /\ n - (n - 1) = 1
          /\ d - (n - 1) \in 2 .. d /\ (d - (n - 1)) - 1 = d - n /\ d - n \in 1 .. d
      BY <1>1, <1>2, <1>5
    <2>2. s[1] = f[d - (n - 1)]
      BY <1>7, <2>1
    <2>3. parent[s[1]] = f[d - n]
      BY <1>2, <2>1, <2>2
    <2>4. PICK k \in 1 .. n : f[d - n] = s[k]
      BY <1>1, <1>2, <1>6, <2>1, <2>3
    <2>5. n - k \in Nat /\ n - k < n /\ n - k < d /\ n - (n - k) = k /\ d - (n - k) \in 1 .. d
          /\ d - (n - k) # d - n
      BY <1>1, <1>2
    <2>6. s[k] = f[d - (n - k)]
      BY <1>7, <2>5
    <2>7. QED
      BY <1>2, <2>1, <2>4, <2>5, <2>6
  <1>10. n = d
    BY <1>1, <1>2, <1>8, <1>9
  <1>11. \A k \in 1 .. n : s[k] = f[k]
    <2> SUFFICES ASSUME NEW k \in 1 .. n PROVE s[k] = f[k]
      OBVIOUS
    <2>1. n - k \in Nat /\ n - k < n /\ n - k < d /\ n - (n - k) = k /\ d - (n - k) = k
      BY <1>1, <1>2, <1>10
    <2>2. s[n - (n - k)] = f[d - (n - k)]
      BY <1>7, <2>1
    <2>3. QED
      BY <2>1, <2>2
  <1>12. QED
    BY <1>10, <1>11, PathIs, SeqEqual DEF n, d

\* A path that ends below no root ends on a ring: who walks on comes back.
LEMMA RingAbove ==
    ASSUME Sizes, Places!TypeOK, NEW p \in Places!Nodes, NEW s, Path(s, p), Ended(s, p)
    PROVE  s # <<>> /\ (parent[Head(s)] = Places!Root \/ Places!InRing(p))
  <1>1. s # <<>>
    <2>1. s = <<>> => Places!ToSet(s) = {}
      BY PathIs
    <2>2. QED
      BY <2>1, LongerIs
  <1>2. /\ Head(s) = s[1] /\ s[1] \in Places!Nodes /\ s[Len(s)] = p /\ DOMAIN s = 1 .. Len(s)
        /\ Places!ToSet(s) = {s[k] : k \in DOMAIN s} /\ Places!ToSet(s) \subseteq Places!Nodes
        /\ \A k \in 2 .. Len(s) : parent[s[k]] = s[k - 1]
        /\ Len(s) \in Nat /\ Len(s) \in DOMAIN s
    BY <1>1, PathIs
  <1>3. SUFFICES ASSUME parent[s[1]] # Places!Root PROVE Places!InRing(p)
    BY <1>1, <1>2
  <1>4. Places!Root \notin Places!Nodes
    BY DEF Places!Root, Places!Nodes
  <1>5. \A u \in Places!ToSet(s) : parent[u] \in Places!ToSet(s)
    <2> SUFFICES ASSUME NEW k \in DOMAIN s PROVE parent[s[k]] \in Places!ToSet(s)
      BY <1>2
    <2>1. CASE k = 1
      <3>1. parent[s[1]] \in Places!Nodes
        BY <1>2, <1>3 DEF Places!TypeOK
      <3>2. QED
        BY <1>1, <2>1, <3>1, LongerIs
    <2>2. CASE k # 1
      <3>1. k \in 2 .. Len(s) /\ k - 1 \in DOMAIN s
        BY <1>2, <2>2
      <3>2. QED
        BY <1>2, <3>1
    <2>3. QED
      BY <2>1, <2>2
  <1> DEFINE V == Places!Nodes \cup {Places!Root}
             g == [x \in Nat \X V |-> IF x[2] \in Places!Nodes THEN parent[x[2]] ELSE Places!Root]
             Is(u) == u = [k \in 0 .. Size |-> IF k = 0 THEN p
                             ELSE IF u[k - 1] \in Places!Nodes THEN parent[u[k - 1]] ELSE Places!Root]
             up == CHOOSE u : Is(u)
  <1>6. PICK h : UpTo(h, Size, V, p, g)
    <2>1. p \in V /\ g \in [Nat \X V -> V]
      BY DEF Places!TypeOK
    <2> HIDE DEF V, g
    <2>2. QED
      BY <2>1, UpToExists DEF Sizes
  <1>7. Is(h)
    <2>1. h \in [0 .. Size -> V] /\ h[0] = p /\ \A k \in 0 .. Size - 1 : h[k + 1] = g[<<k, h[k]>>]
      BY <1>6 DEF UpTo
    <2>2. ASSUME NEW k \in 0 .. Size, k # 0
          PROVE  h[k] = IF h[k - 1] \in Places!Nodes THEN parent[h[k - 1]] ELSE Places!Root
      <3>1. k - 1 \in 0 .. Size - 1 /\ (k - 1) + 1 = k /\ k - 1 \in 0 .. Size /\ k - 1 \in Nat
        BY <2>2 DEF Sizes
      <3>2. h[k] = g[<<k - 1, h[k - 1]>>] /\ h[k - 1] \in V
        BY <2>1, <3>1
      <3>3. QED
        BY <3>1, <3>2
    <2> HIDE DEF g, V
    <2>3. QED
      BY <2>1, <2>2
  <1>8. Is(up)
    BY <1>7
  <1>9. Places!InRing(p) <=> up[Size] # Places!Root
    BY Zenon DEF Places!InRing
  <1> HIDE DEF up
  <1>10. /\ up[0] = p
         /\ \A k \in 1 .. Size : up[k] = IF up[k - 1] \in Places!Nodes THEN parent[up[k - 1]] ELSE Places!Root
    BY <1>8 DEF Sizes
  <1> HIDE DEF Is
  <1> DEFINE Bad == {k \in 0 .. Size : up[k] \notin Places!ToSet(s)}
  <1>11. Size \notin Bad
    <2> SUFFICES ASSUME Size \in Bad PROVE FALSE
      OBVIOUS
    <2>1. PICK k \in Bad : \A j \in Bad : k <= j
      <3>1. Bad \subseteq Nat /\ Bad # {}
        OBVIOUS
      <3>2. QED
        BY ONLY <3>1, LeastExists
    <2>2. k # 0
      BY <1>2, <1>10, <2>1
    <2>3. k \in 1 .. Size /\ k - 1 \in 0 .. Size /\ ~(k <= k - 1)
      BY <2>1, <2>2 DEF Sizes
    <2>4. up[k - 1] \in Places!ToSet(s)
      BY <2>1, <2>3
    <2>5. up[k] = parent[up[k - 1]]
      BY <1>2, <1>10, <2>3, <2>4
    <2>6. QED
      BY <1>5, <2>1, <2>4, <2>5
  <1>12. QED
    BY <1>2, <1>4, <1>9, <1>11 DEF Sizes

\* The unit the index has for a parent and a name, or none.
LEMMA GeoIndexIs ==
    ASSUME Sizes, NEW p, NEW n
    PROVE  /\ Places!GeoIndex(p, n) \in Places!Nodes \cup {Places!Missing}
           /\ Places!GeoIndex(p, n) \in Places!Nodes => parent[Places!GeoIndex(p, n)] = p
  <1> DEFINE S == {u \in Places!Nodes : parent[u] = p /\ unit[u] = n} \cup {Places!Missing}
             B == {Size - x : x \in S}
  <1>1. S \subseteq Int /\ \A x \in S : Size - x \in Nat
    BY DEF Places!Nodes, Places!Missing, Sizes
  <1>2. PICK b \in B : \A c \in B : b <= c
    <2>1. B \subseteq Nat /\ B # {}
      BY <1>1
    <2>2. QED
      BY ONLY <2>1, LeastExists
  <1>3. PICK x \in S : b = Size - x
    BY <1>2
  <1>4. \A y \in S : x >= y
    <2> SUFFICES ASSUME NEW y \in S PROVE x >= y
      OBVIOUS
    <2>1. Size - y \in B /\ x \in Int /\ y \in Int /\ Size \in Int
      BY <1>1 DEF Sizes
    <2>2. Size - x <= Size - y
      BY <1>2, <1>3, <2>1
    <2>3. QED
      BY <2>1, <2>2
  <1>5. Places!GeoIndex(p, n) = CHOOSE y \in S : \A z \in S : y >= z
    BY DEF Places!GeoIndex, Places!Max
  <1> HIDE DEF S
  <1>6. Places!GeoIndex(p, n) \in S
    BY <1>4, <1>5
  <1>7. QED
    BY <1>6 DEF S, Places!Nodes, Places!Missing

\* The units the names lead to, from the root down.
LEMMA FollowedIs ==
    ASSUME Sizes, NEW names
    PROVE  LET id == Places!Followed(names) IN
           /\ id \in [1 .. Depth -> Places!Nodes \cup {Places!Missing}]
           /\ id[1] \in Places!Nodes => parent[id[1]] = Places!Root
           /\ \A k \in 2 .. Depth : id[k] \in Places!Nodes => parent[id[k]] = id[k - 1]
  <1> DEFINE V == Places!Nodes \cup {Places!Missing, Places!Root}
             g == [x \in Nat \X V |-> Places!GeoIndex(x[2], names[x[1] + 1])]
             Is(c) == c = [k \in 1 .. Depth |->
                              Places!GeoIndex(IF k = 1 THEN Places!Root ELSE c[k - 1], names[k])]
             id == CHOOSE c : Is(c)
  <1>1. PICK h : UpTo(h, Depth, V, Places!Root, g)
    <2>1. Places!Root \in V
      OBVIOUS
    <2>2. g \in [Nat \X V -> V]
      BY GeoIndexIs
    <2> HIDE DEF V, g
    <2>3. QED
      BY <2>1, <2>2, UpToExists DEF Sizes
  <1> DEFINE c == [k \in 1 .. Depth |-> h[k]]
  <1>2. /\ h \in [0 .. Depth -> V] /\ h[0] = Places!Root
        /\ \A k \in 0 .. Depth - 1 : h[k + 1] = g[<<k, h[k]>>]
    BY <1>1 DEF UpTo
  <1>3. Is(c)
    <2>1. ASSUME NEW k \in 1 .. Depth
          PROVE  c[k] = Places!GeoIndex(IF k = 1 THEN Places!Root ELSE c[k - 1], names[k])
      <3>1. k - 1 \in 0 .. Depth - 1 /\ (k - 1) + 1 = k /\ k - 1 \in 0 .. Depth /\ k - 1 \in Nat
        BY DEF Sizes
      <3>2. h[k] = g[<<k - 1, h[k - 1]>>] /\ h[k - 1] \in V
        BY <1>2, <3>1
      <3>3. h[k] = Places!GeoIndex(h[k - 1], names[k])
        BY <3>1, <3>2
      <3>4. h[k - 1] = IF k = 1 THEN Places!Root ELSE c[k - 1]
        <4>1. CASE k = 1
          BY <1>2, <4>1
        <4>2. CASE k # 1
          <5>1. k - 1 \in 1 .. Depth
            BY <4>2 DEF Sizes
          <5>2. QED
            BY <4>2, <5>1
        <4>3. QED
          BY <4>1, <4>2
      <3>5. QED
        BY <3>3, <3>4
    <2> HIDE DEF V, g
    <2>2. QED
      BY <2>1
  <1>4. Is(id)
    BY <1>3
  <1>5. Places!Followed(names) = id
    BY Zenon DEF Places!Followed
  <1> HIDE DEF id
  <1>6. /\ DOMAIN id = 1 .. Depth /\ id = [k \in 1 .. Depth |-> id[k]]
        /\ \A k \in 1 .. Depth :
              id[k] = Places!GeoIndex(IF k = 1 THEN Places!Root ELSE id[k - 1], names[k])
    BY <1>4
  <1>7. \A k \in 1 .. Depth :
           /\ id[k] \in Places!Nodes \cup {Places!Missing}
           /\ id[k] \in Places!Nodes => parent[id[k]] = IF k = 1 THEN Places!Root ELSE id[k - 1]
    <2> HIDE DEF Is
    <2>1. QED
      BY <1>6, GeoIndexIs
  <1>8. id \in [1 .. Depth -> Places!Nodes \cup {Places!Missing}]
    BY <1>6, <1>7
  <1>9. 1 \in 1 .. Depth /\ \A k \in 2 .. Depth : k \in 1 .. Depth /\ k # 1
    BY DEF Sizes
  <1> HIDE DEF Is
  <1>10. QED
    BY <1>5, <1>7, <1>8, <1>9

\* Names that all lead to a unit lead down a path from the root.
LEMMA ResolvedIsPath ==
    ASSUME Sizes, NEW names,
           \A k \in 1 .. Depth : Places!Followed(names)[k] # Places!Missing
    PROVE  LET f == Places!Followed(names) IN
           Path(f, f[Depth]) /\ Len(f) = Depth /\ f # <<>> /\ parent[f[1]] = Places!Root
  <1> DEFINE f == Places!Followed(names)
  <1>1. /\ f \in [1 .. Depth -> Places!Nodes]
        /\ parent[f[1]] = Places!Root
        /\ \A k \in 2 .. Depth : parent[f[k]] = f[k - 1]
    <2>1. \A k \in 1 .. Depth : f[k] \in Places!Nodes
      <3>1. f \in [1 .. Depth -> Places!Nodes \cup {Places!Missing}]
        BY FollowedIs
      <3>2. \A k \in 1 .. Depth : f[k] # Places!Missing
        OBVIOUS
      <3> HIDE DEF f
      <3>3. QED
        BY <3>1, <3>2
    <2>2. 1 \in 1 .. Depth /\ \A k \in 2 .. Depth : k \in 1 .. Depth
      BY DEF Sizes
    <2>3. QED
      BY <2>1, <2>2, FollowedIs
  <1> HIDE DEF f
  <1>2. f \in Seq(Places!Nodes) /\ Len(f) = Depth /\ DOMAIN f = 1 .. Depth
    <2>1. f \in Seq(Places!Nodes)
      BY <1>1, SeqDef DEF Sizes
    <2>2. DOMAIN f = 1 .. Depth
      BY <1>1
    <2>3. QED
      BY <2>1, <2>2, LenProperties DEF Sizes
  <1>3. f # <<>>
    BY <1>2, EmptySeq DEF Sizes
  <1>4. Places!Root \notin Places!Nodes
    BY DEF Places!Root, Places!Nodes
  <1> DEFINE Bad == {j \in Nat : \E i \in 1 .. Depth : j \in 1 .. Depth /\ i # j /\ f[i] = f[j]}
  <1>5. Places!IsInjective(f)
    <2> SUFFICES ASSUME Bad # {} PROVE FALSE
      <3>1. \A i, j \in 1 .. Depth : f[i] = f[j] /\ i # j => j \in Bad
        BY DEF Sizes
      <3>2. QED
        BY <1>2, <3>1 DEF Places!IsInjective
    <2>1. PICK j \in Bad : \A k \in Bad : j <= k
      <3>1. Bad \subseteq Nat /\ Bad # {}
        OBVIOUS
      <3>2. QED
        BY ONLY <3>1, LeastExists
    <2>2. PICK i \in 1 .. Depth : j \in 1 .. Depth /\ i # j /\ f[i] = f[j]
      BY <2>1
    <2>3. i \in Bad /\ j <= i /\ i > 1 /\ i \in 2 .. Depth /\ i - 1 \in 1 .. Depth
      <3>1. i \in Nat /\ j \in Nat /\ j \in 1 .. Depth
        BY <2>2 DEF Sizes
      <3>2. i \in Bad
        BY <2>2, <3>1
      <3>3. j <= i
        BY <2>1, <3>2
      <3>4. QED
        BY <2>2, <3>1, <3>2, <3>3 DEF Sizes
    <2>4. parent[f[i]] = f[i - 1] /\ f[i - 1] \in Places!Nodes
      BY <1>1, <2>3
    <2>5. j # 1
      BY <1>1, <1>4, <2>2, <2>4
    <2>6. j \in 2 .. Depth /\ j - 1 \in 1 .. Depth /\ j - 1 \in Nat /\ ~(j <= j - 1) /\ i - 1 # j - 1
      BY <2>2, <2>3, <2>5 DEF Sizes
    <2>7. f[i - 1] = f[j - 1]
      BY <1>1, <2>2, <2>4, <2>6
    <2>8. j - 1 \in Bad
      BY <2>3, <2>6, <2>7
    <2>9. QED
      BY <2>1, <2>6, <2>8
  <1>6. QED
    BY <1>1, <1>2, <1>3, <1>5 DEF Path, Places!Linked, f

\* Every record: the unit it is given is the last of the units it is given.
LEMMA RecordsArePlaced ==
    ASSUME Sizes, Places!TypeOK, NEW r \in Places!Records
    PROVE  LET h == Places!GeoHierarchy(r)  low == Places!GeoLowestId(r) IN
           \/ Places!ToSet(h) \subseteq {Places!Slug} /\ low \notin Places!Nodes
           \/ /\ Places!Last(h) = low /\ h = Places!HierarchyFromPcode(low)
              /\ Places!Linked(h) /\ Places!IsInjective(h)
              /\ parent[Head(h)] = Places!Root \/ (r.pcode # Places!Missing /\ Places!InRing(low))
              /\ r.pcode = Places!Missing => Len(h) = Depth
  <1> DEFINE h == Places!GeoHierarchy(r)  low == Places!GeoLowestId(r)
             f == Places!Followed(r.names)
  <1>1. Places!Slug \notin Places!Nodes /\ Places!Missing \notin Places!Nodes /\ Places!Missing # Places!Slug
        /\ 1 \in 1 .. Depth /\ Depth \in 1 .. Depth /\ Size + 1 \notin Places!Nodes
    BY DEF Places!Slug, Places!Missing, Places!Nodes, Sizes
  <1>2. CASE r.pcode # Places!Missing
    <2>1. h = Places!HierarchyFromPcode(low) /\ low = r.pcode
      BY <1>2 DEF Places!GeoHierarchy, Places!GeoLowestId
    <2>2. Path(h, low) /\ Ended(h, low)
      BY <2>1, HierarchyIs
    <2>3. CASE low \in Places!Nodes
      <3>1. h # <<>> /\ (parent[Head(h)] = Places!Root \/ Places!InRing(low))
        BY <2>2, <2>3, RingAbove
      <3>2. Places!Last(h) = low
        <4>1. h[Len(h)] = low
          BY <2>2, <3>1, PathIs
        <4>2. QED
          BY <4>1 DEF Places!Last
      <3>3. Places!Linked(h) /\ Places!IsInjective(h)
        BY <2>2 DEF Path
      <3>4. QED
        BY <1>2, <2>1, <3>1, <3>2, <3>3
    <2>4. CASE low \notin Places!Nodes
      <3>1. h = <<>>
        <4>1. h # <<>> => h[Len(h)] = low /\ h[Len(h)] \in Places!Nodes
          BY <2>2, PathIs
        <4>2. QED
          BY <2>4, <4>1
      <3>2. Places!ToSet(h) = {}
        <4>1. Path(<<>>, low)
          BY <2>2, <3>1
        <4>2. Places!ToSet(<<>>) = {<<>>[k] : k \in DOMAIN <<>>} /\ DOMAIN <<>> = 1 .. 0
          BY <4>1, PathIs, EmptySeq
        <4>3. QED
          BY <3>1, <4>2
      <3>3. QED
        BY <2>4, <3>2
    <2>5. QED
      BY <2>3, <2>4
  <1>3. CASE r.pcode = Places!Missing /\ \A k \in 1 .. Depth : f[k] # Places!Missing
    <2>1. Path(f, f[Depth]) /\ Len(f) = Depth /\ f # <<>> /\ parent[f[1]] = Places!Root
      BY <1>3, ResolvedIsPath
    <2>2. Places!ResolveGeoChain(r.names) = f
      BY <1>3 DEF Places!ResolveGeoChain
    <2>3. h = f /\ low = f[Depth]
      BY <1>3, <2>1, <2>2 DEF Places!GeoHierarchy, Places!GeoLowestId, Places!GeoIds,
         Places!Last
    <2>4. h = Places!HierarchyFromPcode(low)
      <3>1. Path(Places!HierarchyFromPcode(low), low) /\ Ended(Places!HierarchyFromPcode(low), low)
        BY HierarchyIs
      <3> HIDE DEF f, h, low
      <3>2. QED
        BY <2>1, <2>3, <3>1, OnePath
    <2>5. Places!Linked(h) /\ Places!IsInjective(h)
      BY <2>1, <2>3 DEF Path
    <2>6. Places!Last(h) = low
      BY <2>1, <2>3 DEF Places!Last
    <2>7. parent[Head(h)] = Places!Root
      <3>1. Head(f) = f[1]
        BY <2>1, PathIs
      <3>2. QED
        BY <2>1, <2>3, <3>1
    <2>8. Len(h) = Depth
      BY <2>1, <2>3
    <2> HIDE DEF h, low, f
    <2>9. QED
      BY <2>4, <2>5, <2>6, <2>7, <2>8 DEF h, low
  <1>4. CASE r.pcode = Places!Missing /\ \E k \in 1 .. Depth : f[k] = Places!Missing
    <2> DEFINE e == [k \in 1 .. Depth |-> Places!Slug]
    <2>1. Places!ResolveGeoChain(r.names) = <<>>
      BY <1>4 DEF Places!ResolveGeoChain
    <2>2. Places!GeoIds(r.names) = e
      BY <2>1, Zenon DEF Places!GeoIds
    <2>3. e \in Seq({Places!Slug}) /\ Len(e) = Depth
      <3>1. e \in [1 .. Depth -> {Places!Slug}] /\ Depth \in Nat
        BY DEF Sizes
      <3>2. e \in Seq({Places!Slug})
        BY <3>1, SeqDef
      <3>3. DOMAIN e = 1 .. Depth
        OBVIOUS
      <3>4. QED
        BY <3>1, <3>2, <3>3, LenProperties
    <2>4. h = e /\ low = Places!Slug
      BY <1>1, <1>4, <2>2, <2>3 DEF Places!GeoHierarchy, Places!GeoLowestId, Places!Last
    <2>5. Places!ToSet(h) \subseteq {Places!Slug}
      BY <2>4 DEF Places!ToSet
    <2>6. QED
      BY <1>1, <2>4, <2>5
  <1>5. QED
    BY <1>2, <1>3, <1>4

\* The places of the bulk sample: each the path of a unit that is on no ring.
LEMMA PlacesHoldFromType ==
    ASSUME Sizes, Places!TypeOK
    PROVE  Places!PlacesHold
  <1>1. ASSUME NEW u \in Places!Nodes, ~Places!InRing(u)
        PROVE  LET c == Places!HierarchyFromPcode(u) IN
               c # <<>> /\ parent[Head(c)] = Places!Root /\ Places!Linked(c)
    <2>1. Path(Places!HierarchyFromPcode(u), u) /\ Ended(Places!HierarchyFromPcode(u), u)
      BY HierarchyIs
    <2>2. Places!Linked(Places!HierarchyFromPcode(u))
      BY <2>1 DEF Path
    <2>3. QED
      BY <1>1, <2>1, <2>2, RingAbove
  <1>2. \A c \in Places!Places(Places!Nodes) :
           c # <<>> /\ parent[Head(c)] = Places!Root /\ Places!Linked(c)
    BY <1>1 DEF Places!Places
  <1>3. QED
    BY <1>2, RecordsArePlaced DEF Places!PlacesHold

-----------------------------------------------------------------------------
(* SampleData.  The rows of the fixtures.                                   *)

Person(k) == Seeds!Csv("person", k)
House(k) == Seeds!Csv("household", k)
Own(sort, k) == Seeds!Row(sort, k)

LEMMA RecIs ==
    \A space, sort, k : /\ Seeds!Rec(space, sort, k).space = space
                        /\ Seeds!Rec(space, sort, k).kind = sort
                        /\ Seeds!Rec(space, sort, k).n = k
  BY DEF Seeds!Rec

LEMMA IdIs ==
    \A sort, k : /\ Seeds!Csv(sort, k).space = "csv" /\ Seeds!Csv(sort, k).kind = sort
                 /\ Seeds!Csv(sort, k).n = k
                 /\ Own(sort, k).space = "row" /\ Own(sort, k).kind = sort /\ Own(sort, k).n = k
                 /\ Seeds!Bulk(sort).space = "bulk" /\ Seeds!Bulk(sort).kind = sort
                 /\ Seeds!Bulk(sort).n = 1
                 /\ Person(k).space = "csv" /\ Person(k).kind = "person" /\ Person(k).n = k
                 /\ House(k).space = "csv" /\ House(k).kind = "household" /\ House(k).n = k
  BY RecIs DEF Own, Person, House, Seeds!Csv, Seeds!Row, Seeds!Bulk

\* A row of table t: number i.
RowOf(t, i, f) ==
    \/ /\ t = 1 /\ i \in 1 .. 2 /\ f.id = Own("member", i) /\ f.link = House(i)
       /\ f.person \in {Person(1), Person(3)}
    \/ /\ t = 2 /\ i \in 1 .. 3 /\ f.id = Own("land", i)
       /\ f.link \in {Person(1), Person(2)} /\ f.person = Nobody
    \/ /\ t = 3 /\ i \in 1 .. 2 /\ f.id = Own("crop", i)
       /\ f.link \in {Own("land", 1), Own("land", 3)} /\ f.person = Nobody
    \/ /\ t = 4 /\ i \in 1 .. 3 /\ f.id = Own("membership", i) /\ f.link = Person(i)
       /\ f.person = Nobody
    \/ /\ t = 5 /\ i \in 1 .. 2 /\ f.id = Own("score", i) /\ f.link = House(i)
       /\ f.person = Nobody

LEMMA TablesAre ==
    /\ DOMAIN Seeds!Tables = 1 .. 5
    /\ DOMAIN Seeds!Tables[1] = 1 .. 2 /\ DOMAIN Seeds!Tables[2] = 1 .. 3
    /\ DOMAIN Seeds!Tables[3] = 1 .. 2 /\ DOMAIN Seeds!Tables[4] = 1 .. 3
    /\ DOMAIN Seeds!Tables[5] = 1 .. 2
    /\ \A t \in 1 .. 5 : \A i \in DOMAIN Seeds!Tables[t] :
          /\ RowOf(t, i, Seeds!Tables[t][i])
          /\ Seeds!Tables[t][i] = [id |-> Seeds!Tables[t][i].id, link |-> Seeds!Tables[t][i].link,
                                   person |-> Seeds!Tables[t][i].person]
  <1> DEFINE T == Seeds!Tables
             Fix(sort, k, l) == [id |-> Own(sort, k), link |-> l, person |-> Nobody]
             Mem(k, l, p) == [id |-> Own("member", k), link |-> l, person |-> p]
  <1>1. /\ T[1] = <<Mem(1, House(1), Person(1)), Mem(2, House(2), Person(3))>>
        /\ T[2] = <<Fix("land", 1, Person(1)), Fix("land", 2, Person(1)), Fix("land", 3, Person(2))>>
        /\ T[3] = <<Fix("crop", 1, Own("land", 1)), Fix("crop", 2, Own("land", 3))>>
        /\ T[4] = <<Fix("membership", 1, Person(1)), Fix("membership", 2, Person(2)),
                    Fix("membership", 3, Person(3))>>
        /\ T[5] = <<Fix("score", 1, House(1)), Fix("score", 2, House(2))>>
        /\ DOMAIN T = 1 .. 5
    BY DEF Seeds!Tables, Seeds!Member, Seeds!Fixture, Own, Person, House
  <1> HIDE DEF T
  <1>2. DOMAIN T[1] = 1 .. 2 /\ \A i \in 1 .. 2 : RowOf(1, i, T[1][i])
            /\ T[1][i] = [id |-> T[1][i].id, link |-> T[1][i].link, person |-> T[1][i].person]
    BY <1>1 DEF RowOf
  <1>3. DOMAIN T[2] = 1 .. 3 /\ \A i \in 1 .. 3 : RowOf(2, i, T[2][i])
            /\ T[2][i] = [id |-> T[2][i].id, link |-> T[2][i].link, person |-> T[2][i].person]
    BY <1>1 DEF RowOf
  <1>4. DOMAIN T[3] = 1 .. 2 /\ \A i \in 1 .. 2 : RowOf(3, i, T[3][i])
            /\ T[3][i] = [id |-> T[3][i].id, link |-> T[3][i].link, person |-> T[3][i].person]
    BY <1>1 DEF RowOf
  <1>5. DOMAIN T[4] = 1 .. 3 /\ \A i \in 1 .. 3 : RowOf(4, i, T[4][i])
            /\ T[4][i] = [id |-> T[4][i].id, link |-> T[4][i].link, person |-> T[4][i].person]
    BY <1>1 DEF RowOf
  <1>6. DOMAIN T[5] = 1 .. 2 /\ \A i \in 1 .. 2 : RowOf(5, i, T[5][i])
            /\ T[5][i] = [id |-> T[5][i].id, link |-> T[5][i].link, person |-> T[5][i].person]
    BY <1>1 DEF RowOf
  <1>7. \A t \in 1 .. 5 : t = 1 \/ t = 2 \/ t = 3 \/ t = 4 \/ t = 5
    OBVIOUS
  <1>8. QED
    BY <1>1, <1>2, <1>3, <1>4, <1>5, <1>6, <1>7 DEF T

LEMMA FixturesAre ==
    /\ \A f : f \in Seeds!Fixtures <=>
          \E t \in 1 .. 5 : \E i \in DOMAIN Seeds!Tables[t] : f = Seeds!Tables[t][i]
    /\ \A f \in Seeds!Fixtures : f.id.space = "row"
    /\ \A o \in Seeds!OwnIds : o.space = "row"
    /\ \A k \in 1 .. 3 : Own("land", k) \in Seeds!OwnIds
  <1>1. \A f : f \in Seeds!Fixtures <=>
          \E t \in 1 .. 5 : \E i \in DOMAIN Seeds!Tables[t] : f = Seeds!Tables[t][i]
    BY TablesAre DEF Seeds!Fixtures, Seeds!ToSet
  <1>2. \A f \in Seeds!Fixtures : f.id.space = "row"
    <2> SUFFICES ASSUME NEW t \in 1 .. 5, NEW i \in DOMAIN Seeds!Tables[t]
                 PROVE  Seeds!Tables[t][i].id.space = "row"
      BY <1>1
    <2>1. RowOf(t, i, Seeds!Tables[t][i])
      BY TablesAre
    <2>2. QED
      BY <2>1, IdIs DEF RowOf
  <1>3. \A o \in Seeds!OwnIds : o.space = "row"
    BY <1>2 DEF Seeds!OwnIds
  <1>4. \A k \in 1 .. 3 : Own("land", k) \in Seeds!OwnIds
    <2> SUFFICES ASSUME NEW k \in 1 .. 3 PROVE Own("land", k) \in Seeds!OwnIds
      OBVIOUS
    <2>1. 2 \in 1 .. 5 /\ k \in DOMAIN Seeds!Tables[2] /\ RowOf(2, k, Seeds!Tables[2][k])
      BY TablesAre
    <2>2. Seeds!Tables[2][k] \in Seeds!Fixtures
      BY <1>1, <2>1
    <2>3. Seeds!Tables[2][k].id = Own("land", k)
      BY <2>1 DEF RowOf
    <2>4. QED
      BY <2>2, <2>3 DEF Seeds!OwnIds
  <1>5. QED
    BY <1>1, <1>2, <1>3, <1>4

\* The links that leave the fixtures.
LEMMA OutsideIs ==
    /\ Seeds!Outside("person") = {Person(k) : k \in 1 .. 3}
    /\ Seeds!Outside("household") = {House(k) : k \in 1 .. 2}
  <1> DEFINE L == {f.link : f \in Seeds!Fixtures}
  <1>1. \A l \in L \ Seeds!OwnIds : \/ \E k \in 1 .. 3 : l = Person(k)
                                    \/ \E k \in 1 .. 2 : l = House(k)
    <2> SUFFICES ASSUME NEW t \in 1 .. 5, NEW i \in DOMAIN Seeds!Tables[t],
                        Seeds!Tables[t][i].link \notin Seeds!OwnIds
                 PROVE  \/ \E k \in 1 .. 3 : Seeds!Tables[t][i].link = Person(k)
                        \/ \E k \in 1 .. 2 : Seeds!Tables[t][i].link = House(k)
      BY FixturesAre
    <2>1. RowOf(t, i, Seeds!Tables[t][i])
      BY TablesAre
    <2>2. Seeds!Tables[t][i].link \notin {Own("land", 1), Own("land", 3)}
      BY FixturesAre
    <2>3. QED
      BY <2>1, <2>2 DEF RowOf
  <1>2. ASSUME NEW k \in 1 .. 3 PROVE Person(k) \in L \ Seeds!OwnIds
    <2>1. 4 \in 1 .. 5 /\ k \in DOMAIN Seeds!Tables[4] /\ RowOf(4, k, Seeds!Tables[4][k])
      BY TablesAre
    <2>2. Seeds!Tables[4][k] \in Seeds!Fixtures
      BY <2>1, FixturesAre
    <2>3. Seeds!Tables[4][k].link = Person(k)
      BY <2>1 DEF RowOf
    <2>4. Person(k) \notin Seeds!OwnIds
      BY FixturesAre, IdIs
    <2>5. QED
      BY <2>2, <2>3, <2>4
  <1>3. ASSUME NEW k \in 1 .. 2 PROVE House(k) \in L \ Seeds!OwnIds
    <2>1. 5 \in 1 .. 5 /\ k \in DOMAIN Seeds!Tables[5] /\ RowOf(5, k, Seeds!Tables[5][k])
      BY TablesAre
    <2>2. Seeds!Tables[5][k] \in Seeds!Fixtures
      BY <2>1, FixturesAre
    <2>3. Seeds!Tables[5][k].link = House(k)
      BY <2>1 DEF RowOf
    <2>4. House(k) \notin Seeds!OwnIds
      BY FixturesAre, IdIs
    <2>5. QED
      BY <2>2, <2>3, <2>4
  <1> HIDE DEF L
  <1>4. Seeds!Outside("person") = {l \in L \ Seeds!OwnIds : l.kind # "household"}
    BY DEF Seeds!Outside, L
  <1>5. Seeds!Outside("household") = {l \in L \ Seeds!OwnIds : l.kind = "household"}
    BY DEF Seeds!Outside, L
  <1>6. \A k : Person(k).kind # "household" /\ House(k).kind = "household"
    BY IdIs
  <1>7. QED
    BY <1>1, <1>2, <1>3, <1>4, <1>5, <1>6

\* Records of one space and kind.
RecsOf(space, sort, N) == {Seeds!Rec(space, sort, n) : n \in N}

LEMMA RecordsAre ==
    ASSUME NEW N \in SUBSET Int, IsFiniteSet(N), N # {}, NEW space, NEW sort
    PROVE  LET s == Seeds!Records(space, sort, N)  D == RecsOf(space, sort, N) IN
           /\ Len(s) \in Nat \ {0}
           /\ \A i \in 1 .. Len(s) : s[i] \in D /\ Cardinality(Seeds!Before(D, s[i])) = i - 1
           /\ Seeds!ToSet(s) = D
  <1> DEFINE D == RecsOf(space, sort, N)
             f == [n \in N |-> Seeds!Rec(space, sort, n)]
  <1>1. IsFiniteSet(D)
    <2>1. f \in Surjection(N, D)
      BY DEF Surjection, RecsOf
    <2> HIDE DEF f, D
    <2>2. QED
      BY <2>1, FS_Surjection
  <1>2. D # {} /\ \A r \in D : r.n \in N /\ r = Seeds!Rec(space, sort, r.n)
    BY RecIs DEF RecsOf
  <1>3. (\A r \in D : r.n \in Int) /\ \A q, r \in D : q.n = r.n => q = r
    BY <1>2
  <1>4. Seeds!Records(space, sort, N) = Seeds!AsSeq(D)
    BY DEF Seeds!Records, RecsOf
  <1> HIDE DEF D
  <1>5. Cardinality(D) # 0
    BY <1>1, <1>2, FS_EmptySet
  <1>6. QED
    BY <1>1, <1>3, <1>4, <1>5, AsSeqIs DEF D

\* The households of every pack, and the people of this one.
Homed == Seeds!PackHomes \subseteq Nat /\ Seeds!PackHomes # {} /\ IsFiniteSet(Seeds!PackHomes)
Packed == Homed /\ pack \subseteq Nat /\ IsFiniteSet(pack)
PackHouses == RecsOf("pack", "household", Seeds!PackHomes)
Persons == IF pack # {} THEN RecsOf("pack", "person", pack) ELSE RecsOf("csv", "person", 1 .. 3)
Houses == IF pack # {} THEN PackHouses ELSE RecsOf("csv", "household", 1 .. 2)

LEMMA LoadedIs ==
    ASSUME Packed
    PROVE  /\ Len(Seeds!Individuals) \in Nat \ {0} /\ Len(Seeds!Households) \in Nat \ {0}
           /\ \A i \in 1 .. Len(Seeds!Individuals) :
                 /\ Seeds!Individuals[i] \in Persons
                 /\ Cardinality(Seeds!Before(Persons, Seeds!Individuals[i])) = i - 1
           /\ \A i \in 1 .. Len(Seeds!Households) :
                 /\ Seeds!Households[i] \in Houses
                 /\ Cardinality(Seeds!Before(Houses, Seeds!Households[i])) = i - 1
           /\ Seeds!Loaded = Persons \cup Houses
  <1>1. IsFiniteSet(1 .. 3) /\ IsFiniteSet(1 .. 2)
    <2>1. \A b \in Int : IsFiniteSet(1 .. b)
      BY FS_Interval
    <2>2. 3 \in Int /\ 2 \in Int
      OBVIOUS
    <2>3. QED
      BY <2>1, <2>2, Zenon
  <1>2. /\ Len(Seeds!Individuals) \in Nat \ {0}
        /\ \A i \in 1 .. Len(Seeds!Individuals) :
              /\ Seeds!Individuals[i] \in Persons
              /\ Cardinality(Seeds!Before(Persons, Seeds!Individuals[i])) = i - 1
        /\ Seeds!ToSet(Seeds!Individuals) = Persons
    <2>1. CASE pack # {}
      <3>1. Seeds!Individuals = Seeds!Records("pack", "person", pack) /\ Persons = RecsOf("pack", "person", pack)
        BY <2>1 DEF Seeds!Individuals, Persons
      <3>2. QED
        BY <2>1, <3>1, RecordsAre DEF Packed
    <2>2. CASE pack = {}
      <3>1. Seeds!Individuals = Seeds!Records("csv", "person", 1 .. 3) /\ Persons = RecsOf("csv", "person", 1 .. 3)
        BY <2>2 DEF Seeds!Individuals, Persons
      <3>2. 1 .. 3 # {} /\ 1 .. 3 \in SUBSET Int
        OBVIOUS
      <3>3. QED
        BY <1>1, <3>1, <3>2, RecordsAre
    <2>3. QED
      BY <2>1, <2>2
  <1>3. /\ Len(Seeds!Households) \in Nat \ {0}
        /\ \A i \in 1 .. Len(Seeds!Households) :
              /\ Seeds!Households[i] \in Houses
              /\ Cardinality(Seeds!Before(Houses, Seeds!Households[i])) = i - 1
        /\ Seeds!ToSet(Seeds!Households) = Houses
    <2>1. CASE pack # {}
      <3> DEFINE N == Seeds!PackHomes
      <3>1. Seeds!Households = Seeds!Records("pack", "household", N)
            /\ Houses = RecsOf("pack", "household", N)
        BY <2>1 DEF Seeds!Households, Houses, PackHouses
      <3>2. N # {} /\ N \in SUBSET Int /\ IsFiniteSet(N)
        BY DEF Packed, Homed
      <3> HIDE DEF N
      <3>3. QED
        BY <3>1, <3>2, RecordsAre
    <2>2. CASE pack = {}
      <3>1. Seeds!Households = Seeds!Records("csv", "household", 1 .. 2) /\ Houses = RecsOf("csv", "household", 1 .. 2)
        BY <2>2 DEF Seeds!Households, Houses
      <3>2. 1 .. 2 # {} /\ 1 .. 2 \in SUBSET Int
        OBVIOUS
      <3>3. QED
        BY <1>1, <3>1, <3>2, RecordsAre
    <2>3. QED
      BY <2>1, <2>2
  <1>4. QED
    BY <1>2, <1>3 DEF Seeds!Loaded

LEMMA LoadedKinds ==
    ASSUME Packed
    PROVE  /\ \A r \in Persons : r.kind = "person" /\ r.space \in {"csv", "pack"}
           /\ \A r \in Houses : r.kind = "household" /\ r.space \in {"csv", "pack"}
           /\ pack = {} => /\ \A r \in Persons : \E k \in 1 .. 3 : r = Person(k)
                           /\ \A k \in 1 .. 3 : Person(k) \in Persons
                           /\ \A r \in Houses : \E k \in 1 .. 2 : r = House(k)
                           /\ \A k \in 1 .. 2 : House(k) \in Houses
           /\ pack # {} => /\ \A r \in Persons : r.space = "pack" /\ r.n \in pack
                                                 /\ r = Seeds!Rec("pack", "person", r.n)
                           /\ Houses = PackHouses /\ \A r \in Houses : r.space = "pack"
  <1>1. CASE pack = {}
    <2>1. Persons = RecsOf("csv", "person", 1 .. 3) /\ Houses = RecsOf("csv", "household", 1 .. 2)
      BY <1>1 DEF Persons, Houses
    <2>2. Persons = {Person(k) : k \in 1 .. 3} /\ Houses = {House(k) : k \in 1 .. 2}
      BY <2>1 DEF RecsOf, Person, House, Seeds!Csv
    <2>3. QED
      BY <1>1, <2>2, IdIs
  <1>2. CASE pack # {}
    <2>1. Persons = RecsOf("pack", "person", pack) /\ Houses = PackHouses
      BY <1>2 DEF Persons, Houses
    <2>2. QED
      BY <1>2, <2>1, RecIs DEF RecsOf, PackHouses
  <1>3. QED
    BY <1>1, <1>2

\* How many of the links stand before one.
LEMMA PersonsBefore ==
    \A k \in 1 .. 3 : Cardinality(Seeds!Before({Person(j) : j \in 1 .. 3}, Person(k))) = k - 1
  <1> DEFINE P == {Person(j) : j \in 1 .. 3}
  <1>1. \A j, k \in 1 .. 3 : Person(j) = Person(k) => j = k
    BY IdIs
  <1>2. \A k \in 1 .. 3 : Seeds!Before(P, Person(k)) = {Person(j) : j \in 1 .. (k - 1)}
    <2> SUFFICES ASSUME NEW k \in 1 .. 3
                 PROVE  Seeds!Before(P, Person(k)) = {Person(j) : j \in 1 .. (k - 1)}
      OBVIOUS
    <2>1. \A j \in 1 .. 3 : Person(j).n < Person(k).n <=> j \in 1 .. (k - 1)
      BY IdIs
    <2>2. 1 .. (k - 1) \subseteq 1 .. 3
      OBVIOUS
    <2>3. QED
      BY <2>1, <2>2 DEF Seeds!Before
  <1>3. Seeds!Before(P, Person(1)) = {}
    BY <1>2
  <1>4. Seeds!Before(P, Person(2)) = {Person(1)}
    <2>1. 1 .. (2 - 1) = {1}
      OBVIOUS
    <2>2. QED
      BY <1>2, <2>1
  <1>5. Seeds!Before(P, Person(3)) = {Person(1)} \cup {Person(2)}
    <2>1. 1 .. (3 - 1) = {1, 2}
      OBVIOUS
    <2>2. QED
      BY <1>2, <2>1
  <1>6. Cardinality({}) = 0 /\ Cardinality({Person(1)}) = 1 /\ IsFiniteSet({Person(1)})
    BY FS_EmptySet, FS_Singleton
  <1>7. Cardinality({Person(1)} \cup {Person(2)}) = 2
    <2>1. Person(2) \notin {Person(1)}
      BY <1>1
    <2>2. QED
      BY <1>6, <2>1, FS_AddElement
  <1> HIDE DEF P
  <1>8. ASSUME NEW k \in 1 .. 3 PROVE Cardinality(Seeds!Before(P, Person(k))) = k - 1
    <2>1. CASE k = 1
      BY <1>3, <1>6, <2>1
    <2>2. CASE k = 2
      BY <1>4, <1>6, <2>2
    <2>3. CASE k = 3
      BY <1>5, <1>7, <2>3
    <2>4. QED
      BY <2>1, <2>2, <2>3
  <1>9. QED
    BY <1>8 DEF P

LEMMA HousesBefore ==
    \A k \in 1 .. 2 : Cardinality(Seeds!Before({House(j) : j \in 1 .. 2}, House(k))) = k - 1
  <1> DEFINE H == {House(j) : j \in 1 .. 2}
  <1>1. H = {House(1), House(2)} /\ House(1).n = 1 /\ House(2).n = 2
    <2>1. 1 .. 2 = {1, 2}
      OBVIOUS
    <2>2. QED
      BY <2>1, IdIs
  <1>2. Seeds!Before(H, House(1)) = {} /\ Seeds!Before(H, House(2)) = {House(1)}
    <2> HIDE DEF H
    <2>1. QED
      BY <1>1 DEF Seeds!Before
  <1>3. Cardinality({}) = 0 /\ Cardinality({House(1)}) = 1
    BY FS_EmptySet, FS_Singleton
  <1> HIDE DEF H
  <1>4. ASSUME NEW k \in 1 .. 2 PROVE Cardinality(Seeds!Before(H, House(k))) = k - 1
    <2>1. CASE k = 1
      BY <1>2, <1>3, <2>1
    <2>2. CASE k = 2
      BY <1>2, <1>3, <2>2
    <2>3. QED
      BY <2>1, <2>2
  <1>5. QED
    BY <1>4 DEF H

\* A person is in no household or in one of those loaded.
LEMMA HomesAre ==
    ASSUME Packed, NEW r \in Persons
    PROVE  Seeds!HomeOf(r) = Nobody \/ Seeds!HomeOf(r) \in Houses
  <1>1. CASE pack = {}
    <2>1. r.space = "csv"
      BY <1>1, LoadedKinds, IdIs
    <2>2. Seeds!HomeOf(r) \in {House(1), House(2)}
      BY <2>1 DEF Seeds!HomeOf, House
    <2>3. QED
      BY <1>1, <2>2, LoadedKinds
  <1>2. CASE pack # {}
    <2>1. r.space = "pack"
      BY <1>2, LoadedKinds
    <2>2. \/ Seeds!HomeOf(r) = Nobody
          \/ \E h \in Seeds!PackHomes : Seeds!HomeOf(r) = Seeds!Rec("pack", "household", h)
      BY <2>1 DEF Seeds!HomeOf
    <2>3. QED
      BY <1>2, <2>2, LoadedKinds DEF PackHouses, RecsOf
  <1>3. QED
    BY <1>1, <1>2

\* Whom the links are moved to.
LEMMA RemapIs ==
    ASSUME Packed
    PROVE  /\ DOMAIN Seeds!Remap = {Person(k) : k \in 1 .. 3} \cup {House(k) : k \in 1 .. 2}
           /\ \A k \in 1 .. 3 :
                 /\ Seeds!Remap[Person(k)] \in Persons
                 /\ pack = {} => Seeds!Remap[Person(k)] = Person(k)
                 /\ pack # {} => Seeds!Remap[Person(k)]
                                   = Seeds!Individuals[((k - 1) % Len(Seeds!Individuals)) + 1]
           /\ \A k \in 1 .. 2 :
                 /\ Seeds!Remap[House(k)] \in Houses
                 /\ pack = {} => Seeds!Remap[House(k)] = House(k)
                 /\ pack # {} => Seeds!Remap[House(k)]
                                   = Seeds!Households[((k - 1) % Len(Seeds!Households)) + 1]
  <1> DEFINE P == {Person(k) : k \in 1 .. 3}
             H == {House(k) : k \in 1 .. 2}
             onP == Seeds!Onto(P, Seeds!Individuals)
             onH == Seeds!Onto(H, Seeds!Households)
             n == Len(Seeds!Individuals)
             m == Len(Seeds!Households)
  <1>1. /\ DOMAIN Seeds!Remap = P \cup H
        /\ \A o \in P : Seeds!Remap[o] = onP[o]
        /\ \A o \in H \ P : Seeds!Remap[o] = onH[o]
    <2>1. DOMAIN onP = P /\ DOMAIN onH = H
      <3>1. Seeds!Individuals # <<>> /\ Seeds!Households # <<>>
        BY LoadedIs
      <3>2. QED
        BY <3>1 DEF Seeds!Onto
    <2> HIDE DEF onP, onH, P, H
    <2>2. Seeds!Remap = Seeds!Joined(onP, onH)
      BY OutsideIs DEF Seeds!Remap, onP, onH, P, H
    <2>3. QED
      BY <2>1, <2>2 DEF Seeds!Joined
  <1>2. /\ \A o \in P : onP[o] = IF o \in Seeds!Loaded THEN o
             ELSE Seeds!Individuals[(Cardinality(Seeds!Before(P \ Seeds!Loaded, o)) % n) + 1]
        /\ \A o \in H : onH[o] = IF o \in Seeds!Loaded THEN o
             ELSE Seeds!Households[(Cardinality(Seeds!Before(H \ Seeds!Loaded, o)) % m) + 1]
    <2>1. Seeds!Individuals # <<>> /\ Seeds!Households # <<>>
      BY LoadedIs
    <2>2. QED
      BY <2>1, SeedsCount DEF Seeds!Onto
  <1>3. H \cap P = {}
    BY IdIs
  <1>4. /\ n \in Nat \ {0} /\ m \in Nat \ {0} /\ Seeds!Loaded = Persons \cup Houses
        /\ \A i \in 1 .. n : Seeds!Individuals[i] \in Persons
        /\ \A i \in 1 .. m : Seeds!Households[i] \in Houses
    BY LoadedIs
  <1> HIDE DEF n, m, onP, onH
  <1>5. CASE pack = {}
    <2>1. P \subseteq Seeds!Loaded /\ H \subseteq Seeds!Loaded
      BY <1>4, <1>5, LoadedKinds
    <2>2. (\A o \in P : Seeds!Remap[o] = o) /\ \A o \in H : Seeds!Remap[o] = o
      BY <1>1, <1>2, <1>3, <2>1
    <2>3. QED
      BY <1>1, <1>5, <2>2, LoadedKinds
  <1>6. CASE pack # {}
    <2>1. P \cap Seeds!Loaded = {} /\ H \cap Seeds!Loaded = {}
      <3>1. \A r \in Seeds!Loaded : r.space = "pack"
        BY <1>4, <1>6, LoadedKinds, RecIs
      <3>2. (\A r \in P : r.space = "csv") /\ \A r \in H : r.space = "csv"
        BY IdIs
      <3>3. QED
        BY <3>1, <3>2
    <2>2. P \ Seeds!Loaded = P /\ H \ Seeds!Loaded = H
      BY <2>1
    <2>3. \A k \in 1 .. 3 : Seeds!Remap[Person(k)] = Seeds!Individuals[((k - 1) % n) + 1]
      <3> SUFFICES ASSUME NEW k \in 1 .. 3
                   PROVE  Seeds!Remap[Person(k)] = Seeds!Individuals[((k - 1) % n) + 1]
        OBVIOUS
      <3>1. Person(k) \in P /\ Cardinality(Seeds!Before(P, Person(k))) = k - 1
        BY PersonsBefore
      <3> HIDE DEF P
      <3>2. QED
        BY <1>1, <1>2, <2>1, <2>2, <3>1
    <2>4. \A k \in 1 .. 3 : ((k - 1) % n) + 1 \in 1 .. n
      BY <1>4
    <2>5. \A k \in 1 .. 2 : Seeds!Remap[House(k)] = Seeds!Households[((k - 1) % m) + 1]
      <3> SUFFICES ASSUME NEW k \in 1 .. 2
                   PROVE  Seeds!Remap[House(k)] = Seeds!Households[((k - 1) % m) + 1]
        OBVIOUS
      <3>1. House(k) \in H /\ Cardinality(Seeds!Before(H, House(k))) = k - 1
        BY HousesBefore
      <3>2. House(k) \notin P
        BY <1>3, <3>1
      <3> HIDE DEF H, P
      <3>3. QED
        BY <1>1, <1>2, <2>1, <2>2, <3>1, <3>2
    <2>6. \A k \in 1 .. 2 : ((k - 1) % m) + 1 \in 1 .. m
      BY <1>4
    <2> HIDE DEF P, H
    <2>7. QED
      BY <1>1, <1>4, <1>6, <2>3, <2>4, <2>5, <2>6 DEF n, m, P, H
  <1>7. QED
    BY <1>5, <1>6

\* What a row is attached as: the record its link is moved to, or another row.
LEMMA MappedIs ==
    ASSUME Packed
    PROVE  /\ \A k \in 1 .. 3 : Seeds!Mapped(Seeds!Remap, Person(k)) = Seeds!Remap[Person(k)]
           /\ \A k \in 1 .. 2 : Seeds!Mapped(Seeds!Remap, House(k)) = Seeds!Remap[House(k)]
           /\ \A sort, k : Seeds!Mapped(Seeds!Remap, Own(sort, k)) = Own(sort, k)
  <1>1. \A sort, k : Own(sort, k) \notin DOMAIN Seeds!Remap
    <2> SUFFICES ASSUME NEW sort, NEW k, Own(sort, k) \in DOMAIN Seeds!Remap PROVE FALSE
      OBVIOUS
    <2>1. \/ \E j \in 1 .. 3 : Own(sort, k) = Person(j)
          \/ \E j \in 1 .. 2 : Own(sort, k) = House(j)
      BY RemapIs
    <2>2. QED
      BY <2>1, IdIs
  <1>2. QED
    BY <1>1, RemapIs DEF Seeds!Mapped

\* The rows of a table that stay, with what they link to.
LEMMA AttachedIs ==
    ASSUME Packed, NEW f \in Seeds!Attached(Seeds!Remap)
    PROVE  \E t \in 1 .. 5 : \E i \in DOMAIN Seeds!Tables[t] :
              LET e == Seeds!Tables[t][i] IN
              /\ f.id = e.id /\ f.link = Seeds!Mapped(Seeds!Remap, e.link)
              /\ Seeds!OnePerRecord(Seeds!Tables[t]) /\ e.link \in DOMAIN Seeds!Remap =>
                    \A j \in 1 .. (i - 1) :
                       Seeds!Mapped(Seeds!Remap, Seeds!Tables[t][j].link) # f.link
  <1> DEFINE R == Seeds!Remap
  <1>1. PICK t \in 1 .. 5 : f \in Seeds!RemapLinks(Seeds!Tables[t], R)
    BY TablesAre DEF Seeds!Attached
  <1> DEFINE T == Seeds!Tables[t]
  <1>2. PICK i \in DOMAIN T :
           /\ f = [T[i] EXCEPT !.link = Seeds!Mapped(R, @)]
           /\ ~ \E j \in 1 .. (i - 1) :
                 /\ Seeds!OnePerRecord(T) /\ T[i].link \in DOMAIN R
                 /\ R[T[i].link] = Seeds!Mapped(R, T[j].link)
    <2> HIDE DEF R, T
    <2>1. QED
      BY <1>1 DEF Seeds!RemapLinks, T
  <1>3. T[i] = [id |-> T[i].id, link |-> T[i].link, person |-> T[i].person]
    BY TablesAre
  <1> HIDE DEF R, T
  <1>4. f.id = T[i].id /\ f.link = Seeds!Mapped(R, T[i].link)
    BY <1>2, <1>3
  <1>5. T[i].link \in DOMAIN R => R[T[i].link] = f.link
    BY <1>4 DEF Seeds!Mapped
  <1>6. QED
    BY <1>2, <1>4, <1>5 DEF R, T

\* A parcel always stays: its table has more than one for a person.
LEMMA ParcelsStay ==
    ASSUME Packed, NEW k \in 1 .. 3
    PROVE  \E f \in Seeds!Attached(Seeds!Remap) : f.id = Own("land", k)
  <1> DEFINE R == Seeds!Remap
             T == Seeds!Tables[2]
             f == [T[k] EXCEPT !.link = Seeds!Mapped(R, @)]
  <1>1. /\ 2 \in DOMAIN Seeds!Tables /\ k \in DOMAIN T /\ T[k].id = Own("land", k)
        /\ T[k].person = Nobody
        /\ T[k] = [id |-> T[k].id, link |-> T[k].link, person |-> T[k].person]
    <2>1. 2 \in 1 .. 5 /\ k \in DOMAIN T /\ RowOf(2, k, T[k])
      BY TablesAre
    <2>2. QED
      BY <2>1, TablesAre DEF RowOf
  <1>2. ~ Seeds!OnePerRecord(T)
    <2>1. /\ {1, 2, 3} \subseteq DOMAIN T
          /\ \A i \in {1, 2, 3} : T[i].link \in {Person(1), Person(2)}
      <3>1. \A i \in 1 .. 3 : i \in DOMAIN T /\ RowOf(2, i, T[i])
        BY TablesAre
      <3>2. QED
        BY <3>1 DEF RowOf
    <2> HIDE DEF T
    <2>2. QED
      BY <2>1 DEF Seeds!OnePerRecord
  <1> HIDE DEF R, T
  <1>3. f \in Seeds!RemapLinks(T, R)
    BY <1>1, <1>2 DEF Seeds!RemapLinks
  <1>4. f.id = Own("land", k) /\ f.person = Nobody
    BY <1>1
  <1> HIDE DEF f
  <1>5. f \in Seeds!Attached(R)
    BY <1>1, <1>3, <1>4 DEF Seeds!Attached, T
  <1>6. QED
    BY <1>4, <1>5 DEF R

LEMMA NewRowsAre ==
    LET ids == {f.id : f \in Seeds!Attached(Seeds!Remap)} IN
    /\ DOMAIN Seeds!NewRows = Seeds!Loaded \cup ids
    /\ \A r \in Seeds!Loaded :
          Seeds!NewRows[r] = IF r.kind = "person" THEN Seeds!HomeOf(r) ELSE Nobody
    /\ \A r \in ids \ Seeds!Loaded :
          \E f \in Seeds!Attached(Seeds!Remap) : f.id = r /\ Seeds!NewRows[r] = f.link
  <1> DEFINE A == Seeds!Attached(Seeds!Remap)
             ids == {f.id : f \in A}
             link(r) == IF r.kind = "person" THEN Seeds!HomeOf(r) ELSE Nobody
             one == [r \in Seeds!Loaded |-> link(r)]
             two == [r \in ids |-> (CHOOSE f \in A : f.id = r).link]
  <1>1. Seeds!NewRows = Seeds!Joined(one, two)
    BY DEF Seeds!NewRows
  <1>2. \A r \in ids : \E f \in A : f.id = r /\ two[r] = f.link
    OBVIOUS
  <1>3. DOMAIN one = Seeds!Loaded /\ DOMAIN two = ids /\ \A r \in Seeds!Loaded : one[r] = link(r)
    OBVIOUS
  <1> HIDE DEF one, two, ids
  <1>4. /\ DOMAIN Seeds!NewRows = Seeds!Loaded \cup ids
        /\ \A r \in Seeds!Loaded : Seeds!NewRows[r] = link(r)
        /\ \A r \in ids \ Seeds!Loaded : Seeds!NewRows[r] = two[r]
    BY <1>1, <1>3 DEF Seeds!Joined
  <1>5. QED
    BY <1>2, <1>4 DEF ids

\* The rows of the fixtures that a load inserts.
LEMMA NewLinks ==
    ASSUME Packed, NEW r \in DOMAIN Seeds!NewRows \ Seeds!Loaded
    PROVE  \E i \in 1 .. 3 :
              \/ r = Own("member", i) /\ Seeds!NewRows[r] \in Houses
              \/ r = Own("land", i) /\ Seeds!NewRows[r] \in Persons
              \/ r = Own("crop", i) /\ Seeds!NewRows[r] \in {Own("land", 1), Own("land", 3)}
              \/ /\ r = Own("membership", i) /\ Seeds!NewRows[r] = Seeds!Remap[Person(i)]
                 /\ \A j \in 1 .. (i - 1) : Seeds!Remap[Person(j)] # Seeds!Remap[Person(i)]
              \/ /\ i < 3 /\ r = Own("score", i) /\ Seeds!NewRows[r] = Seeds!Remap[House(i)]
                 /\ \A j \in 1 .. (i - 1) : Seeds!Remap[House(j)] # Seeds!Remap[House(i)]
  <1> DEFINE R == Seeds!Remap
  <1>1. PICK f \in Seeds!Attached(R) : f.id = r /\ Seeds!NewRows[r] = f.link
    BY NewRowsAre
  <1>1a. PICK t \in 1 .. 5 : \E i \in DOMAIN Seeds!Tables[t] :
              LET e == Seeds!Tables[t][i] IN
              /\ f.id = e.id /\ f.link = Seeds!Mapped(R, e.link)
              /\ Seeds!OnePerRecord(Seeds!Tables[t]) /\ e.link \in DOMAIN R =>
                    \A j \in 1 .. (i - 1) :
                       Seeds!Mapped(R, Seeds!Tables[t][j].link) # f.link
    BY <1>1, AttachedIs
  <1>2. PICK i \in DOMAIN Seeds!Tables[t] :
              /\ f.id = Seeds!Tables[t][i].id /\ f.link = Seeds!Mapped(R, Seeds!Tables[t][i].link)
              /\ Seeds!OnePerRecord(Seeds!Tables[t]) /\ Seeds!Tables[t][i].link \in DOMAIN R =>
                    \A j \in 1 .. (i - 1) :
                       Seeds!Mapped(R, Seeds!Tables[t][j].link) # f.link
    BY <1>1a
  <1> DEFINE T == Seeds!Tables[t]
  <1>3. i \in 1 .. 3 /\ RowOf(t, i, T[i]) /\ \A j \in 1 .. (i - 1) : j \in DOMAIN T /\ RowOf(t, j, T[j])
    <2>1. DOMAIN T = 1 .. 2 \/ DOMAIN T = 1 .. 3
      BY TablesAre
    <2>2. \A j \in DOMAIN T : RowOf(t, j, T[j])
      BY TablesAre
    <2> HIDE DEF T
    <2>3. QED
      BY <1>2, <2>1, <2>2 DEF T
  <1>4. \A k \in 1 .. 3 : /\ Seeds!Mapped(R, Person(k)) = R[Person(k)] /\ R[Person(k)] \in Persons
                          /\ Person(k) \in DOMAIN R
    BY MappedIs, RemapIs
  <1>5. \A k \in 1 .. 2 : /\ Seeds!Mapped(R, House(k)) = R[House(k)] /\ R[House(k)] \in Houses
                          /\ House(k) \in DOMAIN R
    BY MappedIs, RemapIs
  <1>6. \A k : Seeds!Mapped(R, Own("land", k)) = Own("land", k)
    BY MappedIs
  <1>7. t \in {4, 5} => Seeds!OnePerRecord(T)
    <2> SUFFICES ASSUME t \in {4, 5}, NEW j \in DOMAIN T, NEW k \in DOMAIN T, T[j].link = T[k].link
                 PROVE  j = k
      BY DEF Seeds!OnePerRecord
    <2>1. RowOf(t, j, T[j]) /\ RowOf(t, k, T[k])
      BY TablesAre
    <2>2. \/ T[j].link = Person(j) /\ T[k].link = Person(k)
          \/ T[j].link = House(j) /\ T[k].link = House(k)
      BY <2>1 DEF RowOf
    <2>3. QED
      BY <2>2, IdIs
  <1> HIDE DEF R, T
  <1>8. CASE t = 1
    BY <1>1, <1>2, <1>3, <1>5, <1>8 DEF RowOf, T
  <1>9. CASE t = 2
    BY <1>1, <1>2, <1>3, <1>4, <1>9 DEF RowOf, T
  <1>10. CASE t = 3
    BY <1>1, <1>2, <1>3, <1>6, <1>10 DEF RowOf, T
  <1>11. CASE t = 4
    <2>1. f.id = Own("membership", i) /\ f.link = R[Person(i)] /\ T[i].link = Person(i)
      BY <1>2, <1>3, <1>4, <1>11 DEF RowOf, T
    <2>2. ASSUME NEW j \in 1 .. (i - 1) PROVE R[Person(j)] # R[Person(i)]
      <3>1. j \in 1 .. 3 /\ T[j].link = Person(j)
        BY <1>3, <1>11 DEF RowOf
      <3>2. Seeds!Mapped(R, T[j].link) # f.link
        BY <1>2, <1>3, <1>4, <1>7, <1>11, <2>1 DEF T
      <3>3. QED
        BY <1>4, <2>1, <3>1, <3>2
    <2>3. QED
      BY <1>1, <1>3, <2>1, <2>2 DEF R
  <1>12. CASE t = 5
    <2>1. f.id = Own("score", i) /\ f.link = R[House(i)] /\ T[i].link = House(i) /\ i \in 1 .. 2
      BY <1>2, <1>3, <1>5, <1>12 DEF RowOf, T
    <2>2. ASSUME NEW j \in 1 .. (i - 1) PROVE R[House(j)] # R[House(i)]
      <3>1. j \in 1 .. 2 /\ T[j].link = House(j)
        BY <1>3, <1>12, <2>1 DEF RowOf
      <3>2. Seeds!Mapped(R, T[j].link) # f.link
        BY <1>2, <1>5, <1>7, <1>12, <2>1 DEF T
      <3>3. QED
        BY <1>5, <2>1, <3>1, <3>2
    <2>3. i < 3
      BY <2>1
    <2>4. QED
      BY <1>1, <1>3, <2>1, <2>2, <2>3 DEF R
  <1>13. QED
    BY <1>8, <1>9, <1>10, <1>11, <1>12

\* What LinksHold says of a row, in a registry with the records D.
Linked(r, link, D) ==
    r.kind # "household" =>
        \/ r.kind = "person" /\ link = Nobody
        \/ link \in D /\ link.kind = Seeds!KindOfLink(r.kind)

\* The rows of a load are where those are whom they describe.
LEMMA NewRowsLink ==
    ASSUME Packed
    PROVE  /\ \A r \in DOMAIN Seeds!NewRows : Linked(r, Seeds!NewRows[r], DOMAIN Seeds!NewRows)
           /\ \A r \in DOMAIN Seeds!NewRows :
                 /\ r.space # "bulk"
                 /\ Seeds!NewRows[r] = Nobody \/ Seeds!NewRows[r].space # "bulk"
           /\ Seeds!Loaded \subseteq DOMAIN Seeds!NewRows
  <1>1. Seeds!Loaded = Persons \cup Houses /\ Seeds!Loaded \subseteq DOMAIN Seeds!NewRows
    BY LoadedIs, NewRowsAre
  <1>2. \A k \in {1, 3} : Own("land", k) \in DOMAIN Seeds!NewRows
    <2>1. \A k \in 1 .. 3 : \E f \in Seeds!Attached(Seeds!Remap) : f.id = Own("land", k)
      BY ParcelsStay
    <2>2. QED
      BY <2>1, NewRowsAre
  <1>3. /\ \A k \in 1 .. 3 : Seeds!Remap[Person(k)] \in Persons
        /\ \A k \in 1 .. 3 : k < 3 => Seeds!Remap[House(k)] \in Houses
    BY RemapIs
  <1>4. /\ \A r \in Persons : r.kind = "person" /\ r.space # "bulk"
        /\ \A r \in Houses : r.kind = "household" /\ r.space # "bulk"
    BY LoadedKinds
  <1>5. ASSUME NEW r \in DOMAIN Seeds!NewRows \ Seeds!Loaded
        PROVE  /\ Seeds!NewRows[r] \in DOMAIN Seeds!NewRows
               /\ Seeds!NewRows[r].kind = Seeds!KindOfLink(r.kind)
               /\ r.space # "bulk" /\ Seeds!NewRows[r].space # "bulk"
    <2>1. PICK i \in 1 .. 3 :
              \/ r = Own("member", i) /\ Seeds!NewRows[r] \in Houses
              \/ r = Own("land", i) /\ Seeds!NewRows[r] \in Persons
              \/ r = Own("crop", i) /\ Seeds!NewRows[r] \in {Own("land", 1), Own("land", 3)}
              \/ r = Own("membership", i) /\ Seeds!NewRows[r] = Seeds!Remap[Person(i)]
              \/ i < 3 /\ r = Own("score", i) /\ Seeds!NewRows[r] = Seeds!Remap[House(i)]
      BY NewLinks
    <2>2. CASE r = Own("member", i) /\ Seeds!NewRows[r] \in Houses
      BY <1>1, <1>4, <2>2, IdIs DEF Seeds!KindOfLink
    <2>3. CASE r = Own("land", i) /\ Seeds!NewRows[r] \in Persons
      BY <1>1, <1>4, <2>3, IdIs DEF Seeds!KindOfLink
    <2>4. CASE r = Own("crop", i) /\ Seeds!NewRows[r] \in {Own("land", 1), Own("land", 3)}
      BY <1>2, <2>4, IdIs DEF Seeds!KindOfLink
    <2>5. CASE r = Own("membership", i) /\ Seeds!NewRows[r] = Seeds!Remap[Person(i)]
      BY <1>1, <1>3, <1>4, <2>5, IdIs DEF Seeds!KindOfLink
    <2>6. CASE i < 3 /\ r = Own("score", i) /\ Seeds!NewRows[r] = Seeds!Remap[House(i)]
      BY <1>1, <1>3, <1>4, <2>6, IdIs DEF Seeds!KindOfLink
    <2>7. QED
      BY <2>1, <2>2, <2>3, <2>4, <2>5, <2>6
  <1>6. ASSUME NEW r \in Seeds!Loaded
        PROVE  /\ Linked(r, Seeds!NewRows[r], DOMAIN Seeds!NewRows) /\ r.space # "bulk"
               /\ Seeds!NewRows[r] = Nobody \/ Seeds!NewRows[r].space # "bulk"
    <2>1. CASE r \in Persons
      <3>1. Seeds!NewRows[r] = Seeds!HomeOf(r)
        BY <1>4, <2>1, NewRowsAre
      <3>2. Seeds!NewRows[r] = Nobody \/ Seeds!NewRows[r] \in Houses
        BY <2>1, <3>1, HomesAre
      <3>3. QED
        BY <1>1, <1>4, <2>1, <3>2 DEF Linked, Seeds!KindOfLink
    <2>2. CASE r \in Houses
      <3>1. r.kind = "household" /\ Seeds!NewRows[r] = Nobody
        BY <1>4, <2>2, NewRowsAre
      <3>2. QED
        BY <1>4, <2>2, <3>1 DEF Linked
    <2>3. QED
      BY <1>1, <2>1, <2>2
  <1>7. \A r \in DOMAIN Seeds!NewRows : Linked(r, Seeds!NewRows[r], DOMAIN Seeds!NewRows)
    BY <1>5, <1>6 DEF Linked
  <1>8. QED
    BY <1>1, <1>5, <1>6, <1>7

\* Which person a membership describes, which household a score: the one of its
\* number, in the CSV or among the people of the pack.
Placed(P) == RecsOf("pack", "person", P)
Nth(r, P, i) == r \in Placed(P) /\ Cardinality(Seeds!Before(Placed(P), r)) = i - 1
NthHouse(r, i) == r \in PackHouses /\ Cardinality(Seeds!Before(PackHouses, r)) = i - 1
Describes(r, link, P) ==
    /\ r.kind = "membership" =>
          \E i \in 1 .. 3 : r = Own("membership", i) /\ (link = Person(i) \/ Nth(link, P, i))
    /\ r.kind = "score" =>
          \E i \in 1 .. 2 : r = Own("score", i) /\ (link = House(i) \/ NthHouse(link, i))

LEMMA NewRowsDescribe ==
    ASSUME Packed, NEW r \in DOMAIN Seeds!NewRows
    PROVE  Describes(r, Seeds!NewRows[r], pack)
  <1>1. CASE r \in Seeds!Loaded
    <2>1. r.kind \in {"person", "household"}
      BY <1>1, LoadedIs, LoadedKinds
    <2>2. QED
      BY <2>1 DEF Describes
  <1>2. CASE r \notin Seeds!Loaded
    <2>1. PICK i \in 1 .. 3 :
              \/ r.kind \notin {"membership", "score"}
              \/ /\ r = Own("membership", i) /\ Seeds!NewRows[r] = Seeds!Remap[Person(i)]
                 /\ \A j \in 1 .. (i - 1) : Seeds!Remap[Person(j)] # Seeds!Remap[Person(i)]
              \/ /\ i < 3 /\ r = Own("score", i) /\ Seeds!NewRows[r] = Seeds!Remap[House(i)]
                 /\ \A j \in 1 .. (i - 1) : Seeds!Remap[House(j)] # Seeds!Remap[House(i)]
      BY <1>2, NewLinks, IdIs
    <2>2. CASE r.kind \notin {"membership", "score"}
      BY <2>2 DEF Describes
    <2>3. CASE /\ r = Own("membership", i) /\ Seeds!NewRows[r] = Seeds!Remap[Person(i)]
               /\ \A j \in 1 .. (i - 1) : Seeds!Remap[Person(j)] # Seeds!Remap[Person(i)]
      <3> DEFINE n == Len(Seeds!Individuals)  s == Seeds!Individuals
      <3>1. r.kind = "membership"
        BY <2>3, IdIs
      <3>2. CASE pack = {}
        <4>1. Seeds!NewRows[r] = Person(i)
          BY <2>3, <3>2, RemapIs
        <4>2. QED
          BY <2>3, <3>1, <4>1 DEF Describes
      <3>3. CASE pack # {}
        <4>1. n \in Nat \ {0} /\ \A k \in 1 .. n : s[k] \in Persons /\ Cardinality(Seeds!Before(Persons, s[k])) = k - 1
          BY LoadedIs
        <4>2. \A k \in 1 .. 3 : Seeds!Remap[Person(k)] = s[((k - 1) % n) + 1]
          BY <3>3, RemapIs
        <4>3. Persons = Placed(pack)
          BY <3>3 DEF Persons, Placed
        <4> HIDE DEF n, s
        <4>4. i <= n
          <5> SUFFICES ASSUME i > n PROVE FALSE
            BY <4>1
          <5>1. \/ i = 2 /\ n = 1 /\ ((2 - 1) % n) + 1 = 1 /\ ((1 - 1) % n) + 1 = 1
                \/ i = 3 /\ n = 1 /\ ((3 - 1) % n) + 1 = 1 /\ ((1 - 1) % n) + 1 = 1
                \/ i = 3 /\ n = 2 /\ ((3 - 1) % n) + 1 = 1 /\ ((1 - 1) % n) + 1 = 1
            BY <4>1
          <5>2. 1 \in 1 .. (i - 1) /\ 1 \in 1 .. 3
            BY <5>1
          <5>3. Seeds!Remap[Person(i)] = s[1] /\ Seeds!Remap[Person(1)] = s[1]
            BY <4>2, <5>1, <5>2
          <5>4. QED
            BY <2>3, <5>2, <5>3
        <4>5. i \in 1 .. n /\ ((i - 1) % n) + 1 = i
          BY <4>1, <4>4
        <4>6. Seeds!NewRows[r] = s[i]
          BY <2>3, <4>2, <4>5
        <4>7. Nth(s[i], pack, i)
          BY <4>1, <4>3, <4>5 DEF Nth
        <4>8. QED
          BY <2>3, <3>1, <4>6, <4>7 DEF Describes
      <3>4. QED
        BY <3>2, <3>3
    <2>4. CASE /\ i < 3 /\ r = Own("score", i) /\ Seeds!NewRows[r] = Seeds!Remap[House(i)]
               /\ \A j \in 1 .. (i - 1) : Seeds!Remap[House(j)] # Seeds!Remap[House(i)]
      <3>1. r.kind = "score" /\ i \in 1 .. 2
        BY <2>4, IdIs
      <3>2. CASE pack = {}
        BY <2>4, <3>1, <3>2, RemapIs DEF Describes
      <3>3. CASE pack # {}
        <4> DEFINE m == Len(Seeds!Households)  h == Seeds!Households
        <4>1. /\ m \in Nat \ {0}
              /\ \A k \in 1 .. m : /\ h[k] \in PackHouses
                                   /\ Cardinality(Seeds!Before(PackHouses, h[k])) = k - 1
          BY <3>3, LoadedIs, LoadedKinds
        <4>2. \A k \in 1 .. 2 : Seeds!Remap[House(k)] = h[((k - 1) % m) + 1]
          BY <3>3, RemapIs
        <4> HIDE DEF m, h
        <4>3. i <= m
          <5> SUFFICES ASSUME i > m PROVE FALSE
            BY <4>1
          <5>1. i = 2 /\ m = 1 /\ ((2 - 1) % m) + 1 = 1 /\ ((1 - 1) % m) + 1 = 1
            BY <3>1, <4>1
          <5>2. Seeds!Remap[House(i)] = h[1] /\ Seeds!Remap[House(1)] = h[1] /\ 1 \in 1 .. (i - 1)
            BY <4>2, <5>1
          <5>3. QED
            BY <2>4, <5>2
        <4>4. i \in 1 .. m /\ ((i - 1) % m) + 1 = i
          BY <3>1, <4>1, <4>3
        <4>5. Seeds!NewRows[r] = h[i]
          BY <2>4, <3>1, <4>2, <4>4
        <4>6. NthHouse(h[i], i)
          BY <4>1, <4>4 DEF NthHouse
        <4>7. QED
          BY <2>4, <3>1, <4>5, <4>6 DEF Describes
      <3>4. QED
        BY <3>2, <3>3
    <2>5. QED
      BY <2>1, <2>2, <2>3, <2>4
  <1>3. QED
    BY <1>1, <1>2

\* Two of them never describe one record.
LEMMA DescribeOne ==
    ASSUME NEW P \in SUBSET Nat, NEW q, NEW r, NEW link, Describes(q, link, P), Describes(r, link, P),
           q.kind = r.kind, q.kind \in {"membership", "score"}
    PROVE  q = r
  <1>1. /\ \A x \in Placed(P) : x.space = "pack"
        /\ \A k : Person(k).space = "csv" /\ House(k).space = "csv" /\ Person(k).n = k /\ House(k).n = k
        /\ \A x \in PackHouses : x.space = "pack"
    BY IdIs, RecIs DEF Placed, PackHouses, RecsOf
  <1>2. CASE q.kind = "membership"
    <2>1. PICK i \in 1 .. 3 : q = Own("membership", i) /\ (link = Person(i) \/ Nth(link, P, i))
      BY <1>2 DEF Describes
    <2>2. PICK j \in 1 .. 3 : r = Own("membership", j) /\ (link = Person(j) \/ Nth(link, P, j))
      BY <1>2 DEF Describes
    <2>3. i = j
      BY <1>1, <2>1, <2>2 DEF Nth
    <2>4. QED
      BY <2>1, <2>2, <2>3
  <1>3. CASE q.kind = "score"
    <2>1. PICK i \in 1 .. 2 : q = Own("score", i) /\ (link = House(i) \/ NthHouse(link, i))
      BY <1>3 DEF Describes
    <2>2. PICK j \in 1 .. 2 : r = Own("score", j) /\ (link = House(j) \/ NthHouse(link, j))
      BY <1>3 DEF Describes
    <2>3. i = j
      BY <1>1, <2>1, <2>2 DEF NthHouse
    <2>4. QED
      BY <2>1, <2>2, <2>3
  <1>4. QED
    BY <1>2, <1>3

\* A pack that grows at its end leaves everybody's number.
LEMMA GrowsAtEnd ==
    ASSUME NEW P \in SUBSET Nat, NEW n \in Nat, \A m \in P : m < n,
           NEW r, NEW link, Describes(r, link, P)
    PROVE  Describes(r, link, P \cup {n})
  <1> DEFINE Q == P \cup {n}
  <1>1. ASSUME NEW x \in Placed(P)
        PROVE  x \in Placed(Q) /\ Seeds!Before(Placed(Q), x) = Seeds!Before(Placed(P), x)
    <2>1. x.n \in P /\ \A y \in Placed(P) : y \in Placed(Q)
      BY RecIs DEF Placed, RecsOf
    <2>2. \A y \in Placed(Q) : y \in Placed(P) \/ y.n = n
      BY RecIs DEF Placed, RecsOf
    <2>3. ~(n < x.n)
      <3> DEFINE m == x.n
      <3>1. m \in Nat /\ m < n
        BY <2>1
      <3> HIDE DEF m
      <3>2. ~(n < m)
        BY <3>1
      <3>3. QED
        BY <3>2 DEF m
    <2>4. QED
      BY <2>1, <2>2, <2>3 DEF Seeds!Before
  <1>2. \A i : Nth(link, P, i) => Nth(link, Q, i)
    BY <1>1 DEF Nth
  <1>3. QED
    BY <1>2 DEF Describes

Bulks == DOMAIN Seeds!BulkRows
NoBulk == Nobody \notin Bulks

\* The rows of the registry: they link where they should, the bulk sample by
\* itself; what the last load read is there; and as long as packs grow at their
\* end, a row has the number of whom it describes.
RowsInv ==
    /\ Packed
    /\ links = [r \in DOMAIN links |-> links[r]]
    /\ Seeds!LinksHold
    /\ \A r \in DOMAIN links : r \in Bulks => links[r] = Seeds!BulkRows[r]
    /\ \A r \in DOMAIN links : links[r] \in Bulks => r \in Bulks
    /\ source = {-1} \/ source \subseteq pack
    /\ source = pack => /\ DOMAIN Seeds!NewRows \subseteq DOMAIN links
                        /\ {Seeds!QueueId(r) : r \in Seeds!Loaded} \subseteq queue
    /\ ~spliced => \A r \in DOMAIN links : Describes(r, links[r], pack)

LEMMA BulksAre ==
    /\ Bulks = {Seeds!Bulk("person"), Seeds!Bulk("land"), Seeds!Bulk("crop")}
    /\ \A r \in Bulks : r.space = "bulk"
    /\ Seeds!BulkRows[Seeds!Bulk("person")] = Nobody
    /\ Seeds!BulkRows[Seeds!Bulk("land")] = Seeds!Bulk("person")
    /\ Seeds!BulkRows[Seeds!Bulk("crop")] = Seeds!Bulk("land")
  <1> DEFINE p == Seeds!Bulk("person")  l == Seeds!Bulk("land")  c == Seeds!Bulk("crop")
  <1>1. p # l /\ p # c /\ l # c
    BY IdIs
  <1>2. p.space = "bulk" /\ l.space = "bulk" /\ c.space = "bulk"
    BY IdIs
  <1>3. Seeds!BulkRows = [r \in {p, l, c} |-> CASE r = p -> Nobody [] r = l -> p [] r = c -> l]
    BY Zenon DEF Seeds!BulkRows
  <1> HIDE DEF p, l, c
  <1>4. /\ DOMAIN Seeds!BulkRows = {p, l, c} /\ Seeds!BulkRows[p] = Nobody
        /\ Seeds!BulkRows[l] = p /\ Seeds!BulkRows[c] = l
    BY <1>1, <1>3
  <1>5. QED
    BY <1>2, <1>4 DEF p, l, c, Bulks

LEMMA RowsStart == ASSUME Homed, Seeds!Init PROVE RowsInv
  <1>1. /\ pack = {} /\ source = {-1} /\ DOMAIN links = {} /\ links = [r \in {} |-> Nobody]
    BY DEF Seeds!Init
  <1>2. Packed
    BY <1>1, FS_EmptySet DEF Packed
  <1>3. Seeds!LinksHold
    BY <1>1 DEF Seeds!LinksHold
  <1>4. links = [r \in DOMAIN links |-> links[r]]
    BY <1>1
  <1>5. source # pack
    BY <1>1
  <1>6. QED
    BY <1>1, <1>2, <1>3, <1>4, <1>5 DEF RowsInv

\* What a load inserts depends on the pack alone.
LEMMA SamePack ==
    ASSUME pack' = pack
    PROVE  /\ Seeds!NewRows' = Seeds!NewRows
           /\ Seeds!Loaded' = Seeds!Loaded
  <1>1. Seeds!Individuals' = Seeds!Individuals /\ Seeds!Households' = Seeds!Households
    BY DEF Seeds!Individuals, Seeds!Households
  <1>2. Seeds!Loaded' = Seeds!Loaded
    BY <1>1 DEF Seeds!Loaded
  <1>3. Seeds!Remap' = Seeds!Remap
    BY <1>1, <1>2 DEF Seeds!Remap, Seeds!Onto
  <1>4. Seeds!Attached(Seeds!Remap)' = Seeds!Attached(Seeds!Remap)
    BY <1>2, <1>3 DEF Seeds!Attached
  <1>5. QED
    BY <1>2, <1>3, <1>4 DEF Seeds!NewRows

LEMMA LoadStep ==
    ASSUME NoBulk, RowsInv, Seeds!LoadSampleData
    PROVE  RowsInv'
  <1>1. /\ links' = Seeds!Joined(links, Seeds!NewRows)
        /\ queue' = queue \cup {Seeds!QueueId(r) : r \in Seeds!Loaded}
        /\ source' = pack /\ pack' = pack /\ spliced' = spliced
    BY DEF Seeds!LoadSampleData, Seeds!Inserted, Seeds!country
  <1>2. Seeds!NewRows' = Seeds!NewRows /\ Seeds!Loaded' = Seeds!Loaded
    BY <1>1, SamePack
  <1> DEFINE N == Seeds!NewRows
  <1>3. /\ DOMAIN links' = DOMAIN links \cup DOMAIN N
        /\ links' = [r \in DOMAIN links' |-> links'[r]]
        /\ \A r \in DOMAIN links : links'[r] = links[r]
        /\ \A r \in DOMAIN links' : r \notin DOMAIN links => r \in DOMAIN N /\ links'[r] = N[r]
    <2> HIDE DEF N
    <2>1. links' = [r \in DOMAIN links \cup DOMAIN N |-> IF r \in DOMAIN links THEN links[r] ELSE N[r]]
      BY <1>1 DEF Seeds!Joined, N
    <2>2. QED
      BY <2>1
  <1>4. Packed /\ Packed'
    BY <1>1 DEF RowsInv, Packed
  <1>5. /\ \A r \in DOMAIN N : Linked(r, N[r], DOMAIN N)
        /\ \A r \in DOMAIN N : r.space # "bulk" /\ (N[r] = Nobody \/ N[r].space # "bulk")
    BY <1>4, NewRowsLink
  <1>6. \A r \in DOMAIN N : Describes(r, N[r], pack)
    BY <1>4, NewRowsDescribe
  <1>7. \A r \in DOMAIN N : r \notin Bulks /\ N[r] \notin Bulks
    BY <1>5, BulksAre DEF NoBulk
  <1> HIDE DEF N
  <1>8. Seeds!LinksHold'
    <2> SUFFICES ASSUME NEW r \in DOMAIN links' PROVE Linked(r, links'[r], DOMAIN links')
      BY DEF Seeds!LinksHold, Linked
    <2>1. CASE r \in DOMAIN links
      BY <1>3, <2>1 DEF RowsInv, Seeds!LinksHold, Linked
    <2>2. CASE r \notin DOMAIN links
      BY <1>3, <1>5, <2>2 DEF Linked
    <2>3. QED
      BY <2>1, <2>2
  <1>9. /\ \A r \in DOMAIN links' : r \in Bulks => links'[r] = Seeds!BulkRows[r]
        /\ \A r \in DOMAIN links' : links'[r] \in Bulks => r \in Bulks
    BY <1>3, <1>7 DEF RowsInv
  <1>10. ~spliced' => \A r \in DOMAIN links' : Describes(r, links'[r], pack')
    BY <1>1, <1>3, <1>6 DEF RowsInv
  <1>11. /\ DOMAIN Seeds!NewRows' \subseteq DOMAIN links'
         /\ {Seeds!QueueId(r) : r \in Seeds!Loaded'} \subseteq queue'
    BY <1>1, <1>2, <1>3 DEF N
  <1>12. QED
    BY <1>1, <1>3, <1>4, <1>8, <1>9, <1>10, <1>11 DEF RowsInv, Bulks, Seeds!QueueId

LEMMA PublishStep ==
    ASSUME RowsInv, NEW n \in Nat, Seeds!Publish(n)
    PROVE  RowsInv'
  <1>1. /\ n \notin pack /\ pack' = pack \cup {n} /\ links' = links /\ queue' = queue /\ source' = source
        /\ spliced' = (spliced \/ \E m \in pack : n < m)
    BY DEF Seeds!Publish, Seeds!registry
  <1>2. Packed'
    BY <1>1, FS_AddElement DEF RowsInv, Packed
  <1>3. source' # pack'
    <2>1. -1 \notin pack'
      BY <1>2 DEF Packed
    <2>2. n \notin source \/ source = {-1}
      BY <1>1 DEF RowsInv
    <2>3. QED
      BY <1>1, <2>1, <2>2
  <1>4. source' = {-1} \/ source' \subseteq pack'
    BY <1>1 DEF RowsInv
  <1>5. ASSUME ~spliced', NEW r \in DOMAIN links PROVE Describes(r, links[r], pack')
    <2>1. ~spliced /\ \A m \in pack : ~(n < m)
      BY <1>1, <1>5
    <2>2. \A m \in pack : m < n
      BY <1>1, <2>1 DEF RowsInv, Packed
    <2>3. Describes(r, links[r], pack)
      BY <2>1 DEF RowsInv
    <2>4. pack \in SUBSET Nat
      BY DEF RowsInv, Packed
    <2>5. QED
      BY <1>1, <2>2, <2>3, <2>4, GrowsAtEnd
  <1>6. Seeds!LinksHold'
    BY <1>1 DEF RowsInv, Seeds!LinksHold
  <1>7. QED
    BY <1>1, <1>2, <1>3, <1>4, <1>5, <1>6 DEF RowsInv, Bulks

LEMMA GenerateStep ==
    ASSUME NoBulk, RowsInv, Seeds!Generate
    PROVE  RowsInv'
  <1> DEFINE B == Seeds!BulkRows
  <1>1. /\ DOMAIN links \cap Bulks = {} /\ links' = Seeds!Joined(links, B)
        /\ pack' = pack /\ spliced' = spliced /\ queue' = queue /\ source' = source
    BY DEF Seeds!Generate, Seeds!Copied, Seeds!country, Bulks
  <1>2. Seeds!NewRows' = Seeds!NewRows /\ Seeds!Loaded' = Seeds!Loaded
    BY <1>1, SamePack
  <1>3. /\ DOMAIN links' = DOMAIN links \cup Bulks
        /\ links' = [r \in DOMAIN links' |-> links'[r]]
        /\ \A r \in DOMAIN links : links'[r] = links[r]
        /\ \A r \in DOMAIN links' : r \notin DOMAIN links => r \in Bulks /\ links'[r] = B[r]
    <2> HIDE DEF B
    <2>1. links' = [r \in DOMAIN links \cup Bulks |-> IF r \in DOMAIN links THEN links[r] ELSE B[r]]
      BY <1>1 DEF Seeds!Joined, Bulks, B
    <2>2. QED
      BY <2>1
  <1>4. \A r \in Bulks : Linked(r, B[r], Bulks)
    <2>1. \A sort : Seeds!Bulk(sort).kind = sort
      BY IdIs
    <2>2. QED
      BY <2>1, BulksAre DEF Linked, Seeds!KindOfLink
  <1> HIDE DEF B
  <1>5. Seeds!LinksHold'
    <2> SUFFICES ASSUME NEW r \in DOMAIN links' PROVE Linked(r, links'[r], DOMAIN links')
      BY DEF Seeds!LinksHold, Linked
    <2>1. CASE r \in DOMAIN links
      BY <1>3, <2>1 DEF RowsInv, Seeds!LinksHold, Linked
    <2>2. CASE r \notin DOMAIN links
      BY <1>3, <1>4, <2>2 DEF Linked
    <2>3. QED
      BY <2>1, <2>2
  <1>6. /\ \A r \in DOMAIN links' : r \in Bulks => links'[r] = Seeds!BulkRows[r]
        /\ \A r \in DOMAIN links' : links'[r] \in Bulks => r \in Bulks
    BY <1>1, <1>3 DEF RowsInv, B
  <1>7. \A r \in Bulks : Describes(r, links'[r], pack)
    <2>1. \A r \in Bulks : r.kind \notin {"membership", "score"}
      BY BulksAre, IdIs
    <2>2. QED
      BY <2>1 DEF Describes
  <1>8. ~spliced' => \A r \in DOMAIN links' : Describes(r, links'[r], pack')
    BY <1>1, <1>3, <1>7 DEF RowsInv
  <1>9. source' = pack' => /\ DOMAIN Seeds!NewRows' \subseteq DOMAIN links'
                           /\ {Seeds!QueueId(r) : r \in Seeds!Loaded'} \subseteq queue'
    BY <1>1, <1>2, <1>3 DEF RowsInv
  <1>10. Packed' /\ (source' = {-1} \/ source' \subseteq pack')
    BY <1>1 DEF RowsInv, Packed
  <1>11. QED
    BY <1>1, <1>3, <1>5, <1>6, <1>8, <1>9, <1>10 DEF RowsInv, Bulks, Seeds!QueueId

LEMMA PurgeStep ==
    ASSUME NoBulk, RowsInv, Seeds!Purge
    PROVE  RowsInv'
  <1> DEFINE p == Seeds!Bulk("person")  l == Seeds!Bulk("land")  c == Seeds!Bulk("crop")
  <1>1. /\ links' = [r \in DOMAIN links \ Seeds!Purged |-> links[r]]
        /\ pack' = pack /\ spliced' = spliced /\ queue' = queue /\ source' = source
    BY DEF Seeds!Purge, Seeds!country
  <1>2. Seeds!NewRows' = Seeds!NewRows /\ Seeds!Loaded' = Seeds!Loaded
    BY <1>1, SamePack
  <1>3. /\ Bulks = {p, l, c} /\ Seeds!BulkRows[p] = Nobody
        /\ Seeds!BulkRows[l] = p /\ Seeds!BulkRows[c] = l
        /\ l.kind = "land" /\ c.kind = "crop"
    BY BulksAre, IdIs
  <1> HIDE DEF p, l, c
  <1>4. /\ Seeds!LinksHold
        /\ \A r \in DOMAIN links : r \in Bulks => links[r] = Seeds!BulkRows[r]
        /\ \A r \in DOMAIN links : links[r] \in Bulks => r \in Bulks
    BY DEF RowsInv
  <1>5. Seeds!Purged \subseteq Bulks /\ p \in Seeds!Purged
    BY <1>3, <1>4 DEF Seeds!Purged, Seeds!Children, p
  <1>6. l \in DOMAIN links => l \in Seeds!Purged
    BY <1>3, <1>4 DEF Seeds!Purged, Seeds!Children, p
  <1>7. c \in DOMAIN links => c \in Seeds!Purged
    <2> SUFFICES ASSUME c \in DOMAIN links PROVE c \in Seeds!Purged
      OBVIOUS
    <2>1. links[c] = l /\ l \in DOMAIN links
      BY <1>3, <1>4 DEF Seeds!LinksHold
    <2>2. links[l] = p
      BY <1>3, <1>4, <2>1
    <2>3. QED
      BY <1>3, <2>1, <2>2 DEF Seeds!Purged, Seeds!Children, p
  <1>8. DOMAIN links' = DOMAIN links \ Bulks /\ \A r \in DOMAIN links' : links'[r] = links[r]
    BY <1>1, <1>3, <1>5, <1>6, <1>7
  <1>9. links' = [r \in DOMAIN links' |-> links'[r]]
    BY <1>1
  <1>10. Seeds!LinksHold'
    BY <1>4, <1>8 DEF Seeds!LinksHold
  <1>11. /\ \A r \in DOMAIN links' : r \in Bulks => links'[r] = Seeds!BulkRows[r]
         /\ \A r \in DOMAIN links' : links'[r] \in Bulks => r \in Bulks
    BY <1>4, <1>8
  <1>12. ~spliced' => \A r \in DOMAIN links' : Describes(r, links'[r], pack')
    BY <1>1, <1>8 DEF RowsInv
  <1>13. source' = pack' => /\ DOMAIN Seeds!NewRows' \subseteq DOMAIN links'
                            /\ {Seeds!QueueId(r) : r \in Seeds!Loaded'} \subseteq queue'
    <2>1. \A r \in DOMAIN Seeds!NewRows : r \notin Bulks
      BY NewRowsLink, BulksAre DEF RowsInv
    <2>2. QED
      BY <1>1, <1>2, <1>8, <2>1 DEF RowsInv
  <1>14. Packed' /\ (source' = {-1} \/ source' \subseteq pack')
    BY <1>1 DEF RowsInv, Packed
  <1>15. QED
    BY <1>9, <1>10, <1>11, <1>12, <1>13, <1>14 DEF RowsInv, Bulks, Seeds!QueueId

LEMMA RowsStep ==
    ASSUME NoBulk, People \subseteq Nat, RowsInv, Seeds!Next \/ UNCHANGED Seeds!vars
    PROVE  RowsInv'
  <1>1. ASSUME UNCHANGED <<pack, spliced, links, queue, source>>
        PROVE  RowsInv'
    <2>1. Seeds!NewRows' = Seeds!NewRows /\ Seeds!Loaded' = Seeds!Loaded
      BY <1>1, SamePack
    <2>2. Seeds!LinksHold' /\ Packed'
      BY <1>1 DEF RowsInv, Seeds!LinksHold, Packed
    <2>3. QED
      BY <1>1, <2>1, <2>2 DEF RowsInv, Bulks, Seeds!QueueId
  <1>2. CASE \/ Seeds!LoadGeo \/ (\E u, p \in DOMAIN Seed : Seeds!Reparent(u, p))
             \/ Seeds!Upload \/ Seeds!CatalogueImages \/ UNCHANGED Seeds!vars
    <2>1. UNCHANGED <<pack, spliced, links, queue, source>>
      BY <1>2 DEF Seeds!LoadGeo, Seeds!Reparent, Seeds!Upload, Seeds!CatalogueImages,
         Seeds!vars,
         Seeds!country, Seeds!registry
    <2>2. QED
      BY <1>1, <2>1
  <1>3. CASE Seeds!LoadSampleData
    BY <1>3, LoadStep
  <1>4. ASSUME NEW n \in People, Seeds!Publish(n) PROVE RowsInv'
    BY <1>4, PublishStep
  <1>5. CASE Seeds!Generate
    BY <1>5, GenerateStep
  <1>6. CASE Seeds!Purge
    BY <1>6, PurgeStep
  <1>7. QED
    BY <1>2, <1>3, <1>4, <1>5, <1>6 DEF Seeds!Next

LEMMA RowsSound ==
    ASSUME RowsInv
    PROVE  Seeds!LinksHold /\ Seeds!OneRowEach /\ Seeds!Repeatable
  <1>1. Seeds!LinksHold
    BY DEF RowsInv
  <1>2. Seeds!OneRowEach
    <2> SUFFICES ASSUME ~spliced, NEW q \in DOMAIN links, NEW r \in DOMAIN links, q.kind = r.kind,
                        q.kind \in {"membership", "score"}, q # r, links[q] = links[r]
                 PROVE  FALSE
      BY DEF Seeds!OneRowEach
    <2>1. Describes(q, links[q], pack) /\ Describes(r, links[q], pack) /\ pack \in SUBSET Nat
      BY DEF RowsInv, Packed
    <2>2. QED
      BY <2>1, DescribeOne
  <1>3. Seeds!Repeatable
    <2> SUFFICES ASSUME source = pack
                 PROVE  /\ Seeds!Joined(links, Seeds!NewRows) = links
                        /\ {Seeds!QueueId(r) : r \in Seeds!Loaded} \subseteq queue
      BY DEF Seeds!Repeatable, Seeds!Inserted
    <2>1. /\ DOMAIN Seeds!NewRows \subseteq DOMAIN links /\ links = [r \in DOMAIN links |-> links[r]]
          /\ {Seeds!QueueId(r) : r \in Seeds!Loaded} \subseteq queue
      BY DEF RowsInv
    <2> DEFINE N == Seeds!NewRows
    <2> HIDE DEF N
    <2>2. Seeds!Joined(links, N) = links
      <3>1. DOMAIN links \cup DOMAIN N = DOMAIN links
        BY <2>1 DEF N
      <3>2. Seeds!Joined(links, N) = [r \in DOMAIN links |-> links[r]]
        BY <3>1 DEF Seeds!Joined
      <3>3. QED
        BY <2>1, <3>2
    <2>3. QED
      BY <2>1, <2>2 DEF N
  <1>4. QED
    BY <1>1, <1>2, <1>3

=============================================================================
