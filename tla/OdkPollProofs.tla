--------------------------- MODULE OdkPollProofs ---------------------------
(***************************************************************************)
(* Proofs about the checkpoints of a poll and about polling itself, for    *)
(* any form, any page size and any number of polls at a time.              *)
(*                                                                         *)
(* First the checkpoint algebra of Checkpoint: what is_advanced_over and   *)
(* merged_with guarantee together, in the two modes that carry a           *)
(* watermark.  (In page_token mode any other token counts as progress, and *)
(* full_scan never advances.)  Then the lists a poll pages through, the    *)
(* inductive invariant, and what follows from it.                          *)
(***************************************************************************)
EXTENDS OdkPoll, FiniteSetTheorems, SequenceTheorems, TLAPS

\* The checkpoints of mode m.
Of(m, Ids) == {c \in Checkpoints(Ids) : c.mode = m}

\* A checkpoint is no progress over itself: a poll that meets its own
\* watermark again saves nothing (worker.py:139, checkpoints.py:130).
THEOREM NoProgressOverItself ==
    ASSUME NEW Ids, NEW c \in Checkpoints(Ids)
    PROVE  ~IsAdvancedOver(c, c)
  BY DEF Checkpoints, Modes, NoCheckpoint, IsAdvancedOver

\* What Advance makes of two timestamp checkpoints, in one formula.
LEMMA AdvanceTimestamp ==
    ASSUME NEW Ids, NEW c \in Of("timestamp", Ids), NEW d \in Of("timestamp", Ids)
    PROVE  Advance(c, d) = IF d.value > c.value THEN d
                           ELSE IF d.value < c.value THEN c
                           ELSE [c EXCEPT !.ids = c.ids \cup d.ids]
  <1> USE DEF Of, Checkpoints, Modes, NoCheckpoint
  <1>1. c # NoCheckpoint /\ c.value \in Nat /\ d.value \in Nat
    OBVIOUS
  <1>2. CASE d.value # c.value
    <2>1. MergedWith(d, c) = d
      BY <1>2 DEF MergedWith
    <2>2. IsAdvancedOver(d, c) <=> d.value > c.value
      BY <1>1, <1>2 DEF IsAdvancedOver
    <2>3. QED
      BY <1>1, <1>2, <2>1, <2>2 DEF Advance
  <1>3. CASE d.value = c.value
    <2> DEFINE u == [c EXCEPT !.ids = c.ids \cup d.ids]
    <2>1. MergedWith(d, c) = u
      BY <1>3 DEF MergedWith
    <2>2. IsAdvancedOver(u, c) <=> ~(c.ids \cup d.ids \subseteq c.ids)
      BY <1>1 DEF IsAdvancedOver
    <2>3. c.ids \cup d.ids \subseteq c.ids => u = c
      OBVIOUS
    <2>4. QED
      BY <1>1, <1>3, <2>1, <2>2, <2>3 DEF Advance
  <1>4. QED
    BY <1>2, <1>3

\* It loses ground on neither side: the watermark goes back neither behind the
\* current one nor behind the record's, and at a tie both sets of boundary ids
\* are kept.
LEMMA AdvanceCoversBoth ==
    ASSUME NEW Ids, NEW c \in Of("timestamp", Ids), NEW d \in Of("timestamp", Ids)
    PROVE  NoStepBack(c, Advance(c, d)) /\ NoStepBack(d, Advance(c, d))
  <1> USE DEF Of, Checkpoints, NoStepBack
  <1>1. CASE d.value > c.value
    BY <1>1, AdvanceTimestamp
  <1>2. CASE d.value < c.value
    BY <1>2, AdvanceTimestamp
  <1>3. CASE d.value = c.value
    <2>1. ~(d.value > c.value) /\ ~(d.value < c.value)
      BY <1>3
    <2>2. Advance(c, d) = [c EXCEPT !.ids = c.ids \cup d.ids]
      BY ONLY <2>1, AdvanceTimestamp
    <2>3. Advance(c, d).value = c.value /\ Advance(c, d).ids = c.ids \cup d.ids
      BY <2>2
    <2>4. QED
      BY <1>3, <2>3
  <1>4. QED
    BY <1>1, <1>2, <1>3

\* Folding a record's checkpoint into the current one never loses ground: the
\* watermark does not go back, and at a tie no boundary id is dropped.
THEOREM AdvanceKeeps ==
    ASSUME NEW Ids, NEW m \in {"timestamp", "sequence"},
           NEW c \in Of(m, Ids), NEW d \in Of(m, Ids)
    PROVE  NoStepBack(c, Advance(c, d))
  <1>1. CASE m = "timestamp"
    BY <1>1, AdvanceCoversBoth
  <1>2. CASE m = "sequence"
    <2>1. Advance(c, d) = IF d.value > c.value THEN d ELSE c
      BY <1>2 DEF Of, Checkpoints, Modes, NoCheckpoint, Advance, MergedWith,
                  IsAdvancedOver
    <2>2. QED
      BY <2>1 DEF Of, Checkpoints, NoStepBack
  <1>3. QED
    BY <1>1, <1>2

\* It covers the record: the next poll does not take it for a new one.
THEOREM AdvanceCovers ==
    ASSUME NEW Ids, NEW c \in Of("timestamp", Ids), NEW d \in Of("timestamp", Ids)
    PROVE  NoStepBack(d, Advance(c, d))
  BY AdvanceCoversBoth

\* The order in which records are folded in does not matter: however a source
\* orders submissions of one instant, a poll persists the same checkpoint.
THEOREM AdvanceCommutes ==
    ASSUME NEW Ids, NEW c \in Of("timestamp", Ids),
           NEW d \in Of("timestamp", Ids), NEW e \in Of("timestamp", Ids)
    PROVE  Advance(Advance(c, d), e) = Advance(Advance(c, e), d)
  <1> DEFINE Join(a, b) == IF b.value > a.value THEN b
                           ELSE IF b.value < a.value THEN a
                           ELSE [a EXCEPT !.ids = a.ids \cup b.ids]
  <1>1. \A a, b \in Of("timestamp", Ids) :
            Join(a, b) \in Of("timestamp", Ids) /\ Advance(a, b) = Join(a, b)
    BY AdvanceTimestamp DEF Of, Checkpoints
  <1>2. /\ Advance(Advance(c, d), e) = Join(Join(c, d), e)
        /\ Advance(Advance(c, e), d) = Join(Join(c, e), d)
    BY <1>1
  <1>3. Join(Join(c, d), e) = Join(Join(c, e), d)
    BY DEF Of, Checkpoints
  <1>4. QED
    BY <1>2, <1>3

----------------------------------------------------------------------------
(* The inductive invariant.                                                *)

\* Settings under which pages do not shift while they are read: full scans, one
\* page per poll, pages that hold the whole form, or dates that never change on
\* a server that lists late arrivals last.  Not sequence mode, whose ids are in
\* no order of time.
FitsOnePage(c) ==
    c.pages = 1 \/ \A S \in SUBSET Entries : IsFiniteSet(S) => Cardinality(S) <= c.top
PagesStay(c) ==
    /\ c.mode # "sequence"
    /\ \/ c.mode = "full_scan" \/ ~c.supported \/ FitsOnePage(c)
       \/ c.mode = "timestamp" /\ TiesByArrival

\* What poll q may take for settled: it commits its dead letters itself.
Dealt(q) == sent \cup dlq \cup q.dead

\* Nothing below the watermark of c is outside D, its boundary ids have been
\* ingested, and it is of the past.
CheckpointOK(c, D) ==
    PagesStay(conf) /\ c.mode = "timestamp" =>
        /\ Timed /\ conf.supported
        /\ c.value <= clock
        /\ c.ids \subseteq sent
        /\ \A e \in there : stamp[e] # NoValue /\ stamp[e] < c.value => e \in D

\* Where a poll is and what it holds.
ControlOK(q) ==
    /\ q.page # <<>> => q.pc \in {"page", "closing"}
    /\ q.pc # "idle" /\ q.inc => conf.mode # "full_scan"
    /\ q.pc = "page" /\ q.inc => conf.supported
    /\ q.pc = "fetch" => q.pages < conf.pages /\ (q.pages = 0 \/ q.full)

\* The page in hand: its values are of the past, and a submission that is still
\* to be dealt with and comes behind an entry of the page, on it or not, does
\* not carry an older stamp.
PageOK(q) ==
    PagesStay(conf) /\ q.inc => \A i \in DOMAIN q.page :
        /\ q.page[i].value <= clock
        /\ \A e \in there \ Dealt(q) :
             stamp[e] # NoValue /\ (\A j \in 1 .. i : q.page[j].id # e)
               => q.page[i].value <= stamp[e]

\* The number of submissions that a query from c lists before e.
Rank(c, e) == Cardinality({d \in Found(c) : Before(d, e)})

\* By date, with ties in the order of arrival, lists grow at the end only: what
\* the pages read so far reach has been dealt with or is in hand.
ReadOK(q) ==
    q.inc /\ q.full /\ conf.mode = "timestamp" /\ conf.supported /\ TiesByArrival =>
        /\ q.pages * conf.top <= Cardinality(Found(q.prev))
        /\ \A e \in Found(q.prev) : Rank(q.prev, e) < q.pages * conf.top =>
              e \in Dealt(q) \/ \E i \in DOMAIN q.page : q.page[i].id = e

PollOK(q) ==
    /\ CheckpointOK(q.prev, sent \cup dlq)
    /\ CheckpointOK(q.cur, Dealt(q))
    /\ ControlOK(q) /\ PageOK(q) /\ ReadOK(q)

IInv ==
    /\ TypeOK
    /\ IsFiniteSet(there)
    /\ \A e \in Entries \ there : stamp[e] = NoValue
    /\ \A e \in there : stamp[e] <= clock /\ (conf.mode = "updated_at" \/ stamp[e] # NoValue)
    /\ CheckpointOK(ckpt, sent \cup dlq)
    /\ \A p \in Polls : PollOK(poll[p])

----------------------------------------------------------------------------
----------------------------------------------------------------------------
(* The lists a poll pages through.                                         *)

\* The members of S below e in R.
Below(S, R, e) == {d \in S : <<d, e>> \in R}

\* In a finite total order the numbers of smaller members are 0, 1, 2, ...
LEMMA RanksAreNumbers ==
    ASSUME NEW S, IsFiniteSet(S), NEW R,
           \A x \in S : <<x, x>> \notin R,
           \A x, y \in S : x # y => <<x, y>> \in R \/ <<y, x>> \in R,
           \A x, y, z \in S : <<x, y>> \in R /\ <<y, z>> \in R => <<x, z>> \in R
    PROVE  /\ \A x \in S : Cardinality(Below(S, R, x)) \in 0 .. Cardinality(S) - 1
           /\ \A x, y \in S : <<x, y>> \in R
                <=> Cardinality(Below(S, R, x)) < Cardinality(Below(S, R, y))
           /\ \A n \in 0 .. Cardinality(S) - 1 :
                \E x \in S : Cardinality(Below(S, R, x)) = n
  <1> DEFINE size == Cardinality(S)
             rank == [x \in S |-> Cardinality(Below(S, R, x))]
  <1>1. size \in Nat
    BY FS_CardinalityType
  <1>2. \A x \in S : Below(S, R, x) \in SUBSET S /\ x \notin Below(S, R, x)
    BY DEF Below
  <1>3. \A x \in S : rank[x] \in 0 .. size - 1
    <2> SUFFICES ASSUME NEW x \in S
                 PROVE  rank[x] \in 0 .. size - 1
      OBVIOUS
    <2> DEFINE B == Below(S, R, x)
    <2>1. IsFiniteSet(B) /\ Cardinality(B) <= size /\ (size = Cardinality(B) => S = B)
      BY <1>2, FS_Subset
    <2>2. Cardinality(B) \in Nat
      BY <2>1, FS_CardinalityType
    <2>3. S # B
      BY <1>2
    <2>4. QED
      BY <1>1, <2>1, <2>2, <2>3
  <1>4. ASSUME NEW x \in S, NEW y \in S, <<x, y>> \in R
        PROVE  rank[x] < rank[y]
    <2> DEFINE B == Below(S, R, x)
               C == Below(S, R, y)
    <2>1. B \in SUBSET C /\ x \in C /\ x \notin B
      BY <1>2, <1>4 DEF Below
    <2>2. IsFiniteSet(C)
      BY <1>2, FS_Subset
    <2>3. Cardinality(B) <= Cardinality(C) /\ (Cardinality(C) = Cardinality(B) => C = B)
      BY <2>1, <2>2, FS_Subset
    <2>4. rank[x] = Cardinality(B) /\ rank[y] = Cardinality(C) /\ rank[x] \in Nat /\ rank[y] \in Nat
      BY <1>1, <1>3
    <2>5. QED
      BY <2>1, <2>3, <2>4
  <1>5. \A x, y \in S : <<x, y>> \in R <=> rank[x] < rank[y]
    <2> SUFFICES ASSUME NEW x \in S, NEW y \in S, rank[x] < rank[y]
                 PROVE  <<x, y>> \in R
      BY <1>4
    <2>1. rank[x] \in Nat /\ rank[y] \in Nat
      BY <1>1, <1>3
    <2>2. x # y /\ <<y, x>> \notin R
      BY <1>4, <2>1
    <2>3. QED
      BY <2>2
  <1>6. rank \in Injection(S, 0 .. size - 1)
    <2>1. \A x, y \in S : x # y => rank[x] # rank[y]
      <3> SUFFICES ASSUME NEW x \in S, NEW y \in S, x # y
                   PROVE  rank[x] # rank[y]
        OBVIOUS
      <3>1. rank[x] \in Nat /\ rank[y] \in Nat
        BY <1>1, <1>3
      <3>2. rank[x] < rank[y] \/ rank[y] < rank[x]
        BY <1>4
      <3>3. QED
        BY <3>1, <3>2
    <2>2. rank \in [S -> 0 .. size - 1]
      BY <1>3
    <2>3. QED
      BY <2>1, <2>2 DEF Injection, IsInjective
  <1>7. IsFiniteSet(0 .. size - 1) /\ Cardinality(0 .. size - 1) = size
    <2> HIDE DEF size
    <2>1. 0 \in Int /\ size - 1 \in Int
      BY <1>1
    <2>2. /\ IsFiniteSet(0 .. size - 1)
          /\ Cardinality(0 .. size - 1) = IF 0 > size - 1 THEN 0 ELSE size - 1 - 0 + 1
      BY ONLY <2>1, FS_Interval
    <2>3. QED
      BY <1>1, <2>2
  <1>8. rank \in Surjection(S, 0 .. size - 1)
    BY <1>6, <1>7, FS_Injection
  <1>9. \A n \in 0 .. size - 1 : \E x \in S : rank[x] = n
    BY <1>8 DEF Surjection
  <1>10. QED
    BY <1>3, <1>5, <1>9

\* Before is a strict total order on the submissions.
LEMMA BeforeOrders ==
    ASSUME TypeOK
    PROVE  /\ \A d \in there : ~Before(d, d)
           /\ \A d, e \in there : d # e => Before(d, e) \/ Before(e, d)
           /\ \A d, e, f \in there : Before(d, e) /\ Before(e, f) => Before(d, f)
           /\ \A d, e \in there : Field(d) # NoValue /\ Field(d) < Field(e) => Before(d, e)
  <1>1. \A d \in there : d \in Nat /\ Field(d) \in Nat
    BY EntriesAssumption, BoundsAssumption DEF TypeOK, Field
  <1>2. QED
    BY <1>1 DEF Before, NoValue

\* What Ordered lists, and where.
LEMMA OrderedList ==
    ASSUME TypeOK, IsFiniteSet(there), NEW c
    PROVE  /\ Cardinality(Found(c)) \in Nat
           /\ Ordered(c) \in Seq(Found(c)) /\ Len(Ordered(c)) = Cardinality(Found(c))
           /\ \A i \in 1 .. Cardinality(Found(c)) : Rank(c, Ordered(c)[i]) = i - 1
           /\ \A e \in Found(c) : /\ Rank(c, e) \in 0 .. Cardinality(Found(c)) - 1
                                  /\ Ordered(c)[Rank(c, e) + 1] = e
           /\ \A d, e \in Found(c) : Before(d, e) <=> Rank(c, d) < Rank(c, e)
  <1> DEFINE S == Found(c)
             R == {x \in there \X there : Before(x[1], x[2])}
  <1>1. S \in SUBSET there
    BY DEF Found
  <1>2. IsFiniteSet(S) /\ Cardinality(S) \in Nat
    BY <1>1, FS_Subset, FS_CardinalityType
  <1>3. \A d, e \in S : <<d, e>> \in R <=> Before(d, e)
    BY <1>1
  <1>4. /\ \A x \in S : <<x, x>> \notin R
        /\ \A x, y \in S : x # y => <<x, y>> \in R \/ <<y, x>> \in R
        /\ \A x, y, z \in S : <<x, y>> \in R /\ <<y, z>> \in R => <<x, z>> \in R
    BY <1>1, <1>3, BeforeOrders
  <1>5. \A e \in S : Below(S, R, e) = {d \in S : Before(d, e)}
    BY <1>3 DEF Below
  <1>6. \A e \in S : Rank(c, e) = Cardinality(Below(S, R, e))
    BY <1>5 DEF Rank
  <1> HIDE DEF R
  <1>7. /\ \A x \in S : Cardinality(Below(S, R, x)) \in 0 .. Cardinality(S) - 1
        /\ \A x, y \in S : <<x, y>> \in R
              <=> Cardinality(Below(S, R, x)) < Cardinality(Below(S, R, y))
        /\ \A n \in 0 .. Cardinality(S) - 1 :
              \E x \in S : Cardinality(Below(S, R, x)) = n
    BY <1>2, <1>4, RanksAreNumbers
  <1>8. /\ \A e \in S : Rank(c, e) \in 0 .. Cardinality(S) - 1
        /\ \A d, e \in S : Before(d, e) <=> Rank(c, d) < Rank(c, e)
        /\ \A n \in 0 .. Cardinality(S) - 1 : \E e \in S : Rank(c, e) = n
    BY <1>3, <1>6, <1>7
  <1>9. \A d, e \in S : Rank(c, d) = Rank(c, e) => d = e
    <2> SUFFICES ASSUME NEW d \in S, NEW e \in S, Rank(c, d) = Rank(c, e), d # e
                 PROVE  FALSE
      OBVIOUS
    <2>1. Rank(c, d) < Rank(c, e) \/ Rank(c, e) < Rank(c, d)
      BY <1>1, <1>8, BeforeOrders
    <2>2. QED
      BY <1>2, <1>8, <2>1
  <1>10. Ordered(c) = [i \in 1 .. Cardinality(S) |-> CHOOSE e \in S : Rank(c, e) = i - 1]
    BY DEF Ordered, InOrder, Rank
  <1>11. \A i \in 1 .. Cardinality(S) : Ordered(c)[i] \in S /\ Rank(c, Ordered(c)[i]) = i - 1
    <2> SUFFICES ASSUME NEW i \in 1 .. Cardinality(S)
                 PROVE  Ordered(c)[i] \in S /\ Rank(c, Ordered(c)[i]) = i - 1
      OBVIOUS
    <2>1. \E e \in S : Rank(c, e) = i - 1
      BY <1>2, <1>8
    <2>2. QED
      BY <1>10, <2>1
  <1>12. Ordered(c) \in [1 .. Cardinality(S) -> S]
    BY <1>10, <1>11
  <1>13. Ordered(c) \in Seq(S) /\ Len(Ordered(c)) = Cardinality(S)
    BY <1>2, <1>12, LenProperties, IsASeq
  <1>14. \A e \in S : Ordered(c)[Rank(c, e) + 1] = e
    <2> SUFFICES ASSUME NEW e \in S
                 PROVE  Ordered(c)[Rank(c, e) + 1] = e
      OBVIOUS
    <2>1. Rank(c, e) + 1 \in 1 .. Cardinality(S) /\ Rank(c, e) \in Nat
      BY <1>2, <1>8
    <2>2. Ordered(c)[Rank(c, e) + 1] \in S /\ Rank(c, Ordered(c)[Rank(c, e) + 1]) = Rank(c, e)
      BY <1>11, <2>1
    <2>3. QED
      BY <1>9, <2>2
  <1>15. QED
    BY <1>2, <1>8, <1>11, <1>13, <1>14

\* The n-th page of a list: which part of the list it is, and when it is full.
LEMMA PageOfList ==
    ASSUME TypeOK, NEW T, NEW list \in Seq(T), NEW n \in Nat
    PROVE  LET skip == n * conf.top
               page == Page(list, n)
           IN  /\ skip \in Nat /\ conf.top \in Nat \ {0}
               /\ (n + 1) * conf.top = skip + conf.top
               /\ page \in Seq(T)
               /\ DOMAIN page = 1 .. Len(page) /\ Len(page) \in 0 .. conf.top
               /\ \A i \in DOMAIN page : skip + i <= Len(list) /\ page[i] = list[skip + i]
               /\ \A k \in 1 .. Len(list) : skip < k /\ k <= skip + conf.top
                    => k - skip \in DOMAIN page
               /\ Len(page) = conf.top => skip + conf.top <= Len(list)
  <1> DEFINE top == conf.top
             skip == n * top
             last == IF Len(list) < skip + top THEN Len(list) ELSE skip + top
             page == SubSeq(list, skip + 1, last)
  <1>1. top \in Nat \ {0}
    BY ConfigsAssumption DEF TypeOK
  <1> HIDE DEF top
  <1>2. skip \in Nat /\ (n + 1) * top = skip + top
    BY <1>1
  <1> HIDE DEF skip
  <1>3. /\ Len(list) \in Nat
        /\ \A i \in 1 .. Len(list) : list[i] \in T
    BY LenProperties
  <1>4. skip + 1 \in Int /\ last \in Int /\ \A i \in skip + 1 .. last : list[i] \in T
    BY <1>1, <1>2, <1>3
  <1> HIDE DEF last
  <1>5. /\ page \in Seq(T)
        /\ Len(page) = IF skip + 1 <= last THEN last - (skip + 1) + 1 ELSE 0
        /\ \A i \in 1 .. last - (skip + 1) + 1 : page[i] = list[skip + 1 + i - 1]
    BY <1>4, SubSeqProperties
  <1>6. DOMAIN page = 1 .. Len(page) /\ Len(page) \in Nat
    BY <1>5, LenProperties
  <1>7. Page(list, n) = page
    BY <1>2 DEF Page, last, skip, top
  <1> HIDE DEF page
  <1> USE DEF last
  <1>8. Len(page) \in 0 .. top /\ (Len(page) = top => skip + top <= Len(list))
    BY <1>1, <1>2, <1>3, <1>5, <1>6
  <1>9. \A i \in DOMAIN page : skip + i <= Len(list) /\ page[i] = list[skip + i]
    <2> SUFFICES ASSUME NEW i \in 1 .. Len(page)
                 PROVE  skip + i <= Len(list) /\ page[i] = list[skip + i]
      BY <1>6
    <2>1. i \in 1 .. last - (skip + 1) + 1 /\ skip + 1 + i - 1 = skip + i
      BY <1>1, <1>2, <1>3, <1>5, <1>6
    <2>2. skip + i <= Len(list)
      BY <1>1, <1>2, <1>3, <2>1
    <2>3. QED
      BY <1>5, <2>1, <2>2
  <1>10. \A k \in 1 .. Len(list) : skip < k /\ k <= skip + top => k - skip \in DOMAIN page
    BY <1>1, <1>2, <1>3, <1>5, <1>6
  <1>11. QED
    BY <1>1, <1>2, <1>5, <1>6, <1>7, <1>8, <1>9, <1>10 DEF skip, top
----------------------------------------------------------------------------
(* Checkpoints of one poll.                                                *)

LEMMA AdvanceType ==
    ASSUME NEW c \in CheckpointsOrNone, NEW d \in CheckpointsOrNone
    PROVE  Advance(c, d) \in CheckpointsOrNone
  <1> USE DEF CheckpointsOrNone, Checkpoints
  <1>1. CASE d.mode = "timestamp" /\ c.mode = "timestamp" /\ c.value = d.value
    <2>1. c \in Checkpoints(Entries) /\ d \in Checkpoints(Entries)
      BY <1>1 DEF NoCheckpoint
    <2>2. [d EXCEPT !.ids = c.ids \cup d.ids] \in Checkpoints(Entries)
      BY <2>1
    <2>3. QED
      BY <1>1, <2>2 DEF Advance, MergedWith
  <1>2. CASE ~(d.mode = "timestamp" /\ c.mode = "timestamp" /\ c.value = d.value)
    BY <1>2 DEF Advance, MergedWith
  <1>3. QED
    BY <1>1, <1>2

\* The checkpoint after a record: the one before, one without a watermark, or
\* one at the record's own stamp that knows the record.
LEMMA NextCheckpoint ==
    ASSUME NEW cur \in CheckpointsOrNone, NEW id \in Entries, NEW v \in Nat,
           NEW inc \in BOOLEAN, TypeOK
    PROVE  LET c == RecordCheckpoint(BuildCheckpoint(inc, id, v), id)
               next == Advance(cur, c)
           IN  /\ c \in CheckpointsOrNone
               /\ next \in CheckpointsOrNone
               /\ \/ next = cur
                  \/ next.mode # "timestamp"
                  \/ /\ inc /\ Timed /\ v # NoValue /\ next.value = v
                     /\ next.ids \subseteq cur.ids \cup {id}
                     /\ next.ids = {id} \/ cur.mode = "timestamp"
  <1> DEFINE b == BuildCheckpoint(inc, id, v)
             c == RecordCheckpoint(b, id)
             next == Advance(cur, c)
  <1>1. /\ id \in Nat
        /\ NoCheckpoint.mode = "none"
    BY EntriesAssumption DEF NoCheckpoint
  <1>2. CASE inc /\ Timed /\ v # NoValue
    <2>1. b = [mode |-> "timestamp", value |-> v, ids |-> {id}]
      BY <1>2 DEF BuildCheckpoint, Timed
    <2>2. c = b
      BY <2>1, <1>1 DEF RecordCheckpoint, NoCheckpoint
    <2>3. c \in Checkpoints(Entries)
      BY <2>1, <2>2 DEF Checkpoints, Modes
    <2>4. \/ MergedWith(c, cur) = c
          \/ /\ cur.mode = "timestamp"
             /\ MergedWith(c, cur) =
                  [mode |-> "timestamp", value |-> v, ids |-> cur.ids \cup {id}]
      BY <2>1, <2>2 DEF MergedWith
    <2>5. next = cur \/ next = MergedWith(c, cur)
      BY DEF Advance
    <2>6. next \in CheckpointsOrNone
      BY <2>3, AdvanceType DEF CheckpointsOrNone
    <2>7. CASE next = MergedWith(c, cur)
      <3>1. /\ next.value = v /\ next.ids \subseteq cur.ids \cup {id}
            /\ next.ids = {id} \/ cur.mode = "timestamp"
        BY <2>1, <2>2, <2>4, <2>7
      <3>2. QED
        BY <1>2, <2>3, <2>6, <3>1 DEF CheckpointsOrNone
    <2>8. QED
      BY <2>3, <2>5, <2>6, <2>7 DEF CheckpointsOrNone
  <1>3. CASE ~(inc /\ Timed /\ v # NoValue)
    <2>1. b = NoCheckpoint \/ b = [mode |-> "sequence", value |-> id, ids |-> {}]
      BY <1>3 DEF BuildCheckpoint
    <2>2. c = [mode |-> "sequence", value |-> id, ids |-> {}]
      BY <1>1, <2>1 DEF RecordCheckpoint
    <2>3. c \in Checkpoints(Entries)
      BY <1>1, <2>2 DEF Checkpoints, Modes
    <2>4. MergedWith(c, cur) = c
      BY <2>2 DEF MergedWith
    <2>5. next = cur \/ next = c
      BY <2>4 DEF Advance
    <2>6. QED
      BY <2>2, <2>3, <2>5, AdvanceType DEF CheckpointsOrNone
  <1>4. QED
    BY <1>2, <1>3

----------------------------------------------------------------------------
(* What steps that leave the form alone do to a poll.                      *)

\* A checkpoint stays good while more is settled.
LEMMA CheckpointKept ==
    ASSUME NEW c, NEW D, NEW E, D \subseteq E, UNCHANGED sourceVars, sent \subseteq sent',
           CheckpointOK(c, D)
    PROVE  CheckpointOK(c, E)'
  BY DEF CheckpointOK, sourceVars, Timed

\* A poll goes on as it was, or has dealt with the head of its page.
LEMMA PageKept ==
    ASSUME NEW q, NEW r, UNCHANGED sourceVars,
           q.page \in Seq([id : Entries, value : Nat]),
           r.inc = q.inc, r.prev = q.prev, r.full = q.full, r.pages = q.pages,
           Dealt(q) \subseteq Dealt(r)',
           \/ r.page = q.page
           \/ /\ q.page # <<>> /\ r.page = Tail(q.page)
              /\ PagesStay(conf) => Head(q.page).id \in Dealt(r)',
           PageOK(q), ReadOK(q)
    PROVE  PageOK(r)' /\ ReadOK(r)'
  <1> DEFINE E == sent' \cup dlq' \cup r.dead
  <1>1. Dealt(r)' = E
    BY DEF Dealt
  <1>2. \A c : Found(c)' = Found(c)
    BY DEF Found, Matches, Timed, Field, sourceVars
  <1>3. \A c, e : Rank(c, e)' = Rank(c, e)
    BY <1>2 DEF Rank, Before, Field, sourceVars
  <1> HIDE DEF E
  <1>4. CASE r.page = q.page
    <2>1. PageOK(r)'
      BY <1>1, <1>4 DEF PageOK, sourceVars
    <2>2. ReadOK(r)'
      BY <1>1, <1>2, <1>3, <1>4 DEF ReadOK, sourceVars
    <2>3. QED
      BY <2>1, <2>2
  <1>5. CASE /\ q.page # <<>> /\ r.page = Tail(q.page)
             /\ PagesStay(conf) => Head(q.page).id \in E
    <2>1. /\ Len(q.page) \in Nat \ {0} /\ DOMAIN q.page = 1 .. Len(q.page)
          /\ DOMAIN r.page = 1 .. Len(q.page) - 1
          /\ \A i \in DOMAIN r.page : i + 1 \in DOMAIN q.page /\ r.page[i] = q.page[i + 1]
          /\ PagesStay(conf) => q.page[1].id \in E
          /\ \A j \in DOMAIN q.page : j # 1 =>
                j - 1 \in DOMAIN r.page /\ r.page[j - 1] = q.page[j]
      BY <1>5
    <2>2. PageOK(r)'
      <3> SUFFICES ASSUME PagesStay(conf), r.inc, NEW i \in DOMAIN r.page
                   PROVE  /\ r.page[i].value <= clock
                          /\ \A e \in there \ E :
                               stamp[e] # NoValue /\ (\A j \in 1 .. i : r.page[j].id # e)
                                 => r.page[i].value <= stamp[e]
        BY <1>1 DEF PageOK, sourceVars
      <3>1. q.page[i + 1].value <= clock
        BY <2>1 DEF PageOK
      <3>2. ASSUME NEW e \in there \ E, stamp[e] # NoValue, \A j \in 1 .. i : r.page[j].id # e
            PROVE  r.page[i].value <= stamp[e]
        <4>1. \A j \in 1 .. i + 1 : q.page[j].id # e
          <5> SUFFICES ASSUME NEW j \in 1 .. i + 1
                       PROVE  q.page[j].id # e
            OBVIOUS
          <5>1. CASE j = 1
            BY <2>1, <5>1
          <5>2. CASE j # 1
            <6>1. j - 1 \in 1 .. i /\ j \in DOMAIN q.page
              BY <2>1, <5>2
            <6>2. r.page[j - 1] = q.page[j]
              BY <2>1, <5>2, <6>1
            <6>3. QED
              BY <3>2, <6>1, <6>2
          <5>3. QED
            BY <5>1, <5>2
        <4>2. e \in there \ Dealt(q)
          BY <1>1
        <4>3. q.page[i + 1].value <= stamp[e]
          BY <2>1, <3>2, <4>1, <4>2 DEF PageOK
        <4>4. QED
          BY <2>1, <4>3
      <3>3. QED
        BY <2>1, <3>1, <3>2
    <2>3. ReadOK(r)'
      <3> SUFFICES ASSUME r.inc, r.full, conf.mode = "timestamp", conf.supported, TiesByArrival
                   PROVE  /\ r.pages * conf.top <= Cardinality(Found(r.prev))
                          /\ \A e \in Found(r.prev) : Rank(r.prev, e) < r.pages * conf.top =>
                                e \in E \/ \E i \in DOMAIN r.page : r.page[i].id = e
        BY <1>1, <1>2, <1>3 DEF ReadOK, sourceVars
      <3>1. /\ r.pages * conf.top <= Cardinality(Found(r.prev))
            /\ \A e \in Found(r.prev) : Rank(r.prev, e) < r.pages * conf.top =>
                 e \in Dealt(q) \/ \E i \in DOMAIN q.page : q.page[i].id = e
            /\ PagesStay(conf)
        BY DEF ReadOK, PagesStay
      <3>2. ASSUME NEW e, NEW i \in DOMAIN q.page, q.page[i].id = e
            PROVE  e \in E \/ \E j \in DOMAIN r.page : r.page[j].id = e
        <4>1. CASE i = 1
          BY <2>1, <3>1, <3>2, <4>1
        <4>2. CASE i # 1
          <5>1. i - 1 \in DOMAIN r.page /\ r.page[i - 1].id = e
            BY <2>1, <3>2, <4>2
          <5>2. QED
            BY <5>1
        <4>3. QED
          BY <4>1, <4>2
      <3>3. QED
        BY <1>1, <2>1, <3>1, <3>2
    <2>4. QED
      BY <2>2, <2>3
  <1>6. QED
    BY <1>1, <1>4, <1>5
----------------------------------------------------------------------------
(* The steps.                                                              *)

LEMMA IdleType ==
    ASSUME conf \in Configs
    PROVE  Idle \in PollStates
  <1>1. NoCheckpoint \in CheckpointsOrNone /\ conf.pages \in Nat
    BY ConfigsAssumption DEF CheckpointsOrNone
  <1>2. <<>> \in Seq([id : Entries, value : Nat])
    OBVIOUS
  <1>3. QED
    BY <1>1, <1>2 DEF Idle, PollStates

LEMMA InitOK == Init => IInv
  <1> SUFFICES ASSUME Init
               PROVE  IInv
    OBVIOUS
  <1> USE DEF Init
  <1>1. NoCheckpoint \in CheckpointsOrNone /\ NoCheckpoint.mode = "none"
    BY DEF NoCheckpoint, CheckpointsOrNone
  <1>4. TypeOK
    <2>1. Idle \in PollStates
      BY IdleType
    <2>2. poll \in [Polls -> PollStates]
      BY <2>1
    <2>3. stamp \in [Entries -> 0 .. MaxClock] /\ clock \in 1 .. MaxClock
      BY BoundsAssumption DEF NoValue
    <2>4. QED
      BY <1>1, <2>2, <2>3 DEF TypeOK
  <1>5. IsFiniteSet(there)
    BY FS_EmptySet
  <1>6. \A c, D : c = NoCheckpoint => CheckpointOK(c, D)
    BY <1>1 DEF CheckpointOK
  <1>7. \A p \in Polls : PollOK(poll[p])
    BY <1>6 DEF PollOK, ControlOK, PageOK, ReadOK, Idle
  <1>8. QED
    BY <1>4, <1>5, <1>6, <1>7 DEF IInv

\* A poll task that is idle satisfies everything.
LEMMA IdleOK == PollOK(Idle)'
  <1>1. NoCheckpoint.mode = "none"
    BY DEF NoCheckpoint
  <1>2. QED
    BY <1>1 DEF PollOK, CheckpointOK, ControlOK, PageOK, ReadOK, Idle

\* The other polls, and the checkpoint when it is not written.
LEMMA OthersKept ==
    ASSUME IInv, UNCHANGED sourceVars, sent \subseteq sent',
           sent \cup dlq \subseteq sent' \cup dlq'
    PROVE  /\ \A c : CheckpointOK(c, sent \cup dlq) => CheckpointOK(c, sent \cup dlq)'
           /\ \A q : q.page \in Seq([id : Entries, value : Nat]) /\ PollOK(q) => PollOK(q)'
  <1>1. \A c, D, E : D \subseteq E /\ CheckpointOK(c, D) => CheckpointOK(c, E)'
    BY CheckpointKept
  <1>2. ASSUME NEW q, q.page \in Seq([id : Entries, value : Nat]), PollOK(q)
        PROVE  PollOK(q)'
    <2>1. Dealt(q) \subseteq Dealt(q)'
      BY DEF Dealt
    <2>2. PageOK(q)' /\ ReadOK(q)'
      BY <1>2, <2>1, PageKept DEF PollOK
    <2>3. ControlOK(q)'
      BY <1>2 DEF PollOK, ControlOK, Timed, sourceVars
    <2>4. CheckpointOK(q.prev, sent \cup dlq)' /\ CheckpointOK(q.cur, Dealt(q))'
      BY <1>1, <1>2, <2>1 DEF PollOK
    <2>5. QED
      BY <2>2, <2>3, <2>4 DEF PollOK
  <1>3. QED
    BY <1>1, <1>2 DEF IInv

\* A step of task p: what has to be shown of it.
LEMMA TaskStep ==
    ASSUME IInv, NEW p \in Polls, NEW r \in PollStates, poll' = [poll EXCEPT ![p] = r],
           UNCHANGED sourceVars, sent \subseteq sent',
           sent \cup dlq \subseteq sent' \cup dlq',
           sent' \subseteq Entries, dlq' \subseteq Entries, done' \subseteq Entries,
           ckpt' \in CheckpointsOrNone, resetDue' \in BOOLEAN,
           CheckpointOK(ckpt, sent \cup dlq)', PollOK(r)'
    PROVE  IInv'
  <1> USE DEF IInv
  <1>1. PollStates' = PollStates
    BY DEF PollStates, sourceVars
  <1>2. TypeOK'
    BY <1>1 DEF TypeOK, sourceVars
  <1>3. \A s \in Polls : PollOK(poll[s])'
    <2> SUFFICES ASSUME NEW s \in Polls
                 PROVE  PollOK(poll[s])'
      OBVIOUS
    <2>1. CASE s = p
      <3>1. poll'[s] = r
        BY <2>1 DEF TypeOK
      <3>2. QED
        BY <3>1
    <2>2. CASE s # p
      <3>1. poll'[s] = poll[s]
        BY <2>2 DEF TypeOK
      <3>2. poll[s] \in PollStates
        BY DEF TypeOK
      <3>3. poll[s].page \in Seq([id : Entries, value : Nat])
        BY <3>2 DEF PollStates
      <3>4. PollOK(poll[s])
        OBVIOUS
      <3>5. \A q : q.page \in Seq([id : Entries, value : Nat]) /\ PollOK(q) => PollOK(q)'
        BY OthersKept
      <3>6. QED
        BY <3>1, <3>3, <3>4, <3>5
    <2>3. QED
      BY <2>1, <2>2
  <1>4. QED
    BY <1>2, <1>3 DEF sourceVars

\* Steps of a poll that leave the page and the checkpoints alone.
LEMMA TaskMoved ==
    ASSUME IInv, NEW p \in Polls, NEW r \in PollStates, poll' = [poll EXCEPT ![p] = r],
           UNCHANGED <<sourceVars, dbVars, sent, resetDue>>,
           r.prev = poll[p].prev, r.cur = poll[p].cur, r.inc = poll[p].inc,
           r.full = poll[p].full, r.pages = poll[p].pages, r.page = poll[p].page,
           r.dead = poll[p].dead, ControlOK(r)
    PROVE  IInv'
  <1>1. poll[p] \in PollStates /\ PollOK(poll[p])
    BY DEF IInv, TypeOK
  <1>2. Dealt(poll[p]) \subseteq Dealt(r)'
    BY DEF Dealt, dbVars
  <1>3. poll[p].page \in Seq([id : Entries, value : Nat])
    BY <1>1 DEF PollStates
  <1>4. PageOK(r)' /\ ReadOK(r)'
    BY <1>1, <1>2, <1>3, PageKept DEF PollOK
  <1>5. ControlOK(r)'
    BY DEF ControlOK, Timed, sourceVars
  <1>6. CheckpointOK(r.prev, sent \cup dlq)' /\ CheckpointOK(r.cur, Dealt(r))'
    BY <1>1, <1>2, CheckpointKept DEF PollOK, dbVars
  <1>7. CheckpointOK(ckpt, sent \cup dlq)'
    BY CheckpointKept DEF IInv, dbVars
  <1>8. PollOK(r)'
    BY <1>4, <1>5, <1>6 DEF PollOK
  <1>9. QED
    BY <1>7, <1>8, TaskStep DEF IInv, TypeOK, dbVars

LEMMA StartPollOK ==
    ASSUME IInv, NEW p \in Polls, StartPoll(p)
    PROVE  IInv'
  <1> DEFINE Start(i) == [Idle EXCEPT !.pc = "fetch", !.prev = ckpt, !.cur = ckpt, !.inc = i]
  <1>1. ckpt \in CheckpointsOrNone /\ conf.pages \in Nat \ {0} /\ CheckpointOK(ckpt, sent \cup dlq)
    BY ConfigsAssumption DEF IInv, TypeOK
  <1>2. \A i \in BOOLEAN : Start(i) \in PollStates
    <2>1. Idle \in PollStates
      BY IdleType DEF IInv, TypeOK
    <2>2. QED
      BY <1>1, <2>1 DEF PollStates
  <1>3. PICK r \in PollStates : r = Start(conf.mode # "full_scan")
    BY <1>2, Zenon
  <1>4. /\ poll' = [poll EXCEPT ![p] = r] /\ resetDue' = FALSE
        /\ UNCHANGED <<sourceVars, dbVars, sent>>
    BY <1>3, Zenon DEF StartPoll
  <1>5. /\ r.prev = ckpt /\ r.cur = ckpt /\ r.pc = "fetch" /\ r.pages = 0
        /\ r.page = <<>> /\ r.full = FALSE /\ r.dead = {}
    BY <1>3 DEF Idle
  <1>14. r.inc => conf.mode # "full_scan"
    BY <1>3 DEF Idle
  <1>6. sent \cup dlq \subseteq (sent \cup dlq)' /\ sent \cup dlq \subseteq Dealt(r)' /\ conf' = conf
    BY <1>4 DEF Dealt, dbVars, sourceVars
  <1>7. \A c, D, E : D \subseteq E /\ CheckpointOK(c, D) => CheckpointOK(c, E)'
    BY <1>4, CheckpointKept
  <1>8. CheckpointOK(ckpt, sent \cup dlq)'
    BY <1>1, <1>4, <1>6, <1>7 DEF dbVars
  <1>9. CheckpointOK(r.prev, sent \cup dlq)' /\ CheckpointOK(r.cur, Dealt(r))'
    BY <1>1, <1>5, <1>6, <1>7
  <1>10. ControlOK(r)' /\ PageOK(r)' /\ ReadOK(r)'
    BY <1>1, <1>5, <1>6, <1>14 DEF ControlOK, PageOK, ReadOK
  <1>11. PollOK(r)'
    BY <1>9, <1>10 DEF PollOK
  <1>12. /\ sent \subseteq sent' /\ sent \cup dlq \subseteq sent' \cup dlq'
         /\ sent' \subseteq Entries /\ dlq' \subseteq Entries /\ done' \subseteq Entries
         /\ ckpt' \in CheckpointsOrNone /\ resetDue' \in BOOLEAN
    BY <1>1, <1>4 DEF dbVars, IInv, TypeOK
  <1>13. QED
    BY <1>4, <1>8, <1>11, <1>12, TaskStep

LEMMA EndPageOK ==
    ASSUME IInv, NEW p \in Polls, EndPage(p)
    PROVE  IInv'
  <1> DEFINE r == [poll[p] EXCEPT !.pc = IF poll[p].full /\ poll[p].pages < conf.pages
                                         THEN "fetch" ELSE "closing"]
  <1>1. /\ poll[p] \in PollStates /\ ControlOK(poll[p]) /\ poll[p].page = <<>>
        /\ poll[p].pc = "page"
    BY DEF IInv, TypeOK, PollOK, EndPage
  <1>2. r \in PollStates /\ ControlOK(r)
    BY <1>1 DEF PollStates, ControlOK
  <1>3. poll' = [poll EXCEPT ![p] = r]
    BY <1>1 DEF EndPage
  <1>4. QED
    BY <1>1, <1>2, <1>3, TaskMoved DEF EndPage, PollStates

LEMMA FetchFailsOK ==
    ASSUME IInv, NEW p \in Polls, FetchFails(p)
    PROVE  IInv'
  <1> DEFINE r == [poll[p] EXCEPT !.pc = "closing"]
  <1>1. /\ poll[p] \in PollStates /\ ControlOK(poll[p]) /\ poll[p].pc \in {"fetch", "page"}
    BY DEF IInv, TypeOK, PollOK, FetchFails
  <1>2. r \in PollStates /\ ControlOK(r)
    BY <1>1 DEF PollStates, ControlOK
  <1>3. poll' = [poll EXCEPT ![p] = r]
    BY DEF FetchFails
  <1>4. QED
    BY <1>1, <1>2, <1>3, TaskMoved DEF FetchFails, PollStates

\* A poll that ends, by its commit or by its worker's death.
LEMMA ClosePollOK ==
    ASSUME IInv, NEW p \in Polls, ClosePoll(p) \/ CrashPoll(p)
    PROVE  IInv'
  <1>1. poll[p] \in PollStates /\ PollOK(poll[p]) /\ ckpt \in CheckpointsOrNone
    BY DEF IInv, TypeOK
  <1>2. Idle \in PollStates
    BY IdleType DEF IInv, TypeOK
  <1>3. poll' = [poll EXCEPT ![p] = Idle]
    BY DEF ClosePoll, CrashPoll
  <1>4. /\ sent' = sent /\ UNCHANGED sourceVars /\ resetDue' = resetDue
        /\ dlq \subseteq dlq' /\ dlq' \subseteq Entries /\ done' \subseteq Entries
        /\ ckpt' \in CheckpointsOrNone
    BY <1>1 DEF ClosePoll, CrashPoll, dbVars, IInv, TypeOK, PollStates
  <1>5. CheckpointOK(ckpt, sent \cup dlq)'
    <2>1. CASE ckpt' = ckpt
      BY <1>4, <2>1, CheckpointKept DEF IInv
    <2>2. CASE ClosePoll(p) /\ ckpt' = poll[p].cur
      <3>1. CheckpointOK(poll[p].cur, Dealt(poll[p]))
        BY <1>1 DEF PollOK
      <3>2. Dealt(poll[p]) \subseteq sent' \cup dlq'
        BY <2>2 DEF Dealt, ClosePoll
      <3>3. \A c, D, E : D \subseteq E /\ CheckpointOK(c, D) => CheckpointOK(c, E)'
        BY <1>4, CheckpointKept
      <3>4. QED
        BY <2>2, <3>1, <3>2, <3>3
    <2>3. QED
      BY <2>1, <2>2 DEF ClosePoll, CrashPoll, dbVars
  <1>6. PollOK(Idle)'
    BY IdleOK
  <1>7. QED
    BY <1>2, <1>3, <1>4, <1>5, <1>6, TaskStep DEF IInv, TypeOK

\* The list a query without filter and order pages through.
LEMMA EverythingList ==
    ASSUME TypeOK, IsFiniteSet(there)
    PROVE  Everything \in Seq(there)
  <1> DEFINE R == {x \in there \X there : x[1] < x[2]}
             rank(e) == Cardinality({d \in there : d < e})
  <1>1. there \subseteq Nat /\ Cardinality(there) \in Nat
    BY EntriesAssumption, FS_CardinalityType DEF TypeOK
  <1>2. /\ \A x \in there : <<x, x>> \notin R
        /\ \A x, y \in there : x # y => <<x, y>> \in R \/ <<y, x>> \in R
        /\ \A x, y, z \in there : <<x, y>> \in R /\ <<y, z>> \in R => <<x, z>> \in R
    BY <1>1
  <1>3. \A e \in there : rank(e) = Cardinality(Below(there, R, e))
    <2> SUFFICES ASSUME NEW e \in there
                 PROVE  {d \in there : d < e} = Below(there, R, e)
      OBVIOUS
    <2>1. QED
      BY DEF Below
  <1> HIDE DEF R
  <1>4. \A n \in 0 .. Cardinality(there) - 1 : \E e \in there : rank(e) = n
    <2>1. \A n \in 0 .. Cardinality(there) - 1 :
            \E x \in there : Cardinality(Below(there, R, x)) = n
      BY <1>2, RanksAreNumbers
    <2>2. QED
      BY <1>3, <2>1
  <1>5. Everything = [i \in 1 .. Cardinality(there) |-> CHOOSE e \in there : rank(e) = i - 1]
    BY DEF Everything, InOrder
  <1>6. \A i \in 1 .. Cardinality(there) : Everything[i] \in there
    <2> SUFFICES ASSUME NEW i \in 1 .. Cardinality(there)
                 PROVE  Everything[i] \in there
      OBVIOUS
    <2>1. \E e \in there : rank(e) = i - 1
      BY <1>1, <1>4
    <2>2. QED
      BY <1>5, <2>1
  <1>7. Everything \in [1 .. Cardinality(there) -> there]
    BY <1>5, <1>6
  <1>8. QED
    BY <1>1, <1>7, IsASeq

\* What a poll meets on a page: what is still to be dealt with and comes behind
\* an entry of the page, on it or on a later one, is not older.
LEMMA NextPage ==
    ASSUME IInv, NEW q, q \in PollStates, PollOK(q), PagesStay(conf),
           q.pc = "fetch", q.inc, conf.supported
    PROVE  LET list == Ordered(q.prev)
               page == Page(list, q.pages)
           IN  /\ \A i \in DOMAIN page :
                    /\ page[i] \in there
                    /\ \A e \in there \ Dealt(q) :
                         stamp[e] # NoValue /\ (\A j \in 1 .. i : page[j] # e)
                           => stamp[page[i]] <= stamp[e]
               /\ Len(page) = conf.top /\ conf.mode = "timestamp" /\ TiesByArrival =>
                    /\ (q.pages + 1) * conf.top <= Cardinality(Found(q.prev))
                    /\ \A e \in Found(q.prev) : Rank(q.prev, e) < (q.pages + 1) * conf.top
                         => e \in Dealt(q) \/ \E i \in DOMAIN page : page[i] = e
  <1> DEFINE c == q.prev
             list == Ordered(c)
             n == q.pages
             page == Page(list, n)
             skip == n * conf.top
             F == Found(c)
  <1>1. /\ TypeOK /\ IsFiniteSet(there) /\ CheckpointOK(c, sent \cup dlq)
        /\ ControlOK(q) /\ ReadOK(q)
    BY DEF IInv, PollOK
  <1>2. /\ conf \in Configs /\ conf.top \in Nat \ {0} /\ conf.pages \in Nat \ {0}
        /\ \A e \in there : stamp[e] \in Nat /\ e \in Entries
    BY <1>1, ConfigsAssumption, BoundsAssumption DEF TypeOK
  <1>3. Timed /\ conf.mode # "sequence" /\ n < conf.pages /\ n \in Nat /\ (n = 0 \/ q.full)
        /\ q.page = <<>>
    <2>1. conf.mode \in {"timestamp", "updated_at"}
      BY <1>1, <1>2, ConfigsAssumption DEF ControlOK, PagesStay
    <2>2. n \in Nat
      BY <1>2 DEF PollStates
    <2>3. QED
      BY <1>1, <2>1, <2>2 DEF ControlOK, Timed
  <1>4. /\ Cardinality(F) \in Nat
        /\ list \in Seq(F) /\ Len(list) = Cardinality(F)
        /\ \A i \in 1 .. Cardinality(F) : Rank(c, list[i]) = i - 1
        /\ \A e \in F : /\ Rank(c, e) \in 0 .. Cardinality(F) - 1
                        /\ list[Rank(c, e) + 1] = e
        /\ \A d, e \in F : Before(d, e) <=> Rank(c, d) < Rank(c, e)
    BY <1>1, OrderedList
  <1>5. F \in SUBSET there
    BY DEF Found
  <1> HIDE DEF list, F
  <1>6. /\ skip \in Nat
        /\ (n + 1) * conf.top = skip + conf.top
        /\ page \in Seq(F) /\ DOMAIN page = 1 .. Len(page) /\ Len(page) \in 0 .. conf.top
        /\ \A i \in DOMAIN page : skip + i <= Len(list) /\ page[i] = list[skip + i]
        /\ \A k \in 1 .. Len(list) : skip < k /\ k <= skip + conf.top => k - skip \in DOMAIN page
        /\ Len(page) = conf.top => skip + conf.top <= Len(list)
    <2>1. list \in Seq(F) /\ n \in Nat /\ TypeOK
      BY <1>1, <1>3, <1>4
    <2> HIDE DEF n
    <2>2. QED
      BY ONLY <2>1, PageOfList, Zenon DEF page, skip
  <1>7. n # 0 => skip >= conf.top
    BY <1>2, <1>3
  <1>8. n = 0 => skip = 0
    BY <1>2
  <1> HIDE DEF page, skip
  <1>9. ASSUME NEW e \in F, Rank(c, e) >= skip, Rank(c, e) < skip + conf.top
        PROVE  Rank(c, e) + 1 - skip \in DOMAIN page /\ page[Rank(c, e) + 1 - skip] = e
    <2>1. Rank(c, e) \in Nat /\ Rank(c, e) + 1 \in 1 .. Len(list)
      BY <1>4
    <2>2. Rank(c, e) + 1 - skip \in DOMAIN page
      BY <1>2, <1>6, <1>9, <2>1
    <2>3. skip + (Rank(c, e) + 1 - skip) = Rank(c, e) + 1
      BY <1>6, <2>1
    <2>4. QED
      BY <1>4, <1>6, <2>2, <2>3
  <1>10. ASSUME conf.mode = "timestamp", TiesByArrival, NEW e \in F, Rank(c, e) < skip
         PROVE  e \in Dealt(q)
    <2>1. n # 0
      BY <1>4, <1>8, <1>10
    <2>2. q.inc /\ q.full
      BY <1>3, <2>1
    <2>3. QED
      BY <1>1, <1>3, <1>10, <2>2 DEF ReadOK, F, skip
  <1>11. ASSUME NEW i \in DOMAIN page
         PROVE  /\ page[i] \in F /\ Rank(c, page[i]) = skip + i - 1
                /\ i \in Nat /\ i <= conf.top /\ skip + i <= Cardinality(F)
    <2>1. i \in Nat \ {0} /\ i <= conf.top /\ page[i] \in F /\ skip + i <= Cardinality(F)
      BY <1>2, <1>4, <1>6
    <2>2. page[i] = list[skip + i] /\ skip + i \in 1 .. Cardinality(F)
      BY <1>4, <1>6, <2>1
    <2>3. Rank(c, list[skip + i]) = (skip + i) - 1
      BY ONLY <1>4, <2>2
    <2>4. QED
      BY <1>6, <2>1, <2>2, <2>3
  <1>12. ASSUME NEW i \in DOMAIN page, NEW e \in there \ Dealt(q),
                stamp[e] # NoValue, \A j \in 1 .. i : page[j] # e
         PROVE  stamp[page[i]] <= stamp[e]
    <2> SUFFICES ASSUME ~(stamp[page[i]] <= stamp[e])
                 PROVE  FALSE
      OBVIOUS
    <2>1. page[i] \in F /\ Rank(c, page[i]) = skip + i - 1 /\ skip + i <= Cardinality(F)
          /\ i \in Nat /\ i <= conf.top
      BY <1>11
    <2>2. Before(e, page[i])
      <3>1. Field(e) = stamp[e] /\ Field(page[i]) = stamp[page[i]]
        BY <1>3 DEF Field
      <3>2. stamp[e] \in Nat /\ stamp[page[i]] \in Nat /\ stamp[e] # NoValue
        BY <1>2, <1>5, <1>12, <2>1
      <3>3. QED
        BY <3>1, <3>2 DEF Before
    <2>3. e \in F
      <3> SUFFICES ASSUME ~Matches(c, e)
                   PROVE  FALSE
        BY DEF F, Found
      <3>1. c.mode = "timestamp" /\ ~(stamp[e] >= c.value)
        BY <1>3 DEF Matches, Field
      <3>2. c.value \in Nat
        BY <3>1 DEF PollStates, CheckpointsOrNone, Checkpoints, NoCheckpoint, NoValue
      <3>3. stamp[e] < c.value
        BY <1>2, <3>1, <3>2
      <3>4. e \in sent \cup dlq
        BY <1>1, <1>12, <3>1, <3>3 DEF CheckpointOK
      <3>5. QED
        BY <3>4 DEF Dealt
    <2>4. Rank(c, e) < skip + i - 1 /\ Rank(c, e) \in Nat
      BY <1>4, <2>1, <2>2, <2>3
    <2>5. CASE Rank(c, e) >= skip
      <3>1. Rank(c, e) < skip + conf.top
        BY <1>2, <1>6, <2>1, <2>4
      <3>2. page[Rank(c, e) + 1 - skip] = e
        BY <1>9, <2>3, <2>5, <3>1
      <3>3. Rank(c, e) + 1 - skip \in 1 .. i
        BY <1>6, <2>1, <2>4, <2>5
      <3>4. QED
        BY <1>12, <3>2, <3>3
    <2>6. CASE Rank(c, e) < skip
      <3>1. n # 0
        BY <1>8, <2>4, <2>6
      <3>2. ~FitsOnePage(conf)
        <4>1. conf.pages # 1
          BY <1>2, <1>3, <3>1
        <4>2. F \in SUBSET Entries /\ IsFiniteSet(F)
          BY <1>1, <1>2, <1>5, FS_Subset
        <4>3. ~(Cardinality(F) <= conf.top)
          BY <1>2, <1>4, <1>6, <1>7, <2>1, <2>4, <3>1
        <4>4. QED
          BY <4>1, <4>2, <4>3 DEF FitsOnePage
      <3>3. conf.mode = "timestamp" /\ TiesByArrival
        BY <1>3, <3>2 DEF PagesStay, Timed
      <3>4. QED
        BY <1>10, <2>3, <2>6, <3>3
    <2>7. QED
      BY <1>6, <2>4, <2>5, <2>6
  <1>13. ASSUME Len(page) = conf.top, conf.mode = "timestamp", TiesByArrival
         PROVE  /\ skip + conf.top <= Cardinality(F)
                /\ \A e \in F : Rank(c, e) < skip + conf.top
                     => e \in Dealt(q) \/ \E i \in DOMAIN page : page[i] = e
    <2>1. skip + conf.top <= Cardinality(F)
      BY <1>4, <1>6, <1>13
    <2>2. ASSUME NEW e \in F, Rank(c, e) < skip + conf.top
          PROVE  e \in Dealt(q) \/ \E i \in DOMAIN page : page[i] = e
      <3>1. CASE Rank(c, e) < skip
        BY <1>10, <1>13, <3>1
      <3>2. CASE Rank(c, e) >= skip
        BY <1>9, <2>2, <3>2
      <3>3. QED
        BY <1>4, <1>6, <3>1, <3>2
    <2>3. QED
      BY <2>1, <2>2
  <1>14. QED
    BY <1>5, <1>6, <1>11, <1>12, <1>13 DEF page, F, list

LEMMA FetchPageOK ==
    ASSUME IInv, NEW p \in Polls, FetchPage(p)
    PROVE  IInv'
  <1> DEFINE q == poll[p]
  <1>1. /\ q \in PollStates /\ PollOK(q) /\ ControlOK(q) /\ q.pc = "fetch" /\ q.page = <<>>
        /\ UNCHANGED <<sourceVars, dbVars, sent, resetDue>>
    BY DEF IInv, TypeOK, PollOK, ControlOK, FetchPage
  <1>2. CASE q.inc /\ ~conf.supported /\ conf.strict
    <2> DEFINE s == [poll[p] EXCEPT !.pc = "closing"]
    <2>1. s \in PollStates /\ ControlOK(s) /\ poll' = [poll EXCEPT ![p] = s]
      BY <1>1, <1>2 DEF PollStates, ControlOK, FetchPage
    <2>2. QED
      BY <1>1, <2>1, TaskMoved DEF PollStates
  <1>3. CASE ~(q.inc /\ ~conf.supported /\ conf.strict)
    <2> DEFINE inc == q.inc /\ conf.supported
               list == IF inc THEN Ordered(q.prev) ELSE Everything
               page == Page(list, q.pages)
               items == [i \in DOMAIN page |-> [id |-> page[i], value |-> stamp[page[i]]]]
               Read(b, f) == [q EXCEPT !.pc = "page", !.inc = b, !.pages = @ + 1,
                                       !.page = items, !.full = f]
    <2>1. /\ TypeOK /\ IsFiniteSet(there) /\ conf \in Configs /\ conf.pages \in Nat
          /\ \A e \in there : e \in Entries /\ stamp[e] \in Nat /\ stamp[e] <= clock
      BY ConfigsAssumption, BoundsAssumption DEF IInv, TypeOK
    <2>2. q.pages \in Nat /\ q.pages + 1 \in 0 .. conf.pages
      BY <1>1, <2>1 DEF PollStates, ControlOK
    <2>3. list \in Seq(there)
      <3>1. Ordered(q.prev) \in Seq(there)
        <4>1. Ordered(q.prev) \in Seq(Found(q.prev))
          BY <2>1, OrderedList
        <4>2. Found(q.prev) \subseteq there
          BY DEF Found
        <4>3. QED
          BY <4>1, <4>2
      <3>2. QED
        BY <2>1, <3>1, EverythingList
    <2>4. page \in Seq(there) /\ DOMAIN page = 1 .. Len(page) /\ Len(page) \in Nat
      <3>1. page \in Seq(there)
        BY <2>1, <2>2, <2>3, PageOfList, Zenon
      <3>2. QED
        BY <3>1
    <2> HIDE DEF page
    <2>5. items \in Seq([id : Entries, value : Nat])
      <3>1. items \in [1 .. Len(page) -> [id : Entries, value : Nat]]
        BY <2>1, <2>4
      <3>2. QED
        BY <2>4, <3>1, IsASeq
    <2>6. DOMAIN items = DOMAIN page
          /\ \A i \in DOMAIN page : items[i].id = page[i] /\ items[i].value = stamp[page[i]]
      OBVIOUS
    <2> HIDE DEF items
    <2>7. \A b, f \in BOOLEAN : Read(b, f) \in PollStates
      BY <1>1, <2>2, <2>5 DEF PollStates
    <2>8. PICK b \in BOOLEAN : b <=> inc
      BY <1>1 DEF PollStates
    <2>9. PICK f \in BOOLEAN : f <=> Len(page) = conf.top
      OBVIOUS
    <2>10. b = inc /\ f = (Len(page) = conf.top)
      BY <1>1, <2>1, <2>8, <2>9 DEF PollStates
    <2>11. PICK r \in PollStates : r = Read(b, f)
      BY <2>7
    <2>12. poll' = [poll EXCEPT ![p] = r]
      BY <1>3, <2>10, <2>11, Zenon DEF FetchPage, page, items
    <2>13. /\ r.prev = q.prev /\ r.cur = q.cur /\ r.pc = "page" /\ r.pages = q.pages + 1
           /\ r.page = items /\ r.full = f /\ r.inc = b /\ r.dead = q.dead
      BY <1>1, <2>11 DEF PollStates
    <2>14. Dealt(r)' = Dealt(q)
      BY <1>1, <2>13 DEF Dealt, dbVars
    <2>15. ControlOK(r)'
      <3>1. b => conf.mode # "full_scan" /\ conf.supported
        BY <1>1, <2>8 DEF ControlOK
      <3>2. QED
        BY <1>1, <2>13, <3>1 DEF ControlOK, sourceVars
    <2>16. PageOK(r)' /\ ReadOK(r)'
      <3>1. CASE r.inc /\ PagesStay(conf)
        <4>1. inc
          BY <2>8, <2>13, <3>1
        <4>2. page = Page(Ordered(q.prev), q.pages)
          BY <4>1 DEF page
        <4>3. /\ \A i \in DOMAIN page :
                    /\ page[i] \in there
                    /\ \A e \in there \ Dealt(q) :
                         stamp[e] # NoValue /\ (\A j \in 1 .. i : page[j] # e)
                           => stamp[page[i]] <= stamp[e]
              /\ Len(page) = conf.top /\ conf.mode = "timestamp" /\ TiesByArrival =>
                    /\ (q.pages + 1) * conf.top <= Cardinality(Found(q.prev))
                    /\ \A e \in Found(q.prev) : Rank(q.prev, e) < (q.pages + 1) * conf.top
                         => e \in Dealt(q) \/ \E i \in DOMAIN page : page[i] = e
          BY <1>1, <3>1, <4>1, <4>2, NextPage, Zenon
        <4>4. \A i \in DOMAIN page : \A j \in 1 .. i : j \in DOMAIN page
          BY <2>4
        <4>5. PageOK(r)'
          <5> SUFFICES ASSUME NEW i \in DOMAIN items
                       PROVE  /\ items[i].value <= clock
                              /\ \A e \in there \ Dealt(q) :
                                   stamp[e] # NoValue /\ (\A j \in 1 .. i : items[j].id # e)
                                     => items[i].value <= stamp[e]
            BY <1>1, <2>13, <2>14 DEF PageOK, sourceVars
          <5>1. \A e : (\A j \in 1 .. i : items[j].id # e) <=> (\A j \in 1 .. i : page[j] # e)
            BY <2>6, <4>4
          <5>2. items[i].value = stamp[page[i]] /\ page[i] \in there
            BY <2>6, <4>3
          <5>3. items[i].value <= clock
            BY <2>1, <5>2
          <5>4. ASSUME NEW e \in there \ Dealt(q), stamp[e] # NoValue,
                       \A j \in 1 .. i : items[j].id # e
                PROVE  items[i].value <= stamp[e]
            <6>1. \A j \in 1 .. i : page[j] # e
              BY <5>1, <5>4
            <6>2. stamp[page[i]] <= stamp[e]
              BY <2>6, <4>3, <5>4, <6>1
            <6>3. QED
              BY <5>2, <6>2
          <5>5. QED
            BY <5>3, <5>4
        <4>6. \A c, e : Found(c)' = Found(c) /\ Rank(c, e)' = Rank(c, e)
          BY <1>1 DEF Found, Matches, Timed, Field, Rank, Before, sourceVars
        <4>7. ReadOK(r)'
          <5>1. f => Len(page) = conf.top
            BY <2>9
          <5>2. UNCHANGED conf
            BY <1>1 DEF sourceVars
          <5>3. QED
            BY <2>6, <2>13, <2>14, <4>3, <4>6, <5>1, <5>2 DEF ReadOK
        <4>8. QED
          BY <4>5, <4>7
      <3>2. CASE ~(r.inc /\ PagesStay(conf))
        BY <1>1, <3>2 DEF PageOK, ReadOK, PagesStay, sourceVars
      <3>3. QED
        BY <3>1, <3>2
    <2>17. /\ CheckpointOK(r.prev, sent \cup dlq)' /\ CheckpointOK(r.cur, Dealt(r))'
           /\ CheckpointOK(ckpt, sent \cup dlq)'
      BY <1>1, <2>13, <2>14, CheckpointKept DEF PollOK, IInv, dbVars
    <2>18. PollOK(r)'
      BY <2>15, <2>16, <2>17 DEF PollOK
    <2>19. QED
      BY <1>1, <2>1, <2>12, <2>17, <2>18, TaskStep DEF TypeOK, dbVars
  <1>4. QED
    BY <1>2, <1>3

\* A record of the page in hand has been dealt with.
LEMMA RecordDone ==
    ASSUME IInv, NEW p \in Polls, NEW r \in PollStates, poll' = [poll EXCEPT ![p] = r],
           UNCHANGED <<sourceVars, dbVars, resetDue>>, sent \subseteq sent', sent' \subseteq Entries,
           poll[p].pc = "page", poll[p].page # <<>>,
           r.pc = "page", r.prev = poll[p].prev, r.inc = poll[p].inc, r.full = poll[p].full,
           r.pages = poll[p].pages, r.page = Tail(poll[p].page),
           poll[p].dead \subseteq r.dead, PagesStay(conf) => Head(poll[p].page).id \in Dealt(r)',
           CheckpointOK(r.cur, Dealt(r))'
    PROVE  IInv'
  <1>1. poll[p] \in PollStates /\ PollOK(poll[p])
    BY DEF IInv, TypeOK
  <1>2. Dealt(poll[p]) \subseteq Dealt(r)'
    BY DEF Dealt, dbVars
  <1>3. poll[p].page \in Seq([id : Entries, value : Nat])
    BY <1>1 DEF PollStates
  <1>4. PageOK(r)' /\ ReadOK(r)'
    BY <1>1, <1>2, <1>3, PageKept DEF PollOK
  <1>5. ControlOK(r)'
    BY <1>1 DEF PollOK, ControlOK, Timed, sourceVars
  <1>6. CheckpointOK(r.prev, sent \cup dlq)' /\ CheckpointOK(ckpt, sent \cup dlq)'
    BY <1>1, CheckpointKept DEF PollOK, IInv, dbVars
  <1>7. PollOK(r)'
    BY <1>4, <1>5, <1>6 DEF PollOK
  <1>8. QED
    BY <1>6, <1>7, TaskStep DEF IInv, TypeOK, dbVars

LEMMA HeadAndRest ==
    ASSUME NEW T, NEW s \in Seq(T), s # <<>>
    PROVE  1 \in DOMAIN s /\ Head(s) = s[1] /\ Head(s) \in T /\ Tail(s) \in Seq(T)
  BY HeadTailProperties, LenProperties, EmptySeq

\* The record at the head of a page, and the rest of the page.
LEMMA HeadOfPage ==
    ASSUME IInv, NEW p \in Polls, poll[p].pc = "page", poll[p].page # <<>>
    PROVE  /\ poll[p] \in PollStates /\ PollOK(poll[p])
           /\ Head(poll[p].page) \in [id : Entries, value : Nat]
           /\ Tail(poll[p].page) \in Seq([id : Entries, value : Nat])
           /\ 1 \in DOMAIN poll[p].page /\ Head(poll[p].page) = poll[p].page[1]
  <1>1. poll[p] \in PollStates /\ PollOK(poll[p])
    BY DEF IInv, TypeOK
  <1>2. poll[p].page \in Seq([id : Entries, value : Nat])
    BY <1>1 DEF PollStates
  <1>3. QED
    BY <1>1, <1>2, HeadAndRest

LEMMA SkipSeenOK ==
    ASSUME IInv, NEW p \in Polls, SkipSeen(p)
    PROVE  IInv'
  <1> DEFINE s == [poll[p] EXCEPT !.page = Tail(@)]
             h == Head(poll[p].page)
  <1>1. /\ poll[p].pc = "page" /\ poll[p].page # <<>> /\ Seen(poll[p].prev, h.id, h.value)
        /\ poll' = [poll EXCEPT ![p] = s] /\ UNCHANGED <<sourceVars, dbVars, sent, resetDue>>
    BY DEF SkipSeen
  <1>2. poll[p] \in PollStates /\ PollOK(poll[p]) /\ Tail(poll[p].page) \in Seq([id : Entries, value : Nat])
    BY <1>1, HeadOfPage
  <1>3. s \in PollStates
    BY <1>2 DEF PollStates
  <1>4. PICK r \in PollStates : r = s
    BY <1>3
  <1>5. /\ r.pc = "page" /\ r.prev = poll[p].prev /\ r.inc = poll[p].inc /\ r.full = poll[p].full
        /\ r.pages = poll[p].pages /\ r.page = Tail(poll[p].page) /\ r.dead = poll[p].dead
        /\ r.cur = poll[p].cur
    BY <1>1, <1>2, <1>4 DEF PollStates
  <1>6. PagesStay(conf) => h.id \in Dealt(r)'
    BY <1>1, <1>2 DEF Seen, PollOK, CheckpointOK, Dealt
  <1>7. Dealt(poll[p]) \subseteq Dealt(r)'
    BY <1>1, <1>5 DEF Dealt, dbVars
  <1>8. CheckpointOK(r.cur, Dealt(r))'
    BY <1>1, <1>2, <1>5, <1>7, CheckpointKept DEF PollOK
  <1>9. sent \subseteq sent' /\ sent' \subseteq Entries
    BY <1>1 DEF IInv, TypeOK
  <1>10. QED
    BY <1>1, <1>4, <1>5, <1>6, <1>8, <1>9, RecordDone

LEMMA IngestFailsOK ==
    ASSUME IInv, NEW p \in Polls, IngestFails(p)
    PROVE  IInv'
  <1> DEFINE s == [poll[p] EXCEPT !.page = Tail(@), !.dead = @ \cup {Head(poll[p].page).id}]
             h == Head(poll[p].page)
  <1>1. /\ poll[p].pc = "page" /\ poll[p].page # <<>>
        /\ poll' = [poll EXCEPT ![p] = s] /\ UNCHANGED <<sourceVars, dbVars, sent, resetDue>>
    BY DEF IngestFails
  <1>2. /\ poll[p] \in PollStates /\ PollOK(poll[p]) /\ h \in [id : Entries, value : Nat]
        /\ Tail(poll[p].page) \in Seq([id : Entries, value : Nat])
    BY <1>1, HeadOfPage
  <1>3. s \in PollStates
    BY <1>2 DEF PollStates
  <1>4. PICK r \in PollStates : r = s
    BY <1>3
  <1>5. /\ r.pc = "page" /\ r.prev = poll[p].prev /\ r.inc = poll[p].inc /\ r.full = poll[p].full
        /\ r.pages = poll[p].pages /\ r.page = Tail(poll[p].page)
        /\ r.dead = poll[p].dead \cup {h.id} /\ r.cur = poll[p].cur
    BY <1>1, <1>2, <1>4 DEF PollStates
  <1>6. h.id \in Dealt(r)' /\ Dealt(poll[p]) \subseteq Dealt(r)'
    BY <1>1, <1>5 DEF Dealt, dbVars
  <1>7. CheckpointOK(r.cur, Dealt(r))'
    BY <1>1, <1>2, <1>5, <1>6, CheckpointKept DEF PollOK
  <1>8. sent \subseteq sent' /\ sent' \subseteq Entries
    BY <1>1 DEF IInv, TypeOK
  <1>9. QED
    BY <1>1, <1>4, <1>5, <1>6, <1>7, <1>8, RecordDone

LEMMA IngestSucceedsOK ==
    ASSUME IInv, NEW p \in Polls, IngestSucceeds(p)
    PROVE  IInv'
  <1> DEFINE q == poll[p]
             h == Head(q.page)
             c == RecordCheckpoint(BuildCheckpoint(q.inc, h.id, h.value), h.id)
             next == Advance(q.cur, c)
             Done(b) == [q EXCEPT !.page = Tail(@), !.ok = @ \cup {h.id}, !.cur = next,
                                  !.changed = b]
  <1>1. /\ q.pc = "page" /\ q.page # <<>> /\ sent' = sent \cup {h.id}
        /\ UNCHANGED <<sourceVars, dbVars, resetDue>>
    BY DEF IngestSucceeds
  <1>2. /\ q \in PollStates /\ PollOK(q) /\ h \in [id : Entries, value : Nat]
        /\ Tail(q.page) \in Seq([id : Entries, value : Nat])
        /\ 1 \in DOMAIN q.page /\ h = q.page[1]
    BY <1>1, HeadOfPage
  <1>3. /\ next \in CheckpointsOrNone
        /\ \/ next = q.cur
           \/ next.mode # "timestamp"
           \/ /\ q.inc /\ Timed /\ h.value # NoValue /\ next.value = h.value
              /\ next.ids \subseteq q.cur.ids \cup {h.id}
              /\ next.ids = {h.id} \/ q.cur.mode = "timestamp"
    <2>1. /\ q.cur \in CheckpointsOrNone /\ q.inc \in BOOLEAN /\ h.id \in Entries
          /\ h.value \in Nat /\ TypeOK
      BY <1>2 DEF PollStates, IInv
    <2> HIDE DEF q, h
    <2>2. QED
      BY ONLY <2>1, NextCheckpoint DEF next, c
  <1> HIDE DEF next
  <1>4. \A b \in BOOLEAN : Done(b) \in PollStates
    BY <1>2, <1>3 DEF PollStates
  <1>5. PICK b \in BOOLEAN : b = (q.changed \/ next # q.cur)
    <2>1. q.changed \in BOOLEAN
      BY <1>2 DEF PollStates
    <2>2. (q.changed \/ next # q.cur) \in BOOLEAN
      BY <2>1
    <2>3. QED
      BY <2>2
  <1>6. PICK r \in PollStates : r = Done(b)
    BY <1>4
  <1>7. poll' = [poll EXCEPT ![p] = r]
    BY <1>5, <1>6, Zenon DEF IngestSucceeds, next
  <1>8. /\ r.pc = "page" /\ r.prev = q.prev /\ r.inc = q.inc /\ r.full = q.full
        /\ r.pages = q.pages /\ r.page = Tail(q.page) /\ r.dead = q.dead
        /\ r.cur = next
    BY <1>1, <1>2, <1>6 DEF PollStates
  <1>9. h.id \in Dealt(r)' /\ Dealt(q) \subseteq Dealt(r)'
    BY <1>1, <1>8 DEF Dealt, dbVars
  <1>10. sent \subseteq sent' /\ sent' \subseteq Entries
    BY <1>1, <1>2 DEF IInv, TypeOK
  <1>11. CheckpointOK(r.cur, Dealt(r))'
    <2>1. CASE next = q.cur
      BY <1>1, <1>2, <1>8, <1>9, <1>10, <2>1, CheckpointKept DEF PollOK
    <2>2. CASE next.mode # "timestamp"
      BY <1>8, <2>2 DEF CheckpointOK
    <2>3. CASE /\ next.mode = "timestamp"
               /\ q.inc /\ Timed /\ h.value # NoValue /\ next.value = h.value
               /\ next.ids \subseteq q.cur.ids \cup {h.id}
               /\ next.ids = {h.id} \/ q.cur.mode = "timestamp"
      <3> SUFFICES ASSUME PagesStay(conf)
                   PROVE  CheckpointOK(r.cur, Dealt(r))'
        BY <1>1 DEF CheckpointOK, sourceVars
      <3>1. Timed' /\ conf'.supported
        BY <1>1, <1>2, <2>3 DEF PollOK, ControlOK, Timed, sourceVars
      <3>2. next.ids \subseteq sent'
        BY <1>1, <1>2, <2>3 DEF PollOK, CheckpointOK
      <3>3. /\ h.value <= clock
            /\ \A e \in there \ Dealt(q) : stamp[e] # NoValue /\ (\A j \in 1 .. 1 : q.page[j].id # e)
                 => h.value <= stamp[e]
        BY <1>2, <2>3 DEF PollOK, PageOK
      <3>4. ASSUME NEW e \in there, stamp[e] # NoValue, stamp[e] < h.value
            PROVE  e \in Dealt(r)'
        <4>1. stamp[e] \in Nat /\ h.value \in Nat
          BY <1>2, BoundsAssumption DEF IInv, TypeOK
        <4>2. e \in Dealt(q) \/ q.page[1].id = e
          BY <3>3, <3>4, <4>1
        <4>3. QED
          BY <1>2, <1>9, <4>2
      <3>5. QED
        BY <1>1, <1>8, <2>3, <3>1, <3>2, <3>3, <3>4 DEF CheckpointOK, sourceVars
    <2>4. QED
      BY <1>3, <2>1, <2>2, <2>3
  <1>12. QED
    BY <1>1, <1>7, <1>8, <1>9, <1>10, <1>11, RecordDone

----------------------------------------------------------------------------
(* What the form does under a running poll.                                *)

\* Submissions come in at the end of every list there is.
LEMMA ListsGrow ==
    ASSUME IInv, NEW e \in Entries, Submit(e), conf.mode = "timestamp", TiesByArrival, NEW c
    PROVE  /\ Found(c) \subseteq Found(c)' /\ Found(c)' \subseteq Found(c) \cup {e}
           /\ \A f \in Found(c) : Rank(c, f)' = Rank(c, f)
           /\ e \in Found(c)' => Rank(c, e)' = Cardinality(Found(c))
  <1>1. /\ e \notin there /\ there' = there \cup {e} /\ conf' = conf
        /\ stamp' = [stamp EXCEPT ![e] = clock]
        /\ \A f \in there : stamp[f] = clock => f < e
    BY DEF Submit, Stamp
  <1>2. /\ clock \in Nat \ {0} /\ stamp \in [Entries -> 0 .. MaxClock] /\ there \subseteq Entries
        /\ \A f \in there : stamp[f] \in Nat \ {0} /\ stamp[f] <= clock
        /\ \A f \in Entries : f \in Nat
    BY EntriesAssumption, BoundsAssumption DEF IInv, TypeOK, NoValue
  <1>3. /\ \A f \in there : stamp'[f] = stamp[f] /\ Field(f)' = stamp[f] /\ Field(f) = stamp[f]
        /\ Field(e)' = clock
    BY <1>1, <1>2 DEF Field
  <1>4. \A f \in there : Matches(c, f)' <=> Matches(c, f)
    BY <1>1, <1>3 DEF Matches, Timed
  <1>5. Found(c) \subseteq there /\ Found(c) \subseteq Found(c)' /\ Found(c)' \subseteq Found(c) \cup {e}
    BY <1>1, <1>4 DEF Found
  <1>6. \A d, f \in there : Before(d, f)' <=> Before(d, f)
    BY <1>1, <1>3 DEF Before
  <1>7. \A f \in there : ~Before(e, f)' /\ Before(f, e)'
    <2> SUFFICES ASSUME NEW f \in there
                 PROVE  ~Before(e, f)' /\ Before(f, e)'
      OBVIOUS
    <2>1. /\ Field(f)' = stamp[f] /\ Field(e)' = clock /\ stamp[f] \in Nat \ {0}
          /\ stamp[f] <= clock /\ (stamp[f] = clock => f < e) /\ f \in Nat /\ e \in Nat
      BY <1>1, <1>2, <1>3
    <2>2. QED
      BY <1>2, <2>1 DEF Before, NoValue
  <1>8. \A f \in Found(c) : {d \in Found(c)' : Before(d, f)'} = {d \in Found(c) : Before(d, f)}
    BY <1>5, <1>6, <1>7
  <1>9. ~Before(e, e)'
    BY <1>2, <1>3 DEF Before, NoValue
  <1>10. e \in Found(c)' => {d \in Found(c)' : Before(d, e)'} = Found(c)
    BY <1>1, <1>5, <1>7, <1>9
  <1>11. QED
    BY <1>5, <1>8, <1>10 DEF Rank

\* A submission that comes in or is edited is not older than anything that a
\* poll has seen.
LEMMA SourceOK ==
    ASSUME IInv, Tick \/ \E e \in Entries : Submit(e) \/ Edit(e)
    PROVE  IInv'
  <1>1. UNCHANGED <<conf, dbVars, sent, poll, resetDue>>
    BY DEF Tick, Submit, Edit
  <1>2. /\ clock \in Nat \ {0} /\ stamp \in [Entries -> 0 .. MaxClock] /\ there \subseteq Entries
        /\ \A f \in Entries : stamp[f] \in Nat
        /\ \A f \in there : stamp[f] <= clock
        /\ \A f \in Entries \ there : stamp[f] = NoValue
    BY BoundsAssumption DEF IInv, TypeOK
  <1> DEFINE Later ==
             /\ clock' \in 1 .. MaxClock /\ clock <= clock' /\ there \subseteq there' /\ there' \subseteq Entries
             /\ stamp' \in [Entries -> 0 .. MaxClock]
             /\ IsFiniteSet(there')
             /\ \A f \in Entries \ there' : stamp'[f] = NoValue
             /\ conf.mode = "updated_at" \/ \A f \in there' : stamp'[f] # NoValue
             /\ \A f \in there' : \/ f \in there /\ stamp'[f] = stamp[f]
                                  \/ stamp'[f] = NoValue
                                  \/ stamp'[f] = clock /\ clock' = clock
  <1>3. Later
    <2>1. CASE Tick
      BY <1>2, <2>1, BoundsAssumption DEF Tick, IInv, TypeOK
    <2>2. ASSUME NEW e \in Entries, Submit(e)
          PROVE  Later
      <3>1. clock' = clock /\ there' = there \cup {e} /\ e \notin there
        BY <2>2 DEF Submit
      <3>2. IsFiniteSet(there')
        BY <3>1, FS_AddElement DEF IInv
      <3>3. clock \in 1 .. MaxClock
        BY DEF IInv, TypeOK
      <3>4. CASE conf.mode = "updated_at"
        <4>1. stamp' = stamp
          BY <2>2, <3>4 DEF Submit
        <4>2. QED
          BY <1>2, <3>1, <3>2, <3>3, <3>4, <4>1
      <3>5. CASE conf.mode # "updated_at"
        <4>1. stamp' = [stamp EXCEPT ![e] = clock]
          BY <2>2, <3>5 DEF Submit, Stamp
        <4>2. QED
          BY <1>2, <3>1, <3>2, <3>3, <3>5, <4>1, BoundsAssumption DEF IInv, NoValue
      <3>6. QED
        BY <3>4, <3>5
    <2>3. ASSUME NEW e \in Entries, Edit(e)
          PROVE  Later
      <3>1. /\ clock' = clock /\ there' = there /\ e \in there /\ conf.mode = "updated_at"
            /\ stamp' = [stamp EXCEPT ![e] = clock]
        BY <2>3 DEF Edit, Stamp
      <3>2. clock \in 1 .. MaxClock /\ IsFiniteSet(there)
        BY DEF IInv, TypeOK
      <3>3. QED
        BY <1>2, <3>1, <3>2, BoundsAssumption
    <2> HIDE DEF Later
    <2>4. QED
      BY <2>1, <2>2, <2>3
  <1>4. ASSUME NEW c \in CheckpointsOrNone, NEW D, CheckpointOK(c, D)
        PROVE  CheckpointOK(c, D)'
    <2>1. c.value \in Nat
      BY DEF CheckpointsOrNone, Checkpoints, NoCheckpoint, NoValue
    <2>2. QED
    BY <2>1, <1>1, <1>2, <1>3, <1>4 DEF CheckpointOK, Timed
  <1>5. ASSUME NEW q \in PollStates, PollOK(q)
        PROVE  PollOK(q)'
    <2>1. Dealt(q)' = Dealt(q)
      BY <1>1 DEF Dealt, dbVars
    <2>2. CheckpointOK(q.prev, sent \cup dlq)' /\ CheckpointOK(q.cur, Dealt(q))' /\ ControlOK(q)'
      <3>1. q.prev \in CheckpointsOrNone /\ q.cur \in CheckpointsOrNone
        BY DEF PollStates
      <3>2. CheckpointOK(q.prev, sent \cup dlq)' /\ CheckpointOK(q.cur, Dealt(q))'
        BY <1>1, <1>4, <1>5, <2>1, <3>1 DEF PollOK, dbVars
      <3>3. ControlOK(q)'
        BY <1>1, <1>5 DEF PollOK, ControlOK, Timed
      <3>4. QED
        BY <3>2, <3>3
    <2>3. PageOK(q)'
      <3> SUFFICES ASSUME PagesStay(conf), q.inc, NEW i \in DOMAIN q.page
                   PROVE  /\ q.page[i].value <= clock'
                          /\ \A e \in there' \ Dealt(q) :
                               stamp'[e] # NoValue /\ (\A j \in 1 .. i : q.page[j].id # e)
                                 => q.page[i].value <= stamp'[e]
        BY <1>1, <2>1 DEF PageOK
      <3>1. q.page[i].value \in Nat
        <4>1. q.page \in Seq([id : Entries, value : Nat])
          BY DEF PollStates
        <4>2. q.page[i] \in [id : Entries, value : Nat]
          BY <4>1, LenProperties, ElementOfSeq
        <4>3. QED
          BY <4>2
      <3>2. /\ q.page[i].value <= clock
            /\ \A e \in there \ Dealt(q) :
                 stamp[e] # NoValue /\ (\A j \in 1 .. i : q.page[j].id # e)
                   => q.page[i].value <= stamp[e]
        BY <1>5 DEF PollOK, PageOK
      <3>3. q.page[i].value <= clock'
        BY <1>2, <1>3, <3>1, <3>2
      <3>4. ASSUME NEW e \in there' \ Dealt(q), stamp'[e] # NoValue,
                   \A j \in 1 .. i : q.page[j].id # e
            PROVE  q.page[i].value <= stamp'[e]
        <4>1. CASE e \in there /\ stamp'[e] = stamp[e]
          BY <3>2, <3>4, <4>1
        <4>2. CASE stamp'[e] = clock
          BY <3>2, <4>2
        <4>3. QED
          BY <1>3, <3>4, <4>1, <4>2
      <3>5. QED
        BY <3>3, <3>4
    <2>4. ReadOK(q)'
      <3> DEFINE Read ==
                   /\ q.pages * conf.top <= Cardinality(Found(q.prev)')
                   /\ \A e \in Found(q.prev)' : Rank(q.prev, e)' < q.pages * conf.top =>
                        e \in Dealt(q) \/ \E i \in DOMAIN q.page : q.page[i].id = e
      <3> SUFFICES ASSUME q.inc, q.full, conf.mode = "timestamp", conf.supported, TiesByArrival
                   PROVE  Read
        BY <1>1, <2>1 DEF ReadOK
      <3> DEFINE F == Found(q.prev)
                 read == q.pages * conf.top
      <3>1. /\ read <= Cardinality(F)
            /\ \A e \in F : Rank(q.prev, e) < read =>
                 e \in Dealt(q) \/ \E i \in DOMAIN q.page : q.page[i].id = e
        BY <1>5 DEF PollOK, ReadOK
      <3>2. read \in Nat
        <4>1. q.pages \in Nat /\ conf.top \in Nat
          BY ConfigsAssumption DEF PollStates, IInv, TypeOK
        <4>2. QED
          BY <4>1
      <3>3. F \subseteq there /\ IsFiniteSet(F) /\ Cardinality(F) \in Nat
        BY FS_Subset, FS_CardinalityType DEF Found, IInv
      <3>4. CASE Tick
        <4>1. F' = F /\ \A e : Rank(q.prev, e)' = Rank(q.prev, e)
          BY <3>4 DEF Tick, Found, Matches, Timed, Field, Rank, Before
        <4>2. QED
          BY <3>1, <4>1
      <3>5. ASSUME NEW e \in Entries, Submit(e)
            PROVE  Read
        <4>1. /\ F \subseteq F' /\ F' \subseteq F \cup {e}
              /\ \A f \in F : Rank(q.prev, f)' = Rank(q.prev, f)
              /\ e \in F' => Rank(q.prev, e)' = Cardinality(F)
          BY <3>5, ListsGrow
        <4> HIDE DEF F, read
        <4>2. Cardinality(F) <= Cardinality(F') /\ Cardinality(F') \in Nat
          <5>1. IsFiniteSet(F \cup {e})
            BY <3>3, FS_AddElement
          <5>2. IsFiniteSet(F')
            BY <4>1, <5>1, FS_Subset
          <5>3. QED
            BY <4>1, <5>2, FS_Subset, FS_CardinalityType
        <4>3. read <= Cardinality(F')
          BY <3>1, <3>2, <3>3, <4>2
        <4>4. ASSUME NEW f \in F', Rank(q.prev, f)' < read
              PROVE  f \in Dealt(q) \/ \E i \in DOMAIN q.page : q.page[i].id = f
          <5>1. CASE f \in F
            BY <3>1, <4>1, <4>4, <5>1
          <5>2. CASE f = e
            BY <3>1, <3>2, <3>3, <4>1, <4>4, <5>2
          <5>3. QED
            BY <4>1, <5>1, <5>2
        <4>5. QED
          BY <4>3, <4>4 DEF F, read
      <3>6. \A e \in Entries : ~Edit(e)
        BY DEF Edit
      <3>7. QED
        BY <3>4, <3>5, <3>6
    <2>5. QED
      BY <2>2, <2>3, <2>4 DEF PollOK
  <1>6. TypeOK'
    <2>1. PollStates' = PollStates
      BY <1>1 DEF PollStates
    <2>2. QED
      BY <1>1, <1>3, <2>1 DEF IInv, TypeOK, dbVars
  <1>7. \A p \in Polls : PollOK(poll[p])'
    <2>1. \A p \in Polls : poll[p] \in PollStates /\ PollOK(poll[p]) /\ poll'[p] = poll[p]
      BY <1>1 DEF IInv, TypeOK
    <2>2. QED
      BY <1>5, <2>1
  <1>8. CheckpointOK(ckpt, sent \cup dlq)'
    BY <1>1, <1>4 DEF IInv, TypeOK, dbVars
  <1>9. \A e \in there' : stamp'[e] <= clock'
    <2> SUFFICES ASSUME NEW e \in there'
                 PROVE  stamp'[e] <= clock'
      OBVIOUS
    <2>1. clock' \in Nat /\ stamp'[e] \in Nat
      BY <1>3, BoundsAssumption
    <2>2. QED
      BY <1>2, <1>3, <2>1 DEF NoValue
  <1>10. QED
    BY <1>1, <1>3, <1>6, <1>7, <1>8, <1>9 DEF IInv

----------------------------------------------------------------------------
(* The operator.                                                           *)

LEMMA OperatorOK ==
    ASSUME IInv, ResetCursor \/ \E e \in Entries : Replay(e)
    PROVE  IInv'
  <1>1. /\ UNCHANGED <<sourceVars, poll>> /\ sent \subseteq sent'
        /\ sent \cup dlq \subseteq sent' \cup dlq'
    BY DEF ResetCursor, Replay
  <1>2. TypeOK'
    <2>1. PollStates' = PollStates /\ NoCheckpoint \in CheckpointsOrNone
      BY <1>1 DEF PollStates, CheckpointsOrNone, sourceVars
    <2>2. CASE ResetCursor
      BY <1>1, <2>1, <2>2 DEF ResetCursor, IInv, TypeOK, sourceVars
    <2>3. CASE \E e \in Entries : Replay(e)
      BY <1>1, <2>1, <2>3 DEF Replay, IInv, TypeOK, sourceVars
    <2>4. QED
      BY <2>2, <2>3
  <1>3. CheckpointOK(ckpt, sent \cup dlq)'
    <2>1. CASE ckpt' = NoCheckpoint
      BY <2>1 DEF CheckpointOK, NoCheckpoint
    <2>2. CASE ckpt' = ckpt
      BY <1>1, <2>2, OthersKept DEF IInv
    <2>3. QED
      BY <2>1, <2>2 DEF ResetCursor, Replay
  <1>4. \A p \in Polls : PollOK(poll[p])'
    <2> SUFFICES ASSUME NEW p \in Polls
                 PROVE  PollOK(poll[p])'
      OBVIOUS
    <2>1. /\ poll[p] \in PollStates /\ PollOK(poll[p]) /\ poll'[p] = poll[p]
          /\ poll[p].page \in Seq([id : Entries, value : Nat])
      BY <1>1 DEF IInv, TypeOK, PollStates
    <2>2. \A q : q.page \in Seq([id : Entries, value : Nat]) /\ PollOK(q) => PollOK(q)'
      BY <1>1, OthersKept
    <2>3. QED
      BY <2>1, <2>2
  <1>5. QED
    BY <1>1, <1>2, <1>3, <1>4 DEF IInv, sourceVars

----------------------------------------------------------------------------
(* What follows.                                                           *)

LEMMA StepOK ==
    ASSUME IInv, Next
    PROVE  IInv'
  <1>1. ASSUME NEW e \in Entries, Submit(e) \/ Edit(e) \/ Replay(e)
        PROVE  IInv'
    BY <1>1, SourceOK, OperatorOK
  <1>2. CASE Tick
    BY <1>2, SourceOK
  <1>3. ASSUME NEW p \in Polls, StartPoll(p) \/ PollStep(p) \/ FetchFails(p) \/ CrashPoll(p)
        PROVE  IInv'
    BY <1>3, StartPollOK, FetchPageOK, SkipSeenOK, IngestSucceedsOK, IngestFailsOK, EndPageOK,
       ClosePollOK, FetchFailsOK DEF PollStep
  <1>4. CASE ResetCursor
    BY <1>4, OperatorOK
  <1>5. QED
    BY <1>1, <1>2, <1>3, <1>4 DEF Next

LEMMA StutterOK == IInv /\ UNCHANGED vars => IInv'
  <1> SUFFICES ASSUME IInv, UNCHANGED vars
               PROVE  IInv'
    OBVIOUS
  <1>1. UNCHANGED <<sourceVars, dbVars, sent, poll, resetDue>>
    BY DEF vars, sourceVars, dbVars
  <1>2. \A p \in Polls : PollOK(poll[p])'
    <2>1. \A c, e : Found(c)' = Found(c) /\ Rank(c, e)' = Rank(c, e)
      BY <1>1 DEF Found, Matches, Timed, Field, Rank, Before, sourceVars
    <2>2. QED
      BY <1>1, <2>1 DEF IInv, PollOK, CheckpointOK, ControlOK, PageOK, ReadOK, Dealt, Timed,
                        sourceVars, dbVars
  <1>3. PollStates' = PollStates
    BY <1>1 DEF PollStates, sourceVars
  <1>4. TypeOK'
    BY <1>1, <1>3 DEF IInv, TypeOK, sourceVars, dbVars
  <1>5. CheckpointOK(ckpt, sent \cup dlq)'
    BY <1>1 DEF IInv, CheckpointOK, Timed, sourceVars, dbVars
  <1>6. QED
    BY <1>1, <1>2, <1>4, <1>5 DEF IInv, sourceVars

\* The invariant implies that nothing has been skipped.
LEMMA InvariantSuffices == IInv /\ PagesStay(conf) => TypeOK /\ NoSkip
  <1> SUFFICES ASSUME IInv, PagesStay(conf)
               PROVE  NoSkip
    BY DEF IInv
  <1> SUFFICES ASSUME NEW e \in there, stamp[e] # NoValue, ~Fetchable(ckpt, e)
               PROVE  e \in sent \cup dlq
    BY DEF NoSkip
  <1>1. /\ ckpt.value \in Nat /\ stamp[e] \in Nat /\ CheckpointOK(ckpt, sent \cup dlq)
        /\ conf.mode # "sequence"
    BY BoundsAssumption DEF IInv, TypeOK, CheckpointsOrNone, Checkpoints, NoCheckpoint, NoValue,
                            PagesStay
  <1>2. CASE ~Matches(ckpt, e)
    <2>1. ckpt.mode = "timestamp" /\ ~(stamp[e] >= ckpt.value)
      BY <1>1, <1>2 DEF Matches, Field
    <2>2. QED
      BY <1>1, <2>1 DEF CheckpointOK
  <1>3. CASE Seen(ckpt, e, Field(e))
    BY <1>1, <1>3 DEF Seen, CheckpointOK
  <1>4. QED
    BY <1>2, <1>3 DEF Fetchable

THEOREM Inductive == Spec => []IInv
  <1>1. IInv /\ [Next]_vars => IInv'
    BY StepOK, StutterOK
  <1>2. QED
    BY <1>1, InitOK, PTL DEF Spec

\* Whatever the settings of the connector, its state stays within the types.
THEOREM TypeCorrect == Spec => []TypeOK
  <1>1. IInv => TypeOK
    BY DEF IInv
  <1>2. QED
    BY <1>1, Inductive, PTL

\* The watermark of a poll never passes a submission that is neither in the
\* registry nor dead-lettered: for any number of polls at a time that overwrite
\* each other's checkpoint, any number of submissions, any page size, any ties,
\* records that fail and workers that die, as long as pages do not shift while
\* they are read (worker.py:124-165).
THEOREM WatermarkSkipsNothing ==
    ASSUME \A c \in Configs : PagesStay(c)
    PROVE  Spec => []NoSkip
  <1>1. IInv => NoSkip
    <2> SUFFICES ASSUME IInv
                 PROVE  NoSkip
      OBVIOUS
    <2>1. PagesStay(conf)
      BY DEF IInv, TypeOK
    <2>2. QED
      BY <2>1, InvariantSuffices
  <1>2. QED
    BY <1>1, Inductive, PTL

----------------------------------------------------------------------------
(* One poll at a time, in the default mode.                                *)

\* The mode of the checkpoints that records of this connector carry.
Kind == IF conf.supported THEN "timestamp" ELSE "sequence"

\* A poll that starts from c knows e, or does not ask for it.
Covers(c, e) ==
    /\ e \in there /\ c.mode = "timestamp"
    /\ stamp[e] < c.value \/ (stamp[e] = c.value /\ e \in c.ids)

SoleOK(q) ==
    q.pc # "idle" =>
        /\ q.prev = ckpt
        /\ q.cur.mode \in {"none", Kind} /\ (ckpt.mode # "none" => q.cur.mode = ckpt.mode)
        /\ NoStepBack(ckpt, q.cur)
        /\ ~q.changed => q.cur = ckpt
        /\ conf.supported => q.inc
        /\ q.dead \subseteq Poison
        /\ conf.supported => \A i \in DOMAIN q.page :
              /\ q.page[i].id \in there /\ q.page[i].value = stamp[q.page[i].id]
              /\ Matches(q.prev, q.page[i].id)
        /\ conf.supported => \A e \in (done \cup q.ok) \ Poison : Covers(q.cur, e)

SoleInv ==
    conf.mode = "timestamp" =>
        /\ ckpt.mode \in {"none", Kind}
        /\ dlq \subseteq Poison
        /\ conf.supported => \A e \in done \ Poison : Covers(ckpt, e)
        /\ \A p \in Polls : SoleOK(poll[p])

LEMMA NoneIsNoCheckpoint ==
    ASSUME NEW c \in CheckpointsOrNone
    PROVE  /\ c.value \in Nat
           /\ c.mode = "none" => c = NoCheckpoint
           /\ c.mode # "none" => c \in Of(c.mode, Entries)
  BY DEF CheckpointsOrNone, Checkpoints, Modes, NoCheckpoint, NoValue, Of

\* Records of one kind: folding them in never loses ground.
LEMMA FoldKeeps ==
    ASSUME NEW m \in {"timestamp", "sequence"}, NEW cur \in CheckpointsOrNone,
           cur.mode \in {"none", m}, NEW c \in Of(m, Entries), c.value # NoValue
    PROVE  /\ Advance(cur, c).mode = m
           /\ NoStepBack(cur, Advance(cur, c))
           /\ m = "timestamp" => NoStepBack(c, Advance(cur, c))
  <1>1. c.mode = m /\ c.value \in Nat
    BY DEF Of, Checkpoints
  <1>2. CASE cur.mode = "none"
    <2>1. cur = NoCheckpoint
      BY <1>2, NoneIsNoCheckpoint
    <2>2. MergedWith(c, cur) = c
      BY <2>1 DEF MergedWith, NoCheckpoint
    <2>3. Advance(cur, c) = c
      BY <1>1, <2>1, <2>2 DEF Advance, IsAdvancedOver
    <2>4. QED
      BY <1>1, <1>2, <2>3 DEF NoStepBack
  <1>3. CASE cur.mode # "none"
    <2>1. cur \in Of(m, Entries)
      BY <1>3, NoneIsNoCheckpoint
    <2>2. NoStepBack(cur, Advance(cur, c))
      BY <2>1, AdvanceKeeps
    <2>3. m = "timestamp" => NoStepBack(c, Advance(cur, c))
      BY <2>1, AdvanceCovers
    <2>4. Advance(cur, c).mode = m
      BY <1>1, <2>1 DEF Advance, MergedWith, Of
    <2>5. QED
      BY <2>2, <2>3, <2>4
  <1>4. QED
    BY <1>2, <1>3

LEMMA NoStepBackComposes ==
    ASSUME NEW a \in CheckpointsOrNone, NEW b \in CheckpointsOrNone, NEW c \in CheckpointsOrNone,
           a.mode # "none" => b.mode = a.mode, b.mode # "none" => c.mode = b.mode,
           NoStepBack(a, b), NoStepBack(b, c)
    PROVE  NoStepBack(a, c)
  <1>1. a.value \in Nat /\ b.value \in Nat /\ c.value \in Nat
    BY NoneIsNoCheckpoint
  <1>2. CASE a.mode = "none"
    <2>1. c.mode = "none" => c = a
      BY <1>2, NoneIsNoCheckpoint
    <2>2. QED
      BY <1>2, <2>1 DEF NoStepBack
  <1>3. CASE a.mode # "none"
    BY <1>1, <1>3 DEF NoStepBack
  <1>4. QED
    BY <1>2, <1>3

LEMMA CoversKept ==
    ASSUME TypeOK, NEW c \in CheckpointsOrNone, NEW d \in CheckpointsOrNone,
           d.mode = c.mode, NoStepBack(c, d), NEW e, Covers(c, e)
    PROVE  Covers(d, e)
  <1>1. c.value \in Nat /\ d.value \in Nat /\ stamp[e] \in Nat
    BY NoneIsNoCheckpoint, BoundsAssumption DEF TypeOK, Covers
  <1>2. QED
    BY <1>1 DEF Covers, NoStepBack

\* A step of the only task.
LEMMA SoleTask ==
    ASSUME IInv, SoleInv, NEW one, Polls = {one}, NEW r, poll' = [poll EXCEPT ![one] = r],
           UNCHANGED <<sourceVars, dbVars>>, conf.mode = "timestamp" => SoleOK(r)'
    PROVE  SoleInv'
  <1>1. \A p \in Polls : poll'[p] = r
    BY DEF IInv, TypeOK
  <1>2. QED
    BY <1>1 DEF SoleInv, Kind, Covers, sourceVars, dbVars

\* ... that leaves the checkpoints alone, and no more on the page.
LEMMA SoleMoved ==
    ASSUME IInv, SoleInv, NEW one, Polls = {one}, NEW r, poll' = [poll EXCEPT ![one] = r],
           UNCHANGED <<sourceVars, dbVars>>, poll[one].pc # "idle",
           r.prev = poll[one].prev, r.cur = poll[one].cur, r.changed = poll[one].changed,
           r.inc = poll[one].inc, r.ok = poll[one].ok, r.dead \subseteq poll[one].dead \cup Poison,
           \A i \in DOMAIN r.page : \E j \in DOMAIN poll[one].page : r.page[i] = poll[one].page[j]
    PROVE  SoleInv'
  <1> SUFFICES ASSUME conf.mode = "timestamp"
               PROVE  SoleOK(r)'
    BY SoleTask
  <1>1. SoleOK(poll[one])
    BY DEF SoleInv
  <1>2. QED
    BY <1>1 DEF SoleOK, Kind, Covers, Matches, Timed, Field, sourceVars, dbVars

LEMMA SoleInit == Init => SoleInv
  BY DEF Init, SoleInv, SoleOK, Idle, NoCheckpoint

LEMMA SoleSource ==
    ASSUME IInv, SoleInv, Tick \/ \E e \in Entries : Submit(e) \/ Edit(e)
    PROVE  SoleInv'
  <1> SUFFICES ASSUME conf.mode = "timestamp"
               PROVE  SoleInv'
    BY DEF SoleInv, Tick, Submit, Edit
  <1>1. UNCHANGED <<conf, dbVars, sent, poll, resetDue>>
    BY DEF Tick, Submit, Edit
  <1>2. there \subseteq there' /\ \A e \in there : stamp'[e] = stamp[e]
    BY DEF Tick, Submit, Edit, Stamp, IInv, TypeOK
  <1>3. \A c, e : Covers(c, e) => Covers(c, e)'
    BY <1>2 DEF Covers
  <1>4. \A c : \A e \in there : Matches(c, e) => Matches(c, e)'
    BY <1>1, <1>2 DEF Matches, Timed, Field
  <1>5. ASSUME NEW q, SoleOK(q)
        PROVE  SoleOK(q)'
    BY <1>1, <1>2, <1>3, <1>4, <1>5 DEF SoleOK, Kind, dbVars
  <1>6. QED
    BY <1>1, <1>3, <1>5 DEF SoleInv, Kind, dbVars

LEMMA SoleStart ==
    ASSUME IInv, SoleInv, NEW one, Polls = {one}, StartPoll(one)
    PROVE  SoleInv'
  <1> DEFINE s == [Idle EXCEPT !.pc = "fetch", !.prev = ckpt, !.cur = ckpt,
                               !.inc = (conf.mode # "full_scan")]
  <1>1. PICK r : r = s
    OBVIOUS
  <1>2. poll' = [poll EXCEPT ![one] = r] /\ UNCHANGED <<sourceVars, dbVars>>
    BY <1>1 DEF StartPoll
  <1>3. /\ r.prev = ckpt /\ r.cur = ckpt /\ r.page = <<>> /\ r.dead = {} /\ r.ok = {}
        /\ r.inc = (conf.mode # "full_scan")
    BY <1>1 DEF Idle
  <1>4. conf.mode = "timestamp" => SoleOK(r)'
    <2> SUFFICES ASSUME conf.mode = "timestamp"
                 PROVE  SoleOK(r)'
      OBVIOUS
    <2>1. NoStepBack(ckpt, ckpt) /\ ckpt'= ckpt /\ done' = done
      BY <1>2 DEF NoStepBack, dbVars
    <2>2. r.inc
      BY <1>3
    <2>3. conf.supported => \A e \in done \ Poison : Covers(ckpt, e)'
      BY <1>2 DEF SoleInv, Covers, sourceVars, dbVars
    <2>4. ckpt.mode \in {"none", Kind'}
      BY <1>2 DEF SoleInv, Kind, sourceVars
    <2>5. conf' = conf
      BY <1>2 DEF sourceVars
    <2>6. QED
      BY <1>3, <2>1, <2>2, <2>3, <2>4, <2>5 DEF SoleOK
  <1>5. QED
    BY <1>2, <1>4, SoleTask

LEMMA SoleEnd ==
    ASSUME IInv, SoleInv, NEW one, Polls = {one}, ClosePoll(one) \/ CrashPoll(one)
    PROVE  SoleInv'
  <1> SUFFICES ASSUME conf.mode = "timestamp"
               PROVE  SoleInv'
    BY DEF SoleInv, ClosePoll, CrashPoll, sourceVars
  <1>1. poll[one] \in PollStates /\ SoleOK(poll[one]) /\ poll[one].pc # "idle"
    BY DEF IInv, TypeOK, SoleInv, ClosePoll, CrashPoll
  <1>2. \A p \in Polls : poll'[p] = Idle
    BY DEF ClosePoll, CrashPoll, IInv, TypeOK
  <1>3. \A p \in Polls : SoleOK(poll[p])'
    BY <1>2 DEF SoleOK, Idle
  <1>4. UNCHANGED sourceVars
    BY DEF ClosePoll, CrashPoll
  <1>5. CASE ClosePoll(one)
    <2>1. ckpt' = poll[one].cur /\ done' = done \cup poll[one].ok /\ dlq' = dlq \cup poll[one].dead
      BY <1>1, <1>5 DEF ClosePoll, SoleOK
    <2>2. QED
      BY <1>1, <1>3, <1>4, <2>1 DEF SoleInv, SoleOK, Kind, Covers, sourceVars
  <1>6. CASE CrashPoll(one)
    BY <1>3, <1>4, <1>6 DEF CrashPoll, SoleInv, Kind, Covers, sourceVars, dbVars
  <1>7. QED
    BY <1>5, <1>6

LEMMA SoleFetch ==
    ASSUME IInv, SoleInv, NEW one, Polls = {one}, FetchPage(one)
    PROVE  SoleInv'
  <1> DEFINE q == poll[one]
             inc == q.inc /\ conf.supported
             list == IF inc THEN Ordered(q.prev) ELSE Everything
             page == Page(list, q.pages)
             items == [i \in DOMAIN page |-> [id |-> page[i], value |-> stamp[page[i]]]]
             s == [q EXCEPT !.pc = "page", !.inc = inc, !.pages = @ + 1, !.page = items,
                            !.full = (Len(page) = conf.top)]
             closed == [q EXCEPT !.pc = "closing"]
  <1>1. /\ q \in PollStates /\ q.pc = "fetch" /\ UNCHANGED <<sourceVars, dbVars>>
    BY DEF IInv, TypeOK, FetchPage
  <1>2. CASE q.inc /\ ~conf.supported /\ conf.strict
    <2>1. PICK r : r = closed
      OBVIOUS
    <2>2. /\ poll' = [poll EXCEPT ![one] = r]
          /\ r.prev = q.prev /\ r.cur = q.cur /\ r.changed = q.changed /\ r.inc = q.inc
          /\ r.ok = q.ok /\ r.dead = q.dead /\ r.page = q.page
      BY <1>1, <1>2, <2>1 DEF FetchPage, PollStates
    <2>3. QED
      BY <1>1, <2>2, SoleMoved
  <1>3. CASE ~(q.inc /\ ~conf.supported /\ conf.strict)
    <2>1. PICK r : r = s
      OBVIOUS
    <2>2. poll' = [poll EXCEPT ![one] = r]
      BY <1>3, <2>1, Zenon DEF FetchPage
    <2> HIDE DEF items
    <2>3. /\ r.prev = q.prev /\ r.cur = q.cur /\ r.changed = q.changed
          /\ r.ok = q.ok /\ r.dead = q.dead /\ r.page = items
      BY <1>1, <2>1 DEF PollStates
    <2>4. r.inc = inc
      BY <1>1, <2>1 DEF PollStates
    <2>5. conf.mode = "timestamp" => SoleOK(r)'
      <3> SUFFICES ASSUME conf.mode = "timestamp"
                   PROVE  SoleOK(r)'
        OBVIOUS
      <3>1. SoleOK(q)
        BY DEF SoleInv
      <3>2. conf.supported => r.inc
        BY <1>1, <2>4, <3>1 DEF SoleOK
      <3>3. conf.supported =>
              \A i \in DOMAIN items :
                 /\ items[i].id \in there /\ items[i].value = stamp[items[i].id]
                 /\ Matches(q.prev, items[i].id)
        <4> SUFFICES ASSUME conf.supported
                     PROVE  \A i \in DOMAIN items :
                               /\ items[i].id \in there /\ items[i].value = stamp[items[i].id]
                               /\ Matches(q.prev, items[i].id)
          OBVIOUS
        <4>1. list = Ordered(q.prev) /\ TypeOK /\ IsFiniteSet(there)
          BY <1>1, <3>1 DEF SoleOK, IInv
        <4>2. Ordered(q.prev) \in Seq(Found(q.prev))
          BY <4>1, OrderedList
        <4>3. q.pages \in Nat
          BY <1>1, <4>1, ConfigsAssumption DEF PollStates, TypeOK
        <4> HIDE DEF list
        <4>4. page \in Seq(Found(q.prev))
          BY <4>1, <4>2, <4>3, PageOfList, Zenon
        <4> HIDE DEF page
        <4>5. \A i \in DOMAIN page : page[i] \in Found(q.prev)
          BY <4>4, LenProperties, ElementOfSeq
        <4>6. QED
          BY <4>5 DEF Found, items
      <3>4. UNCHANGED <<conf, there, stamp, ckpt, done, dlq>>
        BY <1>1 DEF sourceVars, dbVars
      <3>5. QED
        BY <1>1, <2>3, <3>1, <3>2, <3>3, <3>4
           DEF SoleOK, Kind, Covers, Matches, Timed, Field
    <2>6. QED
      BY <1>1, <2>2, <2>5, SoleTask
  <1>4. QED
    BY <1>2, <1>3

\* An ingested record: the checkpoint has not lost ground and knows it.
LEMMA SoleIngest ==
    ASSUME IInv, SoleInv, NEW one, Polls = {one}, IngestSucceeds(one)
    PROVE  SoleInv'
  <1> DEFINE q == poll[one]
             h == Head(q.page)
             b == BuildCheckpoint(q.inc, h.id, h.value)
             c == RecordCheckpoint(b, h.id)
             next == Advance(q.cur, c)
             s == [q EXCEPT !.page = Tail(@), !.ok = @ \cup {h.id}, !.cur = next,
                            !.changed = @ \/ next # q.cur]
  <1>1. /\ q.pc = "page" /\ q.page # <<>> /\ UNCHANGED <<sourceVars, dbVars>>
    BY DEF IngestSucceeds
  <1>2. /\ q \in PollStates /\ PollOK(q) /\ h \in [id : Entries, value : Nat]
        /\ 1 \in DOMAIN q.page /\ h = q.page[1]
    BY <1>1, HeadOfPage
  <1>3. PICK r : r = s
    OBVIOUS
  <1>4. poll' = [poll EXCEPT ![one] = r]
    BY <1>3, Zenon DEF IngestSucceeds
  <1>5. /\ r.prev = q.prev /\ r.inc = q.inc /\ r.page = Tail(q.page) /\ r.dead = q.dead
        /\ r.ok = q.ok \cup {h.id} /\ r.cur = next
    BY <1>2, <1>3 DEF PollStates
  <1>6. r.changed = (q.changed \/ next # q.cur)
    BY <1>2, <1>3 DEF PollStates
  <1>7. conf.mode = "timestamp" => SoleOK(r)'
    <2> SUFFICES ASSUME conf.mode = "timestamp"
                 PROVE  SoleOK(r)'
      OBVIOUS
    <2>1. /\ SoleOK(q) /\ ckpt \in CheckpointsOrNone /\ q.cur \in CheckpointsOrNone
          /\ q.cur.mode \in {"none", Kind}
      BY <1>1, <1>2 DEF SoleInv, SoleOK, IInv, TypeOK, PollStates
    <2>2. /\ c \in Of(Kind, Entries) /\ c.value # NoValue
          /\ conf.supported => /\ h.id \in there /\ h.value = stamp[h.id]
                               /\ c = [mode |-> "timestamp", value |-> h.value, ids |-> {h.id}]
      <3>1. h.id \in Nat \ {0} /\ h.id \in Entries
        BY <1>2, EntriesAssumption
      <3>2. CASE conf.supported
        <4>1. q.inc /\ h.id \in there /\ h.value = stamp[h.id]
          BY <1>1, <1>2, <2>1, <3>2 DEF SoleOK
        <4>2. h.value # NoValue /\ h.value \in Nat
          BY <1>2, <4>1 DEF IInv
        <4>3. b = [mode |-> "timestamp", value |-> h.value, ids |-> {h.id}]
          BY <4>1, <4>2 DEF BuildCheckpoint, Timed
        <4>4. c = b
          BY <4>3 DEF RecordCheckpoint, NoCheckpoint
        <4> HIDE DEF b, c, h
        <4>5. c \in Checkpoints(Entries) /\ c.mode = "timestamp" /\ c.value = h.value
          BY <3>1, <4>2, <4>3, <4>4 DEF Checkpoints, Modes
        <4>6. QED
          BY <3>2, <4>1, <4>2, <4>3, <4>4, <4>5 DEF Of, Kind
      <3>3. CASE ~conf.supported
        <4>1. ~q.inc
          BY <1>1, <1>2, <3>3 DEF PollOK, ControlOK
        <4>2. b = NoCheckpoint
          BY <4>1 DEF BuildCheckpoint
        <4>3. c = [mode |-> "sequence", value |-> h.id, ids |-> {}]
          BY <4>2 DEF RecordCheckpoint
        <4>4. QED
          BY <3>1, <3>3, <4>3 DEF Of, Checkpoints, Modes, Kind, NoValue
      <3>4. QED
        BY <3>2, <3>3
    <2> HIDE DEF c
    <2>3. /\ next.mode = Kind /\ NoStepBack(q.cur, next)
          /\ conf.supported => NoStepBack(c, next)
      BY <2>1, <2>2, FoldKeeps DEF Kind
    <2>4. next \in CheckpointsOrNone /\ c \in CheckpointsOrNone
      BY <2>1, <2>2, AdvanceType DEF Of, CheckpointsOrNone
    <2> HIDE DEF next
    <2>5. NoStepBack(ckpt, next)
      BY <2>1, <2>3, <2>4, <1>1, NoStepBackComposes DEF SoleOK
    <2>6. conf.supported => \A e \in (done \cup r.ok) \ Poison : Covers(next, e)
      <3> SUFFICES ASSUME conf.supported, NEW e \in (done \cup r.ok) \ Poison
                   PROVE  Covers(next, e)
        OBVIOUS
      <3>1. CASE e \in done \cup q.ok
        <4>1. Covers(q.cur, e)
          BY <1>1, <2>1, <3>1 DEF SoleOK
        <4>2. next.mode = q.cur.mode
          BY <2>3, <4>1 DEF Kind, Covers
        <4>3. QED
          BY <2>1, <2>3, <2>4, <4>1, <4>2, CoversKept DEF IInv
      <3>2. CASE e = h.id
        <4>1. Covers(c, e)
          BY <2>2, <3>2 DEF Covers
        <4>2. next.mode = c.mode
          BY <2>2, <2>3 DEF Kind
        <4>3. QED
          BY <2>3, <2>4, <4>1, <4>2, CoversKept DEF IInv
      <3>3. QED
        BY <1>5, <3>1, <3>2
    <2>7. ~r.changed => r.cur = ckpt
      BY <1>1, <1>5, <1>6, <2>1 DEF SoleOK
    <2>8. \A i \in DOMAIN r.page : i + 1 \in DOMAIN q.page /\ r.page[i] = q.page[i + 1]
      <3>1. q.page \in Seq([id : Entries, value : Nat])
        BY <1>2 DEF PollStates
      <3>2. QED
        BY <1>1, <1>5, <3>1
    <2>9. UNCHANGED <<conf, there, stamp, ckpt, done, dlq>>
      BY <1>1 DEF sourceVars, dbVars
    <2>10. QED
      BY <1>1, <1>5, <2>1, <2>3, <2>5, <2>6, <2>7, <2>8, <2>9
         DEF SoleOK, Kind, Covers, Matches, Timed, Field
  <1>8. QED
    BY <1>1, <1>4, <1>7, SoleTask

LEMMA SoleRest ==
    ASSUME IInv, SoleInv, NEW one, Polls = {one},
           SkipSeen(one) \/ IngestFails(one) \/ EndPage(one) \/ FetchFails(one)
    PROVE  SoleInv'
  <1> DEFINE q == poll[one]
  <1>1. q \in PollStates /\ q.page \in Seq([id : Entries, value : Nat])
    BY DEF IInv, TypeOK, PollStates
  <1> DEFINE Like(r) ==
                 /\ r.prev = q.prev /\ r.cur = q.cur /\ r.changed = q.changed /\ r.inc = q.inc
                 /\ r.ok = q.ok /\ r.dead \subseteq q.dead \cup Poison
                 /\ r.page = q.page \/ (q.page # <<>> /\ r.page = Tail(q.page))
  <1>2. UNCHANGED <<sourceVars, dbVars>> /\ q.pc # "idle"
    BY DEF SkipSeen, IngestFails, EndPage, FetchFails
  <1>3. PICK r : poll' = [poll EXCEPT ![one] = r] /\ Like(r)
    <2>1. CASE SkipSeen(one)
      <3>1. PICK r : r = [q EXCEPT !.page = Tail(@)]
        OBVIOUS
      <3>2. poll' = [poll EXCEPT ![one] = r] /\ Like(r)
        BY <1>1, <2>1, <3>1 DEF SkipSeen, PollStates
      <3>3. QED
        BY <3>2
    <2>2. CASE IngestFails(one)
      <3>1. PICK r : r = [q EXCEPT !.page = Tail(@), !.dead = @ \cup {Head(q.page).id}]
        OBVIOUS
      <3>2. poll' = [poll EXCEPT ![one] = r] /\ q.page # <<>> /\ Head(q.page).id \in Poison
        BY <2>2, <3>1 DEF IngestFails
      <3>3. Like(r)
        BY <1>1, <3>1, <3>2 DEF PollStates
      <3>4. QED
        BY <3>2, <3>3
    <2>3. CASE EndPage(one)
      <3>1. PICK r : r = [q EXCEPT !.pc = IF q.full /\ q.pages < conf.pages
                                          THEN "fetch" ELSE "closing"]
        OBVIOUS
      <3>2. poll' = [poll EXCEPT ![one] = r] /\ Like(r)
        BY <1>1, <2>3, <3>1 DEF EndPage, PollStates
      <3>3. QED
        BY <3>2
    <2>4. CASE FetchFails(one)
      <3>1. PICK r : r = [q EXCEPT !.pc = "closing"]
        OBVIOUS
      <3>2. poll' = [poll EXCEPT ![one] = r] /\ Like(r)
        BY <1>1, <2>4, <3>1 DEF FetchFails, PollStates
      <3>3. QED
        BY <3>2
    <2>5. QED
      BY <2>1, <2>2, <2>3, <2>4
  <1>4. \A i \in DOMAIN r.page : \E j \in DOMAIN q.page : r.page[i] = q.page[j]
    <2>1. CASE r.page = q.page
      BY <2>1
    <2>2. CASE q.page # <<>> /\ r.page = Tail(q.page)
      <3>1. \A i \in DOMAIN r.page : i + 1 \in DOMAIN q.page /\ r.page[i] = q.page[i + 1]
        BY <1>1, <2>2
      <3>2. QED
        BY <3>1
    <2>3. QED
      BY <1>3, <2>1, <2>2
  <1>5. QED
    BY <1>2, <1>3, <1>4, SoleMoved

LEMMA SoleReplay ==
    ASSUME IInv, SoleInv, NEW e \in Entries, Replay(e)
    PROVE  SoleInv'
  <1> SUFFICES ASSUME conf.mode = "timestamp"
               PROVE  SoleInv'
    BY DEF SoleInv, Replay, sourceVars
  <1>1. /\ UNCHANGED <<conf, there, stamp, ckpt, poll>> /\ dlq' \subseteq Poison
        /\ done' \ Poison = done \ Poison
    BY DEF SoleInv, Replay, sourceVars
  <1>2. \A p \in Polls : (done' \cup poll[p].ok) \ Poison = (done \cup poll[p].ok) \ Poison
    BY <1>1
  <1>3. \A p \in Polls : SoleOK(poll[p])'
    BY <1>1, <1>2 DEF SoleInv, SoleOK, Kind, Covers, Matches, Timed, Field
  <1>4. QED
    BY <1>1, <1>3 DEF SoleInv, Kind, Covers

LEMMA SoleStep ==
    ASSUME IInv, SoleInv, NEW one, Polls = {one}, ~CanReset, [Next]_vars
    PROVE  SoleInv'
  <1>1. ASSUME NEW e \in Entries, Submit(e) \/ Edit(e) \/ Replay(e)
        PROVE  SoleInv'
    BY <1>1, SoleSource, SoleReplay
  <1>2. CASE Tick
    BY <1>2, SoleSource
  <1>3. CASE StartPoll(one) \/ PollStep(one) \/ FetchFails(one) \/ CrashPoll(one)
    BY <1>3, SoleStart, SoleFetch, SoleRest, SoleIngest, SoleEnd DEF PollStep
  <1>4. CASE UNCHANGED vars
    BY <1>4 DEF vars, SoleInv, SoleOK, Kind, Covers, Matches, Timed, Field
  <1>5. QED
    BY <1>1, <1>2, <1>3, <1>4 DEF Next, ResetCursor

\* What holds of one poll at a time, and of its every step.
LEMMA SoleSuffices ==
    ASSUME IInv, SoleInv
    PROVE  NotReprocessed
  <1> SUFFICES ASSUME conf.mode = "timestamp", conf.supported, NEW p \in Polls,
                      poll[p].pc = "page", poll[p].page # <<>>,
                      Head(poll[p].page).id \in done \ Poison
               PROVE  Seen(poll[p].prev, Head(poll[p].page).id, Head(poll[p].page).value)
    BY DEF NotReprocessed
  <1> DEFINE h == Head(poll[p].page)
  <1>1. 1 \in DOMAIN poll[p].page /\ h = poll[p].page[1]
    BY HeadOfPage
  <1>2. /\ Covers(ckpt, h.id) /\ poll[p].prev = ckpt /\ h.id \in there
        /\ h.value = stamp[h.id] /\ Matches(ckpt, h.id)
    BY <1>1 DEF SoleInv, SoleOK
  <1> HIDE DEF h
  <1>3. /\ stamp[h.id] \in Nat /\ stamp[h.id] # NoValue /\ ckpt.value \in Nat
    BY <1>2, BoundsAssumption, NoneIsNoCheckpoint DEF IInv, TypeOK
  <1>4. stamp[h.id] = ckpt.value /\ h.id \in ckpt.ids /\ ckpt.mode = "timestamp"
    BY <1>2, <1>3 DEF Covers, Matches, Timed, Field, NoValue
  <1>5. QED
    BY <1>2, <1>3, <1>4 DEF Seen, Timed, h

LEMMA SoleForward ==
    ASSUME IInv, SoleInv, NEW one, Polls = {one}, ~CanReset, [Next]_vars, conf.mode = "timestamp"
    PROVE  NoStepBack(ckpt, ckpt')
  <1>1. CASE ckpt' = ckpt
    BY <1>1 DEF NoStepBack
  <1>2. CASE ClosePoll(one) /\ ckpt' = poll[one].cur
    BY <1>2 DEF SoleInv, SoleOK, ClosePoll
  <1>3. QED
    BY <1>1, <1>2 DEF Next, PollStep, vars, dbVars, sourceVars, Submit, Edit, Replay, Tick,
       StartPoll, FetchPage, SkipSeen, IngestSucceeds, IngestFails, EndPage, ClosePoll, FetchFails,
       CrashPoll, ResetCursor

\* When polls do not overlap, the persisted checkpoint of a timestamp connector
\* never moves back, and at a tie it keeps the boundary ids it has, whatever
\* the settings, the order of the records and the failures between them
\* (checkpoints.py:130-183, worker.py:139-162).
THEOREM AloneAdvances ==
    ASSUME NEW one, Polls = {one}, ~CanReset
    PROVE  Spec => NoRegress
  <1>1. IInv /\ SoleInv /\ [Next]_vars => SoleInv'
    BY SoleStep
  <1>2. IInv /\ SoleInv /\ [Next]_vars
          => [conf.mode = "timestamp" => NoStepBack(ckpt, ckpt')]_vars
    BY SoleForward
  <1>3. QED
    BY <1>1, <1>2, SoleInit, Inductive, PTL DEF Spec, NoRegress

\* When polls do not overlap, a submission that was ingested is not handed to
\* process_record again, however many share the watermark's instant
\* (odk_central.py:14-16).
THEOREM AloneIngestsOnce ==
    ASSUME NEW one, Polls = {one}, ~CanReset
    PROVE  Spec => []NotReprocessed
  <1>1. IInv /\ SoleInv /\ [Next]_vars => SoleInv'
    BY SoleStep
  <1>2. IInv /\ SoleInv => NotReprocessed
    BY SoleSuffices
  <1>3. QED
    BY <1>1, <1>2, SoleInit, Inductive, PTL DEF Spec

=============================================================================
