------------------------ MODULE FarmerRegistryProofs ------------------------
(***************************************************************************)
(* What the run of FarmerRegistry checks on small instances, for every      *)
(* value of the constants.  Each part has an inductive invariant of its     *)
(* own, with a lemma on its initial states, one on its steps and one on     *)
(* what the invariant gives; those of the forms, the households, the        *)
(* deduplication and the sample are in modules of their own.  The invariant of the         *)
(* registry is that of the part which a behaviour shows.                    *)
(***************************************************************************)
EXTENDS FarmerRegistry, FarmerFormsProofs, FiniteSetTheorems, SequenceTheorems,
        WellFoundedInduction, TLAPS

-----------------------------------------------------------------------------
(* The boot (BootMigration), for any names, any rows older releases may     *)
(* have left and any number of boots, submissions and approvals.  NamesKept *)
(* is not inductive because ingestion copies the intake row, whose names a  *)
(* boot may have moved before; nor is StaffNotPartner, because an approval  *)
(* fills in a source that is missing.                                       *)

USE BlankAssumption, AbsentAssumption, LegacyAssumption

\* An intake row that is not ingested yet has the names its author entered.
DraftInv == (draft # Absent /\ farmer = Absent) => Entered(draft)

\* A boot leaves a source behind, and says of no staff entry it is a partner's.
BootedInv == booted => farmer # Absent /\ farmer.source # Blank

Inductive == TypeOK /\ NamesKept /\ DraftInv /\ BootedInv /\ StaffNotPartner

-----------------------------------------------------------------------------
(* One row.                                                                *)

LEMMA MoveType ==
    /\ \A r \in Farmers : MoveMiddleName(r) \in Farmers
    /\ \A r \in Drafts : MoveMiddleName(r) \in Drafts
  <1>1. ASSUME NEW r \in Farmers PROVE MoveMiddleName(r) \in Farmers
    BY DEF MoveMiddleName, Farmers, AnyName
  <1>2. ASSUME NEW r \in Drafts PROVE MoveMiddleName(r) \in Drafts
    <2>1. r.middle \in AnyName /\ r.father \in AnyName /\ Blank \in AnyName
      BY DEF Drafts, AnyName
    <2> QED BY <2>1 DEF MoveMiddleName, Drafts
  <1> QED BY <1>1, <1>2

\* Moving the middle name keeps what was entered, in a register row and in an
\* intake row.
LEMMA MoveKeeps ==
    ASSUME NEW r \in Farmers \cup Drafts, Entered(r)
    PROVE  Entered(MoveMiddleName(r))
  <1>1. CASE r \in Farmers
    BY <1>1 DEF Entered, MoveMiddleName, Farmers
  <1>2. CASE r \in Drafts
    BY <1>2 DEF Entered, MoveMiddleName, Drafts
  <1> QED BY <1>1, <1>2

\* The statements before and after the move leave both names alone.
LEMMA Recovered ==
    ASSUME NEW r \in Farmers, history \in Form \cup {"PARTNER", Blank}
    PROVE  LET q == AppendLocalNames(RecoverSource(MarkApproved(RecoverRegion(r))))
           IN  /\ q \in Farmers
               /\ q.middle = r.middle /\ q.father = r.father
               /\ q.source # Blank
               /\ r.source # Blank => q.source = r.source
  <1> DEFINE a == MarkApproved(RecoverRegion(r))
             b == RecoverSource(a)
  <1>1. a \in Farmers /\ a.middle = r.middle /\ a.father = r.father
                      /\ a.source = r.source
    BY DEF MarkApproved, RecoverRegion, Farmers
  <1>2. /\ b \in Farmers /\ b.middle = a.middle /\ b.father = a.father
        /\ b.source # Blank /\ (a.source # Blank => b.source = a.source)
    <2> HIDE DEF a
    <2> QED BY <1>1 DEF RecoverSource, Farmers, Sources, Form
  <1>3. /\ AppendLocalNames(b) \in Farmers
        /\ AppendLocalNames(b).middle = b.middle
        /\ AppendLocalNames(b).father = b.father
        /\ AppendLocalNames(b).source = b.source
    <2> HIDE DEF b
    <2> QED BY <1>2 DEF AppendLocalNames, Farmers
  <1> HIDE DEF a, b
  <1> QED BY <1>1, <1>2, <1>3 DEF a, b

LEMMA Read ==
    ASSUME NEW r \in Farmers, TypeOK, r.source # Blank
    PROVE  LET q == ReadSubmission(FillAge(r))
           IN  /\ q \in Farmers
               /\ q.middle = r.middle /\ q.father = r.father
               /\ q.source # Blank
               /\ (draft # Absent /\ draft.channel = "STAFF_PORTAL")
                      => q.source # "PARTNER"
  <1> DEFINE a == FillAge(r)
  <1>1. a \in Farmers /\ a.middle = r.middle /\ a.father = r.father
                      /\ a.source = r.source
    BY DEF FillAge, Farmers
  <1> HIDE DEF a
  <1>2. /\ ReadSubmission(a) \in Farmers
        /\ ReadSubmission(a).middle = a.middle
        /\ ReadSubmission(a).father = a.father
        /\ ReadSubmission(a).source # Blank
        /\ (draft # Absent /\ draft.channel = "STAFF_PORTAL")
               => ReadSubmission(a).source # "PARTNER"
    <2>1. CASE draft = Absent
      BY <1>1, <2>1 DEF ReadSubmission
    <2>2. CASE draft # Absent
      BY <1>1, <2>2 DEF ReadSubmission, Farmers, Sources, Form
    <2> QED BY <2>1, <2>2
  <1> QED BY <1>1, <1>2 DEF a

\* A boot keeps the names, and corrects the source.
LEMMA BootRow ==
    ASSUME NEW r \in Farmers, TypeOK
    PROVE  /\ Boot(r) \in Farmers
           /\ Entered(r) => Entered(Boot(r))
           /\ Boot(r).source # Blank
           /\ (draft # Absent /\ draft.channel = "STAFF_PORTAL")
                  => Boot(r).source # "PARTNER"
  <1> DEFINE a == AppendLocalNames(RecoverSource(MarkApproved(RecoverRegion(r))))
             b == MoveInRegister(a)
             c == ReadSubmission(FillAge(b))
  <1>1. a \in Farmers /\ a.middle = r.middle /\ a.father = r.father
                      /\ a.source # Blank
    BY Recovered DEF TypeOK
  <1>2. b \in Farmers /\ b.source # Blank /\ (Entered(a) => Entered(b))
    <2> HIDE DEF a
    <2>1. MoveMiddleName(a) \in Farmers /\ MoveMiddleName(a).source = a.source
      BY <1>1 DEF MoveMiddleName, Farmers
    <2>2. Entered(a) => Entered(MoveMiddleName(a))
      BY <1>1, MoveKeeps
    <2> QED BY <1>1, <2>1, <2>2 DEF MoveInRegister
  <1>3. /\ c \in Farmers /\ c.middle = b.middle /\ c.father = b.father
        /\ c.source # Blank
        /\ (draft # Absent /\ draft.channel = "STAFF_PORTAL") => c.source # "PARTNER"
    <2> HIDE DEF b
    <2> QED BY <1>2, Read
  <1>4. Boot(r) = c
    BY DEF Boot
  <1> HIDE DEF a, b, c
  <1> QED BY <1>1, <1>2, <1>3, <1>4 DEF Entered

-----------------------------------------------------------------------------
(* Every state.                                                            *)

LEMMA InitInductive == Init => Inductive
  <1> SUFFICES ASSUME Init PROVE Inductive
    OBVIOUS
  <1>1. CASE draft = Absent /\ farmer = Absent
    <2>1. typed = [middle |-> Blank, father |-> Blank, by |-> "form"]
      BY <1>1 DEF Init
    <2> QED BY <1>1, <2>1 DEF Init, Inductive, TypeOK, NamesKept, DraftInv, BootedInv,
               StaffNotPartner, AnyName, Authors
  <1>2. CASE farmer \in Legacy
    <2>1. farmer \in Farmers /\ farmer # Absent
      BY <1>2
    <2>2. typed = [middle |-> farmer.middle, father |-> farmer.father,
                   by |-> AuthorOf(draft, farmer)]
      BY <2>1 DEF Init
    <2>3. draft \in Drafts \cup {Absent}
      BY <2>1 DEF Init, Drafts, Farmers
    <2>4. AuthorOf(draft, farmer) \in Authors
      BY DEF AuthorOf, Authors
    <2>5. typed \in [middle : AnyName, father : AnyName, by : Authors] /\ Entered(farmer)
      BY <2>1, <2>2, <2>4 DEF Entered, Farmers
    <2> QED BY <2>1, <2>3, <2>5 DEF Init, Inductive, TypeOK, NamesKept, DraftInv,
               BootedInv, StaffNotPartner
  <1> QED BY <1>1, <1>2 DEF Init

LEMMA StepInductive == Inductive /\ [Next]_vars => Inductive'
  <1> SUFFICES ASSUME Inductive, [Next]_vars PROVE Inductive'
    OBVIOUS
  <1> USE DEF Inductive
  <1>1. ASSUME NEW c \in Channels, NEW m \in AnyName, NEW f \in AnyName, Submit(c, m, f)
        PROVE  Inductive'
    <2>1. draft' \in Drafts /\ draft'.middle = m /\ draft'.father = f
      BY <1>1 DEF Submit, Drafts
    <2>2. /\ typed' \in [middle : AnyName, father : AnyName, by : Authors]
          /\ typed'.middle = m /\ typed'.father = f
      BY <1>1 DEF Submit, Authors
    <2>3. farmer' = Absent /\ ~booted'
      BY <1>1 DEF Submit, BootedInv
    <2> QED BY <1>1, <2>1, <2>2, <2>3 DEF Submit, TypeOK, NamesKept, DraftInv, BootedInv,
               StaffNotPartner, Entered
  <1>2. ASSUME NEW b \in BOOLEAN, Ingest(b) PROVE Inductive'
    <2>1. /\ farmer' \in Farmers
          /\ farmer'.middle = draft.middle /\ farmer'.father = draft.father
      BY <1>2 DEF Ingest, TypeOK, Drafts, Farmers, Sources, Form
    <2>2. ~booted'
      BY <1>2 DEF Ingest, BootedInv
    <2> QED BY <1>2, <2>1, <2>2 DEF Ingest, TypeOK, NamesKept, DraftInv, BootedInv,
               StaffNotPartner, Entered
  <1>3. ASSUME NEW s \in {"STAFF_PORTAL", "PARTNER"}, NEW m \in AnyName, NEW f \in Names,
               Approve(s, m, f)
        PROVE  Inductive'
    <2>1. /\ farmer' \in Farmers /\ farmer'.middle = m /\ farmer'.father = f
          /\ farmer.source # Blank => farmer'.source = farmer.source
      BY <1>3 DEF Approve, TypeOK, Farmers, Sources, Form, AnyName
    <2>2. /\ typed' \in [middle : AnyName, father : AnyName, by : Authors]
          /\ typed'.middle = m /\ typed'.father = f
      BY <1>3 DEF Approve, Authors, AnyName
    <2> QED BY <1>3, <2>1, <2>2 DEF Approve, TypeOK, NamesKept, DraftInv, BootedInv,
               StaffNotPartner, Entered, Form
  <1>4. ASSUME NEW s \in {"STAFF_PORTAL", "PARTNER"}, ApproveOther(s)
        PROVE  Inductive'
    <2>1. /\ farmer' \in Farmers
          /\ farmer'.middle = farmer.middle /\ farmer'.father = farmer.father
          /\ farmer.source # Blank => farmer'.source = farmer.source
      BY <1>4 DEF ApproveOther, TypeOK, Farmers, Sources, Form
    <2> QED BY <1>4, <2>1 DEF ApproveOther, TypeOK, NamesKept, DraftInv, BootedInv,
               StaffNotPartner, Entered, Form
  <1>5. ASSUME NEW m \in AnyName, NEW f \in AnyName, SeedPerson(m, f) PROVE Inductive'
    <2>1. farmer' \in Farmers /\ farmer'.middle = m /\ farmer'.father = f
      BY <1>5 DEF SeedPerson, Farmers, Sources
    <2>2. /\ typed' \in [middle : AnyName, father : AnyName, by : Authors]
          /\ typed'.middle = m /\ typed'.father = f
      BY <1>5 DEF SeedPerson, Authors
    <2> QED BY <1>5, <2>1, <2>2 DEF SeedPerson, TypeOK, NamesKept, DraftInv, BootedInv,
               StaffNotPartner, Entered
  <1>6. CASE Restart
    <2>1. /\ draft' \in Drafts \cup {Absent} /\ (draft' = Absent <=> draft = Absent)
          /\ draft # Absent => draft'.channel = draft.channel
          /\ (draft # Absent /\ Entered(draft)) => Entered(draft')
      <3>1. CASE draft = Absent
        BY <1>6, <3>1 DEF Restart
      <3>2. CASE draft # Absent
        <4>1. draft \in Drafts /\ draft' = MoveMiddleName(draft)
          BY <1>6, <3>2 DEF Restart, TypeOK
        <4>2. draft'.channel = draft.channel
          BY <4>1 DEF MoveMiddleName, Drafts
        <4> QED BY <3>2, <4>1, <4>2, MoveType, MoveKeeps
      <3> QED BY <3>1, <3>2
    <2>2. CASE farmer = Absent
      BY <1>6, <2>1, <2>2 DEF Restart, TypeOK, NamesKept, DraftInv, BootedInv,
         StaffNotPartner, Entered
    <2>3. CASE farmer # Absent
      <3>1. farmer \in Farmers /\ farmer' = Boot(farmer)
        BY <1>6, <2>3 DEF Restart, TypeOK
      <3>2. /\ farmer' \in Farmers /\ Entered(farmer') /\ farmer'.source # Blank
            /\ (draft # Absent /\ draft.channel = "STAFF_PORTAL")
                   => farmer'.source # "PARTNER"
        BY <2>3, <3>1, BootRow DEF NamesKept
      <3>3. booted' \in BOOLEAN /\ UNCHANGED <<history, typed>>
        BY <1>6 DEF Restart
      <3> QED BY <2>1, <3>2, <3>3 DEF TypeOK, NamesKept, DraftInv, BootedInv,
                 StaffNotPartner, Entered
    <2> QED BY <2>2, <2>3
  <1>7. CASE UNCHANGED vars
    BY <1>7 DEF vars, TypeOK, NamesKept, DraftInv, BootedInv, StaffNotPartner, Entered
  <1> QED BY <1>1, <1>2, <1>3, <1>4, <1>5, <1>6, <1>7 DEF Next

-----------------------------------------------------------------------------
\* In every reachable state a row has its types and the names that were
\* entered, and what a boot has corrected stays corrected.
THEOREM BootInvariant == Spec => []Inductive
  BY InitInductive, StepInductive, PTL DEF Spec

\* Boots, ingestion and approvals, in any order, lose and overwrite no name.
THEOREM NamesAreKept == Spec => []NamesKept
  <1>1. Inductive => NamesKept
    BY DEF Inductive
  <1> QED BY <1>1, BootInvariant, PTL

\* After a boot, a farmer entered at the staff portal is nobody's partner
\* record, whatever is approved later and however often it boots.
THEOREM StaffStayStaff == Spec => []StaffNotPartner
  <1>1. Inductive => StaffNotPartner
    BY DEF Inductive
  <1> QED BY <1>1, BootInvariant, PTL

-----------------------------------------------------------------------------
(* Boot after boot.                                                        *)

\* What a boot leaves, but for the names: they depend on a source that is
\* corrected after them.
Corrected(r) ==
    /\ r.state = "APPROVED" /\ r.source # Blank
    /\ r.hierarchy => r.region
    /\ r.local => r.found
    /\ r.born => r.aged
    /\ draft # Absent => /\ r.clerk
                         /\ draft.channel = "STAFF_PORTAL" => r.source # "PARTNER"

NamesMoved(r) == r.source \in Form => r.father # Blank \/ r.middle = Blank

\* A boot has nothing left to do to such a row.
LEMMA NothingToDo ==
    ASSUME NEW r \in Farmers, Corrected(r), NamesMoved(r)
    PROVE  Boot(r) = r
  <1>1. RecoverRegion(r) = r
    BY DEF RecoverRegion, Corrected, Farmers
  <1>2. MarkApproved(r) = r
    BY DEF MarkApproved, Corrected, Farmers
  <1>3. RecoverSource(r) = r
    BY DEF RecoverSource, Corrected, Farmers
  <1>4. AppendLocalNames(r) = r
    BY DEF AppendLocalNames, Corrected, Farmers
  <1>5. MoveInRegister(r) = r
    BY DEF MoveInRegister, MoveMiddleName, NamesMoved
  <1>6. FillAge(r) = r
    BY DEF FillAge, Corrected, Farmers
  <1>7. ReadSubmission(r) = r
    BY DEF ReadSubmission, Corrected, Farmers
  <1> QED BY <1>1, <1>2, <1>3, <1>4, <1>5, <1>6, <1>7 DEF Boot

LEMMA BootCorrects ==
    ASSUME NEW r \in Farmers, TypeOK
    PROVE  /\ Corrected(Boot(r))
           /\ Corrected(r) => Boot(r).source = r.source /\ NamesMoved(Boot(r))
  <1> DEFINE a == MarkApproved(RecoverRegion(r))
             b == AppendLocalNames(RecoverSource(a))
             c == MoveInRegister(b)
             d == FillAge(c)
             e == ReadSubmission(d)
  <1>1. /\ a \in Farmers /\ a.source = r.source /\ a.state = "APPROVED"
        /\ a.hierarchy => a.region
    BY DEF MarkApproved, RecoverRegion, Farmers
  <1>2. /\ b \in Farmers /\ b.source # Blank /\ (r.source # Blank => b.source = r.source)
        /\ b.state = "APPROVED" /\ (b.hierarchy => b.region) /\ (b.local => b.found)
    <2> HIDE DEF a
    <2>1. history \in Sources \cup {Blank}
      BY DEF TypeOK, Sources
    <2>2. /\ RecoverSource(a) \in Farmers /\ RecoverSource(a).source # Blank
          /\ a.source # Blank => RecoverSource(a).source = a.source
          /\ RecoverSource(a).state = a.state /\ RecoverSource(a).region = a.region
          /\ RecoverSource(a).hierarchy = a.hierarchy
      BY <1>1, <2>1 DEF RecoverSource, Farmers, Sources, Form
    <2> QED BY <1>1, <2>2 DEF AppendLocalNames, Farmers
  <1>3. /\ c \in Farmers /\ c.source = b.source /\ c.state = b.state /\ NamesMoved(c)
        /\ c.hierarchy => c.region
        /\ c.local => c.found
    <2> HIDE DEF b
    <2>1. MoveMiddleName(b) \in Farmers
      BY <1>2, MoveType
    <2> QED BY <1>2, <2>1 DEF MoveInRegister, MoveMiddleName, NamesMoved, Farmers
  <1>4. /\ d \in Farmers /\ d.source = c.source /\ d.state = c.state
        /\ d.middle = c.middle /\ d.father = c.father
        /\ d.hierarchy => d.region
        /\ d.local => d.found
        /\ d.born => d.aged
    <2> HIDE DEF c
    <2> QED BY <1>3 DEF FillAge, Farmers
  <1>5. /\ Corrected(e) /\ e.middle = d.middle /\ e.father = d.father
        /\ Corrected(r) => e.source = d.source
    <2> HIDE DEF d
    <2>1. CASE draft = Absent
      BY <1>2, <1>3, <1>4, <2>1 DEF ReadSubmission, Corrected
    <2>2. CASE draft # Absent
      <3>1. /\ e.state = d.state /\ e.hierarchy = d.hierarchy /\ e.region = d.region
            /\ e.local = d.local /\ e.found = d.found /\ e.born = d.born
            /\ e.aged = d.aged /\ e.clerk
            /\ e.middle = d.middle /\ e.father = d.father
        BY <1>4, <2>2 DEF ReadSubmission, Farmers
      <3>2. /\ e.source # Blank
            /\ draft.channel = "STAFF_PORTAL" => e.source # "PARTNER"
            /\ (draft.channel = "STAFF_PORTAL" => d.source # "PARTNER") => e.source = d.source
        BY <1>2, <1>3, <1>4, <2>2 DEF ReadSubmission, Farmers, Sources, Form
      <3>3. Corrected(r) => e.source = d.source
        BY <1>2, <1>3, <1>4, <2>2, <3>2 DEF Corrected
      <3> QED BY <1>2, <1>3, <1>4, <3>1, <3>2, <3>3 DEF Corrected
    <2> QED BY <2>1, <2>2
  <1>6. Boot(r) = e
    BY DEF Boot
  <1> HIDE DEF a, b, c, d, e
  <1>7. Corrected(r) => e.source = r.source
    BY <1>2, <1>3, <1>4, <1>5 DEF Corrected
  <1>8. Corrected(r) => NamesMoved(e)
    BY <1>2, <1>3, <1>4, <1>5, <1>7 DEF NamesMoved, Corrected
  <1> QED BY <1>5, <1>6, <1>7, <1>8

LEMMA SettlesHold == Inductive => Settles
  <1>1. ASSUME TypeOK, farmer # Absent
        PROVE  Boot(Boot(Boot(farmer))) = Boot(Boot(farmer))
    <2> DEFINE once == Boot(farmer)
               twice == Boot(once)
    <2>1. once \in Farmers /\ Corrected(once)
      BY <1>1, BootRow, BootCorrects DEF TypeOK
    <2> HIDE DEF once
    <2>2. twice \in Farmers /\ Corrected(twice) /\ NamesMoved(twice)
      BY <1>1, <2>1, BootRow, BootCorrects
    <2>3. Boot(twice) = twice
      BY <2>2, NothingToDo
    <2> QED BY <2>3 DEF once
  <1> QED BY <1>1 DEF Inductive, Settles

\* Whatever row a boot finds, the second boot after another ends where every
\* later one stays: the statements of app.py reach a fixpoint in two boots.
THEOREM BootsReachAFixpoint == Spec => []Settles
  BY SettlesHold, BootInvariant, PTL


HIDE LegacyAssumption
HIDE AbsentAssumption
HIDE BlankAssumption

-----------------------------------------------------------------------------
\* The number of the first row is the least: a set of numbers has one.
LEMMA LeastExists ==
    ASSUME NEW S, S \subseteq Nat, S # {}
    PROVE  \E x \in S : \A y \in S : x <= y
  <1>1. IsWellFoundedOn(OpToRel(<, Nat), Nat)
    BY NatLessThanWellFounded, Zenon
  <1>2. PICK x \in S : \A y \in S : ~(<<y, x>> \in OpToRel(<, Nat))
    BY <1>1, WFMin, Zenon
  <1>3. \A y \in S : x <= y
    <2> SUFFICES ASSUME NEW y \in S
                 PROVE  x <= y
      OBVIOUS
    <2>1. x \in Nat /\ y \in Nat
      OBVIOUS
    <2>2. ~(<<y, x>> \in OpToRel(<, Nat))
      BY <1>2, Zenon
    <2>3. ~(y < x)
      BY <2>1, <2>2, Zenon DEF OpToRel
    <2> QED
      BY <2>1, <2>3
  <1> QED
    BY <1>3

-----------------------------------------------------------------------------
(* The land totals (LandRollup).                                            *)

\* While nothing has committed since a hook read the lands, its sums are those
\* of the lands as they will be once it has.
SumsCurrent ==
    \A l \in Lands : ltx[l] # NULL =>
        /\ "latest" \in DOMAIN ltx[l] /\ ltx[l].latest \in BOOLEAN
        /\ ltx[l].latest =>
              ltx[l].total =
                  Rollup!Recomputed(Rollup!Active([land EXCEPT ![l] = ltx[l].version]))

RollupInv ==
    /\ DOMAIN land = Lands /\ DOMAIN ltx = Lands /\ overlapped \in BOOLEAN
    /\ SumsCurrent /\ Rollup!TotalsFollow

\* The boot may see another ownership than the service, never another area.
LEMMA BackfillAgrees ==
    ASSUME NEW A
    PROVE  /\ Rollup!Areas(Rollup!Backfilled(A)) = Rollup!Areas(Rollup!Recomputed(A))
           /\ \/ Rollup!Backfilled(A) = Rollup!Recomputed(A)
              \/ \E p \in A : p[2].size = NULL
  <1>1. ASSUME NEW k, NEW n
        PROVE  Rollup!Areas(Rollup!Sums(A, k)) = Rollup!Areas(Rollup!Sums(A, n))
    BY DEF Rollup!Areas, Rollup!Sums
  <1>2. ASSUME \A p \in A : p[2].size # NULL
        PROVE  Rollup!Backfilled(A) = Rollup!Recomputed(A)
    <2>1. {p \in A : p[2].size # NULL} = A
      BY <1>2
    <2>2. QED
      BY <2>1 DEF Rollup!Backfilled, Rollup!Recomputed
  <1>3. QED
    BY <1>1, <1>2 DEF Rollup!Backfilled, Rollup!Recomputed

LEMMA RollupStart == Rollup!Init => RollupInv
  BY DEF Rollup!Init, RollupInv, SumsCurrent, Rollup!TotalsFollow

LEMMA RollupStep == RollupInv /\ Rollup!Next => RollupInv'
  <1> SUFFICES ASSUME RollupInv, Rollup!Next PROVE RollupInv'
    OBVIOUS
  <1> USE DEF RollupInv
  <1>1. ASSUME NEW l \in Lands, NEW v \in Versions, Rollup!Recompute(l, v)
        PROVE  RollupInv'
    <2>1. PICK w : w = [version |-> v, latest |-> TRUE,
                        total |-> Rollup!Recomputed(Rollup!Active([land EXCEPT ![l] = v]))]
      OBVIOUS
    <2>2. ltx' = [ltx EXCEPT ![l] = w] /\ UNCHANGED <<land, total, overlapped>>
      BY <1>1, <2>1 DEF Rollup!Recompute
    <2>3. /\ "latest" \in DOMAIN w /\ w.latest \in BOOLEAN
          /\ w.total = Rollup!Recomputed(Rollup!Active([land EXCEPT ![l] = w.version]))
      BY <2>1
    <2>4. ltx'[l] = w /\ \A m \in Lands \ {l} : ltx'[m] = ltx[m]
      BY <2>2
    <2>5. SumsCurrent'
      BY <2>2, <2>3, <2>4 DEF SumsCurrent
    <2>6. Rollup!TotalsFollow'
      BY <2>2 DEF Rollup!TotalsFollow, Rollup!Active
    <2>7. QED
      BY <2>2, <2>5, <2>6
  <1>2. ASSUME NEW l \in Lands, Rollup!Commit(l)
        PROVE  RollupInv'
    <2>1. /\ ltx[l] # NULL /\ land' = [land EXCEPT ![l] = ltx[l].version]
          /\ total' = ltx[l].total /\ overlapped' = ~ltx[l].latest
          /\ DOMAIN ltx' = Lands
          /\ \A m \in Lands : ltx'[m] = IF m = l \/ ltx[m] = NULL THEN NULL
                                        ELSE [ltx[m] EXCEPT !.latest = FALSE]
      BY <1>2 DEF Rollup!Commit
    <2>2. SumsCurrent'
      <3> SUFFICES ASSUME NEW m \in Lands, ltx'[m] # NULL
                   PROVE  "latest" \in DOMAIN ltx'[m] /\ ltx'[m].latest = FALSE
        BY DEF SumsCurrent
      <3>1. ltx[m] # NULL /\ ltx'[m] = [ltx[m] EXCEPT !.latest = FALSE]
        BY <2>1
      <3>2. QED
        BY <3>1 DEF SumsCurrent
    <2>3. Rollup!TotalsFollow'
      <3> SUFFICES ASSUME ~overlapped'
                   PROVE  total' = Rollup!Recomputed(Rollup!Active(land))'
        BY DEF Rollup!TotalsFollow
      <3>1. total' = Rollup!Recomputed(Rollup!Active([land EXCEPT ![l] = ltx[l].version]))
        BY <2>1 DEF SumsCurrent
      <3>2. QED
        BY <2>1, <3>1 DEF Rollup!Active, Rollup!Recomputed
    <2>4. overlapped' \in BOOLEAN
      BY <2>1
    <2>5. QED
      BY <2>1, <2>2, <2>3, <2>4
  <1>3. ASSUME NEW loaded \in [Lands -> {v \in Versions : v.status = "ACTIVE"} \cup {NULL}],
               Rollup!SeedLands(loaded)
        PROVE  RollupInv'
    BY <1>3 DEF Rollup!SeedLands, SumsCurrent, Rollup!TotalsFollow
  <1>4. ASSUME Rollup!Restart
        PROVE  RollupInv'
    <2>1. /\ \A l \in Lands : ltx[l] = NULL
          /\ total' = Rollup!Backfilled(Rollup!Active(land))
          /\ UNCHANGED <<land, ltx, overlapped>>
      BY <1>4 DEF Rollup!Restart
    <2>2. Rollup!TotalsFollow'
      BY <2>1, BackfillAgrees DEF Rollup!TotalsFollow, Rollup!Active
    <2>3. QED
      BY <2>1, <2>2 DEF SumsCurrent
  <1>5. QED
    BY <1>1, <1>2, <1>3, <1>4 DEF Rollup!Next

-----------------------------------------------------------------------------
(* Sums over a finite set of lands.  MapThenSumSet adds up by a function    *)
(* that is defined by itself; that there is such a function, and only one,  *)
(* is shown for a smallest set that has none, or two.                       *)

Worth(p) == Rollup!Hectares(p[2])
Pick(s) == CHOOSE p \in s : TRUE
Solves(g, S) ==
    g = [s \in SUBSET S |-> IF s = {} THEN 0 ELSE Worth(Pick(s)) + g[s \ {Pick(s)}]]

LEMMA PickIsIn == \A s : s # {} => Pick(s) \in s
  BY DEF Pick

LEMMA Rest ==
    ASSUME NEW s, IsFiniteSet(s), s # {}
    PROVE  /\ IsFiniteSet(s \ {Pick(s)}) /\ Cardinality(s) \in Nat
           /\ Cardinality(s \ {Pick(s)}) \in Nat
           /\ Cardinality(s \ {Pick(s)}) < Cardinality(s)
  <1>1. Pick(s) \in s
    BY PickIsIn
  <1>2. /\ IsFiniteSet(s \ {Pick(s)})
        /\ Cardinality(s \ {Pick(s)}) = Cardinality(s) - 1
    BY <1>1, FS_RemoveElement
  <1>3. Cardinality(s) \in Nat /\ Cardinality(s \ {Pick(s)}) \in Nat
    BY <1>2, FS_CardinalityType
  <1> QED
    BY <1>2, <1>3

LEMMA OneSolution ==
    ASSUME NEW S, NEW T, IsFiniteSet(S), NEW g, Solves(g, S), NEW k, Solves(k, T),
           NEW s \in SUBSET (S \cap T)
    PROVE  g[s] = k[s]
  <1> DEFINE Bad == {n \in Nat : \E t \in SUBSET (S \cap T) : Cardinality(t) = n /\ g[t] # k[t]}
  <1> SUFFICES ASSUME g[s] # k[s] PROVE FALSE
    OBVIOUS
  <1>1. Cardinality(s) \in Bad
    BY FS_Subset, FS_CardinalityType
  <1>2. PICK n \in Bad : \A m \in Bad : n <= m
    BY <1>1, LeastExists
  <1>3. PICK t \in SUBSET (S \cap T) : Cardinality(t) = n /\ g[t] # k[t]
    BY <1>2
  <1>4. /\ \A u \in SUBSET S : g[u] = IF u = {} THEN 0 ELSE Worth(Pick(u)) + g[u \ {Pick(u)}]
        /\ \A u \in SUBSET T : k[u] = IF u = {} THEN 0 ELSE Worth(Pick(u)) + k[u \ {Pick(u)}]
    BY DEF Solves
  <1>5. t # {}
    BY <1>3, <1>4
  <1>6. IsFiniteSet(t)
    BY FS_Subset
  <1>7. g[t \ {Pick(t)}] # k[t \ {Pick(t)}]
    BY <1>3, <1>4, <1>5
  <1>8. Cardinality(t \ {Pick(t)}) \in Bad
    BY <1>5, <1>6, <1>7, Rest
  <1> QED
    BY <1>2, <1>3, <1>5, <1>6, <1>8, Rest

LEMMA SolutionExists ==
    ASSUME NEW S, IsFiniteSet(S)
    PROVE  \E g : Solves(g, S)
  <1> DEFINE Bad == {n \in Nat : \E t \in SUBSET S : Cardinality(t) = n /\ ~ \E g : Solves(g, t)}
  <1> SUFFICES ASSUME ~ \E g : Solves(g, S) PROVE FALSE
    OBVIOUS
  <1>1. Cardinality(S) \in Bad
    BY FS_CardinalityType
  <1>2. PICK n \in Bad : \A m \in Bad : n <= m
    BY <1>1, LeastExists
  <1>3. PICK T \in SUBSET S : Cardinality(T) = n /\ ~ \E g : Solves(g, T)
    BY <1>2
  <1>4. IsFiniteSet(T)
    BY FS_Subset
  <1>5. ASSUME NEW u \in SUBSET T, u # T
        PROVE  IsFiniteSet(u) /\ \E g : Solves(g, u)
    <2>1. IsFiniteSet(u) /\ Cardinality(u) \in Nat /\ Cardinality(u) < Cardinality(T)
      BY <1>4, <1>5, FS_Subset, FS_CardinalityType
    <2>2. Cardinality(u) \notin Bad
      BY <1>2, <1>3, <2>1
    <2> QED
      BY <2>1, <2>2
  <1> DEFINE sol(u) == CHOOSE g : Solves(g, u)
             sum(u) == sol(u)[u]
             G == [s \in SUBSET T |-> IF s = {} THEN 0 ELSE Worth(Pick(s)) + sum(s \ {Pick(s)})]
  <1>6. \A u \in SUBSET T : u # T => Solves(sol(u), u)
    BY <1>5
  <1> HIDE DEF sol
  <1>7. ASSUME NEW u \in SUBSET T, u # T
        PROVE  G[u] = sum(u)
    <2>1. sum(u) = IF u = {} THEN 0 ELSE Worth(Pick(u)) + sol(u)[u \ {Pick(u)}]
      BY <1>6, <1>7 DEF Solves
    <2>2. ASSUME u # {} PROVE sol(u)[u \ {Pick(u)}] = sum(u \ {Pick(u)})
      <3> DEFINE w == u \ {Pick(u)}
      <3>1. w \in SUBSET T /\ w # T /\ w \in SUBSET (u \cap w)
        BY <1>7, <2>2, PickIsIn
      <3> HIDE DEF w
      <3>2. Solves(sol(u), u) /\ Solves(sol(w), w) /\ IsFiniteSet(u)
        BY <1>5, <1>6, <1>7, <3>1
      <3>3. sol(u)[w] = sol(w)[w]
        BY <3>1, <3>2, OneSolution
      <3> QED
        BY <3>3 DEF w
    <2>3. G[u] = IF u = {} THEN 0 ELSE Worth(Pick(u)) + sum(u \ {Pick(u)})
      OBVIOUS
    <2> HIDE DEF G, sum
    <2> QED
      BY <2>1, <2>2, <2>3
  <1>8. ASSUME NEW s \in SUBSET T, s # {}
        PROVE  G[s \ {Pick(s)}] = sum(s \ {Pick(s)})
    <2>1. s \ {Pick(s)} \in SUBSET T /\ s \ {Pick(s)} # T
      BY <1>8, PickIsIn
    <2> QED
      BY <1>7, <2>1
  <1>9. Solves(G, T)
    <2>1. \A s \in SUBSET T : G[s] = IF s = {} THEN 0 ELSE Worth(Pick(s)) + G[s \ {Pick(s)}]
      <3>1. \A s \in SUBSET T : G[s] = IF s = {} THEN 0 ELSE Worth(Pick(s)) + sum(s \ {Pick(s)})
        OBVIOUS
      <3> HIDE DEF G, sum
      <3> QED
        BY <1>8, <3>1
    <2>2. G = [s \in SUBSET T |-> G[s]]
      OBVIOUS
    <2> HIDE DEF G, sum
    <2> QED
      BY <2>1, <2>2 DEF Solves
  <1> QED
    BY <1>3, <1>9

LEMMA SumIsNatural ==
    ASSUME NEW S, IsFiniteSet(S), \A p \in S : Worth(p) \in Nat
    PROVE  Rollup!Area(S) \in Nat
  <1> DEFINE g == CHOOSE k : Solves(k, S)
             Bad == {n \in Nat : \E t \in SUBSET S : Cardinality(t) = n /\ g[t] \notin Nat}
  <1>1. Rollup!Area(S) = g[S]
    BY Zenon DEF Rollup!Area, Rollup!MapThenSumSet, Rollup!MapThenFoldSet, Solves, Worth, Pick
  <1>2. Solves(g, S)
    BY SolutionExists
  <1>3. \A u \in SUBSET S : g[u] = IF u = {} THEN 0 ELSE Worth(Pick(u)) + g[u \ {Pick(u)}]
    BY <1>2 DEF Solves
  <1> SUFFICES ASSUME g[S] \notin Nat PROVE FALSE
    BY <1>1
  <1> HIDE DEF g
  <1>4. Cardinality(S) \in Bad
    BY FS_CardinalityType
  <1>5. PICK n \in Bad : \A m \in Bad : n <= m
    BY <1>4, LeastExists
  <1>6. PICK t \in SUBSET S : Cardinality(t) = n /\ g[t] \notin Nat
    BY <1>5
  <1>7. t # {} /\ IsFiniteSet(t)
    <2>1. t # {}
      BY <1>3, <1>6
    <2>2. IsFiniteSet(t)
      BY FS_Subset
    <2> QED
      BY <2>1, <2>2
  <1>8. Worth(Pick(t)) \in Nat
    BY <1>7, PickIsIn
  <1>9. g[t \ {Pick(t)}] \notin Nat
    BY <1>3, <1>6, <1>7, <1>8
  <1>10. Cardinality(t \ {Pick(t)}) \in Bad
    BY <1>7, <1>9, Rest
  <1> QED
    BY <1>5, <1>6, <1>7, <1>10, Rest

\* The totals over any lands of the farmer.
LEMMA TotalsTyped ==
    ASSUME NEW x \in [Lands -> Versions \cup {NULL}], NEW k
    PROVE  Rollup!Sums(Rollup!Active(x), k) \in Rollup!Totals
  <1> DEFINE A == Rollup!Active(x)
             f == [l \in Lands |-> <<l, x[l]>>]
  <1>0. IsFiniteSet(Lands) /\ \A v \in Versions : Rollup!Hectares(v) \in Nat
    BY PartsAssumption
  <1>1. \A p \in A : \E l \in Lands : p = <<l, x[l]>> /\ x[l] # NULL
    BY DEF Rollup!Active
  <1>2. ASSUME NEW S \in SUBSET A
        PROVE  Rollup!Area(S) \in Nat
    <2>1. IsFiniteSet(S)
      <3>1. f \in Surjection(Lands, {f[l] : l \in Lands})
        BY DEF Surjection
      <3>2. IsFiniteSet({f[l] : l \in Lands})
        BY <1>0, <3>1, FS_Surjection
      <3>3. S \subseteq {f[l] : l \in Lands}
        BY <1>1
      <3> QED
        BY <3>2, <3>3, FS_Subset
    <2>2. \A p \in S : Worth(p) \in Nat
      <3> SUFFICES ASSUME NEW p \in S PROVE Worth(p) \in Nat
        OBVIOUS
      <3>1. PICK l \in Lands : p = <<l, x[l]>> /\ x[l] # NULL
        BY <1>1
      <3>2. p[2] = x[l] /\ x[l] \in Versions
        BY <3>1
      <3> QED
        BY <1>0, <3>2 DEF Worth
    <2> QED
      BY <2>1, <2>2, SumIsNatural
  <1> HIDE DEF A
  <1>3. \A kinds : Rollup!OfKind(A, kinds) \in SUBSET A
    BY DEF Rollup!OfKind
  <1> DEFINE owned == Rollup!Area(Rollup!OfKind(A, {"OWNER"}))
             rented == Rollup!Area(Rollup!OfKind(A, {"TENANT"}))
             shared == Rollup!Area(Rollup!OfKind(A, {"CROP_SHARE", "FAMILY_GIFT", NULL}))
  <1>4. owned \in Nat /\ rented \in Nat /\ shared \in Nat
    BY <1>2, <1>3
  <1>5. Rollup!Ownership(k) \in {NULL, "OWNER", "TENANT", "HYBRID"}
    BY DEF Rollup!Ownership
  <1>6. Rollup!Sums(A, k) = [owned |-> owned, rented |-> rented, shared |-> shared,
                             area |-> owned + rented + shared, ownership |-> Rollup!Ownership(k)]
    BY DEF Rollup!Sums
  <1> HIDE DEF owned, rented, shared
  <1>7. Rollup!Sums(A, k) \in Rollup!Totals
    BY <1>4, <1>5, <1>6 DEF Rollup!Totals
  <1> QED
    BY <1>7 DEF A

LEMMA RollupTyped ==
    ASSUME Rollup!TypeOK, Rollup!Next \/ UNCHANGED lands
    PROVE  Rollup!TypeOK'
  <1> DEFINE Tx == [version : Versions, latest : BOOLEAN, total : Rollup!Totals]
  <1>0. /\ land \in [Lands -> Versions \cup {NULL}] /\ total \in Rollup!Totals \cup {NULL}
        /\ ltx \in [Lands -> Tx \cup {NULL}] /\ overlapped \in BOOLEAN
    BY DEF Rollup!TypeOK
  <1>1. ASSUME NEW l \in Lands, NEW v \in Versions, Rollup!Recompute(l, v)
        PROVE  Rollup!TypeOK'
    <2> DEFINE x == [land EXCEPT ![l] = v]
               w == [version |-> v, latest |-> TRUE, total |-> Rollup!Recomputed(Rollup!Active(x))]
    <2>1. ltx' = [ltx EXCEPT ![l] = w] /\ UNCHANGED <<land, total, overlapped>>
      BY <1>1 DEF Rollup!Recompute
    <2>2. x \in [Lands -> Versions \cup {NULL}]
      BY <1>0
    <2> HIDE DEF x
    <2>3. Rollup!Recomputed(Rollup!Active(x)) \in Rollup!Totals
      BY <2>2, TotalsTyped DEF Rollup!Recomputed
    <2>4. w \in Tx
      BY <2>3
    <2> HIDE DEF w, Tx
    <2>5. ltx' \in [Lands -> Tx \cup {NULL}]
      BY <1>0, <2>1, <2>4
    <2> QED
      BY <1>0, <2>1, <2>5 DEF Rollup!TypeOK, Tx
  <1>2. ASSUME NEW l \in Lands, Rollup!Commit(l)
        PROVE  Rollup!TypeOK'
    <2>1. /\ ltx[l] # NULL /\ land' = [land EXCEPT ![l] = ltx[l].version]
          /\ total' = ltx[l].total /\ overlapped' = ~ltx[l].latest
          /\ ltx' = [m \in Lands |-> IF m = l \/ ltx[m] = NULL THEN NULL
                                     ELSE [ltx[m] EXCEPT !.latest = FALSE]]
      BY <1>2 DEF Rollup!Commit
    <2>2. \A m \in Lands : ltx[m] = NULL \/ ltx[m] \in Tx
      BY <1>0
    <2>3. ltx[l] \in Tx
      BY <2>1, <2>2
    <2>4. ltx[l].version \in Versions /\ ltx[l].total \in Rollup!Totals /\ ltx[l].latest \in BOOLEAN
      BY <2>3
    <2>5. \A m \in Lands : ltx[m] # NULL => [ltx[m] EXCEPT !.latest = FALSE] \in Tx
      BY <2>2
    <2> HIDE DEF Tx
    <2>6. ltx' \in [Lands -> Tx \cup {NULL}]
      BY <2>1, <2>5
    <2>7. land' \in [Lands -> Versions \cup {NULL}]
      BY <1>0, <2>1, <2>4
    <2>8. overlapped' \in BOOLEAN /\ total' \in Rollup!Totals
      BY <2>1, <2>4
    <2> QED
      BY <2>6, <2>7, <2>8 DEF Rollup!TypeOK, Tx
  <1>3. ASSUME NEW loaded \in [Lands -> {v \in Versions : v.status = "ACTIVE"} \cup {NULL}],
               Rollup!SeedLands(loaded)
        PROVE  Rollup!TypeOK'
    <2>1. land' = loaded /\ UNCHANGED <<total, ltx, overlapped>>
      BY <1>3 DEF Rollup!SeedLands
    <2>2. land' \in [Lands -> Versions \cup {NULL}]
      BY <2>1
    <2> QED
      BY <1>0, <2>1, <2>2 DEF Rollup!TypeOK
  <1>4. ASSUME Rollup!Restart
        PROVE  Rollup!TypeOK'
    <2>1. total' = Rollup!Backfilled(Rollup!Active(land)) /\ UNCHANGED <<land, ltx, overlapped>>
      BY <1>4 DEF Rollup!Restart
    <2>2. total' \in Rollup!Totals
      BY <1>0, <2>1, TotalsTyped DEF Rollup!Backfilled
    <2> QED
      BY <1>0, <2>1, <2>2 DEF Rollup!TypeOK
  <1>5. ASSUME UNCHANGED lands PROVE Rollup!TypeOK'
    BY <1>5 DEF lands, Rollup!TypeOK
  <1> QED
    BY <1>1, <1>2, <1>3, <1>4, <1>5 DEF Rollup!Next

LEMMA RollupStarts == Rollup!Init => RollupInv /\ Rollup!TypeOK
  BY RollupStart DEF Rollup!Init, Rollup!TypeOK

LEMMA RollupKeeps ==
    ASSUME RollupInv, Rollup!TypeOK, Rollup!Next \/ UNCHANGED lands
    PROVE  RollupInv' /\ Rollup!TypeOK'
  <1>1. CASE UNCHANGED lands
    <2>1. RollupInv'
      BY <1>1 DEF lands, RollupInv, SumsCurrent, Rollup!TotalsFollow, Rollup!Active
    <2> QED
      BY <1>1, <2>1, RollupTyped
  <1> QED
    BY <1>1, RollupStep, RollupTyped

-----------------------------------------------------------------------------
(* The phones of a farmer (FarmerPhones).                                   *)

PhoneRow == Phones!Rows \cup {NULL}
SomeRows(w) == DOMAIN w \subseteq Phones!Ids /\ \A i \in DOMAIN w : w[i] \in PhoneRow
AtMostOne(p) == \A i, j \in Phones!Primaries(p) : i = j

LEMMA FirstIsIn ==
    ASSUME NEW S, S \subseteq Phones!Ids, S # {}
    PROVE  Phones!First(S) \in S
  <1>1. S \subseteq Nat
    BY PartsAssumption DEF Phones!Ids
  <1> QED
    BY <1>1, LeastExists DEF Phones!First

\* What is stored in one row: a normalised row is a row of the same number,
\* and is not changed by normalising it again.
LEMMA NormalKeeps ==
    ASSUME NEW r \in Phones!Rows
    PROVE  /\ Phones!Cleaned(r) \in Phones!Rows
           /\ Phones!Cleaned(Phones!Cleaned(r)) = Phones!Cleaned(r)
           /\ Phones!Cleaned(r).sub = r.sub
           /\ Phones!Cleaned(r).primary = r.primary
           /\ r.sub # Junk => Phones!Cleaned(r).national = TRUE
  <1>1. CASE r.sub = Junk
    BY <1>1 DEF Phones!Cleaned
  <1>2. CASE r.sub # Junk
    <2>1. r \in [sub : Subscribers, national : BOOLEAN, primary : BOOLEAN]
      BY <1>2 DEF Phones!Rows
    <2>2. PICK n : n = [r EXCEPT !.national = TRUE]
      OBVIOUS
    <2>3. /\ n \in [sub : Subscribers, national : BOOLEAN, primary : BOOLEAN]
          /\ n.sub = r.sub /\ n.primary = r.primary /\ n.national = TRUE
      BY <2>1, <2>2
    <2>4. Phones!Cleaned(r) = n
      BY <1>2, <2>2 DEF Phones!Cleaned
    <2>5. [n EXCEPT !.national = TRUE] = n
      BY <2>3
    <2>6. Phones!Cleaned(n) = n
      BY <1>2, <2>3, <2>5 DEF Phones!Cleaned
    <2> QED
      BY <2>3, <2>4, <2>6 DEF Phones!Rows
  <1> QED
    BY <1>1, <1>2

LEMMA PrimaryTurned ==
    ASSUME NEW r \in Phones!Rows, NEW b \in BOOLEAN, NEW n, n = [r EXCEPT !.primary = b]
    PROVE  n \in Phones!Rows /\ n.primary = b /\ n.sub = r.sub
  BY DEF Phones!Rows

\* What a transaction is about to commit: the projection of the rows as it
\* will leave them, with one primary when it chose one or found one at most.
Faithful(x) ==
    /\ x.json = Phones!Projection(Phones!Seen(x.writes))
    /\ x.chosen \/ AtMostOne(phone) => AtMostOne(Phones!Seen(x.writes))

Written(x) ==
    /\ DOMAIN x = {"writes", "latest", "chosen", "json"}
    /\ SomeRows(x.writes) /\ Phones!Table(x.json)
    /\ x.latest \in BOOLEAN /\ x.chosen \in BOOLEAN
    /\ x.latest => Faithful(x)

PhonesInv ==
    /\ phone \in [Phones!Ids -> PhoneRow]
    /\ Phones!Table(json)
    /\ DOMAIN ptx = Real \cup {0}
    /\ \A t \in Real \cup {0} : ptx[t] # NULL => Written(ptx[t])
    /\ stale \in BOOLEAN /\ clash \in BOOLEAN
    /\ clash \/ AtMostOne(phone)
    /\ Phones!ProjectionFollows

LEMMA SeenIsTyped ==
    ASSUME phone \in [Phones!Ids -> PhoneRow], NEW w, SomeRows(w)
    PROVE  /\ Phones!Seen(w) \in [Phones!Ids -> PhoneRow]
           /\ \A i \in Phones!Ids : Phones!Seen(w)[i] = IF i \in DOMAIN w THEN w[i] ELSE phone[i]
  BY DEF Phones!Seen, SomeRows

LEMMA ProjectionIsTable ==
    ASSUME NEW p \in [Phones!Ids -> PhoneRow]
    PROVE  Phones!Table(Phones!Projection(p))
  BY DEF Phones!Table, Phones!Projection, Phones!Live, PhoneRow

LEMMA PrimariesOf ==
    ASSUME NEW p, NEW i
    PROVE  i \in Phones!Primaries(p) <=> i \in Phones!Ids /\ p[i] # NULL /\ p[i].primary
  BY DEF Phones!Primaries, Phones!Live

\* The hook: what it writes are rows, and leaves one primary when there was one
\* at most, or when it prefers one.
LEMMA HookKeeps ==
    ASSUME phone \in [Phones!Ids -> PhoneRow], NEW w, SomeRows(w), NEW preferred,
           preferred = NULL
               => \A i \in DOMAIN w : w[i] # NULL => w[i].primary = FALSE,
           preferred # NULL
               => preferred \in DOMAIN w /\ w[preferred] # NULL
    PROVE  LET final == Phones!Promote(Phones!Demote(w, preferred))
           IN /\ SomeRows(final)
              /\ preferred # NULL \/ AtMostOne(phone) => AtMostOne(Phones!Seen(final))
  <1>1. NULL \notin Phones!Rows
    BY PartsAssumption
  <1>2. PICK d : d = Phones!Demote(w, preferred)
    OBVIOUS
  <1>3. /\ SomeRows(d)
        /\ preferred # NULL \/ AtMostOne(phone) => AtMostOne(Phones!Seen(d))
    <2>1. CASE preferred = NULL
      <3>1. d = w
        BY <1>2, <2>1 DEF Phones!Demote
      <3>2. \A i \in Phones!Primaries(Phones!Seen(d)) : i \in Phones!Primaries(phone)
        BY <2>1, <3>1, SeenIsTyped, PrimariesOf
      <3> QED
        BY <2>1, <3>1, <3>2 DEF AtMostOne
    <2>2. CASE preferred # NULL
      <3>1. d = [i \in DOMAIN w \cup Phones!Live(phone) |->
                    IF Phones!Seen(w)[i] = NULL \/ i = preferred THEN Phones!Seen(w)[i]
                    ELSE [Phones!Seen(w)[i] EXCEPT !.primary = FALSE]]
        BY <1>2, <2>2 DEF Phones!Demote
      <3>2. DOMAIN d \subseteq Phones!Ids
        BY <3>1 DEF SomeRows, Phones!Live
      <3>3. \A i \in DOMAIN d : d[i] \in PhoneRow
                                /\ (i # preferred => d[i] = NULL \/ d[i].primary = FALSE)
        <4> SUFFICES ASSUME NEW i \in DOMAIN d
                     PROVE  d[i] \in PhoneRow
                            /\ (i # preferred => d[i] = NULL \/ d[i].primary = FALSE)
          OBVIOUS
        <4>1. Phones!Seen(w)[i] \in PhoneRow
          BY <3>2, SeenIsTyped
        <4>2. CASE Phones!Seen(w)[i] = NULL \/ i = preferred
          BY <3>1, <4>1, <4>2
        <4>3. CASE ~(Phones!Seen(w)[i] = NULL \/ i = preferred)
          <5>1. d[i] = [Phones!Seen(w)[i] EXCEPT !.primary = FALSE]
            BY <3>1, <4>3
          <5>2. Phones!Seen(w)[i] \in Phones!Rows
            BY <4>1, <4>3 DEF PhoneRow
          <5> QED
            BY <5>1, <5>2, PrimaryTurned DEF PhoneRow
        <4> QED
          BY <4>2, <4>3
      <3>4. SomeRows(d)
        BY <3>2, <3>3 DEF SomeRows
      <3>5. \A i \in Phones!Primaries(Phones!Seen(d)) : i = preferred
        <4> SUFFICES ASSUME NEW i \in Phones!Primaries(Phones!Seen(d)), i # preferred
                     PROVE  FALSE
          OBVIOUS
        <4>1. i \in Phones!Ids /\ Phones!Seen(d)[i] # NULL /\ Phones!Seen(d)[i].primary
          BY PrimariesOf
        <4>2. CASE i \in DOMAIN d
          BY <3>3, <3>4, <4>1, <4>2, SeenIsTyped
        <4>3. CASE i \notin DOMAIN d
          <5>1. phone[i] = NULL
            BY <3>1, <4>1, <4>3 DEF Phones!Live
          <5> QED
            BY <3>4, <4>1, <4>3, <5>1, SeenIsTyped
        <4> QED
          BY <4>2, <4>3
      <3> QED
        BY <3>4, <3>5 DEF AtMostOne
    <2> QED
      BY <2>1, <2>2
  <1>4. PICK p : p = Phones!Seen(d)
    OBVIOUS
  <1>5. p \in [Phones!Ids -> PhoneRow]
    BY <1>3, <1>4, SeenIsTyped
  <1>6. PICK final : final = Phones!Promote(d)
    OBVIOUS
  <1>7. CASE Phones!Live(p) = {} \/ Phones!Primaries(p) # {}
    <2>1. final = d
      BY <1>4, <1>6, <1>7 DEF Phones!Promote
    <2> QED
      BY <1>2, <1>3, <1>6, <2>1
  <1>8. CASE Phones!Live(p) # {} /\ Phones!Primaries(p) = {}
    <2>1. PICK f : f = Phones!First(Phones!Live(p))
      OBVIOUS
    <2>2. f \in Phones!Ids /\ p[f] # NULL
      BY <1>8, <2>1, FirstIsIn DEF Phones!Live
    <2>3. final = [i \in DOMAIN d \cup {f} |->
                      IF i = f THEN [p[i] EXCEPT !.primary = TRUE] ELSE d[i]]
      BY <1>4, <1>6, <1>8, <2>1 DEF Phones!Promote
    <2>4. final[f] \in Phones!Rows
      <3>1. p[f] \in Phones!Rows
        BY <1>5, <2>2 DEF PhoneRow
      <3>2. final[f] = [p[f] EXCEPT !.primary = TRUE]
        BY <2>3
      <3> QED
        BY <3>1, <3>2, PrimaryTurned
    <2>5. SomeRows(final)
      BY <1>3, <2>2, <2>3, <2>4 DEF SomeRows, PhoneRow
    <2>6. \A i \in Phones!Primaries(Phones!Seen(final)) : i = f
      <3> SUFFICES ASSUME NEW i \in Phones!Primaries(Phones!Seen(final)), i # f
                   PROVE  FALSE
        OBVIOUS
      <3>1. i \in Phones!Ids /\ Phones!Seen(final)[i] # NULL /\ Phones!Seen(final)[i].primary
        BY PrimariesOf
      <3>2. Phones!Seen(final)[i] = p[i]
        BY <1>3, <1>4, <2>3, <2>5, <3>1, SeenIsTyped
      <3>3. i \in Phones!Primaries(p)
        BY <3>1, <3>2, PrimariesOf
      <3> QED
        BY <1>8, <3>3
    <2> QED
      BY <1>2, <1>6, <2>5, <2>6 DEF AtMostOne
  <1> QED
    BY <1>7, <1>8

LEMMA SyncKeeps ==
    ASSUME PhonesInv, NEW t \in Real \cup {0}, NEW w, SomeRows(w), NEW preferred,
           preferred = NULL
               => \A i \in DOMAIN w : w[i] # NULL => w[i].primary = FALSE,
           preferred # NULL
               => preferred \in DOMAIN w /\ w[preferred] # NULL,
           Phones!Sync(t, w, preferred)
    PROVE  PhonesInv'
  <1>1. PICK final : final = Phones!Promote(Phones!Demote(w, preferred))
    OBVIOUS
  <1>2. PICK x : x = [writes |-> final, latest |-> TRUE, chosen |-> preferred # NULL,
                      json |-> Phones!Projection(Phones!Seen(final))]
    OBVIOUS
  <1>3. /\ ptx' = [ptx EXCEPT ![t] = x]
        /\ phone' = phone /\ json' = json /\ stale' = stale /\ clash' = clash
    BY <1>1, <1>2 DEF Phones!Sync
  <1>4. phone \in [Phones!Ids -> PhoneRow]
    BY DEF PhonesInv
  <1>5. /\ SomeRows(final)
        /\ preferred # NULL \/ AtMostOne(phone) => AtMostOne(Phones!Seen(final))
    BY <1>1, <1>4, HookKeeps
  <1>6. Written(x)
    <2>1. /\ DOMAIN x = {"writes", "latest", "chosen", "json"}
          /\ x.writes = final /\ x.latest = TRUE /\ x.chosen = (preferred # NULL)
          /\ x.json = Phones!Projection(Phones!Seen(final))
      BY <1>2
    <2>2. Phones!Table(x.json)
      BY <1>4, <1>5, <2>1, SeenIsTyped, ProjectionIsTable
    <2>3. Faithful(x)
      BY <1>5, <2>1 DEF Faithful
    <2> QED
      BY <1>5, <2>1, <2>2, <2>3 DEF Written
  <1>7. \A u \in Real \cup {0} : ptx'[u] # NULL => Written(ptx'[u])
    BY <1>3, <1>6 DEF PhonesInv
  <1>8. \A u \in Real \cup {0} : ptx'[u] # NULL => Written(ptx[u])'
    <2> SUFFICES ASSUME NEW u \in Real \cup {0}, ptx'[u] # NULL
                 PROVE  Written(ptx[u])'
      OBVIOUS
    <2>1. Written(ptx'[u])
      BY <1>7
    <2>2. phone' = phone
      BY <1>3
    <2> QED
      BY <2>1, <2>2 DEF Written, Faithful, AtMostOne, Phones!Seen, Phones!Projection,
                        Phones!Live, Phones!Primaries, SomeRows, Phones!Table
  <1>9. /\ phone' \in [Phones!Ids -> PhoneRow] /\ Phones!Table(json)'
        /\ DOMAIN ptx' = Real \cup {0}
        /\ stale' \in BOOLEAN /\ clash' \in BOOLEAN
        /\ (clash \/ AtMostOne(phone))'
    BY <1>3 DEF PhonesInv, Phones!Table, AtMostOne, Phones!Primaries, Phones!Live
  <1>10. Phones!ProjectionFollows'
    BY <1>3 DEF PhonesInv, Phones!ProjectionFollows, Phones!Projection, Phones!Live
  <1> QED
    BY <1>8, <1>9, <1>10 DEF PhonesInv

LEMMA IngestKeeps ==
    ASSUME PhonesInv, NEW i \in Real, NEW r \in Phones!Rows, Phones!Ingest(i, r)
    PROVE  PhonesInv'
  <1>1. PICK w : w = [j \in {i} |-> Phones!Cleaned(r)]
    OBVIOUS
  <1>2. PICK preferred : preferred = IF r.primary THEN i ELSE NULL
    OBVIOUS
  <1>3. Phones!Sync(i, w, preferred)
    BY <1>1, <1>2 DEF Phones!Ingest
  <1>4. Phones!Cleaned(r) \in Phones!Rows /\ Phones!Cleaned(r).primary = r.primary
    BY NormalKeeps
  <1>5. DOMAIN w = {i} /\ w[i] = Phones!Cleaned(r)
    BY <1>1
  <1>6. SomeRows(w)
    BY <1>4, <1>5 DEF SomeRows, PhoneRow, Phones!Ids
  <1>7. r.primary \in BOOLEAN
    BY DEF Phones!Rows
  <1>8. NULL \notin Phones!Rows /\ i # NULL
    BY PartsAssumption
  <1>9. CASE r.primary = TRUE
    <2>1. preferred = i
      BY <1>2, <1>9
    <2> QED
      BY <1>3, <1>4, <1>5, <1>6, <1>8, <2>1, SyncKeeps
  <1>10. CASE r.primary = FALSE
    <2>1. preferred = NULL
      BY <1>2, <1>10
    <2> QED
      BY <1>3, <1>4, <1>5, <1>6, <1>10, <2>1, SyncKeeps
  <1> QED
    BY <1>7, <1>9, <1>10

LEMMA ApproveKeeps ==
    ASSUME PhonesInv, NEW D \in SUBSET Phones!Ids, NEW w \in [D -> PhoneRow],
           Phones!Approve(w)
    PROVE  PhonesInv'
  <1>1. PICK best : best = {i \in DOMAIN w : w[i] # NULL /\ w[i].primary}
    OBVIOUS
  <1>2. PICK preferred : preferred = IF best = {} THEN NULL ELSE Phones!First(best)
    OBVIOUS
  <1>3. Phones!Sync(0, w, preferred)
    BY <1>1, <1>2 DEF Phones!Approve
  <1>4. SomeRows(w) /\ best \subseteq Phones!Ids
    BY <1>1 DEF SomeRows
  <1>5. \A i \in DOMAIN w : w[i] # NULL => w[i].primary \in BOOLEAN
    BY DEF PhoneRow, Phones!Rows
  <1>6. preferred = NULL => best = {}
    <2> SUFFICES ASSUME best # {}
                 PROVE  preferred # NULL
      OBVIOUS
    <2>1. preferred \in best
      BY <1>2, <1>4, FirstIsIn
    <2> QED
      BY <1>4, <2>1, PartsAssumption DEF Phones!Ids
  <1>7. preferred = NULL => \A i \in DOMAIN w : w[i] # NULL => w[i].primary = FALSE
    BY <1>1, <1>5, <1>6
  <1>8. preferred # NULL => preferred \in DOMAIN w /\ w[preferred] # NULL
    BY <1>1, <1>2, <1>4, FirstIsIn
  <1> QED
    BY <1>3, <1>4, <1>7, <1>8, SyncKeeps

LEMMA CommitKeeps ==
    ASSUME PhonesInv, NEW t \in Real \cup {0}, Phones!Commit(t)
    PROVE  PhonesInv'
  <1>1. PICK x : x = ptx[t]
    OBVIOUS
  <1>2. x # NULL /\ Written(x)
    BY <1>1 DEF Phones!Commit, PhonesInv
  <1>3. /\ phone' = Phones!Seen(x.writes) /\ json' = x.json
        /\ stale' = ~x.latest
        /\ clash' = (~x.latest \/ (clash /\ ~x.chosen))
        /\ ptx' = [u \in DOMAIN ptx |-> IF u = t \/ ptx[u] = NULL THEN NULL
                                        ELSE [ptx[u] EXCEPT !.latest = FALSE]]
    BY <1>1 DEF Phones!Commit
  <1>4. /\ phone \in [Phones!Ids -> PhoneRow] /\ clash \in BOOLEAN
        /\ clash \/ AtMostOne(phone)
        /\ DOMAIN ptx = Real \cup {0}
        /\ \A u \in Real \cup {0} : ptx[u] # NULL => Written(ptx[u])
    BY DEF PhonesInv
  <1>5. /\ SomeRows(x.writes) /\ Phones!Table(x.json)
        /\ x.latest \in BOOLEAN /\ x.chosen \in BOOLEAN
        /\ x.latest => Faithful(x)
    BY <1>2 DEF Written
  <1>6. phone' \in [Phones!Ids -> PhoneRow]
    BY <1>3, <1>4, <1>5, SeenIsTyped
  <1>7. Phones!Table(json)'
    BY <1>3, <1>5 DEF Phones!Table
  <1>8. DOMAIN ptx' = Real \cup {0}
    BY <1>3, <1>4
  <1>9. stale' \in BOOLEAN /\ clash' \in BOOLEAN
    BY <1>3, <1>4, <1>5
  <1>10. \A u \in Real \cup {0} : ptx'[u] # NULL => Written(ptx[u])'
    <2> SUFFICES ASSUME NEW u \in Real \cup {0}, ptx'[u] # NULL
                 PROVE  Written(ptx[u])'
      OBVIOUS
    <2>1. ptx[u] # NULL /\ ptx'[u] = [ptx[u] EXCEPT !.latest = FALSE]
      BY <1>3, <1>4
    <2>2. Written(ptx[u])
      BY <1>4, <2>1
    <2>3. /\ DOMAIN (ptx'[u]) = {"writes", "latest", "chosen", "json"}
          /\ ptx'[u].writes = ptx[u].writes /\ ptx'[u].json = ptx[u].json
          /\ ptx'[u].chosen = ptx[u].chosen /\ ptx'[u].latest = FALSE
      BY <2>1, <2>2 DEF Written
    <2>4. SomeRows(ptx'[u].writes) /\ Phones!Table(ptx'[u].json)
          /\ ptx'[u].chosen \in BOOLEAN
      BY <2>2, <2>3 DEF Written
    <2> QED
      BY <2>3, <2>4 DEF Written, SomeRows, Phones!Table
  <1>11. clash' \/ AtMostOne(phone')
    <2> SUFFICES ASSUME clash' = FALSE
                 PROVE  AtMostOne(phone')
      BY <1>9
    <2>1. x.latest = TRUE /\ (clash = FALSE \/ x.chosen = TRUE)
      BY <1>3, <1>4, <1>5
    <2>2. Faithful(x)
      BY <1>5, <2>1
    <2>3. AtMostOne(Phones!Seen(x.writes))
      BY <1>4, <2>1, <2>2 DEF Faithful
    <2> QED
      BY <1>3, <2>3
  <1>12. Phones!ProjectionFollows'
    <2> SUFFICES ASSUME stale' = FALSE
                 PROVE  json' = Phones!Projection(phone')
      BY <1>9 DEF Phones!ProjectionFollows, Phones!Projection, Phones!Live
    <2>1. x.latest = TRUE
      BY <1>3, <1>5
    <2>2. Faithful(x)
      BY <1>5, <2>1
    <2> QED
      BY <1>3, <2>2 DEF Faithful
  <1>13. (clash \/ AtMostOne(phone))'
    BY <1>11 DEF AtMostOne, Phones!Primaries, Phones!Live
  <1> QED
    BY <1>6, <1>7, <1>8, <1>9, <1>10, <1>12, <1>13 DEF PhonesInv

\* The count of primaries that the model states, as "no two".
LEMMA PrimariesCounted ==
    ASSUME NEW p
    PROVE  AtMostOne(p) <=> Phones!Cardinality(Phones!Primaries(p)) <= 1
  <1>1. \A S : Phones!Cardinality(S) = Cardinality(S)
    BY DEF Phones!Cardinality, Cardinality
  <1>2. IsFiniteSet(Phones!Ids)
    BY PartsAssumption, FS_Union DEF Phones!Ids
  <1>3. PICK P : P = Phones!Primaries(p)
    OBVIOUS
  <1>4. P \in SUBSET Phones!Ids
    BY <1>3 DEF Phones!Primaries, Phones!Live
  <1>5. IsFiniteSet(P)
    BY <1>2, <1>4, FS_Subset
  <1>6. Cardinality(P) \in Nat
    BY <1>5, FS_CardinalityType
  <1>7. Cardinality(P) = 0 <=> P = {}
    BY <1>5, FS_EmptySet
  <1>8. Cardinality(P) = 1 <=> \E x : P = {x}
    BY <1>5, FS_Singleton
  <1>9. AtMostOne(p) <=> P = {} \/ \E x : P = {x}
    BY <1>3 DEF AtMostOne
  <1>10. AtMostOne(p) <=> Cardinality(P) <= 1
    BY <1>6, <1>7, <1>8, <1>9
  <1> QED
    BY <1>1, <1>3, <1>10

LEMMA DropKeeps ==
    ASSUME NEW p \in [Phones!Ids -> PhoneRow]
    PROVE  /\ Phones!DropCopies(p) \in [Phones!Ids -> PhoneRow]
           /\ \A i \in Phones!Ids : Phones!DropCopies(p)[i] \in {p[i], NULL}
           /\ \A i \in Real : Phones!DropCopies(p)[i] = p[i]
           /\ \A i \in Minted : Phones!DropCopies(p)[i] = NULL /\ p[i] # NULL
                  => \E k \in Real : p[k] # NULL /\ p[k].sub = p[i].sub
                                     /\ p[k].national = p[i].national
           /\ \A i \in Minted, k \in Real :
                  p[i] # NULL /\ p[k] # NULL /\ p[k].sub = p[i].sub
                  /\ p[k].national = p[i].national => Phones!DropCopies(p)[i] = NULL
  BY PartsAssumption DEF Phones!DropCopies, Phones!Ids, PhoneRow

LEMMA MintKeeps ==
    ASSUME NEW p \in [Phones!Ids -> PhoneRow], NEW j, Phones!Table(j)
    PROVE  /\ Phones!Mint(p, j) \in [Phones!Ids -> PhoneRow]
           /\ AtMostOne(p) => AtMostOne(Phones!Mint(p, j))
           /\ Phones!Live(p) # {} => Phones!Mint(p, j) = p
           /\ Phones!Live(p) = {} => \A i \in Phones!Ids :
                  Phones!Mint(p, j)[i] # NULL <=> i \in DOMAIN j \cap Minted
  <1>1. CASE Phones!Live(p) # {}
    <2>1. Phones!Mint(p, j) = p
      BY <1>1 DEF Phones!Mint
    <2> QED
      BY <1>1, <2>1
  <1>2. CASE Phones!Live(p) = {}
    <2>1. PICK first : first = {i \in DOMAIN j : j[i].primary}
      OBVIOUS
    <2>2. PICK m : m = Phones!Mint(p, j)
      OBVIOUS
    <2>3. m = [i \in Phones!Ids |->
                  IF i \in DOMAIN j \cap Minted
                  THEN [j[i] EXCEPT !.primary = (first # {} /\ i = Phones!First(first))]
                  ELSE NULL]
      BY <1>2, <2>1, <2>2 DEF Phones!Mint
    <2>4. \A i \in DOMAIN j \cap Minted :
              m[i] \in Phones!Rows /\ (m[i].primary => i = Phones!First(first))
      <3> SUFFICES ASSUME NEW i \in DOMAIN j \cap Minted
                   PROVE  m[i] \in Phones!Rows /\ (m[i].primary => i = Phones!First(first))
        OBVIOUS
      <3>1. PICK b \in BOOLEAN : b = (first # {} /\ i = Phones!First(first))
        OBVIOUS
      <3>2. i \in Phones!Ids
        BY DEF Phones!Ids
      <3>3. m[i] = [j[i] EXCEPT !.primary = (first # {} /\ i = Phones!First(first))]
        BY <2>3, <3>2, Zenon
      <3>4. m[i] = [j[i] EXCEPT !.primary = b]
        BY <3>1, <3>3
      <3>5. j[i] \in Phones!Rows
        BY DEF Phones!Table
      <3>6. m[i] \in Phones!Rows /\ m[i].primary = b
        BY <3>4, <3>5, PrimaryTurned
      <3> QED
        BY <3>1, <3>6
    <2>5. \A i \in Phones!Ids \ (DOMAIN j \cap Minted) : m[i] = NULL
      BY <2>3
    <2>6. NULL \notin Phones!Rows
      BY PartsAssumption
    <2>7. m \in [Phones!Ids -> PhoneRow]
      <3>1. \A i \in Phones!Ids : m[i] \in PhoneRow
        BY <2>4, <2>5 DEF PhoneRow
      <3> QED
        BY <2>3, <3>1
    <2>8. \A i \in Phones!Primaries(m) : i = Phones!First(first)
      BY <2>4, <2>5, PrimariesOf
    <2>9. AtMostOne(m)
      BY <2>8 DEF AtMostOne
    <2>10. \A i \in Phones!Ids : m[i] # NULL <=> i \in DOMAIN j \cap Minted
      BY <2>4, <2>5, <2>6
    <2> QED
      BY <1>2, <2>2, <2>7, <2>9, <2>10
  <1> QED
    BY <1>1, <1>2

LEMMA NormaliseKeeps ==
    ASSUME NEW p \in [Phones!Ids -> PhoneRow], NEW n, n = Phones!NormalisePhones(p)
    PROVE  /\ n \in [Phones!Ids -> PhoneRow]
           /\ AtMostOne(p) => AtMostOne(n)
           /\ \A i \in Phones!Ids : (n[i] = NULL <=> p[i] = NULL)
           /\ \A i \in Phones!Ids : p[i] # NULL => n[i] = Phones!Cleaned(p[i])
           /\ \A i \in Phones!Ids : n[i] # NULL => Phones!Cleaned(n[i]) = n[i]
  <1>1. /\ DOMAIN n = Phones!Ids /\ n = [i \in Phones!Ids |-> n[i]]
        /\ \A i \in Phones!Ids : n[i] = IF p[i] = NULL THEN NULL ELSE Phones!Cleaned(p[i])
    BY DEF Phones!NormalisePhones
  <1>2. NULL \notin Phones!Rows
    BY PartsAssumption
  <1>3. \A i \in Phones!Ids : p[i] # NULL =>
            /\ n[i] \in Phones!Rows /\ n[i] = Phones!Cleaned(p[i])
            /\ Phones!Cleaned(n[i]) = n[i] /\ n[i].primary = p[i].primary
    <2> SUFFICES ASSUME NEW i \in Phones!Ids, p[i] # NULL
                 PROVE  /\ n[i] \in Phones!Rows /\ n[i] = Phones!Cleaned(p[i])
                        /\ Phones!Cleaned(n[i]) = n[i] /\ n[i].primary = p[i].primary
      OBVIOUS
    <2>1. p[i] \in Phones!Rows
      BY DEF PhoneRow
    <2>2. n[i] = Phones!Cleaned(p[i])
      BY <1>1
    <2> QED
      BY <2>1, <2>2, NormalKeeps
  <1>4. n \in [Phones!Ids -> PhoneRow]
    BY <1>1, <1>3 DEF PhoneRow
  <1>5. \A i \in Phones!Primaries(n) : i \in Phones!Primaries(p)
    BY <1>1, <1>3, PrimariesOf
  <1>6. AtMostOne(p) => AtMostOne(n)
    BY <1>5 DEF AtMostOne
  <1> QED
    BY <1>1, <1>2, <1>3, <1>4, <1>6

LEMMA BootKeeps ==
    ASSUME NEW p \in [Phones!Ids -> PhoneRow], NEW j, Phones!Table(j)
    PROVE  /\ Phones!Boot(p, j) \in [Phones!Ids -> PhoneRow]
           /\ AtMostOne(p) => AtMostOne(Phones!Boot(p, j))
           /\ \A i \in Phones!Ids : Phones!Boot(p, j)[i] # NULL
                  => Phones!Cleaned(Phones!Boot(p, j)[i]) = Phones!Boot(p, j)[i]
           /\ Phones!Table(Phones!Refreshed(Phones!Boot(p, j), j))
  <1>1. PICK d : d = Phones!DropCopies(p)
    OBVIOUS
  <1>2. d \in [Phones!Ids -> PhoneRow] /\ (AtMostOne(p) => AtMostOne(d))
    <2>1. d \in [Phones!Ids -> PhoneRow] /\ \A i \in Phones!Ids : d[i] \in {p[i], NULL}
      BY <1>1, DropKeeps
    <2>2. \A i \in Phones!Primaries(d) : i \in Phones!Primaries(p)
      BY <2>1, PrimariesOf
    <2> QED
      BY <2>1, <2>2 DEF AtMostOne
  <1>3. PICK m : m = Phones!Mint(d, j)
    OBVIOUS
  <1>4. m \in [Phones!Ids -> PhoneRow] /\ (AtMostOne(d) => AtMostOne(m))
    BY <1>2, <1>3, MintKeeps
  <1>5. PICK n : n = Phones!NormalisePhones(m)
    OBVIOUS
  <1>6. /\ n \in [Phones!Ids -> PhoneRow] /\ (AtMostOne(m) => AtMostOne(n))
        /\ \A i \in Phones!Ids : n[i] # NULL => Phones!Cleaned(n[i]) = n[i]
    BY <1>4, <1>5, NormaliseKeeps
  <1>7. Phones!Boot(p, j) = n
    BY <1>1, <1>3, <1>5 DEF Phones!Boot
  <1>8. Phones!Table(Phones!Refreshed(n, j))
    BY <1>6, ProjectionIsTable DEF Phones!Refreshed
  <1> QED
    BY <1>2, <1>4, <1>6, <1>7, <1>8

LEMMA RestartKeeps ==
    ASSUME PhonesInv, Phones!Restart
    PROVE  PhonesInv'
  <1>1. PICK p : p = Phones!Boot(phone, json)
    OBVIOUS
  <1>2. /\ phone' = p /\ json' = Phones!Refreshed(p, json) /\ stale' = FALSE
        /\ clash' = (clash /\ Phones!Cardinality(Phones!Primaries(p)) > 1)
        /\ ptx' = ptx /\ \A t \in DOMAIN ptx : ptx[t] = NULL
    BY <1>1 DEF Phones!Restart, Phones!Primaries, Phones!Live
  <1>3. /\ phone \in [Phones!Ids -> PhoneRow] /\ Phones!Table(json)
        /\ DOMAIN ptx = Real \cup {0} /\ clash \in BOOLEAN
        /\ clash \/ AtMostOne(phone)
    BY DEF PhonesInv
  <1>4. /\ p \in [Phones!Ids -> PhoneRow] /\ (AtMostOne(phone) => AtMostOne(p))
        /\ Phones!Table(Phones!Refreshed(p, json))
    BY <1>1, <1>3, BootKeeps
  <1>5. Phones!Table(json)'
    BY <1>2, <1>4 DEF Phones!Table
  <1>6. clash' \in BOOLEAN
    BY <1>2, <1>3
  <1>7. clash' \/ AtMostOne(p)
    <2>1. AtMostOne(p) <=> Phones!Cardinality(Phones!Primaries(p)) <= 1
      BY PrimariesCounted
    <2>2. Phones!Cardinality(Phones!Primaries(p)) \in Nat
      <3>1. Phones!Primaries(p) \in SUBSET Phones!Ids /\ IsFiniteSet(Phones!Ids)
        BY PartsAssumption, FS_Union DEF Phones!Primaries, Phones!Live, Phones!Ids
      <3>2. Cardinality(Phones!Primaries(p)) \in Nat
        BY <3>1, FS_Subset, FS_CardinalityType
      <3> QED
        BY <3>2 DEF Phones!Cardinality, Cardinality
    <2> QED
      BY <1>2, <1>3, <1>4, <2>1, <2>2
  <1>8. (clash \/ AtMostOne(phone))'
    BY <1>2, <1>7 DEF AtMostOne, Phones!Primaries, Phones!Live
  <1>9. Phones!ProjectionFollows'
    BY <1>2 DEF Phones!ProjectionFollows, Phones!Refreshed, Phones!Projection, Phones!Live
  <1>10. \A t \in Real \cup {0} : ptx'[t] # NULL => Written(ptx[t])'
    BY <1>2, <1>3
  <1> QED
    BY <1>2, <1>3, <1>4, <1>5, <1>6, <1>8, <1>9, <1>10 DEF PhonesInv

LEMMA PhonesStart ==
    ASSUME Phones!Init
    PROVE  PhonesInv
  <1>1. \E D : \E r \in Phones!Rows :
            phone = [i \in Phones!Ids |-> IF i \in D THEN r ELSE NULL]
    <2>1. PICK Ds : Ds = {{}, {Phones!First(Real)},
                          {Phones!First(Minted), Phones!First(Real)}}
      OBVIOUS
    <2>2. PICK ps : ps = {[i \in Phones!Ids |-> r] : r \in Phones!Rows}
      OBVIOUS
    <2>3. phone \in {[i \in Phones!Ids |-> IF i \in D THEN p[i] ELSE NULL] :
                        D \in Ds, p \in ps}
      BY <2>1, <2>2 DEF Phones!Init
    <2>4. PICK D \in Ds : \E p \in ps :
              phone = [i \in Phones!Ids |-> IF i \in D THEN p[i] ELSE NULL]
      BY <2>3
    <2>5. PICK p \in ps : phone = [i \in Phones!Ids |-> IF i \in D THEN p[i] ELSE NULL]
      BY <2>4
    <2>6. PICK r \in Phones!Rows : p = [i \in Phones!Ids |-> r]
      BY <2>2
    <2>7. phone = [i \in Phones!Ids |-> IF i \in D THEN r ELSE NULL]
      BY <2>5, <2>6
    <2> QED
      BY <2>7
  <1>2. phone \in [Phones!Ids -> PhoneRow]
    BY <1>1 DEF PhoneRow
  <1>3. IF Phones!Live(phone) # {} THEN json = Phones!Projection(phone)
        ELSE \E E \in {{}, Minted} : json \in [E -> Phones!Rows]
    BY DEF Phones!Init
  <1>4. Phones!Table(json)
    <2>1. CASE Phones!Live(phone) # {}
      BY <1>2, <1>3, <2>1, ProjectionIsTable
    <2>2. CASE Phones!Live(phone) = {}
      BY <1>3, <2>2 DEF Phones!Table, Phones!Ids
    <2> QED
      BY <2>1, <2>2
  <1>5. /\ ptx = [t \in Real \cup {0} |-> NULL] /\ stale = FALSE
        /\ clash = (Phones!Cardinality(Phones!Primaries(phone)) > 1)
    BY DEF Phones!Init
  <1>6. clash \in BOOLEAN /\ (clash \/ AtMostOne(phone))
    <2>0. PICK c : c = Phones!Cardinality(Phones!Primaries(phone))
      OBVIOUS
    <2>1. AtMostOne(phone) <=> Phones!Cardinality(Phones!Primaries(phone)) <= 1
      BY PrimariesCounted
    <2>2. Phones!Cardinality(Phones!Primaries(phone)) \in Nat
      <3>1. Phones!Primaries(phone) \in SUBSET Phones!Ids /\ IsFiniteSet(Phones!Ids)
        BY PartsAssumption, FS_Union DEF Phones!Primaries, Phones!Live, Phones!Ids
      <3>2. Cardinality(Phones!Primaries(phone)) \in Nat
        BY <3>1, FS_Subset, FS_CardinalityType
      <3> QED
        BY <3>2 DEF Phones!Cardinality, Cardinality
    <2>3. clash = (c > 1) /\ c \in Nat /\ (AtMostOne(phone) <=> c <= 1)
      BY <1>5, <2>0, <2>1, <2>2
    <2>4. AtMostOne(phone) \/ c > 1
      BY <2>3
    <2>5. c > 1 => clash
      BY <2>3
    <2>6. clash \in BOOLEAN
      BY <1>5
    <2> QED
      BY <2>4, <2>5, <2>6
  <1>7. Phones!ProjectionFollows
    BY <1>3 DEF Phones!ProjectionFollows
  <1> QED
    BY <1>2, <1>4, <1>5, <1>6, <1>7 DEF PhonesInv

LEMMA PhonesStep ==
    ASSUME PhonesInv, Phones!Next
    PROVE  PhonesInv'
  <1>1. CASE \E i \in Real, r \in Phones!Rows : Phones!Ingest(i, r)
    BY <1>1, IngestKeeps
  <1>2. CASE \E D \in SUBSET Phones!Ids : \E w \in [D -> PhoneRow] : Phones!Approve(w)
    BY <1>2, ApproveKeeps
  <1>3. CASE \E t \in Real \cup {0} : Phones!Commit(t)
    BY <1>3, CommitKeeps
  <1>4. CASE Phones!Restart
    BY <1>4, RestartKeeps
  <1> QED
    BY <1>1, <1>2, <1>3, <1>4 DEF Phones!Next, PhoneRow

\* Two boots are enough: what the second leaves, a third does not change.
LEMMA PhonesSettled ==
    ASSUME PhonesInv
    PROVE  Phones!PhonesSettle
  <1>1. PICK once : once = Phones!Boot(phone, json)
    OBVIOUS
  <1>2. PICK j : j = Phones!Refreshed(once, json)
    OBVIOUS
  <1>3. PICK twice : twice = Phones!Boot(once, j)
    OBVIOUS
  <1>4. PICK jj : jj = Phones!Refreshed(twice, j)
    OBVIOUS
  <1>5. phone \in [Phones!Ids -> PhoneRow] /\ Phones!Table(json)
    BY DEF PhonesInv
  <1>6. /\ once \in [Phones!Ids -> PhoneRow] /\ Phones!Table(j)
        /\ \A i \in Phones!Ids : once[i] # NULL => Phones!Cleaned(once[i]) = once[i]
    BY <1>1, <1>2, <1>5, BootKeeps
  <1>7. twice \in [Phones!Ids -> PhoneRow] /\ Phones!Table(jj)
    BY <1>3, <1>4, <1>6, BootKeeps
  <1>8. NULL \notin Phones!Rows /\ Minted \cap Real = {}
    BY PartsAssumption
  <1>9. ASSUME NEW p \in [Phones!Ids -> PhoneRow], NEW q, Phones!Table(q),
               Phones!Live(p) # {},
               \A i \in Phones!Ids : p[i] # NULL => Phones!Cleaned(p[i]) = p[i]
        PROVE  Phones!Boot(p, q) = Phones!DropCopies(p)
               /\ Phones!Live(Phones!DropCopies(p)) # {}
    <2>1. PICK d : d = Phones!DropCopies(p)
      OBVIOUS
    <2>2. d \in [Phones!Ids -> PhoneRow] /\ \A i \in Phones!Ids : d[i] \in {p[i], NULL}
      BY <1>9, <2>1, DropKeeps
    <2>3. Phones!Live(d) # {}
      <3>1. PICK i \in Phones!Ids : p[i] # NULL
        BY <1>9 DEF Phones!Live
      <3>2. CASE i \in Real \/ d[i] # NULL
        BY <1>9, <2>1, <3>1, <3>2, DropKeeps DEF Phones!Live
      <3>3. CASE i \in Minted /\ d[i] = NULL
        <4>1. PICK k \in Real : p[k] # NULL
          BY <1>9, <2>1, <3>1, <3>3, DropKeeps
        <4>2. k \in Phones!Ids /\ d[k] # NULL
          BY <1>9, <2>1, <4>1, DropKeeps DEF Phones!Ids
        <4> QED
          BY <4>2 DEF Phones!Live
      <3> QED
        BY <3>2, <3>3 DEF Phones!Ids
    <2>4. Phones!Mint(d, q) = d
      BY <1>9, <2>2, <2>3, MintKeeps
    <2>5. PICK n : n = Phones!NormalisePhones(d)
      OBVIOUS
    <2>6. n = d
      <3>1. /\ n \in [Phones!Ids -> PhoneRow]
            /\ \A i \in Phones!Ids : (n[i] = NULL <=> d[i] = NULL)
            /\ \A i \in Phones!Ids : d[i] # NULL => n[i] = Phones!Cleaned(d[i])
        BY <2>2, <2>5, NormaliseKeeps
      <3>2. \A i \in Phones!Ids : n[i] = d[i]
        BY <1>9, <2>2, <3>1
      <3> QED
        BY <2>2, <3>1, <3>2
    <2> QED
      BY <2>1, <2>3, <2>4, <2>5, <2>6 DEF Phones!Boot
  <1>10. /\ Phones!Boot(twice, jj) = twice
         /\ \A i \in Minted, k \in Real :
                (twice[i] # NULL /\ twice[k] # NULL /\ twice[i].sub # Junk)
                    => twice[i].sub # twice[k].sub
    <2>1. CASE Phones!Live(once) # {}
      <3>1. twice = Phones!DropCopies(once) /\ Phones!Live(twice) # {}
        BY <1>3, <1>6, <1>9, <2>1
      <3>2. \A i \in Phones!Ids : twice[i] \in {once[i], NULL}
        BY <1>6, <3>1, DropKeeps
      <3>3. \A i \in Phones!Ids : twice[i] # NULL => Phones!Cleaned(twice[i]) = twice[i]
        BY <1>6, <3>2
      <3>4. Phones!Boot(twice, jj) = Phones!DropCopies(twice)
        BY <1>7, <1>9, <3>1, <3>3
      <3>5. ASSUME NEW i \in Minted, NEW k \in Real, twice[i] # NULL, twice[k] # NULL,
                   twice[k].sub = twice[i].sub, twice[k].national = twice[i].national
            PROVE  FALSE
        <4>1. i \in Phones!Ids /\ k \in Phones!Ids
          BY DEF Phones!Ids
        <4>2. twice[i] = once[i] /\ twice[k] = once[k]
          BY <3>2, <3>5, <4>1
        <4> QED
          BY <1>6, <3>1, <3>5, <4>2, DropKeeps
      <3>6. Phones!DropCopies(twice) = twice
        <4>1. PICK e : e = Phones!DropCopies(twice)
          OBVIOUS
        <4>2. \A i \in Phones!Ids : e[i] = twice[i]
          <5> SUFFICES ASSUME NEW i \in Phones!Ids
                       PROVE  e[i] = twice[i]
            OBVIOUS
          <5>1. CASE i \in Real
            BY <1>7, <4>1, <5>1, DropKeeps
          <5>2. CASE i \in Minted
            <6>1. e[i] \in {twice[i], NULL}
              BY <1>7, <4>1, DropKeeps
            <6>2. ASSUME e[i] = NULL, twice[i] # NULL
                  PROVE  FALSE
              BY <1>7, <3>5, <4>1, <5>2, <6>2, DropKeeps
            <6> QED
              BY <6>1, <6>2
          <5> QED
            BY <5>1, <5>2 DEF Phones!Ids
        <4>3. e \in [Phones!Ids -> PhoneRow]
          BY <1>7, <4>1, DropKeeps
        <4> QED
          BY <1>7, <4>1, <4>2, <4>3
      <3>7. ASSUME NEW i \in Minted, NEW k \in Real, twice[i] # NULL, twice[k] # NULL,
                   twice[i].sub # Junk, twice[i].sub = twice[k].sub
            PROVE  FALSE
        <4>1. i \in Phones!Ids /\ k \in Phones!Ids
          BY DEF Phones!Ids
        <4>2. twice[i] \in Phones!Rows /\ twice[k] \in Phones!Rows
          BY <1>7, <3>7, <4>1 DEF PhoneRow
        <4>3. twice[i].national = TRUE /\ twice[k].national = TRUE
          BY <3>3, <3>7, <4>1, <4>2, NormalKeeps
        <4> QED
          BY <3>5, <3>7, <4>3
      <3> QED
        BY <3>4, <3>6, <3>7
    <2>2. CASE Phones!Live(once) = {}
      <3>1. \A i \in Phones!Ids : once[i] = NULL
        BY <2>2 DEF Phones!Live
      <3>2. j = json
        BY <1>2, <2>2 DEF Phones!Refreshed
      <3>3. DOMAIN json \cap Minted = {}
        <4>1. PICK d : d = Phones!DropCopies(phone)
          OBVIOUS
        <4>2. PICK m : m = Phones!Mint(d, json)
          OBVIOUS
        <4>3. d \in [Phones!Ids -> PhoneRow]
          BY <1>5, <4>1, DropKeeps
        <4>4. m \in [Phones!Ids -> PhoneRow]
          BY <1>5, <4>2, <4>3, MintKeeps
        <4>5. once = Phones!NormalisePhones(m)
          BY <1>1, <4>1, <4>2 DEF Phones!Boot
        <4>6. \A i \in Phones!Ids : m[i] = NULL
          BY <3>1, <4>4, <4>5, NormaliseKeeps
        <4>7. Phones!Live(d) = {}
          <5> SUFFICES ASSUME Phones!Live(d) # {}
                       PROVE  FALSE
            OBVIOUS
          <5>1. m = d
            BY <1>5, <4>2, <4>3, MintKeeps
          <5> QED
            BY <4>6, <5>1 DEF Phones!Live
        <4> QED
          BY <1>5, <4>2, <4>3, <4>6, <4>7, MintKeeps DEF Phones!Ids
      <3>4. ASSUME NEW p \in [Phones!Ids -> PhoneRow], \A i \in Phones!Ids : p[i] = NULL
            PROVE  Phones!Boot(p, json) = p
        <4>1. PICK d : d = Phones!DropCopies(p)
          OBVIOUS
        <4>2. d \in [Phones!Ids -> PhoneRow] /\ \A i \in Phones!Ids : d[i] = NULL
          BY <3>4, <4>1, DropKeeps
        <4>3. PICK m : m = Phones!Mint(d, json)
          OBVIOUS
        <4>4. m \in [Phones!Ids -> PhoneRow] /\ \A i \in Phones!Ids : m[i] = NULL
          <5>1. Phones!Live(d) = {}
            BY <4>2 DEF Phones!Live
          <5> QED
            BY <1>5, <3>3, <4>2, <4>3, <5>1, MintKeeps
        <4>5. PICK n : n = Phones!NormalisePhones(m)
          OBVIOUS
        <4>6. n \in [Phones!Ids -> PhoneRow] /\ \A i \in Phones!Ids : n[i] = NULL
          BY <4>4, <4>5, NormaliseKeeps
        <4>7. n = p
          BY <3>4, <4>6
        <4> QED
          BY <4>1, <4>3, <4>5, <4>7 DEF Phones!Boot
      <3>5. twice = once
        BY <1>3, <1>6, <3>1, <3>2, <3>4
      <3>6. jj = json
        BY <1>4, <2>2, <3>2, <3>5 DEF Phones!Refreshed
      <3>7. Phones!Boot(twice, jj) = twice
        BY <1>6, <3>1, <3>4, <3>5, <3>6
      <3>8. \A i \in Minted : twice[i] = NULL
        BY <3>1, <3>5 DEF Phones!Ids
      <3> QED
        BY <3>7, <3>8
    <2> QED
      BY <2>1, <2>2
  <1> QED
    BY <1>1, <1>2, <1>3, <1>4, <1>10 DEF Phones!PhonesSettle

-----------------------------------------------------------------------------
(* The seed jobs (SampleData), and the places of their records (GeoChain).  *)

\* What an operator chose is what is there; a catalogued image keeps its entry.
SeedsInv ==
    /\ DOMAIN geo \subseteq DOMAIN Seed /\ DOMAIN chosen = DOMAIN Seed /\ pack \subseteq People
    /\ \A u \in DOMAIN Seed : chosen[u] # NULL => u \in DOMAIN geo
    /\ Seeds!ParentsHold
    /\ bucket \subseteq 1..3 /\ docs \in [1..3 -> 0..6] /\ portrait \in [1..3 -> 0..6]
    /\ Seeds!PhotosExist

LEMMA SeedsStart == Seeds!Init => SeedsInv
  <1> SUFFICES ASSUME Seeds!Init PROVE SeedsInv
    OBVIOUS
  <1>1. /\ DOMAIN geo \subseteq DOMAIN Seed /\ chosen = [u \in DOMAIN Seed |-> NULL]
        /\ complete = FALSE /\ pack = {} /\ bucket = {}
        /\ docs = [n \in 1..3 |-> 0] /\ portrait = [n \in 1..3 |-> 0]
    BY DEF Seeds!Init
  <1>2. Seeds!ParentsHold
    BY <1>1 DEF Seeds!ParentsHold
  <1>3. Seeds!PhotosExist
    BY <1>1 DEF Seeds!PhotosExist
  <1> QED
    BY <1>1, <1>2, <1>3 DEF SeedsInv

LEMMA SeedsStep ==
    ASSUME SeedsInv, Seeds!Next \/ UNCHANGED seeds
    PROVE  SeedsInv'
  <1>0. NULL \notin DOMAIN Seed
    BY PartsAssumption
  <1> USE DEF SeedsInv
  <1>1. CASE Seeds!LoadGeo
    <2>1. /\ DOMAIN geo' = DOMAIN geo \cup DOMAIN Seed
          /\ \A u \in DOMAIN geo' :
                geo'[u] = IF u \in DOMAIN geo /\ geo[u] # NULL THEN geo[u] ELSE Seed[u]
          /\ UNCHANGED <<chosen, pack, docs, portrait, bucket>>
      BY <1>1 DEF Seeds!LoadGeo, Seeds!RepairMissingParents, Seeds!country, Seeds!registry,
         Seeds!images
    <2>2. Seeds!ParentsHold'
      BY <2>1 DEF Seeds!ParentsHold
    <2>3. Seeds!PhotosExist'
      BY <2>1 DEF Seeds!PhotosExist
    <2> QED
      BY <2>1, <2>2, <2>3
  <1>2. ASSUME NEW u \in DOMAIN Seed, NEW p \in DOMAIN Seed, Seeds!Reparent(u, p)
        PROVE  SeedsInv'
    <2>1. /\ u \in DOMAIN geo /\ geo' = [geo EXCEPT ![u] = p]
          /\ chosen' = [chosen EXCEPT ![u] = p]
          /\ UNCHANGED <<complete, pack, docs, portrait, bucket>>
      BY <1>2 DEF Seeds!Reparent, Seeds!country, Seeds!registry, Seeds!images
    <2>2. Seeds!ParentsHold'
      BY <1>0, <2>1 DEF Seeds!ParentsHold
    <2>3. Seeds!PhotosExist'
      BY <2>1 DEF Seeds!PhotosExist
    <2> QED
      BY <2>1, <2>2, <2>3
  <1>3. CASE \/ Seeds!LoadSampleData \/ Seeds!Generate \/ Seeds!Purge \/ UNCHANGED seeds
    <2>1. UNCHANGED <<geo, chosen, complete, pack, docs, portrait, bucket>>
      BY <1>3 DEF Seeds!LoadSampleData, Seeds!Generate, Seeds!Purge, Seeds!units, Seeds!country,
         Seeds!images, seeds
    <2> QED
      BY <2>1 DEF Seeds!ParentsHold, Seeds!PhotosExist
  <1>4. ASSUME NEW n \in People, Seeds!Publish(n)
        PROVE  SeedsInv'
    <2>1. pack' = pack \cup {n} /\ UNCHANGED <<geo, chosen, complete, docs, portrait, bucket>>
      BY <1>4 DEF Seeds!Publish, Seeds!units, Seeds!registry, Seeds!images
    <2> QED
      BY <2>1 DEF Seeds!ParentsHold, Seeds!PhotosExist
  <1>5. CASE Seeds!Upload
    <2>1. /\ bucket # 1..3 /\ bucket' = bucket \cup {CHOOSE n \in 1..3 : n \notin bucket}
          /\ UNCHANGED <<geo, chosen, complete, pack, docs, portrait>>
      BY <1>5 DEF Seeds!Upload, Seeds!units, Seeds!country, Seeds!registry
    <2>2. \E n \in 1..3 : n \notin bucket
      BY <2>1
    <2>3. bucket' \subseteq 1..3 /\ bucket \subseteq bucket'
      BY <2>1, <2>2
    <2> QED
      BY <2>1, <2>3 DEF Seeds!ParentsHold, Seeds!PhotosExist
  <1>6. CASE Seeds!CatalogueImages
    <2>1. /\ bucket = 1..3 /\ DOMAIN docs' = 1..3 /\ DOMAIN portrait' = 1..3
          /\ \A n \in 1..3 : docs'[n] = IF docs[n] # 0 THEN docs[n] ELSE Seeds!Fresh(n)
          /\ docs' = [n \in 1..3 |-> docs'[n]] /\ portrait' = [n \in 1..3 |-> portrait'[n]]
          /\ \A n \in 1..3 : portrait'[n] \in {docs'[n], portrait[n]}
          /\ UNCHANGED <<geo, chosen, complete, pack, bucket>>
      BY <1>6 DEF Seeds!CatalogueImages, Seeds!Catalogued, Seeds!units, Seeds!country,
         Seeds!registry
    <2>2. \A n \in 1..3 : Seeds!Fresh(n) \in 1..6
      BY DEF Seeds!Fresh
    <2>3. docs' \in [1..3 -> 0..6] /\ portrait' \in [1..3 -> 0..6]
      <3>1. \A n \in 1..3 : docs'[n] \in 0..6
        BY <2>1, <2>2
      <3>2. \A n \in 1..3 : portrait'[n] \in 0..6
        BY <2>1, <3>1
      <3> QED
        BY <2>1, <3>1, <3>2
    <2>4. Seeds!PhotosExist'
      <3> SUFFICES ASSUME NEW n \in 1..3, portrait'[n] # 0
                   PROVE  portrait'[n] = docs'[n] /\ n \in bucket'
        BY DEF Seeds!PhotosExist
      <3>1. portrait'[n] = portrait[n] => portrait[n] = docs[n] /\ docs[n] # 0
        BY DEF Seeds!PhotosExist
      <3> QED
        BY <2>1, <3>1
    <2> QED
      BY <2>1, <2>3, <2>4 DEF Seeds!ParentsHold
  <1> QED
    BY <1>1, <1>2, <1>3, <1>4, <1>5, <1>6 DEF Seeds!Next

LEMMA SeedsHold ==
    ASSUME SeedsInv
    PROVE  Seeds!TypeOK /\ Seeds!ParentsHold /\ Seeds!PhotosExist
  BY DEF SeedsInv, Seeds!TypeOK

LEMMA PlacesStart == Places!Init => Places!TypeOK
  BY PartsAssumption DEF Places!Init, Places!TypeOK, Places!Nodes, Places!Root

LEMMA PlacesStep ==
    ASSUME Places!TypeOK, Places!Next \/ UNCHANGED places
    PROVE  Places!TypeOK'
  <1>1. CASE Places!Next
    BY <1>1 DEF Places!Next, Places!Reparent, Places!Rename, Places!TypeOK
  <1>2. CASE UNCHANGED places
    BY <1>2 DEF places, Places!TypeOK
  <1> QED
    BY <1>1, <1>2

-----------------------------------------------------------------------------
(* The code lists (CodeLists).  What holds of one list is said of any table *)
(* of values v and any names of the release.                                *)

CodesIn(v, l) == {v[id] : id \in {i \in Codes!Ids : i[1] = l /\ v[i] # NULL}}
OnceEach(v, l) ==
    \A i, j \in Codes!Ids : i[1] = l /\ j[1] = l /\ v[i] # NULL /\ v[i] = v[j] => i = j
HasAll(v, l, texts) ==
    \A t \in texts : Normal[t] \in CodesIn(v, l) \cup {NULL} \/ v[<<l, Normal[t]>>] # NULL

\* What a run is to add is not there but under the id it would get, and with
\* it the list has the codes of the release.
Fits(v, l, texts, new) ==
    /\ \A c \in new : v[<<l, c>>] # NULL \/ c \notin CodesIn(v, l)
    /\ \A t \in texts : \/ Normal[t] \in new \cup CodesIn(v, l) \cup {NULL}
                        \/ v[<<l, Normal[t]>>] # NULL

Adding(v, l, new) ==
    [id \in Codes!Ids |-> IF id[1] = l /\ id[2] \in new /\ v[id] = NULL THEN id[2] ELSE v[id]]

ListAt(s) == Lists[sync[s].at]
OfferedTo(s) == offered[<<sync[s].release, ListAt(s)>>]
RunStates == [release : Releases, at : 1..Len(Lists), new : (SUBSET Codes!Codes) \cup {NULL}]
Adds(s) == sync[s] # NULL /\ sync[s].new # NULL

CodesInv ==
    /\ Codes!TypeOK
    /\ \A s \in Syncs : Adds(s) /\ ListAt(s) \notin raced =>
           Fits(value, ListAt(s), OfferedTo(s), sync[s].new)
    /\ \A l \in Codes!AllLists :
           /\ l \notin raced => OnceEach(value, l)
           /\ \A r \in Releases : <<r, l>> \in merged => HasAll(value, l, offered[<<r, l>>])

LEMMA CodeSets ==
    /\ Len(Lists) \in Nat \ {0}
    /\ \A k \in 1..Len(Lists) : Lists[k] \in Codes!AllLists
    /\ NULL \notin Codes!Codes
    /\ \A l \in Codes!AllLists, c \in Codes!Codes : <<l, c>> \in Codes!Ids
    /\ \A id \in Codes!Ids : id = <<id[1], id[2]>> /\ id[1] \in Codes!AllLists
    /\ \A t \in DOMAIN Normal : Normal[t] \in Codes!Codes \cup {NULL}
  <1>1. Len(Lists) \in Nat \ {0}
    BY PartsAssumption
  <1> QED
    BY <1>1 DEF Codes!AllLists, Codes!Codes, Codes!Texts, Codes!Ids

LEMMA ListSame ==
    ASSUME NEW u, NEW v, NEW l, \A id \in Codes!Ids : id[1] = l => u[id] = v[id]
    PROVE  /\ CodesIn(u, l) = CodesIn(v, l)
           /\ OnceEach(u, l) <=> OnceEach(v, l)
           /\ \A c \in Codes!Codes : l \in Codes!AllLists => u[<<l, c>>] = v[<<l, c>>]
  BY CodeSets DEF CodesIn, OnceEach

LEMMA ListStays ==
    ASSUME NEW u, NEW v, NEW l \in Codes!AllLists, \A id \in Codes!Ids : id[1] = l => u[id] = v[id],
           NEW texts \in SUBSET (DOMAIN Normal), NEW new \in SUBSET Codes!Codes
    PROVE  /\ Fits(v, l, texts, new) => Fits(u, l, texts, new)
           /\ HasAll(v, l, texts) => HasAll(u, l, texts)
  BY ListSame, CodeSets DEF Fits, HasAll

\* Adding what fits gives the list all codes, none twice, and leaves what
\* another run is to add fitting.
LEMMA AddingKeeps ==
    ASSUME NEW v \in [Codes!Ids -> Codes!Codes \cup {NULL}], NEW l \in Codes!AllLists,
           NEW new \in SUBSET Codes!Codes, NEW texts \in SUBSET (DOMAIN Normal)
    PROVE  LET u == Adding(v, l, new) IN
           /\ u \in [Codes!Ids -> Codes!Codes \cup {NULL}]
           /\ \A id \in Codes!Ids : id[1] # l \/ v[id] # NULL => u[id] = v[id]
           /\ CodesIn(v, l) \subseteq CodesIn(u, l)
           /\ CodesIn(u, l) \subseteq CodesIn(v, l) \cup new
           /\ \A c \in new : u[<<l, c>>] # NULL
           /\ HasAll(v, l, texts) => HasAll(u, l, texts)
  <1> DEFINE u == Adding(v, l, new)
  <1>1. \A id \in Codes!Ids : u[id] = IF id[1] = l /\ id[2] \in new /\ v[id] = NULL THEN id[2] ELSE v[id]
    BY DEF Adding
  <1>2. DOMAIN u = Codes!Ids
    BY DEF Adding
  <1>3. u \in [Codes!Ids -> Codes!Codes \cup {NULL}]
    BY <1>1 DEF Adding
  <1> HIDE DEF u
  <1>4. \A id \in Codes!Ids : id[1] # l \/ v[id] # NULL => u[id] = v[id]
    BY <1>1
  <1>5. CodesIn(v, l) \subseteq CodesIn(u, l) /\ CodesIn(u, l) \subseteq CodesIn(v, l) \cup new
    BY <1>1, <1>4 DEF CodesIn
  <1>6. \A c \in new : u[<<l, c>>] # NULL
    <2> SUFFICES ASSUME NEW c \in new PROVE u[<<l, c>>] # NULL
      OBVIOUS
    <2>1. <<l, c>> \in Codes!Ids /\ c # NULL /\ <<l, c>>[1] = l /\ <<l, c>>[2] = c
      BY CodeSets
    <2> QED
      BY <1>1, <2>1
  <1>7. HasAll(v, l, texts) => HasAll(u, l, texts)
    <2> SUFFICES ASSUME HasAll(v, l, texts), NEW t \in texts,
                        Normal[t] \notin CodesIn(v, l) \cup {NULL}
                 PROVE  u[<<l, Normal[t]>>] # NULL
      BY <1>5 DEF HasAll
    <2>1. v[<<l, Normal[t]>>] # NULL
      BY DEF HasAll
    <2>2. <<l, Normal[t]>> \in Codes!Ids
      BY CodeSets
    <2> QED
      BY <1>4, <2>1, <2>2
  <1> QED
    BY <1>3, <1>4, <1>5, <1>6, <1>7 DEF u

LEMMA AddingFits ==
    ASSUME NEW v \in [Codes!Ids -> Codes!Codes \cup {NULL}], NEW l \in Codes!AllLists,
           NEW new \in SUBSET Codes!Codes, NEW texts \in SUBSET (DOMAIN Normal),
           Fits(v, l, texts, new)
    PROVE  LET u == Adding(v, l, new) IN
           /\ HasAll(u, l, texts)
           /\ OnceEach(v, l) => OnceEach(u, l)
           /\ \A also \in SUBSET (DOMAIN Normal), more \in SUBSET Codes!Codes :
                  Fits(v, l, also, more) => Fits(u, l, also, more)
  <1> DEFINE u == Adding(v, l, new)
  <1>1. /\ \A id \in Codes!Ids : id[1] # l \/ v[id] # NULL => u[id] = v[id]
        /\ CodesIn(v, l) \subseteq CodesIn(u, l)
        /\ CodesIn(u, l) \subseteq CodesIn(v, l) \cup new
        /\ \A c \in new : u[<<l, c>>] # NULL
    BY AddingKeeps
  <1>2. \A id \in Codes!Ids : u[id] = IF id[1] = l /\ id[2] \in new /\ v[id] = NULL THEN id[2] ELSE v[id]
    BY DEF Adding
  <1> HIDE DEF u
  <1>3. \A c \in Codes!Codes : v[<<l, c>>] # NULL => u[<<l, c>>] # NULL
    BY <1>1, CodeSets
  <1>4. \A t \in texts : Normal[t] \in Codes!Codes \cup {NULL}
    BY CodeSets
  <1>5. HasAll(u, l, texts)
    BY <1>1, <1>3, <1>4 DEF HasAll, Fits
  <1>6. OnceEach(v, l) => OnceEach(u, l)
    <2> SUFFICES ASSUME OnceEach(v, l), NEW i \in Codes!Ids, NEW j \in Codes!Ids,
                        i[1] = l, j[1] = l, u[i] # NULL, u[i] = u[j]
                 PROVE  i = j
      BY DEF OnceEach
    <2>1. \A id \in Codes!Ids : id[1] = l /\ v[id] = NULL /\ u[id] # NULL
              => /\ u[id] = id[2] /\ id = <<l, u[id]>> /\ u[id] \in new
                 /\ u[id] \notin CodesIn(v, l)
      BY <1>2, CodeSets DEF Fits
    <2>2. \A id \in Codes!Ids : id[1] = l /\ v[id] # NULL => u[id] \in CodesIn(v, l) /\ u[id] = v[id]
      BY <1>1 DEF CodesIn
    <2>3. CASE v[i] = NULL
      BY <2>1, <2>2, <2>3
    <2>4. CASE v[i] # NULL
      BY <2>1, <2>2, <2>4 DEF OnceEach
    <2> QED
      BY <2>3, <2>4
  <1>7. ASSUME NEW also \in SUBSET (DOMAIN Normal), NEW more \in SUBSET Codes!Codes,
               Fits(v, l, also, more)
        PROVE  Fits(u, l, also, more)
    <2>1. \A t \in also : Normal[t] \in Codes!Codes \cup {NULL}
      BY CodeSets
    <2> QED
      BY <1>1, <1>3, <1>7, <2>1 DEF Fits
  <1> QED
    BY <1>5, <1>6, <1>7 DEF u

LEMMA CodesStart == Codes!Init => CodesInv
  <1> SUFFICES ASSUME Codes!Init PROVE CodesInv
    OBVIOUS
  <1>1. Codes!TypeOK
    BY DEF Codes!Init, Codes!TypeOK
  <1>2. \A l : OnceEach(value, l)
    BY DEF Codes!Init, OnceEach
  <1> QED
    BY <1>1, <1>2 DEF Codes!Init, CodesInv, Adds

\* What is known of a run: its list, and the codes it is to add.
LEMMA RunIs ==
    ASSUME Codes!TypeOK, NEW s \in Syncs, sync[s] # NULL
    PROVE  /\ sync[s] \in RunStates
           /\ sync[s].at \in 1..Len(Lists) /\ ListAt(s) \in Codes!AllLists
           /\ sync[s].release \in Releases /\ OfferedTo(s) \in SUBSET (DOMAIN Normal)
           /\ Adds(s) => sync[s].new \in SUBSET Codes!Codes
           /\ Codes!AfterList(s) \in RunStates \cup {NULL}
           /\ Codes!AfterList(s) # NULL => Codes!AfterList(s).new = NULL
  <1>1. sync[s] \in RunStates
    BY DEF Codes!TypeOK, RunStates
  <1>2. sync[s].at \in 1..Len(Lists) /\ sync[s].release \in Releases
    BY <1>1 DEF RunStates
  <1>3. ListAt(s) \in Codes!AllLists
    BY <1>2, CodeSets DEF ListAt
  <1>4. OfferedTo(s) \in SUBSET (DOMAIN Normal)
    BY <1>2, <1>3 DEF Codes!TypeOK, Codes!Texts, OfferedTo
  <1>5. Adds(s) => sync[s].new \in SUBSET Codes!Codes
    <2>1. sync[s].new \in (SUBSET Codes!Codes) \cup {NULL}
      BY <1>1 DEF RunStates
    <2> QED
      BY <2>1, Zenon DEF Adds
  <1>6. sync[s].at # Len(Lists) => sync[s].at + 1 \in 1..Len(Lists)
    BY <1>2, CodeSets
  <1>7. ASSUME Codes!AfterList(s) # NULL
        PROVE  /\ Codes!AfterList(s) \in RunStates
               /\ Codes!AfterList(s).new = NULL
    <2>1. /\ sync[s].at # Len(Lists)
          /\ Codes!AfterList(s) = [sync[s] EXCEPT !.at = sync[s].at + 1, !.new = NULL]
      BY <1>7, Zenon DEF Codes!AfterList
    <2>2. PICK k \in 1..Len(Lists) : k = sync[s].at + 1
      BY <1>6, <2>1
    <2> QED
      BY <1>1, <2>1, <2>2 DEF RunStates
  <1> QED
    BY <1>1, <1>2, <1>3, <1>4, <1>5, <1>7, Zenon

\* A run that ends, or goes on to its next list, adds nothing yet.
LEMMA RunsOn ==
    ASSUME CodesInv, NEW s \in Syncs, NEW w,
           w \in RunStates \cup {NULL},
           w # NULL => w.new = NULL,
           sync' = [sync EXCEPT ![s] = w], offered' = offered, raced' = raced, value' = value
    PROVE  /\ sync' \in [Syncs -> RunStates \cup {NULL}]
           /\ \A o \in Syncs : Adds(o)' /\ ListAt(o)' \notin raced' =>
                  Fits(value', ListAt(o)', OfferedTo(o)', sync'[o].new)
  <1>1. sync \in [Syncs -> RunStates \cup {NULL}]
    BY DEF CodesInv, Codes!TypeOK, RunStates
  <1>2. \A o \in Syncs : sync'[o] = IF o = s THEN w ELSE sync[o]
    BY <1>1
  <1>3. sync' \in [Syncs -> RunStates \cup {NULL}]
    BY <1>1
  <1> QED
    BY <1>2, <1>3 DEF CodesInv, Adds, ListAt, OfferedTo

LEMMA ReadKeeps == ASSUME CodesInv, NEW s \in Syncs, Codes!ReadList(s) PROVE CodesInv'
  <1> DEFINE l == ListAt(s)
             r == sync[s].release
             new == Codes!NewRows(r, l)
  <1>1. sync[s] # NULL /\ sync[s].new = NULL /\ UNCHANGED <<value, active, offered, raced>>
    BY DEF Codes!ReadList
  <1>2. r \in Releases /\ l \in Codes!AllLists /\ offered[<<r, l>>] \in SUBSET (DOMAIN Normal)
    BY <1>1, RunIs DEF CodesInv, OfferedTo
  <1>3. Codes!Seen(l) = CodesIn(value, l)
    BY DEF Codes!Seen, Codes!OfList, CodesIn
  <1>4. new \in SUBSET Codes!Codes /\ new = {Normal[t] : t \in offered[<<r, l>>]} \ (CodesIn(value, l) \cup {NULL})
    BY <1>2, <1>3, CodeSets DEF Codes!NewRows
  <1>5. CASE new = {}
    <2>1. sync' = [sync EXCEPT ![s] = Codes!AfterList(s)] /\ merged' = merged \cup {<<r, l>>}
      BY <1>5 DEF Codes!ReadList, ListAt
    <2>2. HasAll(value, l, offered[<<r, l>>])
      BY <1>4, <1>5 DEF HasAll
    <2>3. /\ sync' \in [Syncs -> RunStates \cup {NULL}]
          /\ \A o \in Syncs : Adds(o)' /\ ListAt(o)' \notin raced' =>
                  Fits(value', ListAt(o)', OfferedTo(o)', sync'[o].new)
      BY <1>1, <2>1, RunIs, RunsOn DEF CodesInv
    <2>4. merged' \subseteq Releases \X Codes!AllLists
      BY <1>2, <2>1 DEF CodesInv, Codes!TypeOK
    <2>5. Codes!TypeOK'
      BY <1>1, <2>3, <2>4 DEF CodesInv, Codes!TypeOK, RunStates, Codes!AllLists, Codes!Codes,
         Codes!Ids, Codes!Texts
    <2>6. \A k \in Codes!AllLists, q \in Releases :
              <<q, k>> \in merged' => HasAll(value', k, offered'[<<q, k>>])
      BY <1>1, <2>1, <2>2 DEF CodesInv
    <2>7. \A k \in Codes!AllLists : k \notin raced' => OnceEach(value', k)
      BY <1>1 DEF CodesInv
    <2> QED
      BY <2>3, <2>5, <2>6, <2>7 DEF CodesInv, Codes!AllLists
  <1>6. CASE new # {}
    <2> DEFINE w == [sync[s] EXCEPT !.new = new]
    <2>1. sync' = [sync EXCEPT ![s] = w] /\ merged' = merged
      BY <1>6 DEF Codes!ReadList, ListAt
    <2>2. sync[s] \in RunStates
      BY <1>1, RunIs DEF CodesInv
    <2>3. /\ w \in RunStates
          /\ w.at = sync[s].at /\ w.release = sync[s].release /\ w.new = new
      BY <1>4, <2>2 DEF RunStates
    <2> HIDE DEF w
    <2>4. sync \in [Syncs -> RunStates \cup {NULL}]
      BY DEF CodesInv, Codes!TypeOK, RunStates
    <2>5. /\ sync' \in [Syncs -> RunStates \cup {NULL}]
          /\ \A o \in Syncs : sync'[o] = IF o = s THEN w ELSE sync[o]
      BY <2>1, <2>3, <2>4
    <2>6. Fits(value, l, OfferedTo(s), new)
      BY <1>4 DEF Fits, OfferedTo
    <2>7. ASSUME NEW o \in Syncs, Adds(o)', ListAt(o)' \notin raced'
          PROVE  Fits(value', ListAt(o)', OfferedTo(o)', sync'[o].new)
      <3>1. CASE o = s
        BY <1>1, <2>3, <2>5, <2>6, <3>1 DEF ListAt, OfferedTo
      <3>2. CASE o # s
        BY <1>1, <2>5, <2>7, <3>2 DEF ListAt, Adds, OfferedTo, CodesInv
      <3> QED
        BY <3>1, <3>2
    <2> QED
      BY <1>1, <2>1, <2>5, <2>7 DEF CodesInv, Codes!TypeOK, RunStates, Codes!AllLists, Codes!Codes,
         Codes!Ids, Codes!Texts
  <1> QED
    BY <1>5, <1>6

LEMMA InsertKeeps == ASSUME CodesInv, NEW s \in Syncs, Codes!InsertNew(s) PROVE CodesInv'
  <1> DEFINE l == ListAt(s)
             r == sync[s].release
             new == sync[s].new
  <1>1. /\ Adds(s) /\ UNCHANGED <<active, offered, raced>>
        /\ value' = Adding(value, l, new)
        /\ merged' = (IF l \in raced THEN merged ELSE merged \cup {<<r, l>>})
        /\ sync' = [sync EXCEPT ![s] = Codes!AfterList(s)]
    BY DEF Codes!InsertNew, Codes!Inserted, Adding, Adds, ListAt
  <1>2. /\ l \in Codes!AllLists /\ r \in Releases /\ new \in SUBSET Codes!Codes
        /\ offered[<<r, l>>] \in SUBSET (DOMAIN Normal)
    BY <1>1, RunIs DEF CodesInv, Adds, OfferedTo
  <1>3. value \in [Codes!Ids -> Codes!Codes \cup {NULL}]
    BY DEF CodesInv, Codes!TypeOK
  <1> HIDE DEF l, r, new
  <1>4. /\ value' \in [Codes!Ids -> Codes!Codes \cup {NULL}]
        /\ \A id \in Codes!Ids : id[1] # l \/ value[id] # NULL => value'[id] = value[id]
        /\ \A texts \in SUBSET (DOMAIN Normal) : HasAll(value, l, texts) => HasAll(value', l, texts)
    <2> DEFINE u == Adding(value, l, new)
    <2>1. /\ u \in [Codes!Ids -> Codes!Codes \cup {NULL}]
          /\ \A id \in Codes!Ids : id[1] # l \/ value[id] # NULL => u[id] = value[id]
          /\ \A texts \in SUBSET (DOMAIN Normal) : HasAll(value, l, texts) => HasAll(u, l, texts)
      BY <1>2, <1>3, AddingKeeps, Zenon
    <2>2. value' = u
      BY <1>1
    <2> HIDE DEF u
    <2> QED
      BY <2>1, <2>2, Zenon
  <1>5. l \notin raced => Fits(value, l, offered[<<r, l>>], new)
    BY <1>1 DEF CodesInv, OfferedTo, l, r, new
  <1>6. l \notin raced =>
            /\ HasAll(value', l, offered[<<r, l>>])
            /\ OnceEach(value, l) => OnceEach(value', l)
            /\ \A texts \in SUBSET (DOMAIN Normal), more \in SUBSET Codes!Codes :
                   Fits(value, l, texts, more) => Fits(value', l, texts, more)
    BY <1>1, <1>2, <1>3, <1>5, AddingFits
  <1>7. sync \in [Syncs -> RunStates \cup {NULL}]
    BY DEF CodesInv, Codes!TypeOK, RunStates
  <1>8. /\ Codes!AfterList(s) \in RunStates \cup {NULL}
        /\ Codes!AfterList(s) # NULL => Codes!AfterList(s).new = NULL
    BY <1>1, RunIs DEF CodesInv, Adds
  <1>9. /\ sync' \in [Syncs -> RunStates \cup {NULL}]
        /\ \A o \in Syncs : sync'[o] = IF o = s THEN Codes!AfterList(s) ELSE sync[o]
    BY <1>1, <1>7, <1>8
  <1>10. ASSUME NEW o \in Syncs, Adds(o)', ListAt(o)' \notin raced'
         PROVE  Fits(value', ListAt(o)', OfferedTo(o)', sync'[o].new)
    <2>1. o # s /\ sync'[o] = sync[o]
      BY <1>8, <1>9, <1>10 DEF Adds
    <2>2. PICK k, texts : k = ListAt(o) /\ texts = OfferedTo(o)
      OBVIOUS
    <2>3. Adds(o) /\ ListAt(o)' = k /\ OfferedTo(o)' = texts /\ k \notin raced
      BY <1>1, <1>10, <2>1, <2>2 DEF Adds, ListAt, OfferedTo
    <2>4. /\ Fits(value, k, texts, sync[o].new) /\ k \in Codes!AllLists
          /\ texts \in SUBSET (DOMAIN Normal) /\ sync[o].new \in SUBSET Codes!Codes
      BY <2>2, <2>3, RunIs DEF CodesInv, Adds
    <2>5. CASE k = l
      BY <1>1, <1>6, <2>1, <2>3, <2>4, <2>5
    <2>6. CASE k # l
      BY <1>1, <1>4, <2>1, <2>3, <2>4, <2>6, ListStays
    <2> QED
      BY <2>5, <2>6
  <1>11. ASSUME NEW k \in Codes!AllLists
         PROVE  /\ k \notin raced' => OnceEach(value', k)
                /\ \A q \in Releases : <<q, k>> \in merged' => HasAll(value', k, offered'[<<q, k>>])
    <2>1. \A q \in Releases : offered[<<q, k>>] \in SUBSET (DOMAIN Normal)
      BY DEF CodesInv, Codes!TypeOK, Codes!Texts
    <2>2. CASE k = l
      BY <1>1, <1>4, <1>6, <2>1, <2>2 DEF CodesInv
    <2>3. CASE k # l
      <3>1. \A id \in Codes!Ids : id[1] = k => value'[id] = value[id]
        BY <1>4, <2>3
      <3>2. (OnceEach(value, k) => OnceEach(value', k))
            /\ \A q \in Releases :
                   HasAll(value, k, offered[<<q, k>>]) => HasAll(value', k, offered[<<q, k>>])
        <4>1. {} \in SUBSET Codes!Codes
          OBVIOUS
        <4> QED
          BY <2>1, <3>1, <4>1, ListSame, ListStays
      <3> QED
        BY <1>1, <2>3, <3>2 DEF CodesInv
    <2> QED
      BY <2>2, <2>3
  <1>12. Codes!TypeOK'
    <2>1. merged' \subseteq Releases \X Codes!AllLists
      BY <1>1, <1>2 DEF CodesInv, Codes!TypeOK
    <2> QED
      BY <1>1, <1>4, <1>9, <2>1 DEF CodesInv, Codes!TypeOK, RunStates, Codes!AllLists,
         Codes!Codes, Codes!Ids, Codes!Texts
  <1> QED
    BY <1>10, <1>11, <1>12 DEF CodesInv, Codes!AllLists

\* An edit of a list, or of what a release has for it: none of its codes is
\* there twice, and who is to add to it finds it raced.
LEMMA TouchedKeeps ==
    ASSUME CodesInv, NEW l \in Codes!AllLists, NEW rs \in SUBSET Releases, Codes!Touched(rs, l),
           value' \in [Codes!Ids -> Codes!Codes \cup {NULL}],
           active' = active, offered' \in [Releases \X Codes!AllLists -> SUBSET (DOMAIN Normal)],
           \A id \in Codes!Ids : id[1] # l \/ rs # Releases => value'[id] = value[id],
           \A q \in Releases, k \in Codes!AllLists :
               q \notin rs \/ k # l => offered'[<<q, k>>] = offered[<<q, k>>],
           OnceEach(value, l) => OnceEach(value', l)
    PROVE  CodesInv'
  <1>1. /\ sync' = sync /\ merged' = merged \ (rs \X {l})
        /\ raced \subseteq raced' /\ raced' \subseteq raced \cup {l}
    BY DEF Codes!Touched
  <1>2. \A s \in Syncs : Adds(s) /\ ListAt(s) = l => l \in raced'
    BY DEF Codes!Touched, Adds, ListAt
  <1>3. ASSUME NEW s \in Syncs, Adds(s)', ListAt(s)' \notin raced'
        PROVE  Fits(value', ListAt(s)', OfferedTo(s)', sync'[s].new)
    <2>1. PICK k, texts : k = ListAt(s) /\ texts = OfferedTo(s)
      OBVIOUS
    <2>2. Adds(s) /\ ListAt(s)' = k /\ k \notin raced /\ k # l
      BY <1>1, <1>2, <1>3, <2>1 DEF Adds, ListAt
    <2>3. /\ Fits(value, k, texts, sync[s].new) /\ k \in Codes!AllLists
          /\ texts \in SUBSET (DOMAIN Normal) /\ sync[s].new \in SUBSET Codes!Codes
          /\ sync[s].release \in Releases
      BY <2>1, <2>2, RunIs DEF CodesInv, Adds
    <2>5. OfferedTo(s)' = texts
      BY <1>1, <2>1, <2>2, <2>3 DEF OfferedTo, ListAt
    <2>4. \A id \in Codes!Ids : id[1] = k => value'[id] = value[id]
      BY <2>2
    <2> QED
      BY <1>1, <2>2, <2>3, <2>4, <2>5, ListStays
  <1>4. ASSUME NEW k \in Codes!AllLists
        PROVE  /\ k \notin raced' => OnceEach(value', k)
               /\ \A q \in Releases : <<q, k>> \in merged' => HasAll(value', k, offered'[<<q, k>>])
    <2>0. \A q \in Releases : offered[<<q, k>>] \in SUBSET (DOMAIN Normal)
      BY DEF CodesInv, Codes!TypeOK, Codes!Texts
    <2>1. CASE k = l
      <3>1. k \notin raced' => OnceEach(value', k)
        BY <1>1, <2>1 DEF CodesInv
      <3>2. ASSUME NEW q \in Releases, <<q, k>> \in merged'
            PROVE  HasAll(value', k, offered'[<<q, k>>])
        <4>1. q \notin rs /\ <<q, k>> \in merged
          BY <1>1, <2>1, <3>2
        <4>2. \A id \in Codes!Ids : id[1] = k => value'[id] = value[id]
          BY <4>1
        <4>3. offered'[<<q, k>>] = offered[<<q, k>>] /\ HasAll(value, k, offered[<<q, k>>])
          BY <4>1 DEF CodesInv
        <4>4. {} \in SUBSET Codes!Codes
          OBVIOUS
        <4> QED
          BY <2>0, <4>2, <4>3, <4>4, ListStays
      <3> QED
        BY <3>1, <3>2
    <2>2. CASE k # l
      <3>1. \A id \in Codes!Ids : id[1] = k => value'[id] = value[id]
        BY <2>2
      <3>2. {} \in SUBSET Codes!Codes
        OBVIOUS
      <3>3. (OnceEach(value, k) => OnceEach(value', k))
            /\ \A q \in Releases :
                   HasAll(value, k, offered[<<q, k>>]) => HasAll(value', k, offered[<<q, k>>])
        BY <2>0, <3>1, <3>2, ListSame, ListStays
      <3> QED
        BY <1>1, <2>2, <3>3 DEF CodesInv
    <2> QED
      BY <2>1, <2>2
  <1>5. Codes!TypeOK'
    BY <1>1 DEF CodesInv, Codes!TypeOK, RunStates, Codes!AllLists, Codes!Codes, Codes!Ids, Codes!Texts
  <1> QED
    BY <1>3, <1>4, <1>5 DEF CodesInv, Codes!AllLists

LEMMA EditKeeps ==
    ASSUME CodesInv, NEW id \in Codes!Ids, NEW c \in Codes!Codes \cup {NULL}, Codes!EditValue(id, c)
    PROVE  CodesInv'
  <1> DEFINE l == id[1]
  <1>1. /\ c = NULL \/ c \notin CodesIn(value, l)
        /\ value' = [value EXCEPT ![id] = c] /\ Codes!Touched(Releases, l)
        /\ active' = active /\ offered' = offered
    BY DEF Codes!EditValue, Codes!Seen, Codes!OfList, CodesIn
  <1>2. value \in [Codes!Ids -> Codes!Codes \cup {NULL}]
        /\ offered \in [Releases \X Codes!AllLists -> SUBSET (DOMAIN Normal)]
    BY DEF CodesInv, Codes!TypeOK, Codes!Texts
  <1>3. /\ value' \in [Codes!Ids -> Codes!Codes \cup {NULL}]
        /\ \A i \in Codes!Ids : value'[i] = IF i = id THEN c ELSE value[i]
    BY <1>1, <1>2
  <1>4. OnceEach(value, l) => OnceEach(value', l)
    <2> SUFFICES ASSUME OnceEach(value, l), NEW i \in Codes!Ids, NEW j \in Codes!Ids,
                        i[1] = l, j[1] = l, value'[i] # NULL, value'[i] = value'[j]
                 PROVE  i = j
      BY DEF OnceEach
    <2>1. \A k \in Codes!Ids : k[1] = l /\ k # id /\ value'[k] # NULL => value'[k] \in CodesIn(value, l)
      BY <1>3 DEF CodesIn
    <2>2. CASE i = id \/ j = id
      BY <1>1, <1>3, <2>1, <2>2
    <2>3. CASE i # id /\ j # id
      BY <1>3, <2>3 DEF OnceEach
    <2> QED
      BY <2>2, <2>3
  <1>5. l \in Codes!AllLists
    BY CodeSets
  <1> QED
    BY <1>1, <1>2, <1>3, <1>4, <1>5, TouchedKeeps

LEMMA ReleaseKeeps ==
    ASSUME CodesInv, NEW r \in Releases, NEW l \in Codes!AllLists, NEW t \in Codes!Texts,
           Codes!EditRelease(r, l, t)
    PROVE  CodesInv'
  <1>1. /\ offered \in [Releases \X Codes!AllLists -> SUBSET (DOMAIN Normal)]
        /\ value \in [Codes!Ids -> Codes!Codes \cup {NULL}]
    BY DEF CodesInv, Codes!TypeOK, Codes!Texts
  <1>2. Codes!Touched({r}, l) /\ value' = value /\ active' = active
    BY DEF Codes!EditRelease
  <1>3. PICK texts : texts = (IF t \in offered[<<r, l>>] THEN offered[<<r, l>>] \ {t}
                              ELSE offered[<<r, l>>] \cup {t})
    OBVIOUS
  <1>4. texts \in SUBSET (DOMAIN Normal) /\ offered' = [offered EXCEPT ![<<r, l>>] = texts]
    BY <1>1, <1>3 DEF Codes!EditRelease, Codes!Texts
  <1>5. /\ offered' \in [Releases \X Codes!AllLists -> SUBSET (DOMAIN Normal)]
        /\ \A q \in Releases, k \in Codes!AllLists :
               q \notin {r} \/ k # l => offered'[<<q, k>>] = offered[<<q, k>>]
    BY <1>1, <1>4
  <1> QED
    BY <1>1, <1>2, <1>5, TouchedKeeps

LEMMA ActivateKeeps ==
    ASSUME CodesInv, NEW r \in Releases \cup {NULL}, Codes!Activate(r) PROVE CodesInv'
  BY DEF Codes!Activate, CodesInv, Codes!TypeOK, Adds, ListAt, OfferedTo, Codes!AllLists,
     Codes!Codes, Codes!Ids, Codes!Texts

LEMMA CodesStep == ASSUME CodesInv, Codes!Next \/ UNCHANGED codes PROVE CodesInv'
  <1>1. ASSUME NEW s \in Syncs, Codes!StartSync(s) \/ Codes!Crash(s)
        PROVE  CodesInv'
    <2>1. UNCHANGED <<value, active, offered, merged, raced>>
      BY <1>1 DEF Codes!StartSync, Codes!Crash
    <2>2. /\ sync' \in [Syncs -> RunStates \cup {NULL}]
          /\ \A o \in Syncs : Adds(o)' /\ ListAt(o)' \notin raced' =>
                  Fits(value', ListAt(o)', OfferedTo(o)', sync'[o].new)
      <3>1. CASE Codes!StartSync(s)
        <4>0. PICK r \in Releases : sync' = [sync EXCEPT ![s] = [release |-> r, at |-> 1, new |-> NULL]]
          BY <3>1, PartsAssumption DEF Codes!StartSync, CodesInv, Codes!TypeOK
        <4>1. PICK w : w = [release |-> r, at |-> 1, new |-> NULL]
          OBVIOUS
        <4>2. 1 \in 1..Len(Lists)
          BY CodeSets
        <4>3. w \in RunStates /\ w.new = NULL
          BY <4>1, <4>2 DEF RunStates
        <4>4. sync' = [sync EXCEPT ![s] = w]
          BY <4>0, <4>1
        <4> QED
          BY <2>1, <4>3, <4>4, RunsOn
      <3>2. CASE Codes!Crash(s)
        BY <2>1, <3>2, RunsOn DEF Codes!Crash
      <3> QED
        BY <1>1, <3>1, <3>2
    <2> QED
      BY <2>1, <2>2 DEF CodesInv, Codes!TypeOK, RunStates, Codes!AllLists, Codes!Codes, Codes!Ids,
         Codes!Texts
  <1>2. CASE UNCHANGED codes
    BY <1>2 DEF codes, CodesInv, Codes!TypeOK, Adds, ListAt, OfferedTo, Codes!AllLists, Codes!Codes,
       Codes!Ids, Codes!Texts
  <1> QED
    BY <1>1, <1>2, ReadKeeps, InsertKeeps, EditKeeps, ReleaseKeeps, ActivateKeeps DEF Codes!Next

LEMMA CodesSound == ASSUME CodesInv PROVE Codes!TypeOK /\ Codes!ListsMerged
  <1>1. ASSUME NEW l \in Codes!AllLists, NEW r \in Releases, <<r, l>> \in merged
        PROVE  \A t \in offered[<<r, l>>] : Normal[t] \in Codes!Seen(l) \cup {NULL} \/ value[<<l, Normal[t]>>] # NULL
    BY <1>1 DEF CodesInv, HasAll, CodesIn, Codes!Seen, Codes!OfList
  <1>2. ASSUME NEW l \in Codes!AllLists, l \notin raced
        PROVE  Codes!Cardinality(Codes!Seen(l)) = Codes!Cardinality(Codes!OfList(l))
    <2> DEFINE S == Codes!OfList(l)
               T == Codes!Seen(l)
               f == [id \in S |-> value[id]]
    <2>1. IsFiniteSet(S)
      <3>1. IsFiniteSet(Codes!Codes \cup {"hand"})
        <4>1. IsFiniteSet({Normal[t] : t \in DOMAIN Normal})
          <5> DEFINE g == [t \in DOMAIN Normal |-> Normal[t]]
          <5>1. g \in Surjection(DOMAIN Normal, {Normal[t] : t \in DOMAIN Normal})
            BY DEF Surjection
          <5> QED
            BY <5>1, PartsAssumption, FS_Surjection
        <4>2. IsFiniteSet(Codes!Codes)
          BY <4>1, FS_Subset DEF Codes!Codes, Codes!Texts
        <4> QED
          BY <4>2, FS_Singleton, FS_Union
      <3>2. IsFiniteSet({l} \X (Codes!Codes \cup {"hand"}))
        BY <3>1, FS_Singleton, FS_Product
      <3>3. S \subseteq {l} \X (Codes!Codes \cup {"hand"})
        BY DEF Codes!OfList, Codes!Ids
      <3> QED
        BY <3>2, <3>3, FS_Subset
    <2>2. f \in Surjection(S, T)
      BY DEF Surjection, Codes!Seen
    <2>3. f \in Injection(S, T)
      <3>1. \A i, j \in S : value[i] = value[j] => i = j
        BY <1>2 DEF CodesInv, OnceEach, Codes!OfList
      <3> HIDE DEF S, T
      <3>2. f \in [S -> T]
        BY <2>2 DEF Surjection
      <3> QED
        BY <3>1, <3>2 DEF Injection, IsInjective
    <2>4. Cardinality(T) = Cardinality(S)
      BY <2>1, <2>2, <2>3, FS_Surjection
    <2>5. \A X : Codes!Cardinality(X) = Cardinality(X)
      BY DEF Codes!Cardinality, Cardinality
    <2> QED
      BY <2>4, <2>5
  <1> QED
    BY <1>1, <1>2 DEF CodesInv, Codes!ListsMerged

-----------------------------------------------------------------------------
(* The schema (BootSchema).                                                 *)

\* Only these three were ever of another type.
Retyped == {"birth_ec", "land_size", "land_copies"}
OldOnly(v) == \A g \in Schema!Groups : v[g] = "old" => g \in Retyped

\* What the steps before n have made of the columns v.
Steps == 1 .. Len(Schema!Script)
Migrated(v, n) ==
    \A k \in Steps : n > k + 2 =>
        /\ \A g \in Schema!Script[k].adds : v[g] # "missing"
        /\ \A g \in Schema!Script[k].retypes : v[g] # "old"

\* Whoever is past the tables has seen them: nobody creates them again.
TablesSeen(p) ==
    pos[p] >= 2 \/ (pos[p] = 1 /\ ~fresh[p]) \/ stage[p] = "serving" => tables

SchemaInv ==
    /\ Schema!TypeOK /\ Schema!ServesCurrentSchema /\ OldOnly(col)
    /\ view \in [Procs -> [Schema!Groups -> {"missing", "old", "new"}]]
    /\ \A p \in Procs :
          /\ TablesSeen(p) /\ OldOnly(view[p]) /\ Migrated(view[p], pos[p])
          /\ stage[p] = "serving" => pos[p] = 0

LEMMA ScriptIs ==
    /\ Len(Schema!Script) = 11 /\ Steps = 1 .. 11
    /\ \A k \in 1 .. 11 : Schema!Script[k].adds \subseteq Schema!Groups
                          /\ Schema!Script[k].retypes \subseteq Schema!Groups
  <1>1. Len(Schema!Script) = 11
    BY DEF Schema!Script
  <1>2. ASSUME NEW k \in 1 .. 11
        PROVE  Schema!Script[k].adds \subseteq Schema!Groups
               /\ Schema!Script[k].retypes \subseteq Schema!Groups
    <2>1. \/ k = 1 \/ k = 2 \/ k = 3 \/ k = 4 \/ k = 5 \/ k = 6 \/ k = 7 \/ k = 8
          \/ k = 9 \/ k = 10 \/ k = 11
      OBVIOUS
    <2>2. QED
      BY <2>1 DEF Schema!Script, Schema!Groups, Schema!Does, Schema!HeadColumns,
         Schema!FarmerColumns, Schema!DedupTable, Schema!FarmerUpdates, Schema!DateColumns,
         Schema!FillRollups, Schema!LandColumns, Schema!LandSizeRetype, Schema!LandUpdates,
         Schema!PhoneColumns, Schema!HeadUpdate
  <1>3. QED
    BY <1>1, <1>2 DEF Steps

\* The script adds every group and retypes those that may be old.
LEMMA ScriptCompletes ==
    ASSUME NEW v \in [Schema!Groups -> {"missing", "old", "new"}], OldOnly(v), Migrated(v, 14)
    PROVE  v = Schema!New
  <1>1. \A k \in 1 .. 11 :
            /\ \A g \in Schema!Script[k].adds : v[g] # "missing"
            /\ \A g \in Schema!Script[k].retypes : v[g] # "old"
    BY ScriptIs DEF Migrated
  <1>2. /\ \A g \in Schema!HeadColumns.adds : v[g] # "missing"
        /\ \A g \in Schema!FarmerColumns.adds : v[g] # "missing"
        /\ \A g \in Schema!FarmerColumns.retypes : v[g] # "old"
        /\ \A g \in Schema!DedupTable.adds : v[g] # "missing"
        /\ \A g \in Schema!DateColumns.adds : v[g] # "missing"
        /\ \A g \in Schema!LandColumns.adds : v[g] # "missing"
        /\ \A g \in Schema!LandSizeRetype.retypes : v[g] # "old"
        /\ \A g \in Schema!PhoneColumns.adds : v[g] # "missing"
    <2>1. /\ Schema!Script[1] = Schema!HeadColumns /\ Schema!Script[2] = Schema!FarmerColumns
          /\ Schema!Script[3] = Schema!DedupTable /\ Schema!Script[5] = Schema!DateColumns
          /\ Schema!Script[7] = Schema!LandColumns /\ Schema!Script[8] = Schema!LandSizeRetype
          /\ Schema!Script[10] = Schema!PhoneColumns
      BY DEF Schema!Script
    <2>2. {1, 2, 3, 5, 7, 8, 10} \subseteq 1 .. 11
      OBVIOUS
    <2>3. QED
      BY <1>1, <2>1, <2>2
  <1>3. v["birth_ec"] # "old" /\ v["land_size"] # "old" /\ v["land_copies"] # "old"
    BY <1>2 DEF Schema!FarmerColumns, Schema!LandSizeRetype, Schema!Does
  <1>4. \A g \in Schema!Groups : v[g] # "missing"
    BY <1>2 DEF Schema!Groups, Schema!HeadColumns, Schema!FarmerColumns, Schema!DedupTable,
       Schema!DateColumns, Schema!LandColumns, Schema!PhoneColumns, Schema!Does
  <1>5. \A g \in Schema!Groups : v[g] = "new"
    BY <1>3, <1>4 DEF OldOnly, Retyped
  <1>6. QED
    BY <1>5 DEF Schema!New

\* A statement makes no column older.
LEMMA AfterKeeps ==
    ASSUME NEW s, NEW v \in [Schema!Groups -> {"missing", "old", "new"}]
    PROVE  /\ Schema!After(s, v) \in [Schema!Groups -> {"missing", "old", "new"}]
           /\ OldOnly(v) => OldOnly(Schema!After(s, v))
           /\ \A g \in Schema!Groups :
                 /\ v[g] # "missing" \/ g \in s.adds => Schema!After(s, v)[g] # "missing"
                 /\ v[g] # "old" \/ g \in s.retypes => Schema!After(s, v)[g] # "old"
  BY DEF Schema!After, OldOnly

LEMMA SchemaStart == Schema!Init => SchemaInv
  <1> SUFFICES ASSUME Schema!Init PROVE SchemaInv
    OBVIOUS
  <1>1. ASSUME NEW l \in LandSizes, NEW b \in {"missing", "old"}, NEW c \in {"missing", "old"},
               col = [Schema!Missing EXCEPT !["land_size"] = l, !["land_copies"] = c,
                                            !["birth_ec"] = b]
        PROVE  col \in [Schema!Groups -> {"missing", "old", "new"}] /\ OldOnly(col)
    <2>1. Schema!Missing \in [Schema!Groups -> {"missing"}]
      BY DEF Schema!Missing
    <2>2. QED
      BY <1>1, <2>1, PartsAssumption DEF OldOnly, Retyped
  <1>2. ASSUME col = Schema!Missing \/ col = Schema!New
        PROVE  col \in [Schema!Groups -> {"missing", "old", "new"}] /\ OldOnly(col)
    BY <1>2 DEF OldOnly, Schema!Missing, Schema!New
  <1>3. col \in [Schema!Groups -> {"missing", "old", "new"}] /\ OldOnly(col)
    BY <1>1, <1>2 DEF Schema!Init, Schema!Older
  <1>4. Schema!Missing \in [Schema!Groups -> {"missing", "old", "new"}] /\ OldOnly(Schema!Missing)
    BY DEF Schema!Missing, OldOnly
  <1>5. Schema!TypeOK
    <2>1. col \in [Schema!Groups -> {"missing", "old", "new"}] /\ tables \in BOOLEAN
      BY <1>3 DEF Schema!Init
    <2>2. pos \in [Procs -> 0 .. 14] /\ stage \in [Procs -> {"cli", "boot", "serving"}]
          /\ fresh \in [Procs -> BOOLEAN] /\ crashes \in 0 .. MaxCrashes
      BY PartsAssumption DEF Schema!Init
    <2>3. \A p \in Procs : view[p] \in [Schema!Groups -> {"missing", "old", "new"}]
      BY <1>4 DEF Schema!Init
    <2>4. QED
      BY <2>1, <2>2, <2>3, ScriptIs DEF Schema!TypeOK
  <1>6. \A p \in Procs : /\ TablesSeen(p) /\ OldOnly(view[p]) /\ Migrated(view[p], pos[p])
                         /\ stage[p] = "serving" => pos[p] = 0
    BY <1>4, ScriptIs DEF Schema!Init, TablesSeen, Migrated
  <1>7. Schema!ServesCurrentSchema
    BY DEF Schema!Init, Schema!ServesCurrentSchema
  <1>8. QED
    <2>1. view \in [Procs -> [Schema!Groups -> {"missing", "old", "new"}]]
      BY <1>4 DEF Schema!Init
    <2>2. QED
      BY <2>1, <1>3, <1>5, <1>6, <1>7 DEF SchemaInv

\* A step of p leaves the others where they were.
LEMMA OneMoves ==
    ASSUME SchemaInv, NEW p \in Procs,
           col' \in [Schema!Groups -> {"missing", "old", "new"}], OldOnly(col'),
           tables' \in BOOLEAN, tables => tables',
           stage' \in [Procs -> {"cli", "boot", "serving"}], pos' \in [Procs -> 0 .. 14],
           view' \in [Procs -> [Schema!Groups -> {"missing", "old", "new"}]],
           fresh' \in [Procs -> BOOLEAN], crashes' \in 0 .. MaxCrashes,
           \A q \in Procs \ {p} : /\ pos'[q] = pos[q] /\ stage'[q] = stage[q]
                                  /\ view'[q] = view[q] /\ fresh'[q] = fresh[q],
           TablesSeen(p)', OldOnly(view'[p]), Migrated(view'[p], pos'[p]),
           stage'[p] = "serving" => pos'[p] = 0,
           Schema!ServesCurrentSchema'
    PROVE  SchemaInv'
  <1>1. Schema!TypeOK'
    BY ScriptIs DEF Schema!TypeOK
  <1>2. ASSUME NEW q \in Procs, q # p
        PROVE  /\ TablesSeen(q)' /\ OldOnly(view'[q]) /\ Migrated(view'[q], pos'[q])
               /\ stage'[q] = "serving" => pos'[q] = 0
    BY <1>2 DEF SchemaInv, TablesSeen
  <1>3. \A q \in Procs : /\ TablesSeen(q)' /\ OldOnly(view'[q]) /\ Migrated(view'[q], pos'[q])
                         /\ stage'[q] = "serving" => pos'[q] = 0
    BY <1>2
  <1>4. QED
    BY <1>1, <1>3 DEF SchemaInv

\* A failed statement leaves nothing behind.
LEMMA FailHolds ==
    ASSUME SchemaInv, NEW p \in Procs, stage[p] # "serving", Schema!Fail(p),
           UNCHANGED <<col, tables, view, fresh, crashes>>
    PROVE  SchemaInv'
  <1>0. /\ col \in [Schema!Groups -> {"missing", "old", "new"}] /\ tables \in BOOLEAN
        /\ stage \in [Procs -> {"cli", "boot", "serving"}] /\ pos \in [Procs -> 0 .. 14]
        /\ view \in [Procs -> [Schema!Groups -> {"missing", "old", "new"}]]
        /\ fresh \in [Procs -> BOOLEAN] /\ crashes \in 0 .. MaxCrashes
    BY ScriptIs DEF SchemaInv, Schema!TypeOK
  <1>1. /\ stage' \in [Procs -> {"cli", "boot", "serving"}] /\ stage'[p] \in {"cli", "boot"}
        /\ pos' \in [Procs -> 0 .. 14] /\ pos'[p] = 0
        /\ \A q \in Procs \ {p} : pos'[q] = pos[q] /\ stage'[q] = stage[q]
    BY <1>0 DEF Schema!Fail
  <1>2. TablesSeen(p)' /\ Migrated(view'[p], pos'[p])
    BY <1>1, ScriptIs DEF TablesSeen, Migrated
  <1>3. OldOnly(col') /\ OldOnly(view'[p])
    BY DEF SchemaInv
  <1>4. Schema!ServesCurrentSchema'
    BY <1>1 DEF SchemaInv, Schema!ServesCurrentSchema
  <1>5. QED
    BY <1>0, <1>1, <1>2, <1>3, <1>4, OneMoves

LEMMA SchemaStep == SchemaInv /\ Schema!Next => SchemaInv'
  <1> SUFFICES ASSUME SchemaInv, NEW p \in Procs, Schema!Step(p) \/ Schema!Crash(p)
               PROVE  SchemaInv'
    BY DEF Schema!Next
  <1>0. /\ col \in [Schema!Groups -> {"missing", "old", "new"}] /\ tables \in BOOLEAN
        /\ stage \in [Procs -> {"cli", "boot", "serving"}] /\ pos \in [Procs -> 0 .. 14]
        /\ view \in [Procs -> [Schema!Groups -> {"missing", "old", "new"}]]
        /\ fresh \in [Procs -> BOOLEAN] /\ crashes \in 0 .. MaxCrashes
        /\ OldOnly(col) /\ OldOnly(view[p]) /\ Migrated(view[p], pos[p])
        /\ TablesSeen(p) /\ Schema!ServesCurrentSchema
    BY ScriptIs DEF SchemaInv, Schema!TypeOK
  <1>1. CASE Schema!Look(p)
    <2>1. /\ pos' \in [Procs -> 0 .. 14] /\ pos'[p] = 1 /\ fresh'[p] = ~tables
          /\ \A q \in Procs \ {p} : pos'[q] = pos[q] /\ fresh'[q] = fresh[q]
          /\ fresh' \in [Procs -> BOOLEAN] /\ stage[p] # "serving"
          /\ UNCHANGED <<col, tables, stage, view, crashes>>
      BY <1>0, <1>1 DEF Schema!Look
    <2>2. TablesSeen(p)' /\ Migrated(view'[p], pos'[p])
      BY <2>1, ScriptIs DEF TablesSeen, Migrated
    <2>3. OldOnly(col') /\ OldOnly(view'[p]) /\ Schema!ServesCurrentSchema'
      BY <1>0, <2>1 DEF Schema!ServesCurrentSchema
    <2>4. QED
      BY <1>0, <2>1, <2>2, <2>3, OneMoves
  <1>2. CASE Schema!CreateTables(p) /\ fresh[p] /\ tables
    BY <1>2, FailHolds DEF Schema!CreateTables
  <1>3. CASE Schema!CreateTables(p) /\ ~fresh[p]
    <2>1. /\ pos' \in [Procs -> 0 .. 14] /\ pos'[p] = 2 /\ pos[p] = 1
          /\ \A q \in Procs \ {p} : pos'[q] = pos[q]
          /\ UNCHANGED <<col, tables, stage, view, fresh, crashes>> /\ stage[p] # "serving"
      BY <1>0, <1>3 DEF Schema!CreateTables
    <2>2. TablesSeen(p)' /\ Migrated(view'[p], pos'[p])
      BY <1>0, <1>3, <2>1, ScriptIs DEF TablesSeen, Migrated
    <2>3. OldOnly(col') /\ OldOnly(view'[p]) /\ Schema!ServesCurrentSchema'
      BY <1>0, <2>1 DEF Schema!ServesCurrentSchema
    <2>4. QED
      BY <1>0, <2>1, <2>2, <2>3, OneMoves
  <1>4. CASE Schema!CreateTables(p) /\ fresh[p] /\ ~tables
    <2>1. /\ pos' \in [Procs -> 0 .. 14] /\ pos'[p] = 2 /\ tables'
          /\ \A q \in Procs \ {p} : pos'[q] = pos[q]
          /\ UNCHANGED <<stage, view, fresh, crashes>> /\ stage[p] # "serving"
          /\ col' = [Schema!New EXCEPT !["dedup"] = "missing"]
      BY <1>0, <1>4 DEF Schema!CreateTables
    <2>2. col' \in [Schema!Groups -> {"missing", "old", "new"}] /\ OldOnly(col')
      BY <2>1 DEF Schema!New, OldOnly
    <2>3. Schema!ServesCurrentSchema'
      BY <1>4, <2>1 DEF SchemaInv, TablesSeen, Schema!ServesCurrentSchema
    <2>4. TablesSeen(p)' /\ Migrated(view'[p], pos'[p]) /\ OldOnly(view'[p])
      BY <1>0, <2>1, ScriptIs DEF TablesSeen, Migrated
    <2>5. tables' \in BOOLEAN
      BY <1>4 DEF Schema!CreateTables
    <2>6. QED
      BY <1>0, <2>1, <2>2, <2>3, <2>4, <2>5, OneMoves
  <1>5. CASE Schema!Begin(p)
    <2>1. /\ pos' \in [Procs -> 0 .. 14] /\ pos'[p] = 3 /\ pos[p] = 2
          /\ \A q \in Procs \ {p} : pos'[q] = pos[q] /\ view'[q] = view[q]
          /\ view' \in [Procs -> [Schema!Groups -> {"missing", "old", "new"}]]
          /\ UNCHANGED <<col, tables, stage, fresh, crashes>> /\ stage[p] # "serving"
          /\ view'[p] = col
      BY <1>0, <1>5 DEF Schema!Begin
    <2>2. TablesSeen(p)' /\ Migrated(view'[p], pos'[p])
      BY <1>0, <2>1, ScriptIs DEF TablesSeen, Migrated
    <2>3. OldOnly(col') /\ OldOnly(view'[p]) /\ Schema!ServesCurrentSchema'
      BY <1>0, <2>1 DEF Schema!ServesCurrentSchema
    <2>4. QED
      BY <1>0, <2>1, <2>2, <2>3, OneMoves
  <1>6. CASE Schema!Migrate(p) /\ ~Schema!Runs(Schema!Script[pos[p] - 2], view[p])
    <2>1. pos[p] # 0
      BY <1>0, <1>6 DEF Schema!Migrate
    <2>2. stage[p] # "serving"
      BY <2>1 DEF SchemaInv
    <2>3. QED
      BY <1>6, <2>2, FailHolds DEF Schema!Migrate
  <1>7. CASE Schema!Migrate(p) /\ Schema!Runs(Schema!Script[pos[p] - 2], view[p])
    <2>1. PICK k \in 1 .. 11 : pos[p] = k + 2
      <3>1. pos[p] - 2 \in 1 .. 11
        BY <1>0, <1>7, ScriptIs DEF Schema!Migrate
      <3>2. QED
        BY <1>0, <3>1
    <2>2. PICK s : s = Schema!Script[k]
      OBVIOUS
    <2>3. pos[p] - 2 = k
      BY <2>1
    <2>4. Schema!After(s, view[p]) \in [Schema!Groups -> {"missing", "old", "new"}]
      BY <1>0, AfterKeeps
    <2>5. /\ view' = [view EXCEPT ![p] = Schema!After(s, @)] /\ pos' = [pos EXCEPT ![p] = @ + 1]
          /\ UNCHANGED <<col, tables, stage, fresh, crashes>>
      BY <1>7, <2>2, <2>3 DEF Schema!Migrate
    <2>6. /\ pos' \in [Procs -> 0 .. 14] /\ pos'[p] = k + 3
          /\ \A q \in Procs \ {p} : pos'[q] = pos[q] /\ view'[q] = view[q]
          /\ view'[p] = Schema!After(s, view[p])
          /\ view' \in [Procs -> [Schema!Groups -> {"missing", "old", "new"}]]
      BY <1>0, <2>1, <2>4, <2>5
    <2>7. OldOnly(view'[p])
      BY <1>0, <2>6, AfterKeeps
    <2>8. Migrated(view'[p], pos'[p])
      <3> SUFFICES ASSUME NEW j \in 1 .. 11, k + 3 > j + 2
                   PROVE  /\ \A g \in Schema!Script[j].adds : view'[p][g] # "missing"
                          /\ \A g \in Schema!Script[j].retypes : view'[p][g] # "old"
        BY <2>6, ScriptIs DEF Migrated
      <3>1. Schema!Script[j].adds \subseteq Schema!Groups
            /\ Schema!Script[j].retypes \subseteq Schema!Groups
        BY ScriptIs
      <3>2. CASE j = k
        BY <1>0, <2>2, <2>6, <3>1, <3>2, AfterKeeps
      <3>3. CASE j # k
        <4>1. pos[p] > j + 2
          BY <2>1, <3>3
        <4>2. /\ \A g \in Schema!Script[j].adds : view[p][g] # "missing"
              /\ \A g \in Schema!Script[j].retypes : view[p][g] # "old"
          BY <1>0, <4>1, ScriptIs DEF Migrated
        <4>3. QED
          BY <1>0, <2>6, <3>1, <4>2, AfterKeeps
      <3>4. QED
        BY <3>2, <3>3
    <2>9. TablesSeen(p)' /\ Schema!ServesCurrentSchema' /\ OldOnly(col')
      BY <1>0, <2>1, <2>5 DEF TablesSeen, Schema!ServesCurrentSchema
    <2>10. stage'[p] # "serving"
      BY <2>1, <2>5 DEF SchemaInv
    <2>11. QED
      BY <1>0, <2>5, <2>6, <2>7, <2>8, <2>9, <2>10, OneMoves
  <1>8. CASE Schema!Commit(p)
    <2>1. /\ pos' \in [Procs -> 0 .. 14] /\ pos'[p] = 0 /\ pos[p] = 14
          /\ \A q \in Procs \ {p} : pos'[q] = pos[q] /\ stage'[q] = stage[q]
          /\ UNCHANGED <<tables, view, fresh, crashes>> /\ col' = view[p]
          /\ stage' \in [Procs -> {"cli", "boot", "serving"}]
      BY <1>0, <1>8, ScriptIs DEF Schema!Commit
    <2>2. col' = Schema!New
      BY <1>0, <2>1, ScriptCompletes
    <2>3. TablesSeen(p)' /\ Migrated(view'[p], pos'[p]) /\ OldOnly(view'[p])
      BY <1>0, <2>1, ScriptIs DEF TablesSeen, Migrated
    <2>4. OldOnly(col') /\ col' \in [Schema!Groups -> {"missing", "old", "new"}]
      BY <2>2 DEF OldOnly, Schema!New
    <2>5. Schema!ServesCurrentSchema'
      BY <2>2 DEF Schema!ServesCurrentSchema, Schema!New
    <2>6. QED
      BY <1>0, <2>1, <2>3, <2>4, <2>5, OneMoves
  <1>9. CASE Schema!Crash(p)
    <2>1. /\ pos' \in [Procs -> 0 .. 14] /\ pos'[p] = 0 /\ stage'[p] = "cli"
          /\ \A q \in Procs \ {p} : pos'[q] = pos[q] /\ stage'[q] = stage[q]
          /\ UNCHANGED <<col, tables, view, fresh>>
          /\ stage' \in [Procs -> {"cli", "boot", "serving"}]
      BY <1>0, <1>9 DEF Schema!Crash
    <2>2. crashes' \in 0 .. MaxCrashes
      BY <1>0, <1>9, PartsAssumption DEF Schema!Crash
    <2>3. TablesSeen(p)' /\ Migrated(view'[p], pos'[p]) /\ OldOnly(col') /\ OldOnly(view'[p])
      BY <1>0, <2>1, ScriptIs DEF TablesSeen, Migrated
    <2>4. Schema!ServesCurrentSchema'
      BY <1>0, <2>1 DEF Schema!ServesCurrentSchema
    <2>5. QED
      BY <1>0, <2>1, <2>2, <2>3, <2>4, OneMoves
  <1>10. QED
    BY <1>0, <1>1, <1>2, <1>3, <1>4, <1>5, <1>6, <1>7, <1>8, <1>9 DEF Schema!Step,
       Schema!CreateTables

-----------------------------------------------------------------------------
(* The parts whose proofs stand in a module of their own: what is said here *)
(* of their constants and variables is what is said there.                  *)

FP == INSTANCE FarmerPartsProofs WITH Farmers <- Registered, Nobody <- NULL, tx <- htx

HeadsInv == FP!Inductive /\ FP!Naming

LEMMA HeadsApart == FP!NullsApart
  BY PartsAssumption DEF FP!NullsApart, FP!Rows, Heads!Rows, FP!Writes, Heads!Writes

LEMMA HeadsStart == Heads!Init => HeadsInv
  <1>1. Heads!Init => FP!Init
    BY DEF Heads!Init, FP!Init
  <1> QED
    BY <1>1, HeadsApart, FP!InitHolds, FP!NamingStart DEF HeadsInv

LEMMA HeadsStep ==
    ASSUME HeadsInv, Heads!Next \/ UNCHANGED heads
    PROVE  HeadsInv'
  <1>1. Heads!Next => FP!Next
    BY Zenon DEF Heads!Next, FP!Next, Heads!Begin, FP!Begin, Heads!CreateHousehold,
       FP!CreateHousehold,
       Heads!Hook, FP!Hook, Heads!Demote, FP!Demote, Heads!Commit, FP!Commit,
       Heads!Abort, FP!Abort, Heads!Overtaken, FP!Overtaken,
       Heads!IngestHousehold, FP!IngestHousehold, Heads!Restart, FP!Restart,
       Heads!Rows, FP!Rows, Heads!Open, FP!Open, Heads!Live, FP!Live, Heads!Heads, FP!Heads,
       Heads!Arrives, FP!Arrives, Heads!LockedBy, FP!LockedBy, Heads!LockedFor, FP!LockedFor,
       Heads!Unborn, FP!Unborn, Heads!Demoted, FP!Demoted, Heads!NewHeadName, FP!NewHeadName,
       Heads!Ranked, FP!Ranked
  <1>2. [FP!Next]_FP!vars
    BY <1>1 DEF heads, FP!vars
  <1> QED
    BY <1>2, HeadsApart, FP!StepHolds, FP!NamingStep DEF HeadsInv

LEMMA HeadsSound == ASSUME HeadsInv PROVE Heads!TypeOK /\ Heads!OneHead /\ Heads!HeadNamed
  <1>1. FP!OneHead
    BY HeadsApart, FP!OneHeadHolds DEF HeadsInv
  <1>2. \A S : FP!Cardinality(S) = Heads!Cardinality(S)
    BY DEF FP!Cardinality, Heads!Cardinality
  <1>3. Heads!OneHead
    BY <1>1, <1>2 DEF FP!OneHead, Heads!OneHead, FP!Heads, Heads!Heads, FP!Live, Heads!Live
  <1>4. Heads!TypeOK /\ Heads!HeadNamed
    BY DEF HeadsInv, FP!Naming, FP!HeadNamed, Heads!HeadNamed, FP!Heads, Heads!Heads, FP!Live,
       Heads!Live, FP!Inductive, FP!RowType, FP!TxType, FP!HomeType, Heads!TypeOK, FP!Rows, Heads!Rows,
       FP!Writes, Heads!Writes, FP!TypeOK
  <1> QED
    BY <1>3, <1>4

LEMMA ScansStart == Scans!Init => FP!Scan!Inductive
  <1>1. Scans!Init => FP!Scan!Init
    BY DEF Scans!Init, FP!Scan!Init, Scans!Nothing, FP!Scan!Nothing
  <1> QED
    BY <1>1, FP!ScanInitHolds

LEMMA ScansStep ==
    ASSUME FP!Scan!Inductive, Scans!Next \/ UNCHANGED scans
    PROVE  FP!Scan!Inductive'
  <1>0. \A c \in Criteria : FP!Scan!Pairs(c) = Scans!Pairs(c)
    <2>1. \A S : FP!Scan!Cardinality(S) = Scans!Cardinality(S)
      BY DEF FP!Scan!Cardinality, Scans!Cardinality
    <2> QED
      BY <2>1, Zenon DEF FP!Scan!Pairs, Scans!Pairs
  <1>1. ASSUME Scans!Next PROVE FP!Scan!Next
    <2>1. ASSUME NEW q \in Requests, NEW c \in Criteria, Scans!Match(q, c)
          PROVE  FP!Scan!Next
      BY <1>0, <2>1 DEF Scans!Match, FP!Scan!Match, FP!Scan!Next
    <2>2. CASE \/ \E f \in Registered, c \in Criteria, v \in Values \cup {NULL} : Scans!Edit(f, c, v)
               \/ \E q \in Requests, k \in {"fresh", "add", "reset"} : Scans!Start(q, k)
               \/ \E q \in Requests : \/ Scans!ResetFlags(q) \/ Scans!DeleteResults(q)
                                      \/ Scans!Mark(q) \/ Scans!Commit(q)
      BY <2>2, Zenon DEF FP!Scan!Next, Scans!Edit, FP!Scan!Edit, Scans!Start,
         FP!Scan!Start, Scans!ResetFlags,
         FP!Scan!ResetFlags, Scans!DeleteResults, FP!Scan!DeleteResults, Scans!Mark, FP!Scan!Mark,
         Scans!Commit, FP!Scan!Commit, Scans!Locked, FP!Scan!Locked, Scans!Writing, FP!Scan!Writing,
         Scans!Nothing, FP!Scan!Nothing, Scans!request, FP!Scan!request
    <2> QED
      BY <1>1, <2>1, <2>2, Zenon DEF Scans!Next
  <1>2. [FP!Scan!Next]_FP!Scan!vars
    BY <1>1 DEF scans, FP!Scan!vars, FP!Scan!request
  <1> QED
    BY <1>2, FP!ScanStepHolds

LEMMA ScansSound == ASSUME FP!Scan!Inductive PROVE Scans!TypeOK /\ Scans!PairsFlagged
  BY DEF FP!Scan!Inductive, FP!Scan!TypeOK, FP!Scan!PairsFlagged, Scans!TypeOK,
     Scans!PairsFlagged,
     FP!Scan!Results, Scans!Results, FP!Scan!Flags, Scans!Flags, FP!Scan!Steps, Scans!Steps

\* The rows of the registry: the operators of a load are those of the proofs.
LEMMA SeedsInit == Seeds!Init => FP!Seeds!Init
  BY DEF Seeds!Init, FP!Seeds!Init

LEMMA AsSeqSame == \A S : FP!Seeds!AsSeq(S) = Seeds!AsSeq(S)
  BY DEF FP!Seeds!AsSeq, Seeds!AsSeq, FP!Seeds!Before, Seeds!Before,
     FP!Seeds!Cardinality, Seeds!Cardinality

LEMMA SeedsPeople ==
    /\ FP!Seeds!Individuals = Seeds!Individuals /\ FP!Seeds!Households = Seeds!Households
    /\ FP!Seeds!Loaded = Seeds!Loaded
  <1>0. FP!Seeds!PackHomes = Seeds!PackHomes
    BY DEF FP!Seeds!PackHomes, Seeds!PackHomes
  <1>1. FP!Seeds!Individuals = Seeds!Individuals /\ FP!Seeds!Households = Seeds!Households
    BY <1>0, AsSeqSame, Zenon DEF FP!Seeds!Individuals, Seeds!Individuals, FP!Seeds!Households,
       Seeds!Households, FP!Seeds!Records, Seeds!Records, FP!Seeds!Rec, Seeds!Rec
  <1> QED
    BY <1>1, Zenon DEF FP!Seeds!Loaded, Seeds!Loaded, FP!Seeds!ToSet, Seeds!ToSet

LEMMA TablesSame == FP!Seeds!Tables = Seeds!Tables
  BY Zenon DEF FP!Seeds!Tables, Seeds!Tables, FP!Seeds!Member, Seeds!Member,
     FP!Seeds!Fixture, Seeds!Fixture, FP!Seeds!Csv, Seeds!Csv, FP!Seeds!Row, Seeds!Row,
     FP!Seeds!Rec, Seeds!Rec

LEMMA OutsideSame == \A k : FP!Seeds!Outside(k) = Seeds!Outside(k)
  <1>1. FP!Seeds!Fixtures = Seeds!Fixtures
    <2>1. \A s : FP!Seeds!ToSet(s) = Seeds!ToSet(s)
      BY DEF FP!Seeds!ToSet, Seeds!ToSet
    <2>2. {FP!Seeds!ToSet(FP!Seeds!Tables[t]) : t \in DOMAIN FP!Seeds!Tables}
            = {Seeds!ToSet(Seeds!Tables[t]) : t \in DOMAIN Seeds!Tables}
      BY TablesSame, <2>1
    <2> QED
      BY <2>2 DEF FP!Seeds!Fixtures, Seeds!Fixtures
  <1>2. FP!Seeds!OwnIds = Seeds!OwnIds
    BY <1>1, Zenon DEF FP!Seeds!OwnIds, Seeds!OwnIds
  <1> QED
    BY <1>1, <1>2, Zenon DEF FP!Seeds!Outside, Seeds!Outside

LEMMA OntoSame == \A o, n : FP!Seeds!Onto(o, n) = Seeds!Onto(o, n)
  <1> SUFFICES ASSUME NEW o, NEW n PROVE FP!Seeds!Onto(o, n) = Seeds!Onto(o, n)
    OBVIOUS
  <1> DEFINE at(x) == Seeds!Cardinality(Seeds!Before(o \ Seeds!Loaded, x))
             at2(x) == FP!Seeds!Cardinality(FP!Seeds!Before(o \ FP!Seeds!Loaded, x))
  <1>1. \A x : at2(x) = at(x)
    <2>1. o \ FP!Seeds!Loaded = o \ Seeds!Loaded
      BY SeedsPeople
    <2>2. \A S, x : FP!Seeds!Cardinality(FP!Seeds!Before(S, x))
                      = Seeds!Cardinality(Seeds!Before(S, x))
      BY DEF FP!Seeds!Before, Seeds!Before, FP!Seeds!Cardinality, Seeds!Cardinality
    <2> QED
      BY <2>1, <2>2
  <1> DEFINE D == {l \in o : n # <<>>}
  <1>2. Seeds!Onto(o, n) = [x \in D |-> IF x \in Seeds!Loaded THEN x ELSE n[(at(x) % Len(n)) + 1]]
    BY DEF Seeds!Onto
  <1>3. FP!Seeds!Onto(o, n) =
            [x \in D |-> IF x \in FP!Seeds!Loaded THEN x ELSE n[(at2(x) % Len(n)) + 1]]
    BY DEF FP!Seeds!Onto
  <1> HIDE DEF at, at2, D
  <1>4. FP!Seeds!Loaded = Seeds!Loaded
    BY SeedsPeople
  <1>5. FP!Seeds!Onto(o, n) =
            [x \in D |-> IF x \in Seeds!Loaded THEN x ELSE n[(at(x) % Len(n)) + 1]]
    BY <1>1, <1>3, <1>4
  <1> QED
    BY <1>2, <1>5

LEMMA RemapSame == FP!Seeds!Remap = Seeds!Remap
  BY OntoSame, SeedsPeople, OutsideSame, Zenon DEF FP!Seeds!Remap, Seeds!Remap,
     FP!Seeds!Joined, Seeds!Joined

LEMMA LinksSame == \A t, r : FP!Seeds!RemapLinks(t, r) = Seeds!RemapLinks(t, r)
  BY Zenon DEF FP!Seeds!RemapLinks, Seeds!RemapLinks, FP!Seeds!Mapped, Seeds!Mapped,
     FP!Seeds!OnePerRecord, Seeds!OnePerRecord

LEMMA AttachedSame == \A r : FP!Seeds!Attached(r) = Seeds!Attached(r)
  BY LinksSame, TablesSame, SeedsPeople, Zenon DEF FP!Seeds!Attached, Seeds!Attached,
     FP!Seeds!Mapped, Seeds!Mapped

LEMMA NewRowsSame == FP!Seeds!NewRows = Seeds!NewRows
  <1>1. FP!Seeds!Attached(FP!Seeds!Remap) = Seeds!Attached(Seeds!Remap)
    BY RemapSame, AttachedSame
  <1>2. \A f, g : FP!Seeds!Joined(f, g) = Seeds!Joined(f, g)
    BY DEF FP!Seeds!Joined, Seeds!Joined
  <1>3. FP!Seeds!Loaded = Seeds!Loaded
    BY SeedsPeople
  <1>4. \A r : FP!Seeds!HomeOf(r) = Seeds!HomeOf(r)
    BY Zenon DEF FP!Seeds!HomeOf, Seeds!HomeOf, FP!Seeds!PackHomes, Seeds!PackHomes,
       FP!Seeds!Csv, Seeds!Csv, FP!Seeds!Rec, Seeds!Rec
  <1>5. [r \in FP!Seeds!Loaded |-> IF r.kind = "person" THEN FP!Seeds!HomeOf(r) ELSE NULL]
          = [r \in Seeds!Loaded |-> IF r.kind = "person" THEN Seeds!HomeOf(r) ELSE NULL]
    BY <1>3, <1>4
  <1> QED
    BY <1>1, <1>2, <1>5 DEF FP!Seeds!NewRows, Seeds!NewRows

LEMMA BulkSame == FP!Seeds!BulkRows = Seeds!BulkRows
  BY Zenon DEF FP!Seeds!BulkRows, Seeds!BulkRows, FP!Seeds!Bulk, Seeds!Bulk,
     FP!Seeds!Rec, Seeds!Rec

LEMMA SeedsNext == Seeds!Next => FP!Seeds!Next
  <1>1. /\ FP!Seeds!units = Seeds!units /\ FP!Seeds!country = Seeds!country
        /\ FP!Seeds!registry = Seeds!registry /\ FP!Seeds!images = Seeds!images
    BY DEF FP!Seeds!units, Seeds!units, FP!Seeds!country, Seeds!country,
       FP!Seeds!registry, Seeds!registry, FP!Seeds!images, Seeds!images
  <1>2. Seeds!LoadSampleData => FP!Seeds!LoadSampleData
    <2>1. \A f, g : FP!Seeds!Inserted(f, g) = Seeds!Inserted(f, g)
      BY DEF FP!Seeds!Inserted, Seeds!Inserted, FP!Seeds!Joined, Seeds!Joined
    <2>2. FP!Seeds!ToSet(FP!Seeds!Individuals) = Seeds!ToSet(Seeds!Individuals)
      BY SeedsPeople, Zenon DEF FP!Seeds!ToSet, Seeds!ToSet
    <2>3. FP!Seeds!SamplePeople = Seeds!SamplePeople
      BY DEF FP!Seeds!SamplePeople, Seeds!SamplePeople
    <2>4. \A r : FP!Seeds!FrId(r) = Seeds!FrId(r) /\ FP!Seeds!QueueId(r) = Seeds!QueueId(r)
      BY DEF FP!Seeds!FrId, Seeds!FrId, FP!Seeds!QueueId, Seeds!QueueId
    <2>5. {FP!Seeds!QueueId(r) : r \in FP!Seeds!Loaded} = {Seeds!QueueId(r) : r \in Seeds!Loaded}
      BY SeedsPeople, <2>4
    <2> QED
      BY NewRowsSame, <2>1, <2>2, <2>3, <2>4, <2>5 DEF FP!Seeds!LoadSampleData,
         Seeds!LoadSampleData, FP!Seeds!units, Seeds!units, FP!Seeds!country,
         Seeds!country, FP!Seeds!images, Seeds!images
  <1>3. ASSUME \/ Seeds!LoadGeo \/ (\E u, p \in DOMAIN Seed : Seeds!Reparent(u, p))
               \/ (\E n \in People : Seeds!Publish(n))
               \/ Seeds!Upload \/ Seeds!CatalogueImages
        PROVE  FP!Seeds!Next
    BY <1>1, <1>3, Zenon DEF FP!Seeds!Next, FP!Seeds!LoadGeo, Seeds!LoadGeo,
       FP!Seeds!RepairMissingParents, Seeds!RepairMissingParents, FP!Seeds!Reparent,
       Seeds!Reparent, FP!Seeds!Publish, Seeds!Publish, FP!Seeds!Upload, Seeds!Upload,
       FP!Seeds!CatalogueImages, Seeds!CatalogueImages, FP!Seeds!Fresh, Seeds!Fresh,
       FP!Seeds!Catalogued, Seeds!Catalogued, FP!Seeds!Csv, Seeds!Csv, FP!Seeds!Rec,
       Seeds!Rec, FP!Seeds!units, Seeds!units, FP!Seeds!country, Seeds!country,
       FP!Seeds!registry, Seeds!registry, FP!Seeds!images, Seeds!images
  <1>4. Seeds!Generate \/ Seeds!Purge => FP!Seeds!Generate \/ FP!Seeds!Purge
    <2>1. FP!Seeds!Seeded = Seeds!Seeded /\ \A k : FP!Seeds!Bulk(k) = Seeds!Bulk(k)
      BY DEF FP!Seeds!Seeded, Seeds!Seeded, FP!Seeds!Bulk, Seeds!Bulk, FP!Seeds!Rec,
         Seeds!Rec
    <2>2. Seeds!Copied => FP!Seeds!Copied
      BY BulkSame DEF FP!Seeds!Copied, Seeds!Copied, FP!Seeds!Joined, Seeds!Joined
    <2>3. FP!Seeds!Purged = Seeds!Purged
      BY <2>1, Zenon DEF FP!Seeds!Purged, Seeds!Purged, FP!Seeds!Children, Seeds!Children
    <2> QED
      BY <2>1, <2>2, <2>3 DEF FP!Seeds!Generate, Seeds!Generate, FP!Seeds!Purge,
         Seeds!Purge, FP!Seeds!units, Seeds!units, FP!Seeds!country, Seeds!country,
         FP!Seeds!registry, Seeds!registry, FP!Seeds!images, Seeds!images
  <1> QED
    BY <1>2, <1>3, <1>4, Zenon DEF Seeds!Next, FP!Seeds!Next

LEMMA SeedsVars == UNCHANGED seeds => UNCHANGED FP!Seeds!vars
  BY DEF seeds, FP!Seeds!vars, FP!Seeds!units, FP!Seeds!country, FP!Seeds!registry,
     FP!Seeds!images

\* What the proofs say of the rows is what the registry means.
LEMMA SeedsSays ==
  /\ FP!Seeds!LinksHold => Seeds!LinksHold
  /\ FP!Seeds!OneRowEach => Seeds!OneRowEach
  /\ FP!Seeds!Repeatable => Seeds!Repeatable
  <1>1. FP!Seeds!LinksHold => Seeds!LinksHold
    BY DEF FP!Seeds!LinksHold, Seeds!LinksHold, FP!Seeds!KindOfLink, Seeds!KindOfLink
  <1>2. FP!Seeds!OneRowEach => Seeds!OneRowEach
    BY DEF FP!Seeds!OneRowEach, Seeds!OneRowEach
  <1>3. FP!Seeds!Repeatable => Seeds!Repeatable
    <2>1. \A f, g : FP!Seeds!Inserted(f, g) = Seeds!Inserted(f, g)
      BY DEF FP!Seeds!Inserted, Seeds!Inserted, FP!Seeds!Joined, Seeds!Joined
    <2>2. \A r : FP!Seeds!QueueId(r) = Seeds!QueueId(r)
      BY DEF FP!Seeds!QueueId, Seeds!QueueId
    <2>3. {FP!Seeds!QueueId(r) : r \in FP!Seeds!Loaded} = {Seeds!QueueId(r) : r \in Seeds!Loaded}
      BY SeedsPeople, <2>2
    <2> QED
      BY NewRowsSame, <2>1, <2>3 DEF FP!Seeds!Repeatable, Seeds!Repeatable
  <1> QED
    BY <1>1, <1>2, <1>3

LEMMA RowsStart == Seeds!Init => FP!RowsInv
  <1>1. FP!Homed
    <2>1. FP!Seeds!PackHomes = Seeds!PackHomes
      BY DEF FP!Seeds!PackHomes, Seeds!PackHomes
    <2>2. IsFiniteSet(Seeds!PackHomes) => FP!IsFiniteSet(Seeds!PackHomes)
      BY DEF IsFiniteSet, FP!IsFiniteSet
    <2> QED
      BY PartsAssumption, <2>1, <2>2 DEF FP!Homed
  <1> QED
    BY <1>1, SeedsInit, FP!RowsStart

LEMMA RowsKeep ==
    ASSUME FP!RowsInv, Seeds!Next \/ UNCHANGED seeds
    PROVE  FP!RowsInv'
  <1>1. FP!NoBulk /\ People \subseteq Nat
    BY BulkSame, PartsAssumption DEF FP!NoBulk, FP!Bulks
  <1>2. FP!Seeds!Next \/ UNCHANGED FP!Seeds!vars
    BY SeedsNext, SeedsVars
  <1> QED
    BY <1>1, <1>2, FP!RowsStep

LEMMA RowsSay ==
    ASSUME FP!RowsInv
    PROVE  Seeds!LinksHold /\ Seeds!OneRowEach /\ Seeds!Repeatable
  BY FP!RowsSound, SeedsSays

\* Whatever the units: the places depend on their parents and names alone.
LEMMA PlacesSay ==
  ASSUME Places!TypeOK PROVE Places!PlacesHold
  <1>1. FP!Places!TypeOK
    BY DEF FP!Places!TypeOK, Places!TypeOK, FP!Places!Nodes, Places!Nodes,
       FP!Places!Root, Places!Root
  <1>2. FP!Places!PlacesHold
    BY <1>1, PartsAssumption, FP!PlacesHoldFromType DEF FP!Sizes
  <1>3. /\ FP!Places!Nodes = Places!Nodes /\ FP!Places!Root = Places!Root
        /\ FP!Places!Missing = Places!Missing /\ FP!Places!Slug = Places!Slug
    BY DEF FP!Places!Nodes, Places!Nodes, FP!Places!Root, Places!Root, FP!Places!Missing,
       Places!Missing, FP!Places!Slug, Places!Slug
  <1>4. \A s : /\ FP!Places!ToSet(s) = Places!ToSet(s) /\ FP!Places!Last(s) = Places!Last(s)
              /\ FP!Places!IsInjective(s) = Places!IsInjective(s)
    BY DEF FP!Places!ToSet, Places!ToSet, FP!Places!Last, Places!Last,
       FP!Places!IsInjective, Places!IsInjective
  <1>5. \A p : FP!Places!HierarchyFromPcode(p) = Places!HierarchyFromPcode(p)
    BY Zenon DEF FP!Places!HierarchyFromPcode, Places!HierarchyFromPcode,
       FP!Places!Longer, Places!Longer, FP!Places!Nodes, Places!Nodes, FP!Places!ToSet,
       Places!ToSet
  <1>6. \A p, n : FP!Places!GeoIndex(p, n) = Places!GeoIndex(p, n)
    BY Zenon DEF FP!Places!GeoIndex, Places!GeoIndex, FP!Places!Nodes, Places!Nodes,
       FP!Places!Missing, Places!Missing, FP!Places!Max, Places!Max
  <1>7. \A n : FP!Places!Followed(n) = Places!Followed(n)
    BY Zenon DEF FP!Places!Followed, Places!Followed, FP!Places!Root, Places!Root,
       FP!Places!GeoIndex, Places!GeoIndex, FP!Places!Nodes, Places!Nodes,
       FP!Places!Missing, Places!Missing, FP!Places!Max, Places!Max
  <1>8. \A n : FP!Places!ResolveGeoChain(n) = Places!ResolveGeoChain(n)
    BY <1>3, <1>7 DEF FP!Places!ResolveGeoChain, Places!ResolveGeoChain
  <1>9. \A n : FP!Places!GeoIds(n) = Places!GeoIds(n)
    BY <1>3, <1>8 DEF FP!Places!GeoIds, Places!GeoIds
  <1>10. \A r : /\ FP!Places!GeoLowestId(r) = Places!GeoLowestId(r)
               /\ FP!Places!GeoHierarchy(r) = Places!GeoHierarchy(r)
    BY <1>3, <1>4, <1>5, <1>9 DEF FP!Places!GeoLowestId, Places!GeoLowestId,
       FP!Places!GeoHierarchy, Places!GeoHierarchy
  <1>11. \A u : FP!Places!InRing(u) = Places!InRing(u)
    BY Zenon DEF FP!Places!InRing, Places!InRing, FP!Places!Nodes, Places!Nodes,
       FP!Places!Root, Places!Root
  <1>12. \A c : FP!Places!Linked(c) = Places!Linked(c)
    BY Zenon DEF FP!Places!Linked, Places!Linked
  <1>13. FP!Places!Records = Places!Records
    BY <1>3 DEF FP!Places!Records, Places!Records
  <1>14. FP!Places!Places(Places!Nodes) = Places!Places(Places!Nodes)
    BY <1>5, <1>11 DEF FP!Places!Places, Places!Places
  <1>15. ASSUME NEW r \in Places!Records
         PROVE  LET h == Places!GeoHierarchy(r)  low == Places!GeoLowestId(r) IN
          \/ Places!ToSet(h) \subseteq {Places!Slug} /\ low \notin Places!Nodes
          \/ /\ Places!Last(h) = low /\ h = Places!HierarchyFromPcode(low)
             /\ Places!Linked(h) /\ Places!IsInjective(h)
             /\ parent[Head(h)] = Places!Root \/ (r.pcode # Places!Missing /\ Places!InRing(low))
             /\ r.pcode = Places!Missing => Len(h) = Depth
    BY <1>2, <1>3, <1>4, <1>5, <1>10, <1>11, <1>12, <1>13 DEF FP!Places!PlacesHold
  <1>16. \A c \in Places!Places(Places!Nodes) :
             c # <<>> /\ parent[Head(c)] = Places!Root /\ Places!Linked(c)
    BY <1>2, <1>3, <1>12, <1>14 DEF FP!Places!PlacesHold
  <1> QED
    BY <1>15, <1>16 DEF Places!PlacesHold

-----------------------------------------------------------------------------
(* The registry: a part that is not shown has nothing to hold, and the      *)
(* steps of the others leave it alone.                                      *)

NoFarmer == draft = Absent /\ farmer = Absent

RegistryInv ==
    /\ focus \in Parts
    /\ IF focus = "boot" THEN Inductive ELSE NoFarmer
    /\ focus = "heads" => HeadsInv
    /\ focus = "lands" => RollupInv /\ Rollup!TypeOK
    /\ focus = "phones" => PhonesInv
    /\ focus = "scans" => FP!Scan!Inductive
    /\ focus = "calendar" => DatesInv
    /\ focus = "forms" => FormsInv
    /\ focus = "screen" => ScreenInv /\ ScreenTyped
    /\ focus = "seeds" => SeedsInv /\ FP!RowsInv
    /\ focus = "places" => Places!TypeOK
    /\ focus = "parcels" => ParcelsInv
    /\ focus = "codes" => CodesInv
    /\ focus = "schema" => SchemaInv

LEMMA RegistryStarts == RegistryInit => RegistryInv
  <1> SUFFICES ASSUME RegistryInit PROVE RegistryInv
    OBVIOUS
  <1> USE DEF RegistryInit
  <1>1. IF focus = "boot" THEN Inductive ELSE NoFarmer
    BY InitInductive DEF NoFarmer
  <1>2. focus = "heads" => HeadsInv
    BY HeadsStart
  <1>3. focus = "lands" => RollupInv /\ Rollup!TypeOK
    BY RollupStarts
  <1>4. focus = "phones" => PhonesInv
    BY PhonesStart
  <1>5. focus = "scans" => FP!Scan!Inductive
    BY ScansStart
  <1>6. focus = "calendar" => DatesInv
    BY DatesStart, AnchorsAreDays
  <1>7. focus = "forms" => FormsInv
    BY FormsStart
  <1>8. focus = "screen" => ScreenInv /\ ScreenTyped
    BY ScreenStart, TypedStart
  <1>9. focus = "seeds" => SeedsInv /\ FP!RowsInv
    BY SeedsStart, RowsStart
  <1>10. focus = "places" => Places!TypeOK
    BY PlacesStart
  <1>11. focus = "parcels" => ParcelsInv
    BY ParcelsStart
  <1>12. focus = "codes" => CodesInv
    BY CodesStart
  <1>13. focus = "schema" => SchemaInv
    BY SchemaStart
  <1>14. focus \in Parts
    OBVIOUS
  <1> QED
    BY Zenon, <1>1, <1>2, <1>3, <1>4, <1>5, <1>6, <1>7, <1>8, <1>9, <1>10, <1>11, <1>12,
       <1>13, <1>14
       DEF RegistryInv

\* What a step of the registry is for the part that is shown.
LEMMA PartSteps ==
    ASSUME [RegistryNext]_all
    PROVE  /\ focus' = focus
           /\ focus = "boot" => [Next]_vars
           /\ focus # "boot" => UNCHANGED vars
           /\ focus = "heads" => Heads!Next \/ UNCHANGED heads
           /\ focus = "lands" => Rollup!Next \/ UNCHANGED lands
           /\ focus = "phones" => Phones!Next \/ UNCHANGED phones
           /\ focus = "scans" => Scans!Next \/ UNCHANGED scans
           /\ focus = "calendar" => Dates!Next \/ UNCHANGED calendar
           /\ focus = "forms" => Forms!Next \/ UNCHANGED forms
           /\ focus = "screen" => Screen!Next \/ UNCHANGED screen
           /\ focus = "seeds" => Seeds!Next \/ UNCHANGED seeds
           /\ focus = "places" => Places!Next \/ UNCHANGED places
           /\ focus = "parcels" => Parcels!Next \/ UNCHANGED parcels
           /\ focus = "codes" => Codes!Next \/ UNCHANGED codes
           /\ focus = "schema" => Schema!Next \/ UNCHANGED schema
  <1>1. CASE RegistryNext
    <2>1. /\ focus = "boot" => Next
          /\ focus = "heads" => Heads!Next
          /\ focus = "lands" => Rollup!Next
          /\ focus = "phones" => Phones!Next
          /\ focus = "scans" => Scans!Next
          /\ focus = "calendar" => Dates!Next
          /\ focus = "forms" => Forms!Next
      BY <1>1, Zenon DEF RegistryNext
    <2>2. /\ focus = "screen" => Screen!Next
          /\ focus = "seeds" => Seeds!Next
          /\ focus = "places" => Places!Next
          /\ focus = "parcels" => Parcels!Next
          /\ focus = "codes" => Codes!Next
          /\ focus = "schema" => Schema!Next
      BY <1>1, Zenon DEF RegistryNext
    <2>3. focus # "boot" => UNCHANGED vars
      <3>1. focus \in {"heads", "lands", "phones"} => UNCHANGED vars
        BY <1>1 DEF RegistryNext
      <3>2. focus \in {"scans", "calendar", "forms"} => UNCHANGED vars
        BY <1>1 DEF RegistryNext
      <3>3. focus \in {"screen", "seeds", "places"} => UNCHANGED vars
        BY <1>1 DEF RegistryNext
      <3>4. focus \in {"parcels", "codes", "schema"} => UNCHANGED vars
        BY <1>1 DEF RegistryNext
      <3>5. focus \in Parts
        BY <1>1, Zenon DEF RegistryNext, Parts
      <3> QED
        BY <3>1, <3>2, <3>3, <3>4, <3>5 DEF Parts
    <2>4. focus' = focus
      BY <1>1, Zenon DEF RegistryNext
    <2>5. focus = "boot" => [Next]_vars
      BY <2>1, Zenon
    <2>6. /\ focus = "heads" => Heads!Next \/ UNCHANGED heads
          /\ focus = "lands" => Rollup!Next \/ UNCHANGED lands
          /\ focus = "phones" => Phones!Next \/ UNCHANGED phones
          /\ focus = "scans" => Scans!Next \/ UNCHANGED scans
          /\ focus = "calendar" => Dates!Next \/ UNCHANGED calendar
          /\ focus = "forms" => Forms!Next \/ UNCHANGED forms
      BY <2>1, Zenon
    <2>7. /\ focus = "screen" => Screen!Next \/ UNCHANGED screen
          /\ focus = "seeds" => Seeds!Next \/ UNCHANGED seeds
          /\ focus = "places" => Places!Next \/ UNCHANGED places
          /\ focus = "parcels" => Parcels!Next \/ UNCHANGED parcels
          /\ focus = "codes" => Codes!Next \/ UNCHANGED codes
          /\ focus = "schema" => Schema!Next \/ UNCHANGED schema
      BY <2>2, Zenon
    <2> QED
      BY <2>3, <2>4, <2>5, <2>6, <2>7, Zenon
  <1>2. CASE UNCHANGED all
    BY <1>2 DEF all
  <1> QED
    BY <1>1, <1>2

LEMMA SchemaKeeps ==
    ASSUME SchemaInv, Schema!Next \/ UNCHANGED schema
    PROVE  SchemaInv'
  <1>1. ASSUME UNCHANGED schema PROVE SchemaInv'
    BY <1>1 DEF schema, SchemaInv, Schema!TypeOK, Schema!ServesCurrentSchema, OldOnly,
       TablesSeen, Migrated
  <1> QED
    BY <1>1, SchemaStep

LEMMA PhonesKeep ==
    ASSUME PhonesInv, Phones!Next \/ UNCHANGED phones
    PROVE  PhonesInv'
  <1>1. ASSUME UNCHANGED phones PROVE PhonesInv'
    <2>1. phone' = phone /\ json' = json /\ ptx' = ptx /\ stale' = stale /\ clash' = clash
      BY <1>1 DEF phones
    <2>2. ASSUME NEW t \in Real \cup {0}, ptx'[t] # NULL PROVE Written(ptx[t])'
      <3>1. Written(ptx[t])
        BY <2>1, <2>2 DEF PhonesInv
      <3>2. Faithful(ptx[t])' <=> Faithful(ptx[t])
        BY <2>1 DEF Faithful, Phones!Seen, AtMostOne, Phones!Projection, Phones!Live,
           Phones!Primaries
      <3> QED
        BY <2>1, <3>1, <3>2 DEF Written, SomeRows, Phones!Table
    <2>3. Phones!ProjectionFollows' /\ AtMostOne(phone)' = AtMostOne(phone)
      BY <2>1 DEF PhonesInv, Phones!ProjectionFollows, Phones!Projection, Phones!Live,
         AtMostOne,
         Phones!Primaries
    <2> QED
      BY <2>1, <2>2, <2>3 DEF PhonesInv, Phones!Table
  <1> QED
    BY <1>1, PhonesStep

LEMMA PhonesSound ==
    ASSUME PhonesInv
    PROVE  Phones!TypeOK /\ Phones!OnePrimary /\ Phones!ProjectionFollows
  <1>1. ASSUME NEW t \in Real \cup {0}, ptx[t] # NULL
        PROVE  /\ DOMAIN ptx[t].writes \subseteq Phones!Ids /\ Phones!Table(ptx[t].json)
               /\ ptx[t].latest \in BOOLEAN /\ ptx[t].chosen \in BOOLEAN
    BY <1>1 DEF PhonesInv, Written, SomeRows
  <1>2. Phones!TypeOK
    BY <1>1 DEF PhonesInv, PhoneRow, Phones!TypeOK
  <1> QED
    BY <1>2, PrimariesCounted DEF PhonesInv, Phones!OnePrimary

LEMMA RegistryStep == RegistryInv /\ [RegistryNext]_all => RegistryInv'
  <1> SUFFICES ASSUME RegistryInv, [RegistryNext]_all
               PROVE  RegistryInv'
    OBVIOUS
  <1> USE PartSteps DEF RegistryInv
  <1>1. IF focus = "boot" THEN Inductive' ELSE NoFarmer'
    BY StepInductive DEF NoFarmer, vars
  <1>2. focus = "heads" => HeadsInv'
    BY HeadsStep
  <1>3. focus = "lands" => RollupInv' /\ Rollup!TypeOK'
    BY RollupKeeps
  <1>4. focus = "phones" => PhonesInv'
    BY PhonesKeep
  <1>5. focus = "scans" => FP!Scan!Inductive'
    BY ScansStep
  <1>6. focus = "calendar" => DatesInv'
    BY DatesStep
  <1>7. focus = "forms" => FormsInv'
    BY FormsStep
  <1>8. focus = "screen" => ScreenInv' /\ ScreenTyped'
    BY ScreenKeeps
  <1>9. focus = "seeds" => SeedsInv' /\ FP!RowsInv'
    BY SeedsStep, RowsKeep
  <1>10. focus = "places" => Places!TypeOK'
    BY PlacesStep
  <1>11. focus = "parcels" => ParcelsInv'
    BY ParcelsStep
  <1>12. focus = "codes" => CodesInv'
    BY CodesStep
  <1>13. focus = "schema" => SchemaInv'
    BY SchemaKeeps
  <1>14. focus' = focus /\ focus \in Parts
    OBVIOUS
  <1> QED
    BY Zenon, <1>1, <1>2, <1>3, <1>4, <1>5, <1>6, <1>7, <1>8, <1>9, <1>10, <1>11, <1>12,
       <1>13, <1>14

\* The invariant of the registry, from which the theorems below follow.
LEMMA RegistryHolds == RegistrySpec => []RegistryInv
  BY RegistryStarts, RegistryStep, PTL DEF RegistrySpec

-----------------------------------------------------------------------------
\* Every part keeps the types of its own variables, whatever the instances.
THEOREM PartsTyped == RegistrySpec => []PartTypeOK
  <1>1. RegistryInv => PartTypeOK
    <2> SUFFICES ASSUME RegistryInv PROVE PartTypeOK
      OBVIOUS
    <2> USE DEF RegistryInv
    <2>1. focus = "boot" => TypeOK
      BY DEF Inductive
    <2>2. focus = "heads" => Heads!TypeOK
      BY HeadsSound
    <2>3. focus = "phones" => Phones!TypeOK
      BY PhonesSound
    <2>4. focus = "scans" => Scans!TypeOK
      BY ScansSound
    <2>5. focus = "calendar" => Dates!TypeOK
      BY DatesSound
    <2>6. focus = "forms" => Forms!TypeOK
      BY FormsHold
    <2>7. focus = "screen" => Screen!TypeOK
      BY ScreenSound
    <2>8. focus = "seeds" => Seeds!TypeOK
      BY SeedsHold
    <2>9. focus = "parcels" => Parcels!TypeOK
      BY ParcelsHold
    <2>10. focus = "codes" => Codes!TypeOK
      BY CodesSound
    <2>11. focus = "schema" => Schema!TypeOK
      BY DEF SchemaInv
    <2>12. (focus = "lands" => Rollup!TypeOK) /\ (focus = "places" => Places!TypeOK)
      OBVIOUS
    <2>13. focus \in Parts
      OBVIOUS
    <2>14. focus \in {"boot", "heads", "lands", "phones", "scans", "calendar", "forms"} => PartTypeOK
      BY Zenon, <2>1, <2>2, <2>3, <2>4, <2>5, <2>6, <2>12 DEF PartTypeOK
    <2> QED
      BY Zenon, <2>7, <2>8, <2>9, <2>10, <2>11, <2>12, <2>13, <2>14 DEF PartTypeOK, Parts
  <1> QED
    BY <1>1, RegistryHolds, PTL

\* Migrations, boots, ingestion and approvals, in any order, lose and overwrite
\* no name (app.py:486-760).
THEOREM RegistryKeepsNames == RegistrySpec => []NamesKept
  <1>1. RegistryInv => NamesKept
    BY DEF RegistryInv, NoFarmer, Inductive, NamesKept
  <1> QED
    BY <1>1, RegistryHolds, PTL

\* Two boots are enough, whatever row, phones, copies and submissions they find:
\* the statements of a third change nothing.
THEOREM RegistryBootsSettle == RegistrySpec => []BootsSettle
  <1>1. RegistryInv => BootsSettle
    <2> SUFFICES ASSUME RegistryInv PROVE BootsSettle
      OBVIOUS
    <2>1. Settles
      BY SettlesHold DEF RegistryInv, NoFarmer, Settles
    <2>2. focus = "phones" => Phones!PhonesSettle
      BY PhonesSettled DEF RegistryInv
    <2> QED
      BY <2>1, <2>2 DEF BootsSettle
  <1> QED
    BY <1>1, RegistryHolds, PTL

\* After a boot, a farmer entered at the staff portal is nobody's partner record.
THEOREM RegistryKeepsStaff == RegistrySpec => []StaffNotPartner
  <1>1. RegistryInv => StaffNotPartner
    BY DEF RegistryInv, NoFarmer, Inductive, StaffNotPartner
  <1> QED
    BY <1>1, RegistryHolds, PTL

\* For any number of farmers and homes: overlapping approvals and ingestions
\* leave a household one head, unless two arrived at once; and its row names that
\* head, unless a namesake's approval cleared the name or a head, having read its
\* own name there, left it to what another committed meanwhile.
THEOREM HouseholdsHaveOneHead == RegistrySpec => []OneHeadNamed
  <1>1. RegistryInv => OneHeadNamed
    BY HeadsSound DEF RegistryInv, OneHeadNamed
  <1> QED
    BY <1>1, RegistryHolds, PTL

\* For any lands and versions of them: once no transaction is open that began
\* before another's commit, the farmer's totals are the sums over the lands.
THEOREM RollupsFollowLands == RegistrySpec => []TotalsFollow
  <1>1. RegistryInv => TotalsFollow
    BY DEF RegistryInv, RollupInv, TotalsFollow, Rollup!TotalsFollow
  <1> QED
    BY <1>1, RegistryHolds, PTL

\* For any phone rows: one primary at most, and the farmer's row shows their
\* numbers, unless two transactions have overlapped.
THEOREM PhonesAlwaysAgree == RegistrySpec => []PhonesAgree
  <1>1. RegistryInv => PhonesAgree
    BY PhonesSound DEF RegistryInv, PhonesAgree
  <1> QED
    BY <1>1, RegistryHolds, PTL

\* For any farmers, criteria and overlapping requests: a stored pair of
\* duplicates names two farmers who are flagged.
THEOREM StoredPairsAreFlagged == RegistrySpec => []PairsFlagged
  <1>1. RegistryInv => PairsFlagged
    BY ScansSound DEF RegistryInv, PairsFlagged
  <1> QED
    BY <1>1, RegistryHolds, PTL

\* On every day from any common day of the two calendars on, server and browser
\* convert a date to the one the other calendar gives it, and back.
THEOREM CalendarsAlwaysAgree == RegistrySpec => []CalendarsAgree
  <1>1. RegistryInv => CalendarsAgree
    BY DatesSound DEF RegistryInv, CalendarsAgree
  <1> QED
    BY <1>1, RegistryHolds, PTL

\* However sections are saved, one by one or by import: two stored birth dates
\* name one day, an Age that the form filled in does not lock its section, a
\* land has one area in all its columns and its certificate is in storage.
THEOREM FormsAreSound == RegistrySpec => []FormsSound
  <1>1. RegistryInv => FormsSound
    BY FormsHold, ParcelsHold DEF RegistryInv, FormsSound
  <1> QED
    BY <1>1, RegistryHolds, PTL

\* What the browser lets pass the server accepts, on every day.
THEOREM BrowserNeverMisleads == RegistrySpec => []BrowserSound
  <1>1. RegistryInv => BrowserSound
    BY FormsHold DEF RegistryInv, BrowserSound
  <1> QED
    BY <1>1, RegistryHolds, PTL

\* For any number of edits, timers and uploads in flight: once the rules of the
\* intake screen have run, its dates agree and each row shows its own file.
THEOREM ScreenIsTruthful == RegistrySpec => []ScreenTruthful
  <1>1. RegistryInv => ScreenTruthful
    BY ScreenSound DEF RegistryInv, ScreenTruthful
  <1> QED
    BY <1>1, RegistryHolds, PTL

\* For any catalogue and any number of syncs that overlap or die: a merged list
\* has the codes of its release, each once; parents and photos that the seed
\* jobs name exist.
THEOREM MergesAreSound == RegistrySpec => []MergesSound
  <1>1. RegistryInv => MergesSound
    BY CodesSound, SeedsHold DEF RegistryInv, MergesSound
  <1> QED
    BY <1>1, RegistryHolds, PTL

\* Whoever is in the pack, and however often it has grown, loaded and been
\* purged: a row of the sample links to a record that is there, one row to each
\* where the fixtures have one, a second load does nothing, and the unit of a
\* record ends the path of units it is given (load_sample_data.py).
THEOREM SeedsAreSound == RegistrySpec => []SeedsSound
  <1>1. RegistryInv => SeedsSound
    BY RowsSay, PlacesSay DEF RegistryInv, SeedsSound
  <1> QED
    BY <1>1, RegistryHolds, PTL

\* For any number of containers that boot at once and die half-way: whoever
\* serves finds every column the models have, of the type they have.
THEOREM CurrentSchemaIsServed == RegistrySpec => []ServesCurrentSchema
  <1>1. RegistryInv => ServesCurrentSchema
    BY DEF RegistryInv, SchemaInv, ServesCurrentSchema
  <1> QED
    BY <1>1, RegistryHolds, PTL


=============================================================================
