--------------------------- MODULE BootMigration ---------------------------
(* What a boot of the farmer extension does to the rows of one farmer: the  *)
(* UPDATE statements of _migrate_extension_tables, in their order, between  *)
(* the other ways the rows change: a submission, its ingestion, an approved *)
(* change request, the seed.  Every boot runs all of them in a transaction  *)
(* whose first ALTER locks the table, so a boot is one step.                *)
(*                                                                          *)
(* draft   the intake row with the channel of its submission, or Absent     *)
(* farmer  the register row, or Absent; history: the source of its newest   *)
(*         change request                                                   *)
(* typed   what the row's author entered for the two names, and where       *)
(* booted  a boot has run since the register row exists                     *)
CONSTANTS
    Names,      \* names a person may have
    Blank,      \* NULL or the empty string
    Absent,     \* no such row
    Legacy      \* register rows an older release may have left

VARIABLES draft, farmer, history, typed, booted

vars == <<draft, farmer, history, typed, booted>>

Form == {"INTAKE_FORM", "STAFF_PORTAL", "AGENT_PORTAL", "BENEFICIARY_PORTAL"}
Sources == Form \cup {"PARTNER", "IMPORT_FILE"}
Channels == {"STAFF_PORTAL", "PARTNER"}
Authors == {"form", "partner", "file"}
AnyName == Names \cup {Blank}

\* region stands for the four projections of the hierarchy; local, found: the
\* row has local-script names, and its search text contains them; born, aged:
\* birth_date and estimated_age are set; clerk: enumerator and collection date.
Farmers == [state : {"APPROVED", Blank}, source : Sources \cup {Blank},
            middle : AnyName, father : AnyName, hierarchy : BOOLEAN,
            region : BOOLEAN, local : BOOLEAN, found : BOOLEAN,
            born : BOOLEAN, aged : BOOLEAN, clerk : BOOLEAN]
Drafts == [channel : Channels, middle : AnyName, father : AnyName]

ASSUME BlankAssumption == Blank \notin Names \cup {"APPROVED"} \cup Sources
ASSUME AbsentAssumption == Absent \notin Farmers \cup Drafts
ASSUME LegacyAssumption == Legacy \subseteq Farmers

----------------------------------------------------------------------------
(* The statements, each on a row it may or may not apply to. *)

RecoverRegion(r) == [r EXCEPT !.region = @ \/ r.hierarchy]

MarkApproved(r) == [r EXCEPT !.state = "APPROVED"]

\* The newest change request tells the source; the rest came from a file.
RecoverSource(r) ==
    [r EXCEPT !.source = IF @ # Blank THEN @
                         ELSE IF history # Blank THEN history
                         ELSE "IMPORT_FILE"]

AppendLocalNames(r) == [r EXCEPT !.found = @ \/ r.local]

\* Mutant of MoveMiddleName: a father's name that is there is overwritten.
MoveAlways(r) ==
    IF r.middle # Blank THEN [r EXCEPT !.father = r.middle, !.middle = Blank] ELSE r

\* The old form's mandatory middle name was the father's name.
MoveMiddleName(r) ==
    IF r.father = Blank /\ r.middle # Blank
    THEN [r EXCEPT !.father = r.middle, !.middle = Blank]
    ELSE r

MoveInRegister(r) == IF r.source \in Form THEN MoveMiddleName(r) ELSE r

FillAge(r) == [r EXCEPT !.aged = @ \/ r.born]

\* Mutant of ReadSubmission: the channel fills in a missing source only.
ReadWhenMissing(r) ==
    IF draft = Absent THEN r
    ELSE [r EXCEPT !.source = IF @ = Blank THEN draft.channel ELSE @, !.clerk = TRUE]

\* A submission from the staff portal is no partner's, and tells who took it.
ReadSubmission(r) ==
    IF draft = Absent THEN r
    ELSE [r EXCEPT !.source = IF @ = "PARTNER" /\ draft.channel = "STAFF_PORTAL"
                              THEN "INTAKE_FORM" ELSE @,
                   !.clerk = TRUE]

Boot(r) ==
    ReadSubmission(FillAge(MoveInRegister(AppendLocalNames(
        RecoverSource(MarkApproved(RecoverRegion(r)))))))

----------------------------------------------------------------------------
(* What happens between boots. *)

\* Intake rows carry no import_source, so a blank father's name is refused
\* from whoever sends the key; a partner may leave the key out.
Submit(c, m, f) ==
    /\ draft = Absent /\ farmer = Absent
    /\ c = "STAFF_PORTAL" => f # Blank
    /\ draft' = [channel |-> c, middle |-> m, father |-> f]
    /\ typed' = [middle |-> m, father |-> f,
                 by |-> IF c = "PARTNER" THEN "partner" ELSE "form"]
    /\ UNCHANGED <<farmer, history, booted>>

\* The approved intake row becomes the register row, and post_ingest reads
\* its source and its enumerator off the submission.
Ingest(b) ==
    /\ draft # Absent /\ farmer = Absent
    /\ farmer' = [state |-> "APPROVED",
                  source |-> IF draft.channel = "STAFF_PORTAL"
                             THEN "INTAKE_FORM" ELSE "PARTNER",
                  middle |-> draft.middle, father |-> draft.father,
                  hierarchy |-> b, region |-> b, local |-> b, found |-> b,
                  born |-> b, aged |-> b, clerk |-> TRUE]
    /\ UNCHANGED <<draft, history, typed, booted>>

\* An approved change request of the names section, or of another one.
Approve(s, m, f) ==
    /\ farmer # Absent
    /\ f # Blank
    /\ farmer' = [farmer EXCEPT !.state = "APPROVED", !.found = farmer.local,
                                !.source = IF @ = Blank THEN s ELSE @,
                                !.middle = m, !.father = f]
    /\ history' = s
    /\ typed' = [middle |-> m, father |-> f, by |-> "form"]
    /\ UNCHANGED <<draft, booted>>

ApproveOther(s) ==
    /\ farmer # Absent
    /\ farmer' = [farmer EXCEPT !.state = "APPROVED", !.found = farmer.local,
                                !.source = IF @ = Blank THEN s ELSE @]
    /\ history' = s
    /\ UNCHANGED <<draft, typed, booted>>

\* A sample person: imported, with the father's name in a column of its own.
SeedPerson(m, f) ==
    /\ draft = Absent /\ farmer = Absent
    /\ farmer' = [state |-> "APPROVED", source |-> "IMPORT_FILE",
                  middle |-> m, father |-> f, hierarchy |-> TRUE,
                  region |-> FALSE, local |-> FALSE, found |-> FALSE,
                  born |-> TRUE, aged |-> FALSE, clerk |-> FALSE]
    /\ typed' = [middle |-> m, father |-> f, by |-> "file"]
    /\ UNCHANGED <<draft, history, booted>>

\* Every statement, on the register row and on the intake row.
Restart ==
    /\ farmer' = IF farmer = Absent THEN Absent ELSE Boot(farmer)
    /\ draft' = IF draft = Absent THEN Absent ELSE MoveMiddleName(draft)
    /\ booted' = (farmer # Absent)
    /\ UNCHANGED <<history, typed>>

Next ==
    \/ \E c \in Channels, m \in AnyName, f \in AnyName : Submit(c, m, f)
    \/ \E b \in BOOLEAN : Ingest(b)
    \/ \E s \in {"STAFF_PORTAL", "PARTNER"}, m \in AnyName, f \in Names :
           Approve(s, m, f)
    \/ \E s \in {"STAFF_PORTAL", "PARTNER"} : ApproveOther(s)
    \/ \E m \in AnyName, f \in AnyName : SeedPerson(m, f)
    \/ Restart

----------------------------------------------------------------------------
\* Whoever wrote a row an older release left: its channel or its source tells.
AuthorOf(d, r) ==
    IF d # Absent THEN IF d.channel = "PARTNER" THEN "partner" ELSE "form"
    ELSE IF r.source \in Form THEN "form"
    ELSE IF r.source = "PARTNER" THEN "partner" ELSE "file"

\* Nothing yet, or a row of an older release, ingested or imported.
Init ==
    /\ booted = FALSE
    /\ history \in Form \cup {"PARTNER", Blank}
    /\ \/ /\ draft = Absent /\ farmer = Absent
          /\ typed = [middle |-> Blank, father |-> Blank, by |-> "form"]
       \/ /\ farmer \in Legacy
          /\ draft \in {Absent} \cup
                 {[channel |-> c, middle |-> farmer.middle,
                   father |-> farmer.father] : c \in Channels}
          /\ typed = [middle |-> farmer.middle, father |-> farmer.father,
                      by |-> AuthorOf(draft, farmer)]

Spec == Init /\ [][Next]_vars

----------------------------------------------------------------------------
TypeOK ==
    /\ draft \in Drafts \cup {Absent}
    /\ farmer \in Farmers \cup {Absent}
    /\ history \in Form \cup {"PARTNER", Blank}
    /\ typed \in [middle : AnyName, father : AnyName, by : Authors]
    /\ booted \in BOOLEAN

\* The names of a row are those its author entered, or the middle name has
\* taken the place of a father's name that was left out.
Entered(r) ==
    \/ r.middle = typed.middle /\ r.father = typed.father
    \/ typed.father = Blank /\ r.middle = Blank /\ r.father = typed.middle

\* No boot, ingestion or approval, in any order, drops or overwrites a name
\* that was entered.
NamesKept == farmer # Absent => Entered(farmer)

\* Workers boot one after another at every start.  The statements are not
\* idempotent together, because the source is corrected after the names that
\* depend on it; but a second boot always ends where every later one stays.
Settles == farmer # Absent => Boot(Boot(Boot(farmer))) = Boot(Boot(farmer))

\* Once a boot has seen it, a farmer who was registered at the staff portal is
\* never labelled a partner's record again, whatever is approved afterwards.
StaffNotPartner ==
    (booted /\ draft # Absent /\ draft.channel = "STAFF_PORTAL")
        => farmer.source # "PARTNER"

\* app.py:486: "for imports and partner feeds the source system decides what
\* middle_name means", so a partner's names stay as they were sent.
PartnerNamesKept ==
    (typed.by = "partner" /\ draft # Absent)
        => draft.middle = typed.middle /\ draft.father = typed.father

=============================================================================
