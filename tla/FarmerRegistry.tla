--------------------------- MODULE FarmerRegistry ---------------------------
(* The farmer extension, its seed jobs and its intake form, one part at a   *)
(* time: focus is the part whose steps a behaviour shows.  Each keeps other *)
(* columns of the register or none, so nothing is lost by not interleaving  *)
(* them.  The part "boot" is BootMigration, with this module's constants:   *)
(* its own invariants NamesKept, Settles and StaffNotPartner are about it.  *)
EXTENDS BootMigration, Integers, Sequences, FiniteSets

CONSTANTS
    NULL,                        \* nothing, and the state of a part not shown
    Registered, Homes,                                         \* HouseholdHeads
    Lands, Versions, Units,                                        \* LandRollup
    Minted, Real, Subscribers, Junk,                             \* FarmerPhones
    Criteria, Values, Requests,                                         \* Dedup
    Anchors, Span,                                                   \* Calendar
    Horizon,                                                        \* FormRules
    MaxTimers, MaxJobs, MaxRows,                                 \* IntakeScreen
    People, HomeIn, Seed, Leaves,                                  \* SampleData
    Size, Depth,                                                     \* GeoChain
    LandIds, ParcelUnits, Figures, MaxDocs,                        \* ParcelForm
    Lists, Normal, Syncs, Releases, Nameable,                         \* CodeLists
    Procs, LandSizes, MaxCrashes                                   \* BootSchema

VARIABLES
    focus,
    row, home, htx, exposed, unseated,                         \* HouseholdHeads
    land, total, ltx, overlapped,                                  \* LandRollup
    phone, json, ptx, stale, clash,                              \* FarmerPhones
    key, flag, results, kind, step, todo, found, wrote, deleted,        \* Dedup
    greg, eth, walked,                                               \* Calendar
    stored, today, filled,                                          \* FormRules
    part, box, auto, timers, flagged, jobs, photo, rows, names, dialog, pending,
    last, shown, removed,                                        \* IntakeScreen
    geo, chosen, complete, pack, spliced, links, queue, bucket, docs, portrait,
    source,                                                        \* SampleData
    parent, unit,                                                    \* GeoChain
    table, papers,                                                 \* ParcelForm
    value, active, offered, sync, merged, raced,                    \* CodeLists
    col, tables, stage, pos, view, fresh, crashes                 \* BootSchema

heads    == <<row, home, htx, exposed, unseated>>
lands    == <<land, total, ltx, overlapped>>
phones   == <<phone, json, ptx, stale, clash>>
scans    == <<key, flag, results, kind, step, todo, found, wrote, deleted>>
calendar == <<greg, eth, walked>>
forms    == <<stored, today, filled>>
screen   == <<part, box, auto, timers, flagged, jobs, photo, rows, names, dialog,
              pending, last, shown, removed>>
seeds    == <<geo, chosen, complete, pack, spliced, links, queue, bucket, docs,
              portrait, source>>
places   == <<parent, unit>>
parcels  == <<table, papers>>
codes    == <<value, active, offered, sync, merged, raced>>
schema   == <<col, tables, stage, pos, view, fresh, crashes>>
all      == <<focus, vars, heads, lands, phones, scans, calendar, forms, screen, seeds,
              places, parcels, codes, schema>>

Parts == {"boot", "heads", "lands", "phones", "scans", "calendar", "forms", "screen",
          "seeds", "places", "parcels", "codes", "schema"}

----------------------------------------------------------------------------
Heads == INSTANCE HouseholdHeads WITH
    Farmers <- Registered, Nobody <- NULL, tx <- htx

Rollup == INSTANCE LandRollup WITH tx <- ltx

Phones == INSTANCE FarmerPhones WITH tx <- ptx

Scans == INSTANCE Dedup WITH Farmers <- Registered

Dates == INSTANCE Calendar

Forms == INSTANCE FormRules

Screen == INSTANCE IntakeScreen

Seeds == INSTANCE SampleData WITH Nowhere <- NULL, rows <- links, photo <- portrait

Places == INSTANCE GeoChain WITH name <- unit

Parcels == INSTANCE ParcelForm WITH Units <- ParcelUnits, docs <- papers

Codes == INSTANCE CodeLists

Schema == INSTANCE BootSchema

ASSUME PartsAssumption ==
    /\ {Span, Horizon, MaxTimers, MaxJobs, MaxRows, MaxDocs, MaxCrashes} \subseteq Nat
    /\ Horizon >= 3
    /\ IsFiniteSet(Lands) /\ \A v \in Versions : Rollup!Hectares(v) \in Nat
    /\ Minted \subseteq Nat /\ Real \subseteq Nat /\ Minted \cap Real = {}
    /\ IsFiniteSet(Minted) /\ IsFiniteSet(Real)
    /\ NULL \notin Minted \cup Real \cup Phones!Rows
    /\ Registered \subseteq Nat /\ Absent \notin Names
    /\ NULL \notin Heads!Rows \cup Heads!Writes \cup Homes
    /\ NULL \notin DOMAIN Seed /\ People \subseteq Nat
    /\ Seeds!PackHomes \subseteq Nat /\ Seeds!PackHomes # {} /\ IsFiniteSet(Seeds!PackHomes)
    /\ NULL \notin DOMAIN Seeds!BulkRows
    /\ Size \in Nat /\ Depth \in Nat \ {0}
    /\ Lists \in Seq(Codes!AllLists) /\ Len(Lists) > 0
    /\ IsFiniteSet(DOMAIN Normal) /\ Nameable \subseteq Releases
    /\ LandSizes \subseteq {"missing", "old", "new"}
    /\ \A p \in Anchors : Dates!OneDay(p)
    /\ Figures \subseteq Nat
    /\ ParcelUnits \in [DOMAIN ParcelUnits -> Nat \ {0}]
    /\ "HECTARE" \in DOMAIN ParcelUnits /\ ParcelUnits["HECTARE"] = 1

----------------------------------------------------------------------------
\* A part that is not looked at has no state.
RegistryInit ==
    /\ focus \in Parts
    /\ IF focus = "boot" THEN Init
       ELSE draft = Absent /\ farmer = Absent /\ history = NULL /\ typed = NULL /\ booted = FALSE
    /\ IF focus = "heads" THEN Heads!Init
       ELSE row = NULL /\ home = NULL /\ htx = NULL /\ exposed = NULL /\ unseated = NULL
    /\ IF focus = "lands" THEN Rollup!Init
       ELSE land = NULL /\ total = NULL /\ ltx = NULL /\ overlapped = NULL
    /\ IF focus = "phones" THEN Phones!Init
       ELSE phone = NULL /\ json = NULL /\ ptx = NULL /\ stale = NULL /\ clash = NULL
    /\ IF focus = "scans" THEN Scans!Init
       ELSE /\ key = NULL /\ flag = NULL /\ results = NULL /\ kind = NULL /\ step = NULL
            /\ todo = NULL /\ found = NULL /\ wrote = NULL /\ deleted = NULL
    /\ IF focus = "calendar" THEN Dates!Init
       ELSE greg = NULL /\ eth = NULL /\ walked = NULL
    /\ IF focus = "forms" THEN Forms!Init
       ELSE stored = NULL /\ today = NULL /\ filled = NULL
    /\ IF focus = "screen" THEN Screen!Init
       ELSE /\ part = NULL /\ box = NULL /\ auto = NULL /\ timers = NULL /\ flagged = NULL
            /\ jobs = NULL /\ photo = NULL /\ rows = NULL /\ names = NULL /\ dialog = NULL
            /\ pending = NULL /\ last = NULL /\ shown = NULL /\ removed = NULL
    /\ IF focus = "seeds" THEN Seeds!Init
       ELSE /\ geo = NULL /\ chosen = NULL /\ complete = NULL /\ pack = NULL
            /\ spliced = NULL /\ links = NULL /\ queue = NULL /\ bucket = NULL
            /\ docs = NULL /\ portrait = NULL /\ source = NULL
    /\ IF focus = "places" THEN Places!Init ELSE parent = NULL /\ unit = NULL
    /\ IF focus = "parcels" THEN Parcels!Init ELSE table = NULL /\ papers = NULL
    /\ IF focus = "codes" THEN Codes!Init
       ELSE /\ value = NULL /\ active = NULL /\ offered = NULL /\ sync = NULL
            /\ merged = NULL /\ raced = NULL
    /\ IF focus = "schema" THEN Schema!Init
       ELSE /\ col = NULL /\ tables = NULL /\ stage = NULL /\ pos = NULL /\ view = NULL
            /\ fresh = NULL /\ crashes = NULL

RegistryNext ==
    /\ UNCHANGED focus
    /\ \/ /\ focus = "boot" /\ Next
          /\ UNCHANGED <<heads, lands, phones, scans, calendar, forms, screen, seeds,
                         places, parcels, codes, schema>>
       \/ /\ focus = "heads" /\ Heads!Next
          /\ UNCHANGED <<vars, lands, phones, scans, calendar, forms, screen, seeds,
                         places, parcels, codes, schema>>
       \/ /\ focus = "lands" /\ Rollup!Next
          /\ UNCHANGED <<vars, heads, phones, scans, calendar, forms, screen, seeds,
                         places, parcels, codes, schema>>
       \/ /\ focus = "phones" /\ Phones!Next
          /\ UNCHANGED <<vars, heads, lands, scans, calendar, forms, screen, seeds,
                         places, parcels, codes, schema>>
       \/ /\ focus = "scans" /\ Scans!Next
          /\ UNCHANGED <<vars, heads, lands, phones, calendar, forms, screen, seeds,
                         places, parcels, codes, schema>>
       \/ /\ focus = "calendar" /\ Dates!Next
          /\ UNCHANGED <<vars, heads, lands, phones, scans, forms, screen, seeds,
                         places, parcels, codes, schema>>
       \/ /\ focus = "forms" /\ Forms!Next
          /\ UNCHANGED <<vars, heads, lands, phones, scans, calendar, screen, seeds,
                         places, parcels, codes, schema>>
       \/ /\ focus = "screen" /\ Screen!Next
          /\ UNCHANGED <<vars, heads, lands, phones, scans, calendar, forms, seeds,
                         places, parcels, codes, schema>>
       \/ /\ focus = "seeds" /\ Seeds!Next
          /\ UNCHANGED <<vars, heads, lands, phones, scans, calendar, forms, screen,
                         places, parcels, codes, schema>>
       \/ /\ focus = "places" /\ Places!Next
          /\ UNCHANGED <<vars, heads, lands, phones, scans, calendar, forms, screen,
                         seeds, parcels, codes, schema>>
       \/ /\ focus = "parcels" /\ Parcels!Next
          /\ UNCHANGED <<vars, heads, lands, phones, scans, calendar, forms, screen,
                         seeds, places, codes, schema>>
       \/ /\ focus = "codes" /\ Codes!Next
          /\ UNCHANGED <<vars, heads, lands, phones, scans, calendar, forms, screen,
                         seeds, places, parcels, schema>>
       \/ /\ focus = "schema" /\ Schema!Next
          /\ UNCHANGED <<vars, heads, lands, phones, scans, calendar, forms, screen,
                         seeds, places, parcels, codes>>

RegistrySpec == RegistryInit /\ [][RegistryNext]_all

----------------------------------------------------------------------------
\* Every part keeps the types of its own variables.
PartTypeOK ==
    CASE focus = "boot"     -> TypeOK
      [] focus = "heads"    -> Heads!TypeOK
      [] focus = "lands"    -> Rollup!TypeOK
      [] focus = "phones"   -> Phones!TypeOK
      [] focus = "scans"    -> Scans!TypeOK
      [] focus = "calendar" -> Dates!TypeOK
      [] focus = "forms"    -> Forms!TypeOK
      [] focus = "screen"   -> Screen!TypeOK
      [] focus = "seeds"    -> Seeds!TypeOK
      [] focus = "places"   -> Places!TypeOK
      [] focus = "parcels"  -> Parcels!TypeOK
      [] focus = "codes"    -> Codes!TypeOK
      [] focus = "schema"   -> Schema!TypeOK

\* BootMigration, FarmerPhones: two boots are enough, for the farmer's row and
\* for the phone rows.
BootsSettle ==
    /\ Settles
    /\ focus = "phones" => Phones!PhonesSettle

\* HouseholdHeads: overlapping approvals and ingestions leave one head; the
\* household row names it, until a namesake's approval or a head that found its
\* own name there, waited and so left another's there, parts them.
OneHeadNamed == focus = "heads" => Heads!OneHead /\ Heads!HeadNamed

\* LandRollup: the farmer's totals are those of the lands in the register.
TotalsFollow == focus = "lands" => Rollup!TotalsFollow

\* FarmerPhones: one primary phone at most, and the numbers on the farmer's
\* row are those of the phone rows.
PhonesAgree == focus = "phones" => Phones!OnePrimary /\ Phones!ProjectionFollows

\* Dedup: a stored pair names flagged farmers, however requests overlap.
PairsFlagged == focus = "scans" => Scans!PairsFlagged

\* Calendar: server and browser give the day the calendars give.
CalendarsAgree == focus = "calendar" => Dates!CalendarsAgree

\* FormRules, ParcelForm: two stored dates name one day, an Age that was filled
\* in does not lock its section; a land has one area, and its certificate is in
\* storage.
FormsSound ==
    /\ focus = "forms" => Forms!DatesAgree /\ Forms!StaysSavable
    /\ focus = "parcels" => Parcels!AreasAgree /\ Parcels!CertificatesExist

\* FormRules: what the browser lets pass the server accepts.
BrowserSound == focus = "forms" => Forms!BrowserSound

\* IntakeScreen: once the rules have run, the two dates name one day, a row
\* shows the name of its own file, and a household whose counts do not add up
\* or which has more children than people is flagged.
ScreenTruthful == focus = "screen" => Screen!PairAgrees /\ Screen!OwnName /\ Screen!FamilyFlagged

\* SampleData, GeoChain: links hold, tables of one row per record keep one, a
\* second load changes nothing, and a record's place is the end of its hierarchy.
SeedsSound ==
    /\ focus = "seeds" => Seeds!LinksHold /\ Seeds!OneRowEach /\ Seeds!Repeatable
    /\ focus = "places" => Places!PlacesHold

\* CodeLists, SampleData: a list merged again and again, by syncs that overlap,
\* has the codes of the catalogue, each once; every row that a row names as its
\* parent is in the register, and every photo in the bucket.
MergesSound ==
    /\ focus = "codes" => Codes!ListsMerged
    /\ focus = "seeds" => Seeds!ParentsHold /\ Seeds!PhotosExist

\* BootSchema: a container that serves finds the schema of the models.
ServesCurrentSchema == focus = "schema" => Schema!ServesCurrentSchema

=============================================================================
