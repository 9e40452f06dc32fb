----------------------------- MODULE FormRules -----------------------------
(* What the domain services of the farmer extension make of a submitted     *)
(* section before the platform stores it: the farmer's own columns, section *)
(* by section, and the rows of the ID, crop, livestock and land tables.     *)
(* A record is a function over the keys that were sent; a rule maps it to   *)
(* the set of what is left of it, empty when the save is refused.  Dates    *)
(* are years, so a birthday passes with the year.                           *)
EXTENDS Integers, Sequences

CONSTANT Horizon  \* the last year of the walk

VARIABLES stored,  \* the columns of a farmer, as the platform wrote them
          today,   \* the year on the server
          filled   \* when a save last left Age blank beside a birth date

vars == <<stored, today, filled>>

None == -9   \* NULL, and the '' of a form
Wrong == -8  \* a text that is no value of the field
Unchosen == "blank"  \* the '' of a choice list

BirthKeys == {"birth_date", "birth_date_ec", "estimated_age"}
Sections == {BirthKeys, {"first_name"}, {"latitude"}, {"disabled"},
             {"geo_lowest_level_value_id", "region_name"}}
Columns == UNION Sections

\* Whether the key was sent; one that was not is not read as blank.
Sent(r, k) == k \in DOMAIN r
Get(r, k) == IF Sent(r, k) THEN r[k] ELSE None
With(r, k, v) == [x \in DOMAIN r \cup {k} |-> IF x = k THEN v ELSE r[x]]

----------------------------------------------------------------------------
\* The rules of the farmer, in their order.

\* Yes / No arrive as texts: "1" is 'true', "0" is 'false', 2 a real True.
AsBool(v) == IF v = None THEN None ELSE IF v = 0 THEN 0 ELSE 2
NormalizeBooleans(r) ==
    {IF Sent(r, "disabled") THEN With(r, "disabled", AsBool(r.disabled)) ELSE r}

NormalizeCoordinates(r) ==
    IF ~ Sent(r, "latitude") \/ Get(r, "latitude") \in {None} \cup -1..1 THEN {r} ELSE {}

\* A required name may be blank on the paths without an enumerator only.
ValidateNames(r, interactive) ==
    IF \/ ~ Sent(r, "first_name")
       \/ Get(r, "first_name") = None /\ ~ interactive
       \/ Get(r, "first_name") \notin {None, Wrong}
    THEN {r} ELSE {}

ValidateBirthDate(r) == IF Get(r, "birth_date") > today THEN {} ELSE {r}

\* Whichever date was filled derives the other; two that differ are refused.
SyncDates(r, gc, ec) ==
    CASE ~ Sent(r, gc) /\ ~ Sent(r, ec) -> {r}
      [] Get(r, ec) = Wrong -> {}
      [] Get(r, ec) \notin {None, Wrong} ->
            IF Get(r, gc) = None THEN {With(r, gc, r[ec])}
            ELSE IF r[gc] = r[ec] THEN {r} ELSE {}
      [] Get(r, ec) = None /\ Get(r, gc) # None -> {With(r, ec, r[gc])}
      [] OTHER -> {r}

Age(born) == today - born
PopulateAge(r) ==
    {IF Get(r, "birth_date") # None /\ Get(r, "estimated_age") = None
     THEN With(r, "estimated_age", Age(r.birth_date)) ELSE r}

\* Mutant of ValidateAge: no year to spare.
ValidateExactAge(r) ==
    IF \/ None \in {Get(r, "birth_date"), Get(r, "estimated_age")}
       \/ Get(r, "estimated_age") = Age(Get(r, "birth_date"))
    THEN {r} ELSE {}

ValidateAge(r) ==
    IF \/ Get(r, "birth_date") = None \/ Get(r, "estimated_age") = None
       \/ Get(r, "estimated_age") - Age(Get(r, "birth_date")) \in -1..1
    THEN {r} ELSE {}

\* The region is a projection of the chosen place: place n lies in region n.
SyncGeoNames(r) ==
    {IF Sent(r, "geo_lowest_level_value_id")
     THEN With(r, "region_name", r.geo_lowest_level_value_id) ELSE r}

Then(S, Rule(_)) == UNION {Rule(r) : r \in S}
Validated(r, interactive) ==
    LET Named(x) == ValidateNames(x, interactive)
        Dates(x) == SyncDates(x, "birth_date", "birth_date_ec")
        checked == Then(Then(NormalizeBooleans(r), NormalizeCoordinates), Named)
        dated == Then(Then(checked, ValidateBirthDate), Dates)
    IN Then(Then(Then(dated, PopulateAge), ValidateAge), SyncGeoNames)

----------------------------------------------------------------------------
\* The rows of a table section: [type, value, status, expiry, removed].
ActiveRecords(rows) == {i \in DOMAIN rows : ~ rows[i].removed}

\* Of the keys of the kept rows; a row that is not filled in has none.
RejectDuplicates(keys) ==
    \A i, j \in DOMAIN keys : i # j => keys[i] # keys[j] \/ keys[i] = <<>>

\* An ID: a value is <<digits, written with FAN- or not>>, <<>> when blank.
Prefixed(row) == row.value # <<>> /\ row.value[2]
IdKey(row) == IF row.type = Unchosen \/ row.value = <<>> THEN <<>> ELSE <<row.type, row.value[1]>>
ValueRequired(row) == row.type # Unchosen => row.value # <<>>
ValueFormat(row) ==
    row.value # <<>> =>
        /\ row.type = "UID" => row.value[1] \in {12, 16}
        /\ row.type = "RID" => row.value[1] = 29 /\ ~ Prefixed(row)
NotExpiredWhenValid(row) ==
    row.status = "VALID" => row.expiry = None \/ row.expiry >= today
RegIdsAccepted(rows) ==
    LET kept == ActiveRecords(rows) IN
    /\ \A i \in DOMAIN rows : ValueRequired(rows[i]) /\ ValueFormat(rows[i])
    /\ \A i \in kept : NotExpiredWhenValid(rows[i])
    /\ RejectDuplicates([i \in kept |-> IdKey(rows[i])])

\* Mutant of RowProblems: only the expiry is looked at.
ExpiryProblems(row, here) ==
    {p \in {"expired"} : row.status = "VALID" /\ row.expiry # None /\ row.expiry < here}

\* What the browser holds a row back for; its today may be a day ahead.
RowProblems(row, here) ==
    {p \in {"blank", "format", "expired"} :
        \/ p = "blank" /\ row.type # Unchosen /\ row.value = <<>>
        \/ /\ p = "format" /\ row.value # <<>>
           /\ \/ row.type = "UID" /\ row.value[1] \notin {12, 16}
              \/ row.type = "RID" /\ (row.value[1] # 29 \/ Prefixed(row))
        \/ /\ p = "expired" /\ row.status = "VALID"
           /\ row.expiry # None /\ row.expiry < here}

\* A crop is its commodity in a season; the form asks for both.
CropKey(row) == IF row.type = Unchosen THEN <<>> ELSE <<row.type, row.status>>
CropsAccepted(rows, interactive) ==
    LET kept == ActiveRecords(rows) IN
    /\ interactive => \A i \in kept : rows[i].type # Unchosen /\ rows[i].status # Unchosen
    /\ RejectDuplicates([i \in kept |-> CropKey(rows[i])])
CropProblems(row) == {f \in {"type", "status"} : row[f] = Unchosen}

----------------------------------------------------------------------------
Empty == [c \in Columns |-> None]
Init == stored = Empty /\ today = 2 /\ filled = None

\* A value the form or another sender may give a field.
ValuesFor(k) ==
    CASE k \in {"birth_date", "estimated_age"} -> {None} \cup 1..3
      [] k = "birth_date_ec" -> {None, Wrong} \cup 1..3
      [] k \in {"first_name", "latitude"} -> {None, Wrong, 0}
      [] OTHER -> {None, 1}

Records(keys) == {r \in [keys -> {None, Wrong} \cup 0..3] : \A k \in keys : r[k] \in ValuesFor(k)}

\* The platform writes every key of the record back, those the rules added
\* included, and no other.
Save(r, interactive) ==
    /\ \E v \in Validated(r, interactive) :
        stored' = [c \in Columns |-> IF c \in DOMAIN v THEN v[c] ELSE stored[c]]
    /\ filled' = IF \E k \in BirthKeys : Sent(r, k)
                 THEN IF /\ Sent(r, "estimated_age") /\ r.estimated_age = None
                         /\ stored'.birth_date \in 0..today THEN today ELSE None
                 ELSE filled
    /\ UNCHANGED today

\* The form sends a whole section, other paths any of its keys.
SaveSection == \E s \in Sections : \E r \in Records(s \ {"region_name"}) : Save(r, TRUE)
SavePart ==
    \E s \in Sections : \E keys \in (SUBSET (s \ {"region_name"})) \ {{}} :
        \E r \in Records(keys) : Save(r, FALSE)
Birthday == today < Horizon /\ today' = today + 1 /\ UNCHANGED <<stored, filled>>

Next == SaveSection \/ SavePart \/ Birthday

----------------------------------------------------------------------------
\* Every column holds a value of its kind.
TypeOK == stored \in [Columns -> -9..Horizon] /\ today \in 2..Horizon

\* sync_ethiopic_date_pair: two stored dates name one day, whatever keys
\* each of the saves before carried.
DatesAgree ==
    None \in {stored.birth_date, stored.birth_date_ec}
        \/ stored.birth_date = stored.birth_date_ec

\* _validate_estimated_age: the Age a save filled in does not keep the same
\* section from being saved again, this year or the next.
StaysSavable ==
    /\ filled # None /\ filled \in (today - 1)..today
    /\ DatesAgree /\ stored.birth_date_ec # None
    => Validated([k \in BirthKeys |-> stored[k]], TRUE) # {}

\* farmer-intake-rules.js: "an empty list is a row the server will accept on
\* these rules", while the browser may already be in the next day.
Rows == [type : {Unchosen, "UID", "RID", "ODK"}, value : {<<>>} \cup ({12, 16, 29} \X BOOLEAN),
         status : {"VALID", "INVALID"}, expiry : {None, today - 1, today, today + 1},
         removed : {FALSE}]
Crops == [type : {Unchosen, "TEFF"}, status : {Unchosen, "MEHER"}, removed : {FALSE}]
BrowserSound ==
    /\ \A row \in Rows, here \in {today, today + 1} :
        RowProblems(row, here) = {} => RegIdsAccepted(<<row>>)
    /\ \A row \in Crops : CropProblems(row) = {} => CropsAccepted(<<row>>, TRUE)
=============================================================================
