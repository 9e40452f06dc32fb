----------------------------- MODULE ParcelForm -----------------------------
(* The land table of a farmer's form.  Every save sends the whole table,    *)
(* the removed rows too; the land service takes row by row: an embedded     *)
(* certificate is uploaded in a transaction of its own, the area in         *)
(* hectares and the older pair of size and unit are aligned, and the first  *)
(* row that is refused ends the save.                                       *)
EXTENDS Integers, FiniteSets, FiniteSetsExt

CONSTANTS
    LandIds,    \* ids a row may have
    Units,      \* unit -> hectares of one, with "HECTARE" :> 1
    Figures,    \* numbers that are entered
    MaxDocs     \* bound on uploaded documents

VARIABLES table,  \* the land rows, as the platform stored them
          docs    \* documents 1..docs are in object storage

vars == <<table, docs>>

Rows == {1, 2}
None == -9      \* NULL, and the '' of a form
Wrong == -8     \* a text that is no number
File == -7      \* an embedded file
Broken == -6    \* an embedded file that cannot be decoded or is refused
Today == 1
NoRow == [id |-> None, size |-> None, unit |-> "HECTARE", area |-> None, cert |-> None,
          year |-> None, provided |-> FALSE, action |-> "NONE"]

AsNumber(v) == IF v = Wrong THEN None ELSE v

----------------------------------------------------------------------------
ActiveRows(t) == {i \in Rows : t[i] # NoRow /\ t[i].action # "DELETE"}
Duplicated(t) ==
    \E i, j \in ActiveRows(t) : i # j /\ t[i].id # None /\ t[i].id = t[j].id

\* The next document's id takes the place of the file.
PersistCertificate(r, n) == IF r.cert = File THEN [r EXCEPT !.cert = n + 1] ELSE r

Hectares(r) == r.size * Units[r.unit]

\* The area wins where both are there.
SynchronizeArea(r) ==
    LET area == AsNumber(r.area)  size == AsNumber(r.size) IN
    IF area # None THEN [r EXCEPT !.size = area, !.unit = "HECTARE"]
    ELSE IF size # None THEN [r EXCEPT !.area = size * Units[r.unit]] ELSE r

SynchronizeFlag(r) == [r EXCEPT !.provided = r.cert # None]
ValidSize(r) == AsNumber(r.size) = None \/ r.size > 0
ValidYear(r) == AsNumber(r.year) = None \/ r.year <= Today
NormalizeNumbers(r) ==
    [r EXCEPT !.size = AsNumber(r.size), !.area = AsNumber(r.area), !.year = AsNumber(r.year)]

Synchronized(r, n) == SynchronizeFlag(SynchronizeArea(PersistCertificate(r, n)))
Refuses(r) == r.cert = Broken \/ ~ValidSize(Synchronized(r, 0)) \/ ~ValidYear(r)
Uploads(t, upto) == Cardinality({i \in Rows : i <= upto /\ t[i].cert = File})
Validated(t, i) == NormalizeNumbers(Synchronized(t[i], docs + Uploads(t, i - 1)))

\* What was uploaded before a row was refused stays; a table that names a land
\* twice is refused before anything is uploaded.
ValidateAndSave(t) ==
    LET refusing == {i \in Rows : Refuses(t[i])} IN
    /\ ~Duplicated(t)
    /\ docs' = docs + Uploads(t, Min(refusing \cup {2}))
    /\ docs' <= MaxDocs
    /\ table' = IF refusing # {} THEN table ELSE
           [i \in Rows |-> IF i \in ActiveRows(t) THEN Validated(t, i) ELSE NoRow]

----------------------------------------------------------------------------
\* A row of an import or an older release has a size and a unit, no area.
Import(i, id, size, unit) ==
    /\ table[i] = NoRow
    /\ ValidateAndSave([table EXCEPT ![i] = [@ EXCEPT !.id = id, !.size = size, !.unit = unit]])

\* The form edits a row it shows, or a new one, and saves the table.
Edit(i, id, area, cert) ==
    ValidateAndSave([table EXCEPT ![i] =
        [@ EXCEPT !.id = id, !.area = area, !.cert = cert]])
Resize(i, size, unit) ==
    /\ table[i] # NoRow
    /\ ValidateAndSave([table EXCEPT ![i] = [@ EXCEPT !.size = size, !.unit = unit]])
Acquire(i, year) ==
    /\ table[i] # NoRow
    /\ ValidateAndSave([table EXCEPT ![i] = [@ EXCEPT !.year = year]])
\* A row is removed while another is given a certificate.
Remove(i, cert) ==
    /\ table[i] # NoRow
    /\ ValidateAndSave([j \in Rows |->
           IF j = i THEN [table[j] EXCEPT !.action = "DELETE"]
           ELSE IF table[j] = NoRow \/ cert = None THEN table[j]
           ELSE [table[j] EXCEPT !.cert = cert]])

Init == table = [i \in Rows |-> NoRow] /\ docs = 0

Numbers == Figures \cup {None, Wrong}
Next ==
    \/ \E i \in Rows, id \in LandIds, s \in Numbers, u \in DOMAIN Units : Import(i, id, s, u)
    \/ \E i \in Rows, id \in LandIds \cup {None}, a \in Numbers :
          \E c \in {table[i].cert, None, File, Broken} : Edit(i, id, a, c)
    \/ \E i \in Rows, s \in Numbers, u \in DOMAIN Units : Resize(i, s, u)
    \/ \E i \in Rows, y \in {None, Today, Today + 1, Wrong} : Acquire(i, y)
    \/ \E i \in Rows, c \in {None, File} : Remove(i, c)

----------------------------------------------------------------------------
TypeOK ==
    /\ docs \in 0..MaxDocs
    /\ \A i \in Rows :
          /\ table[i].id \in LandIds \cup {None} /\ table[i].unit \in DOMAIN Units
          /\ {table[i].size, table[i].area, table[i].year} \subseteq Int \ {Wrong}
          /\ table[i].cert \in 1..MaxDocs \cup {None}

\* The area on the form and the size the roll-up adds up (Hectares in
\* LandRollup) are one figure, a positive one, however often rows are edited,
\* imported and saved again; a saved table is accepted and left as it is when
\* it is saved again.
AreasAgree ==
    \A i \in Rows :
        /\ (table[i].size = None) = (table[i].area = None)
        /\ table[i].size # None => table[i].size > 0 /\ Hectares(table[i]) = table[i].area
        /\ ~Refuses(table[i])
        /\ Validated(table, i).area = table[i].area

\* A stored row names a document that is in storage, the flag says so, and no
\* two rows share a land or a document.
CertificatesExist ==
    /\ ~Duplicated(table)
    /\ \A i \in Rows :
          /\ table[i].cert = None \/ table[i].cert \in 1..docs
          /\ table[i].provided = (table[i].cert # None)
    /\ table[1].cert = None \/ table[1].cert # table[2].cert

=============================================================================
