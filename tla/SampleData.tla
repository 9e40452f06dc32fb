----------------------------- MODULE SampleData -----------------------------
(* The seed jobs of docker/db-seed over one registry and one master-data    *)
(* database: the geography, the sample people with the rows attached to     *)
(* them, their photos, and the bulk sample.  The jobs run at every install  *)
(* and upgrade, are retried, and may die between any two commits.           *)
(*                                                                          *)
(* geo      master data's units: unit -> parent; chosen: the parents an     *)
(*          operator has set; complete: this release has loaded its units   *)
(* pack     the sample people of the country pack; spliced: one was added   *)
(*          before one that was there                                       *)
(* rows     record -> what it links to, for every row of the registry       *)
(* queue    the completion scores to compute                                *)
(* bucket   uploaded objects, docs: their catalogue entries, photo: the     *)
(*          entry a farmer shows                                            *)
(* source   what the last sample load read                                  *)
EXTENDS Integers, Sequences, FiniteSets, SequencesExt

CONSTANTS
    People,      \* numbers that the pack's people may have
    HomeIn,      \* the number of the household it gives each of them, or Nowhere
    Seed,        \* units of the geography snapshot: unit -> parent
    Leaves,      \* its units of the deepest level
    Nowhere      \* no parent, no link

VARIABLES geo, chosen, complete, pack, spliced, rows, queue, bucket, docs, photo, source

registry == <<rows, queue>>
images == <<bucket, docs, photo>>
units == <<geo, chosen, complete>>
country == <<pack, spliced>>
vars == <<units, country, registry, images, source>>

Rec(space, kind, n) == [space |-> space, kind |-> kind, n |-> n]
Csv(kind, n) == Rec("csv", kind, n)
Row(kind, n) == Rec("row", kind, n)

\* By their numbers: a record stands behind those with a smaller one.
Before(S, r) == {q \in S : q.n < r.n}
AsSeq(S) ==
    [i \in 1..Cardinality(S) |-> CHOOSE r \in S : Cardinality(Before(S, r)) = i - 1]

\* Both functions; the first where both are defined.
Joined(f, g) ==
    [x \in DOMAIN f \cup DOMAIN g |-> IF x \in DOMAIN f THEN f[x] ELSE g[x]]

----------------------------------------------------------------------------
(* load_geo_data.py *)

\* Only a parent that is missing is filled in.
RepairMissingParents(g) ==
    [u \in DOMAIN g |-> IF g[u] = Nowhere THEN Seed[u] ELSE g[u]]

LoadGeo ==
    /\ LET inserted == [u \in DOMAIN geo \cup DOMAIN Seed |->
                           IF u \in DOMAIN geo THEN geo[u] ELSE Seed[u]]
       IN geo' = RepairMissingParents(inserted)
    /\ complete' = TRUE
    /\ UNCHANGED <<chosen, country, registry, images, source>>

\* An operator of the master-data service moves a unit.
Reparent(u, p) ==
    /\ u \in DOMAIN geo \cap Leaves /\ p \in DOMAIN geo \ Leaves
    /\ geo' = [geo EXCEPT ![u] = p]
    /\ chosen' = [chosen EXCEPT ![u] = p]
    /\ UNCHANGED <<complete, country, registry, images, source>>

----------------------------------------------------------------------------
(* load_sample_data.py.  The rows of the JSON files, in order.  A link is   *)
(* to a person or a household of the CSV, or to another row; a member also  *)
(* names the person it describes.                                           *)

Fixture(kind, n, link) == [id |-> Row(kind, n), link |-> link, person |-> Nowhere]
Member(n, link, person) == [id |-> Row("member", n), link |-> link, person |-> person]
Tables ==
    << <<Member(1, Csv("household", 1), Csv("person", 1)),
         Member(2, Csv("household", 2), Csv("person", 3))>>,
       <<Fixture("land", 1, Csv("person", 1)), Fixture("land", 2, Csv("person", 1)),
         Fixture("land", 3, Csv("person", 2))>>,
       <<Fixture("crop", 1, Row("land", 1)), Fixture("crop", 2, Row("land", 3))>>,
       <<Fixture("membership", 1, Csv("person", 1)),
         Fixture("membership", 2, Csv("person", 2)),
         Fixture("membership", 3, Csv("person", 3))>>,
       <<Fixture("score", 1, Csv("household", 1)),
         Fixture("score", 2, Csv("household", 2))>> >>
Fixtures == UNION {ToSet(Tables[t]) : t \in DOMAIN Tables}

\* Whoever the pack carries, or else the demography CSV.
Records(space, kind, S) == AsSeq({Rec(space, kind, n) : n \in S})
Individuals ==
    IF pack # {} THEN Records("pack", "person", pack) ELSE Records("csv", "person", 1..3)
PackHomes == {HomeIn[n] : n \in People} \ {Nowhere}
Households ==
    IF pack # {} THEN Records("pack", "household", PackHomes)
    ELSE Records("csv", "household", 1..2)
Loaded == ToSet(Individuals) \cup ToSet(Households)

\* The household of a person, who may have none.
HomeOf(r) ==
    CASE r.space = "csv" -> Csv("household", IF r.n = 3 THEN 2 ELSE 1)
      [] r.space = "pack" /\ HomeIn[r.n] \in PackHomes -> Rec("pack", "household", HomeIn[r.n])
      [] OTHER -> Nowhere

\* The last segment of the id, whatever space it is from.
FrId(r) == r.n

\* A crop links to its parcel; those links stay.
OwnIds == {f.id : f \in Fixtures}
Outside(kind) ==
    {l \in {f.link : f \in Fixtures} \ OwnIds : (l.kind = "household") = (kind = "household")}

\* The links that leave the fixtures, in order, onto those loaded, round and
\* round when these are fewer; they stay when there are none.
Onto(old, new) ==
    LET unmatched == old \ Loaded
        index(o) == Cardinality(Before(unmatched, o))
    IN [o \in {l \in old : new # <<>>} |->
           IF o \in Loaded THEN o ELSE new[(index(o) % Len(new)) + 1]]
Remap == Joined(Onto(Outside("person"), Individuals), Onto(Outside("household"), Households))
Mapped(remap, link) == IF link \in DOMAIN remap THEN remap[link] ELSE link

\* A table with one row for each record keeps one when several now share it.
OnePerRecord(table) == \A i, j \in DOMAIN table : table[i].link = table[j].link => i = j
RemapLinks(table, remap) ==
    {[table[i] EXCEPT !.link = Mapped(remap, @)] :
        i \in {k \in DOMAIN table :
            ~ \E j \in 1..(k - 1) :
                /\ OnePerRecord(table) /\ table[k].link \in DOMAIN remap
                /\ remap[table[k].link] = Mapped(remap, table[j].link)}}

\* A member whose person is not among the loaded is left out.
Attached(remap) ==
    {f \in UNION {RemapLinks(Tables[t], remap) : t \in DOMAIN Tables} :
        f.person # Nowhere => Mapped(remap, f.person) \in Loaded}

\* Every INSERT does nothing where the id exists.
Inserted(there, new) == Joined(there, new)
NewRows ==
    LET attached == Attached(Remap)
    IN Joined([r \in Loaded |-> IF r.kind = "person" THEN HomeOf(r) ELSE Nowhere],
              [r \in {f.id : f \in attached} |-> (CHOOSE f \in attached : f.id = r).link])

\* uuid5 of register, record and section.
QueueId(r) == <<r, 0>>

\* The bulk sample's functional ids have two digits less, so never collide.
SamplePeople == {r \in DOMAIN rows : r.kind = "person" /\ r.space # "bulk"}

\* One transaction: a functional id that another person has rolls it back.
LoadSampleData ==
    /\ \A p \in ToSet(Individuals) \ DOMAIN rows, q \in SamplePeople :
        FrId(p) # FrId(q)
    /\ rows' = Inserted(rows, NewRows)
    /\ queue' = queue \cup {QueueId(r) : r \in Loaded}
    /\ source' = pack
    /\ UNCHANGED <<units, country, images>>

\* The country pack is loaded into master data, or gains a person.
Publish(n) ==
    /\ n \notin pack
    /\ pack' = pack \cup {n}
    /\ spliced' = (spliced \/ \E m \in pack : n < m)
    /\ UNCHANGED <<units, registry, images, source>>

----------------------------------------------------------------------------
(* upload_images.py: the objects first, then catalogue and farmers in one   *)
(* transaction.  Image n shows the person with the number n of the CSV.     *)

Upload ==
    /\ bucket # 1..3
    /\ bucket' = bucket \cup {CHOOSE n \in 1..3 : n \notin bucket}
    /\ UNCHANGED <<units, country, registry, docs, photo, source>>

\* A uuid, different at every run.
Fresh(n) == IF docs[n] = n THEN n + 3 ELSE n

\* RETURNING document_id: an entry of an earlier run keeps its identifier.
Catalogued(n) == IF docs[n] # 0 THEN docs[n] ELSE Fresh(n)

CatalogueImages ==
    /\ bucket = 1..3
    /\ docs' = [n \in 1..3 |-> IF docs[n] # 0 THEN docs[n] ELSE Fresh(n)]
    /\ photo' = [n \in 1..3 |-> IF Csv("person", n) \in DOMAIN rows
                                THEN Catalogued(n) ELSE photo[n]]
    /\ UNCHANGED <<units, country, registry, bucket, source>>

----------------------------------------------------------------------------
(* generate_fr_bulk_sample.py: a farmer, a parcel and a crop, and the same  *)
(* ids at every run.                                                        *)

Bulk(kind) == Rec("bulk", kind, 1)
BulkRows ==
    [r \in {Bulk(kind) : kind \in {"person", "land", "crop"}} |->
        CASE r = Bulk("person") -> Nowhere
          [] r = Bulk("land") -> Bulk("person")
          [] r = Bulk("crop") -> Bulk("land")]
Seeded == Bulk("person") \in DOMAIN rows

\* COPY knows no ON CONFLICT: a row that exists rolls everything back.
Copied == DOMAIN rows \cap DOMAIN BulkRows = {} /\ rows' = Joined(rows, BulkRows)

\* No place of the deepest level, no sample; seeded means done.
Generate ==
    /\ ~ Seeded /\ DOMAIN geo \cap Leaves # {}
    /\ Copied
    /\ UNCHANGED <<units, country, queue, images, source>>

Children(S) == {r \in DOMAIN rows : rows[r] \in S}

\* Mutant of Purged: the parcels before their crops, which are then not found.
PurgedParcelsFirst == {Bulk("person")} \cup Children({Bulk("person")})

\* What --purge deletes, walking down from the generator's farmers.
Purged ==
    LET parcels == {r \in Children({Bulk("person")}) : r.kind = "land"}
    IN {Bulk("person")} \cup Children({Bulk("person")}) \cup Children(parcels)

\* A commit of its own, before the sample is generated again.
Purge ==
    /\ Seeded
    /\ rows' = [r \in DOMAIN rows \ Purged |-> rows[r]]
    /\ UNCHANGED <<units, country, queue, images, source>>

----------------------------------------------------------------------------
\* A first install, or master data of a snapshot without some of the parents.
Init ==
    /\ geo \in {[u \in {} |-> Nowhere],
                [u \in DOMAIN Seed |-> IF u \in Leaves THEN Nowhere ELSE Seed[u]]}
    /\ chosen = [u \in DOMAIN Seed |-> Nowhere]
    /\ complete = FALSE /\ spliced = FALSE
    /\ pack = {} /\ rows = [r \in {} |-> Nowhere] /\ queue = {} /\ source = {-1}
    /\ bucket = {} /\ docs = [n \in 1..3 |-> 0] /\ photo = [n \in 1..3 |-> 0]

Next ==
    \/ LoadGeo \/ (\E u, p \in DOMAIN Seed : Reparent(u, p))
    \/ LoadSampleData \/ (\E n \in People : Publish(n))
    \/ Upload \/ CatalogueImages
    \/ Generate \/ Purge

Spec == Init /\ [][Next]_vars

----------------------------------------------------------------------------
\* The kinds of the variables.
TypeOK ==
    /\ DOMAIN geo \subseteq DOMAIN Seed /\ pack \subseteq People
    /\ bucket \subseteq 1..3 /\ photo \in [1..3 -> 0..6]

\* load_sample_data.py:371 "every one of those rows links to a record that does
\* not exist ... So the links are remapped onto whoever was actually loaded":
\* every row links to a record of the registry of the kind it describes, whoever
\* was loaded first and however often, with a purge in between or none.  Only a
\* person's household may be missing.
KindOfLink(kind) ==
    CASE kind \in {"member", "score", "person"} -> "household"
      [] kind = "crop" -> "land"
      [] OTHER -> "person"
LinksHold ==
    \A r \in DOMAIN rows : r.kind # "household" =>
        \/ r.kind = "person" /\ rows[r] = Nowhere
        \/ rows[r] \in DOMAIN rows /\ rows[r].kind = KindOfLink(r.kind)

\* load_sample_data.py:839 "this makes the completion-score enqueue
\* idempotent": a load from the pack of the last one changes nothing.
Repeatable ==
    source = pack => /\ Inserted(rows, NewRows) = rows
                     /\ {QueueId(r) : r \in Loaded} \subseteq queue

\* remap_links "collapse it to one row per record when it was one row per
\* record to begin with": also over loads from packs that grew at the end.
OneRowEach ==
    ~ spliced => \A q, r \in DOMAIN rows :
        q.kind = r.kind /\ q.kind \in {"membership", "score"} /\ q # r
            => rows[q] # rows[r]

\* load_geo_data.py: every unit has a parent where the seed has one, and where
\* an operator chose it, the chosen one.
ParentsHold ==
    \A u \in DOMAIN geo :
        /\ chosen[u] # Nowhere => geo[u] = chosen[u]
        /\ complete /\ Seed[u] # Nowhere => geo[u] # Nowhere

\* upload_images.py: the photo of a farmer is an entry of the catalogue, and
\* its object is in the bucket.
PhotosExist ==
    \A n \in 1..3 : photo[n] # 0 => photo[n] = docs[n] /\ n \in bucket

=============================================================================
