----------------------------- MODULE LandRollup -----------------------------
(* The land totals on a farmer's row.  Every approved or ingested land adds *)
(* up the farmer's active lands and writes the sums; the seed writes none,  *)
(* and a boot fills only the totals that are still NULL.  Each hook runs in *)
(* the transaction of its land: it sees the lands committed so far and its  *)
(* own, and its sums reach the farmer when it commits.                      *)
EXTENDS FiniteSets, FiniteSetsExt, Integers

CONSTANTS
    Lands,      \* lands of one farmer
    Versions,   \* what may be recorded of a land: status, size, unit, kind
    Units,      \* unit -> size of one in hectares
    NULL        \* no size, no ownership, no totals, no row, no transaction

VARIABLES land, total, tx, overlapped

vars == <<land, total, tx, overlapped>>

Kinds == {"OWNER", "TENANT", "CROP_SHARE", "FAMILY_GIFT"}

----------------------------------------------------------------------------
(* The sums, over a set of <<land, version>> pairs. *)

Hectares(v) == IF v.size = NULL THEN 0 ELSE v.size * Units[v.unit]
Area(lands) == MapThenSumSet(LAMBDA p : Hectares(p[2]), lands)
OfKind(lands, kinds) == {p \in lands : p[2].kind \in kinds}
KindsOf(lands) == {p[2].kind : p \in lands} \ {NULL}

\* Mutant of Ownership: a value the register does not know.
OwnershipMixed(kinds) ==
    CASE kinds = {} -> NULL [] kinds = {"OWNER"} -> "OWNER" [] OTHER -> "MIXED"

Ownership(kinds) ==
    CASE kinds = {} -> NULL
      [] kinds = {"OWNER"} -> "OWNER"
      [] kinds = {"TENANT"} -> "TENANT"
      [] OTHER -> "HYBRID"

Sums(lands, kinds) ==
    LET owned  == Area(OfKind(lands, {"OWNER"}))
        rented == Area(OfKind(lands, {"TENANT"}))
        shared == Area(OfKind(lands, {"CROP_SHARE", "FAMILY_GIFT", NULL}))
    IN [owned |-> owned, rented |-> rented, shared |-> shared,
        area |-> owned + rented + shared, ownership |-> Ownership(kinds)]

\* The service passes over a land without a size; the SQL of the boot takes
\* its size for zero and its ownership for real.
Recomputed(lands) == Sums(lands, KindsOf({p \in lands : p[2].size # NULL}))
Backfilled(lands) == Sums(lands, KindsOf(lands))

Active(rows) ==
    {<<l, rows[l]>> : l \in {m \in Lands : rows[m] # NULL /\ rows[m].status = "ACTIVE"}}

----------------------------------------------------------------------------
\* Mutant of Recompute: the lands are read before the new one is written.
RecomputeBefore(l, v) ==
    /\ tx[l] = NULL
    /\ tx' = [tx EXCEPT ![l] = [version |-> v, latest |-> TRUE,
                                total |-> Recomputed(Active(land))]]
    /\ UNCHANGED <<land, total, overlapped>>

\* A land is ingested, or a change request of it approved: the hook reads.
Recompute(l, v) ==
    /\ tx[l] = NULL
    /\ tx' = [tx EXCEPT ![l] =
           [version |-> v, latest |-> TRUE,
            total |-> Recomputed(Active([land EXCEPT ![l] = v]))]]
    /\ UNCHANGED <<land, total, overlapped>>

\* The farmer's row is written by one transaction after the other.
Commit(l) ==
    /\ tx[l] # NULL
    /\ land' = [land EXCEPT ![l] = tx[l].version]
    /\ total' = tx[l].total
    /\ overlapped' = ~tx[l].latest
    /\ tx' = [m \in Lands |-> IF m = l \/ tx[m] = NULL THEN NULL
                              ELSE [tx[m] EXCEPT !.latest = FALSE]]

\* The seed loads lands beside farmers of its own, before anything is served.
SeedLands(rows) ==
    /\ \A l \in Lands : land[l] = NULL /\ tx[l] = NULL
    /\ total = NULL
    /\ land' = rows
    /\ UNCHANGED <<total, tx, overlapped>>

\* A boot waits for the open transactions, and none starts while it runs.
Restart ==
    /\ \A l \in Lands : tx[l] = NULL
    /\ total = NULL /\ Active(land) # {}
    /\ total' = Backfilled(Active(land))
    /\ UNCHANGED <<land, tx, overlapped>>

Next ==
    \/ \E l \in Lands, v \in Versions : Recompute(l, v)
    \/ \E l \in Lands : Commit(l)
    \/ \E rows \in [Lands -> {v \in Versions : v.status = "ACTIVE"} \cup {NULL}] : SeedLands(rows)
    \/ Restart

Init ==
    /\ land = [l \in Lands |-> NULL]
    /\ total = NULL
    /\ tx = [l \in Lands |-> NULL]
    /\ overlapped = FALSE

Spec == Init /\ [][Next]_vars

----------------------------------------------------------------------------
Totals == [owned : Nat, rented : Nat, shared : Nat, area : Nat,
           ownership : {NULL, "OWNER", "TENANT", "HYBRID"}]
TypeOK ==
    /\ land \in [Lands -> Versions \cup {NULL}]
    /\ total \in Totals \cup {NULL}
    /\ tx \in [Lands -> [version : Versions, latest : BOOLEAN, total : Totals]
                            \cup {NULL}]
    /\ overlapped \in BOOLEAN

Areas(t) == [t EXCEPT !.ownership = NULL]

\* test_land_rollups.py: the totals "must follow a land whichever way it
\* arrives".  They are those of the lands in the register, whoever wrote them
\* last, unless another land committed between the reading and the writing of
\* the last one.  The ownership may differ where a land has no size.
TotalsFollow ==
    (total # NULL /\ ~overlapped) =>
        LET now == Recomputed(Active(land)) IN
        /\ Areas(total) = Areas(now)
        /\ \/ total = now
           \/ \E p \in Active(land) : p[2].size = NULL

=============================================================================
