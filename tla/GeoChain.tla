------------------------------ MODULE GeoChain ------------------------------
(* Where the seed jobs place a sample record: the names in the demography   *)
(* CSV are followed down the units of master data, the unit a country pack  *)
(* names is followed up, and the bulk sample follows every unit of the      *)
(* deepest level up.  Units may be misnamed, orphaned or their own          *)
(* ancestors: the table has no constraint against it.                       *)
EXTENDS Integers, Sequences, FiniteSets, FiniteSetsExt, SequencesExt

CONSTANTS
    Size,        \* number of units
    Names,       \* their names, without case and blanks
    Depth        \* levels the CSV names

VARIABLES parent, name    \* of every unit of g2p_geo_level_values

vars == <<parent, name>>

Nodes == 1..Size
Root == 0           \* the parent of a unit without one
Missing == -1       \* no unit
Slug == -2          \* a path of names, which is no unit's id

----------------------------------------------------------------------------
(* load_sample_data.py, down from the names. *)

\* The index has one unit for a parent and a name: the one read last.
GeoIndex(p, n) == Max({u \in Nodes : parent[u] = p /\ name[u] = n} \cup {Missing})

Followed(names) ==
    LET id[k \in 1..Depth] == GeoIndex(IF k = 1 THEN Root ELSE id[k - 1], names[k])
    IN id

\* Half a chain is none.
ResolveGeoChain(names) ==
    IF \E k \in 1..Depth : Followed(names)[k] = Missing THEN <<>> ELSE Followed(names)

\* Unresolved, a level is the path of the names down to it.
GeoIds(names) ==
    IF ResolveGeoChain(names) # <<>> THEN ResolveGeoChain(names)
    ELSE [k \in 1..Depth |-> Slug]

(* Up from a unit, root first, no unit twice. *)
Longer(chain, pcode) ==
    LET cur == IF chain = <<>> THEN pcode ELSE parent[Head(chain)]
    IN IF cur \in Nodes \ ToSet(chain) THEN <<cur>> \o chain ELSE chain

HierarchyFromPcode(pcode) ==
    LET chain[k \in 0..Size] == IF k = 0 THEN <<>> ELSE Longer(chain[k - 1], pcode)
    IN chain[Size]

\* A record of the pack knows its unit, one of the CSV has names.
GeoLowestId(r) == IF r.pcode # Missing THEN r.pcode ELSE Last(GeoIds(r.names))
GeoHierarchy(r) == IF r.pcode # Missing THEN HierarchyFromPcode(r.pcode) ELSE GeoIds(r.names)

Records == [names : [1..Depth -> Names], pcode : Nodes \cup {Missing, Size + 1}]

----------------------------------------------------------------------------
(* generate_fr_bulk_sample.py: the chain of every place of the deepest      *)
(* level.  It walks until there is no parent, so on a ring for ever.        *)
InRing(u) ==
    LET up[k \in 0..Size] == IF k = 0 THEN u
                             ELSE IF up[k - 1] \in Nodes THEN parent[up[k - 1]] ELSE Root
    IN up[Size] # Root

Places(deepest) == {HierarchyFromPcode(u) : u \in {v \in deepest : ~InRing(v)}}

----------------------------------------------------------------------------
(* Master data is edited between the jobs. *)
Reparent(u, p) ==
    /\ parent' = [parent EXCEPT ![u] = p]
    /\ UNCHANGED name

Rename(u, n) ==
    /\ name' = [name EXCEPT ![u] = n]
    /\ UNCHANGED parent

Init ==
    /\ parent = [u \in Nodes |-> u - 1]
    /\ name \in [Nodes -> Names]

Next ==
    \/ \E u \in Nodes, p \in Nodes \cup {Root} : Reparent(u, p)
    \/ \E u \in Nodes, n \in Names : Rename(u, n)

----------------------------------------------------------------------------
TypeOK ==
    /\ parent \in [Nodes -> Nodes \cup {Root}]
    /\ name \in [Nodes -> Names]

Linked(chain) == \A k \in 2..Len(chain) : parent[chain[k]] = chain[k - 1]

\* resolve_geo_chain: "half a chain produces a hierarchy whose upper levels
\* join and whose lower ones do not".  The unit stored for a record is the
\* last of its stored hierarchy; the hierarchy is the path of units that leads
\* from the root to it, all levels of the CSV, or has no unit at all: also
\* where siblings share a name, where a unit has lost its parent, and where
\* units are each other's ancestors: such a path starts somewhere on the ring.
PlacesHold ==
    /\ \A r \in Records :
          LET h == GeoHierarchy(r)  low == GeoLowestId(r) IN
          \/ ToSet(h) \subseteq {Slug} /\ low \notin Nodes
          \/ /\ Last(h) = low /\ h = HierarchyFromPcode(low)
             /\ Linked(h) /\ IsInjective(h)
             /\ parent[Head(h)] = Root \/ (r.pcode # Missing /\ InRing(low))
             /\ r.pcode = Missing => Len(h) = Depth
    /\ \A c \in Places(Nodes) : c # <<>> /\ parent[Head(c)] = Root /\ Linked(c)

=============================================================================
