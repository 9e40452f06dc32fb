------------------------------ MODULE NavLinks ------------------------------
(* Expansion of the repeats of an ODK submission: a repeat is a navigation  *)
(* link in the submission, in a group of it or in an item of another        *)
(* repeat, and each link is a request.                                      *)
EXTENDS Integers, FiniteSets, Functions

CONSTANTS
    Root,        \* the submission
    Trees,       \* forms: node -> parent and kind, "group" or "link"
    Depths,      \* values of nav_link_max_depth
    NULL         \* not resolved yet

VARIABLES tree, allowed, broken, gone, depth, result

vars == <<tree, allowed, broken, gone, depth, result>>

Nodes == DOMAIN tree
Links == {n \in Nodes : tree[n].kind = "link"}
ChildrenOf(p, kind) == {n \in Nodes : tree[n].parent = p /\ tree[n].kind = kind}

----------------------------------------------------------------------------
(* Where the walk leads: the links it expands and how often it asks each.   *)

Nothing == [expanded |-> {}, asked |-> [n \in Links |-> 0]]
Plus(a, b) == [expanded |-> a.expanded \cup b.expanded,
               asked |-> [n \in Links |-> a.asked[n] + b.asked[n]]]
Asked(l) == [Nothing EXCEPT !.asked[l] = 1]
Expanded(l) == [Asked(l) EXCEPT !.expanded = {l}]
All(parts) == [expanded |-> UNION {parts[n].expanded : n \in DOMAIN parts},
               asked |-> [l \in Links |->
                   SumFunction([n \in DOMAIN parts |-> parts[n].asked[l]])]]

\* The links on the list, or all; the others are passed over.
Passes(l) == l \in allowed

\* A list that was just fetched is entered twice: after the request, and again
\* with the other values of the dict.
AtLink(l, item) ==
    IF ~Passes(l) THEN Nothing
    ELSE IF l \in broken THEN Asked(l)
    ELSE IF l \in gone THEN Expanded(l)
    ELSE Plus(Expanded(l), Plus(item, item))

\* A dict, a list in it and an item of that list are a level each.
AtDict(n, below, below2) ==
    Plus(All([l \in ChildrenOf(n, "link") |-> AtLink(l, below2[l])]),
         All([g \in ChildrenOf(n, "group") |-> below[g]]))

ResolveNavLinks ==
    LET walk[d \in Int] ==
            [n \in Nodes \cup {Root} |->
                IF d <= 0 THEN Nothing ELSE AtDict(n, walk[d - 1], walk[d - 2])]
    IN walk[depth][Root]

Resolve ==
    /\ result = NULL
    /\ result' = ResolveNavLinks
    /\ UNCHANGED <<tree, allowed, broken, gone, depth>>

Next == Resolve

Init ==
    /\ tree \in Trees
    /\ allowed \in SUBSET Links
    /\ broken \in SUBSET Links
    /\ gone \in SUBSET (Links \ broken)
    /\ depth \in Depths
    /\ result = NULL

----------------------------------------------------------------------------
\* The nodes around one: what all sets have that have the parent of each.
Ancestors(n) ==
    LET above == {S \in SUBSET Nodes :
                     \A m \in S \cup {n} : tree[m].parent \in S \cup {Root}}
    IN {a \in Nodes : \A S \in above : a \in S}
Costs == [n \in Nodes |-> IF tree[n].kind = "link" THEN 2 ELSE 1]

\* "A partially expanded row is more useful than dropping it entirely"
\* (odk_central.py:377).  The walk expands exactly the listed links that
\* answer, below others it has expanded and within its depth: no failure hides
\* a sibling.  It asks for a link once for each of its visits of the repeat
\* around it, of which there are two.
LinksExpanded ==
    result # NULL =>
        \A l \in Links :
            LET links == Ancestors(l) \cap Links
                reached == /\ l \in allowed /\ links \subseteq result.expanded \ gone
                           /\ depth > SumFunctionOnSet(Costs, Ancestors(l))
            IN /\ l \in result.expanded <=> (reached /\ l \notin broken)
               /\ result.asked[l] = IF reached THEN 2 ^ Cardinality(links) ELSE 0

=============================================================================
