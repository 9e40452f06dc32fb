------------------------------ MODULE CodeLists ------------------------------
(* sync_catalogue_attributes.py: the values of one catalogue release, the   *)
(* active one or the one an operator names, are merged into the registry's  *)
(* own code lists, list by list, each read in one statement and added to in *)
(* another and committed by itself.  A run keeps the release it began with. *)
(* Run by hand, it may be stopped and started again, twice at once, while   *)
(* an administrator edits the lists in the staff portal, a country pack     *)
(* replaces one and the catalogue activates another release or edits one.   *)
EXTENDS Integers, Sequences, FiniteSets

CONSTANTS
    Lists,      \* the lists to merge, in the order of DOMAIN_MAP
    Normal,     \* display name -> its code, NULL where nothing is left of it
    Syncs,      \* runs of the script
    Releases,   \* releases of the catalogue
    Nameable,   \* those an operator may name in CATALOGUE_RELEASE_ID
    NULL        \* no code, no value, no run, no release

VARIABLES
    value,   \* id -> code of g2p_attribute_values
    active,  \* the active release, NULL while there is none
    offered, \* release, list -> its display names
    sync,    \* run -> its release, the list it is at and the codes it is to add
    merged,  \* releases and the lists that have had them merged, and only syncs since
    raced    \* lists that were edited while a run had read and not added

vars == <<value, active, offered, sync, merged, raced>>

Texts == DOMAIN Normal
Codes == {Normal[t] : t \in Texts} \ {NULL}
AllLists == {Lists[k] : k \in 1..Len(Lists)}

\* A synced value's id is its list's prefix and its code; others are named by
\* hand.
Ids == AllLists \X (Codes \cup {"hand"})
OfList(l) == {id \in Ids : id[1] = l /\ value[id] # NULL}
Seen(l) == {value[id] : id \in OfList(l)}

----------------------------------------------------------------------------
\* A run that is given no release and finds none active ends at once.
StartSync(s) ==
    /\ sync[s] = NULL
    /\ \E r \in (Nameable \cup {active}) \ {NULL} :
           sync' = [sync EXCEPT ![s] = [release |-> r, at |-> 1, new |-> NULL]]
    /\ UNCHANGED <<value, active, offered, merged, raced>>

\* Mutant of NewRows: those of the release that is active by now.
NewRowsActive(r, l) ==
    {Normal[t] : t \in IF active = NULL THEN {} ELSE offered[active, l]} \ (Seen(l) \cup {NULL})

\* Two names may come down to one code, which is added once.
NewRows(r, l) == {Normal[t] : t \in offered[r, l]} \ (Seen(l) \cup {NULL})

AfterList(s) ==
    IF sync[s].at = Len(Lists) THEN NULL ELSE [sync[s] EXCEPT !.at = @ + 1, !.new = NULL]

ReadList(s) ==
    /\ sync[s] # NULL /\ sync[s].new = NULL
    /\ LET r == sync[s].release
           l == Lists[sync[s].at]
       IN IF NewRows(r, l) = {}
          THEN /\ sync' = [sync EXCEPT ![s] = AfterList(s)]
               /\ merged' = merged \cup {<<r, l>>}
          ELSE /\ sync' = [sync EXCEPT ![s].new = NewRows(r, l)]
               /\ UNCHANGED merged
    /\ UNCHANGED <<value, active, offered, raced>>

\* ON CONFLICT (value_id) DO NOTHING.
Inserted(l, new) ==
    [id \in Ids |-> IF id[1] = l /\ id[2] \in new /\ value[id] = NULL THEN id[2] ELSE value[id]]

InsertNew(s) ==
    /\ sync[s] # NULL /\ sync[s].new # NULL
    /\ LET l == Lists[sync[s].at] IN
       /\ value' = Inserted(l, sync[s].new)
       /\ merged' = IF l \in raced THEN merged ELSE merged \cup {<<sync[s].release, l>>}
    /\ sync' = [sync EXCEPT ![s] = AfterList(s)]
    /\ UNCHANGED <<active, offered, raced>>

Crash(s) ==
    /\ sync[s] # NULL
    /\ sync' = [sync EXCEPT ![s] = NULL]
    /\ UNCHANGED <<value, active, offered, merged, raced>>

----------------------------------------------------------------------------
\* The list, or what the releases rs have for it, is another.
Touched(rs, l) ==
    /\ merged' = merged \ (rs \X {l})
    /\ raced' = IF \E s \in Syncs : sync[s] # NULL /\ sync[s].new # NULL /\ Lists[sync[s].at] = l
                THEN raced \cup {l} ELSE raced
    /\ UNCHANGED sync

\* The staff portal adds a code a list does not have, renames one, or deletes
\* it; a pack that replaces a list deletes and adds too.
EditValue(id, c) ==
    /\ c = NULL \/ c \notin Seen(id[1])
    /\ value[id] # c
    /\ value' = [value EXCEPT ![id] = c]
    /\ Touched(Releases, id[1])
    /\ UNCHANGED <<active, offered>>

\* A value of a release is activated or withdrawn.
EditRelease(r, l, t) ==
    /\ offered' = [offered EXCEPT ![<<r, l>>] = IF t \in @ THEN @ \ {t} ELSE @ \cup {t}]
    /\ Touched({r}, l)
    /\ UNCHANGED <<value, active>>

Activate(r) ==
    /\ active' = r
    /\ UNCHANGED <<value, offered, sync, merged, raced>>

Init ==
    /\ value = [id \in Ids |-> NULL]
    /\ active = NULL
    /\ offered = [offer \in Releases \X AllLists |-> Texts]
    /\ sync = [s \in Syncs |-> NULL]
    /\ merged = {} /\ raced = {}

Next ==
    \/ \E s \in Syncs : StartSync(s) \/ ReadList(s) \/ InsertNew(s) \/ Crash(s)
    \/ \E id \in Ids, c \in Codes \cup {NULL} : EditValue(id, c)
    \/ \E r \in Releases, l \in AllLists, t \in Texts : EditRelease(r, l, t)
    \/ \E r \in Releases \cup {NULL} : Activate(r)

Spec == Init /\ [][Next]_vars

----------------------------------------------------------------------------
TypeOK ==
    /\ value \in [Ids -> Codes \cup {NULL}]
    /\ active \in Releases \cup {NULL}
    /\ offered \in [Releases \X AllLists -> SUBSET Texts]
    /\ sync \in [Syncs -> [release : Releases, at : 1..Len(Lists),
                           new : (SUBSET Codes) \cup {NULL}] \cup {NULL}]
    /\ merged \subseteq Releases \X AllLists /\ raced \subseteq AllLists

\* "add whatever normalizes to a code that isn't already present": a list that
\* a release was merged into has every code of that release, be another one
\* active by now and merged over it, but for one whose id an administrator has
\* given another code, which the script passes over without a word; and a list
\* has no code twice, two runs at once included, unless it was edited between
\* the two statements of a run.
ListsMerged ==
    \A l \in AllLists :
        /\ \A r \in Releases : <<r, l>> \in merged => \A t \in offered[r, l] :
               Normal[t] \in Seen(l) \cup {NULL} \/ value[<<l, Normal[t]>>] # NULL
        /\ l \notin raced => Cardinality(Seen(l)) = Cardinality(OfList(l))

=============================================================================
