----------------------------- MODULE BootSchema -----------------------------
(* The schema part of the farmer extension's boot.  Every container runs    *)
(* the migration twice, as a command whose failure is ignored and then in   *)
(* the server's startup, where a failure ends the container; it restarts.   *)
(* The tables are created one by one, each in its own transaction; all the  *)
(* rest is one transaction, whose first ALTER keeps the others waiting.     *)
(*                                                                          *)
(* col    each group of columns as committed: missing, of an older type, or *)
(*        as the models declare it; tables: the tables exist                *)
(* stage  what each container runs, pos: its next step, view: the columns   *)
(*        as its transaction sees them, fresh: it found no tables           *)
EXTENDS Naturals, Sequences, SequencesExt

CONSTANTS
    Procs,          \* the containers of the two services
    LandSizes,      \* the register's land_size in the schemas of older releases
    MaxCrashes      \* bound on the crashes of a behaviour

Groups == {"head", "birth_ec", "state", "source", "father", "geo", "flag",
           "dedup", "date_ec", "land", "land_size", "land_copies", "phone"}
New == [g \in Groups |-> "new"]
Missing == [g \in Groups |-> "missing"]

\* Schemas of older releases.
Older ==
    {[Missing EXCEPT !["land_size"] = l, !["land_copies"] = c, !["birth_ec"] = b] :
        l \in LandSizes, b \in {"missing", "old"}, c \in {"missing", "old"}} \cup {New}

VARIABLES col, tables, stage, pos, view, fresh, crashes

vars == <<col, tables, stage, pos, view, fresh, crashes>>

----------------------------------------------------------------------------
(* land_size is that of the register's lands, land_copies that of their     *)
(* history and their intake rows.  The steps: what each adds where it is    *)
(* missing, what it converts from an older type, and what its statements    *)
(* need to be there and right.                                              *)

Does(a, r, n) == [adds |-> a, retypes |-> r, needs |-> n]

\* Mutants of LandSizeRetype and PhoneColumns: the copies are left out; the
\* columns are updated and not added.
RetypeRegister == Does({}, {"land_size"}, {})
PhoneUpdates   == Does({}, {}, {"phone"})

HeadColumns    == Does({"head"}, {}, {})
FarmerColumns  == Does({"birth_ec", "state", "source", "father", "geo", "flag"},
                       {"birth_ec"}, {"geo"})
DedupTable     == Does({"dedup"}, {}, {})
FarmerUpdates  == Does({}, {}, {"state", "source", "father"})
DateColumns    == Does({"date_ec"}, {}, {})
FillRollups    == Does({}, {}, {"land_size"})
LandColumns    == Does({"land", "land_size", "land_copies"}, {}, {})
LandSizeRetype == Does({}, {"land_size", "land_copies"}, {})
LandUpdates    == Does({}, {}, {"land", "land_size"})
PhoneColumns   == Does({"phone"}, {}, {"phone"})
HeadUpdate     == Does({}, {}, {"head"})

Script == <<HeadColumns, FarmerColumns, DedupTable, FarmerUpdates, DateColumns,
            FillRollups, LandColumns, LandSizeRetype, LandUpdates, PhoneColumns,
            HeadUpdate>>

\* The columns after the statements that change them, before those that read.
After(s, v) ==
    [g \in Groups |->
        IF v[g] = "missing" /\ g \in s.adds THEN "new"
        ELSE IF v[g] = "old" /\ g \in s.retypes THEN "new" ELSE v[g]]
Runs(s, v) == \A g \in s.needs : After(s, v)[g] = "new"

\* The statement that fails rolls all of them back; only the server's startup
\* takes the container down with it.
Fail(p) ==
    /\ stage' = [stage EXCEPT ![p] = IF @ = "cli" THEN "boot" ELSE "cli"]
    /\ pos' = [pos EXCEPT ![p] = 0]

----------------------------------------------------------------------------
\* Which tables there are is looked up first, and then they are created.
Look(p) ==
    /\ stage[p] # "serving" /\ pos[p] = 0
    /\ fresh' = [fresh EXCEPT ![p] = ~tables]
    /\ pos' = [pos EXCEPT ![p] = 1]
    /\ UNCHANGED <<col, tables, stage, view, crashes>>

CreateTables(p) ==
    /\ stage[p] # "serving" /\ pos[p] = 1
    /\ \/ /\ ~fresh[p]
          /\ pos' = [pos EXCEPT ![p] = 2]
          /\ UNCHANGED <<col, tables, stage>>
       \/ /\ fresh[p] /\ ~tables
          /\ tables' = TRUE /\ col' = [New EXCEPT !["dedup"] = "missing"]
          /\ pos' = [pos EXCEPT ![p] = 2]
          /\ UNCHANGED stage
       \/ /\ fresh[p] /\ tables
          /\ Fail(p)
          /\ UNCHANGED <<col, tables>>
    /\ UNCHANGED <<view, fresh, crashes>>

\* The first ALTER waits for whoever has passed it.
Begin(p) ==
    /\ stage[p] # "serving" /\ pos[p] = 2
    /\ \A q \in Procs : pos[q] <= 2
    /\ view' = [view EXCEPT ![p] = col]
    /\ pos' = [pos EXCEPT ![p] = 3]
    /\ UNCHANGED <<col, tables, stage, fresh, crashes>>

Migrate(p) ==
    LET s == Script[pos[p] - 2] IN
    /\ pos[p] \in 3..(Len(Script) + 2)
    /\ IF Runs(s, view[p])
       THEN /\ view' = [view EXCEPT ![p] = After(s, @)]
            /\ pos' = [pos EXCEPT ![p] = @ + 1]
            /\ UNCHANGED stage
       ELSE Fail(p) /\ UNCHANGED view
    /\ UNCHANGED <<col, tables, fresh, crashes>>

Commit(p) ==
    /\ pos[p] = Len(Script) + 3
    /\ col' = view[p]
    /\ stage' = [stage EXCEPT ![p] = IF @ = "cli" THEN "boot" ELSE "serving"]
    /\ pos' = [pos EXCEPT ![p] = 0]
    /\ UNCHANGED <<tables, view, fresh, crashes>>

Crash(p) ==
    /\ crashes < MaxCrashes
    /\ stage' = [stage EXCEPT ![p] = "cli"]
    /\ pos' = [pos EXCEPT ![p] = 0]
    /\ crashes' = crashes + 1
    /\ UNCHANGED <<col, tables, view, fresh>>

Step(p) == Look(p) \/ CreateTables(p) \/ Begin(p) \/ Migrate(p) \/ Commit(p)
Next == \E p \in Procs : Step(p) \/ Crash(p)

\* No database yet, or one of an older release.
Init ==
    /\ \/ tables = FALSE /\ col = Missing
       \/ tables = TRUE /\ col \in Older
    /\ stage = [p \in Procs |-> "cli"]
    /\ pos = [p \in Procs |-> 0]
    /\ view = [p \in Procs |-> Missing]
    /\ fresh = [p \in Procs |-> FALSE]
    /\ crashes = 0

\* A container runs on, and is restarted when it has failed; a transaction
\* that waits for another's lock goes on when that one ends.
Fairness == \A p \in Procs : WF_vars(Step(p))
Spec == Init /\ [][Next]_vars /\ Fairness

----------------------------------------------------------------------------
TypeOK ==
    /\ col \in [Groups -> {"missing", "old", "new"}]
    /\ tables \in BOOLEAN
    /\ stage \in [Procs -> {"cli", "boot", "serving"}]
    /\ pos \in [Procs -> 0..(Len(Script) + 3)]
    /\ \A p \in Procs : view[p] \in [Groups -> {"missing", "old", "new"}]
    /\ fresh \in [Procs -> BOOLEAN]
    /\ crashes \in 0..MaxCrashes

\* A server that takes requests finds every column as the models declare it,
\* whichever container migrated first and wherever one crashed.
ServesCurrentSchema == \A p \in Procs : stage[p] = "serving" => col = New

\* Every container ends up serving, from a fresh database and from the schema
\* of an older release, though they race to create the tables: app.py:702 "`ADD
\* COLUMN IF NOT EXISTS` above fixes a MISSING land_size", and the statements
\* after it one of the wrong type, but the totals read it before either.
AllServing == \A p \in Procs : stage[p] = "serving"
EventuallyServing == <>[]AllServing

=============================================================================
