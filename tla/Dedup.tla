------------------------------- MODULE Dedup --------------------------------
(* The register-wide search for duplicates: a scan resets the flags and the *)
(* results of the last one, groups the register by each criterion, flags    *)
(* whoever is in a group and stores the pairs; a reset only clears.  Each   *)
(* runs in one transaction, statement by statement: a statement sees what   *)
(* is committed when it starts, and waits for rows others have written.     *)
(*                                                                          *)
(* key      what the register says of a farmer under each criterion         *)
(* flag     is_duplicated as committed; results: the committed result rows  *)
(* and of each request: its kind, its next step, the criteria it has still  *)
(* to match, the pairs it found, the flags it wrote and the rows it deleted *)
EXTENDS FiniteSets

CONSTANTS
    Farmers,
    Criteria,   \* identity document, foundational id, phone, households
    Values,     \* what two farmers may share
    Requests,   \* calls of the two routes
    NULL        \* no value; not in Values

VARIABLES key, flag, results, kind, step, todo, found, wrote, deleted

request == <<kind, step, todo, found, wrote, deleted>>
vars == <<key, flag, results, request>>

\* A result row, told from an equal one by the request that stored it.
Results == [by : Requests, pair : SUBSET Farmers, criterion : Criteria]
Steps == {"idle", "flags", "results", "match", "mark", "commit"}

\* Rows another request has written and not committed.
Locked(q) == UNION {DOMAIN wrote[o] : o \in Requests \ {q}}

\* The flags w, with b for the farmers of S.
Writing(w, S, b) == [f \in DOMAIN w \cup S |-> IF f \in S THEN b ELSE w[f]]
Nothing == [f \in {} |-> FALSE]
Flags == UNION {[S -> BOOLEAN] : S \in SUBSET Farmers}

----------------------------------------------------------------------------
Edit(f, c, v) ==
    /\ key' = [key EXCEPT ![f][c] = v]
    /\ UNCHANGED <<flag, results, request>>

\* POST scan, with or without reset_existing, and POST reset.
Start(q, k) ==
    /\ step[q] = "idle" /\ \A r \in results : r.by # q
    /\ kind' = [kind EXCEPT ![q] = k]
    /\ step' = [step EXCEPT ![q] = IF k = "add" THEN "match" ELSE "flags"]
    /\ todo' = [todo EXCEPT ![q] = Criteria]
    /\ UNCHANGED <<key, flag, results, found, wrote, deleted>>

ResetFlags(q) ==
    LET on == {f \in Farmers : flag[f]} IN
    /\ step[q] = "flags"
    /\ on \cap Locked(q) = {}
    /\ wrote' = [wrote EXCEPT ![q] = Writing(@, on, FALSE)]
    /\ step' = [step EXCEPT ![q] = "results"]
    /\ UNCHANGED <<key, flag, results, kind, todo, found, deleted>>

\* Mutant of DeleteResults: only rows this request has stored before.
DeleteOwn(q) ==
    /\ step[q] = "results"
    /\ deleted' = [deleted EXCEPT ![q] = {r \in results : r.by = q}]
    /\ step' = [step EXCEPT ![q] = IF kind[q] = "reset" THEN "commit" ELSE "match"]
    /\ UNCHANGED <<key, flag, results, kind, todo, found, wrote>>

DeleteResults(q) ==
    /\ step[q] = "results"
    /\ deleted' = [deleted EXCEPT ![q] = results]
    /\ step' = [step EXCEPT ![q] = IF kind[q] = "reset" THEN "commit" ELSE "match"]
    /\ UNCHANGED <<key, flag, results, kind, todo, found, wrote>>

\* One query per criterion: the pairs of a group of farmers with one value; a
\* farmer who is in several households is a pair with himself.
Pairs(c) ==
    IF c = "HOUSEHOLD_OVERLAP" THEN {{f} : f \in {g \in Farmers : key[g][c] # NULL}}
    ELSE {p \in SUBSET Farmers : Cardinality(p) = 2 /\
              \E v \in Values : \A f \in p : key[f][c] = v}

Match(q, c) ==
    /\ step[q] = "match" /\ c \in todo[q]
    /\ found' = [found EXCEPT ![q] =
           @ \cup {[by |-> q, pair |-> p, criterion |-> c] : p \in Pairs(c)}]
    /\ todo' = [todo EXCEPT ![q] = @ \ {c}]
    /\ step' = [step EXCEPT ![q] = IF todo[q] = {c} THEN "mark" ELSE "match"]
    /\ UNCHANGED <<key, flag, results, kind, wrote, deleted>>

Mark(q) ==
    LET hit == UNION {r.pair : r \in found[q]} IN
    /\ step[q] = "mark"
    /\ hit \cap Locked(q) = {}
    /\ wrote' = [wrote EXCEPT ![q] = Writing(@, hit, TRUE)]
    /\ step' = [step EXCEPT ![q] = "commit"]
    /\ UNCHANGED <<key, flag, results, kind, todo, found, deleted>>

Commit(q) ==
    /\ step[q] = "commit"
    /\ flag' = [f \in Farmers |-> IF f \in DOMAIN wrote[q] THEN wrote[q][f] ELSE flag[f]]
    /\ results' = (results \ deleted[q]) \cup found[q]
    /\ step' = [step EXCEPT ![q] = "idle"]
    /\ found' = [found EXCEPT ![q] = {}]
    /\ wrote' = [wrote EXCEPT ![q] = Nothing]
    /\ deleted' = [deleted EXCEPT ![q] = {}]
    /\ UNCHANGED <<key, kind, todo>>

Next ==
    \/ \E f \in Farmers, c \in Criteria, v \in Values \cup {NULL} : Edit(f, c, v)
    \/ \E q \in Requests, k \in {"fresh", "add", "reset"} : Start(q, k)
    \/ \E q \in Requests, c \in Criteria : Match(q, c)
    \/ \E q \in Requests : ResetFlags(q) \/ DeleteResults(q) \/ Mark(q) \/ Commit(q)

Init ==
    /\ key \in [Farmers -> [Criteria -> Values \cup {NULL}]]
    /\ flag = [f \in Farmers |-> FALSE]
    /\ results = {}
    /\ kind = [q \in Requests |-> "add"]
    /\ step = [q \in Requests |-> "idle"]
    /\ todo = [q \in Requests |-> {}]
    /\ found = [q \in Requests |-> {}]
    /\ wrote = [q \in Requests |-> Nothing]
    /\ deleted = [q \in Requests |-> {}]

Spec == Init /\ [][Next]_vars

----------------------------------------------------------------------------
TypeOK ==
    /\ key \in [Farmers -> [Criteria -> Values \cup {NULL}]]
    /\ flag \in [Farmers -> BOOLEAN]
    /\ results \subseteq Results
    /\ kind \in [Requests -> {"fresh", "add", "reset"}]
    /\ step \in [Requests -> Steps]
    /\ todo \in [Requests -> SUBSET Criteria]
    /\ found \in [Requests -> SUBSET Results]
    /\ wrote \in [Requests -> Flags]
    /\ deleted \in [Requests -> SUBSET Results]

\* However scans and resets overlap, the farmers a stored pair names are
\* flagged, so that the summary and the list of pairs never contradict each
\* other that way round.
PairsFlagged == \A r \in results : \A f \in r.pair : flag[f]

----------------------------------------------------------------------------
(* Why: the flags of one request are locked until it commits. *)

LocksApart == \A q, o \in Requests : q # o => DOMAIN wrote[q] \cap DOMAIN wrote[o] = {}

\* What a request leaves in the table names nobody whose flag it clears.
ClearedAreDeleted ==
    \A q \in Requests : step[q] \in {"match", "mark", "commit"} =>
        \A r \in results \ deleted[q] : \A f \in r.pair :
            f \in DOMAIN wrote[q] => wrote[q][f]

NothingYet ==
    \A q \in Requests :
        /\ step[q] \in {"idle", "flags", "results"} => found[q] = {}
        /\ step[q] \in {"idle", "flags"} => DOMAIN wrote[q] = {}

FoundAreMarked ==
    \A q \in Requests : step[q] = "commit" =>
        \A r \in found[q] : \A f \in r.pair : f \in DOMAIN wrote[q] /\ wrote[q][f]

Inductive ==
    /\ TypeOK /\ PairsFlagged /\ LocksApart
    /\ ClearedAreDeleted /\ NothingYet /\ FoundAreMarked

=============================================================================
