----------------------------- MODULE Checkpoint -----------------------------
(***************************************************************************)
(* The checkpoint algebra of transports/checkpoints.py: how a transport    *)
(* says "I made forward progress" and how the poll loop of worker.py folds *)
(* the checkpoints of the records it ingests into the one it persists.     *)
(*                                                                         *)
(* A value stands for its string: numbers keep the order the code compares *)
(* strings in, and NoValue is None, which _str_or_empty sorts first.       *)
(* boundary_ids is a set: only membership is ever asked of it.             *)
(***************************************************************************)
EXTENDS Naturals

NoValue == 0
Modes == {"sequence", "timestamp", "page_token", "full_scan"}

Checkpoints(Ids) == [mode : Modes, value : Nat, ids : SUBSET Ids]

\* "No checkpoint": an absent, empty or unreadable blob in poll_state_json.
NoCheckpoint == [mode |-> "none", value |-> NoValue, ids |-> {}]

\* Checkpoint.is_advanced_over
IsAdvancedOver(c, prev) ==
    \/ /\ prev = NoCheckpoint
       /\ c.mode # "full_scan"
       /\ c.value # NoValue
    \/ /\ prev # NoCheckpoint
       /\ \/ prev.mode # c.mode
          \/ /\ c.mode = "sequence"
             /\ c.value > prev.value
          \/ /\ c.mode = "timestamp"
             /\ \/ c.value > prev.value
                \/ c.value = prev.value /\ ~(c.ids \subseteq prev.ids)
          \/ /\ c.mode = "page_token"
             /\ c.value # prev.value

\* Mutant of MergedWith: the newest boundary id replaces the older ones.
NotMerged(c, prev) == c

\* Checkpoint.merged_with
MergedWith(c, prev) ==
    IF c.mode = "timestamp" /\ prev.mode = "timestamp" /\ prev.value = c.value
    THEN [c EXCEPT !.ids = prev.ids \cup c.ids]
    ELSE c

\* One turn of the poll loop: the checkpoint after ingesting a record whose
\* checkpoint is c, when it was cur before.
Advance(cur, c) ==
    LET merged == MergedWith(c, cur)
    IN  IF IsAdvancedOver(merged, cur) THEN merged ELSE cur

\* c is no step back from prev: a timestamp poll that starts from c returns
\* nothing a poll from prev would not have returned.
NoStepBack(prev, c) ==
    prev.mode = c.mode =>
        \/ c.value > prev.value
        \/ c.value = prev.value /\ prev.ids \subseteq c.ids

=============================================================================
