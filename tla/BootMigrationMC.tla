-------------------------- MODULE BootMigrationMC --------------------------
(* Instances of BootMigration for TLC. *)
EXTENDS BootMigration

\* Register rows of older releases: from every source, with every pair of
\* names, before and after the columns derived from others were filled.
OldRows ==
    {[state |-> IF f THEN "APPROVED" ELSE Blank, source |-> s, middle |-> m,
      father |-> p, hierarchy |-> h, region |-> f /\ h, local |-> TRUE,
      found |-> f, born |-> h, aged |-> f /\ h, clerk |-> f] :
        f \in BOOLEAN, h \in BOOLEAN, s \in Sources \cup {Blank},
        m \in AnyName, p \in AnyName}

=============================================================================
