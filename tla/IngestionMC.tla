----------------------------- MODULE IngestionMC -----------------------------
(* Instances of Ingestion for TLC.  Sessions and sources are model values,  *)
(* sources told apart only by Keyless, so permuting them is sound for a     *)
(* run that checks an invariant.                                            *)
EXTENDS Ingestion, TLC

Symmetry ==
    Permutations(Sessions) \cup Permutations(Sources \ Keyless)

=============================================================================
