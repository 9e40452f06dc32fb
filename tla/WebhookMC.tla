----------------------------- MODULE WebhookMC ------------------------------
(* A connector whose events carry the record below their data, as the path  *)
(* data.item says.                                                          *)
EXTENDS WebhookIntake, TLC

Nested == "e" :> {<<"source_event_id">>, <<"data", "item", "name">>}
DataItem == {[set |-> TRUE, envelope |-> <<"data", "item">>, data_path |-> <<>>]}

=============================================================================
