------------------------- MODULE ConnectorServiceMC -------------------------
(* The instances of the parts of the connector service for TLC.             *)
EXTENDS ConnectorService, OdkPollMC

\* An event that names itself, one in a box that only a configured envelope
\* opens, one whose "data" is no object, and one that routing raises over.
Bodies ==
    "named" :> {<<"source_event_id">>, <<"data", "name">>}
        @@ "boxed" :> {<<"payload", "name">>} @@ "scalar" :> {<<"data">>, <<"_id">>}
        @@ "odd" :> {<<"data", "message">>}
Setting(set, p, q) == [set |-> set, envelope |-> p, data_path |-> q]
Envelopes ==
    {Setting(FALSE, <<>>, <<>>), Setting(FALSE, <<>>, <<"data">>),
     Setting(TRUE, <<"payload">>, <<"data">>), Setting(TRUE, <<>>, <<"data">>)}

TwoTopics == <<"a", "b">>

\* A repeat in a group with another in it, beside one; and one with two in it,
\* of which one goes deeper.
Node(p, k) == [parent |-> p, kind |-> k]
Forms ==
    {"g" :> Node("root", "group") @@ "land" :> Node("g", "link")
        @@ "crop" :> Node("land", "link") @@ "herd" :> Node("root", "link"),
     "land" :> Node("root", "link") @@ "crop" :> Node("land", "link")
        @@ "input" :> Node("crop", "link") @@ "herd" :> Node("land", "link")}
UpToFive == 0 .. 5

\* Two runs of one time, one of a connector that is gone, and one to come.
RowOf(c, s, t) == [connector |-> c, status |-> s, created |-> t, time |-> t]
Listed ==
    {1 :> RowOf("a", "FAILED", 1) @@ 2 :> RowOf("b", "SUCCESS", 2)
        @@ 3 :> RowOf("gone", "FAILED", 3) @@ 4 :> RowOf("a", "FAILED", 2)}
ToCome == 5 :> [connector |-> "b", status |-> "FAILED"]
NameRanks == "a" :> 2 @@ "b" :> 1

=============================================================================
