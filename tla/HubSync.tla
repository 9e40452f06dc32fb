------------------------------ MODULE HubSync -------------------------------
(* Synchronisation of a WebSub connector's subscriptions with its hub: for  *)
(* every topic a registration, which may fail because it is not the first,  *)
(* and a subscription, which the hub verifies later by a challenge at the   *)
(* callback.  The hub forgets everything when it restarts.                  *)
EXTENDS FiniteSets, Sequences, SequencesExt

CONSTANTS
    Topics,      \* sequence of the resolved topics
    Callbacks,   \* callback URLs an operator may have configured
    MaxEdits,    \* bound on the edits of the connector
    NULL         \* no synchronisation, no report

VARIABLES
    active,      \* the connector is enabled and not paused
    callback,    \* its callback_url
    registered,  \* topics the hub knows
    subs,        \* subscriptions at the hub: topic, callback, verified or not
    refused,     \* subscriptions whose challenge failed since they were made
    sync,        \* the request in progress
    report,      \* its last answer
    edits        \* edits of the connector so far

vars == <<active, callback, registered, subs, refused, sync, report, edits>>

Sub(t, c) == [topic |-> t, callback |-> c]

----------------------------------------------------------------------------
StartSync ==
    /\ sync = NULL
    /\ sync' = [todo |-> Topics, callback |-> callback, asked |-> FALSE,
                ok |-> [t \in {} |-> TRUE], hubUp |-> TRUE]
    /\ UNCHANGED <<active, callback, registered, subs, refused, report, edits>>

\* Best effort: the outcome is logged, and the subscription tried anyway.
Register ==
    /\ sync # NULL /\ sync.todo # <<>> /\ ~sync.asked
    /\ registered' \in {registered, registered \cup {Head(sync.todo)}}
    /\ sync' = [sync EXCEPT !.asked = TRUE]
    /\ UNCHANGED <<active, callback, subs, refused, report, edits>>

\* Mutant of Answered: the topic is taken for subscribed once it is registered.
AnsweredByRegister(ok, made) == ok = (Head(sync.todo) \in registered)

\* The outcome noted for a topic, when the hub has made the subscription or
\* not; the answer of one it has made may be lost.
Answered(ok, made) == ok => made

\* The hub subscribes to topics it knows.
Subscribe ==
    /\ sync # NULL /\ sync.asked
    /\ LET t == Head(sync.todo) IN
       \E made, ok \in BOOLEAN :
          /\ made => t \in registered
          /\ Answered(ok, made)
          /\ subs' = IF made THEN {s \in subs : s.sub # Sub(t, sync.callback)} \cup
                                  {[sub |-> Sub(t, sync.callback), verified |-> FALSE]}
                     ELSE subs
          /\ refused' = IF made THEN refused \ {Sub(t, sync.callback)} ELSE refused
          /\ sync' = [sync EXCEPT !.todo = Tail(@), !.asked = FALSE,
                          !.ok = [u \in DOMAIN @ \cup {t} |-> IF u = t THEN ok ELSE @[u]]]
    /\ UNCHANGED <<active, callback, registered, report, edits>>

Report ==
    /\ sync # NULL /\ sync.todo = <<>>
    /\ report' = [ok |-> sync.ok, callback |-> sync.callback, hubUp |-> sync.hubUp,
                  all |-> \A t \in DOMAIN sync.ok : sync.ok[t]]
    /\ sync' = NULL
    /\ UNCHANGED <<active, callback, registered, subs, refused, edits>>

\* The client that asked for the synchronisation hangs up, or the API dies.
Abort ==
    /\ sync # NULL
    /\ sync' = NULL
    /\ UNCHANGED <<active, callback, registered, subs, refused, report, edits>>

\* The hub asks the callback to echo a challenge: only an active connector
\* that answers there does.
Challenge(s) ==
    /\ s \in subs /\ ~s.verified
    /\ IF active /\ s.sub.callback = callback
       THEN /\ subs' = (subs \ {s}) \cup {[s EXCEPT !.verified = TRUE]}
            /\ UNCHANGED refused
       ELSE /\ subs' = subs \ {s}
            /\ refused' = refused \cup {s.sub}
    /\ UNCHANGED <<active, callback, registered, sync, report, edits>>

HubRestarts ==
    /\ registered' = {} /\ subs' = {} /\ refused' = {}
    /\ sync' = IF sync = NULL THEN NULL ELSE [sync EXCEPT !.hubUp = FALSE]
    /\ report' = IF report = NULL THEN NULL ELSE [report EXCEPT !.hubUp = FALSE]
    /\ UNCHANGED <<active, callback, edits>>

Edit(a, c) ==
    /\ edits < MaxEdits /\ <<a, c>> # <<active, callback>>
    /\ active' = a /\ callback' = c
    /\ edits' = edits + 1
    /\ UNCHANGED <<registered, subs, refused, sync, report>>

Next ==
    \/ StartSync \/ Register \/ Subscribe \/ Report \/ Abort
    \/ \E s \in subs : Challenge(s)
    \/ HubRestarts
    \/ \E a \in BOOLEAN, c \in Callbacks : Edit(a, c)

Init ==
    /\ active \in BOOLEAN /\ callback \in Callbacks
    /\ registered = {} /\ subs = {} /\ refused = {}
    /\ sync = NULL /\ report = NULL /\ edits = 0

Spec == Init /\ [][Next]_vars

----------------------------------------------------------------------------
Known == {s.sub : s \in subs}

TypeOK ==
    /\ active \in BOOLEAN /\ callback \in Callbacks
    /\ registered \subseteq ToSet(Topics)
    /\ subs \subseteq [sub : [topic : ToSet(Topics), callback : Callbacks], verified : BOOLEAN]
    /\ refused \cap Known = {}
    /\ edits \in 0..MaxEdits

\* connectors.py: a synchronisation is "idempotent: safe to re-run after hub
\* restarts".  What the last report calls subscribed is known to the hub,
\* or the connector did not answer its challenge; one topic that fails takes
\* no other with it, and every topic has its line.
ReportHolds ==
    report # NULL =>
        /\ DOMAIN report.ok = ToSet(Topics)
        /\ report.all = \A t \in ToSet(Topics) : report.ok[t]
        /\ report.hubUp =>
              \A t \in ToSet(Topics) :
                  report.ok[t] => Sub(t, report.callback) \in Known \cup refused

=============================================================================
