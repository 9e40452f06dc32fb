---------------------------- MODULE LivenessMC ----------------------------
(* What must happen in the end, in the three parts that wait for something: *)
(* sessions for key rows (Ingestion), submissions for a poll (OdkPoll), and *)
(* containers for the schema (BootSchema).  They share no state: focus is   *)
(* the part whose steps a behaviour shows, and that part alone is fair.     *)
EXTENDS IngestionMC

CONSTANTS Entries, Polls

VARIABLES
    focus,
    there, stamp, clock, conf, ckpt, done, parked, sent, poll, resetDue,
    col, tables, stage, pos, view, fresh, crashes

form   == <<there, stamp, clock, conf, ckpt, done, parked, sent, poll, resetDue>>
schema == <<col, tables, stage, pos, view, fresh, crashes>>
all    == <<focus, vars, form, schema>>

\* By date two submissions a poll, so that one poll is not enough, and a full
\* scan that can read all of them.
Complete ==
    {[mode |-> "timestamp", supported |-> TRUE, strict |-> TRUE, top |-> 1, pages |-> 2],
     [mode |-> "timestamp", supported |-> FALSE, strict |-> FALSE, top |-> 1, pages |-> 3]}

Odk == INSTANCE OdkPoll WITH
    Configs <- Complete, MaxClock <- 3, MaxTies <- 1, TiesByArrival <- TRUE, Poison <- {},
    CanReset <- FALSE, dlq <- parked

Schema == INSTANCE BootSchema WITH
    Procs <- {"staff-api", "partner-api"}, LandSizes <- {"new"},
    MaxCrashes <- 1

AllInit ==
    /\ focus \in {"sessions", "polls", "boot"}
    /\ Init /\ Odk!Init /\ Schema!Init
    /\ focus # "boot" => tables = FALSE
    /\ focus # "polls" => conf = CHOOSE c \in Complete : TRUE

\* The two sessions and the two polls.
First  == CHOOSE s \in Sessions : TRUE
Second == CHOOSE s \in Sessions : s # First
FirstPoll  == CHOOSE p \in Polls : TRUE
SecondPoll == CHOOSE p \in Polls : p # FirstPoll

AllNext ==
    /\ UNCHANGED focus
    /\ \/ focus = "sessions" /\ Next /\ UNCHANGED <<form, schema>>
       \/ focus = "polls" /\ Odk!Next /\ UNCHANGED <<vars, schema>>
       \/ focus = "boot" /\ Schema!Next /\ UNCHANGED <<vars, form>>

\* The fairness of each part.  A poll task is idle or in a poll, so starting
\* one and going on with it share one condition; and as focus never changes,
\* the first parts of all three share one, and so do the second ones.
Runs(s, p, c) ==
    /\ UNCHANGED focus
    /\ \/ /\ focus = "sessions" /\ (ProcessRecord(s) \/ Commit(s))
          /\ UNCHANGED <<form, schema>>
       \/ /\ focus = "polls" /\ (Odk!StartPoll(p) \/ Odk!PollStep(p))
          /\ UNCHANGED <<vars, schema>>
       \/ focus = "boot" /\ Schema!Step(c) /\ UNCHANGED <<vars, form>>
Waits(s) ==
    focus = "sessions" /\ (Bump(s) \/ InsertKey(s)) /\ UNCHANGED <<focus, form, schema>>

AllFair ==
    /\ WF_all(Runs(First, FirstPoll, "staff-api"))
    /\ WF_all(Runs(Second, SecondPoll, "partner-api"))
    /\ \A s \in Sessions : SF_all(Waits(s))

AllSpec == AllInit /\ [][AllNext]_all /\ AllFair

----------------------------------------------------------------------------
\* OdkPoll: every submission is ingested or dead-lettered in the end.
EventuallyIngested == <>[](focus = "polls" => Odk!AllIngested)

\* BootSchema: every container ends up serving.
EventuallyServing == <>[](focus = "boot" => Schema!AllServing)

=============================================================================
