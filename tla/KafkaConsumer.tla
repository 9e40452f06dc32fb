---------------------------- MODULE KafkaConsumer ----------------------------
(***************************************************************************)
(* The Kafka intake of one connector: consumer_supervisor.py running        *)
(* KafkaEventConsumer.iter_messages over one partition, in one or more      *)
(* supervisor processes of a consumer group.  A message is processed in a   *)
(* transaction of its own; its offset is committed when the generator is    *)
(* resumed, which is after that transaction.                                *)
(*                                                                         *)
(* process_record is one step here (Ingestion has its interleavings).       *)
(* Abstracted: configuration, SASL, payloads, backoff times; enabled,       *)
(* paused and deleted connectors are told apart only by `active'.           *)
(***************************************************************************)
EXTENDS Naturals, FiniteSets

CONSTANTS
    Consumers,       \* supervisor processes
    Nobody,          \* no consumer
    MaxOffset,       \* bound: messages in the partition
    Events,          \* idempotency keys the messages carry
    EventOf,         \* the event of the message at each offset
    Junk,            \* offsets of messages that are not JSON
    Others,          \* the supervisor runs consumers of other connectors, too
    MaxFaults        \* bound: crashes, failed transactions and rebalances

ASSUME NobodyAssumption == Nobody \notin Consumers
ASSUME BoundsAssumption == MaxOffset \in Nat /\ MaxFaults \in Nat
ASSUME EventAssumption == EventOf \in [0 .. MaxOffset - 1 -> Events]
ASSUME JunkAssumption == Junk \subseteq 0 .. MaxOffset - 1
ASSUME OthersAssumption == Others \in BOOLEAN

Offsets == 0 .. MaxOffset - 1

VARIABLES
    \* the broker
    log,             \* messages in the partition
    committed,       \* the group's offset: the first message not consumed
    owner,           \* the consumer the partition is assigned to
    \* the connector's rows
    active,          \* enabled and not paused
    done,            \* idempotency keys
    dlq,             \* events with a dead-letter entry
    \* the registry
    received,        \* events it has accepted
    \* the processes
    pc, position, msg,
    \* history
    faults

brokerVars == <<log, committed, owner>>
dbVars == <<active, done, dlq>>
procVars == <<pc, position, msg>>
vars == <<log, committed, owner, active, done, dlq, received,
          pc, position, msg, faults>>

\* off: the process does not run; start: top of the consume loop; poll: waits
\* for a message; got: a record was yielded; ack: the transaction is committed,
\* the generator resumes; backoff: sleeps after an exception; returned: the
\* loop has ended in a process that runs on.
Steps == {"off", "start", "poll", "got", "ack", "backoff", "returned"}
Joined == {c \in Consumers : pc[c] \in {"poll", "got", "ack"}}

TypeOK ==
    /\ log \in 0 .. MaxOffset
    /\ committed \in 0 .. MaxOffset
    /\ owner \in Consumers \cup {Nobody}
    /\ active \in BOOLEAN
    /\ done \subseteq Events
    /\ dlq \subseteq Events
    /\ received \subseteq Events
    /\ pc \in [Consumers -> Steps]
    /\ position \in [Consumers -> 0 .. MaxOffset]
    /\ msg \in [Consumers -> 0 .. MaxOffset]
    /\ faults \in Nat

Init ==
    /\ log = 0 /\ committed = 0
    /\ owner = Nobody
    /\ active \in BOOLEAN
    /\ done = {} /\ dlq = {} /\ received = {}
    /\ pc = [c \in Consumers |-> "off"]
    /\ position = [c \in Consumers |-> 0]
    /\ msg = [c \in Consumers |-> 0]
    /\ faults = 0

-----------------------------------------------------------------------------
(* The broker and the operator.                                            *)

Produce ==
    /\ log < MaxOffset
    /\ log' = log + 1
    /\ UNCHANGED <<committed, owner, dbVars, received, procVars, faults>>

SetActive ==
    /\ active' = ~active
    /\ UNCHANGED <<brokerVars, done, dlq, received, procVars, faults>>

\* A replay of the event's entries sends it, unless its key is there, and
\* removes them when it commits; it may also end between the two.
ReplaySends(e) ==
    /\ e \in dlq \ done
    /\ received' = received \cup {e}
    /\ UNCHANGED <<brokerVars, dbVars, procVars, faults>>

ReplayCommits(e) ==
    /\ e \in dlq \cap received
    /\ done' = done \cup {e}
    /\ dlq' = dlq \ {e}
    /\ UNCHANGED <<brokerVars, active, received, procVars, faults>>

\* The new owner starts from the committed offset.
AssignTo(c) ==
    /\ owner' = c
    /\ position' = [position EXCEPT ![c] = committed]
    /\ UNCHANGED <<log, committed, dbVars, received, pc, msg>>

Assign(c) ==
    /\ owner = Nobody
    /\ c \in Joined
    /\ AssignTo(c)
    /\ UNCHANGED faults

\* The partition moves although its owner runs and may be at work.
Rebalance(c) ==
    /\ faults < MaxFaults
    /\ owner \notin {Nobody, c}
    /\ c \in Joined
    /\ AssignTo(c)
    /\ faults' = faults + 1

-----------------------------------------------------------------------------
(* The supervisor.                                                         *)

Leave(c, step) ==
    /\ pc' = [pc EXCEPT ![c] = step]
    /\ owner' = IF owner = c THEN Nobody ELSE owner

\* run_supervisor starts a loop for each connector that is active now; without
\* any it ends at once.
Boot(c) ==
    /\ pc[c] = "off"
    /\ active \/ Others
    /\ pc' = [pc EXCEPT ![c] = IF active THEN "start" ELSE "returned"]
    /\ UNCHANGED <<brokerVars, dbVars, received, position, msg, faults>>

Start(c) ==
    /\ pc[c] = "start"
    /\ pc' = [pc EXCEPT ![c] = "poll"]
    /\ UNCHANGED <<brokerVars, dbVars, received, position, msg, faults>>

\* The next message; one that is not JSON is committed without being yielded.
Fetch(c) ==
    /\ pc[c] = "poll"
    /\ owner = c
    /\ position[c] < log
    /\ msg' = [msg EXCEPT ![c] = position[c]]
    /\ position' = [position EXCEPT ![c] = @ + 1]
    /\ pc' = [pc EXCEPT ![c] = IF position[c] \in Junk THEN "ack" ELSE "got"]
    /\ UNCHANGED <<brokerVars, dbVars, received, faults>>

\* return from _consume_loop.  The process ends with its last loop.
Return(c) == Leave(c, IF Others THEN "returned" ELSE "off")

\* Mutant of Disabled: the message is committed on the way out.
DisabledCommits(c) ==
    /\ pc[c] = "got"
    /\ ~active
    /\ Return(c)
    /\ committed' = msg[c] + 1
    /\ UNCHANGED <<log, dbVars, received, position, msg, faults>>

\* The fresh row says that the connector is no longer active.
Disabled(c) ==
    /\ pc[c] = "got"
    /\ ~active
    /\ Return(c)
    /\ UNCHANGED <<log, committed, dbVars, received, position, msg, faults>>

\* process_record and commit: ingested now or a duplicate.
Ingest(c) ==
    /\ pc[c] = "got"
    /\ active
    /\ received' = received \cup {EventOf[msg[c]]}
    /\ done' = done \cup {EventOf[msg[c]]}
    /\ pc' = [pc EXCEPT ![c] = "ack"]
    /\ UNCHANGED <<brokerVars, active, dlq, position, msg, faults>>

\* Mutant of DeadLetter: no dead-letter entry.
DropFailed(c) ==
    /\ pc[c] = "got"
    /\ active
    /\ EventOf[msg[c]] \notin done
    /\ pc' = [pc EXCEPT ![c] = "ack"]
    /\ UNCHANGED <<brokerVars, dbVars, received, position, msg, faults>>

\* process_record and commit: a FAILED run and its dead-letter entry.
DeadLetter(c) ==
    /\ pc[c] = "got"
    /\ active
    /\ EventOf[msg[c]] \notin done
    /\ dlq' = dlq \cup {EventOf[msg[c]]}
    /\ pc' = [pc EXCEPT ![c] = "ack"]
    /\ UNCHANGED <<brokerVars, active, done, received, position, msg, faults>>

\* An exception leaves the transaction uncommitted, before or after the send.
Raise(c) ==
    /\ faults < MaxFaults
    /\ pc[c] = "got"
    /\ \/ UNCHANGED received
       \/ active /\ received' = received \cup {EventOf[msg[c]]}
    /\ Leave(c, "backoff")
    /\ faults' = faults + 1
    /\ UNCHANGED <<log, committed, dbVars, position, msg>>

\* The broker does not answer: start, getone or commit raises.
BrokerFails(c) ==
    /\ faults < MaxFaults
    /\ pc[c] \in {"start", "poll", "ack"}
    /\ Leave(c, "backoff")
    /\ faults' = faults + 1
    /\ UNCHANGED <<log, committed, dbVars, received, position, msg>>

\* Mutants of Consumed: the offset of the message, whoever owns the partition;
\* one message too many.
ConsumedByMessage(c) == msg[c] + 1
ConsumedAhead(c) == IF owner = c THEN position[c] + 1 ELSE committed

\* What consumer.commit() commits: how far the owner has read the partition.
Consumed(c) == IF owner = c THEN position[c] ELSE committed

\* The generator resumes and commits; without the partition there is nothing
\* to commit.
Ack(c) ==
    /\ pc[c] = "ack"
    /\ committed' = Consumed(c)
    /\ pc' = [pc EXCEPT ![c] = "poll"]
    /\ UNCHANGED <<log, owner, dbVars, received, position, msg, faults>>

\* The broker refuses the commit of a consumer that lost the partition.
AckRefused(c) ==
    /\ pc[c] = "ack"
    /\ owner # c
    /\ Leave(c, "backoff")
    /\ UNCHANGED <<log, committed, dbVars, received, position, msg, faults>>

\* Mutant of Restart: the exception ends the loop.
GiveUp(c) ==
    /\ pc[c] = "backoff"
    /\ pc' = [pc EXCEPT ![c] = "returned"]
    /\ UNCHANGED <<brokerVars, dbVars, received, position, msg, faults>>

\* After the backoff the connector is read again.
Restart(c) ==
    /\ pc[c] = "backoff"
    /\ IF active
       THEN pc' = [pc EXCEPT ![c] = "start"] /\ UNCHANGED owner
       ELSE Return(c)
    /\ UNCHANGED <<log, committed, dbVars, received, position, msg, faults>>

\* The process is killed, or that read fails and the error ends all loops.
Crash(c) ==
    /\ faults < MaxFaults
    /\ pc[c] # "off"
    /\ Leave(c, "off")
    /\ faults' = faults + 1
    /\ UNCHANGED <<log, committed, dbVars, received, position, msg>>

-----------------------------------------------------------------------------
Consume(c) ==
    \/ Boot(c) \/ Start(c) \/ Fetch(c)
    \/ Disabled(c) \/ Ingest(c) \/ DeadLetter(c)
    \/ Ack(c) \/ AckRefused(c) \/ Restart(c)

Next ==
    \/ Produce \/ SetActive
    \/ \E e \in Events : ReplaySends(e) \/ ReplayCommits(e)
    \/ \E c \in Consumers :
        \/ Assign(c) \/ Rebalance(c) \/ Consume(c)
        \/ Raise(c) \/ BrokerFails(c) \/ Crash(c)

Spec == Init /\ [][Next]_vars

\* A process that ends is started again, one that runs goes on, and the broker
\* assigns a partition nobody has.
Fairness == \A c \in Consumers : WF_vars(Consume(c)) /\ WF_vars(Assign(c))

FairSpec == Spec /\ Fairness

-----------------------------------------------------------------------------
(* Properties.                                                             *)

\* Below the committed offset everything is in the registry or dead-lettered,
\* except what was no JSON: whatever is interrupted between the transaction
\* and the commit is read again (kafka_consumer.py:103-104,
\* consumer_supervisor.py:69).
OffsetCovered ==
    \A o \in Offsets \ Junk :
        o < committed => EventOf[o] \in received \cup dlq

\* The group's offset never moves back, although a consumer that lost the
\* partition, or lost it and got it back, commits late.
OffsetAdvances == [][committed' >= committed]_vars

\* Every message is consumed in the end if the connector stays active from
\* some moment on (USER-MANUAL.md:380: "Processing stops until you clear it.").
EventuallyConsumed ==
    <>[]active => \A o \in Offsets : log > o ~> committed > o

\* The abstract promise, for the events of messages that are JSON.
Promise == INSTANCE Delivery WITH
    Sources <- Events,
    received <- received,
    parked <- dlq,
    settled <- {EventOf[o] : o \in {q \in Offsets \ Junk : q < committed}}

ImplementsDelivery == Promise!Spec

-----------------------------------------------------------------------------
(* The inductive invariant behind them.                                    *)

Covered(o) == o \in Junk \/ EventOf[o] \in received \cup dlq

\* What the owner has read is covered, but for the message in its hands, and
\* it has read at least what is committed.
OwnerInv ==
    \A c \in Consumers : owner = c =>
        /\ committed <= position[c]
        /\ \A o \in Offsets :
            o < position[c] => Covered(o) \/ (pc[c] = "got" /\ o = msg[c])

\* A message in somebody's hands is one of the partition's.
HandInv == \A c \in Consumers : pc[c] = "got" => msg[c] \in Offsets

IInv == TypeOK /\ OffsetCovered /\ OwnerInv /\ HandInv

=============================================================================
