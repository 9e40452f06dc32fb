------------------------- MODULE KafkaConsumerProofs -------------------------
(***************************************************************************)
(* What the Kafka intake guarantees for every group of supervisors, every   *)
(* partition and every number of faults.  The induction is carried by IInv: *)
(* what the partition's owner has read is covered, except for the message   *)
(* in its hands.  OffsetCovered alone is not inductive, because a commit    *)
(* takes the owner's position.                                              *)
(***************************************************************************)
EXTENDS KafkaConsumer, TLAPS

USE NobodyAssumption, BoundsAssumption, EventAssumption DEF Offsets

-----------------------------------------------------------------------------
(* Types.                                                                  *)

LEMMA InitInv == Init => IInv
  BY DEF Init, IInv, TypeOK, OffsetCovered, OwnerInv, HandInv, Steps

LEMMA LeaveType ==
    ASSUME TypeOK, NEW c \in Consumers, NEW step \in Steps, Leave(c, step)
    PROVE  pc' \in [Consumers -> Steps] /\ owner' \in Consumers \cup {Nobody}
  BY DEF TypeOK, Leave

LEMMA ReturnType ==
    ASSUME TypeOK, NEW c \in Consumers, Return(c)
    PROVE  pc' \in [Consumers -> Steps] /\ owner' \in Consumers \cup {Nobody}
  BY LeaveType DEF Return, Steps

LEMMA TypeStep == IInv /\ [Next]_vars => TypeOK'
  <1> SUFFICES ASSUME IInv, [Next]_vars PROVE TypeOK'
    OBVIOUS
  <1> USE DEF IInv
  <1>1. CASE Produce
    BY <1>1 DEF Produce, TypeOK, dbVars, procVars
  <1>2. CASE SetActive
    <2>1. active' \in BOOLEAN
      BY <1>2, Zenon DEF SetActive
    <2>2. UNCHANGED <<log, committed, owner, done, dlq, received, pc, position,
                      msg, faults>>
      BY <1>2 DEF SetActive, brokerVars, procVars
    <2>3. QED
      BY <2>1, <2>2 DEF TypeOK
  <1>3. ASSUME NEW e \in Events, ReplaySends(e) PROVE TypeOK'
    BY <1>3 DEF ReplaySends, TypeOK, brokerVars, dbVars, procVars
  <1>4. ASSUME NEW e \in Events, ReplayCommits(e) PROVE TypeOK'
    BY <1>4 DEF ReplayCommits, TypeOK, brokerVars, procVars
  <1>5. ASSUME NEW c \in Consumers, Assign(c) \/ Rebalance(c) PROVE TypeOK'
    <2>1. AssignTo(c) /\ faults' \in Nat
      BY <1>5 DEF Assign, Rebalance, TypeOK
    <2>2. UNCHANGED <<active, done, dlq, log, committed, received, pc, msg>>
      BY <2>1 DEF AssignTo, dbVars
    <2>3. owner' = c /\ position' \in [Consumers -> 0 .. MaxOffset]
      BY <2>1 DEF AssignTo, TypeOK
    <2>4. QED
      BY <2>1, <2>2, <2>3 DEF TypeOK
  <1>6. ASSUME NEW c \in Consumers, Boot(c) \/ Start(c) PROVE TypeOK'
    BY <1>6 DEF Boot, Start, TypeOK, brokerVars, dbVars, Steps
  <1>7. ASSUME NEW c \in Consumers, Fetch(c) PROVE TypeOK'
    BY <1>7 DEF Fetch, TypeOK, brokerVars, dbVars, Steps
  <1>8. ASSUME NEW c \in Consumers, Disabled(c) PROVE TypeOK'
    BY <1>8, ReturnType DEF Disabled, TypeOK, dbVars
  <1>9. ASSUME NEW c \in Consumers, Ingest(c) \/ DeadLetter(c) PROVE TypeOK'
    <2>1. EventOf[msg[c]] \in Events
      BY <1>9 DEF Ingest, DeadLetter, HandInv
    <2>2. QED
      BY <1>9, <2>1 DEF Ingest, DeadLetter, TypeOK, brokerVars, Steps
  <1>10. ASSUME NEW c \in Consumers, Raise(c) PROVE TypeOK'
    <2>1. EventOf[msg[c]] \in Events
      BY <1>10 DEF Raise, HandInv
    <2>2. pc' \in [Consumers -> Steps] /\ owner' \in Consumers \cup {Nobody}
      BY <1>10, LeaveType DEF Raise, Steps
    <2>3. QED
      BY <1>10, <2>1, <2>2 DEF Raise, TypeOK, dbVars
  <1>11. ASSUME NEW c \in Consumers,
                BrokerFails(c) \/ AckRefused(c) \/ Crash(c)
         PROVE  TypeOK'
    <2>1. pc' \in [Consumers -> Steps] /\ owner' \in Consumers \cup {Nobody}
      BY <1>11, LeaveType DEF BrokerFails, AckRefused, Crash, Steps
    <2>2. QED
      BY <1>11, <2>1 DEF BrokerFails, AckRefused, Crash, TypeOK, dbVars
  <1>12. ASSUME NEW c \in Consumers, Ack(c) PROVE TypeOK'
    BY <1>12 DEF Ack, Consumed, TypeOK, dbVars, Steps
  <1>13. ASSUME NEW c \in Consumers, Restart(c) PROVE TypeOK'
    <2>1. pc' \in [Consumers -> Steps] /\ owner' \in Consumers \cup {Nobody}
      BY <1>13, ReturnType DEF Restart, TypeOK, Steps
    <2>2. QED
      BY <1>13, <2>1 DEF Restart, TypeOK, dbVars
  <1>14. CASE UNCHANGED vars
    BY <1>14 DEF vars, TypeOK
  <1>15. QED
    BY <1>1, <1>2, <1>3, <1>4, <1>5, <1>6, <1>7, <1>8, <1>9, <1>10, <1>11,
       <1>12, <1>13, <1>14 DEF Next, Consume

-----------------------------------------------------------------------------
(* What is covered stays covered.                                          *)

\* Only a replay removes an entry, and by then the registry has the event.
LEMMA CoverGrows ==
    IInv /\ [Next]_vars => \A o \in Offsets : Covered(o) => Covered(o)'
  <1> SUFFICES ASSUME IInv, [Next]_vars
               PROVE  received \cup dlq \subseteq (received \cup dlq)'
    BY DEF Covered
  <1>1. ASSUME NEW e \in Events, ReplaySends(e) \/ ReplayCommits(e)
        PROVE  received \cup dlq \subseteq (received \cup dlq)'
    BY <1>1 DEF ReplaySends, ReplayCommits, dbVars
  <1>2. ASSUME NEW c \in Consumers,
               \/ Ingest(c) \/ DeadLetter(c) \/ Raise(c)
        PROVE  received \cup dlq \subseteq (received \cup dlq)'
    BY <1>2 DEF Ingest, DeadLetter, Raise, dbVars
  <1>3. ASSUME NEW c \in Consumers,
               \/ Assign(c) \/ Rebalance(c) \/ Boot(c) \/ Start(c) \/ Fetch(c)
               \/ Disabled(c) \/ Ack(c) \/ AckRefused(c) \/ Restart(c)
               \/ BrokerFails(c) \/ Crash(c)
        PROVE  UNCHANGED <<received, dlq>>
    BY <1>3 DEF Assign, Rebalance, AssignTo, Boot, Start, Fetch, Disabled, Ack,
                AckRefused, Restart, BrokerFails, Crash, dbVars
  <1>4. Produce \/ SetActive \/ UNCHANGED vars => UNCHANGED <<received, dlq>>
    BY DEF Produce, SetActive, vars, dbVars
  <1>5. QED
    BY <1>1, <1>2, <1>3, <1>4 DEF Next, Consume

-----------------------------------------------------------------------------
(* The partition's owner.                                                  *)

LEMMA HandStep == IInv /\ [Next]_vars => HandInv'
  <1> SUFFICES ASSUME IInv, [Next]_vars,
                      NEW d \in Consumers, pc'[d] = "got"
               PROVE  msg'[d] \in Offsets
    BY DEF HandInv
  <1> USE DEF IInv
  <1>1. ASSUME NEW c \in Consumers, Fetch(c) PROVE msg'[d] \in Offsets
    BY <1>1 DEF Fetch, TypeOK, HandInv
  <1>2. ASSUME NEW c \in Consumers,
               \/ Boot(c) \/ Start(c) \/ Disabled(c) \/ Ingest(c)
               \/ DeadLetter(c) \/ Ack(c) \/ AckRefused(c) \/ Restart(c)
               \/ Raise(c) \/ BrokerFails(c) \/ Crash(c)
        PROVE  msg' = msg /\ pc[d] = "got"
    BY <1>2 DEF Boot, Start, Disabled, Ingest, DeadLetter, Ack, AckRefused,
                Restart, Raise, BrokerFails, Crash, Return, Leave, TypeOK
  <1>3. ASSUME NEW c \in Consumers, Assign(c) \/ Rebalance(c)
        PROVE  msg' = msg /\ pc[d] = "got"
    BY <1>3 DEF Assign, Rebalance, AssignTo
  <1>4. ASSUME \/ Produce \/ SetActive \/ UNCHANGED vars
               \/ \E e \in Events : ReplaySends(e) \/ ReplayCommits(e)
        PROVE  msg' = msg /\ pc[d] = "got"
    BY <1>4 DEF Produce, SetActive, vars, ReplaySends, ReplayCommits, procVars
  <1>5. QED
    BY <1>1, <1>2, <1>3, <1>4 DEF Next, Consume, HandInv

\* Whoever owns the partition after a step of consumer c and did not before
\* starts from the committed offset; a consumer that stops owns nothing.
LEMMA OwnerStep == IInv /\ [Next]_vars => OwnerInv'
  <1> SUFFICES ASSUME IInv, [Next]_vars, NEW d \in Consumers, owner' = d
               PROVE  /\ committed' <= position'[d]
                      /\ \A o \in Offsets : o < position'[d] =>
                            Covered(o)' \/ (pc'[d] = "got" /\ o = msg'[d])
    BY DEF OwnerInv
  <1> USE DEF IInv
  <1>0. \A o \in Offsets : Covered(o) => Covered(o)'
    BY CoverGrows
  <1>1. ASSUME NEW c \in Consumers, Assign(c) \/ Rebalance(c)
        PROVE  /\ committed' <= position'[d]
               /\ \A o \in Offsets : o < position'[d] => Covered(o)
    <2>1. d = c /\ position'[d] = committed /\ committed' = committed
      BY <1>1 DEF Assign, Rebalance, AssignTo, TypeOK
    <2>2. QED
      BY <2>1 DEF OffsetCovered, Covered, TypeOK
  <1>2. ASSUME NEW c \in Consumers, Fetch(c)
        PROVE  /\ committed' <= position'[d]
               /\ \A o \in Offsets : o < position'[d] =>
                     Covered(o) \/ (pc'[d] = "got" /\ o = msg'[d])
    <2>1. d = c /\ owner = d /\ pc[d] = "poll" /\ committed' = committed
      BY <1>2 DEF Fetch, brokerVars
    <2>2. /\ position'[d] = position[d] + 1
          /\ msg'[d] = position[d]
          /\ position[d] \in Junk \/ pc'[d] = "got"
          /\ position[d] \in Nat /\ committed \in Nat
      BY <1>2, <2>1 DEF Fetch, TypeOK
    <2>3. /\ committed <= position[d]
          /\ \A o \in Offsets : o < position[d] => Covered(o)
      BY <2>1 DEF OwnerInv
    <2>4. QED
      BY <2>1, <2>2, <2>3 DEF Covered
  <1>3. ASSUME NEW c \in Consumers, Ingest(c) \/ DeadLetter(c)
        PROVE  /\ committed' <= position'[d]
               /\ \A o \in Offsets : o < position'[d] =>
                     Covered(o)' \/ (pc'[d] = "got" /\ o = msg'[d])
    <2>1. UNCHANGED <<committed, owner, position, msg>>
      BY <1>3 DEF Ingest, DeadLetter, brokerVars
    <2>2. Covered(msg[c])'
      BY <1>3, <2>1 DEF Ingest, DeadLetter, Covered
    <2>3. c # d => pc'[d] = pc[d]
      BY <1>3 DEF Ingest, DeadLetter, TypeOK
    <2>4. QED
      BY <1>0, <2>1, <2>2, <2>3 DEF OwnerInv
  <1>4. ASSUME NEW c \in Consumers, Ack(c)
        PROVE  /\ committed' <= position'[d]
               /\ \A o \in Offsets : o < position'[d] =>
                     Covered(o) \/ (pc'[d] = "got" /\ o = msg'[d])
    <2>1. UNCHANGED <<owner, position, msg>> /\ owner = d
      BY <1>4 DEF Ack
    <2>2. pc[c] = "ack" /\ (c # d => pc'[d] = pc[d])
      BY <1>4 DEF Ack, TypeOK
    <2>3. committed' <= position[d]
      BY <1>4, <2>1 DEF Ack, Consumed, OwnerInv, TypeOK
    <2>4. QED
      BY <2>1, <2>2, <2>3 DEF OwnerInv
  <1>5. ASSUME NEW c \in Consumers,
               \/ Disabled(c) \/ AckRefused(c) \/ Restart(c)
               \/ Raise(c) \/ BrokerFails(c) \/ Crash(c)
        PROVE  /\ UNCHANGED <<committed, position, msg>>
               /\ owner = d
               /\ pc[d] = "got" => pc'[d] = "got"
    <2>1. UNCHANGED <<committed, position, msg>>
      BY <1>5 DEF Disabled, AckRefused, Restart, Raise, BrokerFails, Crash
    <2>2. \/ owner' = IF owner = c THEN Nobody ELSE owner
          \/ owner' = owner /\ pc[c] = "backoff"
      BY <1>5 DEF Disabled, AckRefused, Restart, Raise, BrokerFails, Crash,
                  Return, Leave
    <2>3. d # Nobody /\ owner = d
      BY <2>2
    <2>4. c # d => pc'[d] = pc[d]
      BY <1>5 DEF Disabled, AckRefused, Restart, Raise, BrokerFails, Crash,
                  Return, Leave, TypeOK
    <2>5. QED
      BY <2>1, <2>2, <2>3, <2>4
  <1>6. ASSUME NEW c \in Consumers, Boot(c) \/ Start(c)
        PROVE  /\ UNCHANGED <<committed, position, msg, owner>>
               /\ pc[d] = "got" => pc'[d] = "got"
    BY <1>6 DEF Boot, Start, TypeOK, brokerVars
  <1>7. ASSUME \/ Produce \/ SetActive \/ UNCHANGED vars
               \/ \E e \in Events : ReplaySends(e) \/ ReplayCommits(e)
        PROVE  UNCHANGED <<committed, position, msg, owner, pc>>
    BY <1>7 DEF Produce, SetActive, vars, ReplaySends, ReplayCommits,
                procVars, brokerVars
  <1>8. ASSUME UNCHANGED <<committed, position, msg, owner>>,
               pc[d] = "got" => pc'[d] = "got"
        PROVE  /\ committed' <= position'[d]
               /\ \A o \in Offsets : o < position'[d] =>
                     Covered(o)' \/ (pc'[d] = "got" /\ o = msg'[d])
    BY <1>0, <1>8 DEF OwnerInv
  <1>9. QED
    BY <1>0, <1>1, <1>2, <1>3, <1>4, <1>5, <1>6, <1>7, <1>8 DEF Next, Consume

-----------------------------------------------------------------------------
(* The offset.                                                             *)

\* The committed offset stays, or an owner with nothing in its hands commits
\* how far it has read.
LEMMA CommitStep ==
    ASSUME IInv, [Next]_vars
    PROVE  \/ UNCHANGED committed
           \/ \E c \in Consumers :
                /\ Ack(c)
                /\ owner = c /\ pc[c] = "ack" /\ committed' = position[c]
  <1> USE DEF IInv
  <1>1. ASSUME NEW c \in Consumers, Ack(c)
        PROVE  \/ UNCHANGED committed
               \/ owner = c /\ pc[c] = "ack" /\ committed' = position[c]
    BY <1>1 DEF Ack, Consumed
  <1>2. ASSUME NEW c \in Consumers,
               \/ Assign(c) \/ Rebalance(c) \/ Boot(c) \/ Start(c) \/ Fetch(c)
               \/ Disabled(c) \/ Ingest(c) \/ DeadLetter(c) \/ AckRefused(c)
               \/ Restart(c) \/ Raise(c) \/ BrokerFails(c) \/ Crash(c)
        PROVE  UNCHANGED committed
    BY <1>2 DEF Assign, Rebalance, AssignTo, Boot, Start, Fetch, Disabled,
                Ingest, DeadLetter, AckRefused, Restart, Raise, BrokerFails,
                Crash, brokerVars
  <1>3. ASSUME \/ Produce \/ SetActive \/ UNCHANGED vars
               \/ \E e \in Events : ReplaySends(e) \/ ReplayCommits(e)
        PROVE  UNCHANGED committed
    BY <1>3 DEF Produce, SetActive, vars, ReplaySends, ReplayCommits, brokerVars
  <1>4. QED
    BY <1>1, <1>2, <1>3 DEF Next, Consume

LEMMA CoveredStep == IInv /\ [Next]_vars => OffsetCovered'
  <1> SUFFICES ASSUME IInv, [Next]_vars,
                      NEW o \in Offsets \ Junk, o < committed'
               PROVE  Covered(o)
    BY CoverGrows DEF OffsetCovered, Covered
  <1>1. CASE UNCHANGED committed
    BY <1>1 DEF IInv, OffsetCovered, Covered
  <1>2. ASSUME NEW c \in Consumers,
               owner = c, pc[c] = "ack", committed' = position[c]
        PROVE  Covered(o)
    BY <1>2 DEF IInv, OwnerInv
  <1>3. QED
    BY <1>1, <1>2, CommitStep

THEOREM Inductive == Spec => []IInv
  <1>1. IInv /\ [Next]_vars => IInv'
    BY TypeStep, HandStep, OwnerStep, CoveredStep DEF IInv
  <1>2. QED
    BY InitInv, <1>1, PTL DEF Spec

\* Consumers, offsets and events keep their types, whoever owns the partition.
THEOREM TypeCorrect == Spec => []TypeOK
  <1>1. IInv => TypeOK
    BY DEF IInv
  <1>2. QED
    BY Inductive, <1>1, PTL

\* Below the committed offset every message is in the registry or dead-lettered:
\* the commit follows the transaction, and it never covers a message that was
\* read but not settled.
THEOREM OffsetsAreCovered == Spec => []OffsetCovered
  <1>1. IInv => OffsetCovered
    BY DEF IInv
  <1>2. QED
    BY Inductive, <1>1, PTL

\* The group's offset never moves back.
THEOREM OffsetsAdvance == Spec => OffsetAdvances
  <1>1. IInv /\ [Next]_vars => [committed' >= committed]_vars
    <2> SUFFICES ASSUME IInv, [Next]_vars PROVE committed' >= committed
      OBVIOUS
    <2>1. committed \in Nat
      BY DEF IInv, TypeOK
    <2>2. QED
      BY <2>1, CommitStep DEF IInv, OwnerInv, TypeOK
  <1>2. QED
    BY Inductive, <1>1, PTL DEF Spec, OffsetAdvances

-----------------------------------------------------------------------------
(* The abstract promise.                                                   *)

Settled == {EventOf[o] : o \in {q \in Offsets \ Junk : q < committed}}

\* A commit settles the events it passes; each of them is covered.
LEMMA CommitSettles ==
    ASSUME IInv, NEW c \in Consumers, Ack(c), Next
    PROVE  Promise!Next \/ UNCHANGED Promise!vars
  <1>1. IInv'
    BY TypeStep, HandStep, OwnerStep, CoveredStep DEF IInv
  <1>2. UNCHANGED <<received, dlq>>
    BY DEF Ack, dbVars
  <1>3. committed \in Nat /\ committed' \in Nat /\ committed <= committed'
    BY <1>1, CommitStep DEF IInv, TypeOK, OwnerInv
  <1>4. Settled' = Settled \cup Settled'
    BY <1>3 DEF Settled
  <1>5. Settled' \subseteq received \cup dlq
    BY <1>1, <1>2 DEF Settled, IInv, OffsetCovered
  <1>6. Settled' \in SUBSET Events /\ dlq \in SUBSET Events
    BY EventAssumption DEF Settled, IInv, TypeOK
  <1>7. \E ended, stays \in SUBSET Events :
           /\ dlq \ stays \subseteq received
           /\ ended \subseteq received \cup stays
           /\ dlq' = stays
           /\ Settled' = Settled \cup ended
           /\ UNCHANGED received
    BY <1>2, <1>4, <1>5, <1>6
  <1>8. QED
    BY <1>7 DEF Promise!Next, Promise!Settle, Settled

\* An entry comes or goes and no offset moves.
LEMMA QueueSettles ==
    ASSUME NEW stays \in SUBSET Events, dlq \ stays \subseteq received,
           dlq' = stays, UNCHANGED <<committed, received>>
    PROVE  Promise!Next
  <1>1. \E ended, left \in SUBSET Events :
           /\ dlq \ left \subseteq received
           /\ ended \subseteq received \cup left
           /\ dlq' = left
           /\ Settled' = Settled \cup ended
           /\ UNCHANGED received
    <2> WITNESS {} \in SUBSET Events, stays \in SUBSET Events
    <2> QED
      BY DEF Settled
  <1>2. QED
    BY <1>1 DEF Promise!Next, Promise!Settle, Settled

LEMMA PromiseAccepts ==
    ASSUME NEW e \in Events, received' = received \cup {e},
           UNCHANGED <<committed, dlq>>
    PROVE  Promise!Next
  BY DEF Promise!Next, Promise!Accept

LEMMA PromiseStutters ==
    ASSUME UNCHANGED <<committed, received, dlq>>
    PROVE  UNCHANGED Promise!vars
  BY DEF Promise!vars

\* The Kafka intake keeps the promise of Delivery: the events below the
\* committed offset are the settled ones.
THEOREM Refinement == Spec => ImplementsDelivery
  <1>1. Init => Promise!Init
    BY DEF Init, Promise!Init
  <1>2. IInv /\ [Next]_vars => [Promise!Next]_(Promise!vars)
    <2> SUFFICES ASSUME IInv, [Next]_vars
                 PROVE  Promise!Next \/ UNCHANGED Promise!vars
      OBVIOUS
    <2> USE DEF IInv
    <2>1. ASSUME NEW e \in Events, ReplaySends(e) PROVE Promise!Next
      BY <2>1, PromiseAccepts DEF ReplaySends, brokerVars, dbVars
    <2>2. ASSUME NEW e \in Events, ReplayCommits(e) PROVE Promise!Next
      <3>1. dlq \ {e} \in SUBSET Events
        BY DEF TypeOK
      <3>2. QED
        BY <2>2, <3>1, QueueSettles DEF ReplayCommits, brokerVars
    <2>3. ASSUME NEW c \in Consumers, Ingest(c) PROVE Promise!Next
      <3>1. EventOf[msg[c]] \in Events
        BY <2>3 DEF Ingest, HandInv
      <3>2. QED
        BY <2>3, <3>1, PromiseAccepts DEF Ingest, brokerVars
    <2>4. ASSUME NEW c \in Consumers, DeadLetter(c) PROVE Promise!Next
      <3>1. dlq \cup {EventOf[msg[c]]} \in SUBSET Events
        BY <2>4 DEF DeadLetter, HandInv, TypeOK
      <3>2. QED
        BY <2>4, <3>1, QueueSettles DEF DeadLetter, brokerVars
    <2>5. ASSUME NEW c \in Consumers, Raise(c)
          PROVE  Promise!Next \/ UNCHANGED Promise!vars
      <3>1. EventOf[msg[c]] \in Events
        BY <2>5 DEF Raise, HandInv
      <3>2. QED
        BY <2>5, <3>1, PromiseAccepts, PromiseStutters DEF Raise, dbVars
    <2>6. ASSUME NEW c \in Consumers, Ack(c)
          PROVE  Promise!Next \/ UNCHANGED Promise!vars
      BY <2>6, CommitSettles DEF Next, Consume
    <2>7. ASSUME NEW c \in Consumers,
                 \/ Assign(c) \/ Rebalance(c) \/ Boot(c) \/ Start(c)
                 \/ Fetch(c) \/ Disabled(c) \/ AckRefused(c) \/ Restart(c)
                 \/ BrokerFails(c) \/ Crash(c)
          PROVE  UNCHANGED <<committed, received, dlq>>
      BY <2>7 DEF Assign, Rebalance, AssignTo, Boot, Start, Fetch, Disabled,
                  AckRefused, Restart, BrokerFails, Crash, dbVars, brokerVars
    <2>8. Produce \/ SetActive \/ UNCHANGED vars
             => UNCHANGED <<committed, received, dlq>>
      BY DEF Produce, SetActive, vars, dbVars, brokerVars
    <2>9. QED
      BY <2>1, <2>2, <2>3, <2>4, <2>5, <2>6, <2>7, <2>8, PromiseStutters
      DEF Next, Consume
  <1>3. QED
    BY Inductive, <1>1, <1>2, PTL DEF Spec, ImplementsDelivery, Promise!Spec

=============================================================================
