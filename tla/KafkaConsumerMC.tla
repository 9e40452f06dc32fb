--------------------------- MODULE KafkaConsumerMC ---------------------------
(* Instances of KafkaConsumer for TLC.  The messages of the partition carry *)
(* one event each, except that the one at offset 2 repeats the event of the *)
(* one at offset 0.                                                         *)
EXTENDS KafkaConsumer

Repeated == CHOOSE e \in Events : TRUE

MCEventOf ==
    [o \in Offsets |->
        IF o % 2 = 0 \/ Events = {Repeated} THEN Repeated
        ELSE CHOOSE e \in Events \ {Repeated} : TRUE]

=============================================================================
