------------------------------ MODULE KafkaPlugins -----------------------------
(* pkg/storage/plugins/kafka: a topic per type, a synchronous writer. *)
EXTENDS Plugins

\* Initialize builds the writer and contacts nobody.
InitializeKafka(t) == kind = "kafka" /\ Initialized(t, {"open"})

InitializeKafkaGameplay == InitializeKafka("gameplay")
InitializeKafkaPerformance == InitializeKafka("performance")
InitializeKafkaUserBehavior == InitializeKafka("user_behavior")

TransformMessages(c) == kind = "kafka" /\ Transform(c, FALSE)

\* WriteMessages waits for all replicas, unless its context ends; what it has
\* handed to the writer by then is sent all the same, until Close.  It refuses
\* the whole call for a message that is too large; partitions fail on their own.
WriteMessages(c, topic) ==
    LET sends == condition \in {"healthy", "flaky"} /\ (call[c].dead => plugin[typeOf[c]] = "open")
    IN /\ kind = "kafka" /\ call[c].pc = "send"
       /\ \/ /\ sends /\ Rows(c) \cap Rejected = {}
             /\ \E S \in SUBSET Rows(c) :
                   /\ ~Faulty(c) => S = Rows(c)
                   /\ Add(<<topic, None>>, S)
                   /\ \E ok \in {S = Rows(c), S = Rows(c) /\ ~Faulty(c)} : Return(c, ok)
          \/ (~sends \/ Rows(c) \cap Rejected # {}) /\ Return(c, FALSE) /\ UNCHANGED held
       /\ UNCHANGED <<setup, life, now, fresh>>

KafkaWriteGameplay(c) == typeOf[c] = "gameplay" /\ WriteMessages(c, "gameplay")
KafkaWritePerformance(c) == typeOf[c] = "performance" /\ WriteMessages(c, "performance")
KafkaWriteUserBehavior(c) == typeOf[c] = "user_behavior" /\ WriteMessages(c, "user_behavior")

KafkaStep(c) ==
    \/ TransformMessages(c)
    \/ KafkaWriteGameplay(c) \/ KafkaWritePerformance(c) \/ KafkaWriteUserBehavior(c)
KafkaSetup ==
    InitializeKafkaGameplay \/ InitializeKafkaPerformance \/ InitializeKafkaUserBehavior

\* The writer sends what it still holds, and takes no more.
CloseKafka(t) == kind = "kafka" /\ Close(t)

CloseKafkaGameplay == CloseKafka("gameplay")
CloseKafkaPerformance == CloseKafka("performance")
CloseKafkaUserBehavior == CloseKafka("user_behavior")

KafkaTeardown == CloseKafkaGameplay \/ CloseKafkaPerformance \/ CloseKafkaUserBehavior
=============================================================================
