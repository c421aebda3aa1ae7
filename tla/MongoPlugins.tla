------------------------------ MODULE MongoPlugins -----------------------------
(* pkg/storage/plugins/mongodb: a collection per type. *)
EXTENDS Plugins

\* Initialize pings the server and creates the indexes.
InitializeMongo(t) == kind = "mongodb" /\ Initialized(t, Contacted)

InitializeMongoGameplay == InitializeMongo("gameplay")
InitializeMongoPerformance == InitializeMongo("performance")
InitializeMongoUserBehavior == InitializeMongo("user_behavior")

\* A batch of which nothing can be marshalled is no error.
TransformDocuments(c) == kind = "mongodb" /\ Transform(c, TRUE)

Insertable_Ordered(rows) ==   \* mutant: SetOrdered(true), which stops at a rejected document
    IF rows \cap Rejected = {} THEN rows ELSE {}

Insertable(rows) == rows \ Rejected

\* An unordered InsertMany: every document succeeds or fails by itself, and an
\* error comes with the first that fails.
InsertMany(c, collection) ==
    /\ kind = "mongodb" /\ call[c].pc = "send"
    /\ \/ /\ Works(c)
          /\ \E S \in SUBSET Insertable(Rows(c)) :
                /\ ~Faulty(c) => S = Insertable(Rows(c))
                /\ Add(<<collection, None>>, S)
                /\ \E ok \in {S = Rows(c), S = Rows(c) /\ ~Faulty(c)} : Return(c, ok)
       \/ ~Works(c) /\ Return(c, FALSE) /\ UNCHANGED held
    /\ UNCHANGED <<setup, life, now, fresh>>

MongoWriteGameplay(c) == typeOf[c] = "gameplay" /\ InsertMany(c, "gameplay")
MongoWritePerformance(c) == typeOf[c] = "performance" /\ InsertMany(c, "performance")
MongoWriteUserBehavior(c) == typeOf[c] = "user_behavior" /\ InsertMany(c, "user_behavior")

MongoStep(c) ==
    \/ TransformDocuments(c)
    \/ MongoWriteGameplay(c) \/ MongoWritePerformance(c) \/ MongoWriteUserBehavior(c)
MongoSetup ==
    InitializeMongoGameplay \/ InitializeMongoPerformance \/ InitializeMongoUserBehavior

\* Disconnect, whatever still runs.
CloseMongo(t) == kind = "mongodb" /\ Close(t)

CloseMongoGameplay == CloseMongo("gameplay")
CloseMongoPerformance == CloseMongo("performance")
CloseMongoUserBehavior == CloseMongo("user_behavior")

MongoTeardown == CloseMongoGameplay \/ CloseMongoPerformance \/ CloseMongoUserBehavior
=============================================================================
