------------------------------- MODULE SinkProofs -------------------------------
(***************************************************************************)
(* Proofs about the storage plugins, for any workers, events and batches:  *)
(* what WriteBatch promises of the backend.                                *)
(*                                                                         *)
(* Every step of Sink is of one of four shapes (LEMMA Shapes): it leaves   *)
(* the data alone, starts a call, ends one with a part of its batch added  *)
(* to the container, or puts an S3 object.  The invariants are proved from *)
(* the shapes.                                                             *)
(***************************************************************************)
EXTENDS Sink, TLAPS

\* Each call has its record, and only a Shutdown makes a call's context dead.
CallsOK ==
    /\ DOMAIN call = Callers
    /\ \A c \in Callers :
          /\ DOMAIN call[c] = {"pc", "batch", "at", "tx", "dead"}
          /\ call[c].batch \subseteq Events /\ call[c].at \in Nat \cup {None}
    /\ now \in Nat /\ fresh \subseteq Events
    /\ processor \in [EventTypes -> {"running", "drained", "cancelled"}]
    /\ \A c \in Callers : call[c].dead => Dead(c)

\* An event is in one batch, and in the backend only when the call has returned.
OneBatchEach ==
    /\ \A c \in Callers : call[c].batch \cap fresh = {}
    /\ \A c, d \in Callers : c # d => call[c].batch \cap call[d].batch = {}
    /\ \A t \in EventTypes : Own(t) \cap fresh = {}
    /\ \A t \in EventTypes, c \in Callers : Own(t) \cap call[c].batch = {}
    /\ \A r \in results : r.batch \cap fresh = {}
    /\ \A r \in results, c \in Callers : r.batch \cap call[c].batch = {}

\* A worker's type is one of the three.
TypesOK == typeOf \in [Callers -> EventTypes] /\ \A r \in results : r.type \in EventTypes

\* What an open transaction holds, and that there is one before each Commit.
Transaction(c) == [table |-> typeOf[c], rows |-> Rows(c)]
Transactions == \A c \in Callers : call[c].pc = "commit" => call[c].tx = Transaction(c)

IInv == CallsOK /\ TypesOK /\ OneBatchEach /\ Transactions

-----------------------------------------------------------------------------
(* The shapes of a step *)

Moved(c, pc, at, tx) ==
    call' = [call EXCEPT ![c].pc = pc, ![c].at = at, ![c].tx = tx]

Goes(c) ==
    /\ c \in Callers
    /\ \E pc \in {"send", "commit"}, at \in Nat \cup {None} : \E tx :
          Moved(c, pc, at, tx) /\ (pc = "commit" => tx = Transaction(c))

Rests ==
    /\ UNCHANGED <<kind, typeOf, fresh, held, results>>
    /\ \A c \in Callers : Dead(c) => Dead(c)'
    /\ now' \in Nat /\ processor' \in [EventTypes -> {"running", "drained", "cancelled"}]
    /\ call' = call \/ \E c \in Callers : Goes(c)

Starts == \E c \in Callers : \E S \in SUBSET fresh : WriteBatch(c, S)

Ends(c, ok, S) ==
    /\ UNCHANGED <<kind, typeOf, fresh, processor, condition, now>>
    /\ S \subseteq Rows(c) /\ ok \in BOOLEAN /\ Return(c, ok)
    /\ \A t \in EventTypes : Own(t)' = Own(t) \cup (IF t = typeOf[c] THEN S ELSE {})

\* The end of a call to a plugin other than S3, and what it has added.
EndsWell(c, ok, S) ==
    /\ Ends(c, ok, S)
    /\ ok /\ kind \notin {"noop", "s3"} => S = Rows(c)
    /\ kind = "postgres" => S = {} \/ (S = Rows(c) /\ call[c].pc = "commit")
    /\ kind = "mongodb" /\ ~Faulty(c) => Rows(c) \ Rejected \subseteq S
    /\ kind = "s3" => ~ok /\ UNCHANGED held

Put(c, ok) ==
    /\ kind = "s3" /\ ok \in BOOLEAN
    /\ UNCHANGED <<kind, typeOf, fresh, processor, now>>
    /\ Return(c, ok)
    /\ held' = [k \in DOMAIN held \cup {Key(typeOf[c], call[c].at)} |->
                   IF k = Key(typeOf[c], call[c].at) THEN call[c].batch ELSE held[k]]

Shaped ==
    \/ Rests \/ Starts
    \/ \E c \in Callers : \E ok \in BOOLEAN : Put(c, ok) \/ \E S \in SUBSET Events : EndsWell(c, ok, S)

\* What Add does to the containers of each type.
LEMMA AddedTo ==
    ASSUME NEW t, NEW S, Add(<<t, None>>, S)
    PROVE  \A u : Own(u)' = Own(u) \cup (IF u = t THEN S ELSE {})
<1> DEFINE k == <<t, None>>
<1>1. /\ DOMAIN held' = DOMAIN held \cup {k}
      /\ \A j \in DOMAIN held : j # k => held'[j] = held[j]
      /\ k \in DOMAIN held => held'[k] = held[k] \cup S
      /\ k \notin DOMAIN held => held'[k] = S
  BY DEF Add
<1>2. k[1] = t
  OBVIOUS
<1> HIDE DEF k
<1> TAKE u
<1>3. ASSUME NEW e \in Own(u)' PROVE e \in Own(u) \cup (IF u = t THEN S ELSE {})
  <2>1. PICK j \in DOMAIN held' : j[1] = u /\ e \in held'[j]
    BY <1>3 DEF Own
  <2> QED
    BY <1>1, <1>2, <2>1 DEF Own
<1>4. ASSUME NEW e \in Own(u) PROVE e \in Own(u)'
  <2>1. PICK j \in DOMAIN held : j[1] = u /\ e \in held[j]
    BY <1>4 DEF Own
  <2>2. j \in DOMAIN held' /\ e \in held'[j]
    BY <1>1, <2>1
  <2> QED
    BY <2>1, <2>2 DEF Own
<1>5. ASSUME u = t, NEW e \in S PROVE e \in Own(u)'
  BY <1>1, <1>2, <1>5 DEF Own
<1> QED
  BY <1>3, <1>4, <1>5

\* An end that adds nothing.
LEMMA EndsEmpty ==
    ASSUME NEW c \in Callers, NEW ok \in BOOLEAN, Return(c, ok),
           UNCHANGED <<setup, life, now, fresh, held>>
    PROVE  Ends(c, ok, {})
  BY DEF Ends, Own, setup, life

\* An end that adds S to the container of the worker's type.
LEMMA EndsAdding ==
    ASSUME TypesOK, NEW c \in Callers, NEW ok \in BOOLEAN, NEW S \in SUBSET Rows(c), Return(c, ok),
           Add(<<typeOf[c], None>>, S), UNCHANGED <<setup, life, now, fresh>>
    PROVE  Ends(c, ok, S)
  BY AddedTo DEF Ends, setup, life
-----------------------------------------------------------------------------
(* Every step has one of the shapes *)

LEMMA RowsOfEvents ==
    ASSUME CallsOK, NEW c \in Callers
    PROVE  Rows(c) \subseteq call[c].batch /\ call[c].batch \subseteq Events
  BY DEF CallsOK, Rows

LEMMA LifeRests ==
    ASSUME CallsOK, TypesOK, NEW t \in EventTypes,
           \/ Advance \/ Drained(t) \/ Cancel(t) \/ Finished \/ Close(t)
           \/ \E outcomes : Initialized(t, outcomes)
    PROVE  Rests
<1> USE DEF Rests, CallsOK, setup, life, Dead
<1>1. CASE Advance
  BY <1>1 DEF Advance
<1>2. ASSUME NEW as \in {"drained", "cancelled"}, ShutdownEnds(t, as) PROVE Rests
  <2>1. /\ UNCHANGED <<kind, typeOf, fresh, held, results, now, call>>
        /\ processor[t] = "running" /\ processor' = [processor EXCEPT ![t] = as]
    BY <1>2 DEF ShutdownEnds
  <2>2. \A u \in EventTypes : processor[u] = "cancelled" => processor'[u] = "cancelled"
    BY <2>1
  <2>3. \A c \in Callers : Dead(c) => Dead(c)'
    BY <2>1, <2>2 DEF TypesOK
  <2> QED
    BY <2>1, <2>3
<1>3. CASE Finished
  BY <1>3 DEF Finished, vars
<1>4. CASE Close(t)
  BY <1>4 DEF Close
<1>5. CASE \E outcomes : Initialized(t, outcomes)
  BY <1>5 DEF Initialized
<1> QED
  BY <1>1, <1>2, <1>3, <1>4, <1>5 DEF Drained, Cancel

LEMMA EncodeShape ==
    ASSUME IInv, NEW c \in Callers, NEW emptyOk \in BOOLEAN, Transform(c, emptyOk), kind # "s3"
    PROVE  Rests \/ EndsWell(c, emptyOk, {})
<1>1. CASE Rows(c) # {}
  <2>1. Moved(c, "send", call[c].at, call[c].tx)
    BY <1>1 DEF Transform, IInv, CallsOK, Moved
  <2>2. call[c].at \in Nat \cup {None}
    BY DEF IInv, CallsOK
  <2>3. Goes(c)
    BY <2>1, <2>2 DEF Goes
  <2> QED
    BY <1>1, <2>3 DEF Transform, Rests, IInv, CallsOK, Dead, setup, life
<1>2. CASE Rows(c) = {}
  BY <1>2, EndsEmpty DEF Transform, EndsWell
<1> QED
  BY <1>1, <1>2

LEMMA S3Shape ==
    ASSUME IInv, NEW c \in Callers, S3Step(c)
    PROVE  Shaped
<1> USE DEF IInv, CallsOK
<1>1. CASE Marshal(c)
  <2>1. CASE Return(c, FALSE) /\ UNCHANGED held
    BY <1>1, <2>1, EndsEmpty DEF Marshal, EndsWell, Shaped
  <2>2. CASE call' = [call EXCEPT ![c].pc = "send", ![c].at = now] /\ UNCHANGED results
    <3>1. Moved(c, "send", now, call[c].tx)
      BY <2>2 DEF Moved
    <3>2. Goes(c)
      BY <3>1 DEF Goes
    <3> QED
      BY <1>1, <2>2, <3>2 DEF Marshal, Rests, Shaped, Dead, setup, life
  <2> QED
    BY <1>1, <2>1, <2>2 DEF Marshal
<1>2. ASSUME PutObject(c, typeOf[c]) PROVE Shaped
  <2>1. CASE Return(c, FALSE) /\ UNCHANGED held
    <3>1. kind = "s3" /\ UNCHANGED <<setup, life, now, fresh>>
      BY <1>2 DEF PutObject
    <3>2. EndsWell(c, FALSE, {})
      BY <2>1, <3>1, EndsEmpty DEF EndsWell
    <3> QED
      BY <3>2 DEF Shaped
  <2>2. ASSUME NEW ok \in BOOLEAN, Return(c, ok),
               held' = [k \in DOMAIN held \cup {Key(typeOf[c], call[c].at)} |->
                           IF k = Key(typeOf[c], call[c].at) THEN call[c].batch ELSE held[k]]
        PROVE  Shaped
    BY <1>2, <2>2 DEF PutObject, Put, Shaped, setup, life
  <2> QED
    BY <1>2, <2>1, <2>2 DEF PutObject, Faulty
<1> QED
  BY <1>1, <1>2 DEF S3Step, S3WriteGameplay, S3WritePerformance, S3WriteUserBehavior

LEMMA PostgresShape ==
    ASSUME IInv, NEW c \in Callers, PostgresStep(c)
    PROVE  Shaped
<1>1. CASE BeginTx(c)
  BY <1>1, EndsEmpty DEF BeginTx, EndsWell, Shaped
<1>2. CASE TransformRows(c)
  BY <1>2, EncodeShape DEF TransformRows, Shaped
<1>3. ASSUME Insert(c, typeOf[c]) PROVE Shaped
  <2>1. CASE Return(c, FALSE)
    BY <1>3, <2>1, EndsEmpty DEF Insert, EndsWell, Shaped
  <2>2. CASE /\ call' = [call EXCEPT ![c].pc = "commit", ![c].tx = Transaction(c)]
             /\ UNCHANGED results
    <3>1. Moved(c, "commit", call[c].at, Transaction(c))
      BY <2>2 DEF Moved, IInv, CallsOK
    <3>2. call[c].at \in Nat \cup {None}
      BY DEF IInv, CallsOK
    <3>3. Goes(c)
      BY <3>1, <3>2 DEF Goes
    <3> QED
      BY <1>3, <2>2, <3>3 DEF Insert, Rests, Shaped, IInv, CallsOK, Dead, setup, life
  <2> QED
    BY <1>3, <2>1, <2>2 DEF Insert, Transaction
<1>4. CASE Commit(c)
  <2>0. call[c].tx = Transaction(c)
    BY <1>4 DEF Commit, IInv, Transactions
  <2>1. CASE Return(c, FALSE) /\ UNCHANGED held
    BY <1>4, <2>1, EndsEmpty DEF Commit, EndsWell, Shaped
  <2>2. ASSUME NEW ok \in BOOLEAN, Return(c, ok), Add(<<typeOf[c], None>>, Rows(c)) PROVE Shaped
    <3>1. Rows(c) \in SUBSET Events
      BY RowsOfEvents DEF IInv
    <3>2. EndsWell(c, ok, Rows(c))
      BY <1>4, <2>2, EndsAdding DEF Commit, EndsWell, IInv
    <3> QED
      BY <3>1, <3>2 DEF Shaped
  <2>3. /\ Transaction(c).table = typeOf[c] /\ Transaction(c).rows = Rows(c)
        /\ Faulty(c) \in BOOLEAN
    BY DEF Transaction, Faulty
  <2> QED
    BY <1>4, <2>0, <2>1, <2>2, <2>3 DEF Commit
<1> QED
  BY <1>1, <1>2, <1>3, <1>4
     DEF PostgresStep, PostgresWriteGameplay, PostgresWritePerformance, PostgresWriteUserBehavior

LEMMA MongoShape ==
    ASSUME IInv, NEW c \in Callers, MongoStep(c)
    PROVE  Shaped
<1>1. CASE TransformDocuments(c)
  BY <1>1, EncodeShape DEF TransformDocuments, Shaped
<1>2. ASSUME InsertMany(c, typeOf[c]) PROVE Shaped
  <2>1. CASE ~Works(c) /\ Return(c, FALSE) /\ UNCHANGED held
    <3>1. Faulty(c)
      BY <2>1 DEF Works, Faulty, IInv, CallsOK
    <3> QED
      BY <1>2, <2>1, <3>1, EndsEmpty DEF InsertMany, EndsWell, Shaped
  <2>2. ASSUME NEW S \in SUBSET Insertable(Rows(c)), ~Faulty(c) => S = Insertable(Rows(c)),
               Add(<<typeOf[c], None>>, S),
               NEW ok \in {S = Rows(c), S = Rows(c) /\ ~Faulty(c)}, Return(c, ok)
        PROVE  Shaped
    <3>1. S \subseteq Rows(c) /\ S \in SUBSET Events /\ ok \in BOOLEAN /\ (ok => S = Rows(c))
      BY <2>2, RowsOfEvents DEF IInv, Insertable
    <3>2. Ends(c, ok, S)
      BY <1>2, <2>2, <3>1, EndsAdding DEF InsertMany, IInv
    <3>3. ~Faulty(c) => Rows(c) \ Rejected \subseteq S
      BY <2>2 DEF Insertable
    <3>4. EndsWell(c, ok, S)
      BY <1>2, <3>1, <3>2, <3>3 DEF InsertMany, EndsWell
    <3> QED
      BY <3>1, <3>4 DEF Shaped
  <2> QED
    BY <1>2, <2>1, <2>2 DEF InsertMany
<1> QED
  BY <1>1, <1>2 DEF MongoStep, MongoWriteGameplay, MongoWritePerformance, MongoWriteUserBehavior

LEMMA KafkaShape ==
    ASSUME IInv, NEW c \in Callers, KafkaStep(c)
    PROVE  Shaped
<1>1. CASE TransformMessages(c)
  BY <1>1, EncodeShape DEF TransformMessages, Shaped
<1>2. ASSUME WriteMessages(c, typeOf[c]) PROVE Shaped
  <2>1. CASE Return(c, FALSE) /\ UNCHANGED held
    BY <1>2, <2>1, EndsEmpty DEF WriteMessages, EndsWell, Shaped
  <2>2. ASSUME NEW S \in SUBSET Rows(c), Add(<<typeOf[c], None>>, S),
               NEW ok \in {S = Rows(c), S = Rows(c) /\ ~Faulty(c)}, Return(c, ok)
        PROVE  Shaped
    <3>1. S \in SUBSET Events /\ ok \in BOOLEAN /\ (ok => S = Rows(c))
      BY <2>2, RowsOfEvents DEF IInv
    <3>2. Ends(c, ok, S)
      BY <1>2, <2>2, <3>1, EndsAdding DEF WriteMessages, IInv
    <3>3. EndsWell(c, ok, S)
      BY <1>2, <3>1, <3>2 DEF WriteMessages, EndsWell
    <3> QED
      BY <3>1, <3>3 DEF Shaped
  <2> QED
    BY <1>2, <2>1, <2>2 DEF WriteMessages
<1> QED
  BY <1>1, <1>2 DEF KafkaStep, KafkaWriteGameplay, KafkaWritePerformance, KafkaWriteUserBehavior

LEMMA Shapes == IInv /\ [Next]_vars => Shaped
<1> SUFFICES ASSUME IInv, [Next]_vars PROVE Shaped
  OBVIOUS
<1>1. CallsOK /\ TypesOK /\ {"gameplay", "performance", "user_behavior"} = EventTypes
  BY DEF IInv, EventTypes
<1>2. CASE Advance \/ Finished
  BY <1>1, <1>2, LifeRests DEF Shaped
<1>3. CASE S3Setup \/ PostgresSetup \/ MongoSetup \/ KafkaSetup
  <2>1. \E t \in EventTypes : \E outcomes : Initialized(t, outcomes)
    BY <1>1, <1>3
       DEF S3Setup, InitializeS3Gameplay, InitializeS3Performance, InitializeS3UserBehavior,
           InitializeS3, PostgresSetup, InitializePostgresGameplay,
           InitializePostgresPerformance, InitializePostgresUserBehavior, InitializePostgres,
           MongoSetup, InitializeMongoGameplay, InitializeMongoPerformance,
           InitializeMongoUserBehavior, InitializeMongo, KafkaSetup, InitializeKafkaGameplay,
           InitializeKafkaPerformance, InitializeKafkaUserBehavior, InitializeKafka
  <2> QED
    BY <1>1, <2>1, LifeRests DEF Shaped
<1>4. CASE S3Teardown \/ PostgresTeardown \/ MongoTeardown \/ KafkaTeardown
  <2>1. \E t \in EventTypes : Close(t)
    BY <1>1, <1>4
       DEF S3Teardown, CloseS3Gameplay, CloseS3Performance, CloseS3UserBehavior, CloseS3,
           PostgresTeardown, ClosePostgresGameplay, ClosePostgresPerformance,
           ClosePostgresUserBehavior, ClosePostgres, MongoTeardown, CloseMongoGameplay,
           CloseMongoPerformance, CloseMongoUserBehavior, CloseMongo, KafkaTeardown,
           CloseKafkaGameplay, CloseKafkaPerformance, CloseKafkaUserBehavior, CloseKafka
  <2> QED
    BY <1>1, <2>1, LifeRests DEF Shaped
<1>5. ASSUME NEW t \in EventTypes, InitializeNoop(t) \/ CloseNoop(t) \/ Drained(t) \/ Cancel(t)
      PROVE  Shaped
  BY <1>1, <1>5, LifeRests DEF InitializeNoop, CloseNoop, Shaped
<1>6. ASSUME NEW c \in Callers, NEW S \in SUBSET fresh, WriteBatch(c, S) PROVE Shaped
  BY <1>6 DEF Starts, Shaped
<1>7. ASSUME NEW c \in Callers, Discard(c) PROVE Shaped
  BY <1>7, EndsEmpty DEF Discard, EndsWell, Shaped
<1>8. CASE UNCHANGED vars
  BY <1>1, <1>8 DEF vars, Rests, CallsOK, Dead, Shaped
<1> QED
  BY <1>2, <1>3, <1>4, <1>5, <1>6, <1>7, <1>8, S3Shape, PostgresShape, MongoShape, KafkaShape
     DEF Next
-----------------------------------------------------------------------------
(* The invariant *)

\* An S3 object that is put holds its batch, and the others stay.
LEMMA PutKeeps ==
    ASSUME NEW c \in Callers, NEW ok, Put(c, ok)
    PROVE  /\ \A t : Own(t)' \subseteq Own(t) \cup call[c].batch
           /\ \A t : t # typeOf[c] => Own(t)' = Own(t)
<1> DEFINE k == Key(typeOf[c], call[c].at)
<1>1. /\ DOMAIN held' = DOMAIN held \cup {k} /\ held'[k] = call[c].batch
      /\ \A j \in DOMAIN held : j # k => held'[j] = held[j]
  BY DEF Put
<1>2. k[1] = typeOf[c]
  BY DEF Key
<1> HIDE DEF k
<1>3. ASSUME NEW t, NEW e \in Own(t)' PROVE e \in Own(t) \/ (t = typeOf[c] /\ e \in call[c].batch)
  <2>1. PICK j \in DOMAIN held' : j[1] = t /\ e \in held'[j]
    BY <1>3 DEF Own
  <2> QED
    BY <1>1, <1>2, <2>1 DEF Own
<1>4. ASSUME NEW t, t # typeOf[c], NEW e \in Own(t) PROVE e \in Own(t)'
  <2>1. PICK j \in DOMAIN held : j[1] = t /\ e \in held[j]
    BY <1>4 DEF Own
  <2>2. j \in DOMAIN held' /\ e \in held'[j]
    BY <1>1, <1>2, <1>4, <2>1
  <2> QED
    BY <2>1, <2>2 DEF Own
<1> QED
  BY <1>3, <1>4

LEMMA IdleRecord ==
    /\ DOMAIN Idle = {"pc", "batch", "at", "tx", "dead"}
    /\ Idle.batch = {} /\ Idle.at = None /\ ~Idle.dead /\ Idle.pc = "idle"
  BY DEF Idle

LEMMA Initially == Init => IInv
<1> SUFFICES ASSUME Init PROVE IInv
  OBVIOUS
<1>1. CallsOK
  BY IdleRecord DEF Init, CallsOK
<1>2. TypesOK
  BY PluginsAssumption DEF Init, TypesOK
<1>3. OneBatchEach
  <2>1. \A t : Own(t) = {}
    BY DEF Init, Own
  <2> QED
    BY <2>1, IdleRecord DEF Init, OneBatchEach
<1>4. Transactions
  BY IdleRecord DEF Init, Transactions
<1> QED
  BY <1>1, <1>2, <1>3, <1>4 DEF IInv

\* What a call that goes on, or has returned, makes of the batches.
LEMMA BatchesAfter ==
    ASSUME CallsOK, NEW c \in Callers
    PROVE  /\ Goes(c) => \A d \in Callers : call'[d].batch = call[d].batch /\ call'[d].dead = call[d].dead
           /\ \A ok \in BOOLEAN : Return(c, ok) =>
                 /\ call'[c].batch = {} /\ \A d \in Callers : d # c => call'[d] = call[d]
                 /\ \A r \in results' : r \in results \/ r.batch = call[c].batch
<1>0. DOMAIN call = Callers /\ \A d \in Callers : DOMAIN call[d] = {"pc", "batch", "at", "tx", "dead"}
  BY DEF CallsOK
<1>1. ASSUME Goes(c), NEW d \in Callers
      PROVE  call'[d].batch = call[d].batch /\ call'[d].dead = call[d].dead
  <2>1. PICK pc \in {"send", "commit"}, at \in Nat \cup {None} : \E tx : Moved(c, pc, at, tx)
    BY <1>1 DEF Goes
  <2>2. PICK tx : Moved(c, pc, at, tx)
    BY <2>1
  <2> QED
    BY ONLY <1>0, <2>2 DEF Moved
<1>2. ASSUME NEW ok \in BOOLEAN, Return(c, ok)
      PROVE  /\ call'[c].batch = {} /\ \A d \in Callers : d # c => call'[d] = call[d]
             /\ \A r \in results' : r \in results \/ r.batch = call[c].batch
  BY <1>0, <1>2, IdleRecord DEF Return
<1> QED
  BY <1>1, <1>2

LEMMA CallsStayOK == IInv /\ Shaped => CallsOK' /\ TypesOK'
<1> SUFFICES ASSUME IInv, Shaped PROVE CallsOK' /\ TypesOK'
  OBVIOUS
<1> USE PluginsAssumption DEF IInv, CallsOK, TypesOK
<1>1. CASE Rests
  <2>1. CASE call' = call
    <3>1. CallsOK'
      BY <1>1, <2>1 DEF Rests
    <3>2. TypesOK'
      BY <1>1 DEF Rests
    <3> QED
      BY <3>1, <3>2
  <2>2. ASSUME NEW c \in Callers, Goes(c) PROVE CallsOK' /\ TypesOK'
    <3>0. PICK pc \in {"send", "commit"}, at \in Nat \cup {None} : \E tx : Moved(c, pc, at, tx)
      BY <2>2 DEF Goes
    <3>1. PICK tx : Moved(c, pc, at, tx)
      BY <3>0
    <3>2. /\ DOMAIN call' = Callers /\ \A d \in Callers : d # c => call'[d] = call[d]
          /\ DOMAIN call'[c] = DOMAIN call[c] /\ call'[c].at = at
          /\ call'[c].batch = call[c].batch /\ call'[c].dead = call[c].dead
      <4>1. DOMAIN call = Callers /\ DOMAIN call[c] = {"pc", "batch", "at", "tx", "dead"}
        OBVIOUS
      <4> QED
        BY ONLY <3>1, <4>1 DEF Moved
    <3>3. at \in Nat \cup {None}
      OBVIOUS
    <3>4. \A d \in Callers :
              /\ DOMAIN call'[d] = {"pc", "batch", "at", "tx", "dead"}
              /\ call'[d].batch \subseteq Events /\ call'[d].at \in Nat \cup {None}
              /\ (call'[d].dead => call[d].dead)
      BY <3>2, <3>3
    <3>5. now' \in Nat /\ fresh' = fresh /\ (\A d \in Callers : Dead(d) => Dead(d)')
          /\ processor' \in [EventTypes -> {"running", "drained", "cancelled"}]
          /\ typeOf' = typeOf /\ results' = results
      BY <1>1 DEF Rests
    <3>6. \A d \in Callers : call'[d].dead => Dead(d)'
      BY <3>4, <3>5
    <3>7. CallsOK'
      BY <3>2, <3>4, <3>5, <3>6
    <3>8. TypesOK'
      BY <3>5
    <3> QED
      BY <3>7, <3>8
  <2> QED
    BY <1>1, <2>1, <2>2 DEF Rests
<1>2. ASSUME NEW c \in Callers, NEW S \in SUBSET fresh, WriteBatch(c, S)
      PROVE  CallsOK' /\ TypesOK'
  <2>1. /\ DOMAIN call' = Callers /\ call'[c].batch = S /\ call'[c].at = None
        /\ DOMAIN call'[c] = {"pc", "batch", "at", "tx", "dead"} /\ call'[c].dead = Dead(c)
        /\ \A d \in Callers : d # c => call'[d] = call[d]
    BY <1>2 DEF WriteBatch
  <2>2. UNCHANGED <<typeOf, processor, now, results>> /\ fresh' \subseteq Events
    BY <1>2 DEF WriteBatch, setup, life
  <2>3. CallsOK'
    BY <2>1, <2>2 DEF Dead
  <2> QED
    BY <2>2, <2>3
<1>3. ASSUME NEW c \in Callers, NEW ok \in BOOLEAN, Return(c, ok),
             UNCHANGED <<typeOf, fresh, processor, now>>
      PROVE  CallsOK' /\ TypesOK'
  <2>1. /\ DOMAIN call' = Callers /\ call'[c] = Idle
        /\ \A d \in Callers : d # c => call'[d] = call[d]
    BY <1>3 DEF Return
  <2>2. \A d \in Callers : Dead(d)' = Dead(d)
    BY <1>3 DEF Dead
  <2>3. CallsOK'
    BY <1>3, <2>1, <2>2, IdleRecord
  <2>4. TypesOK'
    BY <1>3 DEF Return
  <2> QED
    BY <2>3, <2>4
<1> QED
  BY <1>1, <1>2, <1>3 DEF Shaped, Starts, Put, EndsWell, Ends

LEMMA OneBatchStays == IInv /\ Shaped => OneBatchEach'
<1> SUFFICES ASSUME IInv, Shaped PROVE OneBatchEach'
  OBVIOUS
<1>0. CallsOK /\ TypesOK
  BY DEF IInv
<1>1. CASE Rests
  <2>1. /\ \A c \in Callers : call'[c].batch = call[c].batch
        /\ \A t : Own(t)' = Own(t)
    BY <1>0, <1>1, BatchesAfter DEF Rests, Own
  <2> QED
    BY <1>1, <2>1 DEF IInv, OneBatchEach, Rests
<1>2. ASSUME NEW c \in Callers, NEW S \in SUBSET fresh, WriteBatch(c, S) PROVE OneBatchEach'
  <2>1. /\ call'[c].batch = S /\ \A d \in Callers : d # c => call'[d].batch = call[d].batch
        /\ \A t : Own(t)' = Own(t)
        /\ fresh' = fresh \ S /\ results' = results
    BY <1>0, <1>2 DEF WriteBatch, Own, CallsOK
  <2> QED
    BY <2>1 DEF IInv, OneBatchEach
<1>3. ASSUME NEW c \in Callers, NEW ok \in BOOLEAN, Return(c, ok), fresh' = fresh,
             \A t \in EventTypes : Own(t)' \subseteq Own(t) \cup call[c].batch
      PROVE  OneBatchEach'
  <2>1. /\ call'[c].batch = {} /\ \A d \in Callers : d # c => call'[d].batch = call[d].batch
        /\ \A r \in results' : r \in results \/ r.batch = call[c].batch
    BY <1>0, <1>3, BatchesAfter
  <2> QED
    BY <1>3, <2>1 DEF IInv, OneBatchEach
<1>4. ASSUME NEW c \in Callers, NEW ok \in BOOLEAN, Put(c, ok) PROVE OneBatchEach'
  BY <1>3, <1>4, PutKeeps DEF Put
<1>5. ASSUME NEW c \in Callers, NEW ok \in BOOLEAN, NEW S, EndsWell(c, ok, S) PROVE OneBatchEach'
  <2>1. S \subseteq call[c].batch
    BY <1>0, <1>5, RowsOfEvents DEF EndsWell, Ends
  <2> QED
    BY <1>3, <1>5, <2>1 DEF EndsWell, Ends
<1> QED
  BY <1>1, <1>2, <1>4, <1>5 DEF Shaped, Starts

LEMMA TransactionsStay == IInv /\ Shaped => Transactions'
<1> SUFFICES ASSUME IInv, Shaped PROVE Transactions'
  OBVIOUS
<1> USE DEF Transactions, Transaction, Rows
<1>0. DOMAIN call = Callers /\ \A c \in Callers : DOMAIN call[c] = {"pc", "batch", "at", "tx", "dead"}
  BY DEF IInv, CallsOK
<1>1. CASE Rests
  <2>1. typeOf' = typeOf
    BY <1>1 DEF Rests
  <2>2. CASE call' = call
    BY <2>1, <2>2 DEF IInv
  <2>3. ASSUME NEW c \in Callers, Goes(c) PROVE Transactions'
    <3>1. PICK pc \in {"send", "commit"}, at \in Nat \cup {None} :
              \E tx : Moved(c, pc, at, tx) /\ (pc = "commit" => tx = Transaction(c))
      BY <2>3 DEF Goes
    <3>2. PICK tx : Moved(c, pc, at, tx) /\ (pc = "commit" => tx = Transaction(c))
      BY <3>1
    <3>3. /\ \A d \in Callers : d # c => call'[d] = call[d]
          /\ call'[c].pc = pc /\ call'[c].tx = tx /\ call'[c].batch = call[c].batch
      BY ONLY <1>0, <3>2 DEF Moved
    <3> QED
      BY <2>1, <3>2, <3>3 DEF IInv
  <2> QED
    BY <1>1, <2>2, <2>3 DEF Rests
<1>2. ASSUME NEW c \in Callers, NEW S \in SUBSET fresh, WriteBatch(c, S) PROVE Transactions'
  <2>1. typeOf' = typeOf /\ call'[c].pc = "encode" /\ \A d \in Callers : d # c => call'[d] = call[d]
    BY <1>0, <1>2 DEF WriteBatch, setup
  <2> QED
    BY <2>1 DEF IInv
<1>3. ASSUME NEW c \in Callers, NEW ok \in BOOLEAN, Return(c, ok), typeOf' = typeOf
      PROVE  Transactions'
  <2>1. call'[c].pc = "idle" /\ \A d \in Callers : d # c => call'[d] = call[d]
    BY <1>0, <1>3, IdleRecord DEF Return
  <2> QED
    BY <1>3, <2>1 DEF IInv
<1> QED
  BY <1>1, <1>2, <1>3 DEF Shaped, Starts, Put, EndsWell, Ends

LEMMA Invariance == Spec => []IInv
<1>1. IInv /\ [Next]_vars => IInv'
  BY Shapes, CallsStayOK, OneBatchStays, TransactionsStay DEF IInv
<1> QED
  BY <1>1, Initially, PTL DEF Spec
-----------------------------------------------------------------------------
(* The theorems *)

\* What a WriteBatch that worked leaves; of S3, in the object that it names,
\* unless another of that name has been written.
Alone(r) == \A s \in results \ {r} : s.type = r.type => s.at # r.at
Named(r) ==
    /\ Key(r.type, r.at) \in DOMAIN held
    /\ held[Key(r.type, r.at)] = r.batch

Durable ==
    \A r \in results : r.ok =>
        /\ kind \notin {"noop", "s3"} => InBackend(r)
        /\ kind = "s3" /\ Alone(r) => Named(r)

\* The record that an end leaves, and what it does to those that were there.
Recorded(c, ok) ==
    [type |-> typeOf[c], batch |-> call[c].batch, at |-> call[c].at, ok |-> ok,
     reached |-> call[c].pc, calm |-> ~Faulty(c)]

LEMMA OldResults ==
    ASSUME IInv, NEW c \in Callers, NEW ok \in BOOLEAN, NEW S, EndsWell(c, ok, S)
    PROVE  /\ results' = results \cup {Recorded(c, ok)} /\ kind' = kind
           /\ \A r \in results : InBackend(r) => InBackend(r)'
<1>1. results' = results \cup {Recorded(c, ok)} /\ kind' = kind
  BY DEF EndsWell, Ends, Return, Recorded
<1>2. \A r \in results : Own(r.type) \subseteq Own(r.type)'
  BY DEF EndsWell, Ends, IInv, TypesOK
<1> QED
  BY <1>1, <1>2 DEF InBackend

LEMMA DurableStays == IInv /\ Shaped /\ Durable => Durable'
<1> SUFFICES ASSUME IInv, Shaped, Durable PROVE Durable'
  OBVIOUS
<1>1. ASSUME UNCHANGED <<kind, held, results>> PROVE Durable'
  BY <1>1 DEF Durable, InBackend, Own, Alone, Named
<1>2. ASSUME NEW c \in Callers, NEW ok \in BOOLEAN, NEW S, EndsWell(c, ok, S) PROVE Durable'
  <2>0. PICK new : new = Recorded(c, ok)
    OBVIOUS
  <2>1. /\ results' = results \cup {new} /\ kind' = kind
        /\ \A r \in results : InBackend(r) => InBackend(r)'
    BY <1>2, <2>0, OldResults
  <2>2. new.type = typeOf[c] /\ new.batch = call[c].batch /\ new.ok = ok
    BY <2>0 DEF Recorded
  <2>3. ASSUME ok, kind \notin {"noop", "s3"} PROVE InBackend(new)'
    BY <1>2, <2>2, <2>3 DEF InBackend, EndsWell, Ends, Rows, IInv, TypesOK
  <2>4. ASSUME NEW r \in results, r.ok, kind = "s3", Alone(r)' PROVE Named(r)'
    BY <1>2, <2>1, <2>4 DEF Durable, Alone, Named, EndsWell
  <2>5. kind = "s3" => ~ok
    BY <1>2 DEF EndsWell
  <2> QED
    BY <2>1, <2>2, <2>3, <2>4, <2>5 DEF Durable
<1>3. ASSUME NEW c \in Callers, NEW ok \in BOOLEAN, Put(c, ok) PROVE Durable'
  <2> DEFINE new == Recorded(c, ok)  k == Key(typeOf[c], call[c].at)
  <2>1. /\ results' = results \cup {new} /\ kind' = kind /\ kind = "s3"
        /\ DOMAIN held' = DOMAIN held \cup {k} /\ held'[k] = call[c].batch
        /\ \A j \in DOMAIN held : j # k => held'[j] = held[j]
    BY <1>3 DEF Put, Return, Recorded
  <2>2. new.type = typeOf[c] /\ new.batch = call[c].batch /\ new.at = call[c].at
    BY DEF Recorded
  <2>3. \A r : Key(r.type, r.at) = k => r.type = typeOf[c] /\ r.at = call[c].at
    BY DEF Key
  <2> HIDE DEF new, k
  <2>4. Key(new.type, new.at) = k
    BY <2>2 DEF k
  <2>5. ASSUME NEW r \in results', r.ok, Alone(r)' PROVE Named(r)'
    <3>1. CASE r = new
      BY <2>1, <2>2, <2>4, <3>1 DEF Named
    <3>2. CASE r # new
      <4>1. Key(r.type, r.at) # k
        BY <2>1, <2>2, <2>3, <2>5, <3>2 DEF Alone
      <4>2. r \in results /\ Alone(r)
        BY <2>1, <2>5, <3>2 DEF Alone
      <4>3. Named(r)
        BY <2>1, <2>5, <4>2 DEF Durable
      <4> QED
        BY <2>1, <4>1, <4>3 DEF Named
    <3> QED
      BY <3>1, <3>2
  <2> QED
    BY <2>1, <2>5 DEF Durable
<1> QED
  BY <1>1, <1>2, <1>3 DEF Shaped, Rests, Starts, WriteBatch, setup

\* A batch written without an error is in the backend for good, but for S3
\* objects of one type and millisecond.
THEOREM WritesAreDurable == Spec => []SuccessIsDurable
<1>1. Init => Durable
  BY DEF Init, Durable
<1>2. IInv /\ Durable /\ [Next]_vars => Durable'
  BY Shapes, DurableStays
<1>3. Durable => SuccessIsDurable
  <2> SUFFICES ASSUME Durable, kind # "noop", NEW r \in results, r.ok,
                      kind = "s3" => Alone(r)
               PROVE  InBackend(r)
    BY DEF SuccessIsDurable, Alone
  <2>1. CASE kind = "s3"
    <3>1. Named(r) /\ Key(r.type, r.at)[1] = r.type
      BY <2>1 DEF Durable, Key
    <3> QED
      BY <3>1 DEF Named, InBackend, Own
  <2> QED
    BY <2>1 DEF Durable
<1> QED
  BY <1>1, <1>2, <1>3, Invariance, PTL DEF Spec

\* What AllOrNothing says of the batches that have returned.
WholeOrNot(r) ==
    \/ (r.batch \ Unencodable) \cap Own(r.type) = {}
    \/ r.reached = "commit" /\ InBackend(r)

Returned == kind = "postgres" => \A r \in results : WholeOrNot(r)

LEMMA ReturnedStays == IInv /\ Shaped /\ Returned => Returned'
<1> SUFFICES ASSUME IInv, Shaped, Returned PROVE Returned'
  OBVIOUS
<1>1. ASSUME UNCHANGED <<kind, held, results>> PROVE Returned'
  BY <1>1 DEF Returned, WholeOrNot, InBackend, Own
<1>2. ASSUME NEW c \in Callers, NEW ok \in BOOLEAN, NEW S, EndsWell(c, ok, S),
             kind = "postgres", NEW r \in results'
      PROVE  WholeOrNot(r)'
  <2>0. PICK new : new = Recorded(c, ok)
    OBVIOUS
  <2>1. results' = results \cup {new} /\ \A x \in results : InBackend(x) => InBackend(x)'
    BY <1>2, <2>0, OldResults
  <2>2. new.type = typeOf[c] /\ new.batch = call[c].batch /\ new.reached = call[c].pc
    BY <2>0 DEF Recorded
  <2>3. /\ S = {} \/ (S = Rows(c) /\ call[c].pc = "commit")
        /\ \A t \in EventTypes : Own(t)' = Own(t) \cup (IF t = typeOf[c] THEN S ELSE {})
    BY <1>2 DEF EndsWell, Ends
  <2>4. /\ typeOf[c] \in EventTypes /\ \A x \in results : x.type \in EventTypes
        /\ \A t \in EventTypes : Own(t) \cap call[c].batch = {}
        /\ \A x \in results : x.batch \cap call[c].batch = {}
    BY DEF IInv, TypesOK, OneBatchEach
  <2>5. CASE r = new
    <3>1. Own(r.type)' = Own(r.type) \cup S /\ Own(r.type) \cap r.batch = {}
      BY <2>2, <2>3, <2>4, <2>5
    <3>2. CASE S = {}
      BY <3>1, <3>2 DEF WholeOrNot
    <3>3. CASE S = Rows(c) /\ call[c].pc = "commit"
      BY <2>2, <2>5, <3>1, <3>3 DEF WholeOrNot, InBackend, Rows
    <3> QED
      BY <2>3, <3>2, <3>3
  <2>6. CASE r \in results
    <3>1. S \subseteq call[c].batch
      BY <2>3 DEF Rows
    <3>2. WholeOrNot(r)
      BY <1>2, <2>6 DEF Returned
    <3>3. CASE (r.batch \ Unencodable) \cap Own(r.type) = {}
      BY <2>3, <2>4, <2>6, <3>1, <3>3 DEF WholeOrNot
    <3>4. CASE r.reached = "commit" /\ InBackend(r)
      BY <2>1, <2>6, <3>4 DEF WholeOrNot
    <3> QED
      BY <3>2, <3>3, <3>4 DEF WholeOrNot
  <2> QED
    BY <2>1, <2>5, <2>6
<1>3. ASSUME NEW c \in Callers, NEW ok \in BOOLEAN, NEW S, EndsWell(c, ok, S) PROVE Returned'
  BY <1>2, <1>3, OldResults DEF Returned
<1>4. ASSUME NEW c \in Callers, NEW ok \in BOOLEAN, Put(c, ok) PROVE Returned'
  BY <1>4 DEF Put, Returned
<1> QED
  BY <1>1, <1>3, <1>4 DEF Shaped, Rests, Starts, WriteBatch, setup

\* PostgreSQL: nothing of a batch shows before its Commit, though the INSERT is
\* a step of its own, and a call that has returned left its whole batch there, after a
\* Commit, or nothing.
THEOREM BatchesAreAtomic == Spec => []AllOrNothing
<1>1. Init => Returned
  BY DEF Init, Returned
<1>2. IInv /\ Returned => AllOrNothing
  BY DEF IInv, OneBatchEach, Returned, WholeOrNot, AllOrNothing
<1> QED
  BY <1>1, <1>2, ReturnedStays, Shapes, Invariance, PTL DEF Spec

\* An event is not lost to MongoDB for the faults of its neighbours.
THEOREM GoodDocumentsSurvive == Spec => []GoodRowsSurvive
<1>1. Init => GoodRowsSurvive
  BY DEF Init, GoodRowsSurvive
<1>2. IInv /\ GoodRowsSurvive /\ Shaped => GoodRowsSurvive'
  <2> SUFFICES ASSUME IInv, GoodRowsSurvive, Shaped PROVE GoodRowsSurvive'
    OBVIOUS
  <2>1. ASSUME UNCHANGED <<kind, held, results>> PROVE GoodRowsSurvive'
    BY <2>1 DEF GoodRowsSurvive, Own
  <2>2. ASSUME NEW c \in Callers, NEW ok \in BOOLEAN, NEW S, EndsWell(c, ok, S),
               kind = "mongodb", NEW r \in results', r.calm
        PROVE  r.batch \ (Unencodable \cup Rejected) \subseteq Own(r.type)'
    <3> DEFINE new == Recorded(c, ok)
    <3>1. results' = results \cup {new}
      BY <2>2, OldResults
    <3>2. /\ new.type = typeOf[c] /\ new.batch = call[c].batch
          /\ new.calm <=> ~Faulty(c)
      BY DEF Recorded
    <3> HIDE DEF new
    <3>3. /\ ~Faulty(c) => Rows(c) \ Rejected \subseteq S
          /\ \A t \in EventTypes : Own(t)' = Own(t) \cup (IF t = typeOf[c] THEN S ELSE {})
      BY <2>2 DEF EndsWell, Ends
    <3>4. typeOf[c] \in EventTypes /\ \A x \in results : x.type \in EventTypes
      BY DEF IInv, TypesOK
    <3>5. CASE r = new
      BY <2>2, <3>2, <3>3, <3>4, <3>5 DEF Rows
    <3>6. CASE r \in results
      BY <2>2, <3>3, <3>4, <3>6 DEF GoodRowsSurvive
    <3> QED
      BY <3>1, <3>5, <3>6
  <2>3. ASSUME NEW c \in Callers, NEW ok \in BOOLEAN, NEW S, EndsWell(c, ok, S)
        PROVE  GoodRowsSurvive'
    BY <2>2, <2>3, OldResults DEF GoodRowsSurvive
  <2>4. ASSUME NEW c \in Callers, NEW ok \in BOOLEAN, Put(c, ok) PROVE GoodRowsSurvive'
    BY <2>4 DEF Put, GoodRowsSurvive
  <2> QED
    BY <2>1, <2>3, <2>4 DEF Shaped, Rests, Starts, WriteBatch, setup
<1> QED
  BY <1>1, <1>2, Shapes, Invariance, PTL DEF Spec
=============================================================================
