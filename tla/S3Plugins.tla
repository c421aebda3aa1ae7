------------------------------- MODULE S3Plugins -------------------------------
(* pkg/storage/plugins/s3: the objects of the three types share one bucket
   and one prefix. *)
EXTENDS Plugins

\* Initialize looks at the configuration only, never at the bucket.
InitializeS3(t) ==
    kind = "s3" /\ Initialized(t, {IF condition = "unconfigured" THEN "failed" ELSE "open"})

InitializeS3Gameplay == InitializeS3("gameplay")
InitializeS3Performance == InitializeS3("performance")
InitializeS3UserBehavior == InitializeS3("user_behavior")

\* The batch is marshalled as a whole, and the time taken for the object's name.
Marshal(c) ==
    /\ kind = "s3" /\ call[c].pc = "encode"
    /\ \/ call[c].batch \cap Unencodable # {} /\ Return(c, FALSE)
       \/ /\ call[c].batch \cap Unencodable = {}
          /\ call' = [call EXCEPT ![c].pc = "send", ![c].at = now]
          /\ UNCHANGED results
    /\ UNCHANGED <<setup, life, now, fresh, held>>

Key_Seconds(segment, t) == <<segment, t \div 2>>   \* mutant: the time is coarser

Key(segment, t) == <<segment, t>>

\* PutObject replaces an object of the same key.
PutObject(c, segment) ==
    LET key == Key(segment, call[c].at)
    IN /\ kind = "s3" /\ call[c].pc = "send"
       /\ \/ /\ Works(c)
             /\ held' = [k \in DOMAIN held \cup {key} |->
                            IF k = key THEN call[c].batch ELSE held[k]]
             /\ \E ok \in {TRUE, ~Faulty(c)} : Return(c, ok)
          \/ (Faulty(c) \/ ~Works(c)) /\ Return(c, FALSE) /\ UNCHANGED held
       /\ UNCHANGED <<setup, life, now, fresh>>

S3WriteGameplay(c) == typeOf[c] = "gameplay" /\ PutObject(c, "gameplay")

S3WritePerformance_Copied(c) ==   \* mutant: the file keeps the segment it was copied with
    typeOf[c] = "performance" /\ PutObject(c, "gameplay")

S3WritePerformance(c) == typeOf[c] = "performance" /\ PutObject(c, "performance")
S3WriteUserBehavior(c) == typeOf[c] = "user_behavior" /\ PutObject(c, "user_behavior")

S3Step(c) == Marshal(c) \/ S3WriteGameplay(c) \/ S3WritePerformance(c) \/ S3WriteUserBehavior(c)
S3Setup == InitializeS3Gameplay \/ InitializeS3Performance \/ InitializeS3UserBehavior

\* There is no connection to close.
CloseS3(t) == kind = "s3" /\ Close(t)

CloseS3Gameplay == CloseS3("gameplay")
CloseS3Performance == CloseS3("performance")
CloseS3UserBehavior == CloseS3("user_behavior")

S3Teardown == CloseS3Gameplay \/ CloseS3Performance \/ CloseS3UserBehavior
=============================================================================
