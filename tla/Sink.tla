--------------------------------- MODULE Sink ----------------------------------
(***************************************************************************)
(* pkg/storage/plugins: the packages together, one of them per behaviour,  *)
(* and what their WriteBatch leaves in the backend.                        *)
(***************************************************************************)
EXTENDS S3Plugins, PostgresPlugins, MongoPlugins, KafkaPlugins

\* main has exited after a failed Initialize, or everything is closed.
Finished ==
    /\ \/ \E t \in EventTypes : plugin[t] = "failed"
       \/ (\A t \in EventTypes : plugin[t] = "closed") /\ \A c \in Callers : call[c] = Idle
    /\ UNCHANGED vars

Next ==
    \/ Advance \/ Finished
    \/ S3Setup \/ PostgresSetup \/ MongoSetup \/ KafkaSetup
    \/ S3Teardown \/ PostgresTeardown \/ MongoTeardown \/ KafkaTeardown
    \/ \E t \in EventTypes : InitializeNoop(t) \/ CloseNoop(t) \/ Drained(t) \/ Cancel(t)
    \/ \E c \in Callers :
          \/ \E S \in SUBSET fresh : WriteBatch(c, S)
          \/ S3Step(c) \/ PostgresStep(c) \/ MongoStep(c) \/ KafkaStep(c) \/ Discard(c)

Spec == Init /\ [][Next]_vars

-----------------------------------------------------------------------------
(* Properties *)

InBackend(r) == r.batch \ Unencodable \subseteq Own(r.type)

\* What a WriteBatch without an error was given is in the container of its type
\* and stays there, whatever the writes of this and the other types and the end
\* of the process do; only events that cannot be marshalled are left out.  The
\* processor forgets the events.  An S3 object keeps its events if no other
\* batch of its type was encoded in the same millisecond.
SuccessIsDurable ==
    kind # "noop" =>
    \A r \in results :
        /\ r.ok
        /\ kind = "s3" => \A s \in results \ {r} : s.type = r.type => s.at # r.at
        => InBackend(r)

\* In PostgreSQL nothing of a batch shows before its Commit, and then it is there
\* as a whole or not at all: not while the transaction is open, not after the
\* INSERT has failed, and not in part when the context is cancelled or the pool
\* closed between the two, or Commit's reply lost.
AllOrNothing ==
    kind = "postgres" =>
        /\ \A c \in Callers, t \in EventTypes : call[c].batch \cap Own(t) = {}
        /\ \A r \in results :
              \/ (r.batch \ Unencodable) \cap Own(r.type) = {}
              \/ r.reached = "commit" /\ InBackend(r)

\* With a MongoDB that does not fail, an event is lost for its own faults only,
\* not for those of its neighbours in the batch: "Implementations should handle
\* partial failures gracefully" (plugin.go:37).
GoodRowsSurvive ==
    kind = "mongodb" =>
        \A r \in results :
            r.calm => r.batch \ (Unencodable \cup Rejected) \subseteq Own(r.type)

\* WriteBatch "Returns the number of successfully written events and any error"
\* (plugin.go:36), so without an error they are written.
SuccessIsStored == kind # "noop" => \A r \in results : r.ok => InBackend(r)
=============================================================================
