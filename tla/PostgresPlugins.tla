---------------------------- MODULE PostgresPlugins ----------------------------
(* pkg/storage/plugins/postgres: a table per type, a transaction per batch. *)
EXTENDS Plugins

\* Initialize pings the server and creates the table and its indexes.
InitializePostgres(t) == kind = "postgres" /\ Initialized(t, Contacted)

InitializePostgresGameplay == InitializePostgres("gameplay")
InitializePostgresPerformance == InitializePostgres("performance")
InitializePostgresUserBehavior == InitializePostgres("user_behavior")

\* BeginTx may fail, and does under a context that is cancelled or without a server.
BeginTx(c) ==
    /\ kind = "postgres" /\ call[c].pc = "encode"
    /\ Faulty(c) /\ Return(c, FALSE)
    /\ UNCHANGED <<setup, life, now, fresh, held>>

TransformRows(c) == kind = "postgres" /\ Works(c) /\ Transform(c, FALSE)

Accepts(rows) == rows \cap Rejected = {} /\ Cardinality(rows) <= MaxRows

Insert_NoTransaction(c, tbl) ==   \* mutant: db.ExecContext for tx.ExecContext
    /\ kind = "postgres" /\ call[c].pc = "send" /\ Accepts(Rows(c))
    /\ Add(<<tbl, None>>, Rows(c))
    /\ call' = [call EXCEPT ![c].pc = "commit", ![c].tx = [table |-> tbl, rows |-> {}]]
    /\ UNCHANGED <<setup, life, now, fresh, results>>

\* ExecContext: the rows are in the transaction and not yet in the table.  If it
\* fails the deferred Rollback ends the transaction.
Insert(c, tbl) ==
    /\ kind = "postgres" /\ call[c].pc = "send"
    /\ \/ /\ Accepts(Rows(c))
          /\ call' = [call EXCEPT ![c].pc = "commit",
                                  ![c].tx = [table |-> tbl, rows |-> Rows(c)]]
          /\ UNCHANGED results
       \/ (Faulty(c) \/ ~Accepts(Rows(c))) /\ Return(c, FALSE)
    /\ UNCHANGED <<setup, life, now, fresh, held>>

\* The server puts what the transaction holds into the table, and its reply may
\* get lost; or the transaction is gone, as it is when the context is cancelled
\* or the connection closed before Commit gets there.
Commit(c) ==
    /\ kind = "postgres" /\ call[c].pc = "commit"
    /\ \/ /\ Add(<<call[c].tx.table, None>>, call[c].tx.rows)
          /\ \E ok \in {TRUE, ~Faulty(c)} : Return(c, ok)
       \/ Faulty(c) /\ Return(c, FALSE) /\ UNCHANGED held
    /\ UNCHANGED <<setup, life, now, fresh>>

PostgresWriteGameplay(c) == typeOf[c] = "gameplay" /\ Insert(c, "gameplay")
PostgresWritePerformance(c) == typeOf[c] = "performance" /\ Insert(c, "performance")
PostgresWriteUserBehavior(c) == typeOf[c] = "user_behavior" /\ Insert(c, "user_behavior")

PostgresStep(c) ==
    \/ BeginTx(c) \/ TransformRows(c) \/ Commit(c)
    \/ PostgresWriteGameplay(c) \/ PostgresWritePerformance(c) \/ PostgresWriteUserBehavior(c)
PostgresSetup ==
    \/ InitializePostgresGameplay \/ InitializePostgresPerformance
    \/ InitializePostgresUserBehavior

\* The pool is closed.
ClosePostgres(t) == kind = "postgres" /\ Close(t)

ClosePostgresGameplay == ClosePostgres("gameplay")
ClosePostgresPerformance == ClosePostgres("performance")
ClosePostgresUserBehavior == ClosePostgres("user_behavior")

PostgresTeardown == ClosePostgresGameplay \/ ClosePostgresPerformance \/ ClosePostgresUserBehavior
=============================================================================
