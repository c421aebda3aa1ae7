-------------------------------- MODULE Plugins --------------------------------
(***************************************************************************)
(* pkg/storage/plugin.go: what the storage plugins have in common.  A      *)
(* plugin has one instance per event type, and the instances of one        *)
(* backend share its server, bucket or database.  Each package is a module *)
(* that extends this one; Sink puts them together.                         *)
(*                                                                         *)
(* Workers call WriteBatch concurrently; a batch is never written twice.   *)
(* The processors are shut down one type after the other.  A Shutdown that *)
(* times out cancels the context of the writes of its type, and the        *)
(* plugins may then be closed under them.                                  *)
(***************************************************************************)
EXTENDS Naturals, FiniteSets

CONSTANTS Kinds,         \* the packages considered
          Callers,       \* workers
          Assignments,   \* the event types that the workers may be of
          Events,
          Unencodable,   \* events that json.Marshal refuses (a NaN among the doubles)
          Rejected,      \* events whose row, document or message the backend refuses
          MaxRows,       \* rows in a PostgreSQL statement at most: 65535 \div 7
          MaxTime,       \* bound on the clock, for TLC
          None

EventTypes == {"user_behavior", "gameplay", "performance"}

ASSUME PluginsAssumption ==
    /\ Kinds \subseteq {"s3", "postgres", "mongodb", "kafka", "noop"}
    /\ Assignments \subseteq [Callers -> EventTypes]
    /\ MaxRows \in Nat /\ MaxTime \in Nat /\ None \notin Nat

VARIABLES kind, typeOf,   \* the package and the event type of each worker
          condition,      \* its server: "healthy", "flaky", "down", or not "configured"
          plugin,         \* each instance: "new", "open", "failed" or "closed"
          processor,      \* of each type: "running", "drained", or "cancelled" after a timeout
          now,            \* the clock, in milliseconds; only S3 looks at it
          fresh,          \* events that no batch has held yet
          call,           \* each worker's WriteBatch: [pc, batch, at, tx, dead]
          held,           \* the backend: [subset of containers -> sets of events]
          results         \* history: every WriteBatch that returned

setup == <<kind, typeOf, condition>>
life == <<plugin, processor>>
vars == <<kind, typeOf, condition, plugin, processor, now, fresh, call, held, results>>

\* A container is an S3 object, named by its type and a time, or a table, a
\* collection or a topic.
Own(t) == UNION {held[k] : k \in {c \in DOMAIN held : c[1] = t}}

Idle == [pc |-> "idle", batch |-> {}, at |-> None, tx |-> None, dead |-> FALSE]

Init ==
    /\ kind \in Kinds /\ typeOf \in Assignments
    /\ condition \in {"healthy", "flaky", "down", "unconfigured"}
    /\ plugin = [t \in EventTypes |-> "new"] /\ processor = [t \in EventTypes |-> "running"]
    /\ now = 0 /\ fresh = Events
    /\ call = [c \in Callers |-> Idle]
    /\ held = [k \in {} |-> {}]
    /\ results = {}

\* InitializeStoragePlugins, ShutdownProcessors and CloseStoragePlugins go
\* through the types in this order.
Before(t) == CASE t = "user_behavior" -> {}
               [] t = "gameplay"      -> {"user_behavior"}
               [] t = "performance"   -> {"user_behavior", "gameplay"}

Turn(t, from, to) == plugin[t] = from /\ \A u \in Before(t) : plugin[u] = to

\* Initialize returns; outcomes holds what it may come to.
Initialized(t, outcomes) ==
    /\ Turn(t, "new", "open")
    /\ \E s \in outcomes : plugin' = [plugin EXCEPT ![t] = s]
    /\ UNCHANGED <<setup, processor, now, fresh, call, held, results>>

\* What a plugin that asks its server in Initialize comes to.
Contacted == CASE condition = "healthy" -> {"open"}
               [] condition = "flaky"   -> {"open", "failed"}
               [] OTHER                 -> {"failed"}

Advance ==
    /\ kind = "s3" /\ now < MaxTime /\ now' = now + 1
    /\ UNCHANGED <<setup, life, fresh, call, held, results>>

\* The Shutdown of a type's processor ends: its workers are done, or it times
\* out and cancels their context.
ShutdownEnds(t, as) ==
    /\ processor[t] = "running" /\ \A u \in Before(t) : processor[u] # "running"
    /\ \A u \in EventTypes : plugin[u] = "open"
    /\ processor' = [processor EXCEPT ![t] = as]
    /\ UNCHANGED <<setup, plugin, now, fresh, call, held, results>>

Drained(t) ==
    (\A c \in Callers : typeOf[c] = t => call[c] = Idle) /\ ShutdownEnds(t, "drained")

Cancel(t) == (\E c \in Callers : typeOf[c] = t) /\ ShutdownEnds(t, "cancelled")

Dead(c) == processor[typeOf[c]] = "cancelled"

\* A worker calls WriteBatch.  After Close only the workers that a Shutdown
\* left behind do, under the cancelled context.
WriteBatch(c, S) ==
    /\ call[c].pc = "idle" /\ S # {} /\ processor[typeOf[c]] # "drained"
    /\ \A t \in EventTypes : plugin[t] \in {"open", "closed"}
    /\ call' = [call EXCEPT ![c] =
           [pc |-> "encode", batch |-> S, at |-> None, tx |-> None, dead |-> Dead(c)]]
    /\ fresh' = fresh \ S
    /\ UNCHANGED <<setup, life, now, held, results>>

\* A call to the backend can fail of its own accord, or it can work.
Faulty(c) == condition # "healthy" \/ Dead(c)
Works(c) == condition \in {"healthy", "flaky"} /\ ~call[c].dead

Return(c, ok) ==
    /\ results' = results \cup
           {[type |-> typeOf[c], batch |-> call[c].batch, at |-> call[c].at, ok |-> ok,
             reached |-> call[c].pc, calm |-> ~Faulty(c)]}
    /\ call' = [call EXCEPT ![c] = Idle]

Rows(c) == call[c].batch \ Unencodable

Add(container, S) ==
    held' = [k \in DOMAIN held \cup {container} |->
                IF k # container THEN held[k]
                ELSE IF k \in DOMAIN held THEN held[k] \cup S ELSE S]

\* The end of transform, for the plugins that skip what they cannot marshal;
\* emptyOk is what they answer if nothing is left.
Transform(c, emptyOk) ==
    /\ call[c].pc = "encode"
    /\ \/ Rows(c) = {} /\ Return(c, emptyOk)
       \/ /\ Rows(c) # {}
          /\ call' = [call EXCEPT ![c].pc = "send"]
          /\ UNCHANGED results
    /\ UNCHANGED <<setup, life, now, fresh, held>>

\* Close, once the workers are done or have been given up on.
Close(t) ==
    /\ Turn(t, "open", "closed") /\ \A u \in EventTypes : processor[u] # "running"
    /\ plugin' = [plugin EXCEPT ![t] = "closed"]
    /\ UNCHANGED <<setup, processor, now, fresh, call, held, results>>

\* The noop plugin opens always and throws every batch away.
InitializeNoop(t) == kind = "noop" /\ Initialized(t, {"open"})
CloseNoop(t) == kind = "noop" /\ Close(t)

Discard(c) ==
    /\ kind = "noop" /\ call[c].pc = "encode"
    /\ Return(c, TRUE)
    /\ UNCHANGED <<setup, life, now, fresh, held>>
=============================================================================
