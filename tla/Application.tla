------------------------------ MODULE Application ------------------------------
(***************************************************************************)
(* main.go, internal/app and internal/bootstrap: how the process starts,   *)
(* which servers take requests from when on, how it stops, and what the    *)
(* storage plugins and the processors of the event types go through.       *)
(*                                                                         *)
(* A processor is modelled by the ledger that module Processor implements, *)
(* with the writes that are under way spelled out; a batch is one event.   *)
(* A plugin instance is named by its type and its place in the list of     *)
(* enabled plugins; place 0 is the noop fallback.                          *)
(***************************************************************************)
EXTENDS Naturals, Sequences, FiniteSets

CONSTANTS TypeOrder,    \* the event types, in the order the code handles them
          Configurations, \* what GetEnabledPlugins() may return: sequences of names
          Known,        \* the names InitializeStoragePlugins knows
          Unreachable,  \* known plugins whose Initialize may fail
          Flaky,        \* known plugins whose WriteBatch may fail
          Events, TypeOf

Types == {TypeOrder[n] : n \in DOMAIN TypeOrder}
ASSUME ApplicationAssumption ==
    /\ TypeOrder \in Seq(Types) /\ TypeOrder # <<>>
    /\ \A m, n \in DOMAIN TypeOrder : TypeOrder[m] = TypeOrder[n] => m = n
    /\ TypeOf \in [Events -> Types]
    /\ Configurations \subseteq Seq(STRING)
    /\ Unreachable \cup Flaky \subseteq Known \ {"noop"}

VARIABLES
    main,       \* where main is (Stages)
    enabled,    \* appCfg.GetEnabledPlugins()
    place, turn,\* loop counters: the current plugin, the current type
    plugin,     \* [Types -> [Places -> {"none", "open", "closed"}]]
    phase,      \* each processor: "open", "closed", "drained" or "aborted"
    dedups,     \* the deduplicators: "none", "open" or "closed"
    at,         \* where each event is
    todo,       \* the plugins (places) that have yet to write each event
    stored,     \* history: what each plugin instance has persisted
    lost        \* history: what each plugin instance failed to persist

vars == <<main, enabled, place, turn, plugin, phase, dedups, at, todo, stored, lost>>
startup == <<enabled, place, turn, plugin, phase, dedups>>
flow == <<at, todo, stored, lost>>

Starting == {"config", "plugins", "processors", "servers", "gateway", "notify"}
Stopping == {"shutdown", "close dedups", "close plugins"}
Down == {"exit 1", "killed", "panic", "exit 0"}
Stages == Starting \cup {"waiting"} \cup Stopping \cup Down

Places == 0 .. Len(enabled)
Name(i) == IF i = 0 THEN "noop" ELSE enabled[i]

Up == main \notin Down
Serving == main \in {"gateway", "notify", "waiting"} \cup Stopping
Opened(t) == {i \in Places : plugin[t][i] # "none"}
Accepted == {e \in Events : at[e] \in {"queued", "writing", "done"}}
Handled == {e \in Events : at[e] = "done"}

Init ==
    /\ main = "config" /\ enabled \in Configurations
    /\ place = 1 /\ turn = 1
    /\ plugin = [t \in Types |-> [i \in Places |-> "none"]]
    /\ phase = [t \in Types |-> "open"]
    /\ dedups = "none"
    /\ at = [e \in Events |-> "new"]
    /\ todo = [e \in Events |-> {}]
    /\ stored = [t \in Types |-> [i \in Places |-> {}]]
    /\ lost = [t \in Types |-> [i \in Places |-> {}]]

-----------------------------------------------------------------------------
(* New *)

\* Configuration, logger, IAM and tracer; each may fail, and main exits.
Configure ==
    /\ main = "config"
    /\ main' \in {"plugins", "exit 1"}
    /\ UNCHANGED <<startup, flow>>

SkipUnknown ==
    /\ main = "plugins" /\ place <= Len(enabled)
    /\ enabled[place] \notin Known
    /\ place' = place + 1
    /\ UNCHANGED <<main, enabled, turn, plugin, phase, dedups, flow>>

NextInstance_OffByOne ==   \* mutant
    IF turn > Len(TypeOrder)
    THEN turn' = 1 /\ place' = place + 1
    ELSE turn' = turn + 1 /\ UNCHANGED place

NextInstance ==
    IF turn = Len(TypeOrder)
    THEN turn' = 1 /\ place' = place + 1
    ELSE turn' = turn + 1 /\ UNCHANGED place

InitializeFails_Tolerant ==   \* mutant: logged, like an unknown name
    NextInstance /\ UNCHANGED <<main, plugin>>

InitializeFails == main' = "exit 1" /\ UNCHANGED <<plugin, place, turn>>

\* Plugin by plugin, and for each plugin type by type.  A failure leaves the
\* plugins that are open as they are, and main exits.
InitializePlugin ==
    /\ main = "plugins" /\ place <= Len(enabled)
    /\ enabled[place] \in Known
    /\ \/ /\ plugin' = [plugin EXCEPT ![TypeOrder[turn]][place] = "open"]
          /\ NextInstance /\ UNCHANGED main
       \/ enabled[place] \in Unreachable /\ InitializeFails
    /\ UNCHANGED <<enabled, phase, dedups, flow>>

\* With no plugin open, every type gets the noop plugin.
WithFallback ==
    IF Opened(TypeOrder[1]) = {}
    THEN [t \in Types |-> [plugin[t] EXCEPT ![0] = "open"]]
    ELSE plugin

PluginsReady ==
    /\ main = "plugins" /\ place > Len(enabled)
    /\ plugin' = WithFallback
    /\ main' = "processors"
    /\ UNCHANGED <<enabled, place, turn, phase, dedups, flow>>

\* Deduplicators and processors do not fail to start; the gRPC server is made.
StartProcessors ==
    /\ main = "processors"
    /\ dedups' = "open"
    /\ main' = "servers"
    /\ UNCHANGED <<enabled, place, turn, plugin, phase, flow>>

(* Run *)

\* The metrics server, then the gRPC server, which takes requests at once.
StartGRPCServer ==
    /\ main = "servers"
    /\ main' \in {"gateway", "exit 1"}
    /\ UNCHANGED <<startup, flow>>

StartGateway ==
    /\ main = "gateway"
    /\ main' \in {"notify", "exit 1"}
    /\ UNCHANGED <<startup, flow>>

\* A server whose Serve fails in the background ends the process.
ServeFails ==
    /\ main \in {"gateway", "notify", "waiting"} \cup Stopping
    /\ main' = "exit 1"
    /\ UNCHANGED <<startup, flow>>

\* signal.NotifyContext, after everything else.
Notify ==
    /\ main = "notify"
    /\ main' = "waiting"
    /\ UNCHANGED <<startup, flow>>

\* SIGTERM or SIGINT: before NotifyContext it kills, later ones change nothing.
Signal ==
    \/ /\ main \in Starting /\ main' = "killed"
       /\ UNCHANGED <<startup, flow>>
    \/ /\ main = "waiting" /\ main' = "shutdown" /\ turn' = 1
       /\ UNCHANGED <<enabled, place, plugin, phase, dedups, flow>>

-----------------------------------------------------------------------------
(* Requests: the servers are never stopped, they end with the process. *)

\* A request reaches Submit; what the deduplicator lets through goes on.
Request(e) ==
    /\ Serving /\ at[e] = "new"
    /\ at' = [at EXCEPT ![e] = "submitting"]
    /\ UNCHANGED <<main, startup, todo, stored, lost>>

\* The send: into an open channel (when it has room), a panic on a closed one;
\* once the context is cancelled a blocked Submit may get away with an error.
Send(e) ==
    LET p == phase[TypeOf[e]]
    IN /\ Up /\ at[e] = "submitting"
       /\ \/ p = "open" /\ at' = [at EXCEPT ![e] = "queued"] /\ UNCHANGED main
          \/ p # "open" /\ main' = "panic" /\ UNCHANGED at
          \/ p = "aborted" /\ at' = [at EXCEPT ![e] = "dropped"] /\ UNCHANGED main
       /\ UNCHANGED <<startup, todo, stored, lost>>

\* A worker takes the event to processBatch.
StartBatch(e) ==
    /\ Up /\ at[e] = "queued"
    /\ at' = [at EXCEPT ![e] = "writing"]
    /\ todo' = [todo EXCEPT ![e] = Opened(TypeOf[e])]
    /\ UNCHANGED <<main, startup, stored, lost>>

\* Why a write may fail: the plugin is flaky, the context is cancelled, or the
\* plugin was closed under it.
MayFail(t, i) == Name(i) \in Flaky \/ phase[t] = "aborted" \/ plugin[t][i] = "closed"

WriteBatch(e, i) ==
    LET t == TypeOf[e]
    IN /\ Up /\ i \in todo[e]
       /\ todo' = [todo EXCEPT ![e] = @ \ {i}]
       /\ \/ stored' = [stored EXCEPT ![t][i] = @ \cup {e}] /\ UNCHANGED lost
          \/ MayFail(t, i) /\ lost' = [lost EXCEPT ![t][i] = @ \cup {e}] /\ UNCHANGED stored
       /\ UNCHANGED <<main, startup, at>>

BatchDone(e) ==
    /\ Up /\ at[e] = "writing" /\ todo[e] = {}
    /\ at' = [at EXCEPT ![e] = "done"]
    /\ UNCHANGED <<main, startup, todo, stored, lost>>

-----------------------------------------------------------------------------
(* Shutdown *)

CloseInput ==
    LET t == TypeOrder[turn]
    IN /\ main = "shutdown" /\ phase[t] = "open"
       /\ phase' = [phase EXCEPT ![t] = "closed"]
       /\ UNCHANGED <<main, enabled, place, turn, plugin, dedups, flow>>

\* The processor at hand has ended in phase p; go on to the next, if any.
NextProcessor(p) ==
    /\ phase' = [phase EXCEPT ![TypeOrder[turn]] = p]
    /\ IF turn = Len(TypeOrder)
       THEN main' = "close dedups" /\ UNCHANGED turn
       ELSE turn' = turn + 1 /\ UNCHANGED main
    /\ UNCHANGED <<enabled, place, plugin, dedups, flow>>

Drained_Early(t) ==   \* mutant: the worker signs off before the batch is written
    \A e \in Events : TypeOf[e] = t => at[e] # "queued"

Drained(t) == \A e \in Events : TypeOf[e] = t => at[e] \notin {"queued", "writing"}

ShutdownDrained ==
    /\ main = "shutdown" /\ phase[TypeOrder[turn]] = "closed"
    /\ Drained(TypeOrder[turn])
    /\ NextProcessor("drained")

ShutdownTimeout_Waits ==   \* mutant: the workers are waited for all the same
    /\ main = "shutdown" /\ phase[TypeOrder[turn]] = "closed"
    /\ Drained(TypeOrder[turn])
    /\ NextProcessor("aborted")

ShutdownTimeout ==
    /\ main = "shutdown" /\ phase[TypeOrder[turn]] = "closed"
    /\ NextProcessor("aborted")

CloseDeduplicators ==
    /\ main = "close dedups"
    /\ dedups' = "closed"
    /\ main' = "close plugins" /\ turn' = 1
    /\ UNCHANGED <<enabled, place, plugin, phase, flow>>

ToClose_FirstType(t) == IF t = TypeOrder[1] THEN Opened(t) ELSE {}   \* mutant

ToClose(t) == Opened(t)

\* All plugins of one type, then those of the next; then main returns.  An
\* error of Close is logged.
ClosePlugins ==
    LET t == TypeOrder[turn]
    IN /\ main = "close plugins"
       /\ plugin' = [plugin EXCEPT ![t] =
              [i \in Places |-> IF i \in ToClose(t) THEN "closed" ELSE @[i]]]
       /\ IF turn = Len(TypeOrder)
          THEN main' = "exit 0" /\ UNCHANGED turn
          ELSE turn' = turn + 1 /\ UNCHANGED main
       /\ UNCHANGED <<enabled, place, phase, dedups, flow>>

Ended == ~Up /\ UNCHANGED vars

Start ==
    \/ Configure \/ SkipUnknown \/ InitializePlugin \/ PluginsReady \/ StartProcessors
    \/ StartGRPCServer \/ StartGateway \/ Notify

Stop ==
    \/ CloseInput \/ ShutdownDrained \/ ShutdownTimeout
    \/ CloseDeduplicators \/ ClosePlugins

Flow ==
    \/ \E e \in Events : Request(e) \/ Send(e) \/ StartBatch(e) \/ BatchDone(e)
    \/ \E e \in Events, i \in Places : WriteBatch(e, i)

Next == Start \/ ServeFails \/ Signal \/ Stop \/ Flow \/ Ended

Spec == Init /\ [][Next]_vars

\* main goes on with the steps of the shutdown, and a processor's Shutdown
\* returns at its timeout.  No write is assumed to return.
FairSpec ==
    /\ Spec
    /\ WF_vars(CloseInput \/ CloseDeduplicators \/ ClosePlugins)
    /\ WF_vars(ShutdownDrained \/ ShutdownTimeout)

-----------------------------------------------------------------------------
(* Properties *)

\* The shapes of the variables.
TypeOK ==
    /\ main \in Stages
    /\ enabled \in Configurations
    /\ place \in 1 .. Len(enabled) + 1 /\ turn \in DOMAIN TypeOrder
    /\ plugin \in [Types -> [Places -> {"none", "open", "closed"}]]
    /\ phase \in [Types -> {"open", "closed", "drained", "aborted"}]
    /\ dedups \in {"none", "open", "closed"}
    /\ at \in [Events -> {"new", "submitting", "queued", "writing", "done", "dropped"}]
    /\ todo \in [Events -> SUBSET Places]
    /\ stored \in [Types -> [Places -> SUBSET Events]]
    /\ lost \in [Types -> [Places -> SUBSET Events]]

\* Requests are taken only when every type has the same plugins, and at least
\* one, whatever mix of unknown and failing plugins was configured; until the
\* shutdown gets to them they are all open.
ServesWhenReady ==
    Serving =>
        /\ \A t, u \in Types : Opened(t) = Opened(u) /\ Opened(t) # {}
        /\ main # "close plugins" => \A t \in Types : \A i \in Opened(t) : plugin[t][i] = "open"

\* The shutdown takes nothing away that is still in use: a plugin with a write
\* to come is open, and with the deduplicators closed no processor accepts
\* events; except that a Shutdown that timed out leaves writes behind.
StopsInOrder ==
    /\ \A e \in Events : \A i \in todo[e] :
            plugin[TypeOf[e]][i] = "open" \/ phase[TypeOf[e]] = "aborted"
    /\ dedups = "closed" => \A t \in Types : phase[t] \in {"drained", "aborted"}

\* When main returns, no plugin is left open; and each type whose Shutdown did
\* not time out, whatever the others did, has every accepted event persisted
\* by every plugin of the type that is not flaky.
CleanExit ==
    main = "exit 0" =>
        \A t \in Types : \A i \in Opened(t) :
            /\ plugin[t][i] = "closed"
            /\ phase[t] = "drained" /\ Name(i) \notin Flaky =>
                  {e \in Accepted : TypeOf[e] = t} \subseteq stored[t][i]

\* Every type's processor keeps a ledger of its own, throughout the life of the
\* process and independently of the other types.
L(t) == INSTANCE Ledger
          WITH Events <- {e \in Events : TypeOf[e] = t}, Limit <- 1,
               accepted <- {e \in Accepted : TypeOf[e] = t},
               handled <- {e \in Handled : TypeOf[e] = t},
               phase <- phase[t]
LedgerPerType ==
    /\ \A t \in Types : L(t)!Init
    /\ [][\A t \in Types : L(t)!Next \/ UNCHANGED L(t)!vars]_vars

\* A shutdown that has begun ends, even if a write never returns and requests
\* keep coming.
ShutdownEnds == main = "shutdown" ~> ~Up
=============================================================================
