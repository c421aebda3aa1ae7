--------------------------- MODULE ApplicationProofs ---------------------------
(***************************************************************************)
(* Theorems about Application, for any number of event types, any plugins  *)
(* and configurations, and any events.                                     *)
(***************************************************************************)
EXTENDS Application, TLAPS, FiniteSetTheorems

-----------------------------------------------------------------------------
(* The inductive invariant *)

\* While the plugins are initialised, exactly the known plugins before the loop
\* counters are open.
Initializing ==
    /\ main = "config" => place = 1 /\ turn = 1
    /\ main \in {"config", "plugins"} =>
          /\ turn > 1 => place <= Len(enabled) /\ enabled[place] \in Known
          /\ \A n \in DOMAIN TypeOrder, i \in Places :
                plugin[TypeOrder[n]][i] =
                    IF /\ i > 0 /\ (i < place \/ (i = place /\ n < turn))
                       /\ enabled[i] \in Known
                    THEN "open" ELSE "none"

\* Afterwards the types have the same plugins until the process ends.
Uniform ==
    main \notin {"config", "plugins"} \cup Down =>
        \A t, u \in Types : Opened(t) = Opened(u) /\ Opened(t) # {}

\* Plugins are closed after the deduplicators, in the order of the types.
Closing ==
    /\ dedups = "closed" => main \in {"close plugins"} \cup Down
    /\ main = "close plugins" => dedups = "closed"
    /\ \A t \in Types, i \in Places : plugin[t][i] = "closed" => dedups = "closed"
    /\ main = "close plugins" => \A n \in DOMAIN TypeOrder : n < turn =>
            \A i \in Opened(TypeOrder[n]) : plugin[TypeOrder[n]][i] = "closed"
    /\ main = "exit 0" => \A t \in Types : \A i \in Opened(t) : plugin[t][i] = "closed"

Over(t) == phase[t] \in {"drained", "aborted"}

\* The processors end in the order of the types, and before the deduplicators.
PhaseOrder ==
    /\ main \in Starting \cup {"waiting"} => \A t \in Types : phase[t] = "open"
    /\ main = "shutdown" => \A n \in DOMAIN TypeOrder : n < turn => Over(TypeOrder[n])
    /\ main \in {"close dedups", "close plugins", "exit 0"} \/ dedups = "closed"
          => \A t \in Types : Over(t)

\* How far an event is says which plugins have yet to write it and, unless its
\* processor was aborted, which have persisted it.
Progress ==
    /\ main \in {"config", "plugins", "processors", "servers"} => \A e \in Events : at[e] = "new"
    /\ \A e \in Events :
          /\ todo[e] \subseteq Opened(TypeOf[e])
          /\ todo[e] # {} => at[e] = "writing"
          /\ phase[TypeOf[e]] = "drained" => at[e] \notin {"queued", "writing"}
          /\ at[e] \in {"writing", "done"} /\ phase[TypeOf[e]] # "aborted" =>
                \A i \in Opened(TypeOf[e]) \ todo[e] :
                    Name(i) \notin Flaky => e \in stored[TypeOf[e]][i]

IInv == TypeOK /\ Initializing /\ Uniform /\ Closing /\ PhaseOrder /\ Progress

-----------------------------------------------------------------------------
(* The type invariant *)

LEMMA TurnRange ==
    DOMAIN TypeOrder = 1 .. Len(TypeOrder) /\ Len(TypeOrder) \in Nat \ {0}
<1>1. TypeOrder \in Seq(Types) /\ TypeOrder # <<>>
  BY ApplicationAssumption
<1> QED
  BY <1>1

LEMMA TurnType == TypeOK => TypeOrder[turn] \in Types
BY ApplicationAssumption DEF TypeOK, Types

\* The two halves of the type invariant.
ControlOK ==
    /\ main \in Stages /\ enabled \in Configurations
    /\ place \in 1 .. Len(enabled) + 1 /\ turn \in DOMAIN TypeOrder
    /\ plugin \in [Types -> [Places -> {"none", "open", "closed"}]]
    /\ phase \in [Types -> {"open", "closed", "drained", "aborted"}]
    /\ dedups \in {"none", "open", "closed"}

FlowOK ==
    /\ at \in [Events -> {"new", "submitting", "queued", "writing", "done", "dropped"}]
    /\ todo \in [Events -> SUBSET Places]
    /\ stored \in [Types -> [Places -> SUBSET Events]]
    /\ lost \in [Types -> [Places -> SUBSET Events]]

LEMMA TypeHalves == TypeOK <=> ControlOK /\ FlowOK
BY DEF TypeOK, ControlOK, FlowOK

LEMMA FlowUnchanged == FlowOK /\ UNCHANGED <<enabled, flow>> => FlowOK'
BY DEF FlowOK, flow, Places

LEMMA ControlFrame ==
    ASSUME ControlOK, UNCHANGED enabled,
           main' \in Stages, place' \in 1 .. Len(enabled) + 1, turn' \in DOMAIN TypeOrder,
           plugin' \in [Types -> [Places -> {"none", "open", "closed"}]],
           phase' \in [Types -> {"open", "closed", "drained", "aborted"}],
           dedups' \in {"none", "open", "closed"}
    PROVE  ControlOK'
BY DEF ControlOK, Places

LEMMA ControlUnchanged ==
    ASSUME ControlOK, UNCHANGED startup, main' \in Stages
    PROVE  ControlOK'
BY DEF ControlOK, startup, Places

LEMMA InitType == Init => TypeOK
BY ApplicationAssumption, TurnRange DEF Init, TypeOK, Places, Stages, Starting

LEMMA NextType == TypeOK /\ [Next]_vars => TypeOK'
<1> SUFFICES ASSUME TypeOK, ControlOK, FlowOK, [Next]_vars PROVE ControlOK' /\ FlowOK'
  BY TypeHalves, PTL
<1>1. CASE Start \/ ServeFails \/ Signal \/ Stop
  <2>1. UNCHANGED <<enabled, flow>>
    BY <1>1 DEF Start, Stop, Configure, SkipUnknown, InitializePlugin, PluginsReady, StartProcessors,
       StartGRPCServer, StartGateway, Notify, ServeFails, Signal, CloseInput, ShutdownDrained,
       ShutdownTimeout, NextProcessor, CloseDeduplicators, ClosePlugins, startup, flow
  <2>2. FlowOK'
    BY <2>1, FlowUnchanged
  <2>3. main' \in Stages
    <3> USE DEF Stages, Starting, Stopping, Down
    <3>1. CASE Configure \/ StartGRPCServer \/ StartGateway \/ Notify \/ ServeFails \/ StartProcessors \/ PluginsReady
      BY <3>1 DEF Configure, StartGRPCServer, StartGateway, Notify, ServeFails, StartProcessors, PluginsReady
    <3>2. CASE SkipUnknown \/ InitializePlugin \/ Signal
      BY <3>2 DEF ControlOK, SkipUnknown, InitializePlugin, InitializeFails, Signal
    <3>3. CASE Stop
      BY <3>3 DEF ControlOK, Stop, CloseInput, ShutdownDrained, ShutdownTimeout, NextProcessor,
         CloseDeduplicators, ClosePlugins
    <3> QED
      BY <1>1, <3>1, <3>2, <3>3 DEF Start
  <2>4. turn' \in DOMAIN TypeOrder
    <3>1. turn \in 1 .. Len(TypeOrder) /\ Len(TypeOrder) \in Nat \ {0}
      BY TurnRange DEF ControlOK
    <3>2. turn' = turn \/ turn' = 1 \/ (turn' = turn + 1 /\ turn # Len(TypeOrder))
      <4>1. CASE Start \/ ServeFails
        BY <4>1 DEF Start, Configure, SkipUnknown, InitializePlugin, InitializeFails, NextInstance,
           PluginsReady, StartProcessors, StartGRPCServer, StartGateway, Notify, ServeFails, startup
      <4>2. CASE Signal \/ Stop
        BY <4>2 DEF Signal, Stop, CloseInput, ShutdownDrained, ShutdownTimeout, NextProcessor,
           CloseDeduplicators, ClosePlugins, startup
      <4> QED
        BY <1>1, <4>1, <4>2
    <3>3. turn' \in 1 .. Len(TypeOrder)
      BY <3>1, <3>2
    <3> QED
      BY <3>3, TurnRange
  <2>5. CASE Configure \/ StartGRPCServer \/ StartGateway \/ Notify \/ ServeFails
    BY <2>2, <2>3, <2>5, ControlUnchanged DEF Configure, StartGRPCServer, StartGateway, Notify, ServeFails
  <2>6. CASE SkipUnknown
    BY <2>1, <2>2, <2>3, <2>4, <2>6, ControlFrame DEF ControlOK, SkipUnknown
  <2>7. CASE InitializePlugin
    <3>1. CASE NextInstance /\ plugin' = [plugin EXCEPT ![TypeOrder[turn]][place] = "open"]
      <4>1. place' \in 1 .. Len(enabled) + 1
        BY <2>7, <3>1 DEF ControlOK, InitializePlugin, NextInstance
      <4>2. plugin' \in [Types -> [Places -> {"none", "open", "closed"}]]
        BY <3>1, TurnType DEF ControlOK
      <4> QED
        BY <2>1, <2>2, <2>3, <2>4, <2>7, <4>1, <4>2, ControlFrame DEF ControlOK, InitializePlugin
    <3>2. CASE InitializeFails
      BY <2>1, <2>2, <2>3, <2>4, <2>7, <3>2, ControlFrame DEF ControlOK, InitializePlugin, InitializeFails
    <3> QED
      BY <2>7, <3>1, <3>2 DEF InitializePlugin
  <2>8. CASE PluginsReady
    <3>1. plugin' \in [Types -> [Places -> {"none", "open", "closed"}]]
      BY <2>8 DEF ControlOK, PluginsReady, WithFallback
    <3> QED
      BY <2>1, <2>2, <2>3, <2>4, <2>8, <3>1, ControlFrame DEF ControlOK, PluginsReady
  <2>9. CASE StartProcessors \/ CloseDeduplicators
    BY <2>1, <2>2, <2>3, <2>4, <2>9, ControlFrame DEF ControlOK, StartProcessors, CloseDeduplicators
  <2>10. CASE Signal
    BY <2>1, <2>2, <2>3, <2>4, <2>10, ControlFrame DEF ControlOK, Signal, startup
  <2>11. CASE CloseInput
    <3>1. phase' \in [Types -> {"open", "closed", "drained", "aborted"}]
      BY <2>11, TurnType DEF ControlOK, CloseInput
    <3> QED
      BY <2>1, <2>2, <2>3, <2>4, <2>11, <3>1, ControlFrame DEF ControlOK, CloseInput
  <2>12. CASE ShutdownDrained \/ ShutdownTimeout
    <3>1. PICK p \in {"drained", "aborted"} : NextProcessor(p)
      BY <2>12 DEF ShutdownDrained, ShutdownTimeout
    <3>2. phase' \in [Types -> {"open", "closed", "drained", "aborted"}]
      BY <3>1, TurnType DEF ControlOK, NextProcessor
    <3> QED
      BY <2>1, <2>2, <2>3, <2>4, <3>1, <3>2, ControlFrame DEF ControlOK, NextProcessor
  <2>13. CASE ClosePlugins
    <3>1. plugin' \in [Types -> [Places -> {"none", "open", "closed"}]]
      BY <2>13, TurnType DEF ControlOK, ClosePlugins
    <3> QED
      BY <2>1, <2>2, <2>3, <2>4, <2>13, <3>1, ControlFrame DEF ControlOK, ClosePlugins
  <2> QED
    BY <1>1, <2>5, <2>6, <2>7, <2>8, <2>9, <2>10, <2>11, <2>12, <2>13 DEF Start, Stop
<1>2. ASSUME NEW e \in Events, Request(e) \/ Send(e) \/ BatchDone(e) PROVE ControlOK' /\ FlowOK'
  <2>1. main' \in Stages
    BY <1>2 DEF ControlOK, Request, Send, BatchDone, Stages, Down
  <2>2. ControlOK'
    BY <1>2, <2>1, ControlUnchanged DEF Request, Send, BatchDone
  <2> QED
    BY <1>2, <2>2 DEF FlowOK, Request, Send, BatchDone, startup, Places
<1>3. ASSUME NEW e \in Events, StartBatch(e) PROVE ControlOK' /\ FlowOK'
  <2>1. ControlOK'
    BY <1>3, ControlUnchanged DEF ControlOK, StartBatch
  <2> QED
    BY <1>3, <2>1 DEF FlowOK, StartBatch, startup, Places, Opened
<1>4. ASSUME NEW e \in Events, NEW i \in Places, WriteBatch(e, i) PROVE ControlOK' /\ FlowOK'
  <2>1. ControlOK'
    BY <1>4, ControlUnchanged DEF ControlOK, WriteBatch
  <2>2. TypeOf[e] \in Types
    BY ApplicationAssumption
  <2>3. at' = at /\ Places' = Places
    BY <1>4 DEF WriteBatch, startup, Places
  <2>4. todo' \in [Events -> SUBSET Places]
    BY <1>4 DEF FlowOK, WriteBatch
  <2>5. /\ stored' \in [Types -> [Places -> SUBSET Events]]
        /\ lost' \in [Types -> [Places -> SUBSET Events]]
    <3>1. CASE stored' = [stored EXCEPT ![TypeOf[e]][i] = @ \cup {e}] /\ UNCHANGED lost
      BY <2>2, <3>1 DEF FlowOK
    <3>2. CASE lost' = [lost EXCEPT ![TypeOf[e]][i] = @ \cup {e}] /\ UNCHANGED stored
      BY <2>2, <3>2 DEF FlowOK
    <3> QED
      BY <1>4, <3>1, <3>2 DEF WriteBatch
  <2> QED
    BY <2>1, <2>3, <2>4, <2>5 DEF FlowOK
<1>5. CASE UNCHANGED vars
  BY <1>5, ControlUnchanged, FlowUnchanged DEF ControlOK, vars, startup, flow
<1> QED
  BY <1>1, <1>2, <1>3, <1>4, <1>5 DEF Next, Flow, Ended

\* The variables keep their shapes: the loop counters stay in range and no event
\* or plugin gets into a state of its own.
THEOREM TypeCorrect == Spec => []TypeOK
BY InitType, NextType, PTL DEF Spec

-----------------------------------------------------------------------------
(* The inductive invariant is kept *)

LEMMA InitInvariant == Init => IInv
<1> SUFFICES ASSUME Init PROVE IInv
  OBVIOUS
<1>1. TypeOK
  BY InitType
<1>2. \A t \in Types, i \in Places : plugin[t][i] = "none"
  BY DEF Init
<1>3. Initializing
  <2>1. \A n \in DOMAIN TypeOrder : TypeOrder[n] \in Types
    BY DEF Types
  <2> QED
    BY <1>2, <2>1, TurnRange DEF Init, Initializing, Places
<1>4. Uniform /\ PhaseOrder
  BY DEF Init, Uniform, PhaseOrder, Stopping
<1>5. Closing
  BY <1>2 DEF Init, Closing
<1>6. Progress
  BY ApplicationAssumption DEF Init, Progress
<1> QED
  BY <1>1, <1>3, <1>4, <1>5, <1>6 DEF IInv

LEMMA OpenedSame ==
    ASSUME NEW t \in Types, UNCHANGED enabled,
           \A i \in Places : plugin'[t][i] = "none" <=> plugin[t][i] = "none"
    PROVE  Opened(t)' = Opened(t)
BY DEF Opened, Places

\* Once the plugins are ready, no step changes which plugins a type has.
LEMMA OpenedKept ==
    ASSUME TypeOK, [Next]_vars, main \notin {"config", "plugins"}
    PROVE  Places' = Places /\ \A t \in Types : Opened(t)' = Opened(t)
<1>1. UNCHANGED enabled
  BY DEF Next, Start, Stop, Flow, Configure, SkipUnknown, InitializePlugin, PluginsReady, StartProcessors,
     StartGRPCServer, StartGateway, Notify, ServeFails, Signal, CloseInput, ShutdownDrained,
     ShutdownTimeout, NextProcessor, CloseDeduplicators, ClosePlugins, Request, Send, StartBatch,
     WriteBatch, BatchDone, Ended, vars, startup
<1>2. CASE ClosePlugins
  <2> SUFFICES ASSUME NEW t \in Types PROVE \A i \in Places : plugin'[t][i] = "none" <=> plugin[t][i] = "none"
    BY <1>1, OpenedSame DEF Places
  <2>1. plugin \in [Types -> [Places -> {"none", "open", "closed"}]]
    BY DEF TypeOK
  <2>2. plugin' = [plugin EXCEPT ![TypeOrder[turn]] =
            [i \in Places |-> IF i \in Opened(TypeOrder[turn]) THEN "closed" ELSE @[i]]]
    BY <1>2 DEF ClosePlugins, ToClose
  <2> QED
    BY <2>1, <2>2 DEF Opened
<1>3. CASE UNCHANGED plugin
  BY <1>1, <1>3, OpenedSame DEF Places
<1> QED
  BY <1>2, <1>3 DEF Next, Start, Stop, Flow, Configure, SkipUnknown, InitializePlugin, PluginsReady, StartProcessors,
     StartGRPCServer, StartGateway, Notify, ServeFails, Signal, CloseInput, ShutdownDrained,
     ShutdownTimeout, NextProcessor, CloseDeduplicators, Request, Send, StartBatch,
     WriteBatch, BatchDone, Ended, vars, startup

\* Steps that leave the startup alone, and main where it is or dead.
LEMMA ControlKept ==
    ASSUME Initializing, Uniform, Closing, PhaseOrder, UNCHANGED startup,
           main' = main \/ main' \in Down \ {"exit 0"}
    PROVE  (Initializing /\ Uniform /\ Closing /\ PhaseOrder)'
<1>1. Places' = Places /\ \A t : Opened(t)' = Opened(t)
  BY DEF startup, Places, Opened
<1>2. Initializing'
  BY <1>1 DEF Initializing, startup, Down
<1>3. Uniform'
  BY <1>1 DEF Uniform
<1>4. Closing'
  BY <1>1 DEF Closing, startup, Down
<1>5. PhaseOrder'
  BY DEF PhaseOrder, Over, startup, Down, Starting
<1> QED
  BY <1>2, <1>3, <1>4, <1>5

\* Moves of main alone.
LEMMA MainMoves ==
    ASSUME IInv, Configure \/ StartGRPCServer \/ StartGateway \/ Notify \/ ServeFails \/ Signal
    PROVE  (Initializing /\ Uniform /\ Closing /\ PhaseOrder)'
<1> USE DEF IInv
<1>1. Places' = Places /\ \A t : Opened(t)' = Opened(t)
  BY DEF Configure, StartGRPCServer, StartGateway, Notify, ServeFails, Signal, startup, Places, Opened
<1>2. CASE main' \in Down
  <2>1. UNCHANGED startup /\ main' # "exit 0"
    BY <1>2 DEF Configure, StartGRPCServer, StartGateway, Notify, ServeFails, Signal, Down
  <2> QED
    BY <1>2, <2>1, ControlKept
<1>3. CASE main = "config" /\ main' = "plugins" /\ UNCHANGED startup
  <2>1. Initializing'
    BY <1>3 DEF Initializing, startup, Places
  <2>2. Uniform' /\ Closing' /\ PhaseOrder'
    BY <1>3 DEF Uniform, Closing, PhaseOrder, Over, startup, Places, Starting, Down
  <2> QED
    BY <2>1, <2>2
<1>4. CASE /\ main \in {"servers", "gateway", "notify"} /\ main' \in {"gateway", "notify", "waiting"}
           /\ UNCHANGED startup
  <2>1. Initializing' /\ Uniform'
    BY <1>1, <1>4 DEF Initializing, Uniform, Down
  <2>2. Closing' /\ PhaseOrder'
    BY <1>4 DEF Closing, PhaseOrder, Over, startup, Places, Starting, Down
  <2> QED
    BY <2>1, <2>2
<1>5. CASE main = "waiting" /\ main' = "shutdown" /\ turn' = 1 /\ UNCHANGED <<enabled, place, plugin, phase, dedups>>
  <2>1. Initializing' /\ Uniform'
    BY <1>1, <1>5 DEF Initializing, Uniform, Down
  <2>2. Closing'
    BY <1>5 DEF Closing, Places, Down
  <2>3. PhaseOrder'
    BY <1>5, TurnRange DEF Closing, PhaseOrder, Over, Starting, Down
  <2> QED
    BY <2>1, <2>2, <2>3
<1> QED
  BY <1>2, <1>3, <1>4, <1>5 DEF Configure, StartGRPCServer, StartGateway, Notify, ServeFails, Signal, Down

\* The loop over the plugins and the types.
LEMMA LoopMoves ==
    ASSUME IInv, TypeOK', SkipUnknown \/ InitializePlugin
    PROVE  (Initializing /\ Uniform /\ Closing /\ PhaseOrder)'
<1> USE DEF IInv
<1>1. main = "plugins" /\ place \in 1 .. Len(enabled) /\ UNCHANGED <<enabled, phase, dedups>>
  BY DEF SkipUnknown, InitializePlugin, TypeOK
<1>2. main' \in {"plugins", "exit 1"}
  BY <1>1 DEF SkipUnknown, InitializePlugin, InitializeFails
<1>3. \A n \in DOMAIN TypeOrder : TypeOrder[n] \in Types
  BY DEF Types
<1>4. plugin \in [Types -> [Places -> {"none", "open", "closed"}]] /\ Places' = Places
  BY <1>1 DEF TypeOK, Places
<1>5. turn \in 1 .. Len(TypeOrder) /\ Len(TypeOrder) \in Nat \ {0} /\ DOMAIN TypeOrder = 1 .. Len(TypeOrder)
  BY TurnRange DEF TypeOK
<1>6. Initializing'
  <2>1. CASE main' = "exit 1"
    BY <2>1 DEF Initializing
  <2>2. CASE SkipUnknown
    <3>1. turn = 1
      BY <1>1, <1>5, <2>2 DEF SkipUnknown, Initializing
    <3> QED
      BY <1>1, <1>4, <1>5, <2>2, <3>1 DEF SkipUnknown, Initializing, Places
  <2>3. CASE InitializePlugin /\ main' = "plugins"
    <3>1. plugin' = [plugin EXCEPT ![TypeOrder[turn]][place] = "open"] /\ NextInstance /\ enabled[place] \in Known
      BY <1>2, <2>3 DEF InitializePlugin, InitializeFails
    <3>2. ASSUME NEW n \in DOMAIN TypeOrder, NEW i \in Places
          PROVE  plugin'[TypeOrder[n]][i] =
                    IF n = turn /\ i = place THEN "open" ELSE plugin[TypeOrder[n]][i]
      BY <1>1, <1>3, <1>4, <3>1, ApplicationAssumption DEF TypeOK
    <3>3. \A n \in DOMAIN TypeOrder, i \in Places :
              plugin'[TypeOrder[n]][i] =
                    IF /\ i > 0 /\ (i < place \/ (i = place /\ n <= turn))
                       /\ enabled[i] \in Known
                    THEN "open" ELSE "none"
      BY <1>1, <1>5, <3>1, <3>2 DEF Initializing, Places
    <3>4. CASE turn = Len(TypeOrder) /\ turn' = 1 /\ place' = place + 1
      BY <1>1, <1>4, <1>5, <2>3, <3>1, <3>3, <3>4 DEF Initializing, Places
    <3>5. CASE turn # Len(TypeOrder) /\ turn' = turn + 1 /\ place' = place
      <4>1. \A n \in DOMAIN TypeOrder : n <= turn <=> n < turn'
        <5>1. turn \in Nat /\ DOMAIN TypeOrder \subseteq Nat
          BY <1>5
        <5>2. turn' = turn + 1
          BY <3>5
        <5> QED
          BY <5>1, <5>2
      <4>2. \A n \in DOMAIN TypeOrder, i \in Places :
                plugin'[TypeOrder[n]][i] =
                    IF /\ i > 0 /\ (i < place' \/ (i = place' /\ n < turn'))
                       /\ enabled[i] \in Known
                    THEN "open" ELSE "none"
        BY <3>3, <3>5, <4>1
      <4> QED
        BY <1>1, <1>4, <2>3, <3>1, <3>5, <4>2 DEF Initializing
    <3> QED
      BY <3>1, <3>4, <3>5 DEF NextInstance
  <2> QED
    BY <1>2, <2>1, <2>2, <2>3
<1>7. Uniform' /\ PhaseOrder'
  BY <1>1, <1>2 DEF Uniform, Closing, PhaseOrder, Over, Starting, Down
<1>8. Closing'
  <2>1. \A t \in Types, i \in Places : plugin[t][i] # "closed"
    BY <1>1 DEF Closing, Down
  <2>2. \A t \in Types, i \in Places : plugin'[t][i] # "closed"
    <3>1. CASE plugin' = [plugin EXCEPT ![TypeOrder[turn]][place] = "open"]
      BY <1>4, <2>1, <3>1, TurnType
    <3>2. CASE UNCHANGED plugin
      BY <2>1, <3>2
    <3> QED
      BY <3>1, <3>2 DEF SkipUnknown, InitializePlugin, InitializeFails
  <2> QED
    BY <1>1, <1>2, <1>4, <2>2 DEF Closing, Down
<1> QED
  BY <1>6, <1>7, <1>8

\* The loop is over: every type has the configured plugins that are known, or
\* else the noop plugin, all open.
LEMMA ReadyMoves ==
    ASSUME IInv, PluginsReady \/ StartProcessors
    PROVE  (Initializing /\ Uniform /\ Closing /\ PhaseOrder)'
<1> USE DEF IInv
<1>1. UNCHANGED <<enabled, phase>> /\ Places' = Places
  BY DEF PluginsReady, StartProcessors, Places
<1>2. main' \in {"processors", "servers"} /\ main \in {"plugins", "processors"}
  BY DEF PluginsReady, StartProcessors
<1>3. Initializing' /\ PhaseOrder'
  BY <1>1, <1>2 DEF Initializing, PluginsReady, StartProcessors, Closing, PhaseOrder, Over, Starting, Down
<1>4. CASE StartProcessors
  <2>1. UNCHANGED plugin /\ \A t : Opened(t)' = Opened(t)
    BY <1>1, <1>4 DEF StartProcessors, Opened
  <2>2. Uniform'
    BY <1>2, <1>4, <2>1 DEF Uniform, StartProcessors, Down
  <2>3. Closing'
    BY <1>1, <1>2, <1>4, <2>1 DEF Closing, StartProcessors, Down
  <2> QED
    BY <1>3, <2>2, <2>3
<1>5. CASE PluginsReady
  <2>1. plugin \in [Types -> [Places -> {"none", "open", "closed"}]] /\ 0 \in Places
    <3>1. Len(enabled) \in Nat
      BY ApplicationAssumption DEF TypeOK
    <3> QED
      BY <3>1 DEF TypeOK, Places
  <2>2. place = Len(enabled) + 1 /\ turn = 1 /\ Len(enabled) \in Nat
    <3>1. Len(enabled) \in Nat
      BY ApplicationAssumption DEF TypeOK
    <3>2. place = Len(enabled) + 1
      BY <3>1, <1>5 DEF TypeOK, PluginsReady
    <3>3. ~(turn > 1)
      BY <3>1, <3>2, <1>5 DEF Initializing, PluginsReady
    <3>4. turn \in 1 .. Len(TypeOrder)
      BY TurnRange DEF TypeOK
    <3>5. turn = 1
      BY <3>3, <3>4, TurnRange
    <3> QED
      BY <3>1, <3>2, <3>5
  <2> DEFINE Good == {i \in Places : i > 0 /\ enabled[i] \in Known}
  <2>3. \A t \in Types, i \in Places : plugin[t][i] = IF i \in Good THEN "open" ELSE "none"
    <3>1. \A n \in DOMAIN TypeOrder, i \in Places :
             plugin[TypeOrder[n]][i] = IF i > 0 /\ enabled[i] \in Known THEN "open" ELSE "none"
      BY <1>2, <1>5, <2>2 DEF Initializing, PluginsReady, Places
    <3> QED
      BY <3>1 DEF Types
  <2>4. \A t \in Types : Opened(t) = Good
    BY <2>3 DEF Opened
  <2>5. TypeOrder[1] \in Types
    BY TurnRange DEF Types
  <2>6. CASE Good = {}
    <3>1. plugin' = [t \in Types |-> [plugin[t] EXCEPT ![0] = "open"]]
      BY <1>5, <2>4, <2>5, <2>6 DEF PluginsReady, WithFallback
    <3>2. \A t \in Types, i \in Places : plugin'[t][i] = IF i = 0 THEN "open" ELSE "none"
      BY <2>1, <2>3, <2>6, <3>1
    <3>3. \A t \in Types : Opened(t)' = {0}
      BY <1>1, <2>1, <3>2 DEF Opened
    <3>4. Uniform'
      BY <3>3 DEF Uniform
    <3>5. Closing'
      BY <1>1, <1>2, <1>5, <3>2 DEF Closing, PluginsReady, Down
    <3> QED
      BY <1>3, <3>4, <3>5
  <2>7. CASE Good # {}
    <3>1. UNCHANGED plugin
      BY <1>5, <2>4, <2>5, <2>7 DEF PluginsReady, WithFallback
    <3>2. \A t \in Types : Opened(t)' = Good
      BY <1>1, <2>4, <3>1 DEF Opened
    <3>3. Uniform'
      BY <2>7, <3>2 DEF Uniform
    <3>4. Closing'
      BY <1>1, <1>2, <1>5, <2>3, <3>1 DEF Closing, PluginsReady, Down
    <3> QED
      BY <1>3, <3>3, <3>4
  <2> QED
    BY <2>6, <2>7
<1> QED
  BY <1>4, <1>5

\* The first three steps of the shutdown leave the plugins alone.
LEMMA ShutdownMoves ==
    ASSUME IInv, CloseInput \/ ShutdownDrained \/ ShutdownTimeout \/ CloseDeduplicators
    PROVE  (Initializing /\ Uniform /\ Closing /\ PhaseOrder)'
<1> USE DEF IInv
<1>1. UNCHANGED <<enabled, plugin>> /\ Places' = Places /\ \A t : Opened(t)' = Opened(t)
  BY DEF CloseInput, ShutdownDrained, ShutdownTimeout, NextProcessor, CloseDeduplicators, Places, Opened
<1>2. main \in {"shutdown", "close dedups"} /\ main' \in {"shutdown", "close dedups", "close plugins"}
  BY DEF CloseInput, ShutdownDrained, ShutdownTimeout, NextProcessor, CloseDeduplicators
<1>3. Initializing' /\ Uniform'
  BY <1>1, <1>2 DEF Initializing, Uniform, Down
<1>4. \A n \in DOMAIN TypeOrder : TypeOrder[n] \in Types
  BY DEF Types
<1>5. dedups # "closed" /\ \A t \in Types, i \in Places : plugin[t][i] # "closed"
  BY <1>2 DEF Closing, Down
<1>6. Closing'
  <2>1. CASE UNCHANGED dedups /\ main' # "close plugins"
    BY <1>1, <1>2, <1>5, <2>1 DEF Closing
  <2>2. CASE CloseDeduplicators
    <3>1. dedups' = "closed" /\ main' = "close plugins" /\ turn' = 1
      BY <2>2 DEF CloseDeduplicators
    <3>2. \A n \in DOMAIN TypeOrder : ~(n < 1)
      BY TurnRange
    <3> QED
      BY <3>1, <3>2 DEF Closing
  <2> QED
    BY <1>2, <2>1, <2>2 DEF CloseInput, ShutdownDrained, ShutdownTimeout, NextProcessor
<1>7. PhaseOrder'
  <2>1. phase \in [Types -> {"open", "closed", "drained", "aborted"}]
    BY DEF TypeOK
  <2>2. turn \in 1 .. Len(TypeOrder) /\ Len(TypeOrder) \in Nat \ {0} /\ DOMAIN TypeOrder = 1 .. Len(TypeOrder)
    BY TurnRange DEF TypeOK
  <2>3. CASE CloseInput
    <3>1. \A t \in Types : Over(t) => Over(t)'
      BY <2>1, <2>3, TurnType DEF CloseInput, Over
    <3> QED
      BY <1>4, <1>5, <2>3, <3>1 DEF CloseInput, PhaseOrder, Starting
  <2>4. CASE ShutdownDrained \/ ShutdownTimeout
    <3>1. PICK p \in {"drained", "aborted"} : main = "shutdown" /\ NextProcessor(p)
      BY <2>4 DEF ShutdownDrained, ShutdownTimeout
    <3>2. \A t \in Types : t = TypeOrder[turn] \/ Over(t) => Over(t)'
      <4>1. phase' = [phase EXCEPT ![TypeOrder[turn]] = p]
        BY <3>1 DEF NextProcessor
      <4> QED
        BY <2>1, <4>1, TurnType DEF Over
    <3>3. \A n \in DOMAIN TypeOrder : n < turn => Over(TypeOrder[n])
      BY <3>1 DEF PhaseOrder
    <3>4. \A n \in DOMAIN TypeOrder : n <= turn => Over(TypeOrder[n])'
      <4>1. \A n \in DOMAIN TypeOrder : n <= turn => n < turn \/ n = turn
        BY <2>2
      <4> QED
        BY <1>4, <3>2, <3>3, <4>1
    <3>5. dedups' # "closed" /\ main' \in {"shutdown", "close dedups"}
      BY <1>5, <3>1 DEF NextProcessor
    <3>6. CASE turn = Len(TypeOrder)
      <4>1. main' = "close dedups"
        BY <3>1, <3>6 DEF NextProcessor
      <4>2. \A n \in DOMAIN TypeOrder : n <= turn
        BY <2>2, <3>6
      <4>3. \A t \in Types : Over(t)'
        BY <3>4, <4>2 DEF Types
      <4> QED
        BY <4>1, <4>3 DEF PhaseOrder, Starting
    <3>7. CASE turn # Len(TypeOrder)
      <4>1. turn' = turn + 1 /\ main' = "shutdown"
        BY <3>1, <3>7 DEF NextProcessor
      <4>2. \A n \in DOMAIN TypeOrder : n < turn + 1 => n <= turn
        BY <2>2
      <4> QED
        BY <3>4, <3>5, <4>1, <4>2 DEF PhaseOrder, Starting
    <3> QED
      BY <3>6, <3>7
  <2>5. CASE CloseDeduplicators
    BY <2>5 DEF CloseDeduplicators, PhaseOrder, Over, Starting
  <2> QED
    BY <2>3, <2>4, <2>5
<1> QED
  BY <1>3, <1>6, <1>7

LEMMA ClosePluginsMoves ==
    ASSUME IInv, TypeOK', ClosePlugins
    PROVE  (Initializing /\ Uniform /\ Closing /\ PhaseOrder)'
<1> USE DEF IInv
<1> DEFINE t0 == TypeOrder[turn]
<1>1. main = "close plugins" /\ main' \in {"close plugins", "exit 0"}
      /\ UNCHANGED <<enabled, phase, dedups>> /\ Places' = Places
  BY DEF ClosePlugins, Places
<1>2. \A t \in Types : Opened(t)' = Opened(t)
  BY <1>1, OpenedKept DEF Next, Stop
<1>3. Initializing' /\ Uniform' /\ PhaseOrder'
  <2>1. Initializing' /\ Uniform'
    BY <1>1, <1>2 DEF Initializing, Uniform, Down
  <2>2. \A t \in Types : Over(t)'
    BY <1>1 DEF PhaseOrder, Over
  <2> QED
    BY <1>1, <2>1, <2>2 DEF PhaseOrder, Starting
<1>4. \A n \in DOMAIN TypeOrder : TypeOrder[n] \in Types
  BY DEF Types
<1>5. turn \in 1 .. Len(TypeOrder) /\ Len(TypeOrder) \in Nat \ {0} /\ DOMAIN TypeOrder = 1 .. Len(TypeOrder)
  BY TurnRange DEF TypeOK
<1>6. \A t \in Types, i \in Places :
          plugin'[t][i] = IF t = t0 /\ i \in Opened(t) THEN "closed" ELSE plugin[t][i]
  BY TurnType DEF ClosePlugins, ToClose, TypeOK
<1>7. dedups = "closed"
  BY <1>1 DEF Closing
<1>8. \A n \in DOMAIN TypeOrder : n <= turn => \A i \in Opened(TypeOrder[n]) : plugin'[TypeOrder[n]][i] = "closed"
  <2>1. \A n \in DOMAIN TypeOrder : n < turn => \A i \in Opened(TypeOrder[n]) : plugin[TypeOrder[n]][i] = "closed"
    BY <1>1 DEF Closing
  <2>2. \A n \in DOMAIN TypeOrder : n <= turn => n < turn \/ n = turn
    BY <1>5
  <2>3. \A t \in Types : Opened(t) \subseteq Places
    BY DEF Opened
  <2> QED
    BY <1>4, <1>6, <2>1, <2>2, <2>3
<1>9. CASE turn = Len(TypeOrder)
  <2>1. main' = "exit 0"
    BY <1>9 DEF ClosePlugins
  <2>2. \A n \in DOMAIN TypeOrder : n <= turn
    BY <1>5, <1>9
  <2>3. \A t \in Types : \A i \in Opened(t) : plugin'[t][i] = "closed"
    BY <1>8, <2>2 DEF Types
  <2>4. Closing'
    BY <1>1, <1>2, <1>7, <2>1, <2>3 DEF Closing, Down
  <2> QED
    BY <1>3, <2>4
<1>10. CASE turn # Len(TypeOrder)
  <2>1. turn' = turn + 1 /\ main' = "close plugins"
    BY <1>1, <1>10 DEF ClosePlugins
  <2>2. \A n \in DOMAIN TypeOrder : n < turn + 1 => n <= turn
    BY <1>5
  <2>3. Closing'
    BY <1>1, <1>2, <1>4, <1>7, <1>8, <2>1, <2>2 DEF Closing, Down
  <2> QED
    BY <1>3, <2>3
<1> QED
  BY <1>9, <1>10

\* What Progress says of one event.
ProgressOf(e) ==
    /\ todo[e] \subseteq Opened(TypeOf[e])
    /\ todo[e] # {} => at[e] = "writing"
    /\ phase[TypeOf[e]] = "drained" => at[e] \notin {"queued", "writing"}
    /\ at[e] \in {"writing", "done"} /\ phase[TypeOf[e]] # "aborted" =>
          \A i \in Opened(TypeOf[e]) \ todo[e] :
              Name(i) \notin Flaky => e \in stored[TypeOf[e]][i]

LEMMA ProgressParts ==
    Progress <=>
        /\ main \in {"config", "plugins", "processors", "servers"} => \A e \in Events : at[e] = "new"
        /\ \A e \in Events : ProgressOf(e)
BY DEF Progress, ProgressOf

\* A step that leaves an event alone, and does not drain or revive its processor.
LEMMA ProgressKept ==
    ASSUME NEW e \in Events, ProgressOf(e), UNCHANGED enabled,
           Opened(TypeOf[e])' = Opened(TypeOf[e]),
           at'[e] = at[e], todo'[e] = todo[e],
           \A i \in Opened(TypeOf[e]) : e \in stored[TypeOf[e]][i] => e \in stored'[TypeOf[e]][i],
           phase'[TypeOf[e]] = "drained" =>
               phase[TypeOf[e]] = "drained" \/ at[e] \notin {"queued", "writing"},
           phase[TypeOf[e]] = "aborted" => phase'[TypeOf[e]] = "aborted"
    PROVE  ProgressOf(e)'
<1>1. \A i : Name(i)' = Name(i)
  BY DEF Name
<1> QED
  BY <1>1 DEF ProgressOf

LEMMA ProgressBefore ==
    ASSUME IInv, [Next]_vars, main \in {"config", "plugins", "processors", "servers"}
    PROVE  Progress'
<1>1. \A e \in Events : at[e] = "new" /\ todo[e] = {}
  BY DEF IInv, Progress
<1>2. ~Stop /\ ~Flow
  BY <1>1 DEF Stop, CloseInput, ShutdownDrained, ShutdownTimeout, CloseDeduplicators, ClosePlugins,
     Flow, Request, Send, StartBatch, WriteBatch, BatchDone, Serving, Stopping
<1>3. UNCHANGED flow
  <2>1. CASE Start \/ UNCHANGED vars
    BY <2>1 DEF Start, Configure, SkipUnknown, InitializePlugin, PluginsReady, StartProcessors,
       StartGRPCServer, StartGateway, Notify, vars, flow
  <2>2. CASE ServeFails \/ Signal
    BY <2>2 DEF ServeFails, Signal
  <2> QED
    BY <1>2, <2>1, <2>2 DEF Next, Ended
<1>4. \A e \in Events : at'[e] = "new" /\ todo'[e] = {}
  BY <1>1, <1>3 DEF flow
<1> QED
  BY <1>4 DEF Progress

LEMMA ProgressAfter ==
    ASSUME IInv, TypeOK', [Next]_vars, main \notin {"config", "plugins", "processors", "servers"}
    PROVE  Progress'
<1> USE DEF IInv
<1> DEFINE Early == {"config", "plugins", "processors", "servers"}
<1>1. /\ UNCHANGED enabled /\ main' \notin Early
      /\ \A t \in Types : Opened(t)' = Opened(t)
  <2>1. main' \notin Early
    <3>1. CASE Start \/ ServeFails \/ Signal \/ Stop
      BY <3>1 DEF Start, Configure, SkipUnknown, InitializePlugin, PluginsReady, StartProcessors,
         StartGRPCServer, StartGateway, Notify, ServeFails, Signal, Stop, CloseInput, ShutdownDrained,
         ShutdownTimeout, NextProcessor, CloseDeduplicators, ClosePlugins
    <3>2. CASE Flow \/ Ended \/ UNCHANGED vars
      BY <3>2 DEF Flow, Request, Send, StartBatch, WriteBatch, BatchDone, Ended, vars
    <3> QED
      BY <3>1, <3>2 DEF Next
  <2>2. UNCHANGED enabled
    BY DEF Next, Start, Stop, Flow, Configure, SkipUnknown, InitializePlugin, PluginsReady, StartProcessors,
       StartGRPCServer, StartGateway, Notify, ServeFails, Signal, CloseInput, ShutdownDrained,
       ShutdownTimeout, NextProcessor, CloseDeduplicators, ClosePlugins, Request, Send, StartBatch,
       WriteBatch, BatchDone, Ended, vars, startup
  <2> QED
    BY <2>1, <2>2, OpenedKept
<1>2. \A e \in Events : ProgressOf(e) /\ TypeOf[e] \in Types
  BY ProgressParts, ApplicationAssumption
<1> SUFFICES ASSUME NEW e \in Events PROVE ProgressOf(e)'
  BY <1>1 DEF Progress, ProgressOf
<1> DEFINE t == TypeOf[e]
<1>3. ProgressOf(e) /\ t \in Types /\ Opened(t)' = Opened(t) /\ Opened(t) \subseteq Places
  BY <1>1, <1>2 DEF Opened
<1>4. CASE UNCHANGED <<phase, flow>>
  BY <1>1, <1>3, <1>4, ProgressKept DEF flow
<1>5. CASE CloseInput \/ ShutdownDrained \/ ShutdownTimeout
  <2>1. UNCHANGED flow
    BY <1>5 DEF CloseInput, ShutdownDrained, ShutdownTimeout, NextProcessor
  <2>2. phase \in [Types -> {"open", "closed", "drained", "aborted"}]
    BY DEF TypeOK
  <2>3. PICK p : /\ phase' = [phase EXCEPT ![TypeOrder[turn]] = p]
                 /\ phase[TypeOrder[turn]] # "aborted"
                 /\ p = "drained" => Drained(TypeOrder[turn])
    BY <1>5 DEF CloseInput, ShutdownDrained, ShutdownTimeout, NextProcessor
  <2>4. phase'[t] = IF t = TypeOrder[turn] THEN p ELSE phase[t]
    BY <1>3, <2>2, <2>3
  <2> QED
    BY <1>1, <1>3, <2>1, <2>3, <2>4, ProgressKept DEF Drained, flow
<1>6. ASSUME NEW f \in Events, NEW i \in Places,
             Request(f) \/ Send(f) \/ StartBatch(f) \/ BatchDone(f) \/ WriteBatch(f, i)
      PROVE  ProgressOf(e)'
  <2>1. UNCHANGED phase /\ \A j : Name(j)' = Name(j)
    BY <1>6 DEF Request, Send, StartBatch, BatchDone, WriteBatch, startup, Name
  <2>2. at \in [Events -> {"new", "submitting", "queued", "writing", "done", "dropped"}]
        /\ todo \in [Events -> SUBSET Places]
        /\ stored \in [Types -> [Places -> SUBSET Events]]
    BY DEF TypeOK
  <2>3. \A j \in Opened(t) : e \in stored[t][j] => e \in stored'[t][j]
    <3>1. CASE UNCHANGED stored
      BY <3>1
    <3>2. CASE stored' = [stored EXCEPT ![TypeOf[f]][i] = @ \cup {f}]
      BY <1>2, <1>3, <2>2, <3>2
    <3> QED
      BY <1>6, <3>1, <3>2 DEF Request, Send, StartBatch, BatchDone, WriteBatch
  <2>4. CASE e # f
    <3>1. at'[e] = at[e] /\ todo'[e] = todo[e]
      BY <1>6, <2>2, <2>4 DEF Request, Send, StartBatch, BatchDone, WriteBatch
    <3> QED
      BY <1>1, <1>3, <2>1, <2>3, <3>1, ProgressKept
  <2>5. CASE e = f /\ Request(f)
    <3>1. at'[e] = "submitting" /\ todo'[e] = {}
      BY <1>3, <2>2, <2>5 DEF Request, ProgressOf
    <3> QED
      BY <3>1 DEF ProgressOf
  <2>6. CASE e = f /\ Send(f)
    <3>1. todo'[e] = {} /\ (at'[e] \in {"submitting", "dropped"} \/ (at'[e] = "queued" /\ phase[t] = "open"))
      BY <1>3, <2>2, <2>6 DEF Send, ProgressOf
    <3> QED
      BY <2>1, <3>1 DEF ProgressOf
  <2>7. CASE e = f /\ StartBatch(f)
    <3>1. at[e] = "queued" /\ at'[e] = "writing" /\ todo'[e] = Opened(t)
      BY <2>2, <2>7 DEF StartBatch
    <3> QED
      BY <1>3, <2>1, <3>1 DEF ProgressOf
  <2>8. CASE e = f /\ BatchDone(f)
    <3>1. at[e] = "writing" /\ at'[e] = "done" /\ todo[e] = {} /\ todo'[e] = {} /\ UNCHANGED stored
      BY <2>2, <2>8 DEF BatchDone
    <3> QED
      BY <1>3, <2>1, <3>1 DEF ProgressOf
  <2>9. CASE e = f /\ WriteBatch(f, i)
    <3>1. i \in todo[e] /\ at[e] = "writing" /\ at' = at /\ todo'[e] = todo[e] \ {i}
      BY <1>3, <2>2, <2>9 DEF WriteBatch, ProgressOf
    <3>2. phase[t] # "drained"
      BY <1>3, <3>1 DEF ProgressOf
    <3>3. plugin[t][i] = "closed" => phase[t] = "aborted"
      BY <1>3, <3>2 DEF Closing, PhaseOrder, Over
    <3>4. phase[t] # "aborted" /\ Name(i) \notin Flaky => e \in stored'[t][i]
      <4>1. CASE stored' = [stored EXCEPT ![t][i] = @ \cup {e}]
        BY <1>3, <2>2, <4>1
      <4>2. CASE MayFail(t, i)
        BY <3>3, <4>2 DEF MayFail
      <4> QED
        BY <2>9, <4>1, <4>2 DEF WriteBatch
    <3> QED
      BY <1>3, <2>1, <2>3, <3>1, <3>2, <3>4 DEF ProgressOf
  <2> QED
    BY <1>6, <2>4, <2>5, <2>6, <2>7, <2>8, <2>9
<1> QED
  <2>1. CASE Start \/ ServeFails \/ Signal
    <3>1. UNCHANGED <<phase, flow>>
      BY <2>1 DEF Start, Configure, SkipUnknown, InitializePlugin, PluginsReady, StartProcessors,
         StartGRPCServer, StartGateway, Notify, ServeFails, Signal, startup
    <3> QED
      BY <1>4, <3>1
  <2>2. CASE CloseDeduplicators \/ ClosePlugins \/ Ended \/ UNCHANGED vars
    <3>1. UNCHANGED <<phase, flow>>
      BY <2>2 DEF CloseDeduplicators, ClosePlugins, Ended, vars, flow
    <3> QED
      BY <1>4, <3>1
  <2>3. CASE Flow
    <3>1. 0 \in Places
      BY ApplicationAssumption DEF TypeOK, Places
    <3> QED
      BY <1>6, <2>3, <3>1 DEF Flow
  <2> QED
    BY <1>5, <2>1, <2>2, <2>3 DEF Next, Stop

\* IInv, which TypeOK and the five parts make inductive.
THEOREM Invariance == Spec => []IInv
<1>1. IInv /\ [Next]_vars => IInv'
  <2> SUFFICES ASSUME IInv, [Next]_vars PROVE IInv'
    OBVIOUS
  <2>1. TypeOK'
    BY NextType DEF IInv
  <2>2. Progress'
    BY <2>1, ProgressBefore, ProgressAfter
  <2>3. (Initializing /\ Uniform /\ Closing /\ PhaseOrder)'
    <3>1. CASE Start \/ ServeFails \/ Signal
      BY <2>1, <3>1, MainMoves, LoopMoves, ReadyMoves DEF Start
    <3>2. CASE Stop
      BY <2>1, <3>2, ShutdownMoves, ClosePluginsMoves DEF Stop
    <3>3. CASE Flow \/ Ended \/ UNCHANGED vars
      <4>1. UNCHANGED startup /\ (main' = main \/ main' = "panic")
        BY <3>3 DEF Flow, Request, Send, StartBatch, WriteBatch, BatchDone, Ended, vars, startup
      <4> QED
        BY <4>1, ControlKept DEF IInv, Down
    <3> QED
      BY <3>1, <3>2, <3>3 DEF Next
  <2> QED
    BY <2>1, <2>2, <2>3 DEF IInv
<1> QED
  BY <1>1, InitInvariant, PTL DEF Spec

-----------------------------------------------------------------------------
(* What follows from it *)

\* Requests are taken only when every type has the same plugins, at least one
\* and all open, whatever InitializeStoragePlugins and its loops went through.
THEOREM Readiness == Spec => []ServesWhenReady
<1>1. IInv => ServesWhenReady
  <2> SUFFICES ASSUME IInv, Serving PROVE ServesWhenReady
    BY DEF ServesWhenReady
  <2>1. main \notin {"config", "plugins"} \cup Down
    BY DEF Serving, Stopping, Down
  <2>2. \A t, u \in Types : Opened(t) = Opened(u) /\ Opened(t) # {}
    BY <2>1 DEF IInv, Uniform
  <2>3. ASSUME main # "close plugins", NEW t \in Types, NEW i \in Opened(t) PROVE plugin[t][i] = "open"
    <3>1. i \in Places /\ plugin[t][i] # "none"
      BY <2>3 DEF Opened
    <3>2. plugin[t][i] # "closed"
      BY <2>1, <2>3, <3>1 DEF IInv, Closing
    <3> QED
      BY <2>3, <3>1, <3>2 DEF IInv, TypeOK
  <2> QED
    BY <2>2, <2>3 DEF ServesWhenReady
<1> QED
  BY <1>1, Invariance, PTL

\* The shutdown takes nothing away that is in use, short of a timeout.
THEOREM OrderlyStop == Spec => []StopsInOrder
<1>1. IInv => StopsInOrder
  <2> SUFFICES ASSUME IInv PROVE StopsInOrder
    OBVIOUS
  <2>1. \A t \in Types : dedups = "closed" => Over(t)
    BY DEF IInv, PhaseOrder
  <2>2. ASSUME NEW e \in Events, NEW i \in todo[e]
        PROVE  plugin[TypeOf[e]][i] = "open" \/ phase[TypeOf[e]] = "aborted"
    <3>1. TypeOf[e] \in Types /\ i \in Opened(TypeOf[e]) /\ i \in Places
      BY <2>2, ApplicationAssumption DEF IInv, Progress, Opened
    <3>2. phase[TypeOf[e]] # "drained"
      BY <2>2 DEF IInv, Progress
    <3>3. plugin[TypeOf[e]][i] = "closed" => phase[TypeOf[e]] = "aborted"
      BY <2>1, <3>1, <3>2 DEF IInv, Closing, Over
    <3> QED
      BY <3>1, <3>3 DEF IInv, TypeOK, Opened
  <2> QED
    BY <2>1, <2>2 DEF StopsInOrder, Over
<1> QED
  BY <1>1, Invariance, PTL

\* A process that returns from main leaves no plugin open, and has persisted what
\* it accepted for every type whose Shutdown did not time out.
THEOREM CleanExits == Spec => []CleanExit
<1>1. IInv => CleanExit
  <2> SUFFICES ASSUME IInv, main = "exit 0", NEW t \in Types, NEW i \in Opened(t)
      PROVE  /\ plugin[t][i] = "closed"
             /\ phase[t] = "drained" /\ Name(i) \notin Flaky =>
                    {e \in Accepted : TypeOf[e] = t} \subseteq stored[t][i]
    BY DEF CleanExit
  <2>1. plugin[t][i] = "closed"
    BY DEF IInv, Closing
  <2>2. ASSUME phase[t] = "drained", Name(i) \notin Flaky, NEW e \in Accepted, TypeOf[e] = t
        PROVE  e \in stored[t][i]
    <3>1. e \in Events /\ at[e] = "done"
      BY <2>2 DEF Accepted, IInv, Progress
    <3>2. todo[e] = {}
      BY <3>1 DEF IInv, Progress
    <3> QED
      BY <2>2, <3>1, <3>2 DEF IInv, Progress
  <2> QED
    BY <2>1, <2>2
<1> QED
  BY <1>1, Invariance, PTL

-----------------------------------------------------------------------------
(* Each processor within the process keeps a ledger *)

LedgerStep(t) == L(t)!Next \/ UNCHANGED L(t)!vars

LEMMA LedgerOfPhase ==
    ASSUME NEW t \in Types, UNCHANGED at,
           \/ phase'[t] = phase[t]
           \/ phase[t] = "open" /\ phase'[t] = "closed"
           \/ phase[t] = "closed" /\ phase'[t] = "aborted"
           \/ phase[t] = "closed" /\ phase'[t] = "drained" /\ Drained(t)
    PROVE  LedgerStep(t)
<1>1. UNCHANGED <<Accepted, Handled>>
  BY DEF Accepted, Handled
<1>2. Drained(t) => {e \in Handled : TypeOf[e] = t} = {e \in Accepted : TypeOf[e] = t}
  BY DEF Drained, Accepted, Handled
<1> QED
  BY <1>1, <1>2 DEF LedgerStep, L!Next, L!vars, L!Close, L!Abort, L!Drain

\* The steps of the events of other types, and those that neither accept nor
\* handle, are stutters of the ledger.
LEMMA LedgerOfOther ==
    ASSUME NEW t \in Types, UNCHANGED phase,
           \A e \in Events : TypeOf[e] = t =>
              /\ at'[e] \in {"queued", "writing", "done"} <=> at[e] \in {"queued", "writing", "done"}
              /\ at'[e] = "done" <=> at[e] = "done"
    PROVE  LedgerStep(t)
<1>1. UNCHANGED {e \in Accepted : TypeOf[e] = t} /\ UNCHANGED {e \in Handled : TypeOf[e] = t}
  BY DEF Accepted, Handled
<1> QED
  BY <1>1 DEF LedgerStep, L!vars

\* Application implements, type by type, what a processor promises on its own.
THEOREM KeepsLedgers == Spec => LedgerPerType
<1>1. Init => \A t \in Types : L(t)!Init
  BY DEF Init, L!Init, Accepted, Handled
<1>2. IInv /\ [Next]_vars => [\A t \in Types : L(t)!Next \/ UNCHANGED L(t)!vars]_vars
  <2> SUFFICES ASSUME IInv, [Next]_vars, NEW t \in Types PROVE LedgerStep(t)
    BY DEF LedgerStep
  <2>1. /\ phase \in [Types -> {"open", "closed", "drained", "aborted"}]
        /\ at \in [Events -> {"new", "submitting", "queued", "writing", "done", "dropped"}]
    BY DEF IInv, TypeOK
  <2>2. CASE UNCHANGED <<phase, at>>
    BY <2>2, LedgerOfPhase
  <2>3. CASE CloseInput \/ ShutdownDrained \/ ShutdownTimeout
    <3>1. UNCHANGED at
      BY <2>3 DEF CloseInput, ShutdownDrained, ShutdownTimeout, NextProcessor, flow
    <3>2. PICK p : /\ phase' = [phase EXCEPT ![TypeOrder[turn]] = p]
                   /\ \/ phase[TypeOrder[turn]] = "open" /\ p = "closed"
                      \/ phase[TypeOrder[turn]] = "closed" /\ p = "aborted"
                      \/ phase[TypeOrder[turn]] = "closed" /\ p = "drained" /\ Drained(TypeOrder[turn])
      BY <2>3 DEF CloseInput, ShutdownDrained, ShutdownTimeout, NextProcessor
    <3>3. phase'[t] = IF t = TypeOrder[turn] THEN p ELSE phase[t]
      BY <2>1, <3>2
    <3> QED
      BY <3>1, <3>2, <3>3, LedgerOfPhase
  <2>4. ASSUME NEW e \in Events, Request(e) \/ StartBatch(e) PROVE LedgerStep(t)
    <3>1. UNCHANGED phase
      BY <2>4 DEF Request, StartBatch, startup
    <3> QED
      BY <2>1, <2>4, <3>1, LedgerOfOther DEF Request, StartBatch
  <2>5. ASSUME NEW e \in Events, Send(e) PROVE LedgerStep(t)
    <3>1. UNCHANGED phase
      BY <2>5 DEF Send, startup
    <3>2. CASE at' = [at EXCEPT ![e] = "queued"] /\ TypeOf[e] = t /\ phase[t] = "open"
      <4>1. at[e] = "submitting"
        BY <2>5 DEF Send
      <4>2. e \notin Accepted /\ Accepted' = Accepted \cup {e} /\ UNCHANGED Handled
        BY <2>1, <3>2, <4>1 DEF Accepted, Handled
      <4>3. {f \in Accepted : TypeOf[f] = t}' = {f \in Accepted : TypeOf[f] = t} \cup {e}
        BY <3>2, <4>2
      <4>4. L(t)!Accept(e)
        BY <3>1, <3>2, <4>2, <4>3 DEF L!Accept
      <4> QED
        BY <3>2, <4>4 DEF LedgerStep, L!Next
    <3>3. CASE ~(at' = [at EXCEPT ![e] = "queued"] /\ TypeOf[e] = t /\ phase[t] = "open")
      BY <2>1, <2>5, <3>1, <3>3, LedgerOfOther DEF Send
    <3> QED
      BY <3>2, <3>3
  <2>6. ASSUME NEW e \in Events, BatchDone(e) PROVE LedgerStep(t)
    <3>1. UNCHANGED phase /\ at[e] = "writing" /\ at' = [at EXCEPT ![e] = "done"]
      BY <2>6 DEF BatchDone, startup
    <3>2. CASE TypeOf[e] = t
      <4>1. e \in Accepted \ Handled /\ Handled' = Handled \cup {e} /\ UNCHANGED Accepted
        BY <2>1, <3>1 DEF Accepted, Handled
      <4>2. {f \in Handled : TypeOf[f] = t}' = {f \in Handled : TypeOf[f] = t} \cup {e}
        BY <3>2, <4>1
      <4>3. L(t)!Cardinality({e}) <= 1
        <5>1. L(t)!Cardinality({e}) = Cardinality({e})
          BY DEF L!Cardinality, Cardinality
        <5>2. Cardinality({e}) = 1
          BY FS_Singleton
        <5> QED
          BY <5>1, <5>2
      <4>4. L(t)!Handle({e})
        BY <3>1, <3>2, <4>1, <4>2, <4>3 DEF L!Handle
      <4> QED
        BY <3>2, <4>4 DEF LedgerStep, L!Next
    <3>3. CASE TypeOf[e] # t
      BY <2>1, <3>1, <3>3, LedgerOfOther
    <3> QED
      BY <3>2, <3>3
  <2> QED
    <3>1. CASE Start \/ ServeFails \/ Signal \/ CloseDeduplicators \/ ClosePlugins \/ Ended \/ UNCHANGED vars
      <4>1. UNCHANGED <<phase, at>>
        BY <3>1 DEF Start, Configure, SkipUnknown, InitializePlugin, PluginsReady, StartProcessors,
           StartGRPCServer, StartGateway, Notify, ServeFails, Signal, CloseDeduplicators, ClosePlugins,
           Ended, vars, startup, flow
      <4> QED
        BY <2>2, <4>1
    <3>2. CASE Flow
      <4>1. ASSUME NEW e \in Events, NEW i \in Places, WriteBatch(e, i) PROVE LedgerStep(t)
        BY <2>2, <4>1 DEF WriteBatch, startup
      <4> QED
        BY <2>4, <2>5, <2>6, <3>2, <4>1 DEF Flow
    <3> QED
      BY <2>3, <3>1, <3>2 DEF Next, Stop
<1> QED
  BY <1>1, <1>2, Invariance, PTL DEF Spec, LedgerPerType
=============================================================================
