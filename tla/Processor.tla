------------------------------ MODULE Processor ------------------------------
(***************************************************************************)
(* pkg/processor/processor.go: Submit (deduplication, then a buffered      *)
(* channel with back-pressure), a pool of workers that each own a Batcher, *)
(* the fan-out of a batch to the storage plugins, and Shutdown.            *)
(*                                                                         *)
(* Every event is submitted once, by a gRPC handler goroutine of its own;  *)
(* a repeated event is another event with the same Key.  The deduplicator  *)
(* and the plugins are modelled by what their interfaces allow.            *)
(***************************************************************************)
EXTENDS Naturals, FiniteSets, Sequences

CONSTANTS Events, Workers, Plugins,
          Key,            \* [Events -> keys]: event.DeduplicationKey()
          User,           \* [Events -> users]: the message key of the Kafka plugin
          Accepts,        \* [Plugins -> SUBSET Events]: plugin.Filter
          Flaky,          \* the plugins whose WriteBatch may fail of its own accord
          ChannelBuffer,  \* capacity of inputChan
          BatchSize,
          Deduplicator,   \* "none" (nil or Noop), "memory" or "redis"
          KeysExpire,     \* whether a TTL may elapse during the run
          None

ASSUME ProcessorAssumption ==
    /\ ChannelBuffer \in Nat \ {0}          \* config.ValidateConfig
    /\ BatchSize \in Nat /\ Workers # {}
    /\ IsFiniteSet(Workers) /\ IsFiniteSet(Events)
    /\ Workers \cap Events = {} /\ None \notin Workers \cup Events
    /\ DOMAIN Key = Events /\ DOMAIN User = Events
    /\ Accepts \in [Plugins -> SUBSET Events]
    /\ Flaky \subseteq Plugins
    /\ Deduplicator \in {"none", "memory", "redis"}
    /\ KeysExpire \in BOOLEAN

VARIABLES
    sub,        \* how far the Submit of each event is
    seen,       \* keys the deduplicator holds
    queue,      \* inputChan's buffer
    sendq,      \* Submits parked in the blocking send, in FIFO order
    closed,     \* inputChan is closed
    cancelled,  \* p.ctx is cancelled
    wpc,        \* what each worker is doing
    hand,       \* the event a worker has received and not yet buffered
    batcher,    \* each worker's Batcher (see module Batcher)
    todo,       \* plugins that have still to finish with the batch of each worker
    stats,      \* the four counters
    shutdown,   \* Shutdown: "no", "waiting", "nil" or "timeout"
    crashed,    \* a panic has taken the process down
    accepted,   \* history: every event that entered inputChan, in order
    added,      \* history: what each worker has buffered, in order
    written,    \* history: what each worker has been through processBatch with
    stored,     \* what each plugin has persisted, in order
    lost        \* events each plugin accepted and failed to persist

submission == <<sub, seen>>
channel == <<queue, sendq, closed, accepted>>
workers == <<wpc, hand, batcher, todo, added, written>>
storage == <<stored, lost>>
lifecycle == <<cancelled, shutdown, crashed>>
vars == <<sub, seen, queue, sendq, closed, cancelled, wpc, hand, batcher, todo, stats,
          shutdown, crashed, accepted, added, written, stored, lost>>

Limit == IF BatchSize = 0 THEN 1 ELSE BatchSize
Elements(s) == {s[i] : i \in DOMAIN s}
Keys == {Key[e] : e \in Events}
Handled == UNION {Elements(written[w]) : w \in Workers}

Init ==
    /\ sub = [e \in Events |-> "new"] /\ seen = {}
    /\ queue = <<>> /\ sendq = <<>> /\ closed = FALSE /\ cancelled = FALSE
    /\ wpc = [w \in Workers |-> "select"] /\ hand = [w \in Workers |-> None]
    /\ batcher = [w \in Workers |-> [events |-> <<>>, timer |-> None, lock |-> None,
                                     batch |-> <<>>, armed |-> {}, waiting |-> {}]]
    /\ todo = [w \in Workers |-> {}]
    /\ stats = [received |-> 0, processed |-> 0, duplicated |-> 0, dropped |-> 0]
    /\ shutdown = "no" /\ crashed = FALSE
    /\ accepted = <<>>
    /\ added = [w \in Workers |-> <<>>] /\ written = [w \in Workers |-> <<>>]
    /\ stored = [p \in Plugins |-> <<>>] /\ lost = [p \in Plugins |-> {}]

-----------------------------------------------------------------------------
(* Submit *)

\* What may come of IsDuplicate.  An error is logged, and the event goes on as
\* if it were new.
VerdictsIf(e, onError) ==
    {IF Key[e] \in seen THEN "duplicate" ELSE "mark"}
      \cup (IF Deduplicator = "redis" THEN {onError} ELSE {})

Verdicts_ErrorIsHit(e) == VerdictsIf(e, "duplicate")   \* mutant

Verdicts(e) == VerdictsIf(e, "mark")

CheckDuplicate(e) ==
    /\ ~crashed /\ sub[e] = "new"
    /\ \E v \in Verdicts(e) :
          /\ sub' = [sub EXCEPT ![e] = v]
          /\ stats' = [stats EXCEPT !.duplicated = IF v = "duplicate" THEN @ + 1 ELSE @]
    /\ UNCHANGED <<seen, channel, workers, storage, lifecycle>>

\* Mark; with Redis it may fail, before or after the key is set.
Mark(e) ==
    /\ ~crashed /\ sub[e] = "mark"
    /\ sub' = [sub EXCEPT ![e] = "send"]
    /\ \/ Deduplicator # "none" /\ seen' = seen \cup {Key[e]}
       \/ Deduplicator # "memory" /\ UNCHANGED seen
    /\ UNCHANGED <<stats, channel, workers, storage, lifecycle>>

Enqueue_NoReturn(e) ==   \* mutant: the handler goes on to the blocking send
    /\ queue' = Append(queue, e)
    /\ accepted' = Append(accepted, e)
    /\ sub' = [sub EXCEPT ![e] = "full"]

Enqueue(e) ==
    /\ queue' = Append(queue, e)
    /\ accepted' = Append(accepted, e)
    /\ sub' = [sub EXCEPT ![e] = "sent"]

\* The select with a default branch.  A send on a closed channel panics, and
\* no interceptor of the gRPC server recovers.
TrySend(e) ==
    /\ ~crashed /\ sub[e] = "send"
    /\ \/ closed /\ crashed' = TRUE /\ UNCHANGED <<sub, queue, accepted>>
       \/ ~closed /\ Len(queue) < ChannelBuffer /\ Enqueue(e) /\ UNCHANGED crashed
       \/ /\ ~closed /\ Len(queue) = ChannelBuffer
          /\ sub' = [sub EXCEPT ![e] = "full"]
          /\ UNCHANGED <<queue, accepted, crashed>>
    /\ UNCHANGED <<seen, sendq, closed, cancelled, stats, shutdown, workers, storage>>

\* The select without one: a random choice if both cases are ready.
BlockingSend(e) ==
    /\ ~crashed /\ sub[e] = "full"
    /\ \/ closed /\ crashed' = TRUE /\ UNCHANGED <<sub, queue, sendq, accepted, stats>>
       \/ /\ ~closed /\ Len(queue) < ChannelBuffer
          /\ Enqueue(e) /\ UNCHANGED <<sendq, stats, crashed>>
       \/ /\ cancelled
          /\ sub' = [sub EXCEPT ![e] = "dropped"]
          /\ stats' = [stats EXCEPT !.dropped = @ + 1]
          /\ UNCHANGED <<queue, sendq, accepted, crashed>>
       \/ /\ ~closed /\ ~cancelled /\ Len(queue) = ChannelBuffer
          /\ sub' = [sub EXCEPT ![e] = "parked"]
          /\ sendq' = Append(sendq, e)
          /\ UNCHANGED <<queue, accepted, stats, crashed>>
    /\ UNCHANGED <<seen, closed, cancelled, shutdown, workers, storage>>

\* close() wakes the parked senders, and each of them panics.
WokenByClose(e) ==
    /\ ~crashed /\ sub[e] = "parked" /\ closed
    /\ crashed' = TRUE
    /\ UNCHANGED <<cancelled, stats, shutdown, submission, channel, workers, storage>>

\* eventsReceived is counted after the send, when the event may be long gone.
CountReceived(e) ==
    /\ ~crashed /\ sub[e] = "sent"
    /\ sub' = [sub EXCEPT ![e] = "ok"]
    /\ stats' = [stats EXCEPT !.received = @ + 1]
    /\ UNCHANGED <<seen, channel, workers, storage, lifecycle>>

Submit(e) ==
    \/ CheckDuplicate(e) \/ Mark(e) \/ TrySend(e) \/ BlockingSend(e)
    \/ WokenByClose(e) \/ CountReceived(e)

\* A key's TTL elapses and the deduplicator forgets it.
Expire(k) ==
    /\ ~crashed /\ KeysExpire /\ k \in seen
    /\ seen' = seen \ {k}
    /\ UNCHANGED <<sub, stats, channel, workers, storage, lifecycle>>

-----------------------------------------------------------------------------
(* worker *)

\* Receiving from a full channel lets the first parked sender in.
Receive(w) ==
    /\ ~crashed /\ wpc[w] = "select" /\ queue # <<>>
    /\ hand' = [hand EXCEPT ![w] = Head(queue)]
    /\ wpc' = [wpc EXCEPT ![w] = "add"]
    /\ IF sendq = <<>>
       THEN queue' = Tail(queue) /\ UNCHANGED <<sendq, sub, accepted>>
       ELSE LET e == Head(sendq)
            IN /\ queue' = Append(Tail(queue), e)
               /\ sendq' = Tail(sendq)
               /\ accepted' = Append(accepted, e)
               /\ sub' = [sub EXCEPT ![e] = "sent"]
    /\ UNCHANGED <<seen, closed, batcher, todo, stats, added, written, storage, lifecycle>>

InputEnded_Early == closed   \* mutant: what is left in the channel is forgotten

InputEnded_Never == FALSE    \* mutant: ok is not looked at

InputEnded_Empty == queue = <<>>   \* mutant: an empty channel is taken for a closed one

InputEnded == closed /\ queue = <<>>

\* The channel is closed and drained, or the context is cancelled (then even
\* with events left in the channel): flush and exit.
StopReceiving(w) ==
    /\ ~crashed /\ wpc[w] = "select"
    /\ InputEnded \/ cancelled
    /\ wpc' = [wpc EXCEPT ![w] = "flush"]
    /\ UNCHANGED <<hand, batcher, todo, stats, added, written, submission, channel, storage, lifecycle>>

Unlocked_Always(w) == TRUE   \* mutant: the mutex is not taken

Unlocked(w) == batcher[w].lock = None

Released(b) == [b EXCEPT !.lock = None]

NeedsTimer_OffByOne(s) == Len(s) = 1   \* mutant: looked at before the append

NeedsTimer(s) == s = <<>>

Flushed_Padded(b, t) ==       \* mutant: the copy has an element too many
    [b EXCEPT !.lock = t, !.batch = Append(b.events, None), !.events = <<>>,
              !.armed = @ \ {b.timer}, !.timer = None]

\* batcher.flush() of worker w, run by goroutine t (the worker or a timer):
\* the state of the batcher, and the plugins that processBatch starts.
Flushed(b, t) ==
    [b EXCEPT !.lock = t, !.batch = b.events, !.events = <<>>,
              !.armed = @ \ {b.timer}, !.timer = None]

StartFlush(w, t) ==
    /\ batcher' = [batcher EXCEPT ![w] = Flushed(@, t)]
    /\ todo' = [todo EXCEPT ![w] = Plugins]

AddAppend(w) ==
    LET b == batcher[w]
        e == hand[w]
    IN /\ ~crashed /\ wpc[w] = "add" /\ Unlocked(w)
       /\ batcher' = [batcher EXCEPT ![w] =
              [b EXCEPT !.lock = w, !.events = Append(@, e),
                        !.timer = IF NeedsTimer(b.events) THEN e ELSE @,
                        !.armed = IF NeedsTimer(b.events) THEN @ \cup {e} ELSE @]]
       /\ added' = [added EXCEPT ![w] = Append(@, e)]
       /\ wpc' = [wpc EXCEPT ![w] = "added"]
       /\ UNCHANGED <<hand, todo, stats, written, submission, channel, storage, lifecycle>>

AddReturn(w) ==
    LET b == batcher[w]
    IN /\ ~crashed /\ wpc[w] = "added" /\ b.lock = w /\ b.batch = <<>>
       /\ Len(b.events) < BatchSize
       /\ batcher' = [batcher EXCEPT ![w] = Released(@)]
       /\ wpc' = [wpc EXCEPT ![w] = "select"]
       /\ hand' = [hand EXCEPT ![w] = None]
       /\ UNCHANGED <<todo, stats, added, written, submission, channel, storage, lifecycle>>

AddFlush(w) ==
    LET b == batcher[w]
    IN /\ ~crashed /\ wpc[w] = "added" /\ b.lock = w /\ b.batch = <<>>
       /\ Len(b.events) >= BatchSize
       /\ StartFlush(w, w)
       /\ UNCHANGED <<wpc, hand, stats, added, written, submission, channel, storage, lifecycle>>

\* The flush before the worker returns (and signs off on p.wg).
FinalFlush(w) ==
    /\ ~crashed /\ wpc[w] = "flush" /\ Unlocked(w)
    /\ IF batcher[w].events = <<>>
       THEN wpc' = [wpc EXCEPT ![w] = "exited"] /\ UNCHANGED <<batcher, todo>>
       ELSE StartFlush(w, w) /\ UNCHANGED wpc
    /\ UNCHANGED <<hand, stats, added, written, submission, channel, storage, lifecycle>>

Fire(w, e) ==
    /\ ~crashed /\ e \in batcher[w].armed
    /\ batcher' = [batcher EXCEPT ![w].armed = @ \ {e}, ![w].waiting = @ \cup {e}]
    /\ UNCHANGED <<wpc, hand, todo, stats, added, written, submission, channel, storage, lifecycle>>

TimeoutFlush(w, e) ==
    LET b == [batcher[w] EXCEPT !.waiting = @ \ {e}]
    IN /\ ~crashed /\ e \in batcher[w].waiting /\ Unlocked(w)
       /\ IF b.events = <<>>
          THEN batcher' = [batcher EXCEPT ![w] = b] /\ UNCHANGED todo
          ELSE /\ batcher' = [batcher EXCEPT ![w] = Flushed(b, e)]
               /\ todo' = [todo EXCEPT ![w] = Plugins]
       /\ UNCHANGED <<wpc, hand, stats, added, written, submission, channel, storage, lifecycle>>

\* The events of s that are in S, in their order.
Among(S, s) ==
    LET kept[n \in 0 .. Len(s)] ==
          IF n = 0 THEN <<>>
          ELSE IF s[n] \in S THEN Append(kept[n - 1], s[n]) ELSE kept[n - 1]
    IN kept[Len(s)]

Persisted_Retry(S, s) ==   \* mutant: a failed batch is sent again as a whole
    IF S = Elements(s) THEN s ELSE Among(S, s) \o s

\* What a write leaves behind that gets as far as S.
Persisted(S, s) == Among(S, s)

\* writeToPlugin: filter, then WriteBatch under a context derived from p.ctx.
\* A failed write has persisted some part of the batch; it is logged, and
\* nothing is retried.
WriteToPlugin(w, p) ==
    LET filtered == Among(Accepts[p], batcher[w].batch)
    IN /\ ~crashed /\ p \in todo[w]
       /\ todo' = [todo EXCEPT ![w] = @ \ {p}]
       /\ \E S \in SUBSET Elements(filtered) :
             /\ S = Elements(filtered) \/ p \in Flaky \/ cancelled
             /\ stored' = [stored EXCEPT ![p] = @ \o Persisted(S, filtered)]
             /\ lost' = [lost EXCEPT ![p] = @ \cup (Elements(filtered) \ S)]
       /\ UNCHANGED <<wpc, hand, batcher, stats, added, written, submission, channel, lifecycle>>

PluginsDone_NoWait(w) == TRUE   \* mutant: wg.Wait is missing

PluginsDone(w) == todo[w] = {}

\* All plugins are done: count the batch, return from flushFunc, unlock.
BatchDone(w) ==
    LET b == batcher[w]
    IN /\ ~crashed /\ b.batch # <<>> /\ PluginsDone(w)
       /\ stats' = [stats EXCEPT !.processed = @ + Len(b.batch)]
       /\ written' = [written EXCEPT ![w] = @ \o b.batch]
       /\ batcher' = [batcher EXCEPT ![w] = Released([@ EXCEPT !.batch = <<>>])]
       /\ IF b.lock = w
          THEN /\ wpc' = [wpc EXCEPT ![w] = IF @ = "flush" THEN "exited" ELSE "select"]
               /\ hand' = [hand EXCEPT ![w] = None]
          ELSE UNCHANGED <<wpc, hand>>
       /\ UNCHANGED <<todo, added, submission, channel, storage, lifecycle>>

Worker(w) ==
    \/ Receive(w) \/ StopReceiving(w)
    \/ AddAppend(w) \/ AddReturn(w) \/ AddFlush(w) \/ FinalFlush(w)

Flushing(w) ==
    \/ \E e \in Events : Fire(w, e) \/ TimeoutFlush(w, e)
    \/ \E p \in Plugins : WriteToPlugin(w, p)
    \/ BatchDone(w)

-----------------------------------------------------------------------------
(* Shutdown(timeout) *)

AllExited_Any == \E w \in Workers : wpc[w] = "exited"   \* mutant: wg.Add once only

AllExited == \A w \in Workers : wpc[w] = "exited"

CloseInput ==
    /\ ~crashed /\ shutdown = "no"
    /\ shutdown' = "waiting" /\ closed' = TRUE /\ sendq' = <<>>
    /\ UNCHANGED <<queue, cancelled, stats, crashed, accepted, submission, workers, storage>>

ReturnDrained ==
    /\ ~crashed /\ shutdown = "waiting" /\ AllExited
    /\ shutdown' = "nil"
    /\ UNCHANGED <<cancelled, stats, crashed, submission, channel, workers, storage>>

ReturnTimeout ==
    /\ ~crashed /\ shutdown = "waiting"
    /\ shutdown' = "timeout" /\ cancelled' = TRUE
    /\ UNCHANGED <<stats, crashed, submission, channel, workers, storage>>

Shutdown == CloseInput \/ ReturnDrained \/ ReturnTimeout

\* Nothing is left to run: the process is down, or Shutdown has returned,
\* the workers are gone and no Submit is in progress.
Stopped ==
    /\ \/ crashed
       \/ /\ shutdown \in {"nil", "timeout"} /\ AllExited
          /\ \A e \in Events : sub[e] \in {"ok", "duplicate", "dropped"}
    /\ UNCHANGED vars

Next ==
    \/ \E e \in Events : Submit(e)
    \/ \E k \in Keys : Expire(k)
    \/ \E w \in Workers : Worker(w) \/ Flushing(w)
    \/ Shutdown
    \/ Stopped

Spec == Init /\ [][Next]_vars

-----------------------------------------------------------------------------
(* Handlers, workers, timers and writes make progress: every goroutine that *)
(* can run does, timers fire, and a write ends within its 30 s context.     *)
(* Nothing makes a client submit, a key expire or Shutdown be called, and   *)
(* no run relies on the shutdown timeout.  Acquiring the batcher's mutex is *)
(* strongly fair (the starvation mode of sync.Mutex).                       *)
Fairness ==
    /\ \A e \in Events :
        WF_vars(Mark(e) \/ TrySend(e) \/ BlockingSend(e)
                              \/ WokenByClose(e) \/ CountReceived(e))
    /\ \A w \in Workers :
        /\ WF_vars(Receive(w) \/ StopReceiving(w))
        /\ WF_vars(AddReturn(w) \/ AddFlush(w))
        /\ SF_vars(AddAppend(w) \/ FinalFlush(w))
        /\ \A e \in Events : /\ WF_vars(Fire(w, e))
                             /\ SF_vars(TimeoutFlush(w, e))
        /\ \A p \in Plugins : WF_vars(WriteToPlugin(w, p))
        /\ WF_vars(BatchDone(w))
    /\ WF_vars(ReturnDrained)

FairSpec == Spec /\ Fairness

-----------------------------------------------------------------------------
(* Properties *)

SubmissionShape ==
    /\ sub \in [Events -> {"new", "mark", "send", "full", "parked", "sent",
                           "ok", "duplicate", "dropped"}]
    /\ seen \subseteq Keys
    /\ stats \in [{"received", "processed", "duplicated", "dropped"} -> Nat]

ChannelShape ==
    /\ queue \in Seq(Events) /\ sendq \in Seq(Events) /\ accepted \in Seq(Events)
    /\ closed \in BOOLEAN

BatcherShape(b, w) ==
    /\ DOMAIN b = {"events", "timer", "lock", "batch", "armed", "waiting"}
    /\ b.events \in Seq(Events) /\ b.batch \in Seq(Events)
    /\ b.timer \in Events \cup {None} /\ b.lock \in Events \cup {w, None}
    /\ b.armed \subseteq Events /\ b.waiting \subseteq Events

WorkersShape ==
    /\ wpc \in [Workers -> {"select", "add", "added", "flush", "exited"}]
    /\ hand \in [Workers -> Events \cup {None}]
    /\ \A w \in Workers : wpc[w] = "add" => hand[w] \in Events
    /\ DOMAIN batcher = Workers /\ \A w \in Workers : BatcherShape(batcher[w], w)
    /\ todo \in [Workers -> SUBSET Plugins]
    /\ added \in [Workers -> Seq(Events)] /\ written \in [Workers -> Seq(Events)]

LifecycleShape ==
    /\ cancelled \in BOOLEAN /\ crashed \in BOOLEAN
    /\ shutdown \in {"no", "waiting", "nil", "timeout"}

Shapes == SubmissionShape /\ ChannelShape /\ WorkersShape /\ LifecycleShape

\* The shapes of the variables.
TypeOK == Shapes /\ stored \in [Plugins -> Seq(Events)] /\ lost \in [Plugins -> SUBSET Events]

Taken(w) == Elements(added[w]) \cup (IF wpc[w] = "add" THEN {hand[w]} ELSE {})

NoRepeats(s) == \A i, j \in DOMAIN s : s[i] = s[j] => i = j

\* Nothing is lost or doubled between the handlers and the batchers: every
\* accepted event is in the channel or was taken by exactly one worker, and no
\* event is accepted or buffered twice.
Conservation ==
    /\ Elements(accepted) = Elements(queue) \cup UNION {Taken(w) : w \in Workers}
    /\ \A w \in Workers : Elements(queue) \cap Taken(w) = {}
    /\ \A v, w \in Workers : v # w => Taken(v) \cap Taken(w) = {}
    /\ NoRepeats(accepted) /\ \A w \in Workers : NoRepeats(added[w])

\* A plugin persists an event at most once, never one it reported lost, one its
\* filter rejects or one that was not accepted; once a batch has been through
\* processBatch every plugin has dealt with each of its events, and a plugin
\* that does not fail has persisted it whatever the other plugins did.
FanOut ==
    \A p \in Plugins :
        /\ NoRepeats(stored[p]) /\ Elements(stored[p]) \cap lost[p] = {}
        /\ Elements(stored[p]) \cup lost[p] \subseteq Elements(accepted) \cap Accepts[p]
        /\ Handled \cap Accepts[p] \subseteq Elements(stored[p]) \cup lost[p]
        /\ p \notin Flaky /\ ~cancelled => lost[p] = {}

\* When Shutdown returns nil, every event any Submit ever queued is persisted
\* by each plugin that takes it, except where that plugin's own write failed;
\* and the counters it logs agree: all that was received was processed (a
\* Submit may still be about to count).
DrainedShutdown ==
    shutdown = "nil" =>
        /\ queue = <<>>
        /\ \A p \in Plugins : Elements(accepted) \cap Accepts[p]
                                \subseteq Elements(stored[p]) \cup lost[p]
        /\ stats.processed = stats.received + Cardinality({e \in Events : sub[e] = "sent"})

\* An event dropped as a duplicate stands in for another submission of the same
\* key that got past the deduplicator, so no key is lost to deduplication.
DuplicateHasOriginal ==
    \A e \in Events : sub[e] = "duplicate" =>
        \E f \in Events \ {e} : Key[f] = Key[e] /\ sub[f] \notin {"new", "mark", "duplicate"}

\* Somewhere in s there is an x and later a y.
Follows(s, x, y) == \E i, j \in DOMAIN s : i < j /\ s[i] = x /\ s[j] = y

\* Of the events that one worker buffered, a plugin persists those it takes in
\* the order they entered the channel, whatever the other workers, the timers
\* and the failing writes do: batches of one worker do not overtake one another.
PerWorkerOrder ==
    \A p \in Plugins, w \in Workers : \A x, y \in Elements(added[w]) :
        Follows(stored[p], x, y) => Follows(accepted, x, y)

\* If there is one worker, a plugin persists the events of a user in the order
\* they were queued: "Partitioning by user_id for ordered processing"
\* (docs/PLUGINS.md:205).  With two this is false, for their batches overtake
\* each other, and the default is ten (config.go:41).
PerUserOrder ==
    \A p \in Plugins : \A i, j \in DOMAIN stored[p] : \A m, n \in DOMAIN accepted :
        /\ i < j /\ User[stored[p][i]] = User[stored[p][j]]
        /\ accepted[m] = stored[p][i] /\ accepted[n] = stored[p][j]
        => m < n

\* Every event that entered the channel goes through processBatch, unless the
\* process crashes or Shutdown gives up, however little traffic follows it.
AcceptedIsHandled ==
    \A e \in Events :
        e \in Elements(accepted) ~> e \in Handled \/ crashed \/ cancelled

\* Back-pressure releases: a Submit that blocks on the full channel gets in.
BlockedSubmitReturns ==
    \A e \in Events : sub[e] \in {"full", "parked"} ~> sub[e] = "ok" \/ crashed \/ cancelled

\* Once the channel is closed every worker exits, so Shutdown returns even if
\* its timeout never fires.
WorkersExit == closed ~> (AllExited /\ shutdown # "waiting") \/ crashed

\* Each worker drives its batcher as module Batcher has it.
B(w) == INSTANCE Batcher
          WITH Callers <- {w}, MaxSize <- BatchSize,
               events <- batcher[w].events, timer <- batcher[w].timer,
               lock <- batcher[w].lock, batch <- batcher[w].batch,
               armed <- batcher[w].armed, waiting <- batcher[w].waiting,
               pc <- [c \in {w} |-> IF wpc[c] \in {"select", "exited"} THEN "idle" ELSE wpc[c]],
               arg <- [c \in {w} |-> hand[c]],
               fresh <- Events \ Taken(w), added <- added[w], written <- written[w]
WorkersUseBatcher ==
    /\ \A w \in Workers : B(w)!Init
    /\ [][\A w \in Workers : B(w)!Next \/ UNCHANGED B(w)!vars]_vars

\* The processor keeps the abstract ledger.
Phase == CASE shutdown = "no" -> "open"      [] shutdown = "waiting" -> "closed"
           [] shutdown = "nil" -> "drained"  [] shutdown = "timeout" -> "aborted"
L == INSTANCE Ledger WITH accepted <- Elements(accepted), handled <- Handled, phase <- Phase
ImplementsLedger == L!Spec

\* "On shutdown, each processor drains its remaining events before closing, so
\* no in-flight data is lost." (README.md:101): when a process that was told to
\* shut down has ended, the plugins that do not fail have all it had accepted.
NoLossOnShutdown ==
    shutdown # "no" /\ (crashed \/ AllExited) =>
        \A p \in Plugins \ Flaky : Elements(accepted) \cap Accepts[p] \subseteq Elements(stored[p])

\* "Mark registers an event as seen to prevent future duplicates"
\* (dedup.go:23): no two events of one key are queued.
NoDuplicateAccepted ==
    \A i, j \in DOMAIN accepted : Key[accepted[i]] = Key[accepted[j]] => i = j
=============================================================================
