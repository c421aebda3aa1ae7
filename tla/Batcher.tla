------------------------------- MODULE Batcher -------------------------------
(***************************************************************************)
(* pkg/processor/batcher.go: a buffer of events flushed by size, by the    *)
(* timer that its first event arms, or by hand.                            *)
(*                                                                         *)
(* Three kinds of goroutine meet at the mutex: callers of Add, callers of  *)
(* Flush, and the goroutine time.AfterFunc starts for each timer that      *)
(* fires.  Stop() keeps an armed timer from firing but does nothing to a   *)
(* goroutine that already waits for the mutex: such a goroutine is STALE   *)
(* and flushes whatever batch it finds.  flushFunc runs with the mutex     *)
(* held, for as long as the storage writes take.                           *)
(*                                                                         *)
(* A timer is named by the event that armed it (each event is added once). *)
(***************************************************************************)
EXTENDS Naturals, Sequences

CONSTANTS Events,    \* the events, distinct
          Callers,   \* goroutines that call Add and Flush
          MaxSize,   \* maxSize
          None       \* no timer, no lock holder, no argument

ASSUME BatcherAssumption ==
    /\ MaxSize \in Nat
    /\ Events \cap Callers = {}
    /\ None \notin Events \cup Callers

VARIABLES events,    \* b.events
          timer,     \* b.timer
          lock,      \* the holder of b.mu
          batch,     \* the copy flushFunc is working on, <<>> outside flushFunc
          armed,     \* timers of the runtime that have neither fired nor been stopped
          waiting,   \* timeoutFlush goroutines that wait for the mutex
          pc,        \* what each caller is doing
          arg,       \* the event of the Add in progress
          fresh,     \* events nobody has added yet
          added,     \* history: every event appended to the buffer, in order
          written    \* history: every event whose flushFunc call has returned

buffer == <<events, timer, lock, batch, armed, waiting>>
history == <<fresh, added, written>>
vars == <<events, timer, lock, batch, armed, waiting, pc, arg, fresh, added, written>>

Threads == Callers \cup Events
Limit == IF MaxSize = 0 THEN 1 ELSE MaxSize   \* Add tests the size after appending

Init ==
    /\ events = <<>> /\ timer = None /\ lock = None /\ batch = <<>>
    /\ armed = {} /\ waiting = {}
    /\ pc = [c \in Callers |-> "idle"]
    /\ arg = [c \in Callers |-> None]
    /\ fresh = Events /\ added = <<>> /\ written = <<>>

-----------------------------------------------------------------------------
(* flush(), with the mutex held: stop the timer, copy and reset the buffer, *)
(* enter flushFunc.                                                         *)

Flush_KeepBuffer(t) ==   \* mutant: the buffer is not reset
    /\ lock' = t /\ batch' = events /\ events' = events
    /\ armed' = armed \ {timer} /\ timer' = None

Flush_KeepTimer(t) ==    \* mutant: the timer is not stopped
    /\ lock' = t /\ batch' = events /\ events' = <<>>
    /\ armed' = armed /\ timer' = None

Flush_Async(t) ==        \* mutant: flushFunc runs after the mutex is released
    /\ lock' = None /\ batch' = events /\ events' = <<>>
    /\ armed' = armed \ {timer} /\ timer' = None

Flush_Padded(t) ==       \* mutant: the copy has an element too many
    /\ lock' = t /\ batch' = Append(events, None) /\ events' = <<>>
    /\ armed' = armed \ {timer} /\ timer' = None

StartFlush(t) ==
    /\ lock' = t
    /\ batch' = events
    /\ events' = <<>>
    /\ armed' = armed \ {timer}
    /\ timer' = None

Unlock_Never == UNCHANGED lock   \* mutant: the deferred unlock is missing

Unlock == lock' = None

(* Add *)

NeedsTimer_OffByOne(s) == Len(s) = 2   \* mutant: the second event arms the timer

NeedsTimer(s) == Len(s) = 1

SizeReached_OffByOne(s) == Len(s) > MaxSize   \* mutant

SizeReached(s) == Len(s) >= MaxSize

AddCall(c, e) ==
    /\ pc[c] = "idle" /\ e \in fresh
    /\ pc' = [pc EXCEPT ![c] = "add"]
    /\ arg' = [arg EXCEPT ![c] = e]
    /\ fresh' = fresh \ {e}
    /\ UNCHANGED <<events, timer, lock, batch, armed, waiting, added, written>>

AddAppend(c) ==
    /\ pc[c] = "add" /\ lock = None
    /\ lock' = c
    /\ events' = Append(events, arg[c])
    /\ IF NeedsTimer(events')
       THEN timer' = arg[c] /\ armed' = armed \cup {arg[c]}
       ELSE UNCHANGED <<timer, armed>>
    /\ pc' = [pc EXCEPT ![c] = "added"]
    /\ added' = Append(added, arg[c])
    /\ UNCHANGED <<batch, waiting, arg, fresh, written>>

AddReturn(c) ==
    /\ pc[c] = "added" /\ lock = c /\ batch = <<>>
    /\ ~SizeReached(events)
    /\ Unlock
    /\ pc' = [pc EXCEPT ![c] = "idle"]
    /\ arg' = [arg EXCEPT ![c] = None]
    /\ UNCHANGED <<events, timer, batch, armed, waiting, fresh, added, written>>

AddFlush(c) ==
    /\ pc[c] = "added" /\ lock = c /\ batch = <<>>
    /\ SizeReached(events)
    /\ StartFlush(c)
    /\ UNCHANGED <<waiting, pc, arg, fresh, added, written>>

(* Flush *)

FlushCall(c) ==
    /\ pc[c] = "idle"
    /\ pc' = [pc EXCEPT ![c] = "flush"]
    /\ UNCHANGED <<buffer, arg, history>>

FlushLock(c) ==
    /\ pc[c] = "flush" /\ lock = None
    /\ IF events = <<>>
       THEN pc' = [pc EXCEPT ![c] = "idle"] /\ UNCHANGED <<events, timer, lock, batch, armed>>
       ELSE StartFlush(c) /\ UNCHANGED pc
    /\ UNCHANGED <<waiting, arg, history>>

(* the timer *)

Fire(e) ==
    /\ e \in armed
    /\ armed' = armed \ {e}
    /\ waiting' = waiting \cup {e}
    /\ UNCHANGED <<events, timer, lock, batch, pc, arg, history>>

TimeoutFlush(e) ==
    /\ e \in waiting /\ lock = None
    /\ waiting' = waiting \ {e}
    /\ IF events = <<>>
       THEN UNCHANGED <<events, timer, lock, batch, armed>>
       ELSE StartFlush(e)
    /\ UNCHANGED <<pc, arg, history>>

(* flushFunc returns and the deferred unlock runs *)

FlushReturn(t) ==
    /\ lock = t /\ batch # <<>>
    /\ written' = written \o batch
    /\ batch' = <<>>
    /\ Unlock
    /\ IF t \in Callers
       THEN pc' = [pc EXCEPT ![t] = "idle"] /\ arg' = [arg EXCEPT ![t] = None]
       ELSE UNCHANGED <<pc, arg>>
    /\ UNCHANGED <<events, timer, armed, waiting, fresh, added>>

CallerStep(c) ==
    \/ \E e \in Events : AddCall(c, e)
    \/ AddAppend(c) \/ AddReturn(c) \/ AddFlush(c)
    \/ FlushCall(c) \/ FlushLock(c)

TimerStep(e) == Fire(e) \/ TimeoutFlush(e)

Next ==
    \/ \E c \in Callers : CallerStep(c)
    \/ \E e \in Events : TimerStep(e)
    \/ \E t \in Threads : FlushReturn(t)

Spec == Init /\ [][Next]_vars

(* A goroutine with work to do runs, a timer fires, and flushFunc returns   *)
(* (its writes carry a 30 s deadline).  sync.Mutex hands the lock to a      *)
(* waiter starved for 1 ms, so acquiring it is strongly fair.               *)
Fairness ==
    /\ \A c \in Callers :
        /\ SF_vars(AddAppend(c)) /\ SF_vars(FlushLock(c))
        /\ WF_vars(AddReturn(c)) /\ WF_vars(AddFlush(c))
    /\ \A e \in Events : WF_vars(Fire(e)) /\ SF_vars(TimeoutFlush(e))
    /\ \A t \in Threads : WF_vars(FlushReturn(t))

FairSpec == Spec /\ Fairness

-----------------------------------------------------------------------------
(* Properties *)

\* The shapes of the variables; a call of Add has its event.
TypeOK ==
    /\ events \in Seq(Events) /\ batch \in Seq(Events)
    /\ added \in Seq(Events) /\ written \in Seq(Events)
    /\ timer \in Events \cup {None}
    /\ lock \in Threads \cup {None}
    /\ armed \subseteq Events /\ waiting \subseteq Events /\ fresh \subseteq Events
    /\ pc \in [Callers -> {"idle", "add", "added", "flush"}]
    /\ arg \in [Callers -> Events \cup {None}]
    /\ \A c \in Callers : pc[c] = "add" => arg[c] \in Events

\* No batch is stranded: a buffered event always has a timer armed for its
\* batch, or that timer's goroutine already waits for the mutex; and no timer
\* outlives its batch, so at most one is armed.
BatchHasTimer ==
    /\ armed \subseteq {timer}
    /\ events # <<>> => timer = Head(events) /\ timer \in armed \cup waiting

\* Every added event is in exactly one of: finished batches, the batch with
\* flushFunc, the buffer; and the order of Add is kept throughout.
InOrder == added = written \o batch \o events

\* The buffer never holds more than maxSize events, and flushFunc is never
\* given more; nor is anything buffered while flushFunc runs.
BoundedBatch ==
    /\ Len(events) <= Limit /\ Len(batch) <= Limit
    /\ batch # <<>> => events = <<>> /\ lock # None

\* The mutex is released only with no batch in flight and room in the buffer, so
\* that the next Add may append; b.timer is nil whenever the buffer is empty.
LockDiscipline ==
    /\ lock = None => batch = <<>> /\ Len(events) < Limit
    /\ \A c \in Callers : pc[c] = "added" => lock = c /\ (batch = <<>> => events # <<>>)
    /\ events = <<>> => timer = None

\* The inductive invariant.
IInv == TypeOK /\ BatchHasTimer /\ InOrder /\ BoundedBatch /\ LockDiscipline

\* When a call of Flush returns, flushFunc has returned for every event ever
\* added, also for those another goroutine was flushing ("important for
\* graceful shutdown", batcher.go:75).
FlushIsBarrier ==
    [][\A c \in Callers : pc[c] = "flush" /\ pc'[c] = "idle" => written' = added']_vars

\* Every added event reaches flushFunc and flushFunc returns, with no Flush.
AddedIsWritten ==
    \A e \in Events : (\E i \in DOMAIN added : added[i] = e)
                        ~> (\E i \in DOMAIN written : written[i] = e)

\* No call blocks for ever on the mutex.
CallsReturn == \A c \in Callers : pc[c] # "idle" ~> pc[c] = "idle"

\* The batcher implements the abstract batch stream, fairness included.
Stream == INSTANCE BatchStream
            WITH accepted <- added, inflight <- batch, done <- written
ImplementsStream == Stream!FairSpec
=============================================================================
