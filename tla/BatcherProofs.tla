---------------------------- MODULE BatcherProofs ----------------------------
(***************************************************************************)
(* Theorems about Batcher, for any events, callers and maxSize.            *)
(***************************************************************************)
EXTENDS Batcher, TLAPS

-----------------------------------------------------------------------------
(* Facts about sequences *)

LEMMA HeadOfAppend ==
    ASSUME NEW S, NEW s \in Seq(S), NEW x \in S, s # <<>>
    PROVE  Append(s, x) # <<>> /\ Head(Append(s, x)) = Head(s)
OBVIOUS

LEMMA ConcatAppend ==
    ASSUME NEW S, NEW s \in Seq(S), NEW u \in Seq(S), NEW x \in S
    PROVE  s \o Append(u, x) = Append(s \o u, x)
OBVIOUS

LEMMA ConcatEmpty ==
    ASSUME NEW S, NEW s \in Seq(S)
    PROVE  s \o <<>> = s /\ <<>> \o s = s
OBVIOUS

\* What follows a prefix is the rest.
LEMMA RestOfConcat ==
    ASSUME NEW S, NEW s \in Seq(S), NEW u \in Seq(S)
    PROVE  SubSeq(s \o u, Len(s) + 1, Len(s \o u)) = u
OBVIOUS

-----------------------------------------------------------------------------
(* The type invariant *)

LEMMA StartFlushTypes ==
    ASSUME TypeOK, NEW t \in Threads, StartFlush(t)
    PROVE  /\ events' \in Seq(Events) /\ batch' \in Seq(Events)
           /\ timer' \in Events \cup {None} /\ lock' \in Threads \cup {None}
           /\ armed' \subseteq Events
BY DEF TypeOK, StartFlush

\* The variables keep their shapes: a nil event or a foreign timer never gets
\* into the buffer or the batch.
THEOREM TypeCorrect == Spec => []TypeOK
<1>1. Init => TypeOK
  BY DEF Init, TypeOK
<1>2. TypeOK /\ [Next]_vars => TypeOK'
  <2> SUFFICES ASSUME TypeOK, [Next]_vars PROVE TypeOK'
    OBVIOUS
  <2> USE DEF Threads
  <2>1. ASSUME NEW c \in Callers, NEW e \in Events, AddCall(c, e) PROVE TypeOK'
    BY <2>1 DEF TypeOK, AddCall
  <2>2. ASSUME NEW c \in Callers, AddAppend(c) PROVE TypeOK'
    BY <2>2 DEF TypeOK, AddAppend
  <2>3. ASSUME NEW c \in Callers, AddReturn(c) PROVE TypeOK'
    BY <2>3 DEF TypeOK, AddReturn, Unlock
  <2>4. ASSUME NEW c \in Callers, AddFlush(c) PROVE TypeOK'
    BY <2>4, StartFlushTypes DEF TypeOK, AddFlush
  <2>5. ASSUME NEW c \in Callers, FlushCall(c) PROVE TypeOK'
    BY <2>5 DEF TypeOK, FlushCall, buffer, history
  <2>6. ASSUME NEW c \in Callers, FlushLock(c) PROVE TypeOK'
    <3>1. CASE events = <<>>
      BY <2>6, <3>1 DEF TypeOK, FlushLock, history
    <3>2. CASE events # <<>>
      BY <2>6, <3>2, StartFlushTypes DEF TypeOK, FlushLock, history
    <3> QED BY <3>1, <3>2
  <2>7. ASSUME NEW e \in Events, Fire(e) PROVE TypeOK'
    BY <2>7 DEF TypeOK, Fire, history
  <2>8. ASSUME NEW e \in Events, TimeoutFlush(e) PROVE TypeOK'
    <3>1. CASE events = <<>>
      BY <2>8, <3>1 DEF TypeOK, TimeoutFlush, history
    <3>2. CASE events # <<>>
      BY <2>8, <3>2, StartFlushTypes DEF TypeOK, TimeoutFlush, history
    <3> QED BY <3>1, <3>2
  <2>9. ASSUME NEW t \in Threads, FlushReturn(t) PROVE TypeOK'
    <3>1. written' \in Seq(Events)
      BY <2>9 DEF TypeOK, FlushReturn
    <3>2. CASE t \in Callers
      <4>1. /\ pc' = [pc EXCEPT ![t] = "idle"] /\ arg' = [arg EXCEPT ![t] = None]
            /\ batch' = <<>> /\ lock' = None
            /\ UNCHANGED <<events, timer, armed, waiting, fresh, added>>
        BY <2>9, <3>2 DEF FlushReturn, Unlock
      <4>2. /\ pc' \in [Callers -> {"idle", "add", "added", "flush"}]
            /\ arg' \in [Callers -> Events \cup {None}]
            /\ \A c \in Callers : pc'[c] = "add" => arg'[c] \in Events
        BY <4>1, <3>2 DEF TypeOK
      <4> QED BY <3>1, <4>1, <4>2 DEF TypeOK
    <3>3. CASE t \notin Callers
      BY <2>9, <3>1, <3>3 DEF TypeOK, FlushReturn, Unlock
    <3> QED BY <3>2, <3>3
  <2>10. CASE UNCHANGED vars
    BY <2>10 DEF TypeOK, vars
  <2> QED
    BY <2>1, <2>2, <2>3, <2>4, <2>5, <2>6, <2>7, <2>8, <2>9, <2>10
       DEF Next, CallerStep, TimerStep
<1> QED
  BY <1>1, <1>2, PTL DEF Spec

-----------------------------------------------------------------------------
(* The safety invariants.  None of BatchHasTimer, InOrder, BoundedBatch is   *)
(* inductive: that a flush finds no batch in flight, and an Add room in the  *)
(* buffer and no timer armed, is what LockDiscipline adds.                   *)

LEMMA LimitFact == Limit \in Nat \ {0} /\ (MaxSize # 0 => Limit = MaxSize)
BY BatcherAssumption DEF Limit

LEMMA StartFlushSafe ==
    ASSUME IInv, NEW t \in Threads, StartFlush(t), batch = <<>>, events # <<>>
    PROVE  /\ BatchHasTimer' /\ BoundedBatch'
           /\ added = written \o batch' \o events'
           /\ batch' # <<>> /\ lock' = t /\ lock' # None /\ timer' = None /\ events' = <<>>
<1>1. /\ lock' = t /\ batch' = events /\ events' = <<>> /\ timer' = None
      /\ armed' = armed \ {timer}
  BY DEF StartFlush
<1>2. t # None
  BY BatcherAssumption DEF Threads
<1>3. BatchHasTimer'
  BY <1>1 DEF IInv, BatchHasTimer
<1>4. BoundedBatch'
  BY <1>1, <1>2, LimitFact DEF IInv, TypeOK, BoundedBatch
<1>5. added = written \o batch' \o events'
  BY <1>1, ConcatEmpty DEF IInv, TypeOK, InOrder
<1> QED
  BY <1>1, <1>2, <1>3, <1>4, <1>5

LEMMA AppendSafe ==
    ASSUME IInv, NEW c \in Callers, AddAppend(c)
    PROVE  BatchHasTimer' /\ InOrder' /\ BoundedBatch' /\ LockDiscipline'
<1> USE LimitFact
<1>1. /\ pc[c] = "add" /\ lock = None /\ lock' = c /\ arg[c] \in Events
      /\ events' = Append(events, arg[c]) /\ added' = Append(added, arg[c])
      /\ batch' = batch /\ written' = written /\ waiting' = waiting
      /\ pc' = [pc EXCEPT ![c] = "added"]
  BY DEF AddAppend, IInv, TypeOK
<1>2. c # None /\ batch = <<>> /\ Len(events) < Limit
  BY <1>1, BatcherAssumption DEF IInv, LockDiscipline
<1>3. events \in Seq(Events) /\ events' # <<>> /\ Len(events') = Len(events) + 1
  BY <1>1 DEF IInv, TypeOK
<1>4. BatchHasTimer'
  <2>1. CASE events = <<>>
    <3>1. armed = {}
      BY <2>1, BatcherAssumption DEF IInv, TypeOK, BatchHasTimer, LockDiscipline
    <3>2. timer' = arg[c] /\ armed' = armed \cup {arg[c]}
      BY <1>3, <2>1 DEF AddAppend, NeedsTimer
    <3>3. Head(events') = arg[c]
      BY <1>1, <2>1
    <3> QED BY <3>1, <3>2, <3>3 DEF BatchHasTimer
  <2>2. CASE events # <<>>
    <3>1. timer' = timer /\ armed' = armed
      BY <1>3, <2>2 DEF AddAppend, NeedsTimer
    <3>2. Head(events') = Head(events)
      BY <1>1, <1>3, <2>2, HeadOfAppend
    <3> QED BY <1>1, <2>2, <3>1, <3>2 DEF IInv, BatchHasTimer
  <2> QED BY <2>1, <2>2
<1>5. InOrder'
  <2>1. added = written \o events
    BY <1>2, ConcatEmpty DEF IInv, TypeOK, InOrder
  <2>2. written \o Append(events, arg[c]) = Append(written \o events, arg[c])
    BY <1>1, <1>3, ConcatAppend DEF IInv, TypeOK
  <2>3. written' \o batch' = written
    BY <1>1, <1>2, ConcatEmpty DEF IInv, TypeOK
  <2> QED BY <1>1, <2>1, <2>2, <2>3 DEF InOrder
<1>6. BoundedBatch'
  BY <1>1, <1>2, <1>3 DEF IInv, TypeOK, BoundedBatch
<1>7. LockDiscipline'
  <2>1. \A d \in Callers : pc'[d] = "added" => d = c
    <3> SUFFICES ASSUME NEW d \in Callers, pc'[d] = "added", d # c PROVE FALSE
      OBVIOUS
    <3>1. pc[d] = "added"
      BY <1>1 DEF IInv, TypeOK
    <3> QED BY <1>1, <3>1, BatcherAssumption DEF IInv, LockDiscipline
  <2> QED BY <1>1, <1>2, <1>3, <2>1 DEF LockDiscipline
<1> QED
  BY <1>4, <1>5, <1>6, <1>7

LEMMA ReturnSafe ==
    ASSUME IInv, NEW t \in Threads, FlushReturn(t)
    PROVE  BatchHasTimer' /\ InOrder' /\ BoundedBatch' /\ LockDiscipline'
<1> USE LimitFact
<1>1. /\ lock = t /\ batch # <<>> /\ written' = written \o batch /\ batch' = <<>>
      /\ lock' = None
      /\ UNCHANGED <<events, timer, armed, waiting, added>>
      /\ \A c \in Callers : pc'[c] = IF c = t THEN "idle" ELSE pc[c]
  BY DEF FlushReturn, Unlock, IInv, TypeOK
<1>2. events = <<>>
  BY <1>1 DEF IInv, BoundedBatch
<1>3. BatchHasTimer'
  BY <1>1 DEF IInv, BatchHasTimer
<1>4. InOrder'
  <2>1. written' \in Seq(Events)
    BY <1>1 DEF IInv, TypeOK
  <2>2. written' \o batch' = written'
    BY <1>1, <2>1, ConcatEmpty
  <2> QED BY <1>1, <2>2 DEF IInv, InOrder
<1>5. BoundedBatch'
  BY <1>1, <1>2 DEF IInv, TypeOK, BoundedBatch
<1>6. LockDiscipline'
  <2>1. \A c \in Callers : pc'[c] # "added"
    BY <1>1 DEF IInv, LockDiscipline
  <2> QED BY <1>1, <1>2, <2>1 DEF IInv, LockDiscipline
<1> QED
  BY <1>3, <1>4, <1>5, <1>6

\* The conjunction of the invariants is inductive.
LEMMA IInvInductive == IInv /\ TypeOK' /\ [Next]_vars => IInv'
<1> SUFFICES ASSUME IInv, TypeOK', [Next]_vars
             PROVE  BatchHasTimer' /\ InOrder' /\ BoundedBatch' /\ LockDiscipline'
  BY DEF IInv
<1> USE LimitFact DEF buffer, history
<1>0. Callers \subseteq Threads /\ Events \subseteq Threads
  BY DEF Threads
<1>1. ASSUME NEW c \in Callers, NEW e \in Events, AddCall(c, e)
      PROVE  BatchHasTimer' /\ InOrder' /\ BoundedBatch' /\ LockDiscipline'
  BY <1>1 DEF AddCall, IInv, TypeOK, BatchHasTimer, InOrder, BoundedBatch, LockDiscipline
<1>2. ASSUME NEW c \in Callers, AddAppend(c)
      PROVE  BatchHasTimer' /\ InOrder' /\ BoundedBatch' /\ LockDiscipline'
  BY <1>2, AppendSafe
<1>3. ASSUME NEW c \in Callers, AddReturn(c)
      PROVE  BatchHasTimer' /\ InOrder' /\ BoundedBatch' /\ LockDiscipline'
  <2>1. /\ lock = c /\ batch = <<>> /\ Len(events) < Limit /\ lock' = None
        /\ UNCHANGED <<events, timer, batch, armed, waiting, added, written>>
        /\ \A d \in Callers : pc'[d] = IF d = c THEN "idle" ELSE pc[d]
    BY <1>3 DEF AddReturn, Unlock, SizeReached, IInv, TypeOK, Limit
  <2>2. LockDiscipline'
    BY <2>1 DEF IInv, LockDiscipline
  <2> QED BY <2>1, <2>2 DEF IInv, BatchHasTimer, InOrder, BoundedBatch
<1>4. ASSUME NEW c \in Callers, AddFlush(c)
      PROVE  BatchHasTimer' /\ InOrder' /\ BoundedBatch' /\ LockDiscipline'
  <2>1. /\ pc[c] = "added" /\ lock = c /\ batch = <<>> /\ StartFlush(c)
        /\ UNCHANGED <<added, written, pc>>
    BY <1>4 DEF AddFlush
  <2>2. events # <<>>
    BY <2>1 DEF IInv, LockDiscipline
  <2>3. LockDiscipline'
    BY <1>0, <2>1, <2>2, StartFlushSafe DEF IInv, LockDiscipline
  <2> QED BY <1>0, <2>1, <2>2, <2>3, StartFlushSafe DEF InOrder
<1>5. ASSUME NEW c \in Callers, FlushCall(c)
      PROVE  BatchHasTimer' /\ InOrder' /\ BoundedBatch' /\ LockDiscipline'
  BY <1>5 DEF FlushCall, IInv, TypeOK, BatchHasTimer, InOrder, BoundedBatch, LockDiscipline
<1>6. ASSUME NEW c \in Callers, FlushLock(c), events = <<>>
      PROVE  BatchHasTimer' /\ InOrder' /\ BoundedBatch' /\ LockDiscipline'
  BY <1>6 DEF FlushLock, IInv, TypeOK, BatchHasTimer, InOrder, BoundedBatch, LockDiscipline
<1>7. ASSUME NEW t \in Threads, lock = None, events # <<>>, StartFlush(t),
             UNCHANGED <<added, written, pc>>
      PROVE  BatchHasTimer' /\ InOrder' /\ BoundedBatch' /\ LockDiscipline'
  <2>1. batch = <<>>
    BY <1>7 DEF IInv, LockDiscipline
  <2>2. \A c \in Callers : pc[c] # "added"
    BY <1>7, BatcherAssumption DEF IInv, LockDiscipline
  <2>3. LockDiscipline'
    BY <1>7, <2>1, <2>2, StartFlushSafe DEF IInv, LockDiscipline
  <2> QED BY <1>7, <2>1, <2>3, StartFlushSafe DEF InOrder
<1>8. ASSUME NEW c \in Callers, FlushLock(c), events # <<>>
      PROVE  BatchHasTimer' /\ InOrder' /\ BoundedBatch' /\ LockDiscipline'
  BY <1>0, <1>7, <1>8 DEF FlushLock
<1>9. ASSUME NEW e \in Events, Fire(e)
      PROVE  BatchHasTimer' /\ InOrder' /\ BoundedBatch' /\ LockDiscipline'
  BY <1>9 DEF Fire, IInv, TypeOK, BatchHasTimer, InOrder, BoundedBatch, LockDiscipline
<1>10. ASSUME NEW e \in Events, TimeoutFlush(e), events = <<>>
       PROVE  BatchHasTimer' /\ InOrder' /\ BoundedBatch' /\ LockDiscipline'
  BY <1>10 DEF TimeoutFlush, IInv, TypeOK, BatchHasTimer, InOrder, BoundedBatch, LockDiscipline
<1>11. ASSUME NEW e \in Events, TimeoutFlush(e), events # <<>>
       PROVE  BatchHasTimer' /\ InOrder' /\ BoundedBatch' /\ LockDiscipline'
  BY <1>0, <1>7, <1>11 DEF TimeoutFlush
<1>12. ASSUME NEW t \in Threads, FlushReturn(t)
       PROVE  BatchHasTimer' /\ InOrder' /\ BoundedBatch' /\ LockDiscipline'
  BY <1>12, ReturnSafe
<1>13. CASE UNCHANGED vars
  BY <1>13 DEF vars, IInv, BatchHasTimer, InOrder, BoundedBatch, LockDiscipline
<1> QED
  BY <1>1, <1>2, <1>3, <1>4, <1>5, <1>6, <1>8, <1>9, <1>10, <1>11, <1>12, <1>13
     DEF Next, CallerStep, TimerStep

\* Every reachable state satisfies the invariants.
THEOREM Invariance == Spec => []IInv
<1>1. Init => IInv
  <2> SUFFICES ASSUME Init PROVE IInv
    OBVIOUS
  <2>1. TypeOK
    BY DEF Init, TypeOK
  <2> QED
    BY <2>1, LimitFact, ConcatEmpty
       DEF Init, IInv, BatchHasTimer, InOrder, BoundedBatch, LockDiscipline
<1>2. IInv /\ TypeOK /\ TypeOK' /\ [Next]_vars => IInv'
  BY IInvInductive
<1> QED
  BY <1>1, <1>2, TypeCorrect, PTL DEF Spec

\* No batch is stranded: while an event is buffered, its batch's timer is armed
\* or already waits for the mutex; no timer outlives its batch.
THEOREM NoStrandedBatch == Spec => []BatchHasTimer
<1>1. IInv => BatchHasTimer
  BY DEF IInv
<1> QED
  BY <1>1, Invariance, PTL

\* Added events are neither lost, repeated nor reordered.
THEOREM EventsInOrder == Spec => []InOrder
<1>1. IInv => InOrder
  BY DEF IInv
<1> QED
  BY <1>1, Invariance, PTL

\* Buffer and batch stay within maxSize, and nothing is buffered during a flush.
THEOREM BatchesBounded == Spec => []BoundedBatch
<1>1. IInv => BoundedBatch
  BY DEF IInv
<1> QED
  BY <1>1, Invariance, PTL

\* The mutex is free only between flushes, with room for the next Add.
THEOREM LockDisciplined == Spec => []LockDiscipline
<1>1. IInv => LockDiscipline
  BY DEF IInv
<1> QED
  BY <1>1, Invariance, PTL

\* A call of Flush that returns leaves nothing unwritten behind it: the fact
\* the worker's exit and so the drain on shutdown rest on.
THEOREM FlushBarrier == Spec => FlushIsBarrier
<1> DEFINE Barrier == \A c \in Callers : pc[c] = "flush" /\ pc'[c] = "idle" => written' = added'
<1>1. IInv /\ [Next]_vars => [Barrier]_vars
  <2> SUFFICES ASSUME IInv, Next, NEW c \in Callers, pc[c] = "flush", pc'[c] = "idle"
               PROVE  written' = added'
    BY DEF Barrier
  <2>1. CASE FlushLock(c) /\ events = <<>>
    <3>1. batch = <<>> /\ written' = written /\ added' = added
      BY <2>1 DEF FlushLock, history, IInv, LockDiscipline
    <3> QED BY <2>1, <3>1, ConcatEmpty DEF IInv, TypeOK, InOrder
  <2>2. CASE FlushReturn(c)
    <3>1. events = <<>> /\ written' = written \o batch /\ added' = added
      BY <2>2 DEF FlushReturn, IInv, BoundedBatch
    <3>2. written \o batch \in Seq(Events)
      BY DEF IInv, TypeOK
    <3> QED BY <3>1, <3>2, ConcatEmpty DEF IInv, InOrder
  <2>3. \/ FlushLock(c) /\ events = <<>>
        \/ FlushReturn(c)
    <3> USE DEF IInv, TypeOK, buffer, history
    <3>1. ASSUME NEW d \in Callers, NEW e \in Events, AddCall(d, e) PROVE FALSE
      BY <3>1 DEF AddCall
    <3>2. ASSUME NEW d \in Callers, AddAppend(d) PROVE FALSE
      BY <3>2 DEF AddAppend
    <3>3. ASSUME NEW d \in Callers, AddReturn(d) PROVE FALSE
      BY <3>3 DEF AddReturn
    <3>4. ASSUME NEW d \in Callers, AddFlush(d) PROVE FALSE
      BY <3>4 DEF AddFlush
    <3>5. ASSUME NEW d \in Callers, FlushCall(d) PROVE FALSE
      BY <3>5 DEF FlushCall
    <3>6. ASSUME NEW d \in Callers, FlushLock(d) PROVE d = c /\ events = <<>>
      BY <3>6 DEF FlushLock
    <3>7. ASSUME NEW e \in Events, Fire(e) PROVE FALSE
      BY <3>7 DEF Fire
    <3>8. ASSUME NEW e \in Events, TimeoutFlush(e) PROVE FALSE
      BY <3>8 DEF TimeoutFlush
    <3>9. ASSUME NEW t \in Threads, FlushReturn(t) PROVE t = c
      <4>1. CASE t \in Callers
        BY <3>9, <4>1 DEF FlushReturn
      <4>2. CASE t \notin Callers
        BY <3>9, <4>2 DEF FlushReturn
      <4> QED BY <4>1, <4>2
    <3> QED
      BY <3>1, <3>2, <3>3, <3>4, <3>5, <3>6, <3>7, <3>8, <3>9 DEF Next, CallerStep, TimerStep
  <2> QED BY <2>1, <2>2, <2>3
<1>2. QED
  BY <1>1, Invariance, PTL DEF Spec, FlushIsBarrier

-----------------------------------------------------------------------------
(* Refinement *)

LEMMA EmitStep ==
    ASSUME IInv, NEW t \in Threads, StartFlush(t), batch = <<>>, events # <<>>,
           UNCHANGED <<added, written>>
    PROVE  Stream!Emit
<1>1. added = written \o events
  BY ConcatEmpty DEF IInv, TypeOK, InOrder
<1>2. SubSeq(added, Len(written) + 1, Len(added)) = events
  BY <1>1, RestOfConcat DEF IInv, TypeOK
<1>3. Len(written) < Len(added)
  BY <1>1 DEF IInv, TypeOK
<1> QED
  BY <1>2, <1>3 DEF StartFlush, Stream!Emit

\* Mutex, timers and stale goroutines taken together implement the abstract
\* stream of batches: contiguous, in order, one at a time, within the limit.
THEOREM StreamRefinement == Spec => Stream!Spec
<1>1. Init => Stream!Init
  BY DEF Init, Stream!Init
<1>2. IInv /\ [Next]_vars => [Stream!Next]_(Stream!vars)
  <2> SUFFICES ASSUME IInv, [Next]_vars
               PROVE  Stream!Next \/ UNCHANGED Stream!vars
    OBVIOUS
  <2> USE DEF Stream!vars, buffer, history
  <2>0. Callers \subseteq Threads /\ Events \subseteq Threads
    BY DEF Threads
  <2>1. ASSUME NEW c \in Callers, NEW e \in Events, AddCall(c, e) PROVE UNCHANGED Stream!vars
    BY <2>1 DEF AddCall
  <2>2. ASSUME NEW c \in Callers, AddAppend(c) PROVE Stream!Next
    <3>1. /\ batch = <<>> /\ Len(events) < Limit /\ arg[c] \in Events
          /\ added' = Append(added, arg[c]) /\ UNCHANGED <<batch, written>>
      BY <2>2 DEF AddAppend, IInv, TypeOK, LockDiscipline
    <3>2. added = written \o events
      BY <3>1, ConcatEmpty DEF IInv, TypeOK, InOrder
    <3>3. Len(added) - Len(written) < Limit
      BY <3>1, <3>2, LimitFact DEF IInv, TypeOK
    <3>4. Stream!Accept(arg[c])
      BY <3>1, <3>3 DEF Stream!Accept
    <3> QED BY <3>1, <3>4 DEF Stream!Next
  <2>3. ASSUME NEW c \in Callers, AddReturn(c) PROVE UNCHANGED Stream!vars
    BY <2>3 DEF AddReturn
  <2>4. ASSUME NEW c \in Callers, AddFlush(c) PROVE Stream!Next
    <3>1. batch = <<>> /\ events # <<>> /\ StartFlush(c) /\ UNCHANGED <<added, written>>
      BY <2>4 DEF AddFlush, IInv, LockDiscipline
    <3> QED BY <2>0, <3>1, EmitStep DEF Stream!Next
  <2>5. ASSUME NEW c \in Callers, FlushCall(c) PROVE UNCHANGED Stream!vars
    BY <2>5 DEF FlushCall
  <2>6. ASSUME NEW c \in Callers, FlushLock(c) PROVE Stream!Next \/ UNCHANGED Stream!vars
    <3>1. CASE events = <<>>
      BY <2>6, <3>1 DEF FlushLock
    <3>2. CASE events # <<>>
      <4>1. batch = <<>> /\ StartFlush(c) /\ UNCHANGED <<added, written>>
        BY <2>6, <3>2 DEF FlushLock, IInv, LockDiscipline
      <4> QED BY <2>0, <3>2, <4>1, EmitStep DEF Stream!Next
    <3> QED BY <3>1, <3>2
  <2>7. ASSUME NEW e \in Events, Fire(e) PROVE UNCHANGED Stream!vars
    BY <2>7 DEF Fire
  <2>8. ASSUME NEW e \in Events, TimeoutFlush(e) PROVE Stream!Next \/ UNCHANGED Stream!vars
    <3>1. CASE events = <<>>
      BY <2>8, <3>1 DEF TimeoutFlush
    <3>2. CASE events # <<>>
      <4>1. batch = <<>> /\ StartFlush(e) /\ UNCHANGED <<added, written>>
        BY <2>8, <3>2 DEF TimeoutFlush, IInv, LockDiscipline
      <4> QED BY <2>0, <3>2, <4>1, EmitStep DEF Stream!Next
    <3> QED BY <3>1, <3>2
  <2>9. ASSUME NEW t \in Threads, FlushReturn(t) PROVE Stream!Next
    BY <2>9 DEF FlushReturn, Stream!Complete, Stream!Next
  <2>10. CASE UNCHANGED vars
    BY <2>10 DEF vars
  <2> QED
    BY <2>1, <2>2, <2>3, <2>4, <2>5, <2>6, <2>7, <2>8, <2>9, <2>10
       DEF Next, CallerStep, TimerStep
<1> QED
  BY <1>1, <1>2, Invariance, PTL DEF Spec, Stream!Spec

=============================================================================
