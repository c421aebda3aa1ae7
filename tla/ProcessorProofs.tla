--------------------------- MODULE ProcessorProofs ---------------------------
(***************************************************************************)
(* Theorems about Processor, for any events, workers, plugins and sizes.   *)
(***************************************************************************)
EXTENDS Processor, FiniteSetTheorems, Functions, TLAPS

-----------------------------------------------------------------------------
(* Facts about sequences *)

LEMMA InElements ==
    ASSUME NEW S, NEW s \in Seq(S), NEW x
    PROVE  x \in Elements(s) <=> \E i \in 1 .. Len(s) : x = s[i]
BY DEF Elements

LEMMA ElementsSubset ==
    ASSUME NEW S, NEW s \in Seq(S)
    PROVE  Elements(s) \subseteq S
BY DEF Elements

LEMMA ElementsEmpty ==
    ASSUME NEW S, NEW s \in Seq(S)
    PROVE  Elements(s) = {} <=> s = <<>>
<1>1. s = <<>> <=> Len(s) = 0
  OBVIOUS
<1>2. Len(s) \in Nat /\ (Len(s) # 0 => 1 \in 1 .. Len(s))
  OBVIOUS
<1>3. Len(s) = 0 => 1 .. Len(s) = {}
  OBVIOUS
<1> QED
  BY <1>1, <1>2, <1>3, InElements

LEMMA ElementsAppend ==
    ASSUME NEW S, NEW s \in Seq(S), NEW x \in S
    PROVE  Elements(Append(s, x)) = Elements(s) \cup {x}
<1>1. Append(s, x) \in Seq(S) /\ Len(Append(s, x)) = Len(s) + 1
  OBVIOUS
<1>2. \A i \in 1 .. Len(s) : Append(s, x)[i] = s[i]
  OBVIOUS
<1>3. Append(s, x)[Len(s) + 1] = x
  OBVIOUS
<1>4. 1 .. Len(s) + 1 = (1 .. Len(s)) \cup {Len(s) + 1}
  OBVIOUS
<1>5. \A y : y \in Elements(s) <=> \E i \in 1 .. Len(s) : y = s[i]
  BY InElements
<1>6. \A y : y \in Elements(Append(s, x)) <=> \E i \in 1 .. Len(s) + 1 : y = Append(s, x)[i]
  BY InElements, <1>1
<1> QED
  BY <1>2, <1>3, <1>4, <1>5, <1>6

LEMMA ElementsConcat ==
    ASSUME NEW S, NEW s \in Seq(S), NEW t \in Seq(S)
    PROVE  Elements(s \o t) = Elements(s) \cup Elements(t)
<1>0. s \o t \in Seq(S) /\ Len(s \o t) = Len(s) + Len(t) /\ Len(s) \in Nat /\ Len(t) \in Nat
  OBVIOUS
<1>1. ASSUME NEW x \in Elements(s) PROVE x \in Elements(s \o t)
  <2>1. PICK i \in 1 .. Len(s) : x = s[i]
    BY <1>1, InElements
  <2>2. i \in 1 .. Len(s \o t) /\ (s \o t)[i] = x
    BY <1>0, <2>1
  <2> QED BY <1>0, <2>2, InElements
<1>2. ASSUME NEW x \in Elements(t) PROVE x \in Elements(s \o t)
  <2>1. PICK i \in 1 .. Len(t) : x = t[i]
    BY <1>2, InElements
  <2>2. Len(s) + i \in 1 .. Len(s \o t) /\ (s \o t)[Len(s) + i] = x
    BY <1>0, <2>1
  <2> QED BY <1>0, <2>2, InElements
<1>3. ASSUME NEW x \in Elements(s \o t) PROVE x \in Elements(s) \cup Elements(t)
  <2>1. PICK i \in 1 .. Len(s \o t) : x = (s \o t)[i]
    BY <1>0, <1>3, InElements
  <2>2. CASE i <= Len(s)
    BY <1>0, <2>1, <2>2, InElements, i \in 1 .. Len(s), (s \o t)[i] = s[i]
  <2>3. CASE i > Len(s)
    <3>1. i - Len(s) \in 1 .. Len(t) /\ (s \o t)[i] = t[i - Len(s)]
      BY <1>0, <2>1, <2>3
    <3> QED BY <2>1, <3>1, InElements
  <2> QED BY <1>0, <2>1, <2>2, <2>3
<1> QED
  BY <1>1, <1>2, <1>3

LEMMA ElementsTail ==
    ASSUME NEW S, NEW s \in Seq(S), s # <<>>
    PROVE  /\ Head(s) \in S /\ Tail(s) \in Seq(S)
           /\ Elements(s) = {Head(s)} \cup Elements(Tail(s))
           /\ NoRepeats(s) => NoRepeats(Tail(s)) /\ Head(s) \notin Elements(Tail(s))
<1>1. /\ Head(s) \in S /\ Tail(s) \in Seq(S) /\ Len(s) \in Nat \ {0}
      /\ Head(s) = s[1] /\ Len(Tail(s)) = Len(s) - 1
  OBVIOUS
<1>2. \A i \in 1 .. Len(Tail(s)) : i + 1 \in 1 .. Len(s) /\ i + 1 # 1 /\ Tail(s)[i] = s[i + 1]
  BY <1>1
<1>3. \A i \in 1 .. Len(s) : i = 1 \/ \E j \in 1 .. Len(Tail(s)) : i = j + 1
  <2> TAKE i \in 1 .. Len(s)
  <2>1. CASE i # 1
    BY <1>1, <2>1, i - 1 \in 1 .. Len(Tail(s)), i = (i - 1) + 1
  <2> QED BY <2>1
<1>4. 1 \in 1 .. Len(s)
  BY <1>1
<1>5. \A y : y \in Elements(s) <=> \E i \in 1 .. Len(s) : y = s[i]
  BY InElements
<1>6. \A y : y \in Elements(Tail(s)) <=> \E i \in 1 .. Len(Tail(s)) : y = Tail(s)[i]
  BY InElements, <1>1
<1>7. Elements(s) = {Head(s)} \cup Elements(Tail(s))
  BY <1>1, <1>2, <1>3, <1>4, <1>5, <1>6
<1>8. ASSUME NoRepeats(s) PROVE NoRepeats(Tail(s)) /\ Head(s) \notin Elements(Tail(s))
  <2>1. \A i, j \in 1 .. Len(s) : s[i] = s[j] => i = j
    BY <1>8 DEF NoRepeats
  <2>2. Head(s) \notin Elements(Tail(s))
    BY <1>1, <1>2, <1>4, <1>6, <2>1
  <2>3. ASSUME NEW i \in 1 .. Len(Tail(s)), NEW j \in 1 .. Len(Tail(s)), Tail(s)[i] = Tail(s)[j]
        PROVE  i = j
    <3>1. i + 1 = j + 1
      BY <1>2, <2>1, <2>3
    <3> QED BY <3>1
  <2>4. DOMAIN Tail(s) = 1 .. Len(Tail(s))
    BY <1>1
  <2> QED BY <2>2, <2>3, <2>4 DEF NoRepeats
<1> QED
  BY <1>1, <1>7, <1>8

LEMMA NoRepeatsAppend ==
    ASSUME NEW S, NEW s \in Seq(S), NEW x \in S, NoRepeats(s), x \notin Elements(s)
    PROVE  NoRepeats(Append(s, x))
<1>1. Len(Append(s, x)) = Len(s) + 1 /\ DOMAIN Append(s, x) = 1 .. Len(s) + 1
  OBVIOUS
<1>2. \A i \in 1 .. Len(s) : Append(s, x)[i] = s[i] /\ s[i] # x
  BY InElements
<1>3. Append(s, x)[Len(s) + 1] = x
  OBVIOUS
<1>4. \A i, j \in 1 .. Len(s) : s[i] = s[j] => i = j
  BY DEF NoRepeats
<1>5. 1 .. Len(s) + 1 = (1 .. Len(s)) \cup {Len(s) + 1}
  OBVIOUS
<1> QED
  BY <1>1, <1>2, <1>3, <1>4, <1>5 DEF NoRepeats

LEMMA NoRepeatsConcat ==
    ASSUME NEW S, NEW s \in Seq(S), NEW t \in Seq(S), NoRepeats(s \o t)
    PROVE  NoRepeats(s) /\ Elements(s) \cap Elements(t) = {}
<1>0. \A i, j \in DOMAIN (s \o t) : (s \o t)[i] = (s \o t)[j] => i = j
  BY DEF NoRepeats
<1>1. ASSUME NEW i \in 1 .. Len(s), NEW j \in 1 .. Len(t), s[i] = t[j] PROVE FALSE
  <2>1. (s \o t)[i] = s[i] /\ (s \o t)[Len(s) + j] = t[j]
    OBVIOUS
  <2>2. i \in DOMAIN (s \o t) /\ Len(s) + j \in DOMAIN (s \o t) /\ i # Len(s) + j
    OBVIOUS
  <2> QED BY <1>0, <1>1, <2>1, <2>2
<1>2. ASSUME NEW i \in DOMAIN s, NEW j \in DOMAIN s, s[i] = s[j] PROVE i = j
  <2>1. (s \o t)[i] = s[i] /\ (s \o t)[j] = s[j]
    OBVIOUS
  <2>2. i \in DOMAIN (s \o t) /\ j \in DOMAIN (s \o t)
    OBVIOUS
  <2> QED BY <1>0, <1>2, <2>1, <2>2
<1> QED
  BY <1>1, <1>2, InElements DEF NoRepeats

LEMMA NoRepeatsEmpty == NoRepeats(<<>>) /\ Elements(<<>>) = {}
<1>1. DOMAIN <<>> = {}
  OBVIOUS
<1> QED
  BY <1>1 DEF NoRepeats, Elements

\* A sequence has no more elements than its length.
LEMMA ElementsBounded ==
    ASSUME NEW S, NEW s \in Seq(S)
    PROVE  IsFiniteSet(Elements(s)) /\ Cardinality(Elements(s)) <= Len(s)
<1>1. IsFiniteSet(1 .. Len(s)) /\ Cardinality(1 .. Len(s)) = Len(s)
  <2>1. Len(s) \in Nat
    OBVIOUS
  <2> QED
  BY <2>1, FS_Interval
<1>4. Elements(s) = {s[x] : x \in 1 .. Len(s)}
  BY DEF Elements
<1>3. s \in Surjection(1 .. Len(s), Elements(s))
  BY <1>4 DEF Surjection
<1> QED
  BY <1>1, <1>3, FS_Surjection
-----------------------------------------------------------------------------
(* The shapes of the variables *)

LEMMA ShapesInit == Init => Shapes
<1> SUFFICES ASSUME Init PROVE Shapes
  OBVIOUS
<1>1. SubmissionShape
  BY DEF Init, SubmissionShape
<1>2. ChannelShape
  <2>1. queue \in Seq(Events) /\ sendq \in Seq(Events) /\ accepted \in Seq(Events)
    BY DEF Init
  <2>2. closed \in BOOLEAN
    BY DEF Init
  <2> QED BY <2>1, <2>2 DEF ChannelShape
<1>3. LifecycleShape
  <2>1. shutdown \in {"no", "waiting", "nil", "timeout"}
    BY DEF Init
  <2>2. cancelled \in BOOLEAN /\ crashed \in BOOLEAN
    BY DEF Init
  <2> QED BY <2>1, <2>2 DEF LifecycleShape
<1>4. WorkersShape
  <2>1. ASSUME NEW w \in Workers PROVE BatcherShape(batcher[w], w)
    <3>1. batcher[w] = [events |-> <<>>, timer |-> None, lock |-> None,
                        batch |-> <<>>, armed |-> {}, waiting |-> {}]
      BY DEF Init
    <3>2. <<>> \in Seq(Events)
      OBVIOUS
    <3> QED BY <3>1, <3>2 DEF BatcherShape
  <2>2. \A w \in Workers : wpc[w] = "select"
    BY DEF Init
  <2>3. /\ wpc \in [Workers -> {"select", "add", "added", "flush", "exited"}]
        /\ hand \in [Workers -> Events \cup {None}] /\ todo \in [Workers -> SUBSET Plugins]
    BY DEF Init
  <2>4. DOMAIN batcher = Workers
    BY DEF Init
  <2>5. added \in [Workers -> Seq(Events)] /\ written \in [Workers -> Seq(Events)]
    BY DEF Init
  <2> QED BY <2>1, <2>2, <2>3, <2>4, <2>5 DEF WorkersShape
<1> QED
  BY <1>1, <1>2, <1>3, <1>4 DEF Shapes

\* A goroutine that flushes leaves the batcher in shape.
LEMMA FlushedShape ==
    ASSUME NEW w \in Workers, NEW b, BatcherShape(b, w), NEW t \in Events \cup {w}
    PROVE  BatcherShape(Flushed(b, t), w)
BY DEF BatcherShape, Flushed

LEMMA ReleasedShape ==
    ASSUME NEW w \in Workers, NEW b, BatcherShape(b, w)
    PROVE  /\ BatcherShape(Released(b), w)
           /\ BatcherShape(Released([b EXCEPT !.batch = <<>>]), w)
BY DEF BatcherShape, Released

LEMMA TimersShape ==
    ASSUME NEW w \in Workers, NEW b, BatcherShape(b, w), NEW e \in Events
    PROVE  /\ BatcherShape([b EXCEPT !.armed = @ \ {e}, !.waiting = @ \cup {e}], w)
           /\ BatcherShape([b EXCEPT !.waiting = @ \ {e}], w)
BY DEF BatcherShape

LEMMA AppendedShape ==
    ASSUME NEW w \in Workers, NEW b, BatcherShape(b, w), NEW e \in Events
    PROVE  BatcherShape([b EXCEPT !.lock = w, !.events = Append(@, e),
                                  !.timer = IF NeedsTimer(b.events) THEN e ELSE @,
                                  !.armed = IF NeedsTimer(b.events) THEN @ \cup {e} ELSE @], w)
<1>1. CASE NeedsTimer(b.events)
  BY <1>1 DEF BatcherShape
<1>2. CASE ~NeedsTimer(b.events)
  BY <1>2 DEF BatcherShape
<1> QED
  BY <1>1, <1>2

\* A step of one batcher leaves those of the other workers alone.
LEMMA OneBatcher ==
    ASSUME Shapes, NEW w \in Workers, NEW b, BatcherShape(b, w),
           batcher' = [batcher EXCEPT ![w] = b]
    PROVE  DOMAIN batcher' = Workers /\ \A v \in Workers : BatcherShape(batcher'[v], v)
<1>1. DOMAIN batcher = Workers /\ \A v \in Workers : BatcherShape(batcher[v], v)
  BY DEF Shapes, WorkersShape
<1> QED
  BY <1>1

LEMMA Unmoved ==
    ASSUME Shapes
    PROVE  /\ UNCHANGED <<sub, seen, stats>> => SubmissionShape'
           /\ UNCHANGED channel => ChannelShape'
           /\ UNCHANGED workers => WorkersShape'
           /\ UNCHANGED lifecycle => LifecycleShape'
BY DEF Shapes, SubmissionShape, ChannelShape, WorkersShape, LifecycleShape, channel, workers, lifecycle

LEMMA SubmitShapes ==
    ASSUME Shapes, NEW e \in Events, Submit(e)
    PROVE  Shapes'
<1>1. UNCHANGED workers => WorkersShape'
  BY Unmoved
<1>2. UNCHANGED workers
  BY DEF Submit, CheckDuplicate, Mark, TrySend, BlockingSend, WokenByClose, CountReceived
<1>3. LifecycleShape'
  BY DEF Shapes, LifecycleShape, lifecycle,
         Submit, CheckDuplicate, Mark, TrySend, BlockingSend, WokenByClose, CountReceived
<1>4. ChannelShape'
  <2>1. CASE UNCHANGED channel
    BY <2>1, Unmoved
  <2>2. CASE Enqueue(e) /\ UNCHANGED <<sendq, closed>>
    BY <2>2 DEF Shapes, ChannelShape, Enqueue
  <2>3. CASE sendq' = Append(sendq, e) /\ UNCHANGED <<queue, accepted, closed>>
    BY <2>3 DEF Shapes, ChannelShape
  <2> QED
    BY <2>1, <2>2, <2>3 DEF channel, Submit, CheckDuplicate, Mark, TrySend, BlockingSend,
                            WokenByClose, CountReceived
<1>5. SubmissionShape'
  <2> USE DEF Shapes, SubmissionShape
  <2>1. CASE CheckDuplicate(e)
    BY <2>1 DEF CheckDuplicate, Verdicts, VerdictsIf
  <2>2. CASE Mark(e)
    BY <2>2 DEF Mark, Keys
  <2>3. CASE TrySend(e) \/ WokenByClose(e) \/ CountReceived(e)
    BY <2>3 DEF TrySend, Enqueue, WokenByClose, CountReceived, submission
  <2>4. CASE BlockingSend(e)
    BY <2>4 DEF BlockingSend, Enqueue
  <2> QED BY <2>1, <2>2, <2>3, <2>4 DEF Submit
<1> QED
  BY <1>1, <1>2, <1>3, <1>4, <1>5 DEF Shapes

LEMMA WorkerShapes ==
    ASSUME Shapes, NEW w \in Workers, Worker(w)
    PROVE  Shapes'
<1>1. LifecycleShape'
  <2>1. UNCHANGED lifecycle
    BY DEF Worker, Receive, StopReceiving, AddAppend, AddReturn, AddFlush, FinalFlush
  <2> QED BY <2>1, Unmoved
<1>2. SubmissionShape' /\ ChannelShape'
  <2>1. CASE Receive(w)
    <3>1. Tail(queue) \in Seq(Events)
      BY <2>1 DEF Receive, Shapes, ChannelShape
    <3>2. CASE sendq = <<>>
      BY <2>1, <3>1, <3>2 DEF Receive, Shapes, ChannelShape, SubmissionShape
    <3>3. CASE sendq # <<>>
      <4>1. Head(sendq) \in Events /\ Tail(sendq) \in Seq(Events)
        BY <3>3 DEF Shapes, ChannelShape
      <4>2. /\ queue' = Append(Tail(queue), Head(sendq)) /\ sendq' = Tail(sendq)
            /\ accepted' = Append(accepted, Head(sendq)) /\ UNCHANGED <<closed, seen, stats>>
            /\ sub' = [sub EXCEPT ![Head(sendq)] = "sent"]
        BY <2>1, <3>3 DEF Receive
      <4>3. ChannelShape'
        BY <3>1, <4>1, <4>2 DEF Shapes, ChannelShape
      <4> QED BY <4>1, <4>2, <4>3 DEF Shapes, SubmissionShape
    <3> QED BY <3>2, <3>3
  <2>2. CASE ~Receive(w)
    <3>1. UNCHANGED <<sub, seen, stats>> /\ UNCHANGED channel
      BY <2>2 DEF Worker, StopReceiving, AddAppend, AddReturn, AddFlush, FinalFlush, submission
    <3> QED BY <3>1, Unmoved
  <2> QED BY <2>1, <2>2
<1>3. WorkersShape'
  <2>1. CASE Receive(w)
    BY <2>1 DEF Receive, Shapes, ChannelShape, WorkersShape
  <2>2. CASE StopReceiving(w)
    BY <2>2 DEF StopReceiving, Shapes, WorkersShape
  <2>3. CASE AddAppend(w)
    <3>1. hand[w] \in Events /\ BatcherShape(batcher[w], w)
      BY <2>3 DEF AddAppend, Shapes, WorkersShape
    <3>2. DOMAIN batcher' = Workers /\ \A v \in Workers : BatcherShape(batcher'[v], v)
      BY <2>3, <3>1, AppendedShape, OneBatcher DEF AddAppend
    <3> QED BY <2>3, <3>1, <3>2 DEF AddAppend, Shapes, WorkersShape
  <2>4. CASE AddReturn(w)
    <3>1. DOMAIN batcher' = Workers /\ \A v \in Workers : BatcherShape(batcher'[v], v)
      <4>1. BatcherShape(batcher[w], w) /\ batcher' = [batcher EXCEPT ![w] = Released(batcher[w])]
        BY <2>4 DEF AddReturn, Shapes, WorkersShape
      <4> QED BY <4>1, ReleasedShape, OneBatcher
    <3> QED BY <2>4, <3>1 DEF AddReturn, Shapes, WorkersShape
  <2>5. CASE AddFlush(w) \/ FinalFlush(w)
    <3>1. CASE batcher' = [batcher EXCEPT ![w] = Flushed(@, w)]
      <4>1. BatcherShape(batcher[w], w)
        BY DEF Shapes, WorkersShape
      <4>2. DOMAIN batcher' = Workers /\ \A v \in Workers : BatcherShape(batcher'[v], v)
        BY <3>1, <4>1, FlushedShape, OneBatcher
      <4> QED BY <2>5, <4>2 DEF AddFlush, FinalFlush, StartFlush, Shapes, WorkersShape
    <3>2. CASE UNCHANGED batcher
      BY <2>5, <3>2 DEF AddFlush, FinalFlush, StartFlush, Shapes, WorkersShape
    <3> QED BY <2>5, <3>1, <3>2 DEF AddFlush, FinalFlush, StartFlush
  <2> QED BY <2>1, <2>2, <2>3, <2>4, <2>5 DEF Worker
<1> QED
  BY <1>1, <1>2, <1>3 DEF Shapes

LEMMA FlushingShapes ==
    ASSUME Shapes, NEW w \in Workers, Flushing(w)
    PROVE  Shapes'
<1>1. LifecycleShape' /\ ChannelShape'
  <2>1. UNCHANGED lifecycle /\ UNCHANGED channel
    BY DEF Flushing, Fire, TimeoutFlush, WriteToPlugin, BatchDone
  <2> QED BY <2>1, Unmoved
<1>2. BatcherShape(batcher[w], w)
  BY DEF Shapes, WorkersShape
<1>3. SubmissionShape' /\ WorkersShape'
  <2>1. ASSUME NEW e \in Events, Fire(w, e) PROVE SubmissionShape' /\ WorkersShape'
    <3>1. batcher' = [batcher EXCEPT ![w] =
                        [batcher[w] EXCEPT !.armed = @ \ {e}, !.waiting = @ \cup {e}]]
      BY <2>1 DEF Fire
    <3>2. DOMAIN batcher' = Workers /\ \A v \in Workers : BatcherShape(batcher'[v], v)
      BY <1>2, <3>1, TimersShape, OneBatcher
    <3> QED BY <2>1, <3>2 DEF Fire, submission, Shapes, SubmissionShape, WorkersShape
  <2>2. ASSUME NEW e \in Events, TimeoutFlush(w, e) PROVE SubmissionShape' /\ WorkersShape'
    <3> DEFINE b == [batcher[w] EXCEPT !.waiting = @ \ {e}]
    <3>1. BatcherShape(b, w) /\ BatcherShape(Flushed(b, e), w)
      BY <1>2, TimersShape, FlushedShape
    <3>2. batcher' = [batcher EXCEPT ![w] = b] \/ batcher' = [batcher EXCEPT ![w] = Flushed(b, e)]
      BY <2>2 DEF TimeoutFlush
    <3> HIDE DEF b
    <3>3. DOMAIN batcher' = Workers /\ \A v \in Workers : BatcherShape(batcher'[v], v)
      BY <3>1, <3>2, OneBatcher
    <3>4. /\ todo' = todo \/ todo' = [todo EXCEPT ![w] = Plugins]
          /\ UNCHANGED <<wpc, hand, stats, added, written, submission>>
      BY <2>2 DEF TimeoutFlush
    <3> QED BY <3>3, <3>4 DEF submission, Shapes, SubmissionShape, WorkersShape
  <2>3. ASSUME NEW p \in Plugins, WriteToPlugin(w, p) PROVE SubmissionShape' /\ WorkersShape'
    BY <2>3 DEF WriteToPlugin, submission, Shapes, SubmissionShape, WorkersShape
  <2>4. CASE BatchDone(w)
    <3>1. SubmissionShape'
      <4>1. Len(batcher[w].batch) \in Nat
        BY <1>2 DEF BatcherShape
      <4> QED BY <2>4, <4>1 DEF BatchDone, submission, Shapes, SubmissionShape
    <3>2. DOMAIN batcher' = Workers /\ \A v \in Workers : BatcherShape(batcher'[v], v)
      <4>1. batcher' = [batcher EXCEPT ![w] = Released([batcher[w] EXCEPT !.batch = <<>>])]
        BY <2>4 DEF BatchDone
      <4> QED BY <1>2, <4>1, ReleasedShape, OneBatcher
    <3>3. written' \in [Workers -> Seq(Events)]
      <4>1. batcher[w].batch \in Seq(Events) /\ written' = [written EXCEPT ![w] = @ \o batcher[w].batch]
        BY <1>2, <2>4 DEF BatchDone, BatcherShape
      <4> QED BY <4>1 DEF Shapes, WorkersShape
    <3>4. /\ wpc' \in [Workers -> {"select", "add", "added", "flush", "exited"}]
          /\ hand' \in [Workers -> Events \cup {None}]
          /\ \A v \in Workers : wpc'[v] = "add" => hand'[v] \in Events
      BY <2>4 DEF BatchDone, Shapes, WorkersShape
    <3> QED BY <2>4, <3>1, <3>2, <3>3, <3>4 DEF BatchDone, Shapes, WorkersShape
  <2> QED BY <2>1, <2>2, <2>3, <2>4 DEF Flushing
<1> QED
  BY <1>1, <1>3 DEF Shapes

LEMMA ShutdownShapes ==
    ASSUME Shapes, Shutdown
    PROVE  Shapes'
<1>1. UNCHANGED workers /\ UNCHANGED <<sub, seen, stats>>
  BY DEF Shutdown, CloseInput, ReturnDrained, ReturnTimeout, submission
<1>2. ChannelShape' /\ LifecycleShape'
  <2>1. CASE CloseInput
    BY <2>1 DEF CloseInput, Shapes, ChannelShape, LifecycleShape
  <2>2. CASE ReturnDrained \/ ReturnTimeout
    BY <2>2, Unmoved DEF ReturnDrained, ReturnTimeout, Shapes, LifecycleShape
  <2> QED BY <2>1, <2>2 DEF Shutdown
<1> QED
  BY <1>1, <1>2, Unmoved DEF Shapes

LEMMA ShapesNext == Shapes /\ [Next]_vars => Shapes'
<1> SUFFICES ASSUME Shapes, [Next]_vars PROVE Shapes'
  OBVIOUS
<1>1. ASSUME NEW k \in Keys, Expire(k) PROVE Shapes'
  <2>1. UNCHANGED channel /\ UNCHANGED workers /\ UNCHANGED lifecycle
    BY <1>1 DEF Expire
  <2>2. SubmissionShape'
    BY <1>1 DEF Expire, Shapes, SubmissionShape
  <2> QED BY <2>1, <2>2, Unmoved DEF Shapes
<1>2. CASE UNCHANGED vars
  <2>1. UNCHANGED channel /\ UNCHANGED workers /\ UNCHANGED lifecycle /\ UNCHANGED <<sub, seen, stats>>
    BY <1>2 DEF vars, channel, workers, lifecycle
  <2> QED BY <2>1, Unmoved DEF Shapes
<1> QED
  BY <1>1, <1>2, SubmitShapes, WorkerShapes, FlushingShapes, ShutdownShapes DEF Next, Stopped

-----------------------------------------------------------------------------
(* Deduplication *)

Past == {"send", "full", "parked", "sent", "ok", "dropped"}

\* A key that is held was marked by a Submit that went on.
Origins == \A k \in seen : \E f \in Events : Key[f] = k /\ sub[f] \in Past

LEMMA SubmitMoves ==
    ASSUME Shapes, [Next]_vars
    PROVE  /\ \A f \in Events : sub[f] \in Past => sub'[f] \in Past
           /\ \A f \in Events : sub'[f] = "duplicate" => sub[f] = "duplicate" \/ Key[f] \in seen
           /\ \A k \in seen' \ seen : \E f \in Events : Key[f] = k /\ sub'[f] \in Past
<1> DEFINE Goal == /\ \A f \in Events : sub[f] \in Past => sub'[f] \in Past
                   /\ \A f \in Events : sub'[f] = "duplicate" => sub[f] = "duplicate" \/ Key[f] \in seen
                   /\ \A k \in seen' \ seen : \E f \in Events : Key[f] = k /\ sub'[f] \in Past
<1>0. DOMAIN sub = Events
  BY DEF Shapes, SubmissionShape
<1>1. CASE UNCHANGED <<sub, seen>>
  BY <1>1
<1>2. ASSUME NEW e \in Events, Submit(e) PROVE Goal
  <2>1. CASE CheckDuplicate(e)
    BY <1>0, <2>1 DEF CheckDuplicate, Verdicts, VerdictsIf, Past
  <2>2. CASE Mark(e)
    <3>1. sub' = [sub EXCEPT ![e] = "send"] /\ seen' \subseteq seen \cup {Key[e]}
      BY <2>2 DEF Mark
    <3> QED BY <1>0, <3>1 DEF Past
  <2>3. CASE TrySend(e) \/ BlockingSend(e) \/ WokenByClose(e) \/ CountReceived(e)
    <3>1. /\ seen' = seen
          /\ sub' = sub \/ \E v \in Past : sub' = [sub EXCEPT ![e] = v]
      BY <2>3 DEF TrySend, BlockingSend, Enqueue, WokenByClose, CountReceived, submission, Past
    <3> QED BY <1>0, <3>1 DEF Past
  <2> QED BY <1>2, <2>1, <2>2, <2>3 DEF Submit
<1>3. ASSUME NEW k \in Keys, Expire(k) PROVE Goal
  BY <1>3 DEF Expire
<1>4. ASSUME NEW w \in Workers, Receive(w) PROVE Goal
  <2>1. seen' = seen /\ (sub' = sub \/ sub' = [sub EXCEPT ![Head(sendq)] = "sent"])
    BY <1>4 DEF Receive
  <2> QED BY <1>0, <2>1 DEF Past
<1>5. ASSUME NEW w \in Workers, Worker(w), ~Receive(w) PROVE UNCHANGED <<sub, seen>>
  BY <1>5 DEF Worker, StopReceiving, AddAppend, AddReturn, AddFlush, FinalFlush, submission
<1>6. ASSUME NEW w \in Workers, Flushing(w) PROVE UNCHANGED <<sub, seen>>
  BY <1>6 DEF Flushing, Fire, TimeoutFlush, WriteToPlugin, BatchDone, submission
<1>7. ASSUME Shutdown PROVE UNCHANGED <<sub, seen>>
  BY <1>7 DEF Shutdown, CloseInput, ReturnDrained, ReturnTimeout, submission
<1>8. ASSUME UNCHANGED vars PROVE UNCHANGED <<sub, seen>>
  BY <1>8 DEF vars
<1> HIDE DEF Goal
<1>9. Goal
  <2>1. UNCHANGED <<sub, seen>> => Goal
    BY <1>1 DEF Goal
  <2> QED BY <2>1, <1>2, <1>3, <1>4, <1>5, <1>6, <1>7, <1>8 DEF Next, Stopped
<1> QED
  BY <1>9 DEF Goal

\* A dropped event always has another of its key that was not dropped as a
\* duplicate, for any keys, whatever Redis answers and however keys expire.
THEOREM NoKeyIsLost == Spec => []DuplicateHasOriginal
<1> DEFINE Inv == Shapes /\ Origins /\ DuplicateHasOriginal
<1>1. Init => Inv
  <2> SUFFICES ASSUME Init PROVE Inv
    OBVIOUS
  <2>1. seen = {} /\ \A e \in Events : sub[e] = "new"
    BY DEF Init
  <2> QED BY <2>1, ShapesInit DEF Origins, DuplicateHasOriginal
<1>2. Inv /\ [Next]_vars => Inv'
  <2> SUFFICES ASSUME Inv, [Next]_vars PROVE Inv'
    OBVIOUS
  <2>1. Shapes'
    BY ShapesNext
  <2>2. /\ \A f \in Events : sub[f] \in Past => sub'[f] \in Past
        /\ \A f \in Events : sub'[f] = "duplicate" => sub[f] = "duplicate" \/ Key[f] \in seen
        /\ \A k \in seen' \ seen : \E f \in Events : Key[f] = k /\ sub'[f] \in Past
    BY SubmitMoves
  <2>3. Origins'
    BY <2>2 DEF Origins
  <2>4. DuplicateHasOriginal'
    <3> SUFFICES ASSUME NEW e \in Events, sub'[e] = "duplicate"
                 PROVE  \E f \in Events \ {e} : Key[f] = Key[e] /\ sub'[f] \notin {"new", "mark", "duplicate"}
      BY DEF DuplicateHasOriginal
    <3>1. PICK f \in Events : Key[f] = Key[e] /\ sub[f] \in Past
      <4>1. CASE Key[e] \in seen
        BY <4>1 DEF Origins
      <4>2. CASE sub[e] = "duplicate"
        BY <4>2 DEF DuplicateHasOriginal, Past, Shapes, SubmissionShape
      <4> QED BY <2>2, <4>1, <4>2
    <3>2. sub'[f] \in Past
      BY <2>2, <3>1
    <3> QED BY <3>1, <3>2 DEF Past
  <2> QED BY <2>1, <2>3, <2>4
<1> QED
  BY <1>1, <1>2, PTL DEF Spec

-----------------------------------------------------------------------------
(* The batchers.  The mutex is free only between flushes and with room for   *)
(* the next event, and what was added is written, in flight or buffered.     *)

Batching(w) ==
    LET b == batcher[w]
    IN /\ wpc[w] = "added" => b.lock = w
       /\ b.lock = w => wpc[w] \in {"added", "flush"}
       /\ b.lock = None => b.batch = <<>> /\ Len(b.events) < Limit
       /\ b.batch # <<>> => b.events = <<>>
       /\ Len(b.events) <= Limit /\ Len(b.batch) <= Limit
       /\ wpc[w] = "exited" => b.events = <<>> /\ b.batch = <<>>
       /\ added[w] = written[w] \o b.batch \o b.events

LEMMA LimitFact == Limit \in Nat \ {0} /\ BatchSize <= Limit
BY ProcessorAssumption DEF Limit

LEMMA SequenceFacts ==
    ASSUME NEW S, NEW s \in Seq(S)
    PROVE  /\ s \o <<>> = s /\ Len(s) \in Nat /\ Len(<<>>) = 0
           /\ \A x \in S : Len(Append(s, x)) = Len(s) + 1
OBVIOUS

LEMMA ConcatAppend ==
    ASSUME NEW S, NEW s \in Seq(S), NEW t \in Seq(S), NEW x \in S
    PROVE  s \o Append(t, x) = Append(s \o t, x)
OBVIOUS

LEMMA BatchingInit == Init => \A w \in Workers : Batching(w)
<1> SUFFICES ASSUME Init, NEW w \in Workers PROVE Batching(w)
  OBVIOUS
<1>1. /\ wpc[w] = "select" /\ added[w] = <<>> /\ written[w] = <<>>
      /\ batcher[w].events = <<>> /\ batcher[w].batch = <<>> /\ batcher[w].lock = None
  BY DEF Init
<1>2. <<>> \o <<>> \o <<>> = <<>> /\ Len(<<>>) = 0
  OBVIOUS
<1>3. w # None
  BY ProcessorAssumption
<1> QED
  BY <1>1, <1>2, <1>3, LimitFact DEF Batching

LEMMA BatchingSame ==
    ASSUME NEW w \in Workers, Batching(w),
           UNCHANGED <<wpc[w], batcher[w].lock, batcher[w].batch, batcher[w].events,
                       added[w], written[w]>>
    PROVE  Batching(w)'
BY DEF Batching

\* What flush() does to the batcher of a worker that holds no batch.
LEMMA FlushBatching ==
    ASSUME Shapes, NEW w \in Workers, Batching(w), batcher[w].batch = <<>>,
           NEW t \in Events \cup {w}, t = w => wpc'[w] \in {"added", "flush"},
           wpc'[w] \notin {"exited"}, wpc'[w] = "added" => t = w,
           batcher'[w].lock = t, batcher'[w].batch = batcher[w].events, batcher'[w].events = <<>>,
           UNCHANGED <<added, written>>
    PROVE  Batching(w)'
<1>1. /\ batcher[w].events \in Seq(Events) /\ written[w] \in Seq(Events)
  BY DEF Shapes, WorkersShape, BatcherShape
<1>2. t # None /\ Len(<<>>) = 0
  BY ProcessorAssumption
<1>3. written[w] \o batcher[w].events \o <<>> = written[w] \o <<>> \o batcher[w].events
  BY <1>1
<1> QED
  BY <1>2, <1>3, LimitFact DEF Batching

LEMMA BatchingNext ==
    ASSUME Shapes, \A w \in Workers : Batching(w), [Next]_vars, NEW w \in Workers
    PROVE  Batching(w)'
<1>0. /\ Batching(w) /\ BatcherShape(batcher[w], w)
      /\ wpc \in [Workers -> {"select", "add", "added", "flush", "exited"}]
      /\ DOMAIN batcher = Workers /\ DOMAIN added = Workers /\ DOMAIN written = Workers
      /\ added[w] \in Seq(Events) /\ written[w] \in Seq(Events)
      /\ w \notin Events /\ w # None /\ None \notin Events
  BY ProcessorAssumption DEF Shapes, WorkersShape
<1>1. ASSUME UNCHANGED workers PROVE Batching(w)'
  BY <1>1, BatchingSame DEF workers
<1>2. ASSUME NEW v \in Workers \ {w}, Worker(v) \/ Flushing(v) PROVE Batching(w)'
  <2>1. UNCHANGED <<wpc[w], batcher[w], added[w], written[w]>>
    <3>1. CASE Worker(v)
      BY <1>0, <1>2, <3>1 DEF Worker, Receive, StopReceiving, AddAppend, AddReturn, AddFlush, FinalFlush,
                         StartFlush, workers
    <3>2. CASE Flushing(v)
      BY <1>0, <1>2, <3>2 DEF Flushing, Fire, TimeoutFlush, WriteToPlugin, BatchDone, workers
    <3> QED BY <1>2, <3>1, <3>2
  <2> QED BY <2>1, BatchingSame
<1>3. ASSUME Worker(w) PROVE Batching(w)'
  <2>1. CASE Receive(w)
    <3>1. wpc[w] = "select" /\ wpc'[w] = "add" /\ UNCHANGED <<batcher, added, written>>
      BY <1>0, <2>1 DEF Receive
    <3> QED BY <1>0, <3>1 DEF Batching
  <2>2. CASE StopReceiving(w)
    <3>1. wpc[w] = "select" /\ wpc'[w] = "flush" /\ UNCHANGED <<batcher, added, written>>
      BY <1>0, <2>2 DEF StopReceiving
    <3> QED BY <1>0, <3>1 DEF Batching
  <2>3. CASE AddAppend(w)
    <3>1. /\ wpc'[w] = "added" /\ batcher'[w].lock = w /\ batcher'[w].batch = batcher[w].batch
          /\ batcher'[w].events = Append(batcher[w].events, hand[w])
          /\ added'[w] = Append(added[w], hand[w]) /\ UNCHANGED written
          /\ batcher[w].lock = None /\ hand[w] \in Events
      BY <1>0, <2>3 DEF AddAppend, Unlocked, BatcherShape, Shapes, WorkersShape
    <3>2. /\ batcher[w].batch = <<>> /\ Len(batcher[w].events) < Limit
          /\ added[w] = written[w] \o <<>> \o batcher[w].events
      BY <1>0, <3>1 DEF Batching
    <3>3. /\ Len(batcher'[w].events) = Len(batcher[w].events) + 1
          /\ Len(batcher[w].events) \in Nat /\ Len(<<>>) = 0
      BY <1>0, <3>1, SequenceFacts DEF BatcherShape
    <3>4. Append(added[w], hand[w]) = written[w] \o <<>> \o Append(batcher[w].events, hand[w])
      <4>1. batcher[w].events \in Seq(Events) /\ written[w] \o <<>> = written[w]
        BY <1>0, SequenceFacts DEF BatcherShape
      <4>2. written[w] \o Append(batcher[w].events, hand[w])
              = Append(written[w] \o batcher[w].events, hand[w])
        BY <1>0, <3>1, <4>1, ConcatAppend
      <4> QED BY <3>2, <4>1, <4>2
    <3>5. Len(batcher'[w].events) <= Limit /\ Len(<<>>) <= Limit
      BY <3>2, <3>3, LimitFact
    <3> QED BY <1>0, <3>1, <3>2, <3>4, <3>5 DEF Batching
  <2>4. CASE AddReturn(w)
    <3>1. /\ wpc'[w] = "select" /\ batcher'[w].lock = None /\ batcher[w].batch = <<>>
          /\ UNCHANGED <<batcher[w].batch, batcher[w].events, added, written>>
          /\ Len(batcher[w].events) < BatchSize
      BY <1>0, <2>4 DEF AddReturn, Released, BatcherShape
    <3>2. Len(batcher[w].events) < Limit
      BY <1>0, <3>1, LimitFact, SequenceFacts, ProcessorAssumption DEF BatcherShape
    <3> QED BY <1>0, <3>1, <3>2 DEF Batching
  <2>5. CASE AddFlush(w)
    <3>1. /\ batcher[w].batch = <<>> /\ wpc'[w] = "added" /\ batcher'[w].lock = w
          /\ batcher'[w].batch = batcher[w].events /\ batcher'[w].events = <<>>
          /\ UNCHANGED <<added, written>>
      BY <1>0, <2>5 DEF AddFlush, StartFlush, Flushed, BatcherShape
    <3> QED BY <1>0, <3>1, FlushBatching
  <2>6. CASE FinalFlush(w)
    <3>1. wpc[w] = "flush" /\ batcher[w].lock = None /\ batcher[w].batch = <<>>
      BY <1>0, <2>6 DEF FinalFlush, Unlocked, Batching
    <3>2. CASE batcher[w].events = <<>>
      <4>1. wpc'[w] = "exited" /\ UNCHANGED <<batcher, added, written>>
        BY <1>0, <2>6, <3>2 DEF FinalFlush
      <4> QED BY <1>0, <3>1, <3>2, <4>1 DEF Batching
    <3>3. CASE batcher[w].events # <<>>
      <4>1. /\ wpc'[w] = "flush" /\ batcher'[w].lock = w
            /\ batcher'[w].batch = batcher[w].events /\ batcher'[w].events = <<>>
            /\ UNCHANGED <<added, written>>
        <5>1. batcher'[w] = Flushed(batcher[w], w) /\ UNCHANGED <<wpc, added, written>>
          BY <1>0, <2>6, <3>3 DEF FinalFlush, StartFlush
        <5> QED BY <1>0, <3>1, <5>1 DEF Flushed, BatcherShape
      <4> QED BY <1>0, <3>1, <4>1, FlushBatching
    <3> QED BY <3>2, <3>3
  <2> QED BY <1>3, <2>1, <2>2, <2>3, <2>4, <2>5, <2>6 DEF Worker
<1>4. ASSUME Flushing(w) PROVE Batching(w)'
  <2>1. ASSUME NEW e \in Events, Fire(w, e) PROVE Batching(w)'
    <3>1. UNCHANGED <<wpc[w], batcher[w].lock, batcher[w].batch, batcher[w].events, added[w], written[w]>>
      <4>1. batcher'[w] = [batcher[w] EXCEPT !.armed = @ \ {e}, !.waiting = @ \cup {e}]
        BY <1>0, <2>1 DEF Fire
      <4> QED BY <1>0, <2>1, <4>1 DEF Fire, BatcherShape
    <3> QED BY <1>0, <3>1, BatchingSame
  <2>2. ASSUME NEW e \in Events, TimeoutFlush(w, e) PROVE Batching(w)'
    <3>1. /\ UNCHANGED <<wpc, added, written>> /\ batcher[w].lock = None /\ batcher[w].batch = <<>>
      BY <1>0, <2>2 DEF TimeoutFlush, Unlocked, Batching
    <3>2. CASE batcher[w].events = <<>>
      <4>1. batcher'[w] = [batcher[w] EXCEPT !.waiting = @ \ {e}]
        BY <1>0, <2>2, <3>2 DEF TimeoutFlush, BatcherShape
      <4>2. UNCHANGED <<batcher[w].lock, batcher[w].batch, batcher[w].events>>
        BY <1>0, <4>1 DEF BatcherShape
      <4> QED BY <1>0, <3>1, <4>2, BatchingSame
    <3>3. CASE batcher[w].events # <<>>
      <4>1. batcher'[w] = Flushed([batcher[w] EXCEPT !.waiting = @ \ {e}], e)
        BY <1>0, <2>2, <3>3 DEF TimeoutFlush, BatcherShape
      <4>2. batcher'[w].lock = e /\ batcher'[w].batch = batcher[w].events /\ batcher'[w].events = <<>>
        BY <1>0, <4>1 DEF BatcherShape, Flushed
      <4>3. wpc'[w] \notin {"exited", "added"} /\ e # w
        BY <1>0, <3>1, <3>3 DEF Batching
      <4> QED BY <1>0, <3>1, <4>2, <4>3, FlushBatching
    <3> QED BY <3>2, <3>3
  <2>3. ASSUME NEW p \in Plugins, WriteToPlugin(w, p) PROVE Batching(w)'
    BY <1>0, <2>3, BatchingSame DEF WriteToPlugin
  <2>4. CASE BatchDone(w)
    <3>1. /\ batcher[w].batch # <<>> /\ written'[w] = written[w] \o batcher[w].batch
          /\ batcher'[w].batch = <<>> /\ batcher'[w].lock = None
          /\ UNCHANGED <<batcher[w].events, added>>
          /\ IF batcher[w].lock = w
             THEN wpc'[w] = IF wpc[w] = "flush" THEN "exited" ELSE "select"
             ELSE wpc'[w] = wpc[w]
      BY <1>0, <2>4 DEF BatchDone, Released, BatcherShape
    <3>2. batcher[w].events = <<>> /\ wpc[w] # "exited"
      BY <1>0, <3>1 DEF Batching
    <3>3. wpc'[w] # "added"
      BY <1>0, <3>1 DEF Batching
    <3>4. added[w] = written[w] \o batcher[w].batch \o <<>> /\ Len(<<>>) = 0
      BY <1>0, <3>2 DEF Batching
    <3> QED BY <1>0, <3>1, <3>2, <3>3, <3>4, LimitFact DEF Batching
  <2> QED BY <1>4, <2>1, <2>2, <2>3, <2>4 DEF Flushing
<1>5. ASSUME NEW e \in Events, Submit(e) PROVE UNCHANGED workers
  BY <1>5 DEF Submit, CheckDuplicate, Mark, TrySend, BlockingSend, WokenByClose, CountReceived
<1>6. ASSUME NEW k \in Keys, Expire(k) PROVE UNCHANGED workers
  BY <1>6 DEF Expire
<1>7. ASSUME Shutdown PROVE UNCHANGED workers
  BY <1>7 DEF Shutdown, CloseInput, ReturnDrained, ReturnTimeout
<1>8. ASSUME UNCHANGED vars PROVE UNCHANGED workers
  BY <1>8 DEF vars, workers
<1> QED
  BY <1>1, <1>2, <1>3, <1>4, <1>5, <1>6, <1>7, <1>8 DEF Next, Stopped

-----------------------------------------------------------------------------
(* The way of an event from its handler to a batcher *)

Accounted ==
    /\ \A e \in Events : e \in Elements(accepted) <=> sub[e] \in {"sent", "ok"}
    /\ NoRepeats(sendq) /\ \A e \in Elements(sendq) : sub[e] = "parked"
    /\ NoRepeats(queue)
    /\ \A w \in Workers : wpc[w] = "add" => hand[w] \notin Elements(added[w])
    /\ Conservation

LEMMA AccountedInit == Init => Accounted
<1> SUFFICES ASSUME Init PROVE Accounted
  OBVIOUS
<1>1. /\ accepted = <<>> /\ queue = <<>> /\ sendq = <<>>
      /\ \A w \in Workers : wpc[w] = "select" /\ added[w] = <<>>
      /\ \A e \in Events : sub[e] = "new"
  BY DEF Init
<1>2. \A w \in Workers : Taken(w) = {}
  BY <1>1, NoRepeatsEmpty DEF Taken
<1> QED
  BY <1>1, <1>2, NoRepeatsEmpty DEF Accounted, Conservation

\* A step that moves no event.
LEMMA AccountedSame ==
    ASSUME Accounted, UNCHANGED <<queue, accepted, added>>,
           sendq' = sendq \/ sendq' = <<>>,
           \A w \in Workers : wpc'[w] = "add" <=> wpc[w] = "add",
           \A w \in Workers : wpc[w] = "add" => hand'[w] = hand[w],
           \A e \in Events : sub'[e] \in {"sent", "ok"} <=> sub[e] \in {"sent", "ok"},
           \A e \in Elements(sendq) : sub[e] = "parked" => sub'[e] = "parked"
    PROVE  Accounted'
<1>1. \A w \in Workers : Taken(w)' = Taken(w)
  BY DEF Taken
<1>2. Conservation'
  BY <1>1 DEF Accounted, Conservation
<1>3. NoRepeats(sendq)' /\ Elements(sendq)' \subseteq Elements(sendq)
  BY NoRepeatsEmpty DEF Accounted
<1> QED
  BY <1>2, <1>3 DEF Accounted

\* A handler's event enters the channel.
LEMMA AccountedEnqueue ==
    ASSUME Shapes, Accounted, NEW e \in Events, sub[e] \in {"send", "full"}, Enqueue(e),
           UNCHANGED <<sendq, wpc, hand, added>>
    PROVE  Accounted'
<1>1. queue \in Seq(Events) /\ accepted \in Seq(Events) /\ DOMAIN sub = Events
  BY DEF Shapes, ChannelShape, SubmissionShape
<1>2. e \notin Elements(accepted) /\ e \notin Elements(sendq)
  BY DEF Accounted
<1>3. e \notin Elements(queue) /\ \A w \in Workers : e \notin Taken(w)
  BY <1>2 DEF Accounted, Conservation
<1>4. /\ Elements(queue') = Elements(queue) \cup {e} /\ NoRepeats(queue')
      /\ Elements(accepted') = Elements(accepted) \cup {e} /\ NoRepeats(accepted')
      /\ sub' = [sub EXCEPT ![e] = "sent"]
  BY <1>1, <1>2, <1>3, ElementsAppend, NoRepeatsAppend DEF Enqueue, Accounted, Conservation
<1>5. \A w \in Workers : Taken(w)' = Taken(w)
  BY DEF Taken
<1>6. Conservation'
  BY <1>3, <1>4, <1>5 DEF Accounted, Conservation
<1>7. \A f \in Events : f \in Elements(accepted') <=> sub'[f] \in {"sent", "ok"}
  BY <1>1, <1>4 DEF Accounted
<1>8. \A f \in Elements(sendq) : sub'[f] = "parked"
  <2>1. Elements(sendq) \subseteq Events
    BY ElementsSubset DEF Shapes, ChannelShape
  <2> QED BY <1>1, <1>2, <1>4, <2>1 DEF Accounted
<1> QED
  BY <1>4, <1>6, <1>7, <1>8 DEF Accounted

LEMMA AccountedSubmit ==
    ASSUME Shapes, Accounted, NEW e \in Events, Submit(e)
    PROVE  Accounted'
<1>0. DOMAIN sub = Events /\ sendq \in Seq(Events) /\ Elements(sendq) \subseteq Events
  BY ElementsSubset DEF Shapes, SubmissionShape, ChannelShape
<1>1. UNCHANGED <<wpc, hand, added>>
  BY DEF Submit, CheckDuplicate, Mark, TrySend, BlockingSend, WokenByClose, CountReceived, workers
<1>2. CASE Enqueue(e) /\ UNCHANGED sendq /\ sub[e] \in {"send", "full"}
  BY <1>1, <1>2, AccountedEnqueue
<1>3. CASE /\ UNCHANGED <<queue, accepted>> /\ sub[e] = "full"
           /\ sub' = [sub EXCEPT ![e] = "parked"] /\ sendq' = Append(sendq, e)
  <2>1. e \notin Elements(sendq)
    BY <1>3 DEF Accounted
  <2>2. NoRepeats(sendq') /\ Elements(sendq') = Elements(sendq) \cup {e}
    BY <1>0, <1>3, <2>1, ElementsAppend, NoRepeatsAppend DEF Accounted
  <2>3. \A w \in Workers : Taken(w)' = Taken(w)
    BY <1>1 DEF Taken
  <2>4. Conservation'
    BY <1>1, <1>3, <2>3 DEF Accounted, Conservation
  <2>5. \A f \in Events : sub'[f] = IF f = e THEN "parked" ELSE sub[f]
    BY <1>0, <1>3
  <2> QED BY <1>0, <1>1, <1>3, <2>2, <2>4, <2>5 DEF Accounted
<1>4. CASE /\ UNCHANGED <<queue, sendq, accepted>>
           /\ \/ sub' = sub
              \/ \E v \in {"duplicate", "mark", "send", "full", "dropped"} :
                   sub[e] \in {"new", "mark", "send", "full"} /\ sub' = [sub EXCEPT ![e] = v]
              \/ sub[e] = "sent" /\ sub' = [sub EXCEPT ![e] = "ok"]
  <2>1. /\ \A f \in Events : sub'[f] \in {"sent", "ok"} <=> sub[f] \in {"sent", "ok"}
        /\ \A f \in Elements(sendq) : sub[f] = "parked" => sub'[f] = "parked"
    BY <1>0, <1>4
  <2> QED BY <1>1, <1>4, <2>1, AccountedSame
<1>5. CASE CheckDuplicate(e) \/ Mark(e) \/ WokenByClose(e) \/ CountReceived(e)
  BY <1>4, <1>5 DEF CheckDuplicate, Verdicts, VerdictsIf, Mark, WokenByClose, CountReceived,
                    submission, channel
<1>6. CASE TrySend(e)
  BY <1>2, <1>4, <1>6 DEF TrySend
<1>7. CASE BlockingSend(e)
  BY <1>2, <1>3, <1>4, <1>7 DEF BlockingSend
<1> QED
  BY <1>5, <1>6, <1>7 DEF Submit

LEMMA AccountedReceive ==
    ASSUME Shapes, Accounted, NEW w \in Workers, Receive(w)
    PROVE  Accounted'
<1>0. /\ DOMAIN sub = Events /\ DOMAIN wpc = Workers /\ DOMAIN hand = Workers
      /\ queue \in Seq(Events) /\ sendq \in Seq(Events) /\ accepted \in Seq(Events)
  BY DEF Shapes, SubmissionShape, ChannelShape, WorkersShape
<1> DEFINE h == Head(queue)
<1>1. /\ h \in Events /\ Tail(queue) \in Seq(Events)
      /\ Elements(queue) = {h} \cup Elements(Tail(queue))
      /\ NoRepeats(Tail(queue)) /\ h \notin Elements(Tail(queue))
  BY <1>0, ElementsTail DEF Receive, Accounted
<1>2. /\ wpc[w] = "select" /\ wpc' = [wpc EXCEPT ![w] = "add"] /\ hand' = [hand EXCEPT ![w] = h]
      /\ UNCHANGED added
  BY DEF Receive
<1> HIDE DEF h
<1>3. /\ Taken(w)' = Taken(w) \cup {h} /\ \A v \in Workers \ {w} : Taken(v)' = Taken(v)
      /\ Taken(w) = Elements(added[w])
  BY <1>0, <1>2 DEF Taken
<1>4. \A v \in Workers : h \notin Taken(v) /\ Taken(v) \cap Elements(queue) = {}
  BY <1>1 DEF Accounted, Conservation
<1>5. \A v \in Workers : wpc'[v] = "add" => hand'[v] \notin Elements(added'[v])
  BY <1>0, <1>2, <1>3, <1>4 DEF Accounted
<1>6. \A v, u \in Workers : v # u => Taken(v)' \cap Taken(u)' = {}
  BY <1>3, <1>4 DEF Accounted, Conservation
<1>7. CASE sendq = <<>>
  <2>1. queue' = Tail(queue) /\ UNCHANGED <<sendq, sub, accepted>>
    BY <1>7 DEF Receive
  <2>2. Conservation'
    <3>1. \A v \in Workers : Elements(queue') \cap Taken(v)' = {}
      BY <1>1, <1>3, <1>4, <2>1
    <3>2. Elements(accepted') = Elements(queue') \cup UNION {Taken(v)' : v \in Workers}
      BY <1>1, <1>3, <2>1 DEF Accounted, Conservation
    <3> QED BY <1>2, <1>6, <2>1, <3>1, <3>2 DEF Accounted, Conservation
  <2> QED BY <1>1, <1>5, <2>1, <2>2 DEF Accounted
<1>8. CASE sendq # <<>>
  <2> DEFINE g == Head(sendq)
  <2>1. /\ g \in Events /\ Tail(sendq) \in Seq(Events)
        /\ Elements(sendq) = {g} \cup Elements(Tail(sendq))
        /\ NoRepeats(Tail(sendq)) /\ g \notin Elements(Tail(sendq))
    BY <1>0, <1>8, ElementsTail DEF Accounted
  <2>2. /\ queue' = Append(Tail(queue), g) /\ sendq' = Tail(sendq)
        /\ accepted' = Append(accepted, g) /\ sub' = [sub EXCEPT ![g] = "sent"]
    BY <1>8 DEF Receive
  <2> HIDE DEF g
  <2>3. g \notin Elements(accepted) /\ g \notin Elements(queue)
    BY <2>1 DEF Accounted, Conservation
  <2>4. \A v \in Workers : g \notin Taken(v)
    BY <2>3 DEF Accounted, Conservation
  <2>5. /\ Elements(queue') = Elements(Tail(queue)) \cup {g} /\ NoRepeats(queue')
        /\ Elements(accepted') = Elements(accepted) \cup {g} /\ NoRepeats(accepted')
    <3>1. g \notin Elements(Tail(queue)) /\ NoRepeats(accepted)
      BY <1>1, <2>3 DEF Accounted, Conservation
    <3>2. Elements(queue') = Elements(Tail(queue)) \cup {g} /\ NoRepeats(queue')
      <4>1. PICK t \in Seq(Events) : t = Tail(queue)
        BY <1>1
      <4>2. Elements(Append(t, g)) = Elements(t) \cup {g}
        BY <2>1, ElementsAppend
      <4>3. NoRepeats(t) /\ g \notin Elements(t)
        BY <1>1, <3>1, <4>1
      <4>4. NoRepeats(Append(t, g))
        BY <2>1, <4>3, NoRepeatsAppend
      <4> QED BY <2>2, <4>1, <4>2, <4>4
    <3>3. Elements(accepted') = Elements(accepted) \cup {g} /\ NoRepeats(accepted')
      BY <1>0, <2>1, <2>2, <2>3, <3>1, ElementsAppend, NoRepeatsAppend
    <3> QED BY <3>2, <3>3
  <2>6. Conservation'
    <3>1. \A v \in Workers : Elements(queue') \cap Taken(v)' = {}
      BY <1>1, <1>3, <1>4, <2>3, <2>4, <2>5
    <3>2. Elements(accepted') = Elements(queue') \cup UNION {Taken(v)' : v \in Workers}
      BY <1>1, <1>3, <2>5 DEF Accounted, Conservation
    <3> QED BY <1>2, <1>6, <2>5, <3>1, <3>2 DEF Accounted, Conservation
  <2>7. \A f \in Events : sub'[f] = IF f = g THEN "sent" ELSE sub[f]
    BY <1>0, <2>2
  <2>8. \A f \in Events : f \in Elements(accepted') <=> sub'[f] \in {"sent", "ok"}
    BY <2>5, <2>7 DEF Accounted
  <2>9. NoRepeats(sendq') /\ \A f \in Elements(sendq') : sub'[f] = "parked"
    <3>1. Elements(sendq') \subseteq Events /\ Elements(sendq') \subseteq Elements(sendq) \ {g}
      BY <2>1, <2>2, ElementsSubset
    <3> QED BY <2>1, <2>2, <2>7, <3>1 DEF Accounted
  <2> QED BY <1>5, <2>5, <2>6, <2>8, <2>9 DEF Accounted
<1> QED
  BY <1>7, <1>8

LEMMA AccountedAppend ==
    ASSUME Shapes, Accounted, NEW w \in Workers, AddAppend(w)
    PROVE  Accounted'
<1>1. /\ wpc[w] = "add" /\ wpc' = [wpc EXCEPT ![w] = "added"]
      /\ added' = [added EXCEPT ![w] = Append(@, hand[w])]
      /\ UNCHANGED <<hand, queue, sendq, accepted, sub>>
  BY DEF AddAppend, channel, submission
<1>2. /\ DOMAIN wpc = Workers /\ DOMAIN added = Workers
      /\ added[w] \in Seq(Events) /\ hand[w] \in Events
  BY <1>1 DEF Shapes, WorkersShape
<1>3. /\ Elements(added'[w]) = Elements(added[w]) \cup {hand[w]} /\ NoRepeats(added'[w])
  BY <1>1, <1>2, ElementsAppend, NoRepeatsAppend DEF Accounted, Conservation
<1>4. \A v \in Workers \ {w} : added'[v] = added[v] /\ wpc'[v] = wpc[v]
  BY <1>1, <1>2
<1>5. \A v \in Workers : Taken(v)' = Taken(v)
  BY <1>1, <1>2, <1>3, <1>4 DEF Taken
<1>6. Conservation'
  BY <1>1, <1>3, <1>4, <1>5 DEF Accounted, Conservation
<1>7. \A v \in Workers : wpc'[v] = "add" => hand'[v] \notin Elements(added'[v])
  BY <1>1, <1>2, <1>4 DEF Accounted
<1> QED
  BY <1>1, <1>6, <1>7 DEF Accounted

LEMMA AccountedNext ==
    ASSUME Shapes, \A w \in Workers : Batching(w), Accounted, [Next]_vars
    PROVE  Accounted'
<1>0. wpc \in [Workers -> {"select", "add", "added", "flush", "exited"}] /\ DOMAIN hand = Workers
  BY DEF Shapes, WorkersShape
<1>1. ASSUME UNCHANGED <<sub, queue, accepted, added, wpc, hand>>, sendq' = sendq \/ sendq' = <<>>
      PROVE  Accounted'
  BY <1>1, AccountedSame
<1>2. ASSUME NEW w \in Workers, Worker(w) PROVE Accounted'
  <2>1. CASE StopReceiving(w) \/ AddReturn(w) \/ AddFlush(w) \/ FinalFlush(w)
    <3>1. /\ UNCHANGED <<sub, queue, sendq, accepted, added>>
          /\ wpc[w] # "add" /\ wpc'[w] # "add"
          /\ \A v \in Workers \ {w} : wpc'[v] = wpc[v] /\ hand'[v] = hand[v]
      <4>1. CASE StopReceiving(w)
        BY <1>0, <4>1 DEF StopReceiving, submission, channel
      <4>2. CASE AddReturn(w)
        BY <1>0, <4>2 DEF AddReturn, submission, channel
      <4>3. CASE AddFlush(w)
        BY <1>0, <4>3 DEF AddFlush, submission, channel
      <4>4. CASE FinalFlush(w)
        BY <1>0, <4>4 DEF FinalFlush, submission, channel
      <4> QED BY <2>1, <4>1, <4>2, <4>3, <4>4
    <3>2. /\ \A v \in Workers : wpc'[v] = "add" <=> wpc[v] = "add"
          /\ \A v \in Workers : wpc[v] = "add" => hand'[v] = hand[v]
      BY <3>1
    <3> QED BY <3>1, <3>2, AccountedSame
  <2> QED BY <1>2, <2>1, AccountedReceive, AccountedAppend DEF Worker
<1>3. ASSUME NEW w \in Workers, Flushing(w) PROVE Accounted'
  <2>1. CASE BatchDone(w)
    <3>1. /\ UNCHANGED <<sub, queue, sendq, accepted, added>>
          /\ \/ UNCHANGED <<wpc, hand>>
             \/ /\ batcher[w].lock = w /\ hand' = [hand EXCEPT ![w] = None]
                /\ \E v \in {"select", "exited"} : wpc' = [wpc EXCEPT ![w] = v]
      BY <2>1 DEF BatchDone, submission, channel
    <3>2. batcher[w].lock = w => wpc[w] # "add"
      BY DEF Batching
    <3>3. /\ \A v \in Workers : wpc'[v] = "add" <=> wpc[v] = "add"
          /\ \A v \in Workers : wpc[v] = "add" => hand'[v] = hand[v]
      BY <1>0, <3>1, <3>2
    <3> QED BY <3>1, <3>3, AccountedSame
  <2>2. CASE ~BatchDone(w)
    BY <1>1, <1>3, <2>2 DEF Flushing, Fire, TimeoutFlush, WriteToPlugin, submission, channel
  <2> QED BY <2>1, <2>2
<1>4. ASSUME NEW k \in Keys, Expire(k) PROVE Accounted'
  BY <1>1, <1>4 DEF Expire, channel, workers
<1>5. ASSUME Shutdown PROVE Accounted'
  BY <1>1, <1>5 DEF Shutdown, CloseInput, ReturnDrained, ReturnTimeout, submission, channel, workers
<1>6. ASSUME UNCHANGED vars PROVE Accounted'
  BY <1>1, <1>6 DEF vars
<1> QED
  BY <1>2, <1>3, <1>4, <1>5, <1>6, AccountedSubmit DEF Next, Stopped

-----------------------------------------------------------------------------
(* The end of the channel and of the workers *)

Draining ==
    /\ closed <=> shutdown # "no"
    /\ cancelled <=> shutdown = "timeout"
    /\ closed => sendq = <<>>
    /\ \A w \in Workers :
          wpc[w] \in {"flush", "exited"} => cancelled \/ (closed /\ queue = <<>>)

LEMMA DrainingInit == Init => Draining
<1> SUFFICES ASSUME Init PROVE Draining
  OBVIOUS
<1>1. \A w \in Workers : wpc[w] = "select"
  BY DEF Init
<1>2. ~closed /\ ~cancelled /\ shutdown = "no"
  BY DEF Init
<1> QED
  BY <1>1, <1>2 DEF Draining

LEMMA DrainingNext ==
    ASSUME Shapes, Draining, [Next]_vars
    PROVE  Draining'
<1>0. wpc \in [Workers -> {"select", "add", "added", "flush", "exited"}]
  BY DEF Shapes, WorkersShape
<1>1. ASSUME UNCHANGED <<closed, cancelled, shutdown, sendq, queue>>,
             \A w \in Workers : wpc'[w] \in {"flush", "exited"} => wpc[w] \in {"flush", "exited"}
      PROVE  Draining'
  BY <1>1 DEF Draining
<1>2. ASSUME NEW e \in Events, Submit(e) PROVE Draining'
  <2>1. UNCHANGED <<closed, cancelled, shutdown, wpc>>
    BY <1>2 DEF Submit, CheckDuplicate, Mark, TrySend, BlockingSend, WokenByClose, CountReceived,
                channel, lifecycle, workers
  <2>2. UNCHANGED <<sendq, queue>> \/ ~closed
    BY <1>2 DEF Submit, CheckDuplicate, Mark, TrySend, BlockingSend, WokenByClose, CountReceived, channel
  <2> QED BY <2>1, <2>2 DEF Draining
<1>3. ASSUME NEW w \in Workers, Worker(w) PROVE Draining'
  <2>1. UNCHANGED <<closed, cancelled, shutdown>>
    BY <1>3 DEF Worker, Receive, StopReceiving, AddAppend, AddReturn, AddFlush, FinalFlush,
                channel, lifecycle
  <2>2. CASE Receive(w)
    <3>1. /\ queue # <<>> /\ wpc' = [wpc EXCEPT ![w] = "add"]
          /\ sendq = <<>> => sendq' = <<>>
      BY <2>2 DEF Receive
    <3> QED BY <1>0, <2>1, <3>1 DEF Draining
  <2>3. CASE StopReceiving(w)
    <3>1. /\ (closed /\ queue = <<>>) \/ cancelled
          /\ wpc' = [wpc EXCEPT ![w] = "flush"] /\ UNCHANGED <<queue, sendq>>
      BY <2>3 DEF StopReceiving, InputEnded, channel
    <3> QED BY <1>0, <2>1, <3>1 DEF Draining
  <2>4. CASE AddAppend(w) \/ AddReturn(w) \/ AddFlush(w) \/ FinalFlush(w)
    <3>1. /\ UNCHANGED <<queue, sendq>>
          /\ \A v \in Workers : wpc'[v] \in {"flush", "exited"} => wpc[v] \in {"flush", "exited"}
      <4>1. CASE AddAppend(w)
        BY <1>0, <4>1 DEF AddAppend, channel
      <4>2. CASE AddReturn(w)
        BY <1>0, <4>2 DEF AddReturn, channel
      <4>3. CASE AddFlush(w)
        BY <1>0, <4>3 DEF AddFlush, channel
      <4>4. CASE FinalFlush(w)
        BY <1>0, <4>4 DEF FinalFlush, channel
      <4> QED BY <2>4, <4>1, <4>2, <4>3, <4>4
    <3> QED BY <1>1, <2>1, <3>1
  <2> QED BY <1>3, <2>2, <2>3, <2>4 DEF Worker
<1>4. ASSUME NEW w \in Workers, Flushing(w) PROVE Draining'
  <2>1. UNCHANGED <<closed, cancelled, shutdown, sendq, queue>>
    BY <1>4 DEF Flushing, Fire, TimeoutFlush, WriteToPlugin, BatchDone, channel, lifecycle
  <2>2. \A v \in Workers : wpc'[v] \in {"flush", "exited"} => wpc[v] \in {"flush", "exited"}
    <3>1. CASE BatchDone(w)
      BY <1>0, <3>1 DEF BatchDone
    <3>2. CASE ~BatchDone(w)
      BY <1>4, <3>2 DEF Flushing, Fire, TimeoutFlush, WriteToPlugin
    <3> QED BY <3>1, <3>2
  <2> QED BY <1>1, <2>1, <2>2
<1>5. ASSUME NEW k \in Keys, Expire(k) PROVE Draining'
  BY <1>1, <1>5 DEF Expire, channel, lifecycle, workers
<1>6. ASSUME Shutdown PROVE Draining'
  <2>1. CASE CloseInput
    BY <2>1 DEF CloseInput, Draining, workers
  <2>2. CASE ReturnDrained
    BY <2>2 DEF ReturnDrained, Draining, channel, workers
  <2>3. CASE ReturnTimeout
    BY <2>3 DEF ReturnTimeout, Draining, channel, workers
  <2> QED BY <1>6, <2>1, <2>2, <2>3 DEF Shutdown
<1>7. ASSUME UNCHANGED vars PROVE Draining'
  BY <1>1, <1>7 DEF vars
<1> QED
  BY <1>2, <1>3, <1>4, <1>5, <1>6, <1>7 DEF Next, Stopped

-----------------------------------------------------------------------------
(* The invariant, and what follows from it *)

IInv == Shapes /\ Accounted /\ Draining /\ \A w \in Workers : Batching(w)

\* The strengthening under the theorems below: the shapes, where each event is,
\* how far the channel is drained, and what each batcher holds.
THEOREM Invariance == Spec => []IInv
<1>1. Init => IInv
  BY ShapesInit, AccountedInit, DrainingInit, BatchingInit DEF IInv
<1>2. IInv /\ [Next]_vars => IInv'
  BY ShapesNext, AccountedNext, DrainingNext, BatchingNext DEF IInv
<1> QED
  BY <1>1, <1>2, PTL DEF Spec

\* Between the handlers and the batchers no event is lost, doubled or taken by
\* two workers, for any number of handlers, workers and places in the channel.
THEOREM NothingLostOnTheWay == Spec => []Conservation
<1>1. IInv => Conservation
  BY DEF IInv, Accounted
<1> QED
  BY <1>1, Invariance, PTL

\* A batch about to be counted is part of what was accepted, holds nothing that
\* was handled before, and is not larger than a full batch.
LEMMA HandleStep ==
    ASSUME IInv, NEW w \in Workers, BatchDone(w)
    PROVE  \E S \in SUBSET Events : L!Handle(S)
<1>1. /\ added[w] \in Seq(Events) /\ written[w] \in Seq(Events) /\ DOMAIN written = Workers
      /\ batcher[w].batch \in Seq(Events) /\ batcher[w].events \in Seq(Events)
      /\ \A v \in Workers : written[v] \in Seq(Events) /\ batcher[v].batch \in Seq(Events)
                          /\ batcher[v].events \in Seq(Events)
  BY DEF IInv, Shapes, WorkersShape, BatcherShape
<1>2. /\ batcher[w].batch # <<>> /\ written' = [written EXCEPT ![w] = @ \o batcher[w].batch]
      /\ UNCHANGED <<accepted, shutdown>>
  BY DEF BatchDone, channel, lifecycle
<1> DEFINE S == Elements(batcher[w].batch)
<1>3. S # {} /\ S \subseteq Events /\ Cardinality(S) <= Limit
  <2>1. S # {} /\ S \subseteq Events
    BY <1>1, <1>2, ElementsEmpty, ElementsSubset
  <2>2. IsFiniteSet(S) /\ Cardinality(S) <= Len(batcher[w].batch)
    BY <1>1, ElementsBounded
  <2>3. Cardinality(S) \in Nat
    BY <2>2, FS_CardinalityType
  <2>4. Len(batcher[w].batch) \in Nat
    BY <1>1, SequenceFacts
  <2>5. Len(batcher[w].batch) <= Limit
    BY DEF IInv, Batching
  <2> QED BY <2>1, <2>2, <2>3, <2>4, <2>5, LimitFact
<1>4. \A v \in Workers : Elements(written[v]) \cup Elements(batcher[v].batch) \subseteq Elements(added[v])
  <2> TAKE v \in Workers
  <2>0. written[v] \o batcher[v].batch \in Seq(Events)
    BY <1>1
  <2>1. PICK s \in Seq(Events) : s = written[v] \o batcher[v].batch
    BY <2>0, Zenon
  <2>2. added[v] = s \o batcher[v].events
    BY <2>1 DEF IInv, Batching
  <2>3. Elements(s) = Elements(written[v]) \cup Elements(batcher[v].batch)
    BY <1>1, <2>1, ElementsConcat
  <2>4. Elements(s \o batcher[v].events) = Elements(s) \cup Elements(batcher[v].events)
    BY <1>1, ElementsConcat
  <2> QED BY <2>2, <2>3, <2>4
<1>5. S \cap Elements(written[w]) = {}
  <2>0. written[w] \o batcher[w].batch \in Seq(Events)
    BY <1>1
  <2>1. PICK s \in Seq(Events) : s = written[w] \o batcher[w].batch
    BY <2>0, Zenon
  <2>2. NoRepeats(added[w]) /\ added[w] = s \o batcher[w].events
    BY <2>1 DEF IInv, Accounted, Conservation, Batching
  <2>3. NoRepeats(s)
    BY <1>1, <2>2, NoRepeatsConcat
  <2> QED BY <1>1, <2>1, <2>3, NoRepeatsConcat
<1>6. \A v \in Workers : S \cap Elements(written[v]) = {}
  <2> TAKE v \in Workers
  <2>1. CASE v = w
    BY <1>5, <2>1
  <2>2. CASE v # w
    BY <1>4, <2>2 DEF IInv, Accounted, Conservation, Taken
  <2> QED BY <2>1, <2>2
<1>7. S \subseteq Elements(accepted)
  BY <1>4 DEF IInv, Accounted, Conservation, Taken
<1>8. Handled' = Handled \cup S
  <2>1. Elements(written'[w]) = Elements(written[w]) \cup S
    BY <1>1, <1>2, ElementsConcat
  <2>2. \A v \in Workers \ {w} : written'[v] = written[v]
    BY <1>1, <1>2
  <2> HIDE DEF S
  <2> QED BY <2>1, <2>2 DEF Handled
<1>9. S \cap Handled = {}
  BY <1>6 DEF Handled
<1> HIDE DEF S
<1>10. L!Cardinality(S) <= Limit
  BY <1>3 DEF L!Cardinality, Cardinality
<1>11. L!Handle(S)
  BY <1>2, <1>3, <1>7, <1>8, <1>9, <1>10 DEF L!Handle, Phase
<1> QED
  BY <1>3, <1>11

\* When all workers have exited and nothing was cancelled, everything is handled.
LEMMA DrainStep ==
    ASSUME IInv, ReturnDrained
    PROVE  L!Drain
<1>1. /\ shutdown = "waiting" /\ shutdown' = "nil" /\ AllExited
      /\ UNCHANGED <<accepted, written>>
  BY DEF ReturnDrained, channel, workers
<1>2. queue = <<>>
  BY <1>1, ProcessorAssumption DEF IInv, Draining, AllExited
<1>3. ASSUME NEW w \in Workers PROVE Taken(w) = Elements(written[w])
  <2>1. /\ wpc[w] = "exited" /\ batcher[w].batch = <<>> /\ batcher[w].events = <<>>
        /\ added[w] = written[w] \o <<>> \o <<>>
    BY <1>1 DEF AllExited, IInv, Batching
  <2>2. written[w] \in Seq(Events)
    BY DEF IInv, Shapes, WorkersShape
  <2>3. added[w] = written[w]
    BY <2>1, <2>2
  <2> QED BY <2>1, <2>3 DEF Taken
<1>4. Elements(accepted) = Handled
  BY <1>2, <1>3, NoRepeatsEmpty DEF IInv, Accounted, Conservation, Handled
<1> QED
  BY <1>1, <1>4 DEF L!Drain, Phase, Handled

\* An event enters the channel only while the processor is open.
LEMMA AcceptStep ==
    ASSUME IInv, NEW e \in Events, ~closed, accepted' = Append(accepted, e),
           sub[e] \in {"send", "full", "parked"}, UNCHANGED <<written, shutdown>>
    PROVE  L!Accept(e)
<1>1. Elements(accepted') = Elements(accepted) \cup {e}
  BY ElementsAppend DEF IInv, Shapes, ChannelShape
<1>2. e \notin Elements(accepted) /\ shutdown = "no"
  BY DEF IInv, Accounted, Draining
<1> QED
  BY <1>1, <1>2 DEF L!Accept, Phase, Handled

\* The processor keeps the ledger: it accepts only while open and each event
\* once, handles only what it accepted and nothing twice, in batches within the
\* limit, and its Shutdown returns nil only when all is handled.
THEOREM KeepsLedger == Spec => ImplementsLedger
<1>1. Init => L!Init
  <2> SUFFICES ASSUME Init PROVE L!Init
    OBVIOUS
  <2>1. accepted = <<>> /\ shutdown = "no" /\ \A w \in Workers : written[w] = <<>>
    BY DEF Init
  <2>2. Handled = {}
    BY <2>1, NoRepeatsEmpty DEF Handled
  <2> QED BY <2>1, <2>2, NoRepeatsEmpty DEF L!Init, Phase
<1>2. IInv /\ [Next]_vars => [L!Next]_(L!vars)
  <2> SUFFICES ASSUME IInv, [Next]_vars PROVE L!Next \/ UNCHANGED L!vars
    OBVIOUS
  <2>1. ASSUME UNCHANGED <<accepted, written, shutdown>> PROVE UNCHANGED L!vars
    BY <2>1 DEF L!vars, Handled, Phase
  <2>2. ASSUME NEW e \in Events, L!Accept(e) PROVE L!Next
    BY <2>2 DEF L!Next
  <2>3. ASSUME NEW e \in Events, Submit(e) PROVE L!Next \/ UNCHANGED L!vars
    <3>1. \/ UNCHANGED <<accepted, written, shutdown>>
          \/ /\ ~closed /\ accepted' = Append(accepted, e) /\ sub[e] \in {"send", "full"}
             /\ UNCHANGED <<written, shutdown>>
      BY <2>3 DEF Submit, CheckDuplicate, Mark, TrySend, BlockingSend, Enqueue, WokenByClose,
                  CountReceived, channel, workers, lifecycle
    <3> QED BY <2>1, <2>2, <3>1, AcceptStep
  <2>4. ASSUME NEW w \in Workers, Worker(w) PROVE L!Next \/ UNCHANGED L!vars
    <3>1. CASE Receive(w) /\ sendq # <<>>
      <4>1. Head(sendq) \in Events /\ Head(sendq) \in Elements(sendq)
        BY <3>1, ElementsTail DEF IInv, Shapes, ChannelShape
      <4>2. sub[Head(sendq)] = "parked" /\ ~closed
        BY <3>1, <4>1 DEF IInv, Accounted, Draining
      <4>3. accepted' = Append(accepted, Head(sendq)) /\ UNCHANGED <<written, shutdown>>
        BY <3>1 DEF Receive, lifecycle
      <4> QED BY <2>2, <4>1, <4>2, <4>3, AcceptStep
    <3>2. CASE ~(Receive(w) /\ sendq # <<>>)
      <4>1. UNCHANGED <<accepted, written, shutdown>>
        BY <2>4, <3>2 DEF Worker, Receive, StopReceiving, AddAppend, AddReturn, AddFlush, FinalFlush,
                          channel, lifecycle
      <4> QED BY <2>1, <4>1
    <3> QED BY <3>1, <3>2
  <2>5. ASSUME NEW w \in Workers, Flushing(w) PROVE L!Next \/ UNCHANGED L!vars
    <3>1. CASE BatchDone(w)
      BY <3>1, HandleStep DEF L!Next
    <3>2. CASE ~BatchDone(w)
      BY <2>1, <2>5, <3>2 DEF Flushing, Fire, TimeoutFlush, WriteToPlugin, channel, lifecycle
    <3> QED BY <3>1, <3>2
  <2>6. ASSUME NEW k \in Keys, Expire(k) PROVE UNCHANGED L!vars
    BY <2>1, <2>6 DEF Expire, channel, workers, lifecycle
  <2>7. ASSUME Shutdown PROVE L!Next
    <3>1. CASE CloseInput
      BY <3>1 DEF CloseInput, workers, L!Next, L!Close, Phase, Handled
    <3>2. CASE ReturnDrained
      BY <3>2, DrainStep DEF L!Next
    <3>3. CASE ReturnTimeout
      BY <3>3 DEF ReturnTimeout, channel, workers, L!Next, L!Abort, Phase, Handled
    <3> QED BY <2>7, <3>1, <3>2, <3>3 DEF Shutdown
  <2>8. ASSUME UNCHANGED vars PROVE UNCHANGED L!vars
    BY <2>1, <2>8 DEF vars
  <2> QED
    BY <2>3, <2>4, <2>5, <2>6, <2>7, <2>8 DEF Next, Stopped
<1> QED
  BY <1>1, <1>2, Invariance, PTL DEF Spec, ImplementsLedger, L!Spec

-----------------------------------------------------------------------------
(* The batchers of the workers are batchers.                                *)

\* What module Batcher has of worker w, beside its batcher.
Calling(w) == <<wpc[w], hand[w], added[w], written[w]>>

LEMMA CallSame ==
    ASSUME NEW w \in Workers, UNCHANGED Calling(w)
    PROVE  /\ UNCHANGED <<added[w], written[w], Taken(w), wpc[w], hand[w]>>
           /\ UNCHANGED [c \in {w} |-> IF wpc[c] \in {"select", "exited"} THEN "idle" ELSE wpc[c]]
           /\ UNCHANGED [c \in {w} |-> hand[c]]
BY DEF Calling, Taken

LEMMA BatcherSame ==
    ASSUME NEW w \in Workers, UNCHANGED Calling(w), UNCHANGED batcher[w]
    PROVE  UNCHANGED B(w)!vars
BY CallSame DEF B!vars

LEMMA OthersSame ==
    ASSUME IInv, NEW v \in Workers, NEW w \in Workers \ {v}, Worker(v) \/ Flushing(v)
    PROVE  UNCHANGED B(w)!vars
<1>1. UNCHANGED <<wpc[w], hand[w], added[w], written[w], batcher[w]>>
  <2>1. CASE Worker(v)
    BY <2>1 DEF Worker, Receive, StopReceiving, AddAppend, AddReturn, AddFlush, FinalFlush,
                StartFlush, IInv, Shapes, WorkersShape
  <2>2. CASE Flushing(v)
    BY <2>2 DEF Flushing, Fire, TimeoutFlush, WriteToPlugin, BatchDone, IInv, Shapes, WorkersShape
  <2> QED BY <2>1, <2>2
<1> QED
  BY <1>1, BatcherSame DEF Calling

LEMMA ReceiveCalls ==
    ASSUME IInv, NEW w \in Workers, Receive(w)
    PROVE  B(w)!Next
<1>0. Head(queue) \in Events /\ Head(queue) \in Elements(queue)
  BY ElementsTail DEF Receive, IInv, Shapes, ChannelShape
<1>1. PICK e \in Elements(queue) \cap Events : e = Head(queue)
  BY <1>0
<1>2. /\ wpc[w] = "select" /\ wpc'[w] = "add" /\ hand'[w] = e
      /\ UNCHANGED <<batcher, added, written>>
  BY <1>1 DEF Receive, IInv, Shapes, WorkersShape
<1>3. Taken(w)' = Taken(w) \cup {e} /\ e \notin Taken(w)
  <2>1. Elements(queue) \cap Taken(w) = {}
    BY DEF IInv, Accounted, Conservation
  <2> QED BY <1>1, <1>2, <2>1 DEF Taken
<1>4. B(w)!AddCall(w, e)
  BY <1>1, <1>2, <1>3 DEF B!AddCall
<1> QED
  BY <1>1, <1>4 DEF B!Next, B!CallerStep

LEMMA WorkerCalls ==
    ASSUME IInv, NEW w \in Workers, Worker(w)
    PROVE  B(w)!Next
<1>0. /\ wpc \in [Workers -> {"select", "add", "added", "flush", "exited"}]
      /\ hand \in [Workers -> Events \cup {None}] /\ DOMAIN batcher = Workers
      /\ wpc[w] = "add" => hand[w] \in Events
      /\ BatcherShape(batcher[w], w)
      /\ added \in [Workers -> Seq(Events)] /\ written \in [Workers -> Seq(Events)]
  BY DEF IInv, Shapes, WorkersShape
<1>1. CASE Receive(w)
  BY <1>1, ReceiveCalls
<1>2. CASE StopReceiving(w)
  <2>1. /\ wpc[w] = "select" /\ wpc'[w] = "flush"
        /\ UNCHANGED <<hand, batcher, added, written>>
    BY <1>0, <1>2 DEF StopReceiving
  <2>2. UNCHANGED Taken(w)
    BY <2>1 DEF Taken
  <2>3. B(w)!FlushCall(w)
    BY <2>1, <2>2 DEF B!FlushCall, B!buffer, B!history
  <2> QED BY <2>3 DEF B!Next, B!CallerStep
<1>3. CASE AddAppend(w)
  <2> DEFINE b == batcher[w]
             e == hand[w]
  <2>1. /\ wpc[w] = "add" /\ wpc'[w] = "added" /\ b.lock = None
        /\ UNCHANGED <<hand, written>> /\ added'[w] = Append(added[w], e)
        /\ batcher'[w] = [b EXCEPT !.lock = w, !.events = Append(@, e),
                        !.timer = IF NeedsTimer(b.events) THEN e ELSE @,
                        !.armed = IF NeedsTimer(b.events) THEN @ \cup {e} ELSE @]
    BY <1>0, <1>3 DEF AddAppend, Unlocked
  <2>2. /\ batcher'[w].lock = w /\ batcher'[w].events = Append(b.events, e)
        /\ batcher'[w].timer = IF NeedsTimer(b.events) THEN e ELSE b.timer
        /\ batcher'[w].armed = IF NeedsTimer(b.events) THEN b.armed \cup {e} ELSE b.armed
        /\ batcher'[w].batch = b.batch /\ batcher'[w].waiting = b.waiting
    BY <1>0, <2>1 DEF BatcherShape
  <2>3. NeedsTimer(b.events) <=> Len(Append(b.events, e)) = 1
    BY <1>0, <2>1 DEF NeedsTimer, BatcherShape
  <2>4. UNCHANGED Taken(w)
    BY <1>0, <2>1, ElementsAppend DEF Taken
  <2>5. B(w)!AddAppend(w)
    BY <2>1, <2>2, <2>3, <2>4 DEF B!AddAppend, B!NeedsTimer
  <2> QED BY <2>5 DEF B!Next, B!CallerStep
<1>4. CASE AddReturn(w)
  <2> DEFINE b == batcher[w]
  <2>1. /\ wpc[w] = "added" /\ wpc'[w] = "select" /\ b.lock = w /\ b.batch = <<>>
        /\ Len(b.events) < BatchSize
        /\ UNCHANGED <<added, written>> /\ hand'[w] = None
        /\ batcher'[w] = [b EXCEPT !.lock = None]
    BY <1>0, <1>4 DEF AddReturn, Released
  <2>2. /\ batcher'[w].lock = None /\ batcher'[w].events = b.events
        /\ batcher'[w].timer = b.timer /\ batcher'[w].armed = b.armed
        /\ batcher'[w].batch = b.batch /\ batcher'[w].waiting = b.waiting
    BY <1>0, <2>1 DEF BatcherShape
  <2>3. UNCHANGED Taken(w)
    BY <2>1 DEF Taken
  <2>4. ~(Len(b.events) >= BatchSize)
    BY <1>0, <2>1, ProcessorAssumption DEF BatcherShape
  <2>5. B(w)!AddReturn(w)
    BY <2>1, <2>2, <2>3, <2>4 DEF B!AddReturn, B!SizeReached, B!Unlock
  <2> QED BY <2>5 DEF B!Next, B!CallerStep
<1>5. CASE AddFlush(w)
  <2> DEFINE b == batcher[w]
  <2>1. /\ wpc[w] = "added" /\ b.lock = w /\ b.batch = <<>>
        /\ Len(b.events) >= BatchSize
        /\ UNCHANGED <<wpc, hand, added, written>>
        /\ batcher'[w] = Flushed(b, w)
    BY <1>0, <1>5 DEF AddFlush, StartFlush
  <2>2. B(w)!StartFlush(w) /\ UNCHANGED batcher[w].waiting
    BY <1>0, <2>1 DEF Flushed, BatcherShape, B!StartFlush
  <2>3. UNCHANGED Taken(w)
    BY <2>1 DEF Taken
  <2>4. B(w)!AddFlush(w)
    BY <2>1, <2>2, <2>3 DEF B!AddFlush, B!SizeReached
  <2> QED BY <2>4 DEF B!Next, B!CallerStep
<1>6. CASE FinalFlush(w)
  <2> DEFINE b == batcher[w]
  <2>1. /\ wpc[w] = "flush" /\ b.lock = None
        /\ UNCHANGED <<hand, added, written>>
        /\ \/ b.events = <<>> /\ wpc'[w] = "exited" /\ UNCHANGED batcher
           \/ b.events # <<>> /\ UNCHANGED wpc /\ batcher'[w] = Flushed(b, w)
    BY <1>0, <1>6 DEF FinalFlush, StartFlush, Unlocked
  <2>2. UNCHANGED Taken(w)
    BY <2>1 DEF Taken
  <2>3. CASE b.events = <<>>
    <3>1. B(w)!FlushLock(w)
      BY <2>1, <2>2, <2>3 DEF B!FlushLock, B!history
    <3> QED BY <3>1 DEF B!Next, B!CallerStep
  <2>4. CASE b.events # <<>>
    <3>1. B(w)!StartFlush(w) /\ UNCHANGED batcher[w].waiting
      BY <1>0, <2>1, <2>4 DEF Flushed, BatcherShape, B!StartFlush
    <3>2. B(w)!FlushLock(w)
      BY <2>1, <2>2, <2>4, <3>1 DEF B!FlushLock, B!history
    <3> QED BY <3>2 DEF B!Next, B!CallerStep
  <2> QED BY <2>3, <2>4
<1> QED
  BY <1>1, <1>2, <1>3, <1>4, <1>5, <1>6 DEF Worker

LEMMA FlushingCalls ==
    ASSUME IInv, NEW w \in Workers, Flushing(w)
    PROVE  B(w)!Next \/ UNCHANGED B(w)!vars
<1> DEFINE b == batcher[w]
<1>0. /\ wpc \in [Workers -> {"select", "add", "added", "flush", "exited"}]
      /\ hand \in [Workers -> Events \cup {None}] /\ DOMAIN batcher = Workers
      /\ BatcherShape(batcher[w], w)
      /\ added \in [Workers -> Seq(Events)] /\ written \in [Workers -> Seq(Events)]
  BY DEF IInv, Shapes, WorkersShape
<1>1. ASSUME NEW e \in Events, Fire(w, e) PROVE B(w)!Next
  <2>1. /\ e \in b.armed /\ UNCHANGED <<wpc, hand, added, written>>
        /\ batcher'[w] = [b EXCEPT !.armed = @ \ {e}, !.waiting = @ \cup {e}]
    BY <1>0, <1>1 DEF Fire
  <2>2. /\ batcher'[w].armed = b.armed \ {e} /\ batcher'[w].waiting = b.waiting \cup {e}
        /\ batcher'[w].events = b.events /\ batcher'[w].timer = b.timer
        /\ batcher'[w].lock = b.lock /\ batcher'[w].batch = b.batch
    BY <1>0, <2>1 DEF BatcherShape
  <2>3. UNCHANGED Taken(w)
    BY <2>1 DEF Taken
  <2>4. B(w)!Fire(e)
    BY <2>1, <2>2, <2>3 DEF B!Fire, B!history
  <2> QED BY <2>4 DEF B!Next, B!TimerStep
<1>2. ASSUME NEW e \in Events, TimeoutFlush(w, e) PROVE B(w)!Next
  <2> DEFINE d == [b EXCEPT !.waiting = @ \ {e}]
  <2>1. /\ e \in b.waiting /\ b.lock = None /\ UNCHANGED <<wpc, hand, added, written>>
        /\ \/ b.events = <<>> /\ batcher'[w] = d
           \/ b.events # <<>> /\ batcher'[w] = Flushed(d, e)
    BY <1>0, <1>2 DEF TimeoutFlush, Unlocked, BatcherShape
  <2>2. UNCHANGED Taken(w)
    BY <2>1 DEF Taken
  <2>3. CASE b.events = <<>>
    <3>1. /\ batcher'[w].waiting = b.waiting \ {e} /\ batcher'[w].armed = b.armed
          /\ batcher'[w].events = b.events /\ batcher'[w].timer = b.timer
          /\ batcher'[w].lock = b.lock /\ batcher'[w].batch = b.batch
      BY <1>0, <2>1, <2>3 DEF BatcherShape
    <3>2. B(w)!TimeoutFlush(e)
      BY <2>1, <2>2, <2>3, <3>1 DEF B!TimeoutFlush, B!history
    <3> QED BY <3>2 DEF B!Next, B!TimerStep
  <2>4. CASE b.events # <<>>
    <3>1. B(w)!StartFlush(e) /\ batcher'[w].waiting = b.waiting \ {e}
      BY <1>0, <2>1, <2>4 DEF Flushed, BatcherShape, B!StartFlush
    <3>2. B(w)!TimeoutFlush(e)
      BY <2>1, <2>2, <2>4, <3>1 DEF B!TimeoutFlush, B!history
    <3> QED BY <3>2 DEF B!Next, B!TimerStep
  <2> QED BY <2>3, <2>4
<1>3. ASSUME NEW p \in Plugins, WriteToPlugin(w, p) PROVE UNCHANGED B(w)!vars
  BY <1>3, BatcherSame DEF WriteToPlugin, Calling
<1>4. ASSUME BatchDone(w) PROVE B(w)!Next
  <2>1. /\ b.batch # <<>> /\ written'[w] = written[w] \o b.batch /\ UNCHANGED added
        /\ batcher'[w] = [b EXCEPT !.batch = <<>>, !.lock = None]
        /\ IF b.lock = w
           THEN wpc'[w] = (IF wpc[w] = "flush" THEN "exited" ELSE "select") /\ hand'[w] = None
           ELSE UNCHANGED <<wpc, hand>>
    BY <1>0, <1>4 DEF BatchDone, Released, BatcherShape
  <2>2. /\ batcher'[w].batch = <<>> /\ batcher'[w].lock = None
        /\ batcher'[w].events = b.events /\ batcher'[w].timer = b.timer
        /\ batcher'[w].armed = b.armed /\ batcher'[w].waiting = b.waiting
    BY <1>0, <2>1 DEF BatcherShape
  <2>3. PICK t \in Events \cup {w} : b.lock = t /\ (t = w => wpc[w] \in {"added", "flush"})
    BY <1>0, <2>1 DEF IInv, Batching, BatcherShape
  <2>4. UNCHANGED Taken(w)
    BY <2>1, <2>3 DEF Taken
  <2>5. B(w)!FlushReturn(t)
    BY <2>1, <2>2, <2>3, <2>4 DEF B!FlushReturn, B!Unlock
  <2> QED BY <2>5 DEF B!Next, B!Threads
<1> QED
  BY <1>1, <1>2, <1>3, <1>4 DEF Flushing

\* Every worker's batcher is the one of module Batcher, so what BatcherProofs
\* proves of it for every size, order of timers and pause of flushFunc holds of
\* each batcher of the pool, whatever the channel and the other workers do.
THEOREM WorkersBatch == Spec => WorkersUseBatcher
<1>1. Init => \A w \in Workers : B(w)!Init
  <2> SUFFICES ASSUME Init, NEW w \in Workers PROVE B(w)!Init
    OBVIOUS
  <2>1. Taken(w) = {}
    BY NoRepeatsEmpty DEF Init, Taken
  <2> QED BY <2>1 DEF Init, B!Init
<1>2. IInv /\ [Next]_vars => [\A w \in Workers : B(w)!Next \/ UNCHANGED B(w)!vars]_vars
  <2> SUFFICES ASSUME IInv, Next, NEW w \in Workers PROVE B(w)!Next \/ UNCHANGED B(w)!vars
    OBVIOUS
  <2>1. ASSUME NEW v \in Workers, Worker(v) \/ Flushing(v)
        PROVE  B(w)!Next \/ UNCHANGED B(w)!vars
    <3>1. CASE v = w
      BY <2>1, <3>1, WorkerCalls, FlushingCalls
    <3>2. CASE v # w
      BY <2>1, <3>2, OthersSame
    <3> QED BY <3>1, <3>2
  <2>2. ASSUME UNCHANGED workers PROVE UNCHANGED B(w)!vars
    BY <2>2, BatcherSame DEF workers, Calling
  <2>3. (\E e \in Events : Submit(e)) \/ (\E k \in Keys : Expire(k)) \/ Shutdown => UNCHANGED workers
    <3>1. ASSUME NEW e \in Events, Submit(e) PROVE UNCHANGED workers
      BY <3>1, Zenon DEF Submit, CheckDuplicate, Mark, TrySend, BlockingSend, WokenByClose, CountReceived
    <3>2. ASSUME NEW k \in Keys, Expire(k) PROVE UNCHANGED workers
      BY <3>2, Zenon DEF Expire
    <3>3. ASSUME Shutdown PROVE UNCHANGED workers
      BY <3>3, Zenon DEF Shutdown, CloseInput, ReturnDrained, ReturnTimeout
    <3> QED BY <3>1, <3>2, <3>3
  <2>4. Stopped => UNCHANGED workers
    BY DEF Stopped, vars, workers
  <2> QED
    BY <2>1, <2>2, <2>3, <2>4 DEF Next
<1> QED
  BY <1>1, <1>2, Invariance, PTL DEF Spec, WorkersUseBatcher
=============================================================================
