----------------------------- MODULE BatchStream -----------------------------
(***************************************************************************)
(* What a batcher promises to its caller, without the mutex, the timer and *)
(* the goroutines that keep the promise: a stream of accepted events is    *)
(* cut into contiguous batches of at most Limit events; one batch at a     *)
(* time is with the consumer, and while it is, no event is accepted.       *)
(***************************************************************************)
EXTENDS Naturals, Sequences

CONSTANTS Events,   \* the events that may be accepted
          Limit     \* the largest batch, a positive number

VARIABLES accepted,   \* every event accepted so far, in order
          inflight,   \* the batch the consumer is working on, <<>> if none
          done        \* every event the consumer has finished with, in order

vars == <<accepted, inflight, done>>

Init == accepted = <<>> /\ inflight = <<>> /\ done = <<>>

Accept(e) ==
    /\ inflight = <<>>
    /\ Len(accepted) - Len(done) < Limit
    /\ accepted' = Append(accepted, e)
    /\ UNCHANGED <<inflight, done>>

\* The consumer is handed everything accepted that it has not seen.
Emit ==
    /\ inflight = <<>>
    /\ Len(done) < Len(accepted)
    /\ inflight' = SubSeq(accepted, Len(done) + 1, Len(accepted))
    /\ UNCHANGED <<accepted, done>>

Complete ==
    /\ inflight # <<>>
    /\ done' = done \o inflight
    /\ inflight' = <<>>
    /\ UNCHANGED accepted

Next == (\E e \in Events : Accept(e)) \/ Emit \/ Complete

Spec == Init /\ [][Next]_vars

\* Whatever is accepted is emitted, and whatever is emitted is completed.
FairSpec == Spec /\ WF_vars(Emit) /\ WF_vars(Complete)
=============================================================================
