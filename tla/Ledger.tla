------------------------------- MODULE Ledger --------------------------------
(***************************************************************************)
(* What a processor promises to the service in front of it: an event is    *)
(* accepted at most once and only while the processor is open, every       *)
(* accepted event is handled (offered to every storage plugin) at most     *)
(* once, in batches, and Shutdown returns nil only when nothing accepted   *)
(* is left to handle.  A shutdown that times out promises nothing.         *)
(***************************************************************************)
EXTENDS FiniteSets, Naturals

CONSTANTS Events, Limit

VARIABLES accepted, handled, phase

vars == <<accepted, handled, phase>>

Init == accepted = {} /\ handled = {} /\ phase = "open"

Accept(e) ==
    /\ phase = "open" /\ e \notin accepted
    /\ accepted' = accepted \cup {e}
    /\ UNCHANGED <<handled, phase>>

Handle(S) ==
    /\ S # {} /\ S \subseteq accepted \ handled /\ Cardinality(S) <= Limit
    /\ handled' = handled \cup S
    /\ UNCHANGED <<accepted, phase>>

Close == phase = "open" /\ phase' = "closed" /\ UNCHANGED <<accepted, handled>>

Drain ==
    /\ phase = "closed" /\ handled = accepted
    /\ phase' = "drained"
    /\ UNCHANGED <<accepted, handled>>

Abort == phase = "closed" /\ phase' = "aborted" /\ UNCHANGED <<accepted, handled>>

Next ==
    \/ \E e \in Events : Accept(e)
    \/ \E S \in SUBSET Events : Handle(S)
    \/ Close \/ Drain \/ Abort

Spec == Init /\ [][Next]_vars
=============================================================================
