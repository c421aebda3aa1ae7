------------------------------ MODULE SeenWindow -------------------------------
(***************************************************************************)
(* What a deduplicator promises: a key marked at most TTL ago is reported  *)
(* as a duplicate, one marked more than TTL + Slack ago (or never) is not, *)
(* and in between either answer will do.  A call may also fail and give no *)
(* answer.  Nothing is promised once the deduplicator is being closed.     *)
(***************************************************************************)
EXTENDS Naturals

CONSTANTS Keys, TTL, Slack, None

VARIABLES now, lastMark, open, answer

vars == <<now, lastMark, open, answer>>

Init == now = 0 /\ lastMark = [k \in Keys |-> None] /\ open = TRUE /\ answer = None

Age(k) == now - lastMark[k]
Fresh(k) == lastMark[k] # None /\ Age(k) <= TTL
Stale(k) == lastMark[k] = None \/ Age(k) > TTL + Slack

Pass == now' = now + 1 /\ answer' = None /\ UNCHANGED <<lastMark, open>>

Mark(k) ==
    /\ lastMark' = [lastMark EXCEPT ![k] = now]
    /\ answer' = None /\ UNCHANGED <<now, open>>

Answer(k, dup) ==
    /\ open => (Fresh(k) => dup) /\ (Stale(k) => ~dup)
    /\ answer' = [key |-> k, duplicate |-> dup]
    /\ UNCHANGED <<now, lastMark, open>>

Quiet == answer' = None /\ UNCHANGED <<now, lastMark, open>>

Close == open /\ open' = FALSE /\ answer' = None /\ UNCHANGED <<now, lastMark>>

Next ==
    \/ Pass \/ Quiet \/ Close
    \/ \E k \in Keys : Mark(k) \/ \E dup \in BOOLEAN : Answer(k, dup)

Spec == Init /\ [][Next]_vars
=============================================================================
