----------------------------- MODULE MCProcessor -----------------------------
(* Instances of Processor for TLC. *)
EXTENDS Processor, TLC

CONSTANTS e1, e2, e3, w1, w2, p, q

\* e1 and e2 carry the same deduplication key; e1 and e3 come from one user.
MCEvents == {e1, e2, e3}
MCKey == (e1 :> "k") @@ (e2 :> "k") @@ (e3 :> "l")
MCUser == (e1 :> "u") @@ (e2 :> "v") @@ (e3 :> "u")

\* q filters e2 out.
MCAccepts == [x \in Plugins |-> IF x = q THEN {e1, e3} ELSE MCEvents]

WorkersAlike == Permutations(Workers)
=============================================================================
