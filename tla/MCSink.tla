-------------------------------- MODULE MCSink ---------------------------------
(* Two workers of one type, and of two types with every type among them. *)
EXTENDS Sink, TLC

CONSTANTS c1, c2, e3, e4

MCAssignments ==
    { (c1 :> "gameplay") @@ (c2 :> "gameplay"),
      (c1 :> "gameplay") @@ (c2 :> "performance"),
      (c1 :> "performance") @@ (c2 :> "user_behavior") }

MCSymmetry == Permutations({e3, e4})
=============================================================================
