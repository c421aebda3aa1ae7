---------------------------- MODULE MCMemoryDedup ----------------------------
(* An instance of MemoryDedup: e1 and e2 are the same event sent twice. *)
EXTENDS MemoryDedup, TLC

CONSTANTS e1, e2, e3, f, g

MCEvents == {e1, e2, e3}
MCFingerprint == (e1 :> f) @@ (e2 :> f) @@ (e3 :> g)
=============================================================================
