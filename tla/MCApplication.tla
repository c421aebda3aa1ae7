----------------------------- MODULE MCApplication -----------------------------
(* Instances of Application for TLC. *)
EXTENDS Application, TLC

CONSTANTS e1, e2, e3

MCTypes == <<"user_behavior", "gameplay">>
MCTypeOf == (e1 :> "user_behavior") @@ (e2 :> "gameplay") @@ (e3 :> "gameplay")

\* One plugin that never fails, one nobody knows, one that may fail in any way;
\* and a configuration with nothing but an unknown plugin.
MCConfigurations == {<<"s3", "elastic", "postgres">>, <<"elastic">>}
=============================================================================
