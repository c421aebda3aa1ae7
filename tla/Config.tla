--------------------------------- MODULE Config --------------------------------
(***************************************************************************)
(* pkg/config and what internal/bootstrap makes of it.  An environment is  *)
(* a record of the variables that decide something; the list of plugins is *)
(* a sequence of tokens, among them "," and " ".                           *)
(***************************************************************************)
EXTENDS Integers, Sequences, SequencesExt

\* The variables that are not set have these values; the credentials have no
\* default and must be set.
Defaults ==
    [credentials |-> "unset", grpcPort |-> 6565, httpPort |-> 8000, basePath |-> "/telemetry",
     workers |-> 10, buffer |-> 10000, batch |-> 100, dedup |-> FALSE, type |-> "noop",
     addr |-> "localhost:6379", plugins |-> <<"noop">>, auth |-> ""]

Split(s) ==
    LET parts[n \in 0 .. Len(s)] ==
            IF n = 0 THEN <<<<>>>>
            ELSE IF s[n] = "," THEN Append(parts[n - 1], <<>>)
            ELSE [parts[n - 1] EXCEPT ![Len(parts[n - 1])] = Append(@, s[n])]
    IN parts[Len(s)]

TrimSpace(s) ==
    LET solid == {n \in DOMAIN s : s[n] # " "}
    IN IF solid = {} THEN <<>> ELSE SubSeq(s, Min(solid), Max(solid))

GetEnabledPlugins_NoTrim(env) == ToSet(Split(env.plugins)) \ {<<>>}   \* mutant: " s3" is not "s3"

\* The names, whose order decides nothing here.
GetEnabledPlugins(env) == {TrimSpace(part) : part \in ToSet(Split(env.plugins))} \ {<<>>}

ValidateConfig(env) ==
    /\ env.grpcPort \in 1 .. 65535 /\ env.httpPort \in 1 .. 65535 /\ env.basePath # ""
    /\ env.workers > 0 /\ env.buffer > 0
    /\ env.dedup => /\ env.type \in {"memory", "redis", "noop"}
                    /\ env.type = "redis" => env.addr # ""
    /\ TrimSpace(env.plugins) # <<>>

\* env.Parse fails if a required variable is not set.
LoadConfig(env) == env.credentials # "unset" /\ ValidateConfig(env)

\* InitializeIAM: without the right credentials the login fails.
LoginClient(env) == env.credentials = "right"

\* The type is looked at only if deduplication is enabled.
Deduplicator(env) ==
    IF env.dedup /\ env.type \in {"memory", "redis"} THEN env.type ELSE "noop"

KnownPlugins == {<<name>> : name \in {"postgres", "s3", "kafka", "mongodb", "noop"}}

StoragePlugins_KeepUnknown(env) ==   \* mutant: a name that nobody knows is not skipped
    GetEnabledPlugins(env)

\* Unknown names are skipped, and with none left there is noop.
StoragePlugins(env) ==
    LET opened == GetEnabledPlugins(env) \cap KnownPlugins
    IN IF opened = {} THEN {<<"noop">>} ELSE opened

\* A worker makes its batcher's buffer with this capacity, and panics if it is
\* negative.
BufferCapacity(env) == env.batch

AuthEnabled(env) == env.auth # "false"
=============================================================================
