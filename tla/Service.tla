-------------------------------- MODULE Service --------------------------------
(***************************************************************************)
(* The way of a request: the layers of Requests, Submit with the           *)
(* deduplicator, and the answer; on several instances of the service that  *)
(* share the Redis of RedisDedup, may crash, be stopped and be restarted.  *)
(*                                                                         *)
(* Up to Submit a request meets no shared state, so that part is one step. *)
(* The queue and the workers of an instance are the pairs of event and     *)
(* plugin still unsaved (Processor has them in detail).                    *)
(***************************************************************************)
EXTENDS RedisDedup, Requests

CONSTANTS Attempts,       \* the requests that clients may send; a retry is another one
          Request,        \* [Attempts -> what they hold]
          Cases           \* a configuration, the requests that are sent, and how many starts

VARIABLES env,       \* the configuration of all instances
          up,        \* each instance: "down", "up" or "draining"
          boots,     \* how many starts there may still be: a bound, for TLC
          call,      \* each request: its stage or answer, and its instance
          cache,     \* each instance's memory deduplicator: a set of keys
          unsaved,   \* each instance: the pairs <<request, plugin>> to be written
          accepted,  \* history: the requests whose event was queued
          stored,    \* the backends: pairs <<document, plugin>>
          dropped,   \* history: the pairs <<request, plugin>> whose write failed
          lost       \* history: keys that a process took with it, or a Submit marked and dropped

process == <<env, up, boots>>
data == <<cache, unsaved, accepted, stored, dropped, lost>>
redis == <<now, expiry, connected, lastMark, marked>>
serviceVars == <<vars, process, call, data>>

ServiceInit ==
    /\ Init
    /\ up = [i \in Instances |-> "down"]
    /\ \E c \in Cases :
          /\ env = c.env /\ boots = c.boots
          /\ call = [a \in c.sent |-> [stage |-> "unsent", at |-> None]]
    /\ cache = [i \in Instances |-> {}] /\ unsaved = [i \in Instances |-> {}]
    /\ accepted = {} /\ stored = {} /\ dropped = {} /\ lost = {}

\* A step that does not call Redis.
NoRedis == answer' = None /\ UNCHANGED redis

Telemetry == {a \in Attempts : Request[a].method \in EventTypes}
Event == [a \in Telemetry |-> Submitted(Request[a])]
Key == [a \in Telemetry |-> DeduplicationKey(Event[a])]

ASSUME ServiceAssumption ==
    /\ \A a \in Telemetry :
          Create(Request[a], Request[a].method).status = "check" => Event[a] \in Submissions
    /\ \A c \in Cases : c.sent \subseteq Attempts /\ c.boots \in Nat /\ c.env.plugins \in Seq(STRING)
    /\ None \notin Instances

-----------------------------------------------------------------------------
(* Requests *)

Stage(a, s) == call' = [call EXCEPT ![a].stage = s]
Serving(i) == up[i] \in {"up", "draining"}

Arrive(a, i) ==
    /\ call[a].stage = "unsent" /\ Serving(i)
    /\ \E verdict \in Validate(Request[a].token) :
          call' = [call EXCEPT ![a] = [stage |-> Outcome(env, Request[a], verdict), at |-> i]]
    /\ NoRedis /\ UNCHANGED <<process, data>>

AfterCheck_ErrorIsHit(reply) ==   \* mutant: a failed check counts as a duplicate
    IF reply = None \/ reply.duplicate THEN "reply" ELSE "mark"

AfterCheck(reply) == IF reply # None /\ reply.duplicate THEN "reply" ELSE "mark"

Noop == [duplicate |-> FALSE]

\* Submit, first call.  A duplicate is no error.
CheckDuplicate(a) ==
    LET i == call[a].at
    IN /\ call[a].stage = "check"
       /\ \/ /\ Deduplicator(env) = "redis"
             /\ IsDuplicate(i, Event[a]) /\ Stage(a, AfterCheck(answer'))
          \/ /\ Deduplicator(env) = "memory"
             /\ NoRedis /\ Stage(a, AfterCheck([duplicate |-> Key[a] \in cache[i]]))
          \/ /\ Deduplicator(env) = "noop"
             /\ NoRedis /\ Stage(a, AfterCheck(Noop))
       /\ UNCHANGED <<process, data>>

\* Submit, second call.
MarkSeen(a) ==
    LET i == call[a].at
    IN /\ call[a].stage = "mark" /\ Stage(a, "send")
       /\ IF Deduplicator(env) = "redis" THEN Mark(i, Event[a]) ELSE NoRedis
       /\ cache' = IF Deduplicator(env) = "memory" THEN [cache EXCEPT ![i] = @ \cup {Key[a]}]
                   ELSE cache
       /\ UNCHANGED <<process, unsaved, accepted, stored, dropped, lost>>

\* The event enters the queue: of a draining instance too, for the processors
\* are shut down one after the other, and those whose turn has not come accept;
\* it is left open which they are.  Or Submit gives up, because the Shutdown of
\* its processor has timed out (on a closed channel it may panic: Crash).
Send(a) ==
    LET i == call[a].at
    IN /\ call[a].stage = "send"
       /\ \/ /\ Serving(i) /\ Stage(a, "reply")
             /\ accepted' = accepted \cup {a}
             /\ unsaved' = [unsaved EXCEPT ![i] = @ \cup ({a} \X StoragePlugins(env))]
             /\ UNCHANGED lost
          \/ /\ up[i] = "draining" /\ Stage(a, "Internal")
             /\ lost' = lost \cup {Key[a]}
             /\ UNCHANGED <<accepted, unsaved>>
       /\ NoRedis /\ UNCHANGED <<process, cache, stored, dropped>>

Reply(a) ==
    /\ call[a].stage = "reply" /\ Stage(a, "OK")
    /\ NoRedis /\ UNCHANGED <<process, data>>

-----------------------------------------------------------------------------
(* Instances *)

\* A worker writes an event to a plugin: noop throws it away, any other may fail,
\* before or after the backend has it.  A failure is logged and the event dropped.
Write(i, a, p) ==
    /\ <<a, p>> \in unsaved[i]
    /\ unsaved' = [unsaved EXCEPT ![i] = @ \ {<<a, p>>}]
    /\ \/ p = <<"noop">> /\ UNCHANGED <<stored, dropped>>
       \/ /\ p # <<"noop">>
          /\ stored' = stored \cup {<<ToDocument(Event[a]), p>>}
          /\ dropped' \in {dropped, dropped \cup {<<a, p>>}}
       \/ /\ p # <<"noop">>
          /\ dropped' = dropped \cup {<<a, p>>} /\ UNCHANGED stored
    /\ NoRedis /\ UNCHANGED <<process, call, cache, accepted, lost>>

\* The memory deduplicator forgets a key some time after its TTL.
Forget(i, k) ==
    /\ k \in cache[i] /\ cache' = [cache EXCEPT ![i] = @ \ {k}]
    /\ NoRedis /\ UNCHANGED <<process, call, unsaved, accepted, stored, dropped, lost>>

\* New and Run.  The process ends if the configuration is not valid, the login
\* fails, a plugin does not open (Application) or, with a negative capacity,
\* the first worker panics.  Redis is not contacted.
Boot(i) ==
    /\ up[i] = "down" /\ boots > 0 /\ boots' = boots - 1
    /\ \/ /\ LoadConfig(env) /\ LoginClient(env) /\ BufferCapacity(env) >= 0
          /\ up' = [up EXCEPT ![i] = "up"] /\ connected' = connected \cup {i}
       \/ UNCHANGED <<up, connected>>
    /\ answer' = None
    /\ UNCHANGED <<now, expiry, lastMark, marked, env, call, data>>

\* The signal: Shutdown closes the channels.  The servers go on.
Stop(i) ==
    /\ up[i] = "up" /\ up' = [up EXCEPT ![i] = "draining"]
    /\ NoRedis /\ UNCHANGED <<env, boots, call, data>>

\* The process ends, and takes these keys with it; calls it had not answered
\* get Unavailable.
Gone(i, keys) ==
    /\ up' = [up EXCEPT ![i] = "down"]
    /\ call' = [a \in DOMAIN call |->
                   IF call[a].at = i /\ call[a].stage \in {"check", "mark", "send", "reply"}
                   THEN [call[a] EXCEPT !.stage = "Unavailable"] ELSE call[a]]
    /\ cache' = [cache EXCEPT ![i] = {}] /\ unsaved' = [unsaved EXCEPT ![i] = {}]
    /\ lost' = lost \cup keys
    /\ UNCHANGED <<env, boots, accepted, stored, dropped>>

Halfway(i) == {Key[a] : a \in {b \in DOMAIN call : call[b] = [stage |-> "send", at |-> i]}}
Queued(i) == {Key[q[1]] : q \in unsaved[i]}

\* A crash: a panic (a send on a closed channel, say), os.Exit, kill.
Crash(i) ==
    /\ Serving(i) /\ Gone(i, Halfway(i) \cup Queued(i))
    /\ connected' = connected \ {i} /\ answer' = None
    /\ UNCHANGED <<now, expiry, lastMark, marked>>

\* The end of Shutdown: the processors are drained, and the clients closed.
Exit(i) == up[i] = "draining" /\ unsaved[i] = {} /\ Close(i) /\ Gone(i, Halfway(i))

\* Redis's clock.
Tick == Advance /\ UNCHANGED <<process, call, data>>

\* Instances may stay down, and then nothing need happen.
Rest == (\A i \in Instances : ~Serving(i)) /\ UNCHANGED serviceVars

Step(a) == CheckDuplicate(a) \/ MarkSeen(a) \/ Send(a) \/ Reply(a)

ServiceNext ==
    \/ Tick \/ Rest
    \/ \E a \in DOMAIN call : Step(a) \/ \E i \in Instances : Arrive(a, i)
    \/ \E i \in Instances :
          \/ Boot(i) \/ Stop(i) \/ Crash(i) \/ Exit(i)
          \/ \E q \in unsaved[i] : Write(i, q[1], q[2])
          \/ \E k \in cache[i] : Forget(i, k)

ServiceSpec == ServiceInit /\ [][ServiceNext]_serviceVars

-----------------------------------------------------------------------------
(* Properties *)

Errors == {"NotFound", "InvalidArgument", "Unimplemented", "Unauthenticated",
           "PermissionDenied", "Internal"}
Stages == {"unsent", "check", "mark", "send", "reply", "OK", "Unavailable"} \cup Errors

\* The shapes of the variables.
ServiceTypeOK ==
    /\ \E c \in Cases : env = c.env /\ DOMAIN call = c.sent /\ boots \in 0 .. c.boots
    /\ up \in [Instances -> {"down", "up", "draining"}]
    /\ \A a \in DOMAIN call :
          call[a] \in [stage : Stages, at : Instances \cup {None}]
          /\ (call[a].at = None <=> call[a].stage = "unsent")
    /\ cache \in [Instances -> SUBSET Keys]
    /\ accepted \subseteq DOMAIN call
    /\ stored \subseteq {ToDocument(Event[a]) : a \in accepted} \X KnownPlugins
    /\ \A i \in Instances : unsaved[i] \subseteq accepted \X KnownPlugins
    /\ dropped \subseteq accepted \X KnownPlugins /\ lost \subseteq Keys

\* Whatever way a request takes, an event is queued only if the body was decoded,
\* has an id and a payload, the token names its user, and, with authorization
\* on, the token is genuine.
GenuineOnly ==
    \A a \in accepted :
        LET r == Request[a]
        IN /\ r.decodes /\ r.id # <<>> /\ r.payload
           /\ Event[a].user \in {r.token.sub, r.token.user_id} \ {<<>>}
           /\ AuthEnabled(env) => r.token.genuine

SameKey(a, b) == b \in Telemetry /\ Key[a] = Key[b]

\* The answer tells the truth: after an error the event was not queued, so a
\* client may send it again; after OK it was queued, or one of the same key was
\* or is about to be, unless that one got lost between its mark and the queue.
AnswersAreTrue ==
    \A a \in DOMAIN call :
        /\ call[a].stage \in Errors => a \notin accepted
        /\ call[a].stage = "OK" /\ a \in Telemetry =>
               \/ Key[a] \in lost
               \/ \E b \in DOMAIN call :
                     SameKey(a, b) /\ (b \in accepted \/ call[b].stage = "send")

\* STORAGE_ENABLED_PLUGINS read a second way: a name, with spaces around it
\* perhaps, between two commas or ends of the list.
Listed == {p \in KnownPlugins :
              \E m, k, n \in 0 .. Len(env.plugins) + 1 :
                  /\ m < k /\ k < n /\ p = <<env.plugins[k]>>
                  /\ \A x \in {m, n} : x \in DOMAIN env.plugins => env.plugins[x] = ","
                  /\ \A x \in (m + 1 .. n - 1) \ {k} : env.plugins[x] = " "}

\* What was answered with OK, or an event of the same key, is for every plugin
\* listed that keeps events either stored, in a document that tells its key, or
\* still with an instance that serves, on its way into the queue or out of it.  Only
\* two things end it: a process took it with it, or that plugin's own write failed.
OkIsKept ==
    \A a \in DOMAIN call : call[a].stage = "OK" /\ a \in Telemetry =>
        \/ Key[a] \in lost
        \/ \E b \in DOMAIN call : SameKey(a, b) /\ call[b].stage = "send" /\ Serving(call[b].at)
        \/ \A p \in Listed \ {<<"noop">>} :
              \/ \E d \in {s[1] : s \in {t \in stored : t[2] = p}} :
                    DeduplicationKey(Told(d)) = Key[a]
              \/ \E b \in accepted :
                    /\ SameKey(a, b)
                    /\ \/ Serving(call[b].at) /\ <<b, p>> \in unsaved[call[b].at]
                       \/ <<b, p>> \in dropped
=============================================================================
