------------------------------ MODULE ServiceProofs -----------------------------
(***************************************************************************)
(* Proofs about the service as a whole, for any instances, requests and    *)
(* configurations: who gets in, what an answer tells, and that the Redis   *)
(* deduplicator keeps its promise while instances crash and restart.       *)
(***************************************************************************)
EXTENDS Service, RedisDedupProofs, NaturalsInduction, WellFoundedInduction

Submitting == {"check", "mark", "send", "reply"}

\* A request that got as far as Submit.
Passed(a) ==
    LET r == Request[a]
    IN /\ a \in Telemetry /\ Event[a] \in Submissions
       /\ r.decodes /\ r.id # <<>> /\ r.payload
       /\ Event[a].user \in {r.token.sub, r.token.user_id} \ {<<>>}
       /\ AuthEnabled(env) => r.token.genuine

CallsOK ==
    /\ \E c \in Cases : env = c.env /\ DOMAIN call = c.sent /\ boots \in 0 .. c.boots
    /\ \A a \in DOMAIN call :
          /\ call[a] \in [stage : Stages, at : Instances \cup {None}]
          /\ (call[a].at = None <=> call[a].stage = "unsent")
    /\ up \in [Instances -> {"down", "up", "draining"}]

\* Nothing gets past the layers but what has passed them.
PassedOnly ==
    /\ \A a \in DOMAIN call : call[a].stage \in Submitting => Passed(a)
    /\ \A a \in accepted :
          Passed(a) /\ a \in DOMAIN call /\ call[a].stage \in {"reply", "OK", "Unavailable"}

\* Some request of the key is queued or about to be, or the key is lost.
Covered(k) ==
    \/ k \in lost
    \/ \E b \in DOMAIN call :
          b \in Telemetry /\ Key[b] = k /\ (b \in accepted \/ call[b].stage = "send")

\* What a deduplicator holds, or a request was answered for, is covered.
SeenAreCovered ==
    /\ \A k \in Keys : expiry[k] # None => Covered(k)
    /\ \A i \in Instances : \A k \in cache[i] : Covered(k)
    /\ \A a \in DOMAIN call :
          a \in Telemetry /\ call[a].stage \in {"reply", "OK"} => Covered(Key[a])

DataOK ==
    /\ cache \in [Instances -> SUBSET Keys]
    /\ unsaved \in [Instances -> SUBSET (accepted \X KnownPlugins)]
    /\ stored \subseteq {ToDocument(Event[a]) : a \in accepted} \X KnownPlugins
    /\ dropped \subseteq accepted \X KnownPlugins /\ lost \subseteq Keys

SInv == CallsOK /\ PassedOnly /\ SeenAreCovered /\ DataOK /\ ExpiresAfterTTL

-----------------------------------------------------------------------------
(* The layers *)

\* What the handlers of pkg/service make of a request that they accept.
LEMMA Created ==
    ASSUME NEW r, NEW k
    PROVE  /\ Create(r, k).status \in {"InvalidArgument", "Unauthenticated", "check"}
           /\ Create(r, k).status = "check" =>
                 /\ r.id # <<>> /\ r.payload
                 /\ Create(r, k).event.user \in {r.token.sub, r.token.user_id} \ {<<>>}
  BY DEF Create, Then, UserStatus, ExtractUserID

\* A telemetry request is submitted only if it was decoded, its authorization
\* was checked and its handler accepts it; no other method is.
LEMMA Layers ==
    ASSUME NEW a \in Attempts, NEW verdict \in Validate(Request[a].token)
    PROVE  LET r == Request[a]
               s == Outcome(env, r, verdict)
           IN /\ s \in Errors \cup {"OK", "check"}
              /\ s = "OK" => r.method \notin EventTypes
              /\ s = "check" =>
                    /\ r.method \in EventTypes /\ r.decodes
                    /\ AuthEnabled(env) => r.token.genuine
                    /\ Create(r, r.method).status = "check"
<1> DEFINE r == Request[a]
<1>1. verdict \in BOOLEAN /\ (verdict => r.token.genuine)
  BY DEF Validate
<1>2. \A k : Create(r, k).status \in {"InvalidArgument", "Unauthenticated", "check"}
  BY Created
<1> HIDE DEF r
<1>3. ASSUME NEW k \in EventTypes, NEW s, s = Handle(env, r, verdict, k, Create(r, k).status)
      PROVE  /\ s \in Errors \cup {"check"}
             /\ s = "check" => /\ r.decodes /\ (AuthEnabled(env) => r.token.genuine)
                               /\ Create(r, k).status = "check"
  BY <1>1, <1>2, <1>3
     DEF Handle, Then, Intercepted, UnaryAuth, RequireToken, HasSecurityScheme,
         CheckAuthorizationMetadata, Errors
<1>4. ASSUME NEW s, s = ServiceDesc(env, r.method, r, verdict)
      PROVE  /\ s \in Errors \cup {"OK", "check"}
             /\ s = "OK" => r.method \notin EventTypes
             /\ s = "check" =>
                   /\ r.method \in EventTypes /\ r.decodes
                   /\ AuthEnabled(env) => r.token.genuine
                   /\ Create(r, r.method).status = "check"
  <2>1. CASE r.method \in EventTypes
    <3>1. s = Handle(env, r, verdict, r.method, Create(r, r.method).status)
      BY <1>4, <2>1
         DEF ServiceDesc, EventTypes, UserBehaviorHandler, GameplayHandler, PerformanceHandler,
             CreateUserBehaviorTelemetry, CreateGameplayTelemetry, CreatePerformanceTelemetry
    <3> QED
      BY <1>3, <2>1, <3>1 DEF Errors
  <2>2. CASE r.method \notin EventTypes
    BY <1>4, <2>2
       DEF ServiceDesc, EventTypes, Handle, Then, Intercepted, UnaryAuth, StreamAuth,
           RequireToken, HasSecurityScheme, CheckAuthorizationMetadata, Errors
  <2> QED
    BY <2>1, <2>2
<1>5. ASSUME r.via = "http"
      PROVE  Outcome(env, r, verdict) =
                 IF r.method \notin EventTypes THEN "NotFound"
                 ELSE IF r.decodes THEN ServiceDesc(env, r.method, r, verdict)
                 ELSE "InvalidArgument"
  BY <1>5 DEF Outcome, Gateway, EventTypes, RequestUserBehavior, RequestGameplay,
              RequestPerformance, Forward, InvokeUserBehavior, InvokeGameplay, InvokePerformance
<1>6. r.via # "http" => Outcome(env, r, verdict) = ServiceDesc(env, r.method, r, verdict)
  BY DEF Outcome
<1> QED
  BY <1>4, <1>5, <1>6 DEF r, Errors

LEMMA EventOf ==
    ASSUME NEW a \in Telemetry
    PROVE  Event[a] = Create(Request[a], Request[a].method).event
  BY DEF Event, Telemetry, EventTypes, Submitted, CreateUserBehaviorTelemetry,
         CreateGameplayTelemetry, CreatePerformanceTelemetry

LEMMA CheckedHasPassed ==
    ASSUME NEW a \in Attempts, NEW verdict \in Validate(Request[a].token),
           Outcome(env, Request[a], verdict) = "check"
    PROVE  Passed(a)
<1> DEFINE r == Request[a]
<1>1. /\ r.method \in EventTypes /\ r.decodes /\ (AuthEnabled(env) => r.token.genuine)
      /\ Create(r, r.method).status = "check"
  BY Layers
<1>2. a \in Telemetry
  BY <1>1 DEF Telemetry
<1>3. Event[a] \in Submissions
  BY <1>1, <1>2, ServiceAssumption
<1>4. /\ r.id # <<>> /\ r.payload
      /\ Event[a].user \in {r.token.sub, r.token.user_id} \ {<<>>}
  BY <1>1, <1>2, Created, EventOf
<1> QED
  BY <1>1, <1>2, <1>3, <1>4 DEF Passed

-----------------------------------------------------------------------------
(* What the steps do to the calls *)

\* A request that moves on, and nothing else.
LEMMA Moved ==
    ASSUME CallsOK, NEW a \in DOMAIN call, NEW s \in Stages \ {"unsent"},
           call[a].stage # "unsent", Stage(a, s), UNCHANGED <<env, boots, up>>
    PROVE  /\ CallsOK' /\ DOMAIN call' = DOMAIN call
           /\ call'[a].stage = s /\ call'[a].at = call[a].at
           /\ \A b \in DOMAIN call : b # a => call'[b] = call[b]
<1>1. call[a] \in [stage : Stages, at : Instances \cup {None}]
  BY DEF CallsOK
<1>2. call' = [call EXCEPT ![a] = [call[a] EXCEPT !.stage = s]]
  BY DEF Stage
<1>3. DOMAIN call' = DOMAIN call /\ \A b \in DOMAIN call : b # a => call'[b] = call[b]
  BY <1>2
<1>4. call'[a] = [call[a] EXCEPT !.stage = s]
  BY <1>2
<1>5. /\ call'[a] \in [stage : Stages, at : Instances \cup {None}]
      /\ call'[a].stage = s /\ call'[a].at = call[a].at
  BY <1>1, <1>4
<1>6. CallsOK'
  BY <1>3, <1>5 DEF CallsOK
<1> QED
  BY <1>3, <1>5, <1>6

\* What is covered stays covered, if requests on their way into the queue get
\* there or leave their key among the lost.
LEMMA CoveredStays ==
    ASSUME accepted \subseteq accepted', lost \subseteq lost', DOMAIN call' = DOMAIN call,
           \A b \in DOMAIN call : b \in Telemetry /\ call[b].stage = "send" =>
               call'[b].stage = "send" \/ b \in accepted' \/ Key[b] \in lost',
           NEW k, Covered(k)
    PROVE  Covered(k)'
  BY DEF Covered, Key, Telemetry, Event

LEMMA KeyOf ==
    ASSUME NEW a, Passed(a)
    PROVE  a \in Telemetry /\ Key[a] = DeduplicationKey(Event[a]) /\ Key[a] \in Keys
  BY KeysOfSubmissions DEF Passed, Key

\* A step that leaves the calls and the queue alone keeps what concerns them.
LEMMA CallsRest ==
    ASSUME SInv, UNCHANGED <<call, accepted, lost, env>>
    PROVE  PassedOnly' /\ \A k : Covered(k) => Covered(k)'
<1>1. \A a : Passed(a) => Passed(a)'
  BY DEF Passed, Telemetry, Event
<1>2. PassedOnly'
  BY <1>1 DEF SInv, PassedOnly
<1>3. \A k : Covered(k) => Covered(k)'
  BY CoveredStays
<1> QED
  BY <1>2, <1>3

\* A request inside Submit moves on.
LEMMA MoveKeeps ==
    ASSUME SInv, NEW a \in DOMAIN call, call[a].stage \in Submitting,
           NEW s \in Submitting \cup {"OK", "Internal"}, Stage(a, s), UNCHANGED process,
           accepted' = accepted \/ accepted' = accepted \cup {a},
           a \in accepted' => s \in {"reply", "OK"}, lost \subseteq lost',
           call[a].stage = "send" => a \in accepted' \/ Key[a] \in lost'
    PROVE  /\ CallsOK' /\ PassedOnly' /\ \A k : Covered(k) => Covered(k)'
           /\ DOMAIN call' = DOMAIN call /\ call'[a].stage = s
           /\ \A b \in DOMAIN call : b # a => call'[b] = call[b]
           /\ Passed(a)
<1>1. /\ CallsOK' /\ DOMAIN call' = DOMAIN call /\ call'[a].stage = s
      /\ \A b \in DOMAIN call : b # a => call'[b] = call[b]
  <2>1. s \in Stages \ {"unsent"} /\ call[a].stage # "unsent"
    BY DEF Submitting, Stages, Errors
  <2> QED
    BY <2>1, Moved DEF SInv, process
<1>2. Passed(a) /\ \A b : Passed(b) => Passed(b)'
  BY DEF SInv, PassedOnly, Passed, process, Telemetry, Event
<1>3. PassedOnly'
  <2>1. ASSUME NEW b \in DOMAIN call', call'[b].stage \in Submitting PROVE Passed(b)'
    BY <1>1, <1>2, <2>1 DEF SInv, PassedOnly
  <2>2. ASSUME NEW b \in accepted'
        PROVE  /\ Passed(b)' /\ b \in DOMAIN call'
               /\ call'[b].stage \in {"reply", "OK", "Unavailable"}
    <3>1. CASE b = a
      BY <1>1, <1>2, <2>2, <3>1
    <3>2. CASE b # a
      BY <1>1, <1>2, <2>2, <3>2 DEF SInv, PassedOnly
    <3> QED
      BY <3>1, <3>2
  <2> QED
    BY <2>1, <2>2 DEF PassedOnly
<1>4. \A k : Covered(k) => Covered(k)'
  <2>1. \A b \in DOMAIN call : b \in Telemetry /\ call[b].stage = "send" =>
            call'[b].stage = "send" \/ b \in accepted' \/ Key[b] \in lost'
    BY <1>1
  <2> QED
    BY <1>1, <2>1, CoveredStays
<1> QED
  BY <1>1, <1>2, <1>3, <1>4

LEMMA NoRedisReconnects == NoRedis => Reconnect /\ expiry' = expiry
  BY DEF NoRedis, redis, Reconnect

\* The requests that are answered, but for one, stay covered.
LEMMA OthersCovered ==
    ASSUME SInv, NEW a \in DOMAIN call, DOMAIN call' = DOMAIN call,
           \A b \in DOMAIN call : b # a => call'[b] = call[b],
           \A k : Covered(k) => Covered(k)',
           a \in Telemetry /\ call'[a].stage \in {"reply", "OK"} => Covered(Key[a])',
           \A k \in Keys : expiry'[k] # None => Covered(k)',
           \A i \in Instances : \A k \in cache'[i] : Covered(k)'
    PROVE  SeenAreCovered'
<1>1. \A b \in DOMAIN call : b \in Telemetry /\ call'[b].stage \in {"reply", "OK"} =>
          Covered(Key[b])'
  BY DEF SInv, SeenAreCovered
<1>2. Key' = Key /\ Telemetry' = Telemetry
  BY DEF Key, Telemetry, Event
<1> QED
  BY <1>1, <1>2 DEF SeenAreCovered

LEMMA ArriveKeeps ==
    ASSUME SInv, NEW a \in DOMAIN call, NEW i \in Instances, Arrive(a, i)
    PROVE  CallsOK' /\ PassedOnly' /\ SeenAreCovered' /\ DataOK'
<1>1. PICK verdict \in Validate(Request[a].token) :
          call' = [call EXCEPT ![a] = [stage |-> Outcome(env, Request[a], verdict), at |-> i]]
  BY DEF Arrive
<1>2. a \in Attempts
  BY ServiceAssumption DEF SInv, CallsOK
<1> DEFINE s == Outcome(env, Request[a], verdict)
<1>3. /\ s \in Errors \cup {"OK", "check"} /\ (s = "OK" => a \notin Telemetry)
      /\ (s = "check" => Passed(a))
  BY <1>2, Layers, CheckedHasPassed DEF Telemetry
<1> HIDE DEF s
<1>4. /\ DOMAIN call' = DOMAIN call /\ call'[a] = [stage |-> s, at |-> i]
      /\ \A b \in DOMAIN call : b # a => call'[b] = call[b]
  BY <1>1 DEF s
<1>5. UNCHANGED <<env, boots, up, data, expiry>> /\ call[a].stage = "unsent"
  BY DEF Arrive, process, NoRedis, redis
<1>6. CallsOK'
  <2>1. call'[a].stage = s /\ call'[a].at = i /\ s \in Stages \ {"unsent"}
        /\ call'[a] \in [stage : Stages, at : Instances \cup {None}]
    BY <1>3, <1>4 DEF Stages, Errors
  <2>2. call'[a].at # None
    BY <2>1, ServiceAssumption
  <2> QED
    BY <1>4, <1>5, <2>1, <2>2 DEF SInv, CallsOK
<1>7. \A k : Covered(k) => Covered(k)'
  BY <1>4, <1>5, CoveredStays DEF data
<1>8. PassedOnly'
  <2>1. \A b : Passed(b) => Passed(b)'
    BY <1>5 DEF Passed, Telemetry, Event
  <2>2. a \notin accepted
    BY <1>5 DEF SInv, PassedOnly
  <2>3. s \in Submitting => s = "check"
    BY <1>3 DEF Submitting, Errors
  <2> QED
    BY <1>3, <1>4, <1>5, <2>1, <2>2, <2>3 DEF SInv, PassedOnly, data
<1>9. SeenAreCovered'
  <2>1. ~(a \in Telemetry /\ call'[a].stage \in {"reply", "OK"})
    BY <1>3, <1>4 DEF Errors
  <2> QED
    BY <1>4, <1>5, <1>7, <2>1, OthersCovered DEF SInv, SeenAreCovered, data
<1>10. DataOK'
  BY <1>5 DEF SInv, DataOK, data, Event, Telemetry
<1> QED
  BY <1>6, <1>8, <1>9, <1>10

LEMMA AtInstance ==
    ASSUME SInv, NEW a \in DOMAIN call, call[a].stage \in Submitting
    PROVE  call[a].at \in Instances /\ Passed(a)
<1>1. call[a].at # None /\ call[a].at \in Instances \cup {None}
  BY DEF SInv, CallsOK, Submitting
<1> QED
  BY <1>1 DEF SInv, PassedOnly

LEMMA CheckKeeps ==
    ASSUME SInv, NEW a \in DOMAIN call, CheckDuplicate(a)
    PROVE  CallsOK' /\ PassedOnly' /\ SeenAreCovered' /\ DataOK'
<1> DEFINE i == call[a].at  k == Key[a]
<1>1. call[a].stage = "check" /\ call[a].stage \in Submitting /\ UNCHANGED <<process, data>>
  BY DEF CheckDuplicate, Submitting
<1>2. i \in Instances /\ Passed(a)
  BY <1>1, AtInstance
<1>3. a \in Telemetry /\ k = DeduplicationKey(Event[a]) /\ k \in Keys
  BY <1>2, KeyOf
<1>4. /\ expiry[k] # None => Covered(k)
      /\ k \in cache[i] => Covered(k)
  BY <1>2, <1>3 DEF SInv, SeenAreCovered
<1>5. \E s \in {"mark", "reply"} : Stage(a, s) /\ (s = "reply" => Covered(k)) /\ expiry' = expiry
  <2>1. CASE IsDuplicate(i, Event[a]) /\ Stage(a, AfterCheck(answer'))
    <3>1. answer' # None /\ answer'.duplicate => Exists(k)
      BY <1>3, <2>1 DEF IsDuplicate
    <3>2. AfterCheck(answer') = "reply" => Covered(k)
      BY <1>4, <3>1 DEF AfterCheck, Exists
    <3>3. AfterCheck(answer') \in {"mark", "reply"}
      BY DEF AfterCheck
    <3>4. expiry' = expiry
      BY <2>1 DEF IsDuplicate
    <3> QED
      BY <2>1, <3>2, <3>3, <3>4
  <2>2. CASE NoRedis /\ Stage(a, AfterCheck([duplicate |-> k \in cache[i]]))
    <3> DEFINE s == AfterCheck([duplicate |-> k \in cache[i]])
    <3>1. s = "mark" \/ (s = "reply" /\ k \in cache[i])
      BY DEF AfterCheck
    <3> HIDE DEF s
    <3>2. Stage(a, s) /\ expiry' = expiry
      BY <2>2, NoRedisReconnects DEF s
    <3> QED
      BY <1>4, <3>1, <3>2
  <2>3. CASE NoRedis /\ Stage(a, AfterCheck(Noop))
    <3>1. AfterCheck(Noop) = "mark"
      BY DEF AfterCheck, Noop
    <3> QED
      BY <2>3, <3>1, NoRedisReconnects
  <2> QED
    BY <2>1, <2>2, <2>3 DEF CheckDuplicate
<1>6. PICK s \in {"mark", "reply"} :
          Stage(a, s) /\ (s = "reply" => Covered(k)) /\ expiry' = expiry
  BY <1>5
<1>7. /\ a \notin accepted /\ UNCHANGED <<accepted, lost, cache, unsaved, stored, dropped>>
  BY <1>1 DEF SInv, PassedOnly, data
<1>8. s \in Submitting \cup {"OK", "Internal"} /\ call[a].stage # "send"
  BY <1>1 DEF Submitting
<1>9. /\ CallsOK' /\ PassedOnly' /\ \A x : Covered(x) => Covered(x)'
      /\ DOMAIN call' = DOMAIN call /\ call'[a].stage = s
      /\ \A b \in DOMAIN call : b # a => call'[b] = call[b]
  BY <1>1, <1>6, <1>7, <1>8, MoveKeeps
<1>10. SeenAreCovered'
  <2>1. a \in Telemetry /\ call'[a].stage \in {"reply", "OK"} => Covered(Key[a])'
    <3>1. Key' = Key
      BY DEF Key, Telemetry, Event
    <3>2. s # "OK"
      BY <1>6
    <3>3. s = "reply" => Covered(k)'
      BY <1>6, <1>9
    <3> QED
      BY <1>9, <3>1, <3>2, <3>3
  <2>2. \A x \in Keys : expiry'[x] # None => Covered(x)'
    BY <1>6, <1>9 DEF SInv, SeenAreCovered
  <2>3. \A j \in Instances : \A x \in cache'[j] : Covered(x)'
    BY <1>7, <1>9 DEF SInv, SeenAreCovered
  <2> QED
    BY <1>9, <2>1, <2>2, <2>3, OthersCovered
<1>11. DataOK'
  BY <1>7 DEF SInv, DataOK, Event, Telemetry
<1> QED
  BY <1>9, <1>10, <1>11

LEMMA MarkKeeps ==
    ASSUME SInv, NEW a \in DOMAIN call, MarkSeen(a)
    PROVE  CallsOK' /\ PassedOnly' /\ SeenAreCovered' /\ DataOK'
<1> DEFINE i == call[a].at  k == Key[a]
<1>1. /\ call[a].stage = "mark" /\ call[a].stage \in Submitting /\ Stage(a, "send")
      /\ UNCHANGED <<process, unsaved, accepted, stored, dropped, lost>>
  BY DEF MarkSeen, Submitting
<1>2. i \in Instances /\ Passed(a)
  BY <1>1, AtInstance
<1>3. a \in Telemetry /\ k = DeduplicationKey(Event[a]) /\ k \in Keys
  BY <1>2, KeyOf
<1>4. a \notin accepted
  BY <1>1 DEF SInv, PassedOnly
<1>5. /\ CallsOK' /\ PassedOnly' /\ \A x : Covered(x) => Covered(x)'
      /\ DOMAIN call' = DOMAIN call /\ call'[a].stage = "send"
      /\ \A b \in DOMAIN call : b # a => call'[b] = call[b]
  <2>1. "send" \in Submitting \cup {"OK", "Internal"} /\ call[a].stage # "send"
    BY <1>1 DEF Submitting
  <2> QED
    BY <1>1, <1>4, <2>1, MoveKeeps
<1>6. Key' = Key /\ Telemetry' = Telemetry
  BY DEF Key, Telemetry, Event
<1>7. Covered(k)'
  BY <1>3, <1>5, <1>6 DEF Covered
<1>8. \A x \in Keys : x # k => expiry'[x] = expiry[x]
  <2>1. expiry \in [Keys -> Nat \cup {None}]
    BY DEF SInv, ExpiresAfterTTL
  <2>2. CASE Mark(i, Event[a])
    BY <1>3, <2>1, <2>2 DEF Mark
  <2>3. CASE NoRedis
    BY <2>3, NoRedisReconnects
  <2> QED
    BY <2>2, <2>3 DEF MarkSeen
<1>9. /\ cache' \in [Instances -> SUBSET Keys]
      /\ \A j \in Instances : cache'[j] \subseteq cache[j] \cup {k}
  BY <1>2, <1>3 DEF MarkSeen, SInv, DataOK
<1>10. SeenAreCovered'
  <2>1. \A x \in Keys : expiry'[x] # None => Covered(x)'
    BY <1>5, <1>7, <1>8 DEF SInv, SeenAreCovered
  <2>2. \A j \in Instances : \A x \in cache'[j] : Covered(x)'
    BY <1>5, <1>7, <1>9 DEF SInv, SeenAreCovered
  <2> QED
    BY <1>5, <2>1, <2>2, OthersCovered
<1>11. DataOK'
  BY <1>1, <1>9 DEF SInv, DataOK, Event, Telemetry
<1> QED
  BY <1>5, <1>10, <1>11

LEMMA SendKeeps ==
    ASSUME SInv, NEW a \in DOMAIN call, Send(a)
    PROVE  CallsOK' /\ PassedOnly' /\ SeenAreCovered' /\ DataOK'
<1> DEFINE i == call[a].at  k == Key[a]
<1>1. /\ call[a].stage = "send" /\ call[a].stage \in Submitting
      /\ UNCHANGED <<process, cache, stored, dropped>> /\ expiry' = expiry
  BY NoRedisReconnects DEF Send, Submitting
<1>2. i \in Instances /\ Passed(a)
  BY <1>1, AtInstance
<1>3. a \in Telemetry /\ k \in Keys
  BY <1>2, KeyOf
<1>4. Key' = Key /\ Telemetry' = Telemetry /\ a \notin accepted
  BY <1>1 DEF Key, Telemetry, Event, SInv, PassedOnly
<1>5. \E s \in {"reply", "Internal"} :
          /\ Stage(a, s)
          /\ accepted' = (IF s = "reply" THEN accepted \cup {a} ELSE accepted)
          /\ lost' = (IF s = "reply" THEN lost ELSE lost \cup {k})
          /\ unsaved' = IF s = "reply"
                        THEN [unsaved EXCEPT ![i] = @ \cup ({a} \X StoragePlugins(env))]
                        ELSE unsaved
  BY DEF Send
<1>6. PICK s \in {"reply", "Internal"} :
          /\ Stage(a, s)
          /\ accepted' = (IF s = "reply" THEN accepted \cup {a} ELSE accepted)
          /\ lost' = (IF s = "reply" THEN lost ELSE lost \cup {k})
          /\ unsaved' = IF s = "reply"
                        THEN [unsaved EXCEPT ![i] = @ \cup ({a} \X StoragePlugins(env))]
                        ELSE unsaved
  BY <1>5
<1>7. /\ accepted' = accepted \/ accepted' = accepted \cup {a}
      /\ a \in accepted' => s = "reply"
      /\ lost \subseteq lost' /\ lost' \subseteq Keys
      /\ a \in accepted' \/ Key[a] \in lost'
  BY <1>3, <1>4, <1>6 DEF SInv, DataOK
<1>8. /\ CallsOK' /\ PassedOnly' /\ \A x : Covered(x) => Covered(x)'
      /\ DOMAIN call' = DOMAIN call /\ call'[a].stage = s
      /\ \A b \in DOMAIN call : b # a => call'[b] = call[b]
  <2>1. s \in Submitting \cup {"OK", "Internal"}
    BY DEF Submitting
  <2> QED
    BY <1>1, <1>6, <1>7, <2>1, MoveKeeps
<1>9. Covered(k)'
  BY <1>3, <1>4, <1>7, <1>8 DEF Covered
<1>10. SeenAreCovered'
  <2>1. \A x \in Keys : expiry'[x] # None => Covered(x)'
    BY <1>1, <1>8 DEF SInv, SeenAreCovered
  <2>2. \A j \in Instances : \A x \in cache'[j] : Covered(x)'
    BY <1>1, <1>8 DEF SInv, SeenAreCovered
  <2>3. Covered(Key[a])'
    BY <1>4, <1>9
  <2> QED
    BY <1>8, <2>1, <2>2, <2>3, OthersCovered
<1>11. DataOK'
  <2>1. StoragePlugins(env) \subseteq KnownPlugins
    BY DEF StoragePlugins, KnownPlugins
  <2>2. {a} \X StoragePlugins(env) \subseteq (accepted \cup {a}) \X KnownPlugins
    BY <2>1
  <2>3. unsaved \in [Instances -> SUBSET (accepted \X KnownPlugins)]
    BY DEF SInv, DataOK
  <2>4. accepted \X KnownPlugins \subseteq (accepted \cup {a}) \X KnownPlugins
    OBVIOUS
  <2>5. unsaved' \in [Instances -> SUBSET (accepted' \X KnownPlugins)]
    <3>1. CASE s = "reply"
      BY <1>2, <1>6, <2>2, <2>3, <2>4, <3>1
    <3>2. CASE s # "reply"
      BY <1>6, <2>3, <3>2
    <3> QED
      BY <3>1, <3>2
  <2>6. stored' \subseteq {ToDocument(Event[b]) : b \in accepted'} \X KnownPlugins
    <3>1. {ToDocument(Event[b]) : b \in accepted} \subseteq {ToDocument(Event[b]) : b \in accepted'}
      BY <1>7
    <3> QED
      BY <1>1, <3>1 DEF SInv, DataOK
  <2>7. Event' = Event /\ KnownPlugins' = KnownPlugins /\ cache' = cache
    BY <1>1 DEF Event, Telemetry
  <2>8. dropped' \subseteq accepted' \X KnownPlugins
    BY <1>1, <1>7 DEF SInv, DataOK
  <2> QED
    BY <1>7, <2>5, <2>6, <2>7, <2>8 DEF SInv, DataOK
<1> QED
  BY <1>8, <1>10, <1>11

LEMMA ReplyKeeps ==
    ASSUME SInv, NEW a \in DOMAIN call, Reply(a)
    PROVE  CallsOK' /\ PassedOnly' /\ SeenAreCovered' /\ DataOK'
<1>1. /\ call[a].stage = "reply" /\ call[a].stage \in Submitting /\ Stage(a, "OK")
      /\ UNCHANGED <<process, cache, unsaved, accepted, stored, dropped, lost>> /\ expiry' = expiry
  BY NoRedisReconnects DEF Reply, Submitting, data
<1>2. /\ CallsOK' /\ PassedOnly' /\ \A x : Covered(x) => Covered(x)'
      /\ DOMAIN call' = DOMAIN call
      /\ \A b \in DOMAIN call : b # a => call'[b] = call[b]
  BY <1>1, MoveKeeps
<1>3. a \in Telemetry => Covered(Key[a])'
  <2>1. Key' = Key
    BY DEF Key, Telemetry, Event
  <2> QED
    BY <1>1, <1>2, <2>1 DEF SInv, SeenAreCovered
<1>4. SeenAreCovered'
  BY <1>1, <1>2, <1>3, OthersCovered DEF SInv, SeenAreCovered
<1>5. DataOK'
  BY <1>1 DEF SInv, DataOK, Event, Telemetry
<1> QED
  BY <1>2, <1>4, <1>5

\* Steps of an instance, a worker or the clock that concern no call.
LEMMA QuietKeeps ==
    ASSUME SInv, UNCHANGED <<call, accepted, lost, env, expiry>>,
           boots' \in 0 .. boots, up' \in [Instances -> {"down", "up", "draining"}],
           \A i \in Instances : cache'[i] \subseteq cache[i]
    PROVE  CallsOK' /\ PassedOnly' /\ SeenAreCovered'
<1>1. PassedOnly' /\ \A k : Covered(k) => Covered(k)'
  BY CallsRest
<1>2. CallsOK'
  <2>1. PICK c \in Cases : env = c.env /\ DOMAIN call = c.sent /\ boots \in 0 .. c.boots
    BY DEF SInv, CallsOK
  <2>2. c.boots \in Nat
    BY ServiceAssumption
  <2>3. boots' \in 0 .. c.boots
    BY <2>1, <2>2
  <2> QED
    BY <2>1, <2>3 DEF SInv, CallsOK
<1>3. Key' = Key /\ Telemetry' = Telemetry
  BY DEF Key, Telemetry, Event
<1>4. SeenAreCovered'
  BY <1>1, <1>3 DEF SInv, SeenAreCovered
<1> QED
  BY <1>1, <1>2, <1>4

LEMMA BootsBounded ==
    ASSUME SInv
    PROVE  boots \in Nat /\ boots \in 0 .. boots /\ (boots > 0 => boots - 1 \in 0 .. boots)
<1>1. PICK c \in Cases : boots \in 0 .. c.boots
  BY DEF SInv, CallsOK
<1> QED
  BY <1>1, ServiceAssumption

LEMMA InstanceKeeps ==
    ASSUME SInv, NEW i \in Instances,
           \/ Boot(i) \/ Stop(i)
           \/ \E q \in unsaved[i] : Write(i, q[1], q[2])
           \/ \E k \in cache[i] : Forget(i, k)
    PROVE  CallsOK' /\ PassedOnly' /\ SeenAreCovered' /\ DataOK'
<1> USE DEF process, data, redis
<1>1. boots \in 0 .. boots /\ up \in [Instances -> {"down", "up", "draining"}]
  BY BootsBounded DEF SInv, CallsOK
<1>2. Event' = Event
  BY DEF Event, Telemetry
<1>3. CASE Boot(i)
  <2>1. UNCHANGED <<call, accepted, lost, env, expiry, cache, unsaved, stored, dropped>>
    BY <1>3 DEF Boot
  <2>2. boots' \in 0 .. boots /\ up' \in [Instances -> {"down", "up", "draining"}]
    BY <1>1, <1>3, BootsBounded DEF Boot
  <2> QED
    BY <1>2, <2>1, <2>2, QuietKeeps DEF SInv, DataOK
<1>4. CASE Stop(i)
  <2>1. UNCHANGED <<call, accepted, lost, env, expiry, boots, cache, unsaved, stored, dropped>>
    BY <1>4 DEF Stop, NoRedis
  <2>2. up' \in [Instances -> {"down", "up", "draining"}]
    BY <1>1, <1>4 DEF Stop
  <2> QED
    BY <1>1, <1>2, <2>1, <2>2, QuietKeeps DEF SInv, DataOK
<1>5. ASSUME NEW q \in unsaved[i], Write(i, q[1], q[2])
      PROVE  CallsOK' /\ PassedOnly' /\ SeenAreCovered' /\ DataOK'
  <2>1. UNCHANGED <<call, accepted, lost, env, expiry, boots, up, cache>>
    BY <1>5 DEF Write, NoRedis
  <2>2. unsaved \in [Instances -> SUBSET (accepted \X KnownPlugins)]
    BY DEF SInv, DataOK
  <2>3. q[1] \in accepted /\ q[2] \in KnownPlugins
    BY <2>2
  <2>4. /\ unsaved' = [unsaved EXCEPT ![i] = @ \ {<<q[1], q[2]>>}]
        /\ stored' \subseteq stored \cup {<<ToDocument(Event[q[1]]), q[2]>>}
        /\ dropped' \subseteq dropped \cup {<<q[1], q[2]>>}
    BY <1>5 DEF Write
  <2>5. unsaved' \in [Instances -> SUBSET (accepted \X KnownPlugins)]
    BY <2>2, <2>4
  <2>6. stored' \subseteq {ToDocument(Event[b]) : b \in accepted} \X KnownPlugins
    BY <2>3, <2>4 DEF SInv, DataOK
  <2>7. dropped' \subseteq accepted \X KnownPlugins
    BY <2>3, <2>4 DEF SInv, DataOK
  <2>8. DataOK'
    BY <1>2, <2>1, <2>5, <2>6, <2>7 DEF SInv, DataOK
  <2> QED
    BY <1>1, <2>1, <2>8, QuietKeeps
<1>6. ASSUME NEW k \in cache[i], Forget(i, k)
      PROVE  CallsOK' /\ PassedOnly' /\ SeenAreCovered' /\ DataOK'
  <2>1. UNCHANGED <<call, accepted, lost, env, expiry, boots, up, unsaved, stored, dropped>>
    BY <1>6 DEF Forget, NoRedis
  <2>2. cache \in [Instances -> SUBSET Keys]
    BY DEF SInv, DataOK
  <2>3. /\ cache' \in [Instances -> SUBSET Keys]
        /\ \A j \in Instances : cache'[j] \subseteq cache[j]
    BY <1>6, <2>2 DEF Forget
  <2> QED
    BY <1>1, <1>2, <2>1, <2>3, QuietKeeps DEF SInv, DataOK
<1> QED
  BY <1>3, <1>4, <1>5, <1>6

\* A process that ends: the calls in it are cut off, and the keys of those that
\* had marked theirs are lost.
LEMMA GoneKeeps ==
    ASSUME SInv, NEW i \in Instances, NEW keys \in SUBSET Keys, Halfway(i) \subseteq keys,
           Gone(i, keys), expiry' = expiry
    PROVE  CallsOK' /\ PassedOnly' /\ SeenAreCovered' /\ DataOK'
<1> DEFINE cut == {a \in DOMAIN call : call[a].at = i /\ call[a].stage \in Submitting}
<1>1. /\ DOMAIN call' = DOMAIN call
      /\ \A a \in cut : call'[a] = [call[a] EXCEPT !.stage = "Unavailable"]
      /\ \A a \in DOMAIN call : a \notin cut => call'[a] = call[a]
  BY DEF Gone, Submitting
<1>2. /\ accepted' = accepted /\ env' = env /\ boots' = boots /\ stored' = stored
      /\ dropped' = dropped /\ lost' = lost \cup keys
      /\ up' = [up EXCEPT ![i] = "down"] /\ cache' = [cache EXCEPT ![i] = {}]
      /\ unsaved' = [unsaved EXCEPT ![i] = {}]
  BY DEF Gone
<1>3. \A a \in cut : /\ call'[a] \in [stage : Stages, at : Instances \cup {None}]
                     /\ call'[a].stage = "Unavailable" /\ call'[a].at = call[a].at
  <2> SUFFICES ASSUME NEW a \in cut
               PROVE  /\ call'[a] \in [stage : Stages, at : Instances \cup {None}]
                      /\ call'[a].stage = "Unavailable" /\ call'[a].at = call[a].at
    OBVIOUS
  <2>1. call[a] \in [stage : Stages, at : Instances \cup {None}] /\ "Unavailable" \in Stages
    BY DEF SInv, CallsOK, Stages
  <2>2. call'[a] = [call[a] EXCEPT !.stage = "Unavailable"]
    BY <1>1
  <2> QED
    BY <2>1, <2>2
<1>4. CallsOK'
  <2>1. \A a \in cut : call[a].at # None
    BY ServiceAssumption
  <2>2. \A a \in DOMAIN call' :
            /\ call'[a] \in [stage : Stages, at : Instances \cup {None}]
            /\ (call'[a].at = None <=> call'[a].stage = "unsent")
    BY <1>1, <1>3, <2>1 DEF SInv, CallsOK
  <2>3. up' \in [Instances -> {"down", "up", "draining"}]
    BY <1>2 DEF SInv, CallsOK
  <2> QED
    BY <1>1, <1>2, <2>2, <2>3 DEF SInv, CallsOK
<1>5. PassedOnly'
  <2>1. \A a : Passed(a) => Passed(a)'
    BY <1>2 DEF Passed, Telemetry, Event
  <2>2. "Unavailable" \notin Submitting
    BY DEF Submitting
  <2> HIDE DEF cut
  <2>3. \A a \in DOMAIN call' : call'[a].stage \in Submitting => Passed(a)'
    BY <1>1, <1>3, <2>1, <2>2 DEF SInv, PassedOnly
  <2>4. \A a \in accepted' :
            Passed(a)' /\ a \in DOMAIN call' /\ call'[a].stage \in {"reply", "OK", "Unavailable"}
    BY <1>1, <1>2, <1>3, <2>1 DEF SInv, PassedOnly
  <2> QED
    BY <2>3, <2>4 DEF PassedOnly
<1>6. \A k : Covered(k) => Covered(k)'
  <2>1. ASSUME NEW b \in DOMAIN call, call[b].stage = "send"
        PROVE  call'[b].stage = "send" \/ Key[b] \in lost'
    <3>1. CASE b \in cut
      <4>1. call[b] = [stage |-> "send", at |-> i]
        BY <2>1, <3>1 DEF SInv, CallsOK
      <4> QED
        BY <1>2, <4>1 DEF Halfway
    <3>2. CASE b \notin cut
      BY <1>1, <2>1, <3>2
    <3> QED
      BY <3>1, <3>2
  <2> QED
    BY <1>1, <1>2, <2>1, CoveredStays
<1>7. SeenAreCovered'
  <2>1. Key' = Key /\ Telemetry' = Telemetry
    BY DEF Key, Telemetry, Event
  <2>2. \A a \in DOMAIN call : call'[a].stage \in {"reply", "OK"} => call'[a] = call[a]
    BY <1>1, <1>3
  <2>3. cache \in [Instances -> SUBSET Keys]
    BY DEF SInv, DataOK
  <2>4. \A j \in Instances : cache'[j] \subseteq cache[j]
    BY <1>2, <2>3
  <2>5. \A a \in DOMAIN call' :
            a \in Telemetry' /\ call'[a].stage \in {"reply", "OK"} => Covered(Key[a])'
    BY <1>1, <1>6, <2>1, <2>2 DEF SInv, SeenAreCovered
  <2> QED
    BY <1>6, <2>4, <2>5 DEF SInv, SeenAreCovered
<1>8. DataOK'
  <2>1. Event' = Event
    BY DEF Event, Telemetry
  <2> QED
    BY <1>2, <2>1 DEF SInv, DataOK
<1> QED
  BY <1>4, <1>5, <1>7, <1>8

LEMMA EndsKeep ==
    ASSUME SInv, NEW i \in Instances, Crash(i) \/ Exit(i)
    PROVE  CallsOK' /\ PassedOnly' /\ SeenAreCovered' /\ DataOK'
<1>1. Halfway(i) \subseteq Keys
  <2> SUFFICES ASSUME NEW a \in DOMAIN call, call[a] = [stage |-> "send", at |-> i]
               PROVE  Key[a] \in Keys
    BY DEF Halfway
  <2>1. call[a].stage \in Submitting
    BY DEF Submitting
  <2> QED
    BY <2>1, AtInstance, KeyOf
<1>2. Queued(i) \subseteq Keys
  <2> SUFFICES ASSUME NEW q \in unsaved[i] PROVE Key[q[1]] \in Keys
    BY DEF Queued
  <2>1. q[1] \in accepted
    BY DEF SInv, DataOK
  <2> QED
    BY <2>1, KeyOf DEF SInv, PassedOnly
<1>3. CASE Crash(i)
  BY <1>1, <1>2, <1>3, GoneKeeps DEF Crash
<1>4. CASE Exit(i)
  BY <1>1, <1>4, GoneKeeps DEF Exit, Close
<1> QED
  BY <1>3, <1>4

-----------------------------------------------------------------------------
(* The invariant *)

\* To Redis the service is a number of RedisDedup clients that also reconnect.
LEMMA RedisSteps == SInv /\ [ServiceNext]_serviceVars => [Next]_vars \/ Reconnect
<1> SUFFICES ASSUME SInv, [ServiceNext]_serviceVars PROVE [Next]_vars \/ Reconnect
  OBVIOUS
<1>1. NoRedis => Reconnect
  BY NoRedisReconnects
<1>2. CASE Tick \/ Rest \/ UNCHANGED serviceVars
  BY <1>2 DEF Tick, Rest, serviceVars, Next
<1>3. ASSUME NEW a \in DOMAIN call, Step(a) PROVE [Next]_vars \/ Reconnect
  <2>1. CASE CheckDuplicate(a) \/ MarkSeen(a)
    <3>1. call[a].stage \in Submitting
      BY <2>1 DEF CheckDuplicate, MarkSeen, Submitting
    <3>2. call[a].at \in Instances /\ Event[a] \in Submissions
      BY <3>1, AtInstance DEF Passed
    <3> QED
      BY <1>1, <2>1, <3>2 DEF CheckDuplicate, MarkSeen, Next
  <2>2. CASE Send(a) \/ Reply(a)
    BY <1>1, <2>2 DEF Send, Reply
  <2> QED
    BY <1>3, <2>1, <2>2 DEF Step
<1>4. ASSUME NEW a \in DOMAIN call, NEW i \in Instances, Arrive(a, i) PROVE Reconnect
  BY <1>1, <1>4 DEF Arrive
<1>5. ASSUME NEW i \in Instances, Boot(i) \/ Crash(i) PROVE Reconnect
  BY <1>5 DEF Boot, Crash, Reconnect
<1>6. ASSUME NEW i \in Instances, Exit(i) PROVE Next
  BY <1>6 DEF Exit, Next
<1>7. ASSUME NEW i \in Instances,
             \/ Stop(i)
             \/ \E q \in unsaved[i] : Write(i, q[1], q[2])
             \/ \E k \in cache[i] : Forget(i, k)
      PROVE  Reconnect
  BY <1>1, <1>7 DEF Stop, Write, Forget
<1> QED
  BY <1>2, <1>3, <1>4, <1>5, <1>6, <1>7 DEF ServiceNext

LEMMA ServiceInitially == ServiceInit => SInv
<1> SUFFICES ASSUME ServiceInit PROVE SInv
  OBVIOUS
<1>1. PICK c \in Cases :
          env = c.env /\ boots = c.boots /\ call = [a \in c.sent |-> [stage |-> "unsent", at |-> None]]
  BY DEF ServiceInit
<1>2. CallsOK
  <2>1. boots \in 0 .. c.boots
    BY <1>1, ServiceAssumption
  <2> QED
    BY <1>1, <2>1 DEF ServiceInit, CallsOK, Stages
<1>3. PassedOnly
  BY <1>1 DEF ServiceInit, PassedOnly, Submitting
<1>4. SeenAreCovered
  BY <1>1 DEF ServiceInit, Init, SeenAreCovered
<1>5. DataOK
  BY DEF ServiceInit, DataOK
<1>6. ExpiresAfterTTL
  BY Initially DEF ServiceInit
<1> QED
  BY <1>2, <1>3, <1>4, <1>5, <1>6 DEF SInv

LEMMA ServiceInductive == SInv /\ [ServiceNext]_serviceVars => SInv'
<1> SUFFICES ASSUME SInv, [ServiceNext]_serviceVars PROVE SInv'
  OBVIOUS
<1>1. ExpiresAfterTTL'
  BY RedisSteps, Inductive DEF SInv
<1>2. ASSUME Tick \/ Rest \/ UNCHANGED serviceVars
      PROVE  CallsOK' /\ PassedOnly' /\ SeenAreCovered' /\ DataOK'
  <2>1. UNCHANGED <<call, accepted, lost, env, expiry, boots, up, cache, unsaved, stored, dropped>>
    BY <1>2 DEF Tick, Advance, Rest, serviceVars, vars, process, data
  <2>2. Event' = Event
    BY DEF Event, Telemetry
  <2>3. boots' \in 0 .. boots /\ up' \in [Instances -> {"down", "up", "draining"}]
    BY <2>1, BootsBounded DEF SInv, CallsOK
  <2> QED
    BY <2>1, <2>2, <2>3, QuietKeeps DEF SInv, DataOK
<1>3. CallsOK' /\ PassedOnly' /\ SeenAreCovered' /\ DataOK'
  <2>1. ASSUME NEW a \in DOMAIN call, Step(a)
        PROVE  CallsOK' /\ PassedOnly' /\ SeenAreCovered' /\ DataOK'
    BY <2>1, CheckKeeps, MarkKeeps, SendKeeps, ReplyKeeps DEF Step
  <2>2. ASSUME NEW a \in DOMAIN call, NEW i \in Instances, Arrive(a, i)
        PROVE  CallsOK' /\ PassedOnly' /\ SeenAreCovered' /\ DataOK'
    BY <2>2, ArriveKeeps
  <2>3. ASSUME NEW i \in Instances,
               \/ Boot(i) \/ Stop(i) \/ Crash(i) \/ Exit(i)
               \/ \E q \in unsaved[i] : Write(i, q[1], q[2])
               \/ \E k \in cache[i] : Forget(i, k)
        PROVE  CallsOK' /\ PassedOnly' /\ SeenAreCovered' /\ DataOK'
    BY <2>3, InstanceKeeps, EndsKeep
  <2> QED
    BY <1>2, <2>1, <2>2, <2>3 DEF ServiceNext
<1> QED
  BY <1>1, <1>3 DEF SInv

LEMMA ServiceInvariance == ServiceSpec => []SInv
  BY ServiceInitially, ServiceInductive, PTL DEF ServiceSpec

-----------------------------------------------------------------------------
(* The list of plugins.  Split is defined by recursion; the proofs look at  *)
(* the least place at which it would not be as it should.                   *)

LEMMA LeastOf ==
    ASSUME NEW T, T \subseteq Nat, T # {}
    PROVE  \E n \in T : \A m \in Nat : m < n => m \notin T
<1> DEFINE R == {ss \in Nat \X Nat : ss[1] < ss[2]}
<1>1. IsWellFoundedOn(R, Nat)
  BY NatLessThanWellFounded DEF OpToRel
<1>2. \A m, n \in Nat : m < n => <<m, n>> \in R
  OBVIOUS
<1> HIDE DEF R
<1>3. PICK n \in T : \A m \in T : ~(<<m, n>> \in R)
  BY <1>1, WFMin
<1> QED
  BY <1>2, <1>3

\* The two tokens that a list of plugins has besides the names.
Comma == ","
Blank == " "

\* The parts of the first n tokens, if g has those of the first n - 1.
Further(s, g, n) ==
    IF n = 0 THEN <<<<>>>>
    ELSE IF s[n] = Comma THEN Append(g[n - 1], <<>>)
    ELSE [g[n - 1] EXCEPT ![Len(g[n - 1])] = Append(@, s[n])]

LEMMA SplitExists ==
    ASSUME NEW T, NEW s \in Seq(T)
    PROVE  \E g : /\ \A n \in 0 .. Len(s) : g[n] = Further(s, g, n)
                 /\ Split(s) = g[Len(s)]
<1> DEFINE Upto(g, m) == g = [n \in 0 .. m |-> Further(s, g, n)]
           Missing == {m \in Nat : ~ \E g : Upto(g, m)}
<1>1. Missing = {}
  <2> SUFFICES ASSUME Missing # {} PROVE FALSE
    OBVIOUS
  <2>1. PICK m \in Missing : \A n \in Nat : n < m => n \notin Missing
    <3>1. Missing \subseteq Nat
      OBVIOUS
    <3> HIDE DEF Missing
    <3> QED BY <3>1, LeastOf
  <2>2. CASE m = 0
    <3>1. Upto([n \in 0 .. 0 |-> <<<<>>>>], 0)
      BY DEF Further
    <3> QED BY <2>2, <3>1
  <2>3. CASE m # 0
    <3>1. m \in Nat /\ m - 1 \in Nat /\ m - 1 < m
      BY <2>3
    <3>2. PICK g : Upto(g, m - 1)
      BY <2>1, <3>1
    <3> DEFINE h == [n \in 0 .. m |-> Further(s, g, n)]
    <3>3. \A n \in 0 .. m - 1 : h[n] = g[n]
      BY <3>1, <3>2
    <3>4. \A n \in 0 .. m : Further(s, g, n) = Further(s, h, n)
      <4> TAKE n \in 0 .. m
      <4>1. CASE n = 0
        BY <4>1 DEF Further
      <4>2. CASE n # 0
        <5>1. n - 1 \in 0 .. m - 1
          BY <3>1, <4>2
        <5>2. h[n - 1] = g[n - 1]
          BY <3>3, <5>1
        <5> HIDE DEF h
        <5> QED BY <4>2, <5>2 DEF Further
      <4> QED BY <4>1, <4>2
    <3>5. Upto(h, m)
      BY <3>4
    <3> QED BY <2>1, <3>5
  <2> QED BY <2>2, <2>3
<1>2. Len(s) \in Nat
  OBVIOUS
<1>3. \E g : Upto(g, Len(s))
  BY <1>1, <1>2
<1>4. Upto(CHOOSE g : Upto(g, Len(s)), Len(s))
  <2> HIDE DEF Upto
  <2> QED BY <1>3
<1>5. Split(s) = (CHOOSE g : Upto(g, Len(s)))[Len(s)]
  BY DEF Split, Further, Comma
<1> HIDE DEF Upto
<1>6. PICK g : Upto(g, Len(s)) /\ Split(s) = g[Len(s)]
  BY <1>4, <1>5
<1>7. \A n \in 0 .. Len(s) : g[n] = Further(s, g, n)
  BY <1>6, Zenon DEF Upto
<1> QED
  BY <1>6, <1>7

\* No comma after m and before n, and one at m, or the beginning.
Piece(s, m, n) == (m = 0 \/ s[m] = Comma) /\ \A x \in m + 1 .. n - 1 : s[x] # Comma

\* A part holds the tokens after m up to n.
Reads(T, s, part, m, n) ==
    /\ part \in Seq(T) /\ Len(part) = n - m
    /\ \A j \in 1 .. n - m : part[j] = s[m + j]

\* The last piece is the last part, and the others are the other parts.
SplitSoFar(T, s, parts, n) ==
    /\ parts \in Seq(Seq(T)) /\ Len(parts) >= 1
    /\ \A m \in 0 .. n : Piece(s, m, n + 1) => Reads(T, s, parts[Len(parts)], m, n)
    /\ \A k \in 1 .. n : \A m \in 0 .. k - 1 :
           s[k] = Comma /\ Piece(s, m, k) =>
               \E i \in 1 .. Len(parts) - 1 : Reads(T, s, parts[i], m, k - 1)
    /\ \E m \in 0 .. n : Piece(s, m, n + 1)
    /\ \A i \in 1 .. Len(parts) - 1 : \E k \in 1 .. n : \E m \in 0 .. k - 1 :
           s[k] = Comma /\ Piece(s, m, k) /\ Reads(T, s, parts[i], m, k - 1)

LEMMA SplitAtComma ==
    ASSUME NEW T, NEW s \in Seq(T), NEW n \in 1 .. Len(s), NEW parts, SplitSoFar(T, s, parts, n - 1),
           s[n] = Comma
    PROVE  SplitSoFar(T, s, Append(parts, <<>>), n)
<1> DEFINE longer == Append(parts, <<>>)
<1>0. Len(s) \in Nat /\ n \in Nat /\ n - 1 + 1 = n
  OBVIOUS
<1>1. /\ parts \in Seq(Seq(T)) /\ Len(parts) \in Nat /\ Len(parts) >= 1
  BY DEF SplitSoFar
<1>2. /\ longer \in Seq(Seq(T)) /\ Len(longer) = Len(parts) + 1
      /\ longer[Len(longer)] = <<>> /\ \A i \in 1 .. Len(parts) : longer[i] = parts[i]
  BY <1>1
<1> HIDE DEF longer
<1>3. ASSUME NEW m \in 0 .. n, Piece(s, m, n + 1) PROVE Reads(T, s, <<>>, m, n)
  <2>1. m = n
    BY <1>0, <1>3 DEF Piece
  <2> QED BY <1>0, <2>1 DEF Reads
<1>4. ASSUME NEW k \in 1 .. n, NEW m \in 0 .. k - 1, s[k] = Comma, Piece(s, m, k)
      PROVE  \E i \in 1 .. Len(longer) - 1 : Reads(T, s, longer[i], m, k - 1)
  <2>1. \E i \in 1 .. Len(parts) : Reads(T, s, parts[i], m, k - 1)
    <3>1. CASE k = n
      <4>1. m \in 0 .. n - 1 /\ Piece(s, m, n - 1 + 1)
        BY <1>0, <1>4, <3>1
      <4>2. Reads(T, s, parts[Len(parts)], m, n - 1)
        BY <4>1 DEF SplitSoFar
      <4> QED BY <1>1, <3>1, <4>2
    <3>2. CASE k # n
      <4>1. k \in 1 .. n - 1
        BY <1>0, <3>2
      <4>2. PICK i \in 1 .. Len(parts) - 1 : Reads(T, s, parts[i], m, k - 1)
        BY <1>4, <4>1 DEF SplitSoFar
      <4> QED BY <1>1, <4>2
    <3> QED BY <3>1, <3>2
  <2>2. PICK i \in 1 .. Len(parts) : Reads(T, s, parts[i], m, k - 1)
    BY <2>1
  <2>3. i \in 1 .. Len(longer) - 1 /\ longer[i] = parts[i]
    BY <1>1, <1>2
  <2> QED BY <2>2, <2>3, Zenon
<1>5. n \in 0 .. n /\ Piece(s, n, n + 1)
  BY <1>0 DEF Piece
<1>6. ASSUME NEW i \in 1 .. Len(longer) - 1
      PROVE  \E k \in 1 .. n : \E m \in 0 .. k - 1 :
                 s[k] = Comma /\ Piece(s, m, k) /\ Reads(T, s, longer[i], m, k - 1)
  <2>1. i \in 1 .. Len(parts) /\ longer[i] = parts[i]
    BY <1>1, <1>2
  <2>2. CASE i = Len(parts)
    <3>1. PICK m \in 0 .. n - 1 : Piece(s, m, n - 1 + 1)
      BY DEF SplitSoFar
    <3>2. Reads(T, s, parts[i], m, n - 1) /\ Piece(s, m, n)
      BY <1>0, <2>2, <3>1 DEF SplitSoFar
    <3>3. n \in 1 .. n
      BY <1>0
    <3> QED BY <2>1, <3>2, <3>3
  <2>3. CASE i # Len(parts)
    <3>1. i \in 1 .. Len(parts) - 1
      BY <1>1, <2>1, <2>3
    <3>2. PICK k \in 1 .. n - 1 : \E m \in 0 .. k - 1 :
              s[k] = Comma /\ Piece(s, m, k) /\ Reads(T, s, parts[i], m, k - 1)
      BY <3>1 DEF SplitSoFar
    <3>3. k \in 1 .. n
      BY <1>0
    <3> QED BY <2>1, <3>2, <3>3
  <2> QED BY <2>2, <2>3
<1>7. SplitSoFar(T, s, longer, n)
  BY <1>1, <1>2, <1>3, <1>4, <1>5, <1>6 DEF SplitSoFar
<1> QED
  BY <1>7 DEF longer

LEMMA SplitWithin ==
    ASSUME NEW T, NEW s \in Seq(T), NEW n \in 1 .. Len(s), NEW parts, SplitSoFar(T, s, parts, n - 1),
           s[n] # Comma
    PROVE  SplitSoFar(T, s, [parts EXCEPT ![Len(parts)] = Append(@, s[n])], n)
<1> DEFINE last == parts[Len(parts)]
           longer == [parts EXCEPT ![Len(parts)] = Append(@, s[n])]
<1>0. Len(s) \in Nat /\ n \in Nat /\ n - 1 + 1 = n /\ s[n] \in T
  OBVIOUS
<1>1. /\ parts \in Seq(Seq(T)) /\ Len(parts) \in Nat /\ Len(parts) >= 1
      /\ last \in Seq(T) /\ Len(last) \in Nat
  BY DEF SplitSoFar
<1>2. /\ longer \in Seq(Seq(T)) /\ Len(longer) = Len(parts)
      /\ longer[Len(parts)] = Append(last, s[n])
      /\ \A i \in 1 .. Len(parts) - 1 : longer[i] = parts[i]
  BY <1>0, <1>1
<1>3. ASSUME NEW m \in 0 .. n, Piece(s, m, n + 1) PROVE Reads(T, s, Append(last, s[n]), m, n)
  <2>1. m \in 0 .. n - 1 /\ Piece(s, m, n - 1 + 1)
    BY <1>0, <1>3 DEF Piece
  <2>2. Reads(T, s, last, m, n - 1)
    BY <2>1 DEF SplitSoFar
  <2>3. /\ Append(last, s[n]) \in Seq(T) /\ Len(Append(last, s[n])) = n - m
        /\ Append(last, s[n])[n - m] = s[n]
        /\ \A j \in 1 .. n - m - 1 : Append(last, s[n])[j] = last[j]
    <3>1. Len(last) = n - m - 1 /\ n - m - 1 \in Nat /\ Len(last) + 1 = n - m
      BY <1>0, <2>1, <2>2 DEF Reads
    <3> HIDE DEF last
    <3>2. /\ Append(last, s[n]) \in Seq(T) /\ Len(Append(last, s[n])) = Len(last) + 1
          /\ Append(last, s[n])[Len(last) + 1] = s[n]
      BY <1>0, <1>1
    <3>3. ASSUME NEW j \in 1 .. n - m - 1 PROVE Append(last, s[n])[j] = last[j]
      <4>1. j \in 1 .. Len(last)
        BY <3>1
      <4> QED BY <1>0, <1>1, <4>1
    <3>4. Append(last, s[n])[n - m] = s[n] /\ Len(Append(last, s[n])) = n - m
      BY <3>1, <3>2, Zenon
    <3> QED BY <3>2, <3>3, <3>4, Zenon
  <2>4. \A j \in 1 .. n - m - 1 : last[j] = s[m + j]
    <3>1. n - 1 - m = n - m - 1
      BY <1>0, <2>1
    <3>2. \A j \in 1 .. n - 1 - m : last[j] = s[m + j]
      BY <2>2, Zenon DEF Reads
    <3> QED BY <3>1, <3>2, Zenon
  <2>5. \A j \in 1 .. n - m : j = n - m \/ j \in 1 .. n - m - 1
    BY <1>0, <2>1
  <2>6. m + (n - m) = n
    BY <1>0, <2>1
  <2> HIDE DEF last
  <2> QED BY <2>3, <2>4, <2>5, <2>6 DEF Reads
<1>4. ASSUME NEW k \in 1 .. n, NEW m \in 0 .. k - 1, s[k] = Comma, Piece(s, m, k)
      PROVE  \E i \in 1 .. Len(longer) - 1 : Reads(T, s, longer[i], m, k - 1)
  <2>1. k \in 1 .. n - 1
    BY <1>0, <1>4
  <2>2. PICK i \in 1 .. Len(parts) - 1 : Reads(T, s, parts[i], m, k - 1)
    BY <1>4, <2>1 DEF SplitSoFar
  <2> HIDE DEF longer
  <2> QED BY <1>2, <2>2
<1>5. \E m \in 0 .. n : Piece(s, m, n + 1)
  <2>1. PICK m \in 0 .. n - 1 : Piece(s, m, n - 1 + 1)
    BY DEF SplitSoFar
  <2>2. m \in 0 .. n /\ Piece(s, m, n + 1)
    BY <1>0, <2>1 DEF Piece
  <2> QED BY <2>2
<1>6. ASSUME NEW i \in 1 .. Len(parts) - 1
      PROVE  \E k \in 1 .. n : \E m \in 0 .. k - 1 :
                 s[k] = Comma /\ Piece(s, m, k) /\ Reads(T, s, longer[i], m, k - 1)
  <2> HIDE DEF longer
  <2>1. longer[i] = parts[i]
    BY <1>2
  <2>2. PICK k \in 1 .. n - 1 : \E m \in 0 .. k - 1 :
            s[k] = Comma /\ Piece(s, m, k) /\ Reads(T, s, parts[i], m, k - 1)
    BY DEF SplitSoFar
  <2>3. k \in 1 .. n
    BY <1>0
  <2> QED BY <2>1, <2>2, <2>3
<1> HIDE DEF longer, last
<1>7. SplitSoFar(T, s, longer, n)
  BY <1>1, <1>2, <1>3, <1>4, <1>5, <1>6 DEF SplitSoFar
<1> QED
  BY <1>7 DEF longer

LEMMA SplitPieces ==
    ASSUME NEW T, NEW s \in Seq(T)
    PROVE  SplitSoFar(T, s, Split(s), Len(s))
<1>1. PICK g : /\ \A n \in 0 .. Len(s) : g[n] = Further(s, g, n)
               /\ Split(s) = g[Len(s)]
  BY SplitExists
<1>0. Len(s) \in Nat
  OBVIOUS
<1> DEFINE Wrong == {n \in 0 .. Len(s) : ~SplitSoFar(T, s, g[n], n)}
<1>2. Wrong = {}
  <2> SUFFICES ASSUME Wrong # {} PROVE FALSE
    OBVIOUS
  <2>1. PICK m \in Wrong : \A n \in Nat : n < m => n \notin Wrong
    <3>1. Wrong \subseteq Nat
      OBVIOUS
    <3> HIDE DEF Wrong
    <3> QED BY <3>1, LeastOf
  <2>2. m \in 0 .. Len(s) /\ ~SplitSoFar(T, s, g[m], m) /\ g[m] = Further(s, g, m)
    BY <1>1, <2>1
  <2>3. CASE m = 0
    <3>1. g[m] = <<<<>>>>
      BY <2>2, <2>3 DEF Further
    <3>2. Reads(T, s, <<>>, 0, 0)
      BY DEF Reads
    <3>3. Piece(s, 0, 1)
      BY DEF Piece
    <3>4. SplitSoFar(T, s, <<<<>>>>, 0)
      BY <3>2, <3>3 DEF SplitSoFar
    <3> QED BY <2>2, <2>3, <3>1, <3>4
  <2>4. CASE m # 0
    <3>1. m \in Nat /\ m - 1 \in 0 .. Len(s) /\ m - 1 < m /\ m - 1 \in Nat /\ m \in 1 .. Len(s)
      BY <1>0, <2>2, <2>4
    <3>2. SplitSoFar(T, s, g[m - 1], m - 1)
      <4>1. m - 1 \notin Wrong
        <5> HIDE DEF Wrong
        <5> QED BY <2>1, <3>1
      <4> QED BY <3>1, <4>1
    <3>3. g[m] = IF s[m] = Comma THEN Append(g[m - 1], <<>>)
                 ELSE [g[m - 1] EXCEPT ![Len(g[m - 1])] = Append(@, s[m])]
      BY <2>2, <2>4 DEF Further
    <3>4. CASE s[m] = Comma
      <4>1. SplitSoFar(T, s, Append(g[m - 1], <<>>), m)
        BY <3>1, <3>2, <3>4, SplitAtComma
      <4> QED BY <2>2, <3>3, <3>4, <4>1
    <3>5. CASE s[m] # Comma
      <4>1. SplitSoFar(T, s, [g[m - 1] EXCEPT ![Len(g[m - 1])] = Append(@, s[m])], m)
        BY <3>1, <3>2, <3>5, SplitWithin
      <4> QED BY <2>2, <3>3, <3>5, <4>1
    <3> QED BY <3>4, <3>5
  <2> QED BY <2>3, <2>4
<1> QED
  BY <1>0, <1>1, <1>2

LEMMA SplitReads ==
    ASSUME NEW T, NEW s \in Seq(T), NEW m \in 0 .. Len(s) + 1, NEW n \in 0 .. Len(s) + 1, m < n,
           Piece(s, m, n), n \in DOMAIN s => s[n] = Comma
    PROVE  \E part \in ToSet(Split(s)) : Reads(T, s, part, m, n - 1)
<1> DEFINE parts == Split(s)
<1>1. SplitSoFar(T, s, parts, Len(s))
  BY SplitPieces
<1> HIDE DEF parts
<1>2. Len(s) \in Nat /\ DOMAIN s = 1 .. Len(s)
  OBVIOUS
<1>3. Len(parts) \in Nat /\ Len(parts) >= 1 /\ DOMAIN parts = 1 .. Len(parts)
  BY <1>1 DEF SplitSoFar
<1>4. \E i \in 1 .. Len(parts) : Reads(T, s, parts[i], m, n - 1)
  <2>1. CASE n = Len(s) + 1
    <3>1. m \in 0 .. Len(s) /\ n - 1 = Len(s)
      BY <1>2, <2>1
    <3>2. Reads(T, s, parts[Len(parts)], m, Len(s))
      BY <1>1, <2>1, <3>1 DEF SplitSoFar
    <3> QED BY <1>3, <3>1, <3>2
  <2>2. CASE n # Len(s) + 1
    <3>1. n \in 1 .. Len(s) /\ m \in 0 .. n - 1
      BY <1>2, <2>2
    <3>2. PICK i \in 1 .. Len(parts) - 1 : Reads(T, s, parts[i], m, n - 1)
      BY <1>1, <1>2, <3>1 DEF SplitSoFar
    <3> QED BY <1>3, <3>2
  <2> QED BY <2>1, <2>2
<1> QED
  BY <1>3, <1>4 DEF ToSet, parts

LEMMA SplitMade ==
    ASSUME NEW T, NEW s \in Seq(T), NEW part \in ToSet(Split(s))
    PROVE  \E m, n \in 0 .. Len(s) + 1 :
              /\ m < n /\ Piece(s, m, n) /\ (n \in DOMAIN s => s[n] = Comma)
              /\ Reads(T, s, part, m, n - 1)
<1> DEFINE parts == Split(s)
<1>1. SplitSoFar(T, s, parts, Len(s))
  BY SplitPieces
<1>2. Len(s) \in Nat /\ DOMAIN s = 1 .. Len(s)
  OBVIOUS
<1>3. PICK i \in DOMAIN parts : part = parts[i]
  BY DEF ToSet
<1> HIDE DEF parts
<1>4. Len(parts) \in Nat /\ Len(parts) >= 1 /\ DOMAIN parts = 1 .. Len(parts)
  BY <1>1 DEF SplitSoFar
<1>5. CASE i = Len(parts)
  <2>1. PICK m \in 0 .. Len(s) : Piece(s, m, Len(s) + 1)
    BY <1>1 DEF SplitSoFar
  <2>2. Reads(T, s, part, m, Len(s))
    BY <1>1, <1>3, <1>5, <2>1 DEF SplitSoFar
  <2> DEFINE n == Len(s) + 1
  <2>3. /\ m \in 0 .. Len(s) + 1 /\ n \in 0 .. Len(s) + 1 /\ m < n /\ n \notin DOMAIN s
        /\ n - 1 = Len(s)
    BY <1>2
  <2> QED BY <2>1, <2>2, <2>3
<1>6. CASE i # Len(parts)
  <2>1. i \in 1 .. Len(parts) - 1
    BY <1>3, <1>4, <1>6
  <2>2. PICK n \in 1 .. Len(s) : \E m \in 0 .. n - 1 :
            s[n] = Comma /\ Piece(s, m, n) /\ Reads(T, s, parts[i], m, n - 1)
    BY <1>1, <2>1 DEF SplitSoFar
  <2>3. PICK m \in 0 .. n - 1 :
            s[n] = Comma /\ Piece(s, m, n) /\ Reads(T, s, parts[i], m, n - 1)
    BY <2>2
  <2>4. m \in 0 .. Len(s) + 1 /\ n \in 0 .. Len(s) + 1 /\ m < n
    BY <1>2
  <2> QED BY <1>3, <2>3, <2>4
<1> QED
  BY <1>5, <1>6

LEMMA OneToken ==
    ASSUME NEW T, NEW q \in Seq(T), Len(q) = 1
    PROVE  q = <<q[1]>>
<1>1. DOMAIN q = 1 .. 1
  OBVIOUS
<1> QED BY <1>1

\* Of a part with one token that is no space, that token is left.
LEMMA TrimsToToken ==
    ASSUME NEW T, NEW part \in Seq(T), NEW j \in DOMAIN part, part[j] # Blank,
           \A x \in DOMAIN part \ {j} : part[x] = Blank
    PROVE  TrimSpace(part) = <<part[j]>>
<1> DEFINE solid == {n \in DOMAIN part : part[n] # Blank}
<1>1. solid = {j}
  OBVIOUS
<1>2. j \in Nat /\ j >= 1 /\ j <= Len(part) /\ DOMAIN part = 1 .. Len(part) /\ Len(part) \in Nat
  OBVIOUS
<1>3. Min({j}) = j /\ Max({j}) = j
  BY <1>2 DEF Min, Max
<1>4. TrimSpace(part) = SubSeq(part, j, j)
  BY <1>1, <1>3, Zenon DEF TrimSpace, Blank
<1>5. SubSeq(part, j, j) = <<part[j]>>
  <2>1. Len(SubSeq(part, j, j)) = 1 /\ SubSeq(part, j, j)[1] = part[j]
    BY <1>2
  <2>2. SubSeq(part, j, j) \in Seq(T)
    BY <1>2
  <2> QED BY <2>1, <2>2, OneToken
<1> QED
  BY <1>4, <1>5

LEMMA Extremes ==
    ASSUME NEW b \in Nat, NEW S, S \subseteq 1 .. b, S # {}
    PROVE  /\ Min(S) \in S /\ \A y \in S : Min(S) <= y
           /\ Max(S) \in S /\ \A y \in S : Max(S) >= y
<1>0. \A y \in S : y \in Nat /\ b - y \in Nat
  OBVIOUS
<1>1. PICK x \in S : \A m \in Nat : m < x => m \notin S
  BY <1>0, LeastOf
<1>2. \A y \in S : x <= y
  BY <1>0, <1>1
<1> DEFINE R == {r \in Nat : \E y \in S : r = b - y}
<1>3. R \subseteq Nat /\ R # {}
  <2>1. b - x \in Nat
    BY <1>1
  <2> QED BY <1>1, <2>1
<1>4. PICK r \in R : \A m \in Nat : m < r => m \notin R
  <2> HIDE DEF R
  <2> QED BY <1>3, LeastOf
<1>5. PICK z \in S : r = b - z
  BY <1>4
<1>6. ASSUME NEW y \in S PROVE z >= y
  <2>1. b - y \in R /\ b - y \in Nat
    OBVIOUS
  <2>2. ~(b - y < r)
    <3> HIDE DEF R
    <3> QED BY <1>4, <2>1
  <2> QED BY <1>5, <2>2
<1> QED
  BY <1>2, <1>6 DEF Min, Max

\* A part of which one token is left has no other token than spaces.
LEMMA TrimmedFromToken ==
    ASSUME NEW T, NEW part \in Seq(T), NEW x, TrimSpace(part) = <<x>>
    PROVE  \E j \in DOMAIN part :
              part[j] = x /\ \A y \in DOMAIN part \ {j} : part[y] = Blank
<1> DEFINE solid == {n \in DOMAIN part : part[n] # Blank}
           i == Min(solid)
           j == Max(solid)
<1>1. Len(part) \in Nat /\ DOMAIN part = 1 .. Len(part) /\ solid \subseteq 1 .. Len(part)
  OBVIOUS
<1>2. Len(<<>>) = 0 /\ Len(<<x>>) = 1 /\ <<x>>[1] = x
  OBVIOUS
<1>3. /\ solid = {} => TrimSpace(part) = <<>>
      /\ solid # {} => TrimSpace(part) = SubSeq(part, i, j)
  BY DEF TrimSpace, Blank
<1>4. solid # {}
  <2> HIDE DEF solid
  <2> QED BY <1>2, <1>3
<1>5. i \in solid /\ j \in solid /\ \A y \in solid : i <= y /\ y <= j
  <2> HIDE DEF solid
  <2>1. /\ Min(solid) \in solid /\ \A y \in solid : Min(solid) <= y
        /\ Max(solid) \in solid /\ \A y \in solid : Max(solid) >= y
    BY <1>1, <1>4, Extremes
  <2>2. solid \subseteq Nat
    BY <1>1
  <2> QED BY <2>1, <2>2
<1> HIDE DEF i, j
<1>6. /\ i \in 1 .. Len(part) /\ j \in 1 .. Len(part) /\ i <= j
  BY <1>1, <1>5
<1>7. Len(SubSeq(part, i, j)) = j - i + 1 /\ SubSeq(part, i, j)[1] = part[i]
  <2>1. /\ i \in Nat /\ j \in Nat /\ i >= 1 /\ j <= Len(part) /\ j - i + 1 \in Nat
        /\ 1 \in 1 .. j - i + 1 /\ i + 1 - 1 = i
    BY <1>1, <1>6
  <2> HIDE DEF solid
  <2>2. /\ Len(SubSeq(part, i, j)) = j - i + 1
        /\ \A y \in 1 .. j - i + 1 : SubSeq(part, i, j)[y] = part[i + y - 1]
    BY <1>6, <2>1
  <2> QED BY <2>1, <2>2
<1>8. Len(SubSeq(part, i, j)) = 1 /\ SubSeq(part, i, j)[1] = x
  BY <1>2, <1>3, <1>4, Zenon
<1>9. i = j /\ part[j] = x
  BY <1>6, <1>7, <1>8
<1>10. \A y \in solid : y = j
  <2>1. \A y \in solid : y \in Nat
    BY <1>1
  <2> QED BY <1>5, <1>6, <1>9, <2>1
<1> QED
  BY <1>1, <1>6, <1>9, <1>10

\* Splitting at the commas and trimming the spaces finds a plugin whose name is
\* in the list.
LEMMA ListedAreFound ==
    ASSUME env.plugins \in Seq(STRING)
    PROVE  Listed \subseteq GetEnabledPlugins(env)
<1> SUFFICES ASSUME NEW p \in Listed PROVE p \in GetEnabledPlugins(env)
  OBVIOUS
<1> DEFINE s == env.plugins
<1>0. PICK T : s \in Seq(T)
  BY Zenon
<1>1. p \in KnownPlugins
  BY DEF Listed
<1>2. PICK m \in 0 .. Len(s) + 1, k \in 0 .. Len(s) + 1, n \in 0 .. Len(s) + 1 :
          /\ m < k /\ k < n /\ p = <<s[k]>>
          /\ \A x \in {m, n} : x \in DOMAIN s => s[x] = Comma
          /\ \A x \in (m + 1 .. n - 1) \ {k} : s[x] = Blank
  BY Zenon DEF Listed, Comma, Blank
<1> HIDE DEF s
<1>3. s[k] # Comma /\ s[k] # Blank
  BY <1>1, <1>2 DEF KnownPlugins, Comma, Blank
<1>4. Len(s) \in Nat /\ DOMAIN s = 1 .. Len(s)
  BY <1>0
<1>5. m < n /\ Piece(s, m, n) /\ (n \in DOMAIN s => s[n] = Comma)
  <2>1. Blank # Comma
    BY DEF Blank, Comma
  <2>2. \A x \in m + 1 .. n - 1 : s[x] # Comma
    BY <1>2, <1>3, <2>1
  <2>3. m = 0 \/ s[m] = Comma
    BY <1>2, <1>4
  <2> QED BY <1>2, <1>4, <2>2, <2>3 DEF Piece
<1>6. PICK part \in ToSet(Split(s)) : Reads(T, s, part, m, n - 1)
  BY <1>0, <1>5, SplitReads
<1>7. part \in Seq(T) /\ DOMAIN part = 1 .. (n - 1 - m)
  BY <1>6 DEF Reads
<1>8. k - m \in DOMAIN part /\ m + (k - m) = k
  BY <1>2, <1>4, <1>7
<1>9. part[k - m] = s[k]
  BY <1>6, <1>7, <1>8 DEF Reads
<1>10. ASSUME NEW x \in DOMAIN part \ {k - m} PROVE part[x] = Blank
  <2>1. m + x \in (m + 1 .. n - 1) \ {k}
    BY <1>2, <1>4, <1>7
  <2> QED BY <1>2, <1>6, <1>7, <2>1 DEF Reads
<1>11. TrimSpace(part) = p
  BY <1>2, <1>3, <1>7, <1>8, <1>9, <1>10, TrimsToToken
<1>12. p \in GetEnabledPlugins(env)
  <2>1. p # <<>>
    BY <1>2
  <2>2. part \in ToSet(Split(env.plugins))
    BY <1>6 DEF s
  <2> QED BY <1>11, <2>1, <2>2, Zenon DEF GetEnabledPlugins
<1> QED
  BY <1>12

\* What splitting and trimming find, and somebody knows, is in the list.
LEMMA FoundAreListed ==
    ASSUME env.plugins \in Seq(STRING)
    PROVE  GetEnabledPlugins(env) \cap KnownPlugins \subseteq Listed
<1> SUFFICES ASSUME NEW p \in GetEnabledPlugins(env), p \in KnownPlugins PROVE p \in Listed
  OBVIOUS
<1> DEFINE s == env.plugins
<1>0. PICK T : s \in Seq(T)
  BY Zenon
<1>1. PICK part \in ToSet(Split(s)) : p = TrimSpace(part)
  BY DEF GetEnabledPlugins
<1>2. PICK name : p = <<name>>
  BY DEF KnownPlugins
<1>3. PICK m \in 0 .. Len(s) + 1, n \in 0 .. Len(s) + 1 :
          /\ m < n /\ Piece(s, m, n) /\ (n \in DOMAIN s => s[n] = Comma)
          /\ Reads(T, s, part, m, n - 1)
  <2> HIDE DEF s
  <2> QED BY <1>0, SplitMade
<1> HIDE DEF s
<1>4. Len(s) \in Nat /\ DOMAIN s = 1 .. Len(s)
  BY <1>0
<1>5. part \in Seq(T) /\ DOMAIN part = 1 .. (n - 1 - m)
  BY <1>3 DEF Reads
<1>6. PICK j \in DOMAIN part : part[j] = name /\ \A y \in DOMAIN part \ {j} : part[y] = Blank
  BY <1>1, <1>2, <1>5, TrimmedFromToken
<1> DEFINE k == m + j
<1>7. k \in 0 .. Len(s) + 1 /\ m < k /\ k < n /\ s[k] = name
  BY <1>3, <1>4, <1>5, <1>6 DEF Reads
<1>8. ASSUME NEW x \in (m + 1 .. n - 1) \ {k} PROVE s[x] = Blank
  <2>1. x - m \in DOMAIN part \ {j} /\ m + (x - m) = x
    BY <1>3, <1>4, <1>5, <1>6
  <2>2. part[x - m] = s[x]
    BY <1>3, <1>5, <2>1 DEF Reads
  <2> QED BY <1>6, <2>1, <2>2
<1>9. \A x \in {m, n} : x \in DOMAIN s => s[x] = Comma
  BY <1>3, <1>4 DEF Piece
<1> HIDE DEF k
<1> QED
  BY <1>2, <1>3, <1>7, <1>8, <1>9, Zenon DEF Listed, Comma, Blank, s

\* The plugins opened are those whose names are in the list, and noop if the
\* list has none: splitting at the commas, trimming the spaces and skipping
\* what nobody knows reads the list as it is meant, whatever is in it.
THEOREM OpensTheList ==
    ASSUME env.plugins \in Seq(STRING)
    PROVE  StoragePlugins(env) = IF Listed = {} THEN {<<"noop">>} ELSE Listed
<1>1. Listed \subseteq KnownPlugins
  BY DEF Listed
<1>2. GetEnabledPlugins(env) \cap KnownPlugins \subseteq Listed
  BY FoundAreListed
<1>3. Listed \subseteq GetEnabledPlugins(env)
  BY ListedAreFound
<1> QED
  BY <1>1, <1>2, <1>3 DEF StoragePlugins

-----------------------------------------------------------------------------
(* What becomes of an event that is queued *)

\* The plugins that keep what they are given.
Keepers == StoragePlugins(env) \ {<<"noop">>}

\* A pair of event and plugin is stored, or about to be written, or its write
\* failed, or a process took the event, or another of its key, with it.
Held(b, p) ==
    \/ Key[b] \in lost
    \/ <<b, p>> \in unsaved[call[b].at]
    \/ <<ToDocument(Event[b]), p>> \in stored
    \/ <<b, p>> \in dropped

\* Work is in hand only where a process runs, and nothing vanishes from it.
AllHeld ==
    /\ \A a \in DOMAIN call : call[a].stage \in Submitting => Serving(call[a].at)
    /\ \A i \in Instances : unsaved[i] # {} => Serving(i)
    /\ \A b \in accepted : \A p \in Keepers : Held(b, p)

LEMMA AcceptedAt ==
    ASSUME SInv, NEW b \in accepted
    PROVE  /\ b \in DOMAIN call /\ call[b].at \in Instances /\ b \in Telemetry
           /\ call[b].stage # "unsent"
<1>1. b \in DOMAIN call /\ call[b].stage \in {"reply", "OK", "Unavailable"} /\ Passed(b)
  BY DEF SInv, PassedOnly
<1>2. /\ call[b] \in [stage : Stages, at : Instances \cup {None}]
      /\ call[b].at = None <=> call[b].stage = "unsent"
  BY <1>1 DEF SInv, CallsOK
<1>3. call[b].at # None /\ call[b].at \in Instances \cup {None}
  BY <1>1, <1>2
<1> QED
  BY <1>1, <1>3 DEF Passed

\* What is held stays held, if what leaves an instance is stored,
\* dropped or lost.
LEMMA HeldStays ==
    ASSUME SInv, AllHeld, UNCHANGED env, lost \subseteq lost', stored \subseteq stored',
           dropped \subseteq dropped', \A b \in accepted : call'[b].at = call[b].at,
           NEW b \in accepted, NEW p \in Keepers,
           <<b, p>> \in unsaved[call[b].at] =>
               \/ <<b, p>> \in unsaved'[call[b].at]
               \/ <<ToDocument(Event[b]), p>> \in stored'
               \/ <<b, p>> \in dropped'
               \/ Key[b] \in lost'
    PROVE  Held(b, p)'
<1>1. Key' = Key /\ Event' = Event
  BY DEF Key, Event, Telemetry
<1>2. Held(b, p)
  BY DEF AllHeld
<1> QED
  BY <1>1, <1>2 DEF Held

\* A step of a request through Submit, seen from outside.
LEMMA StepMoves ==
    ASSUME SInv, NEW a \in DOMAIN call, Step(a)
    PROVE  /\ call[a].stage \in Submitting /\ call[a].at \in Instances
           /\ UNCHANGED <<env, up, stored, dropped>> /\ lost \subseteq lost'
           /\ DOMAIN call' = DOMAIN call
           /\ \A b \in DOMAIN call : call'[b].at = call[b].at /\ (b # a => call'[b] = call[b])
           /\ \/ UNCHANGED <<accepted, unsaved>>
              \/ /\ accepted' = accepted \cup {a} /\ Serving(call[a].at)
                 /\ unsaved' = [unsaved EXCEPT
                                   ![call[a].at] = @ \cup ({a} \X StoragePlugins(env))]
<1>1. call[a].stage \in Submitting
  BY DEF Step, CheckDuplicate, MarkSeen, Send, Reply, Submitting
<1>2. call[a].at \in Instances
  BY <1>1, AtInstance
<1>3. \E s \in Stages \ {"unsent"} : Stage(a, s)
  <2>1. /\ {"mark", "reply", "send", "OK", "Internal"} \subseteq Stages \ {"unsent"}
        /\ \A reply : AfterCheck(reply) \in {"mark", "reply"}
    BY DEF Stages, Errors, AfterCheck
  <2>2. CASE CheckDuplicate(a)
    BY <2>1, <2>2 DEF CheckDuplicate
  <2>3. CASE MarkSeen(a)
    BY <2>1, <2>3 DEF MarkSeen
  <2>4. CASE Send(a)
    BY <2>1, <2>4 DEF Send
  <2>5. CASE Reply(a)
    BY <2>1, <2>5 DEF Reply
  <2> QED
    BY <2>2, <2>3, <2>4, <2>5 DEF Step
<1>4. UNCHANGED <<env, boots, up, stored, dropped>>
  BY DEF Step, CheckDuplicate, MarkSeen, Send, Reply, process, data
<1>5. /\ DOMAIN call' = DOMAIN call
      /\ \A b \in DOMAIN call : call'[b].at = call[b].at /\ (b # a => call'[b] = call[b])
  <2>1. call[a].stage # "unsent"
    BY <1>1 DEF Submitting
  <2> QED
    BY <1>3, <1>4, <2>1, Moved DEF SInv
<1>6. /\ lost \subseteq lost'
      /\ \/ UNCHANGED <<accepted, unsaved>>
         \/ /\ accepted' = accepted \cup {a} /\ Serving(call[a].at)
            /\ unsaved' = [unsaved EXCEPT ![call[a].at] = @ \cup ({a} \X StoragePlugins(env))]
  BY DEF Step, CheckDuplicate, MarkSeen, Send, Reply, data
<1> QED
  BY <1>1, <1>2, <1>4, <1>5, <1>6 DEF Serving

LEMMA StepHolds ==
    ASSUME SInv, AllHeld, NEW a \in DOMAIN call, Step(a)
    PROVE  AllHeld'
<1>1. /\ call[a].stage \in Submitting /\ call[a].at \in Instances
      /\ UNCHANGED <<env, up, stored, dropped>> /\ lost \subseteq lost'
      /\ DOMAIN call' = DOMAIN call
      /\ \A b \in DOMAIN call : call'[b].at = call[b].at /\ (b # a => call'[b] = call[b])
      /\ \/ UNCHANGED <<accepted, unsaved>>
         \/ /\ accepted' = accepted \cup {a} /\ Serving(call[a].at)
            /\ unsaved' = [unsaved EXCEPT ![call[a].at] = @ \cup ({a} \X StoragePlugins(env))]
  BY StepMoves
<1>2. Keepers' = Keepers /\ \A i : Serving(i)' <=> Serving(i)
  BY <1>1 DEF Serving, Keepers
<1>3. DOMAIN unsaved = Instances
  BY DEF SInv, DataOK
<1>4. \A b \in DOMAIN call' : call'[b].stage \in Submitting => up'[call'[b].at] \in {"up", "draining"}
  BY <1>1, <1>2 DEF AllHeld, Serving
<1>5. \A i \in Instances : unsaved'[i] # {} => Serving(i)'
  BY <1>1, <1>2, <1>3 DEF AllHeld
<1>6. ASSUME NEW b \in accepted', NEW p \in Keepers PROVE Held(b, p)'
  <2>1. ASSUME b \in accepted PROVE Held(b, p)'
    <3>1. \A i \in Instances : unsaved[i] \subseteq unsaved'[i]
      BY <1>1, <1>3
    <3>2. call[b].at \in Instances
      BY <2>1, AcceptedAt
    <3>3. \A c \in accepted : call'[c].at = call[c].at
      BY <1>1, AcceptedAt
    <3> QED
      BY <1>1, <2>1, <3>1, <3>2, <3>3, HeldStays
  <2>2. ASSUME b \notin accepted PROVE Held(b, p)'
    <3>1. b = a /\ unsaved' = [unsaved EXCEPT ![call[a].at] = @ \cup ({a} \X StoragePlugins(env))]
      BY <1>1, <1>6, <2>2
    <3>2. <<b, p>> \in unsaved'[call'[b].at]
      BY <1>1, <1>3, <3>1 DEF Keepers
    <3> QED
      BY <3>2 DEF Held
  <2> QED
    BY <2>1, <2>2
<1> QED
  BY <1>2, <1>4, <1>5, <1>6 DEF AllHeld, Serving

LEMMA ArriveHolds ==
    ASSUME SInv, AllHeld, NEW a \in DOMAIN call, NEW i \in Instances, Arrive(a, i)
    PROVE  AllHeld'
<1>1. PICK s : call' = [call EXCEPT ![a] = [stage |-> s, at |-> i]]
  BY DEF Arrive
<1>2. /\ DOMAIN call' = DOMAIN call /\ call'[a].at = i
      /\ \A b \in DOMAIN call : b # a => call'[b] = call[b]
  BY <1>1
<1>3. UNCHANGED <<env, up, accepted, unsaved, stored, dropped, lost>> /\ Serving(i)
      /\ call[a].stage = "unsent"
  BY DEF Arrive, process, data
<1>4. \A b \in accepted : b \in DOMAIN call /\ b # a
  BY <1>3, AcceptedAt
<1>5. Keepers' = Keepers /\ \A j : Serving(j)' <=> Serving(j)
  BY <1>3 DEF Serving, Keepers
<1>6. ASSUME NEW b \in accepted, NEW p \in Keepers PROVE Held(b, p)'
  <2>1. \A c \in accepted : call'[c].at = call[c].at
    BY <1>2, <1>4
  <2> QED
    BY <1>3, <2>1, HeldStays
<1>7. \A b \in DOMAIN call' : call'[b].stage \in Submitting => up'[call'[b].at] \in {"up", "draining"}
  BY <1>2, <1>3, <1>5 DEF AllHeld, Serving
<1> QED
  BY <1>3, <1>5, <1>6, <1>7 DEF AllHeld, Serving

\* Steps that leave the calls alone and shut no process down.
LEMMA OthersHold ==
    ASSUME SInv, AllHeld, UNCHANGED <<env, call, accepted, lost>>, stored \subseteq stored',
           dropped \subseteq dropped',
           \A i \in Instances : Serving(i) => Serving(i)',
           \A i \in Instances : unsaved'[i] \subseteq unsaved[i],
           \A i \in Instances : \A q \in unsaved[i] :
               \/ q \in unsaved'[i] \/ q[2] = <<"noop">>
               \/ <<ToDocument(Event[q[1]]), q[2]>> \in stored' \/ q \in dropped'
    PROVE  AllHeld'
<1>1. \A a \in DOMAIN call' : call'[a].stage \in Submitting => up'[call'[a].at] \in {"up", "draining"}
  BY AtInstance DEF AllHeld, Serving
<1>2. \A i \in Instances : unsaved'[i] # {} => Serving(i)'
  BY DEF AllHeld
<1>3. ASSUME NEW b \in accepted, NEW p \in Keepers PROVE Held(b, p)'
  <2>1. call[b].at \in Instances
    BY AcceptedAt
  <2>2. <<b, p>> \in unsaved[call[b].at] =>
            \/ <<b, p>> \in unsaved'[call[b].at] \/ <<ToDocument(Event[b]), p>> \in stored'
            \/ <<b, p>> \in dropped'
    <3>1. p # <<"noop">>
      BY DEF Keepers
    <3> QED
      BY <2>1, <3>1
  <2> QED
    BY <2>2, HeldStays
<1> QED
  BY <1>1, <1>2, <1>3 DEF AllHeld, Serving, Keepers

LEMMA InstanceHolds ==
    ASSUME SInv, AllHeld, NEW i \in Instances,
           \/ Boot(i) \/ Stop(i)
           \/ \E q \in unsaved[i] : Write(i, q[1], q[2])
           \/ \E k \in cache[i] : Forget(i, k)
    PROVE  AllHeld'
<1> USE DEF process, data, redis
<1>0. /\ up \in [Instances -> {"down", "up", "draining"}]
      /\ unsaved \in [Instances -> SUBSET (accepted \X KnownPlugins)]
  BY DEF SInv, CallsOK, DataOK
<1>1. CASE Boot(i) \/ Stop(i)
  <2>1. UNCHANGED <<env, call, accepted, lost, stored, dropped, unsaved>>
    BY <1>1 DEF Boot, Stop
  <2>2. \A j \in Instances : Serving(j) => Serving(j)'
    BY <1>0, <1>1 DEF Boot, Stop, Serving
  <2> QED
    BY <2>1, <2>2, OthersHold
<1>2. ASSUME NEW q \in unsaved[i], Write(i, q[1], q[2]) PROVE AllHeld'
  <2>1. /\ UNCHANGED <<env, up, call, accepted, lost>>
        /\ unsaved' = [unsaved EXCEPT ![i] = @ \ {<<q[1], q[2]>>}]
        /\ stored \subseteq stored' /\ dropped \subseteq dropped'
        /\ \/ q[2] = <<"noop">>
           \/ <<ToDocument(Event[q[1]]), q[2]>> \in stored'
           \/ <<q[1], q[2]>> \in dropped'
    BY <1>2 DEF Write
  <2>2. \A j \in Instances : Serving(j) => Serving(j)'
    BY <2>1 DEF Serving
  <2>3. q = <<q[1], q[2]>>
    BY <1>0
  <2>4. /\ \A j \in Instances : unsaved'[j] \subseteq unsaved[j]
        /\ \A j \in Instances : \A r \in unsaved[j] : r \in unsaved'[j] \/ r = q
    BY <1>0, <2>1, <2>3
  <2>5. \A j \in Instances : \A r \in unsaved[j] :
            \/ r \in unsaved'[j] \/ r[2] = <<"noop">>
            \/ <<ToDocument(Event[r[1]]), r[2]>> \in stored' \/ r \in dropped'
    BY <2>1, <2>3, <2>4
  <2> QED
    BY <2>1, <2>2, <2>4, <2>5, OthersHold
<1>3. ASSUME NEW k \in cache[i], Forget(i, k) PROVE AllHeld'
  <2>1. UNCHANGED <<env, up, call, accepted, lost, stored, dropped, unsaved>>
    BY <1>3 DEF Forget
  <2>2. \A j \in Instances : Serving(j) => Serving(j)'
    BY <2>1 DEF Serving
  <2> QED
    BY <2>1, <2>2, OthersHold
<1> QED
  BY <1>1, <1>2, <1>3

\* A process that ends loses what it had in hand.
LEMMA GoneHolds ==
    ASSUME SInv, AllHeld, NEW i \in Instances, NEW keys, Queued(i) \subseteq keys,
           Gone(i, keys)
    PROVE  AllHeld'
<1>1. /\ UNCHANGED <<env, accepted, stored, dropped>> /\ lost' = lost \cup keys
      /\ up' = [up EXCEPT ![i] = "down"] /\ unsaved' = [unsaved EXCEPT ![i] = {}]
      /\ DOMAIN call' = DOMAIN call
  BY DEF Gone
<1>2. \A a \in DOMAIN call :
          IF call[a].at = i /\ call[a].stage \in Submitting
          THEN call'[a] = [call[a] EXCEPT !.stage = "Unavailable"] ELSE call'[a] = call[a]
  BY DEF Gone, Submitting
<1>3. \A a \in DOMAIN call :
          /\ call'[a].at = call[a].at
          /\ call'[a].stage \in Submitting => call'[a] = call[a] /\ call[a].at # i
  <2> SUFFICES ASSUME NEW a \in DOMAIN call
               PROVE  /\ call'[a].at = call[a].at
                      /\ call'[a].stage \in Submitting => call'[a] = call[a] /\ call[a].at # i
    OBVIOUS
  <2>1. call[a] \in [stage : Stages, at : Instances \cup {None}]
    BY DEF SInv, CallsOK
  <2> QED
    BY <1>2, <2>1 DEF Submitting
<1>4. DOMAIN up = Instances /\ DOMAIN unsaved = Instances
  BY DEF SInv, CallsOK, DataOK
<1>5. \A j \in Instances : j # i => (Serving(j)' <=> Serving(j))
  BY <1>1, <1>4 DEF Serving
<1>6. \A a \in DOMAIN call' : call'[a].stage \in Submitting => up'[call'[a].at] \in {"up", "draining"}
  BY <1>1, <1>3, <1>5, AtInstance DEF AllHeld, Serving
<1>7. \A j \in Instances : unsaved'[j] # {} => Serving(j)'
  BY <1>1, <1>4, <1>5 DEF AllHeld
<1>8. ASSUME NEW b \in accepted, NEW p \in Keepers PROVE Held(b, p)'
  <2>1. call[b].at \in Instances
    BY AcceptedAt
  <2>2. \A c \in accepted : call'[c].at = call[c].at
    BY <1>3, AcceptedAt
  <2>3. <<b, p>> \in unsaved[call[b].at] => <<b, p>> \in unsaved'[call[b].at] \/ Key[b] \in lost'
    <3>1. CASE call[b].at = i
      <4>1. <<b, p>> \in unsaved[i] => Key[b] \in Queued(i)
        BY DEF Queued
      <4> QED
        BY <1>1, <3>1, <4>1
    <3>2. CASE call[b].at # i
      BY <1>1, <1>4, <2>1, <3>2
    <3> QED
      BY <3>1, <3>2
  <2> QED
    BY <1>1, <2>2, <2>3, HeldStays
<1> QED
  BY <1>1, <1>6, <1>7, <1>8 DEF AllHeld, Serving, Keepers

LEMMA EndsHold ==
    ASSUME SInv, AllHeld, NEW i \in Instances, Crash(i) \/ Exit(i)
    PROVE  AllHeld'
<1>1. CASE Crash(i)
  BY <1>1, GoneHolds DEF Crash
<1>2. CASE Exit(i)
  <2>1. Queued(i) = {}
    BY <1>2 DEF Exit, Queued
  <2> QED
    BY <1>2, <2>1, GoneHolds DEF Exit
<1> QED
  BY <1>1, <1>2

LEMMA HeldInitially == ServiceInit => AllHeld
  BY DEF ServiceInit, AllHeld, Submitting

LEMMA HeldInductive ==
    SInv /\ AllHeld /\ [ServiceNext]_serviceVars => AllHeld'
<1> SUFFICES ASSUME SInv, AllHeld, [ServiceNext]_serviceVars PROVE AllHeld'
  OBVIOUS
<1>1. CASE Tick \/ Rest \/ UNCHANGED serviceVars
  <2>1. UNCHANGED <<env, up, call, accepted, lost, stored, dropped, unsaved>>
    BY <1>1 DEF Tick, Rest, serviceVars, process, data
  <2>2. \A i \in Instances : Serving(i) => Serving(i)'
    BY <2>1 DEF Serving
  <2> QED
    BY <2>1, <2>2, OthersHold
<1>2. ASSUME NEW a \in DOMAIN call, Step(a) PROVE AllHeld'
  BY <1>2, StepHolds
<1>3. ASSUME NEW a \in DOMAIN call, NEW i \in Instances, Arrive(a, i) PROVE AllHeld'
  BY <1>3, ArriveHolds
<1>4. ASSUME NEW i \in Instances,
             \/ Boot(i) \/ Stop(i) \/ Crash(i) \/ Exit(i)
             \/ \E q \in unsaved[i] : Write(i, q[1], q[2])
             \/ \E k \in cache[i] : Forget(i, k)
      PROVE  AllHeld'
  BY <1>4, InstanceHolds, EndsHold
<1> QED
  BY <1>1, <1>2, <1>3, <1>4 DEF ServiceNext

\* A document tells the key of its event.
LEMMA DocumentTellsKey ==
    ASSUME NEW a, Passed(a)
    PROVE  DeduplicationKey(Told(ToDocument(Event[a]))) = Key[a]
<1> DEFINE e == Event[a]
<1>1. e.kind \in EventTypes
  <2>1. e.kind = Request[a].method
    <3>1. a \in Telemetry /\ Event[a] = Create(Request[a], Request[a].method).event
      BY EventOf DEF Passed
    <3> QED BY <3>1 DEF Create
  <2> QED BY <2>1 DEF Passed, Telemetry
<1>2. Key[a] = DeduplicationKey(e)
  BY KeyOf
<1> HIDE DEF e
<1>3. ToDocument(e) = Document(e, e.kind)
  BY <1>1 DEF ToDocument, EventTypes, UserBehaviorDocument, GameplayDocument, PerformanceDocument
<1>4. KeyFields(Told(Document(e, e.kind))) = KeyFields(e)
  BY DEF KeyFields, Told, Document, Discriminator
<1>5. DeduplicationKey(Told(ToDocument(e))) = DeduplicationKey(e)
  BY <1>3, <1>4, Zenon DEF DeduplicationKey
<1> QED
  BY <1>2, <1>5 DEF e

-----------------------------------------------------------------------------
(* The theorems *)

\* The variables keep their shapes.
THEOREM ServiceTypeCorrect == ServiceSpec => []ServiceTypeOK
<1>1. SInv => ServiceTypeOK
  <2> SUFFICES ASSUME SInv PROVE ServiceTypeOK
    OBVIOUS
  <2>1. accepted \subseteq DOMAIN call
    BY DEF SInv, PassedOnly
  <2>2. \A i \in Instances : unsaved[i] \subseteq accepted \X KnownPlugins
    BY DEF SInv, DataOK
  <2> QED
    BY <2>1, <2>2 DEF SInv, CallsOK, DataOK, ServiceTypeOK
<1> QED
  BY <1>1, ServiceInvariance, PTL

\* Only requests that were decoded, are complete, name their user and, with
\* authorization on, carry a genuine token have their event queued.
THEOREM OnlyGenuineGetIn == ServiceSpec => []GenuineOnly
<1>1. SInv => GenuineOnly
  BY DEF SInv, PassedOnly, Passed, GenuineOnly
<1> QED
  BY <1>1, ServiceInvariance, PTL

\* After an error the event is not queued; after OK it, or one of its key, was
\* or is about to be, or the key is lost.
THEOREM AnswersTellTheTruth == ServiceSpec => []AnswersAreTrue
<1>1. SInv => AnswersAreTrue
  <2> SUFFICES ASSUME SInv, NEW a \in DOMAIN call
               PROVE  /\ call[a].stage \in Errors => a \notin accepted
                      /\ call[a].stage = "OK" /\ a \in Telemetry =>
                             \/ Key[a] \in lost
                             \/ \E b \in DOMAIN call :
                                   SameKey(a, b) /\ (b \in accepted \/ call[b].stage = "send")
    BY DEF AnswersAreTrue
  <2>1. call[a].stage \in Errors => a \notin accepted
    BY DEF SInv, PassedOnly, Errors
  <2>2. call[a].stage = "OK" /\ a \in Telemetry => Covered(Key[a])
    BY DEF SInv, SeenAreCovered
  <2> QED
    BY <2>1, <2>2 DEF Covered, SameKey
<1> QED
  BY <1>1, ServiceInvariance, PTL

\* The deduplicator that instances share keeps the promise of SeenWindow while
\* they crash, are stopped and are started again.
THEOREM ServiceKeepsWindow == ServiceSpec => ImplementsWindow
<1>1. ServiceInit => W!Init
  BY InitRefines DEF ServiceInit
<1>2. SInv /\ [ServiceNext]_serviceVars => [W!Next]_W!vars
  BY RedisSteps, StepsRefine DEF SInv
<1> QED
  BY <1>1, <1>2, ServiceInvariance, PTL DEF ServiceSpec, ImplementsWindow, W!Spec

\* Nor does a restart make them refuse an event without a twin: one marked before
\* that agrees in type, namespace, user, id and timestamp, or session and whatever
\* timestamp if it is user behaviour.
THEOREM ServiceRefusedHaveTwins == ServiceSpec => []RefusedHasTwin
<1>1. ServiceInit => MarkedBefore
  BY MarkedInitially DEF ServiceInit
<1>2. SInv /\ MarkedBefore /\ [ServiceNext]_serviceVars => MarkedBefore'
  BY RedisSteps, MarkedInductive DEF SInv
<1> QED
  BY <1>1, <1>2, ServiceInvariance, MarkedHasTwin, PTL DEF ServiceSpec

\* What was answered with OK does not vanish: a process that serves has it in hand,
\* or each plugin of the list that keeps events has stored it, or failed to write
\* it, or a process that ended took it, or an event of its key, with it.
THEOREM AnsweredAreKept == ServiceSpec => []OkIsKept
<1>1. SInv /\ AllHeld => OkIsKept
  <2> SUFFICES ASSUME SInv, AllHeld, NEW a \in DOMAIN call, call[a].stage = "OK",
                      a \in Telemetry, Key[a] \notin lost,
                      ~ \E b \in DOMAIN call :
                            SameKey(a, b) /\ call[b].stage = "send" /\ Serving(call[b].at),
                      NEW p \in Listed \ {<<"noop">>}
               PROVE  \/ \E d \in {s[1] : s \in {t \in stored : t[2] = p}} :
                            DeduplicationKey(Told(d)) = Key[a]
                      \/ \E b \in accepted :
                            /\ SameKey(a, b)
                            /\ \/ Serving(call[b].at) /\ <<b, p>> \in unsaved[call[b].at]
                               \/ <<b, p>> \in dropped
    BY DEF OkIsKept
  <2>1. Covered(Key[a])
    BY DEF SInv, SeenAreCovered
  <2>2. PICK b \in DOMAIN call :
            b \in Telemetry /\ Key[b] = Key[a] /\ (b \in accepted \/ call[b].stage = "send")
    BY <2>1 DEF Covered
  <2>3. SameKey(a, b)
    BY <2>2 DEF SameKey
  <2>4. b \in accepted
    BY <2>2, <2>3 DEF AllHeld, Submitting
  <2>5. Passed(b) /\ call[b].at \in Instances
    BY <2>4, AcceptedAt DEF SInv, PassedOnly
  <2>6. p \in Keepers
    <3>1. env.plugins \in Seq(STRING)
      BY ServiceAssumption DEF SInv, CallsOK
    <3> QED BY <3>1, OpensTheList DEF Keepers
  <2>7. Held(b, p) /\ Key[b] \notin lost
    BY <2>2, <2>4, <2>6 DEF AllHeld
  <2>8. CASE <<b, p>> \in unsaved[call[b].at]
    BY <2>3, <2>4, <2>5, <2>8 DEF AllHeld
  <2>9. CASE <<ToDocument(Event[b]), p>> \in stored
    <3>1. DeduplicationKey(Told(ToDocument(Event[b]))) = Key[a]
      BY <2>2, <2>5, DocumentTellsKey
    <3> QED
      BY <2>9, <3>1
  <2> QED
    BY <2>3, <2>4, <2>7, <2>8, <2>9 DEF Held
<1> QED
  BY <1>1, ServiceInvariance, HeldInitially, HeldInductive, PTL DEF ServiceSpec
=============================================================================
