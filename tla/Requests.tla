-------------------------------- MODULE Requests --------------------------------
(***************************************************************************)
(* The layers that a request passes before Submit: the HTTP gateway and    *)
(* its client, the generated gRPC handlers, the authorization interceptor, *)
(* and the handlers of pkg/service.  None of them keeps a state: each is   *)
(* an operator that gives the status of the answer, or "check" where       *)
(* Submit is called.                                                       *)
(*                                                                         *)
(* A request is a record [via, method, decodes, payload, token, id,        *)
(* session, timestamp, forwarded, peer], a token a record [header, jwt,    *)
(* genuine, sub, user_id]; no header of either kind is <<>> or FALSE.      *)
(***************************************************************************)
EXTENDS Config

CONSTANT Namespace        \* AB_NAMESPACE

EventTypes == {"user_behavior", "gameplay", "performance"}

Then(status, next) == IF status = "OK" THEN next ELSE status

-----------------------------------------------------------------------------
(* pkg/service *)

\* The claims are read without another look at the signature.
ExtractUserID(token) == IF token.sub # <<>> THEN token.sub ELSE token.user_id

\* No header, not three parts, or no user in the claims.
UserStatus(token) ==
    IF token.header /\ token.jwt /\ ExtractUserID(token) # <<>> THEN "OK" ELSE "Unauthenticated"

\* The first X-Forwarded-For as it stands, a list of addresses perhaps.
ExtractSourceIP(r) == IF r.forwarded # <<>> THEN r.forwarded ELSE r.peer

Create(r, kind) ==
    [status |-> Then(IF r.id = <<>> \/ ~r.payload THEN "InvalidArgument" ELSE "OK",
                     Then(UserStatus(r.token), "check")),
     event  |-> [kind |-> kind, namespace |-> Namespace, user |-> ExtractUserID(r.token),
                 id |-> r.id, session |-> r.session, timestamp |-> r.timestamp,
                 source |-> ExtractSourceIP(r)]]

CreateUserBehaviorTelemetry(r) == Create(r, "user_behavior")
CreateGameplayTelemetry(r) == Create(r, "gameplay")
CreatePerformanceTelemetry(r) == Create(r, "performance")

-----------------------------------------------------------------------------
(* pkg/common/authServerInterceptor.go *)

\* What the validator may say of a token.  It refuses what is not genuine, and
\* may refuse anything (the token has expired, the user is banned, its keys
\* could not be fetched).
Validate(token) == IF token.genuine THEN BOOLEAN ELSE {FALSE}

CheckAuthorizationMetadata(token, verdict) ==
    CASE ~token.header -> "Unauthenticated"
      [] ~verdict      -> "PermissionDenied"
      [] OTHER         -> "OK"

\* The options of the three methods name the Bearer scheme; those of the other
\* services do not.
HasSecurityScheme(method) == method \in EventTypes

\* No method has a permission.
RequireToken(method) == HasSecurityScheme(method)

UnaryAuth(method, token, verdict) ==
    IF RequireToken(method) THEN CheckAuthorizationMetadata(token, verdict) ELSE "OK"

\* Around streams, of which there are those of the reflection service only.
StreamAuth(method, token, verdict) ==
    IF RequireToken(method) THEN CheckAuthorizationMetadata(token, verdict) ELSE "OK"

\* NewGRPCServer: the interceptors; those for metrics and logging only look on.
Intercepted(env, auth, handled) == Then(IF AuthEnabled(env) THEN auth ELSE "OK", handled)

-----------------------------------------------------------------------------
(* pkg/pb/service_grpc.pb.go: decode, then the interceptors, then the handler. *)

Handle(env, r, verdict, method, handled) ==
    Then(IF r.decodes THEN "OK" ELSE "Internal",
         Intercepted(env, UnaryAuth(method, r.token, verdict), handled))

UserBehaviorHandler(env, r, verdict) ==
    Handle(env, r, verdict, "user_behavior", CreateUserBehaviorTelemetry(r).status)
GameplayHandler(env, r, verdict) ==
    Handle(env, r, verdict, "gameplay", CreateGameplayTelemetry(r).status)
PerformanceHandler(env, r, verdict) ==
    Handle(env, r, verdict, "performance", CreatePerformanceTelemetry(r).status)

\* The gRPC server, with the services for health checks and reflection.
ServiceDesc(env, method, r, verdict) ==
    CASE method = "user_behavior" -> UserBehaviorHandler(env, r, verdict)
      [] method = "gameplay"      -> GameplayHandler(env, r, verdict)
      [] method = "performance"   -> PerformanceHandler(env, r, verdict)
      [] method = "health"        -> Handle(env, r, verdict, method, "OK")
      [] method = "reflection"    -> Intercepted(env, StreamAuth(method, r.token, verdict), "OK")
      [] OTHER                    -> "Unimplemented"

\* The client, which names the method.
InvokeUserBehavior(env, r, verdict) == ServiceDesc(env, "user_behavior", r, verdict)
InvokeGameplay(env, r, verdict) == ServiceDesc(env, "gameplay", r, verdict)
InvokePerformance(env, r, verdict) == ServiceDesc(env, "performance", r, verdict)

-----------------------------------------------------------------------------
(* pkg/pb/service.pb.gw.go: the gateway decodes the body and calls the gRPC *)
(* server of its own process, with the headers of the request.              *)

Forward(r, answer) == IF r.decodes THEN answer ELSE "InvalidArgument"

RequestUserBehavior(env, r, verdict) == Forward(r, InvokeUserBehavior(env, r, verdict))
RequestGameplay(env, r, verdict) == Forward(r, InvokeGameplay(env, r, verdict))
RequestPerformance(env, r, verdict) == Forward(r, InvokePerformance(env, r, verdict))

Gateway(env, r, verdict) ==
    CASE r.method = "user_behavior" -> RequestUserBehavior(env, r, verdict)
      [] r.method = "gameplay"      -> RequestGameplay(env, r, verdict)
      [] r.method = "performance"   -> RequestPerformance(env, r, verdict)
      [] OTHER                      -> "NotFound"

\* The other gateway that is generated, for a server in the same process.
\* Nobody calls it: it goes past the interceptors.
LocalRequestUserBehavior(r) == Forward(r, CreateUserBehaviorTelemetry(r).status)
LocalRequestGameplay(r) == Forward(r, CreateGameplayTelemetry(r).status)
LocalRequestPerformance(r) == Forward(r, CreatePerformanceTelemetry(r).status)

LocalGateway(r) ==
    CASE r.method = "user_behavior" -> LocalRequestUserBehavior(r)
      [] r.method = "gameplay"      -> LocalRequestGameplay(r)
      [] r.method = "performance"   -> LocalRequestPerformance(r)
      [] OTHER                      -> "NotFound"

Outcome_InProcess(env, r, verdict) ==   \* mutant: NewGateway registers the other gateway
    IF r.via = "http" THEN LocalGateway(r) ELSE ServiceDesc(env, r.method, r, verdict)

Outcome(env, r, verdict) ==
    IF r.via = "http" THEN Gateway(env, r, verdict) ELSE ServiceDesc(env, r.method, r, verdict)

\* The event that the handler of a telemetry request submits.
Submitted(r) ==
    CASE r.method = "user_behavior" -> CreateUserBehaviorTelemetry(r).event
      [] r.method = "gameplay"      -> CreateGameplayTelemetry(r).event
      [] r.method = "performance"   -> CreatePerformanceTelemetry(r).event
=============================================================================
