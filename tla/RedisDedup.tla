------------------------------ MODULE RedisDedup -------------------------------
(***************************************************************************)
(* pkg/dedup/redis.go: EXISTS and SET with a TTL on a server that the      *)
(* processors of all event types, of several instances of the service,     *)
(* share under one key prefix.  Redis itself is modelled from these two    *)
(* uses: SET replaces the expiry of a key, and a key is gone once its TTL  *)
(* has elapsed.  A call may fail; a SET that fails may have taken effect.  *)
(* A key is stored under its SHA-256 hash; two keys with one hash are left *)
(* out.                                                                    *)
(***************************************************************************)
EXTENDS EventKeys

CONSTANTS Instances,     \* replicas of the service
          Submissions,   \* the events that clients send
          TTL, MaxTime, None

ASSUME RedisDedupAssumption ==
    /\ TTL \in Nat \ {0}         \* 0, which the configuration does not exclude, means no expiry
    /\ MaxTime \in Nat
    /\ None \notin Nat \cup [event : Submissions, duplicate : BOOLEAN]
    /\ \A e \in Submissions :      \* fields are strings, and the literal before them has no colon
          e.kind # Colon /\ \A f \in ToSet(KeyFields(e)) : f \in Seq(ToSet(f))

Keys == {DeduplicationKey(e) : e \in Submissions}

VARIABLES now, expiry,   \* the server: when each key expires, or None
          connected,     \* the instances whose client is not closed
          answer,        \* the latest IsDuplicate that succeeded, None after any other step
          lastMark,      \* history: when a SET of each key last took effect
          marked         \* history: the events of those SETs

vars == <<now, expiry, connected, answer, lastMark, marked>>

Init ==
    /\ now = 0
    /\ expiry = [k \in Keys |-> None] /\ lastMark = [k \in Keys |-> None]
    /\ connected = Instances
    /\ answer = None /\ marked = {}

Exists(k) == expiry[k] # None /\ now <= expiry[k]

\* The server's clock.
Advance ==
    /\ now < MaxTime /\ now' = now + 1
    /\ answer' = None
    /\ UNCHANGED <<expiry, connected, lastMark, marked>>

IsDuplicate(i, e) ==
    /\ \/ i \in connected /\ answer' = [event |-> e, duplicate |-> Exists(DeduplicationKey(e))]
       \/ answer' = None
    /\ UNCHANGED <<now, expiry, connected, lastMark, marked>>

NewExpiry_SetNX(k) == IF Exists(k) THEN expiry[k] ELSE now + TTL   \* mutant

NewExpiry(k) == now + TTL

Mark(i, e) ==
    LET k == DeduplicationKey(e)
    IN /\ answer' = None
       /\ \/ /\ i \in connected
             /\ expiry' = [expiry EXCEPT ![k] = NewExpiry(k)]
             /\ lastMark' = [lastMark EXCEPT ![k] = now]
             /\ marked' = marked \cup {e}
          \/ UNCHANGED <<expiry, lastMark, marked>>
       /\ UNCHANGED <<now, connected>>

\* Close closes one instance's client; the keys stay.
Close(i) ==
    /\ i \in connected
    /\ connected' = connected \ {i} /\ answer' = None
    /\ UNCHANGED <<now, expiry, lastMark, marked>>

Next ==
    \/ Advance
    \/ \E i \in Instances : Close(i) \/ \E e \in Submissions : IsDuplicate(i, e) \/ Mark(i, e)

Spec == Init /\ [][Next]_vars

-----------------------------------------------------------------------------
(* Properties *)

\* All instances together keep the promise of SeenWindow without slack, also
\* after an instance has restarted or closed its client: what one instance
\* marked every instance reports, until the TTL has elapsed.
W == INSTANCE SeenWindow
       WITH Slack <- 0, open <- TRUE,
            answer <- IF answer = None THEN None
                      ELSE [key |-> DeduplicationKey(answer.event), duplicate |-> answer.duplicate]
ImplementsWindow == W!Spec

Refused == answer # None /\ answer.duplicate

\* Two events that agree in all that the code puts into a key.
Twins(e, f) ==
    /\ e.kind = f.kind /\ e.namespace = f.namespace /\ e.user = f.user /\ e.id = f.id
    /\ IF e.kind = "user_behavior" THEN e.session = f.session ELSE e.timestamp = f.timestamp

AllPlain == \A e \in marked \cup {answer.event} : Plain(e)

\* An event is refused only if one that was marked before agrees with it in type,
\* namespace, user, id and timestamp, or if they are user behaviour in the session
\* and whatever timestamp (see RefusesOnlyRepeats).  The three types share the server
\* and timestamps have colons; what is needed is that the other fields have none.
RefusedHasTwin == Refused /\ AllPlain => \E e \in marked : Twins(e, answer.event)

\* What makes an event another one.
Identity(e) == <<e.kind, e.namespace, e.user, e.id, e.session, e.timestamp>>

\* Only repetitions are refused.  Events that differ in the session or the time are
\* none: the key "Should combine namespace, user_id, session_id, timestamp, and
\* other unique attributes" (deduplicatable.go:12).
RefusesOnlyRepeats ==
    Refused /\ AllPlain => \E e \in marked : Identity(e) = Identity(answer.event)
=============================================================================
