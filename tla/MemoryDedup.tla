------------------------------ MODULE MemoryDedup ------------------------------
(***************************************************************************)
(* pkg/dedup/memory.go: a map from fingerprint to the time of its last     *)
(* Mark, and a goroutine that sweeps it at every tick of a one-minute      *)
(* ticker until Close.                                                     *)
(*                                                                         *)
(* IsDuplicate, Mark and removeExpired each hold the mutex throughout, so  *)
(* each is one step.  Time is discrete and the sweep of a tick starts at   *)
(* most Lag after it.                                                      *)
(***************************************************************************)
EXTENDS Naturals, FiniteSets

CONSTANTS Events,
          Fingerprint,   \* [Events -> fingerprints]: SHA-256 of the event's key
          TTL,           \* d.ttl
          Period,        \* the ticker's period
          Lag,           \* how late the sweep of a tick may be
          MaxTime,       \* bound on the clock, for TLC
          None

ASSUME MemoryDedupAssumption ==
    /\ TTL \in Nat /\ Period \in Nat \ {0} /\ Lag \in Nat /\ Lag < Period
    /\ MaxTime \in Nat
    /\ DOMAIN Fingerprint = Events
    /\ None \notin Nat

Prints == {Fingerprint[e] : e \in Events}

VARIABLES now,       \* the clock
          cache,     \* d.cache: [subset of Prints -> times]
          tick,      \* the tick in ticker.C (one at most), or None
          cleanup,   \* the goroutine: "running" or "stopped"
          stage,     \* Close: "open", "closing" (stopCleanup closed), "closed"
          answer,    \* the latest IsDuplicate, None after any other step
          lastMark   \* history: when each fingerprint was last marked

clock == <<now, tick>>
vars == <<now, cache, tick, cleanup, stage, answer, lastMark>>

Init ==
    /\ now = 0 /\ tick = None
    /\ cache = [f \in {} |-> 0]
    /\ cleanup = "running" /\ stage = "open"
    /\ answer = None
    /\ lastMark = [f \in Prints |-> None]

\* A tick is dropped if the previous one is still in the channel.
Advance ==
    /\ now < MaxTime
    /\ tick # None /\ cleanup = "running" => now < tick + Lag
    /\ now' = now + 1
    /\ tick' = IF now' % Period = 0 /\ tick = None THEN now' ELSE tick
    /\ answer' = None
    /\ UNCHANGED <<cache, cleanup, stage, lastMark>>

IsDuplicate(e) ==
    /\ answer' = [key |-> Fingerprint[e], duplicate |-> Fingerprint[e] \in DOMAIN cache]
    /\ UNCHANGED <<clock, cache, cleanup, stage, lastMark>>

Stamped_KeepFirst(f) ==   \* mutant: an entry that exists keeps its time
    [g \in DOMAIN cache \cup {f} |-> IF g \in DOMAIN cache THEN cache[g] ELSE now]

Stamped_ZeroTime(f) ==    \* mutant: the entry has no time
    [g \in DOMAIN cache \cup {f} |-> IF g = f THEN None ELSE cache[g]]

Stamped(f) == [g \in DOMAIN cache \cup {f} |-> IF g = f THEN now ELSE cache[g]]

Mark(e) ==
    /\ cache' = Stamped(Fingerprint[e])
    /\ lastMark' = [lastMark EXCEPT ![Fingerprint[e]] = now]
    /\ answer' = None
    /\ UNCHANGED <<clock, cleanup, stage>>

Expired_OffByOne(f) == now - cache[f] > TTL + 1   \* mutant

Expired_Early(f) == now - cache[f] >= TTL         \* mutant

Expired(f) == now - cache[f] > TTL

RemoveExpired ==
    /\ cleanup = "running" /\ tick # None
    /\ tick' = None
    /\ cache' = [f \in {g \in DOMAIN cache : ~Expired(g)} |-> cache[f]]
    /\ answer' = None
    /\ UNCHANGED <<now, cleanup, stage, lastMark>>

StopSignalled == stage # "open"

StopCleanup ==
    /\ cleanup = "running" /\ StopSignalled
    /\ cleanup' = "stopped" /\ answer' = None
    /\ UNCHANGED <<clock, cache, stage, lastMark>>

\* Close: close(stopCleanup), then a new map under the mutex.
CloseSignal ==
    /\ stage = "open"
    /\ stage' = "closing" /\ answer' = None
    /\ UNCHANGED <<clock, cache, cleanup, lastMark>>

CloseClear ==
    /\ stage = "closing"
    /\ stage' = "closed" /\ cache' = [f \in {} |-> 0] /\ answer' = None
    /\ UNCHANGED <<clock, cleanup, lastMark>>

Next ==
    \/ Advance \/ RemoveExpired \/ StopCleanup \/ CloseSignal \/ CloseClear
    \/ \E e \in Events : IsDuplicate(e) \/ Mark(e)

Spec == Init /\ [][Next]_vars

-----------------------------------------------------------------------------
(* Properties *)

\* The shapes of the variables.
TypeOK ==
    /\ now \in Nat /\ tick \in Nat \cup {None}
    /\ DOMAIN cache \subseteq Prints /\ \A f \in DOMAIN cache : cache[f] \in Nat
    /\ cleanup \in {"running", "stopped"} /\ stage \in {"open", "closing", "closed"}
    /\ lastMark \in [Prints -> Nat \cup {None}]

\* Until Close, a sweep never forgets a key within TTL of its last Mark, even
\* if the key was marked several times or marked between tick and sweep.
RememberedForTTL ==
    stage = "open" =>
        \A f \in Prints : lastMark[f] # None /\ now - lastMark[f] <= TTL => f \in DOMAIN cache

\* The cache holds no entry older than TTL plus a period (and the lag): a late
\* resubmission is not refused for longer, and the map cannot grow for ever.
ForgottenInTime ==
    stage = "open" => \A f \in DOMAIN cache : now - cache[f] <= TTL + Period + Lag

\* The deduplicator keeps the promise of SeenWindow.
W == INSTANCE SeenWindow WITH Keys <- Prints, Slack <- Period + Lag, open <- (stage = "open")
ImplementsWindow == W!Spec
=============================================================================
