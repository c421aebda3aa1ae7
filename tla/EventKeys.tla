------------------------------- MODULE EventKeys -------------------------------
(***************************************************************************)
(* pkg/events: DeduplicationKey of the three event types, a colon-joined   *)
(* line of fields that the client and its token supply.  A field is a      *)
(* sequence of tokens; Colon is the token ":".                             *)
(*                                                                         *)
(* An event is a record [kind, namespace, user, id, session, timestamp,    *)
(* source]; the session of one without a context is the empty sequence.    *)
(***************************************************************************)
EXTENDS Naturals, Sequences, SequencesExt

CONSTANT Colon

Joined_NoColon(parts) == FlattenSeq(parts)   \* mutant

Joined(parts) == FlattenSeq([i \in DOMAIN parts |->
                     IF i = 1 THEN parts[i] ELSE <<Colon>> \o parts[i]])

\* Of a user behaviour event the key has the session and not the timestamp.
Discriminator(e) == IF e.kind = "user_behavior" THEN e.session ELSE e.timestamp

KeyFields(e) == <<<<e.kind>>, e.namespace, e.user, e.id, Discriminator(e)>>

DeduplicationKey(e) == Joined(KeyFields(e))

-----------------------------------------------------------------------------
(* ToDocument of the three types: what the plugins store. *)

Document(e, kind) ==
    [kind |-> kind, namespace |-> e.namespace, user_id |-> e.user, source_ip |-> e.source,
     event_id |-> e.id, timestamp |-> e.timestamp,
     payload |-> [event_id |-> e.id, timestamp |-> e.timestamp, session |-> e.session]]

UserBehaviorDocument(e) == Document(e, "user_behavior")
GameplayDocument(e) == Document(e, "gameplay")
PerformanceDocument(e) == Document(e, "performance")

ToDocument(e) == CASE e.kind = "user_behavior" -> UserBehaviorDocument(e)
                   [] e.kind = "gameplay"      -> GameplayDocument(e)
                   [] e.kind = "performance"   -> PerformanceDocument(e)

\* The event that a document tells of.
Told(d) == [kind |-> d.kind, namespace |-> d.namespace, user |-> d.user_id, id |-> d.event_id,
            session |-> d.payload.session, timestamp |-> d.timestamp]

\* An event whose fields hold no colon, except perhaps the last.
Plain(e) == \A f \in {e.namespace, e.user, e.id} : \A n \in DOMAIN f : f[n] # Colon
=============================================================================
