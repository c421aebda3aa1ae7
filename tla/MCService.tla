------------------------------ MODULE MCService -------------------------------
(* Requests and configurations for TLC. *)
EXTENDS Service, TLC

Genuine(sub, user) ==
    [header |-> TRUE, jwt |-> TRUE, genuine |-> TRUE, sub |-> sub, user_id |-> user]
Forged(sub) == [Genuine(sub, <<>>) EXCEPT !.genuine = FALSE]
Garbled(sub) == [Forged(sub) EXCEPT !.jwt = FALSE]
NoHeader == [header |-> FALSE, jwt |-> FALSE, genuine |-> FALSE, sub |-> <<>>, user_id |-> <<>>]

Post(method, token, id, session, timestamp) ==
    [via |-> "http", method |-> method, decodes |-> TRUE, payload |-> TRUE, token |-> token,
     id |-> id, session |-> session, timestamp |-> timestamp, forwarded |-> <<>>,
     peer |-> <<"c">>]

\* Fields that run into each other without the colons: the same user behaviour
\* at two times; two users; two types; an id with a colon that meets a
\* timestamp with one.
U == Genuine(<<"a">>, <<>>)
Behaviour == Post("user_behavior", U, <<"a", "a">>, <<>>, <<"a">>)
OtherUser == Genuine(<<>>, <<"a", "a">>)
Play == Post("gameplay", U, <<"a">>, <<>>, <<"b", ":", "a">>)
Frame == Post("performance", U, <<"a">>, <<>>, <<"a">>)

\* Requests that get in, if the validator lets them, and requests that do not.
Good ==
    [behaviour |-> Behaviour, retry |-> [Behaviour EXCEPT !.via = "grpc", !.forwarded = <<"b">>], third |-> Behaviour,
     later |-> [Behaviour EXCEPT !.timestamp = <<"b">>],
     other |-> [Behaviour EXCEPT !.token = OtherUser, !.id = <<"a">>],
     play |-> Play, colons |-> [Play EXCEPT !.id = <<"a", ":", "b">>, !.timestamp = <<"a">>],
     frame |-> Frame]
Bad ==
    [undecodable |-> [Play EXCEPT !.decodes = FALSE],
     truncated   |-> [Play EXCEPT !.decodes = FALSE, !.via = "grpc"],
     noId        |-> [Play EXCEPT !.id = <<>>],
     noPayload   |-> [Play EXCEPT !.payload = FALSE],
     noHeader    |-> [Play EXCEPT !.token = NoHeader],
     forged      |-> [Frame EXCEPT !.token = Forged(<<"a">>)],
     garbled     |-> [Frame EXCEPT !.token = Garbled(<<"a">>)],
     anonymous   |-> [Frame EXCEPT !.token = Genuine(<<>>, <<>>)],
     noPath      |-> [Play EXCEPT !.method = "unknown"],
     noMethod    |-> [Play EXCEPT !.method = "unknown", !.via = "grpc"],
     health      |-> [Play EXCEPT !.method = "health", !.via = "grpc"],
     reflection  |-> [Play EXCEPT !.method = "reflection", !.via = "grpc"]]

MCRequest == Good @@ Bad
MCAttempts == DOMAIN MCRequest

MCNamespace == <<"n">>

MCSubmissions == {Submitted(r) : r \in {MCRequest[a] : a \in DOMAIN Good \cup {"forged"}}}

Sound == [Defaults EXCEPT !.credentials = "right"]

Redis  == [Sound EXCEPT !.dedup = TRUE, !.type = "redis", !.plugins = <<" ", "postgres">>]
Discarding == [Redis EXCEPT !.plugins = <<",">>]
Memory == [Sound EXCEPT !.dedup = TRUE, !.type = "memory",
                           !.plugins = <<"kafka", ",", " ", "s3", ",", "kafak">>]
NoDedup == [Sound EXCEPT !.type = "redis", !.plugins = <<",">>]
Open   == [NoDedup EXCEPT !.auth = "false"]

Faulty ==
    { [Sound EXCEPT !.batch = -1], [Sound EXCEPT !.workers = 0],
      [Sound EXCEPT !.plugins = <<" ">>], [Sound EXCEPT !.grpcPort = 65536],
      [Redis EXCEPT !.addr = ""], [Sound EXCEPT !.credentials = "wrong"], Defaults }

Case(e, S, n) == [env |-> e, sent |-> S, boots |-> n]

MCCases ==
    { Case(Discarding, {"behaviour", "retry", "third"}, 2), Case(Redis, {"behaviour", "retry"}, 3),
      Case(Redis, {"behaviour", "later"}, 2), Case(Redis, {"behaviour", "other"}, 2),
      Case(Redis, {"play", "colons"}, 2), Case(Memory, {"behaviour", "retry"}, 2) }
    \cup {Case(e, {a, "frame"}, 1) : e \in {NoDedup, Open}, a \in DOMAIN Bad}
    \cup {Case(e, {"frame"}, 2) : e \in Faulty}

MCSymmetry == Permutations(Instances)
=============================================================================
