--------------------------- MODULE MCSessionStart ---------------------------
(***************************************************************************)
(* Either one session of a known user, whose client may send any requests, *)
(* or three sessions of an unknown user, whose default coin has no server. *)
(***************************************************************************)
EXTENDS SessionStart

Login(method, worker) == [method |-> method, worker |-> worker]
Subscribe(userAgent, protocol) ==
    [method |-> "mining.subscribe", userAgent |-> userAgent, protocol |-> protocol]

MCClientRequests ==
    [s \in Sessions |->
        IF s = "s1"
        THEN {Subscribe("miner", "none"), Subscribe("btccom-agent", "none"),
              Subscribe("nicehash", "ethereumstratum/"),
              Login("mining.authorize", NoName), Login("mining.authorize", "known"),
              Login("eth_submitLogin", NoName), Login("eth_submitLogin", "known"),
              [method |-> "mining.configure", mask |-> 1], NullRequest}
        ELSE {Login("eth_submitLogin", "unknown")}]

MCStarts ==
    LET coins == [u \in {"known", "unknown"} |-> IF u = "known" THEN "eth" ELSE NoCoin]
    IN {[sessions |-> {"s1"}, coins |-> coins],
        [sessions |-> {"s2", "s3", "s4"}, coins |-> coins]}
=============================================================================
