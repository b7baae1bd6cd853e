-------------------------- MODULE StratumRequests --------------------------
(***************************************************************************)
(* What stratumSwitcher makes of the requests with which a client starts   *)
(* (StratumSession.go, stratumHandleRequest), as a function from what the  *)
(* session knows and a request to what it knows then.  A request is a      *)
(* record with the parts of its parameters that are looked at.             *)
(***************************************************************************)
EXTENDS Integers

CONSTANTS
    ChainType,   \* "bitcoin" (and Decred, which differs in the ID) or "ethereum"
    NoRequest,   \* nil
    NoName       \* the empty sub-account

ASSUME ChainTypeAssumption == ChainType \in {"bitcoin", "ethereum"}

getDefaultStratumProtocol == IF ChainType = "ethereum" THEN "EthereumProxy" ELSE "BitcoinStratum"

\* A new session.  stat is a variable of the code that starts it.
NewSession(versionMask) ==
    [protocolType |-> getDefaultStratumProtocol, isBTCAgent |-> FALSE,
     isNiceHashClient |-> FALSE, jsonRPCVersion |-> 1, versionMask |-> versionMask,
     subscribe |-> NoRequest, authorize |-> NoRequest, subaccountName |-> NoName,
     stat |-> "connected"]

\* A slip: the request that is made up names the protocol.
EthProxyWithProtocol ==
    [method |-> "mining.subscribe", userAgent |-> "ETHProxy", protocol |-> "ethereumstratum/"]

makeSubscribeMessageForEthProxy ==
    [method |-> "mining.subscribe", userAgent |-> "ETHProxy", protocol |-> "none"]

ASSUME NoRequestAssumption == NoRequest # makeSubscribeMessageForEthProxy

parseSubscribeRequest(k, r) ==
    LET agent == r.userAgent = "btccom-agent"
    IN [k EXCEPT
          !.subscribe = r,
          !.isBTCAgent = @ \/ agent,
          !.isNiceHashClient = @ \/ (ChainType = "ethereum" /\ r.userAgent = "nicehash"),
          !.protocolType = IF ChainType # "ethereum" THEN @
                           ELSE IF agent \/ r.protocol = "ethereumstratum/"
                                THEN "EthereumStratumNiceHash" ELSE "EthereumStratum",
          !.stat = "subscribed"]

\* The request is kept although it may be refused for its name.
parseAuthorizeRequest(k, r) ==
    [k EXCEPT !.authorize = r, !.subaccountName = r.worker,
              !.stat = IF r.worker = NoName THEN @ ELSE "authorized"]

\* A mask that is not there, or is not a number, is not a field of the request.
parseConfigureRequest(k, r) ==
    [k EXCEPT !.versionMask = IF "mask" \in DOMAIN r THEN r.mask ELSE @]

submitLogin(k) ==
    IF k.protocolType = "EthereumProxy"
    THEN [k EXCEPT !.subscribe = makeSubscribeMessageForEthProxy,
                   !.stat = "subscribed", !.jsonRPCVersion = 2]
    ELSE k

\* A slip: a worker may authorize before it has subscribed.
HandleUnordered(k, r) ==
    IF r.method = "mining.subscribe"
    THEN IF k.stat = "connected" THEN parseSubscribeRequest(k, r) ELSE k
    ELSE IF r.method = "mining.configure" THEN parseConfigureRequest(k, r)
    ELSE parseAuthorizeRequest(IF r.method = "eth_submitLogin" THEN submitLogin(k) ELSE k, r)

\* A request that is refused leaves the session as it is, save for the
\* effects of eth_submitLogin; other methods are ignored.
stratumHandleRequest(k, r) ==
    CASE r.method = "mining.subscribe" /\ k.stat = "connected" -> parseSubscribeRequest(k, r)
      [] r.method = "mining.authorize" /\ k.stat = "subscribed" -> parseAuthorizeRequest(k, r)
      [] r.method = "eth_submitLogin" ->
            LET login == submitLogin(k)
            IN IF login.stat = "subscribed" THEN parseAuthorizeRequest(login, r) ELSE login
      [] r.method = "mining.configure" /\ k.protocolType = "BitcoinStratum" ->
            parseConfigureRequest(k, r)
      [] OTHER -> k

\* What Resume makes of a session that was saved: the saved requests are
\* handled again.
Resumed(k) ==
    LET new == NewSession(k.versionMask)
        subscribed == IF k.subscribe = NoRequest THEN new ELSE stratumHandleRequest(new, k.subscribe)
    IN IF k.authorize = NoRequest THEN subscribed ELSE stratumHandleRequest(subscribed, k.authorize)

\* The form of the response to mining.subscribe that is accepted.
SubscribeResponse(k) ==
    CASE k.protocolType = "BitcoinStratum" -> "array"
      [] k.protocolType = "EthereumStratumNiceHash" ->
            IF k.isNiceHashClient THEN "array with short nonce" ELSE "array with nonce"
      [] OTHER -> "true"
=============================================================================
