---------------------------- MODULE SessionStart ----------------------------
(***************************************************************************)
(* From a client's connection to the proxy mode of its session             *)
(* (StratumSession.go): the requests of the client, the coin of its        *)
(* sub-account or the registration of a new one, and the server's          *)
(* responses, also when the session is connected again to another server.  *)
(* The registration is composed with the service that carries it out       *)
(* (userChainAPIServer/initUserCoin/UserAutoReg.go); the two share nodes    *)
(* of ZooKeeper.                                                           *)
(*                                                                         *)
(* The panic of one goroutine ends the process (Panic): its sessions are   *)
(* gone, and the nodes stay.                                               *)
(***************************************************************************)
EXTENDS StratumRequests, Sequences, FiniteSets

CONSTANTS
    Sessions,
    ClientRequests,      \* per session: what its client may send
    Users, Coins, NoCoin,
    Servers,             \* coins with a server in stratumServerInfoMap
    DefaultCoin,         \* UserAutoRegAPI.DefaultCoin
    AutoRegMaxWaitUsers,
    Starts,              \* which sessions connect, and the coins of known users
    MaxAttempts,         \* 1 + retryTimeWhenServerDown
    NoUser,
    MaxReconnects, MaxFailures   \* bounds

ASSUME SessionAssumption ==
    /\ IsFiniteSet(Sessions) /\ AutoRegMaxWaitUsers \in Nat
    /\ MaxAttempts \in Nat \ {0} /\ MaxReconnects \in Nat /\ MaxFailures \in Nat
ASSUME RequestAssumption ==
    \A s \in Sessions : \A r \in ClientRequests[s] :
        /\ r # NoRequest
        /\ r.method \in {"mining.authorize", "eth_submitLogin"} => r.worker \in Users \cup {NoName}
ASSUME CoinAssumption == Servers \subseteq Coins /\ DefaultCoin \in Coins /\ NoCoin \notin Coins
ASSUME StartAssumption == \A start \in Starts : start.coins \in [Users -> Coins \cup {NoCoin}]

VARIABLES
    session,            \* per session: the record below
    readers,            \* goroutines of serverSubscribeAndAuthorize
    conns,              \* external: connections to servers, by attempt
    coinOf,             \* the node of a user in zookeeperSwitcherWatchDir
    regNode,            \* users with a node in zookeeperAutoRegWatchDir
    autoRegAllowUsers,
    regUser,            \* the service: its step and its user
    panics,             \* how often the process has ended by a panic
    failures            \* for the bound

zkVars == <<coinOf, regNode>>
regVars == <<zkVars, autoRegAllowUsers, regUser, failures>>
vars == <<session, readers, conns, panics, regVars>>

-----------------------------------------------------------------------------
(* Sessions *)

\* conn is the attempt whose connection is serverConn and serverReader; reader
\* is FALSE when serverReader is nil.
Fresh(pc) ==
    [pc |-> pc, k |-> NewSession(0), request |-> NoRequest, coin |-> NoCoin, autoReg |-> TRUE,
     held |-> FALSE, conn |-> 0, reader |-> FALSE, attempts |-> 0, reconnects |-> 0,
     late |-> FALSE]

NoConn == [todo |-> <<>>, id |-> TRUE, inOrder |-> TRUE, accepted |-> FALSE, open |-> FALSE]

\* external: the responses of a server.  A malformed one is the line null, or an
\* array of mining.subscribe that is too short: a pointer that is nil or an index
\* out of range.
InOrder == {<<"subscribe", "auth">>, <<"malformed">>, <<"subscribe", "malformed">>}
Responses == InOrder \cup {<<"auth", "subscribe">>}
IdleService == [pc |-> "idle", user |-> NoUser]
Attempts == 1 .. 1 + MaxReconnects * MaxAttempts

Init ==
    \E start \in Starts :
        /\ session = [s \in Sessions |-> Fresh(IF s \in start.sessions THEN "naming" ELSE "stopped")]
        /\ coinOf = start.coins
        /\ readers = {}
        /\ conns = [s \in Sessions |-> [a \in Attempts |-> NoConn]]
        /\ regNode = {}
        /\ autoRegAllowUsers = AutoRegMaxWaitUsers
        /\ regUser = IdleService
        /\ panics = 0
        /\ failures = 0

User(s) == session[s].k.subaccountName
Goto(s, pc) == session' = [session EXCEPT ![s].pc = pc]

\* Both connections are closed, and manager is nil.  A registration that is
\* given up is counted back.
StopWith(s, record) ==
    /\ session' = [session EXCEPT ![s] = [record EXCEPT !.pc = "stopped", !.held = FALSE]]
    /\ conns' = IF record.conn = 0 THEN conns
                ELSE [conns EXCEPT ![s][record.conn] = [@ EXCEPT !.open = FALSE]]

Stop(s) == StopWith(s, session[s])

\* The process has ended and is started again; its clients have gone.
Panic ==
    /\ session' = [s \in Sessions |-> Fresh("stopped")]
    /\ readers' = {}
    /\ conns' = [s \in Sessions |-> [a \in Attempts |-> NoConn]]
    /\ autoRegAllowUsers' = AutoRegMaxWaitUsers
    /\ panics' = panics + 1
    /\ UNCHANGED <<zkVars, regUser, failures>>

-----------------------------------------------------------------------------
(* stratumFindWorkerName *)

\* The goroutine that reads requests has one; to handle it may take a call to
\* ZooKeeper (GetRegularSubaccountName).
ReadRequest(s) ==
    /\ session[s].pc = "naming" /\ session[s].request = NoRequest
    /\ \E r \in ClientRequests[s] : session' = [session EXCEPT ![s].request = r]
    /\ UNCHANGED <<readers, conns, panics, regVars>>

\* The line null, which is decoded without an error: the request is nil.
NullRequest == [method |-> "null"]

HandleNull(s) ==
    /\ session[s].pc = "naming" /\ session[s].request = NullRequest
    /\ Panic

\* Neither a result nor an error is sent, which takes manager.
Unanswered(k, r) ==
    /\ r.method = "mining.configure"
    /\ k.protocolType = "BitcoinStratum" => parseConfigureRequest(k, r).versionMask = 0

\* The session was stopped for its time limit: manager is nil.
HandleRequestLate(s) ==
    /\ session[s].pc = "stopped" /\ session[s].request # NoRequest
    /\ IF Unanswered(session[s].k, session[s].request)
       THEN /\ session' = [session EXCEPT ![s].request = NoRequest]
            /\ UNCHANGED <<readers, conns, panics, regVars>>
       ELSE Panic

HandleRequest(s) ==
    /\ session[s].pc = "naming" /\ session[s].request \notin {NoRequest, NullRequest}
    /\ LET k == stratumHandleRequest(session[s].k, session[s].request)
       IN session' = [session EXCEPT
                        ![s] = [session[s] EXCEPT
                                    !.k = k, !.request = NoRequest,
                                    !.pc = IF k.stat = "authorized" THEN "finding" ELSE @]]
    /\ UNCHANGED <<readers, conns, panics, regVars>>

\* The client has gone or speaks another protocol, or there is the time limit,
\* also in the middle of a request.
FindWorkerNameFails(s) ==
    /\ session[s].pc = "naming"
    /\ StopWith(s, [session[s] EXCEPT !.late = session[s].request # NoRequest])
    /\ UNCHANGED <<readers, panics, regVars>>

-----------------------------------------------------------------------------
(* findMiningCoin and tryAutoReg *)

\* A slip: the server of the coin is not looked up.
FoundUnchecked(s, coin) ==
    [session[s] EXCEPT !.coin = coin, !.attempts = 1, !.pc = "connecting"]

\* A session that has found its coin, or has not and ends.
Found(s, coin) ==
    [session[s] EXCEPT !.coin = coin, !.attempts = 1,
                       !.pc = IF coin \in Servers THEN "connecting" ELSE "stopped"]

\* A slip: only a registration that fails is counted back.
ReleasedWhenFailed(s) == IF session[s].coin = NoCoin THEN 0 ELSE 1

Released(s) == IF session[s].held THEN 1 ELSE 0

\* GetW fails when there is no node, and when ZooKeeper does not answer.  There
\* is a registration only for a new session that has not tried it yet.
FindMiningCoin(s) ==
    /\ session[s].pc \in {"finding", "woken"}
    /\ \E failed \in {FALSE, failures < MaxFailures} :
         LET coin == IF failed THEN NoCoin ELSE coinOf[User(s)]
             next == IF coin = NoCoin /\ session[s].pc = "finding"
                     THEN [session[s] EXCEPT !.pc = "registering"]
                     ELSE Found(s, coin)
         IN /\ failures' = IF failed THEN failures + 1 ELSE failures
            /\ session' = [session EXCEPT ![s] = [next EXCEPT !.held = FALSE]]
            /\ autoRegAllowUsers' = autoRegAllowUsers + Released(s)
    /\ UNCHANGED <<readers, conns, panics, zkVars, regUser>>

\* GetW of the registration node finds it; it may also fail for ZooKeeper.
FindsNode(s, found) ==
    \E failed \in {FALSE, failures < MaxFailures} :
        /\ found = (User(s) \in regNode /\ ~failed)
        /\ failures' = IF failed THEN failures + 1 ELSE failures

\* Waits for the node that another session has created, or goes on to create
\* one if the number of those that wait allows.
CheckRegistration(s) ==
    /\ session[s].pc = "registering"
    /\ \E found \in BOOLEAN :
         /\ FindsNode(s, found)
         /\ Goto(s, IF found THEN "waiting"
                    ELSE IF autoRegAllowUsers < 1 THEN "stopped" ELSE "counting")
    /\ UNCHANGED <<readers, conns, panics, zkVars, autoRegAllowUsers, regUser>>

CountRegistration(s) ==
    /\ session[s].pc = "counting"
    /\ autoRegAllowUsers' = autoRegAllowUsers - 1
    /\ session' = [session EXCEPT ![s] = [@ EXCEPT !.pc = "creating", !.held = TRUE]]
    /\ UNCHANGED <<readers, conns, panics, zkVars, regUser, failures>>

\* Another session may have created the node, which is as good.
CreateRegistration(s) ==
    /\ session[s].pc = "creating"
    /\ regNode' = regNode \cup {User(s)}
    /\ Goto(s, "watching")
    /\ UNCHANGED <<readers, conns, panics, coinOf, autoRegAllowUsers, regUser, failures>>

\* A slip: the second error of GetW is not looked at, and the event is nil.
WatchUnchecked(s) ==
    /\ session[s].pc = "watching"
    /\ Goto(s, "waiting")
    /\ UNCHANGED <<readers, conns, panics, regVars>>

\* The node may be gone already.
WatchRegistration(s) ==
    /\ session[s].pc = "watching"
    /\ \E found \in BOOLEAN :
         /\ FindsNode(s, found)
         /\ IF found THEN Goto(s, "waiting") /\ UNCHANGED <<conns, autoRegAllowUsers>>
            ELSE Stop(s) /\ autoRegAllowUsers' = autoRegAllowUsers + Released(s)
    /\ UNCHANGED <<readers, panics, zkVars, regUser>>

-----------------------------------------------------------------------------
(* RunUserAutoReg and regUser *)

\* ChildrenW has returned the users, and regUser is called for one; when there
\* are none it is waited for an event.
ServiceTakes ==
    /\ regUser.pc = "idle"
    /\ \E u \in regNode : regUser' = [pc |-> "posting", user |-> u]
    /\ UNCHANGED <<session, readers, conns, panics, zkVars, autoRegAllowUsers, failures>>

\* external: the website registers the user or refuses.
ServicePosts ==
    /\ regUser.pc = "posting"
    /\ \E pc \in {"posted", "done"} : regUser' = [regUser EXCEPT !.pc = pc]
    /\ UNCHANGED <<session, readers, conns, panics, zkVars, autoRegAllowUsers, failures>>

\* setMiningCoin, which leaves a coin that is there; a failure is logged.
ServiceSetsCoin ==
    /\ regUser.pc = "posted"
    /\ \/ /\ coinOf' = [coinOf EXCEPT ![regUser.user] = IF @ = NoCoin THEN DefaultCoin ELSE @]
          /\ UNCHANGED failures
       \/ /\ failures < MaxFailures
          /\ failures' = failures + 1
          /\ UNCHANGED coinOf
    /\ regUser' = [regUser EXCEPT !.pc = "done"]
    /\ UNCHANGED <<session, readers, conns, panics, regNode, autoRegAllowUsers>>

\* The deferred deletion of the node, which closes the channel of every session
\* that waits for it.  When it fails, the next ChildrenW returns the user again.
ServiceDeletes ==
    /\ regUser.pc = "done"
    /\ regUser' = IdleService
    /\ \/ /\ regNode' = regNode \ {regUser.user}
          /\ session' = [s \in Sessions |->
                IF session[s].pc = "waiting" /\ User(s) = regUser.user
                THEN [session[s] EXCEPT !.pc = "woken"] ELSE session[s]]
          /\ UNCHANGED failures
       \/ /\ failures < MaxFailures
          /\ failures' = failures + 1
          /\ UNCHANGED <<regNode, session>>
    /\ UNCHANGED <<readers, conns, panics, coinOf, autoRegAllowUsers>>

\* The service ends and is started again.
ServiceRestarts ==
    /\ regUser.pc # "idle" /\ failures < MaxFailures
    /\ failures' = failures + 1
    /\ regUser' = IdleService
    /\ UNCHANGED <<session, readers, conns, panics, zkVars, autoRegAllowUsers>>

-----------------------------------------------------------------------------
(* connectStratumServer and serverSubscribeAndAuthorize *)

\* The attempts of a reconnection are repeated, the first connection is not.
AttemptFails(s, record) ==
    IF record.reconnects > 0 /\ record.attempts < MaxAttempts
    THEN /\ session' = [session EXCEPT ![s] = [record EXCEPT !.pc = "connecting", !.attempts = @ + 1]]
         /\ UNCHANGED conns
    ELSE StopWith(s, record)

DialFails(s) ==
    /\ session[s].pc = "connecting"
    /\ AttemptFails(s, session[s])
    /\ UNCHANGED <<readers, panics, regVars>>

\* The attempts of a session are numbered, those of its reconnections from 2.
AttemptOf(record) ==
    IF record.reconnects = 0 THEN 1
    ELSE 1 + (record.reconnects - 1) * MaxAttempts + record.attempts

\* The requests are sent, and a goroutine reads the responses.  The server uses
\* the ID of the session or another one.  The connection of a former attempt
\* stays open.
Dial(s) ==
    LET a == AttemptOf(session[s])
    IN /\ session[s].pc = "connecting"
       /\ IF NoRequest \in {session[s].k.subscribe, session[s].k.authorize} THEN Panic
          ELSE
          /\ session' = [session EXCEPT ![s] = [@ EXCEPT !.pc = "authorizing", !.conn = a,
                                                         !.reader = TRUE]]
          /\ \E id \in BOOLEAN, todo \in Responses :
               conns' = [conns EXCEPT ![s][a] = [todo |-> todo, id |-> id,
                                                 inOrder |-> todo \in InOrder,
                                                 accepted |-> FALSE, open |-> TRUE]]
          /\ readers' = readers \cup {[session |-> s, attempt |-> a, on |-> a,
                                       authMsgCounter |-> 0, result |-> "none"]}
          /\ UNCHANGED <<panics, regVars>>

\* Nobody takes the result of an attempt that has reached its time limit.
Ends(g, result) ==
    LET s == g.session
        awaited == session[s].pc = "authorizing" /\ session[s].conn = g.attempt
    IN readers' = (readers \ {g}) \cup (IF awaited THEN {[g EXCEPT !.result = result]} ELSE {})

\* The response of the other two protocols does not have an ID.
ComparesID(k) == k.protocolType \in {"BitcoinStratum", "EthereumStratumNiceHash"}

\* A slip: the session ID of the response is not compared.
SubscribeUnchecked(k, conn) == TRUE

SubscribeMatches(k, conn) == ComparesID(k) => conn.id

\* The goroutine has read a malformed response.
ReadMalformed(g) ==
    LET conn == conns[g.session][g.on]
    IN /\ g.result = "none" /\ conn.open /\ conn.todo # <<>> /\ Head(conn.todo) = "malformed"
       /\ Panic

\* A response to mining.subscribe, which ends the goroutine if it does not
\* succeed or has another session ID, or to mining.authorize.  After two of
\* these, or one that accepts, the goroutine ends (the client, which is told, may
\* have gone); while there is one that does not, it sends the request with the
\* suffix of the coin, on what is serverConn by then.  It reads on from what is
\* serverReader by then.
ReadResponse(g) ==
    LET s == g.session
        conn == conns[s][g.on]
        isAuth == Head(conn.todo) = "auth"
        read == [conns EXCEPT ![s][g.on].todo = Tail(@)]
        current == session[s].conn
    IN /\ g.result = "none" /\ conn.open /\ conn.todo # <<>> /\ Head(conn.todo) # "malformed"
       /\ \E success \in BOOLEAN :
            LET counter == g.authMsgCounter + (IF isAuth THEN 1 ELSE 0)
                again == counter = 1
                accepts == isAuth /\ success
                refuses == ~isAuth /\ ~(success /\ SubscribeMatches(session[s].k, conn))
                next == IF again THEN [read EXCEPT ![s][current].todo = Append(@, "auth")] ELSE read
            IN IF refuses \/ accepts \/ counter = 2
               THEN /\ \E result \in {"failed"} \cup (IF accepts THEN {"accepted"} ELSE {}) : Ends(g, result)
                    /\ conns' = [read EXCEPT ![s][g.on].accepted = @ \/ accepts]
                    /\ UNCHANGED <<session, panics, regVars>>
               ELSE IF ~session[s].reader \/ (again /\ session[s].pc = "stopped") THEN Panic
               ELSE /\ readers' = (readers \ {g}) \cup
                          {[g EXCEPT !.authMsgCounter = counter, !.on = current]}
                    /\ conns' = next
                    /\ UNCHANGED <<session, panics, regVars>>

\* The connection is closed, by the server or by the session.
ReadFails(g) ==
    /\ g.result = "none"
    /\ Ends(g, "failed")
    /\ conns' = [conns EXCEPT ![g.session][g.on].open = FALSE]
    /\ UNCHANGED <<session, panics, regVars>>

\* The session takes the result, and goes into proxy mode or tries again.
AuthorizeEnds(s) ==
    \E g \in readers :
        /\ g.session = s /\ g.result # "none"
        /\ readers' = readers \ {g}
        /\ IF g.result = "accepted" THEN Goto(s, "running") /\ UNCHANGED conns
           ELSE AttemptFails(s, session[s])
        /\ UNCHANGED <<panics, regVars>>

\* The time limit; the goroutine goes on.
AuthorizeTimeout(s) ==
    /\ session[s].pc = "authorizing"
    /\ AttemptFails(s, [session[s] EXCEPT !.late = TRUE])
    /\ readers' = {g \in readers : g.session # s \/ g.result = "none"}
    /\ UNCHANGED <<panics, regVars>>

\* The downstream copier sets serverReader to nil.
TakeReader(s) ==
    /\ session[s].pc = "running" /\ session[s].reader
    /\ session' = [session EXCEPT ![s].reader = FALSE]
    /\ UNCHANGED <<readers, conns, panics, regVars>>

\* reconnectStratumServer, for the reasons that StratumSession has.
Reconnect(s) ==
    /\ session[s].pc = "running" /\ session[s].reconnects < MaxReconnects
    /\ session' = [session EXCEPT ![s] = [session[s] EXCEPT
                      !.pc = "connecting", !.reader = FALSE, !.attempts = 1, !.reconnects = @ + 1]]
    /\ conns' = [conns EXCEPT ![s][session[s].conn] = NoConn]
    /\ UNCHANGED <<readers, panics, regVars>>

-----------------------------------------------------------------------------

ClientStep(s) ==
    \/ ReadRequest(s) \/ HandleNull(s) \/ HandleRequestLate(s) \/ HandleRequest(s)
    \/ FindWorkerNameFails(s)
RegistrationStep(s) ==
    \/ FindMiningCoin(s) \/ CheckRegistration(s) \/ CountRegistration(s)
    \/ CreateRegistration(s) \/ WatchRegistration(s)
ServerStep(s) ==
    \/ Dial(s) \/ DialFails(s) \/ AuthorizeEnds(s) \/ AuthorizeTimeout(s)
    \/ TakeReader(s) \/ Reconnect(s)
ServiceStep == ServiceTakes \/ ServicePosts \/ ServiceSetsCoin \/ ServiceDeletes

Next ==
    \/ \E s \in Sessions : ClientStep(s) \/ RegistrationStep(s) \/ ServerStep(s)
    \/ \E g \in readers : ReadResponse(g) \/ ReadMalformed(g) \/ ReadFails(g)
    \/ ServiceStep \/ ServiceRestarts

\* The service runs: its only waits are calls, and an event when there is no node.
Spec == Init /\ [][Next]_vars /\ WF_vars(ServiceStep)

-----------------------------------------------------------------------------
(* Properties *)

Held == {s \in Sessions : session[s].held}

\* Types of the variables.
TypeOK ==
    /\ \A s \in Sessions :
         /\ session[s].pc \in {"naming", "finding", "registering", "counting", "creating", "watching",
                               "waiting", "woken", "connecting", "authorizing", "running", "stopped"}
         /\ session[s].coin \in Coins \cup {NoCoin}
         /\ session[s].conn \in {0} \cup Attempts
         /\ session[s].pc \in {"authorizing", "running"} => session[s].coin \in Servers
         /\ session[s].held => session[s].pc \in {"creating", "watching", "waiting", "woken"}
    /\ \A g \in readers : /\ g.on \in Attempts /\ g.authMsgCounter \in 0 .. 1
                          /\ g.result \in {"none", "accepted", "failed"}
    /\ coinOf \in [Users -> Coins \cup {NoCoin}] /\ regNode \subseteq Users
    /\ failures \in 0 .. MaxFailures

\* A session is in proxy mode only when the server it is connected to has
\* accepted its miner.  Where the protocol has an ID in the response, the server
\* also uses the ID of the session (serverSubscribeAndAuthorize), unless the
\* response of mining.authorize came before that of mining.subscribe, which is
\* then not read, or an attempt has reached its time limit: the goroutine of that
\* attempt may then read the response in place of the one that is awaited.
RunningIsAccepted ==
    \A s \in Sessions : session[s].pc = "running" =>
        LET conn == conns[s][session[s].conn]
        IN /\ conn.accepted
           /\ ComparesID(session[s].k) => conn.id \/ ~conn.inOrder \/ session[s].late

\* What a registration takes from the number of sessions that may wait it gives
\* back, whichever way it ends (tryAutoReg); that the number is negative for a
\* while is accepted there.
QuotaConserved == autoRegAllowUsers + Cardinality(Held) = AutoRegMaxWaitUsers

\* A session that has authorized is resumed after an upgrade from its saved
\* requests as the same kind of client, and expects the same response of a
\* server (Resume, stratumHandleRequest).  Its protocol and the version of its
\* responses are the same too, save for a client of EthereumProxy: the
\* mining.subscribe that was made up for it is resumed as one of EthereumStratum.
ResumeRestores ==
    \A s \in Sessions : session[s].k.stat = "authorized" =>
        LET k == session[s].k
            r == Resumed(k)
        IN /\ r.stat = "authorized"
           /\ r.subaccountName = k.subaccountName
           /\ r.isBTCAgent = k.isBTCAgent
           /\ r.versionMask = k.versionMask
           /\ SubscribeResponse(r) = SubscribeResponse(k)
           /\ k.protocolType # "EthereumProxy" =>
                r.protocolType = k.protocolType /\ r.jsonRPCVersion = k.jsonRPCVersion

\* What is read next is nil or too short, from a client or from a server.
MalformedNext ==
    \/ \E s \in Sessions : session[s].request = NullRequest
    \/ \E g \in readers : LET todo == conns[g.session][g.on].todo
                           IN todo # <<>> /\ Head(todo) = "malformed"

\* Requests in any order never make a session use one that it does not have: the
\* process panics during a handshake only for a line that is malformed, or when
\* a goroutine has outlived the time limit of what it was started for, and finds
\* that manager or serverReader is nil.
PanicHasCause ==
    [][panics' # panics => MalformedNext \/ \E s \in Sessions : session[s].late]_vars

\* A session that waits for a registration, for which there is no time limit,
\* is woken, although the service may be restarted, be refused, and fail to
\* delete the node at first.
RegistrationEnds ==
    \A s \in Sessions : session[s].pc = "waiting" ~> session[s].pc # "waiting"
=============================================================================
