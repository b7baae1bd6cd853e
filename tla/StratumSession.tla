--------------------------- MODULE StratumSession ---------------------------
(***************************************************************************)
(* One session of stratumSwitcher from the moment it proxies               *)
(* (StratumSession.go), with its entry in the session manager, its watch   *)
(* on the coin of its sub-account (ZookeeperManager) and the two           *)
(* connections.                                                            *)
(*                                                                         *)
(* Every call of proxyStratum starts three goroutines: two copiers, one per *)
(* direction, and a coin watcher.  They race with each other, with those of *)
(* earlier generations that have not ended yet, and with the goroutines    *)
(* that run Stop.  A generation is named by the value reconnectCounter has *)
(* when its connection is made.                                            *)
(*                                                                         *)
(* session.lock is held during a whole reconnection, the dial and the      *)
(* handshake included (locked).  Its other critical sections are single    *)
(* actions, guarded by LockFree.  Unlocked reads and writes of the fields  *)
(* miningCoin, serverConn, zkWatchEvent and manager are steps of their own. *)
(*                                                                         *)
(* Operators named after another with an addition (StopUnchecked) are      *)
(* slips that a property must catch; no action uses them.                  *)
(***************************************************************************)
EXTENDS Integers

CONSTANTS
    Coins,          \* values of the node of the sub-account
    ServerCoins,    \* coins in stratumServerInfoMap
    Chans,          \* channel objects
    NoChan,
    NoCoin,         \* no coin: no dial under way, no node
    NoConn,         \* nil connection
    Dirs,           \* the copiers modelled: "up" is client to server, "down" back
    MaxReconnects,  \* bound on reconnectCounter
    MaxAttempts,    \* attempts of one reconnection, retryTime + 1 in the source
    MaxCoinChanges, MaxServerCloses, MaxClientCloses
                    \* bounds on what the environment does

ASSUME CoinAssumption ==
    ServerCoins \subseteq Coins /\ ServerCoins # {} /\ NoCoin \notin Coins
ASSUME ChanAssumption == Chans # {} /\ NoChan \notin Chans
ASSUME DirAssumption == "up" \in Dirs /\ Dirs \subseteq {"down", "up"}
ASSUME BoundAssumption ==
    /\ MaxReconnects \in Nat /\ MaxAttempts \in Nat \ {0}
    /\ MaxCoinChanges \in Nat /\ MaxServerCloses \in Nat /\ MaxClientCloses \in Nat

Gens == 0 .. MaxReconnects

VARIABLES
    \* fields of the session
    isBTCAgent, runningStat, reconnectCounter, locked, miningCoin, serverConn,
    zkWatchEvent, managerNil,
    \* what the session manager holds of it
    registered,      \* manager.sessions has the session
    frees,           \* number of times its session ID was freed
    \* the connections: which are up, and which server each leads to
    clientOpen, openConns, connCoin,
    \* goroutines
    proxy,           \* proxyStratum per generation
    copier,          \* the two copiers per generation
    watch,           \* the coin watcher per generation
    stops,           \* goroutines about to enter Stop
    stopper,         \* where the one that got through Stop's check is
    dialing,         \* coin whose server is being tried, during a reconnection
    attempts,        \* attempts made in the current reconnection
    panicked,        \* a nil dereference ended the process
    events,          \* how often each event has happened, for the bounds
    \* ZooKeeper and its manager
    node, armed, fired, watcherMap, nodeValue, channels, chan, handed

ASSUME ConnAssumption == NoConn \notin Gens

Events == {"coin", "server", "client"}

Path == "coin"
Sid == "session"

ZK == INSTANCE ZookeeperManager WITH
        Paths <- {Path}, SessionIDs <- {Sid}, Values <- Coins, NoNode <- NoCoin

zkVars == <<node, armed, fired, watcherMap, nodeValue, channels, chan, handed>>
coinVars == <<miningCoin, zkWatchEvent>>
statVars == <<runningStat, reconnectCounter, locked, dialing, attempts>>
connVars == <<clientOpen, openConns, connCoin, serverConn>>
managerVars == <<registered, frees, managerNil>>
stopVars == <<stops, stopper>>
goVars == <<proxy, copier, watch, stopVars>>
restVars == <<isBTCAgent, panicked>>
vars == <<zkVars, coinVars, statVars, connVars, managerVars, goVars, restVars, events>>

LockFree == ~locked

\* A goroutine that has not been started, or has ended.
NoCopier == [pc |-> "none", cnt |-> 0, conn |-> NoConn]
NoWatch == [pc |-> "none", cnt |-> 0, ch |-> NoChan]

\* The session as runProxyStratum hands it to proxyStratum: the coin was read
\* with GetW and the server of that coin is connected.  The coins are
\* interchangeable, and so are the channels.
Init ==
    /\ isBTCAgent \in BOOLEAN
    /\ runningStat = "Running"
    /\ reconnectCounter = 0
    /\ locked = FALSE
    /\ miningCoin = CHOOSE c \in ServerCoins : TRUE
    /\ serverConn = 0
    /\ managerNil = FALSE
    /\ registered = FALSE
    /\ frees = 0
    /\ clientOpen = TRUE
    /\ openConns = {0}
    /\ connCoin = [g \in Gens |-> IF g = 0 THEN miningCoin ELSE NoCoin]
    /\ proxy = [g \in Gens |-> IF g = 0 THEN "check" ELSE "none"]
    /\ copier = [x \in Dirs \X Gens |-> NoCopier]
    /\ watch = [g \in Gens |-> NoWatch]
    /\ stops = 0
    /\ stopper = "none"
    /\ dialing = NoCoin
    /\ attempts = 0
    /\ panicked = FALSE
    /\ events = [e \in Events |-> 0]
    /\ zkWatchEvent = CHOOSE c \in Chans : TRUE
    /\ node = [p \in {Path} |-> miningCoin]
    /\ armed = [p \in {Path} |-> 1]
    /\ fired = [p \in {Path} |-> 0]
    /\ watcherMap = {Path}
    /\ nodeValue = node
    /\ channels = [p \in {Path} |-> [sid \in {Sid} |-> zkWatchEvent]]
    /\ chan = [c \in Chans |-> IF c = zkWatchEvent THEN "open" ELSE "free"]
    /\ handed = [c \in Chans |-> IF c = zkWatchEvent THEN miningCoin ELSE NoCoin]

-----------------------------------------------------------------------------
\* Ending and renewing a generation, under session.lock.

\* Running, and no reconnection since the goroutine took its counter.
StillCurrentIgnoringCounter(cnt) == runningStat = "Running"

StillCurrent(cnt) == runningStat = "Running" /\ cnt = reconnectCounter

\* ReleaseW, which does nothing without a registered channel.
Unwatch ==
    IF channels[Path][Sid] # NoChan
    THEN ZK!ReleaseW(Path, Sid)
    ELSE UNCHANGED zkVars

\* reconnectStratumServer up to the dial: the session leaves the manager, lets
\* go of its watch and closes the connection.  The lock stays held.  The coin
\* is read without regard to who writes it.
BeginReconnect ==
    /\ reconnectCounter < MaxReconnects
    /\ runningStat' = "Reconnecting"
    /\ reconnectCounter' = reconnectCounter + 1
    /\ locked' = TRUE
    /\ dialing' = miningCoin
    /\ registered' = FALSE
    /\ Unwatch
    /\ openConns' = openConns \ {serverConn}
    /\ serverConn' = NoConn
    /\ UNCHANGED attempts

\* The server answered and accepted the miner: back to running, and
\* proxyStratum starts the next generation.
AttemptSucceeds ==
    /\ locked
    /\ dialing \in ServerCoins
    /\ serverConn' = reconnectCounter
    /\ openConns' = openConns \union {reconnectCounter}
    /\ connCoin' = [connCoin EXCEPT ![reconnectCounter] = dialing]
    /\ runningStat' = "Running"
    /\ locked' = FALSE
    /\ dialing' = NoCoin
    /\ attempts' = 0
    /\ proxy' = [proxy EXCEPT ![reconnectCounter] = "check"]
    /\ UNCHANGED <<zkVars, coinVars, reconnectCounter, clientOpen, managerVars,
                   copier, watch, stopVars, restVars, events>>

AttemptFailsSilently ==
    /\ locked
    /\ attempts' = 0
    /\ dialing' = NoCoin
    /\ locked' = FALSE
    /\ UNCHANGED <<zkVars, coinVars, runningStat, reconnectCounter, connVars,
                   managerVars, goVars, restVars, events>>

\* The last failing attempt lets the session be stopped; it stays Reconnecting.
AttemptFails ==
    /\ locked
    /\ IF attempts + 1 < MaxAttempts
       THEN /\ attempts' = attempts + 1
            /\ dialing' = miningCoin
            /\ UNCHANGED <<locked, stops>>
       ELSE /\ attempts' = 0
            /\ dialing' = NoCoin
            /\ locked' = FALSE
            /\ stops' = stops + 1
    /\ UNCHANGED <<zkVars, coinVars, runningStat, reconnectCounter, connVars,
                   managerVars, proxy, copier, watch, stopper, restVars, events>>

\* tryStop: a goroutine is sent to stop the session, which keeps running until
\* that goroutine gets the lock.
TryStop(cnt) ==
    /\ LockFree
    /\ stops' = IF StillCurrent(cnt) THEN stops + 1 ELSE stops

\* tryReconnect, and switchCoinType once it has the lock.
TryReconnect(cnt) ==
    /\ LockFree
    /\ IF StillCurrent(cnt)
       THEN BeginReconnect
       ELSE UNCHANGED <<zkVars, statVars, registered, openConns, serverConn>>

-----------------------------------------------------------------------------
\* proxyStratum: checks that the session runs, ...
ProxyCheck(g) ==
    /\ proxy[g] = "check"
    /\ LockFree
    /\ proxy' = [proxy EXCEPT ![g] =
                   IF runningStat = "Running" THEN "register" ELSE "done"]
    /\ UNCHANGED <<zkVars, coinVars, statVars, connVars, managerVars, copier,
                   watch, stopVars, restVars, events>>

\* ... then registers it and starts the goroutines of the generation.
StartGoroutines(g) ==
    /\ proxy' = [proxy EXCEPT ![g] = "done"]
    /\ copier' = [x \in Dirs \X Gens |->
                    IF x[2] = g THEN [NoCopier EXCEPT !.pc = "start"] ELSE copier[x]]
    /\ watch' = [watch EXCEPT ![g].pc = "start"]

ProxyRegisterOnce(g) ==
    /\ proxy[g] = "register"
    /\ ~managerNil
    /\ registered' = (registered \/ g = 0)
    /\ StartGoroutines(g)
    /\ UNCHANGED <<zkVars, coinVars, statVars, connVars, frees, managerNil,
                   stopVars, restVars, events>>

ProxyRegister(g) ==
    /\ proxy[g] = "register"
    /\ ~managerNil
    /\ registered' = TRUE
    /\ StartGoroutines(g)
    /\ UNCHANGED <<zkVars, coinVars, statVars, connVars, frees, managerNil,
                   stopVars, restVars, events>>

-----------------------------------------------------------------------------
\* The copiers.

Copier(d, g, new) == copier' = [copier EXCEPT ![<<d, g>>] = new]

\* Steps of a copier that touch nothing else.
OnlyCopier ==
    UNCHANGED <<zkVars, coinVars, statVars, connVars, managerVars, proxy, watch,
                stopVars, restVars, events>>

\* A copier takes the counter when it gets to run.
CopierStart(d, g) ==
    /\ copier[<<d, g>>].pc = "start"
    /\ LockFree
    /\ Copier(d, g, [NoCopier EXCEPT !.pc = "attach", !.cnt = reconnectCounter])
    /\ OnlyCopier

\* It flushes what is buffered and calls IOCopyBuffer with the connection the
\* session has by then, which refuses a nil one.
CopierAttach(d, g) ==
    /\ copier[<<d, g>>].pc = "attach"
    /\ Copier(d, g, [copier[<<d, g>>] EXCEPT
                       !.pc = IF serverConn = NoConn THEN "tryStop" ELSE "copy",
                       !.conn = serverConn])
    /\ OnlyCopier

\* Stopping because the connection given was nil, because the client closed
\* its end, or because the server of a BTCAgent did.
CopierTryStop(d, g) ==
    /\ \/ copier[<<d, g>>].pc = "tryStop"
       \/ copier[<<d, g>>].pc = "copy" /\ ~clientOpen
       \/ copier[<<d, g>>].pc = "copy" /\ isBTCAgent /\ copier[<<d, g>>].conn \notin openConns
    /\ TryStop(copier[<<d, g>>].cnt)
    /\ Copier(d, g, NoCopier)
    /\ UNCHANGED <<zkVars, coinVars, statVars, connVars, managerVars, proxy,
                   watch, stopper, restVars, events>>

\* The server connection was closed, by the server or by a reconnection: the
\* downstream copier fails to read, the upstream one to write what the client
\* sends.  That one goes on once the reconnection has released the lock.
CopierTryReconnect(d, g) ==
    /\ copier[<<d, g>>].pc = "copy"
    /\ copier[<<d, g>>].conn \notin openConns
    /\ ~isBTCAgent
    /\ TryReconnect(copier[<<d, g>>].cnt)
    /\ Copier(d, g, IF d = "up" THEN [NoCopier EXCEPT !.pc = "resend"] ELSE NoCopier)
    /\ UNCHANGED <<coinVars, clientOpen, connCoin, frees, managerNil, proxy, watch,
                   stopVars, restVars, events>>

\* What could not be written is written to the new server if the session runs.
UpResend(g) ==
    /\ copier[<<"up", g>>].pc = "resend"
    /\ LockFree
    /\ Copier("up", g, [NoCopier EXCEPT
                          !.pc = IF runningStat = "Running" THEN "write" ELSE "none"])
    /\ OnlyCopier

\* The write goes to whatever connection the session has now.
UpWrite(g) ==
    /\ copier[<<"up", g>>].pc = "write"
    /\ serverConn # NoConn
    /\ Copier("up", g, NoCopier)
    /\ OnlyCopier

-----------------------------------------------------------------------------
\* The coin watchers.

Watch(g, new) == watch' = [watch EXCEPT ![g] = new]

OnlyWatch ==
    UNCHANGED <<zkVars, statVars, connVars, managerVars, proxy, copier, stopVars,
                restVars, events>>

WatchStart(g) ==
    /\ watch[g].pc = "start"
    /\ LockFree
    /\ Watch(g, [NoWatch EXCEPT !.pc = "load", !.cnt = reconnectCounter])
    /\ OnlyWatch
    /\ UNCHANGED coinVars

\* The channel to wait on is the one the session has when the wait begins.
WatchLoad(g) ==
    /\ watch[g].pc = "load"
    /\ Watch(g, [watch[g] EXCEPT !.pc = "wait", !.ch = zkWatchEvent])
    /\ OnlyWatch
    /\ UNCHANGED coinVars

\* Woken, by an event or because the channel was closed before, the watcher
\* ends unless the session runs and was not reconnected.
WatchWake(g) ==
    /\ watch[g].pc = "wait"
    /\ chan[watch[g].ch] = "closed"
    /\ LockFree
    /\ Watch(g, IF runningStat # "Stoped" /\ watch[g].cnt = reconnectCounter
                THEN [watch[g] EXCEPT !.pc = "getw", !.ch = NoChan]
                ELSE NoWatch)
    /\ OnlyWatch
    /\ UNCHANGED coinVars

\* Channels nobody refers to.  They are collected before the next one is made.
Garbage ==
    {c \in Chans :
        /\ chan[c] # "free"
        /\ channels[Path][Sid] # c
        /\ zkWatchEvent # c
        /\ \A g \in Gens : watch[g].ch # c}

CollectGarbage ==
    /\ \E g \in Gens : watch[g].pc = "getw"
    /\ \E c \in Garbage : ZK!Discard(c)
    /\ UNCHANGED <<coinVars, statVars, connVars, managerVars, goVars, restVars, events>>

WatchGetW(g) ==
    /\ watch[g].pc = "getw"
    /\ ~managerNil
    /\ Garbage = {}
    /\ LET c == CHOOSE c \in Chans : chan[c] = "free" IN
        /\ c \in Chans
        /\ ZK!GetW(Path, Sid, c)
        /\ Watch(g, [watch[g] EXCEPT !.pc = "store", !.ch = c])
    /\ UNCHANGED <<coinVars, statVars, connVars, managerVars, proxy, copier,
                   stopVars, restVars, events>>

WatchGetWGivesUp(g) ==
    /\ watch[g].pc = "getw"
    /\ ~managerNil
    /\ ZK!GetWMayFail(Path)
    /\ Watch(g, NoWatch)
    /\ OnlyWatch
    /\ UNCHANGED coinVars

\* GetW fails: the watcher sleeps and starts over with the old channel.
WatchGetWFails(g) ==
    /\ watch[g].pc = "getw"
    /\ ~managerNil
    /\ ZK!GetWMayFail(Path)
    /\ Watch(g, [watch[g] EXCEPT !.pc = "load"])
    /\ OnlyWatch
    /\ UNCHANGED coinVars

CoinRead(g) == handed[watch[g].ch]

\* The watcher stores the new channel and compares the coin.  An unchanged
\* coin, and one without a server, are ignored.
WatchStore(g) ==
    /\ watch[g].pc = "store"
    /\ CoinRead(g) # miningCoin => ~managerNil
    /\ zkWatchEvent' = watch[g].ch
    /\ Watch(g, CASE CoinRead(g) \in {miningCoin} \union (Coins \ ServerCoins) ->
                       [watch[g] EXCEPT !.pc = "load", !.ch = NoChan]
                  [] OTHER ->
                       [watch[g] EXCEPT !.pc = IF isBTCAgent THEN "tryStop" ELSE "switch"])
    /\ OnlyWatch
    /\ UNCHANGED miningCoin

WatchTryStop(g) ==
    /\ watch[g].pc = "tryStop"
    /\ TryStop(watch[g].cnt)
    /\ Watch(g, NoWatch)
    /\ UNCHANGED <<zkVars, coinVars, statVars, connVars, managerVars, proxy,
                   copier, stopper, restVars, events>>

\* switchCoinType sets the coin before it takes the lock ...
WatchSetCoin(g) ==
    /\ watch[g].pc = "switch"
    /\ miningCoin' = CoinRead(g)
    /\ Watch(g, [watch[g] EXCEPT !.pc = "lock", !.ch = NoChan])
    /\ OnlyWatch
    /\ UNCHANGED zkWatchEvent

\* ... and gives up if the session was reconnected or stopped meanwhile.
WatchSwitch(g) ==
    /\ watch[g].pc = "lock"
    /\ TryReconnect(watch[g].cnt)
    /\ Watch(g, NoWatch)
    /\ UNCHANGED <<coinVars, clientOpen, connCoin, frees, managerNil, proxy, copier,
                   stopVars, restVars, events>>

-----------------------------------------------------------------------------
\* Stop.

\* The connections are closed just after the lock is released; nothing that
\* runs in between depends on that.
CloseBoth ==
    /\ openConns' = openConns \ {serverConn}
    /\ clientOpen' = FALSE

OnlyStopEnter ==
    UNCHANGED <<zkVars, coinVars, reconnectCounter, locked, dialing, attempts,
                connCoin, serverConn, managerVars, proxy, copier, watch, restVars,
                events>>

StopUnchecked ==
    /\ stops > 0
    /\ LockFree
    /\ stops' = stops - 1
    /\ runningStat' = "Stoped"
    /\ stopper' = "release"
    /\ CloseBoth
    /\ OnlyStopEnter

StopUnlocked ==
    /\ stops > 0
    /\ stops' = stops - 1
    /\ runningStat' = "Stoped"
    /\ IF runningStat = "Stoped"
       THEN UNCHANGED <<stopper, openConns, clientOpen>>
       ELSE stopper' = "release" /\ CloseBoth
    /\ OnlyStopEnter

\* Only the first goroutine gets through; the others find the session stopped.
StopEnter ==
    /\ stops > 0
    /\ LockFree
    /\ stops' = stops - 1
    /\ runningStat' = "Stoped"
    /\ IF runningStat = "Stoped"
       THEN UNCHANGED <<stopper, openConns, clientOpen>>
       ELSE stopper' = "release" /\ CloseBoth
    /\ OnlyStopEnter

OnlyStopper ==
    UNCHANGED <<coinVars, statVars, connVars, proxy, copier, watch, stops,
                restVars, events>>

\* ReleaseStratumSession: the session leaves the manager and its ID is freed, ...
StopReleases ==
    /\ stopper = "release"
    /\ registered' = FALSE
    /\ frees' = frees + 1
    /\ stopper' = "unwatch"
    /\ OnlyStopper
    /\ UNCHANGED <<zkVars, managerNil>>

\* ... then its watch is released.
StopUnwatches ==
    /\ stopper = "unwatch"
    /\ Unwatch
    /\ stopper' = "forget"
    /\ OnlyStopper
    /\ UNCHANGED managerVars

StopForgetsManager ==
    /\ stopper = "forget"
    /\ managerNil' = TRUE
    /\ stopper' = "done"
    /\ OnlyStopper
    /\ UNCHANGED <<zkVars, registered, frees>>

-----------------------------------------------------------------------------
\* A nil field is dereferenced: session.manager after Stop, the server connection
\* or serverReader while they are being replaced, or a reader that a copier of
\* the same direction and another generation has set to nil after this one has
\* checked it (the connection only if there are bytes to write to it).  The
\* process ends with all its goroutines.
Panic ==
    /\ \/ managerNil /\ \E g \in Gens :
            \/ proxy[g] = "register"
            \/ watch[g].pc = "getw"
            \/ watch[g].pc = "store" /\ CoinRead(g) # miningCoin
       \/ serverConn = NoConn /\ \E g \in Gens :
            \/ copier[<<"up", g>>].pc = "write"
            \/ \E d \in Dirs : copier[<<d, g>>].pc = "attach"
       \/ \E d \in Dirs : \E g, h \in Gens :
            g # h /\ copier[<<d, g>>].pc = "attach" /\ copier[<<d, h>>].pc = "attach"
    /\ panicked' = TRUE
    /\ proxy' = [g \in Gens |-> "none"]
    /\ copier' = [x \in Dirs \X Gens |-> NoCopier]
    /\ watch' = [g \in Gens |-> NoWatch]
    /\ stops' = 0
    /\ stopper' = "none"
    /\ locked' = FALSE
    /\ UNCHANGED <<zkVars, coinVars, runningStat, reconnectCounter, dialing, attempts,
                   connVars, managerVars, isBTCAgent, events>>

-----------------------------------------------------------------------------
\* The environment: ZooKeeper, the servers and the client.

OnlyEnvironment ==
    UNCHANGED <<coinVars, statVars, connCoin, serverConn, managerVars, goVars, restVars>>

Event(e, max) ==
    /\ ~panicked
    /\ events[e] < max
    /\ events' = [events EXCEPT ![e] = @ + 1]

NodeWatcherRuns ==
    /\ ~panicked
    /\ ZK!Dispatch(Path)
    /\ OnlyEnvironment
    /\ UNCHANGED <<clientOpen, openConns, events>>

CoinChanges ==
    /\ Event("coin", MaxCoinChanges)
    /\ \E coin \in Coins : ZK!SetNode(Path, coin)
    /\ OnlyEnvironment
    /\ UNCHANGED <<clientOpen, openConns>>

ServerCloses ==
    /\ Event("server", MaxServerCloses)
    /\ serverConn \in openConns
    /\ openConns' = openConns \ {serverConn}
    /\ OnlyEnvironment
    /\ UNCHANGED <<zkVars, clientOpen>>

ClientCloses ==
    /\ Event("client", MaxClientCloses)
    /\ clientOpen
    /\ clientOpen' = FALSE
    /\ OnlyEnvironment
    /\ UNCHANGED <<zkVars, openConns>>

-----------------------------------------------------------------------------
Reconnection == AttemptSucceeds \/ AttemptFails

Proxying(g) == ProxyCheck(g) \/ ProxyRegister(g)

Copying(d, g) ==
    \/ CopierStart(d, g) \/ CopierAttach(d, g)
    \/ CopierTryStop(d, g)

Resending(g) == UpResend(g) \/ UpWrite(g)

Watching(g) ==
    \/ WatchStart(g) \/ WatchLoad(g) \/ WatchWake(g)
    \/ WatchStore(g) \/ WatchTryStop(g) \/ WatchSetCoin(g) \/ WatchSwitch(g)

Stopping == StopEnter \/ StopReleases \/ StopUnwatches \/ StopForgetsManager

Session ==
    \/ Reconnection
    \/ \E g \in Gens :
        \/ Proxying(g)
        \/ \E d \in Dirs : Copying(d, g) \/ CopierTryReconnect(d, g)
        \/ Resending(g)
        \/ Watching(g) \/ WatchGetW(g) \/ WatchGetWFails(g)
    \/ Stopping
    \/ Panic

Environment == NodeWatcherRuns \/ CoinChanges \/ ServerCloses \/ ClientCloses

Next == CollectGarbage \/ Session \/ Environment

\* The steps that are not left to chance: an attempt ends by its time limit, a
\* read on a closed connection returns, a goroutine that is woken runs.  The
\* upstream copier need not notice that its server is gone: that takes a client
\* that sends.
Progress ==
    \/ CollectGarbage
    \/ Reconnection
    \/ Stopping
    \/ NodeWatcherRuns
    \/ \E g \in Gens :
        \/ Proxying(g)
        \/ Copying("up", g)
        \/ \E d \in Dirs \ {"up"} : CopierTryReconnect(d, g)
        \/ Resending(g)
        \/ Watching(g) \/ WatchGetW(g)

\* Some goroutine that can run runs; GetW, tried again and again, does not fail
\* for ever.
Fairness ==
    /\ WF_vars(Progress)
    /\ SF_vars(CollectGarbage \/ \E g \in Gens : WatchGetW(g))

Spec == Init /\ [][Next]_vars /\ Fairness

-----------------------------------------------------------------------------
TypeOK ==
    /\ runningStat \in {"Running", "Stoped", "Reconnecting"}
    /\ reconnectCounter \in Gens
    /\ miningCoin \in Coins
    /\ serverConn \in Gens \union {NoConn}
    /\ openConns \subseteq Gens
    /\ zkWatchEvent \in Chans
    /\ registered \in BOOLEAN
    /\ stops \in Nat /\ frees \in Nat
    /\ locked => runningStat = "Reconnecting" /\ stopper = "none"

\* A connection to a server that is up is given up only by the coin watcher of
\* its own generation.  All goroutines of a generation see its connection fail,
\* and those of earlier generations see theirs fail later still:
\* reconnectCounter has to keep every one of them but the first from
\* reconnecting, and the comparison has to work with a counter that a goroutine
\* takes late.
HealthyConnKept ==
    [][runningStat = "Running" /\ runningStat' = "Reconnecting" =>
         \/ serverConn \notin openConns
         \/ \E g \in Gens : /\ watch[g].pc = "lock"
                            /\ watch[g].cnt = reconnectCounter
                            /\ watch'[g] = NoWatch]_vars

\* A session is stopped only when its client is gone or no server could be
\* reached, and that of a BTCAgent when its server is gone or its coin changed.
\* A goroutine that met a nil connection during a reconnection, or that asked
\* for a stop before one, does not end a session that works again.
StopJustified ==
    [][runningStat # "Stoped" /\ runningStat' = "Stoped" =>
         \/ ~clientOpen
         \/ runningStat = "Reconnecting"
         \/ isBTCAgent /\ (serverConn \notin openConns \/ events["coin"] > 0)]_vars

\* Whatever the number of goroutines that stop the session, its ID is freed
\* once: a second time it may belong to another session.
ReleasedOnce == frees <= 1

\* A session that runs, and whose proxyStratum got through, is one that the
\* manager knows of and an upgrade hands over.
RunningIsRegistered ==
    runningStat = "Running" /\ proxy[reconnectCounter] = "done" => registered

\* The session of a client that is gone is stopped and gives back its ID and
\* its watch, even if a reconnection is under way.
ClientGoneStops == ~clientOpen ~> (stopper = "done" \/ panicked)

\* The session follows the coin of its sub-account: it comes to be connected to
\* the server of that coin, is stopped, or the coin changes again.
ConnectedTo(coin) == runningStat = "Running" /\ connCoin[serverConn] = coin

CoinFollowed ==
    \A coin \in ServerCoins :
        node[Path] = coin ~>
            (ConnectedTo(coin) \/ node[Path] # coin \/ stopper = "done" \/ panicked)

\* Nothing is left to be done: every goroutine waits for the client, the server
\* or ZooKeeper.
Settled ==
    /\ runningStat = "Running"
    /\ fired[Path] = 0
    /\ \A g \in Gens :
        /\ proxy[g] \in {"none", "done"}
        /\ watch[g].pc = IF g = reconnectCounter THEN "wait" ELSE "none"
        /\ \A d \in Dirs :
            copier[<<d, g>>].pc = IF g = reconnectCounter THEN "copy" ELSE "none"
    /\ chan[watch[reconnectCounter].ch] = "open"

\* What the comment on the field says: miningCoin is the currency mined by the
\* user, that is, the one of the server the session is connected to.
MiningCoinIsMined == Settled => connCoin[serverConn] = miningCoin

\* The server never closed a connection of the session.
ServerKept == events["server"] = 0

\* As long as the servers keep their connections a session at rest is connected
\* to the server of the coin of its sub-account, if that has one: of all the
\* values and channels that its watchers read, keep and hand on without the lock,
\* none is left behind (watchCoinType, switchCoinType).
FollowsAtRest ==
    Settled /\ ServerKept /\ node[Path] \in ServerCoins =>
        connCoin[serverConn] = node[Path]

\* What the comment on the field says: the manager's sessions are those in
\* normal proxy state.  One that is stopped and released is not.
ReleasedIsUnregistered == stopper = "done" => ~registered
=============================================================================
