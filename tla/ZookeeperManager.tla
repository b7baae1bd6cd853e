-------------------------- MODULE ZookeeperManager --------------------------
(***************************************************************************)
(* The ZooKeeper manager of stratumSwitcher (ZookeeperManager.go).  It     *)
(* puts one ZooKeeper watch on a path however many sessions watch it, hands *)
(* every caller of GetW the value it read when that watch was set, with a  *)
(* channel, and closes all channels of the path when the watch fires.      *)
(*                                                                         *)
(* GetW, ReleaseW and the body of NodeWatcher.Run hold manager.lock, so    *)
(* each is one action.  The ZooKeeper server and go-zookeeper are external: *)
(* a node is a value that anybody may set, and a watch set on it produces  *)
(* one event, after the first change or when the ZooKeeper session is lost. *)
(*                                                                         *)
(* Operators named after another with an addition (DispatchKeepingWatcher) *)
(* are slips that a property must catch; no action uses them.              *)
(***************************************************************************)
EXTENDS Integers

CONSTANTS
    Paths,       \* paths of ZooKeeper nodes
    SessionIDs,  \* keys of the channels of one watcher
    Chans,       \* channel objects
    NoChan,      \* no channel is registered
    Values,      \* contents of a node
    NoNode       \* the node does not exist

ASSUME NoChanAssumption == NoChan \notin Chans
ASSUME NoNodeAssumption == NoNode \notin Values

VARIABLES
    node,        \* the nodes as the ZooKeeper server has them
    armed,       \* watches on a node that have not fired
    fired,       \* events sent for a node that no NodeWatcher has received yet
    watcherMap,  \* paths with a NodeWatcher
    nodeValue,   \* the value each NodeWatcher was created with
    channels,    \* watcherChannels: the channel registered per path and session
    chan,        \* state of each channel object
    handed       \* the value GetW returned along with a channel

zkVars == <<node, armed, fired>>
vars == <<node, armed, fired, watcherMap, nodeValue, channels, chan, handed>>

Registered(c) == \E p \in Paths, sid \in SessionIDs : channels[p][sid] = c

Init ==
    /\ node \in [Paths -> Values \union {NoNode}]
    /\ armed = [p \in Paths |-> 0]
    /\ fired = [p \in Paths |-> 0]
    /\ watcherMap = {}
    /\ nodeValue = [p \in Paths |-> NoNode]
    /\ channels = [p \in Paths |-> [sid \in SessionIDs |-> NoChan]]
    /\ chan = [c \in Chans |-> "free"]
    /\ handed = [c \in Chans |-> NoNode]

-----------------------------------------------------------------------------
\* conn.GetW: reads a node that exists and sets a watch on it.
\* The NodeWatcher keeps what was read.
ReadAndWatchUnchecked(p) ==
    /\ watcherMap' = watcherMap \union {p}
    /\ nodeValue' = [nodeValue EXCEPT ![p] = node[p]]
    /\ armed' = [armed EXCEPT ![p] = @ + 1]

ReadAndWatch(p) ==
    /\ node[p] # NoNode
    /\ watcherMap' = watcherMap \union {p}
    /\ nodeValue' = [nodeValue EXCEPT ![p] = node[p]]
    /\ armed' = [armed EXCEPT ![p] = @ + 1]

\* Registers a new channel of a session, in place of one it has already, and
\* returns it with the value of the watcher.
RegisterChannel(p, sid, c) ==
    /\ channels' = [channels EXCEPT ![p][sid] = c]
    /\ chan' = [chan EXCEPT ![c] = "open"]
    /\ handed' = [handed EXCEPT ![c] = nodeValue'[p]]

\* GetW when it succeeds: the value is the cached one if the path is watched.
GetW(p, sid, c) ==
    /\ chan[c] = "free"
    /\ IF p \in watcherMap
       THEN UNCHANGED <<watcherMap, nodeValue, armed>>
       ELSE ReadAndWatch(p)
    /\ RegisterChannel(p, sid, c)
    /\ UNCHANGED <<node, fired>>

\* GetW returns an error, and leaves everything as it is, only when it has to
\* ask ZooKeeper: the node is missing or the connection is down.
GetWMayFail(p) == p \notin watcherMap

\* The variant that the comment in ReleaseW warns of: the watcher goes with
\* its last channel, while the watch set with ZooKeeper stays.
ReleaseWAndWatcher(p, sid) ==
    /\ p \in watcherMap
    /\ channels[p][sid] # NoChan
    /\ chan' = [chan EXCEPT ![channels[p][sid]] = "closed"]
    /\ channels' = [channels EXCEPT ![p][sid] = NoChan]
    /\ watcherMap' = IF \A other \in SessionIDs \ {sid} : channels[p][other] = NoChan
                     THEN watcherMap \ {p} ELSE watcherMap
    /\ UNCHANGED <<zkVars, nodeValue, handed>>

\* ReleaseW of a registered channel; otherwise ReleaseW does nothing.
ReleaseW(p, sid) ==
    /\ p \in watcherMap
    /\ channels[p][sid] # NoChan
    /\ chan' = [chan EXCEPT ![channels[p][sid]] = "closed"]
    /\ channels' = [channels EXCEPT ![p][sid] = NoChan]
    /\ UNCHANGED <<zkVars, watcherMap, nodeValue, handed>>

\* NodeWatcher.Run after its event: every channel registered for the path
\* receives the event and is closed, and the watcher is removed.
DispatchKeepingWatcher(p) ==
    /\ fired[p] > 0
    /\ fired' = [fired EXCEPT ![p] = @ - 1]
    /\ chan' = [c \in Chans |->
                  IF \E sid \in SessionIDs : channels[p][sid] = c
                  THEN "closed" ELSE chan[c]]
    /\ channels' = [channels EXCEPT ![p] = [sid \in SessionIDs |-> NoChan]]
    /\ UNCHANGED <<node, armed, watcherMap, nodeValue, handed>>

DispatchKeepingChannels(p) ==
    /\ fired[p] > 0
    /\ fired' = [fired EXCEPT ![p] = @ - 1]
    /\ watcherMap' = watcherMap \ {p}
    /\ chan' = [c \in Chans |->
                  IF \E sid \in SessionIDs : channels[p][sid] = c
                  THEN "closed" ELSE chan[c]]
    /\ UNCHANGED <<node, armed, nodeValue, channels, handed>>

Dispatch(p) ==
    /\ fired[p] > 0
    /\ fired' = [fired EXCEPT ![p] = @ - 1]
    /\ chan' = [c \in Chans |->
                  IF \E sid \in SessionIDs : channels[p][sid] = c
                  THEN "closed" ELSE chan[c]]
    /\ channels' = [channels EXCEPT ![p] = [sid \in SessionIDs |-> NoChan]]
    /\ watcherMap' = watcherMap \ {p}
    /\ UNCHANGED <<node, armed, nodeValue, handed>>

\* A caller drops a channel, woken or given up; the object is garbage.
Discard(c) ==
    /\ chan[c] # "free"
    /\ ~Registered(c)
    /\ chan' = [chan EXCEPT ![c] = "free"]
    /\ handed' = [handed EXCEPT ![c] = NoNode]
    /\ UNCHANGED <<zkVars, watcherMap, nodeValue, channels>>

-----------------------------------------------------------------------------
\* The watches on a node fire, once each.
Fire(p) ==
    /\ fired' = [fired EXCEPT ![p] = @ + armed[p]]
    /\ armed' = [armed EXCEPT ![p] = 0]

\* Somebody creates, writes or deletes a node.
SetNode(p, v) ==
    /\ v # node[p]
    /\ node' = [node EXCEPT ![p] = v]
    /\ Fire(p)
    /\ UNCHANGED <<watcherMap, nodeValue, channels, chan, handed>>

\* The ZooKeeper session is lost: go-zookeeper invalidates the watches.
LoseWatches(p) ==
    /\ armed[p] > 0
    /\ Fire(p)
    /\ UNCHANGED <<node, watcherMap, nodeValue, channels, chan, handed>>

Next ==
    \/ \E p \in Paths :
        \/ \E sid \in SessionIDs :
            \/ \E c \in Chans : GetW(p, sid, c)
            \/ ReleaseW(p, sid)
        \/ \E v \in Values \union {NoNode} : SetNode(p, v)
        \/ LoseWatches(p)
        \/ Dispatch(p)
    \/ \E c \in Chans : Discard(c)

\* A NodeWatcher whose event has come is run: its goroutine only needs the lock,
\* which every method releases.
Spec == Init /\ [][Next]_vars /\ \A p \in Paths : WF_vars(Dispatch(p))

-----------------------------------------------------------------------------
TypeOK ==
    /\ node \in [Paths -> Values \union {NoNode}]
    /\ armed \in [Paths -> Nat]
    /\ fired \in [Paths -> Nat]
    /\ watcherMap \subseteq Paths
    /\ nodeValue \in [Paths -> Values \union {NoNode}]
    /\ channels \in [Paths -> [SessionIDs -> Chans \union {NoChan}]]
    /\ chan \in [Chans -> {"free", "open", "closed"}]
    /\ handed \in [Chans -> Values \union {NoNode}]
    /\ \A p \in watcherMap : nodeValue[p] \in Values

\* No change is lost: while a session's channel is registered, the value the
\* session was given is the one the node has, or the event that will close the
\* channel has been sent.  The value may come from the cache, long after the
\* watch was set.
NoLostUpdate ==
    \A p \in Paths, sid \in SessionIDs :
        channels[p][sid] # NoChan =>
            \/ handed[channels[p][sid]] = node[p]
            \/ fired[p] > 0

\* A registered channel is open, and registered once: Run never sends on a
\* closed channel and no channel is closed twice, either of which panics.
RegisteredIsOpen ==
    \A p, q \in Paths, s, t \in SessionIDs :
        channels[p][s] # NoChan =>
            /\ chan[channels[p][s]] = "open"
            /\ channels[p][s] = channels[q][t] => p = q /\ s = t

\* A path has one watch with ZooKeeper, armed or fired, exactly while it has a
\* NodeWatcher: sessions coming and going do not pile up watches.
OneWatchPerPath ==
    \A p \in Paths :
        armed[p] + fired[p] = IF p \in watcherMap THEN 1 ELSE 0

\* A session that holds an outdated value is woken, or has released the watch
\* or asked again itself.
StaleIsWoken ==
    \A p \in Paths, sid \in SessionIDs, c \in Chans :
        (channels[p][sid] = c /\ handed[c] # node[p]) ~> channels[p][sid] # c
=============================================================================
