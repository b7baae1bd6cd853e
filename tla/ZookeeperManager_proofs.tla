---------------------- MODULE ZookeeperManager_proofs ----------------------
(***************************************************************************)
(* Proofs about the ZooKeeper manager, for any number of paths, sessions,  *)
(* channels and values.                                                    *)
(***************************************************************************)
EXTENDS ZookeeperManager, TLAPS

\* The cached value is the node's, unless an event is on its way.
CacheFresh ==
    \A p \in watcherMap : nodeValue[p] = node[p] \/ fired[p] > 0

\* Channels are registered only with the watcher that will close them, and came
\* with the value of that watcher.
ChannelsOfWatcher ==
    \A p \in Paths, sid \in SessionIDs :
        channels[p][sid] # NoChan =>
            p \in watcherMap /\ handed[channels[p][sid]] = nodeValue[p]

\* The inductive invariant.  NoLostUpdate follows from its last two parts: a
\* registered channel came with the cached value, and that one is fresh.
Inv ==
    /\ TypeOK
    /\ OneWatchPerPath
    /\ RegisteredIsOpen
    /\ CacheFresh
    /\ ChannelsOfWatcher

USE NoChanAssumption, NoNodeAssumption

-----------------------------------------------------------------------------
LEMMA InitInv == Init => Inv
BY DEF Init, Inv, TypeOK, OneWatchPerPath, RegisteredIsOpen, CacheFresh,
       ChannelsOfWatcher

\* Reading the node or using the cache: the watcher is there and fresh.
LEMMA WatcherStep ==
    ASSUME Inv, NEW p \in Paths, NEW sid \in SessionIDs, NEW c \in Chans,
           GetW(p, sid, c)
    PROVE  /\ watcherMap' = watcherMap \union {p}
           /\ nodeValue' \in [Paths -> Values \union {NoNode}]
           /\ armed' \in [Paths -> Nat]
           /\ OneWatchPerPath'
           /\ CacheFresh'
           /\ \A q \in watcherMap : nodeValue'[q] = nodeValue[q]
           /\ \A q \in watcherMap' : nodeValue'[q] \in Values
<1>1. CASE p \in watcherMap
  BY <1>1 DEF GetW, Inv, TypeOK, OneWatchPerPath, CacheFresh
<1>2. CASE p \notin watcherMap
  <2>1. /\ node[p] # NoNode
        /\ watcherMap' = watcherMap \union {p}
        /\ nodeValue' = [nodeValue EXCEPT ![p] = node[p]]
        /\ armed' = [armed EXCEPT ![p] = @ + 1]
        /\ node' = node /\ fired' = fired
    BY <1>2 DEF GetW, ReadAndWatch
  <2>2. armed[p] = 0 /\ fired[p] = 0
    BY <1>2 DEF Inv, TypeOK, OneWatchPerPath
  <2> QED
    BY <1>2, <2>1, <2>2 DEF Inv, TypeOK, OneWatchPerPath, CacheFresh
<1> QED
  BY <1>1, <1>2

LEMMA GetWStep ==
    ASSUME Inv, NEW p \in Paths, NEW sid \in SessionIDs, NEW c \in Chans,
           GetW(p, sid, c)
    PROVE  Inv'
<1>1. /\ chan[c] = "free"
      /\ channels' = [channels EXCEPT ![p][sid] = c]
      /\ chan' = [chan EXCEPT ![c] = "open"]
      /\ handed' = [handed EXCEPT ![c] = nodeValue'[p]]
      /\ node' = node /\ fired' = fired
  BY DEF GetW, RegisterChannel
<1>2. ~Registered(c)
  BY <1>1 DEF Registered, Inv, RegisteredIsOpen
<1>3. \A q \in Paths, t \in SessionIDs :
        channels'[q][t] = IF q = p /\ t = sid THEN c ELSE channels[q][t]
  BY <1>1 DEF Inv, TypeOK
<1>4. channels' \in [Paths -> [SessionIDs -> Chans \union {NoChan}]]
  BY <1>1 DEF Inv, TypeOK
<1>5. TypeOK'
  BY <1>1, <1>4, WatcherStep DEF Inv, TypeOK
<1>6. RegisteredIsOpen'
  BY <1>1, <1>2, <1>3 DEF Inv, TypeOK, RegisteredIsOpen, Registered
<1>7. ChannelsOfWatcher'
  BY <1>1, <1>2, <1>3, WatcherStep
  DEF Inv, TypeOK, ChannelsOfWatcher, Registered
<1> QED
  BY <1>5, <1>6, <1>7, WatcherStep DEF Inv

LEMMA ReleaseWStep ==
    ASSUME Inv, NEW p \in Paths, NEW sid \in SessionIDs, ReleaseW(p, sid)
    PROVE  Inv'
<1>1. /\ channels[p][sid] \in Chans
      /\ chan' = [chan EXCEPT ![channels[p][sid]] = "closed"]
      /\ channels' = [channels EXCEPT ![p][sid] = NoChan]
      /\ UNCHANGED <<node, armed, fired, watcherMap, nodeValue, handed>>
  BY DEF ReleaseW, zkVars, Inv, TypeOK
<1>2. \A q \in Paths, t \in SessionIDs :
        channels'[q][t] = IF q = p /\ t = sid THEN NoChan ELSE channels[q][t]
  BY <1>1 DEF Inv, TypeOK
<1>3. TypeOK'
  BY <1>1 DEF Inv, TypeOK
<1>4. RegisteredIsOpen'
  BY <1>1, <1>2 DEF Inv, TypeOK, RegisteredIsOpen
<1> QED
  BY <1>1, <1>2, <1>3, <1>4
  DEF Inv, OneWatchPerPath, CacheFresh, ChannelsOfWatcher

LEMMA DispatchStep ==
    ASSUME Inv, NEW p \in Paths, Dispatch(p)
    PROVE  Inv'
<1>1. /\ fired[p] > 0
      /\ fired' = [fired EXCEPT ![p] = @ - 1]
      /\ chan' = [c \in Chans |->
                    IF \E sid \in SessionIDs : channels[p][sid] = c
                    THEN "closed" ELSE chan[c]]
      /\ channels' = [channels EXCEPT ![p] = [sid \in SessionIDs |-> NoChan]]
      /\ watcherMap' = watcherMap \ {p}
      /\ UNCHANGED <<node, armed, nodeValue, handed>>
  BY DEF Dispatch
<1>2. armed[p] = 0 /\ fired[p] = 1
  <2>1. armed[p] \in Nat /\ fired[p] \in Nat
    BY DEF Inv, TypeOK
  <2>2. armed[p] + fired[p] \in {0, 1}
    BY DEF Inv, OneWatchPerPath
  <2> QED
    BY <1>1, <2>1, <2>2
<1>3. \A q \in Paths, t \in SessionIDs :
        channels'[q][t] = IF q = p THEN NoChan ELSE channels[q][t]
  BY <1>1 DEF Inv, TypeOK
<1>4. TypeOK'
  BY <1>1, <1>2 DEF Inv, TypeOK
<1>5. OneWatchPerPath'
  BY <1>1, <1>2 DEF Inv, TypeOK, OneWatchPerPath
<1>6. RegisteredIsOpen'
  BY <1>1, <1>3 DEF Inv, TypeOK, RegisteredIsOpen
<1>7. CacheFresh' /\ ChannelsOfWatcher'
  BY <1>1, <1>3 DEF Inv, TypeOK, CacheFresh, ChannelsOfWatcher
<1> QED
  BY <1>4, <1>5, <1>6, <1>7 DEF Inv

LEMMA DiscardStep ==
    ASSUME Inv, NEW c \in Chans, Discard(c)
    PROVE  Inv'
BY DEF Discard, zkVars, Registered, Inv, TypeOK, OneWatchPerPath,
       RegisteredIsOpen, CacheFresh, ChannelsOfWatcher

\* Whenever the node may change, the watch of its watcher turns into an event.
LEMMA FireStep ==
    ASSUME Inv, NEW p \in Paths, Fire(p),
           node' \in [Paths -> Values \union {NoNode}],
           \A q \in Paths \ {p} : node'[q] = node[q],
           UNCHANGED <<watcherMap, nodeValue, channels, chan, handed>>
    PROVE  Inv'
<1>1. /\ fired' = [fired EXCEPT ![p] = @ + armed[p]]
      /\ armed' = [armed EXCEPT ![p] = 0]
  BY DEF Fire
<1>2. TypeOK' /\ OneWatchPerPath'
  BY <1>1 DEF Inv, TypeOK, OneWatchPerPath
<1>3. CacheFresh'
  BY <1>1 DEF Inv, TypeOK, OneWatchPerPath, CacheFresh
<1>4. RegisteredIsOpen' /\ ChannelsOfWatcher'
  BY DEF Inv, RegisteredIsOpen, ChannelsOfWatcher
<1> QED
  BY <1>2, <1>3, <1>4 DEF Inv

LEMMA NextInv == Inv /\ [Next]_vars => Inv'
<1> SUFFICES ASSUME Inv, [Next]_vars PROVE Inv'
  OBVIOUS
<1>1. ASSUME NEW p \in Paths, NEW sid \in SessionIDs, NEW c \in Chans,
             GetW(p, sid, c)
      PROVE  Inv'
  BY <1>1, GetWStep
<1>2. ASSUME NEW p \in Paths, NEW sid \in SessionIDs, ReleaseW(p, sid)
      PROVE  Inv'
  BY <1>2, ReleaseWStep
<1>3. ASSUME NEW p \in Paths, NEW v \in Values \union {NoNode}, SetNode(p, v)
      PROVE  Inv'
  <2>1. node' \in [Paths -> Values \union {NoNode}]
    BY <1>3 DEF SetNode, Inv, TypeOK
  <2>2. \A q \in Paths \ {p} : node'[q] = node[q]
    BY <1>3 DEF SetNode, Inv, TypeOK
  <2> QED
    BY <1>3, <2>1, <2>2, FireStep DEF SetNode
<1>4. ASSUME NEW p \in Paths, LoseWatches(p)
      PROVE  Inv'
  BY <1>4, FireStep DEF LoseWatches, Inv, TypeOK
<1>5. ASSUME NEW p \in Paths, Dispatch(p)
      PROVE  Inv'
  BY <1>5, DispatchStep
<1>6. ASSUME NEW c \in Chans, Discard(c)
      PROVE  Inv'
  BY <1>6, DiscardStep
<1>7. CASE UNCHANGED vars
  BY <1>7 DEF vars, Inv, TypeOK, OneWatchPerPath, RegisteredIsOpen,
              CacheFresh, ChannelsOfWatcher
<1> QED
  BY <1>1, <1>2, <1>3, <1>4, <1>5, <1>6, <1>7 DEF Next

LEMMA Invariance == Spec => []Inv
BY InitInv, NextInv, PTL DEF Spec

-----------------------------------------------------------------------------
\* A session whose channel is registered knows the current value of the node or
\* is about to be woken, whoever set the watch and however old the cache is.
THEOREM NoUpdateIsLost == Spec => []NoLostUpdate
<1>1. Inv => NoLostUpdate
  BY DEF Inv, NoLostUpdate, CacheFresh, ChannelsOfWatcher
<1> QED
  BY <1>1, Invariance, PTL

\* Registered channels are open and registered once, so the manager never sends
\* on a closed channel nor closes one twice.
THEOREM ChannelsNeverPanic == Spec => []RegisteredIsOpen
<1>1. Inv => RegisteredIsOpen
  BY DEF Inv
<1> QED
  BY <1>1, Invariance, PTL

\* One ZooKeeper watch per watched path, for any traffic of sessions.
THEOREM WatchesDoNotPileUp == Spec => []OneWatchPerPath
<1>1. Inv => OneWatchPerPath
  BY DEF Inv
<1> QED
  BY <1>1, Invariance, PTL

\* Maps, channels and counts keep their types, the number of watches included.
THEOREM TypesCorrect == Spec => []TypeOK
<1>1. Inv => TypeOK
  BY DEF Inv
<1> QED
  BY <1>1, Invariance, PTL
=============================================================================
