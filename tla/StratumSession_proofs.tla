----------------------- MODULE StratumSession_proofs -----------------------
(***************************************************************************)
(* Proofs about StratumSession: the ID of a session is freed at most once, *)
(* a connection that is up is given up only by the coin watcher, a session *)
(* that runs is registered, nothing stops a session without a reason, and  *)
(* every variable keeps its type.  What the session does to the registry   *)
(* of watches implements ZookeeperManager, whose invariants therefore hold *)
(* in the session; on them rests that a session at rest is connected to    *)
(* the server of the coin of its sub-account.                              *)
(***************************************************************************)
EXTENDS StratumSession, TLAPS

-----------------------------------------------------------------------------
\* The parts of the state the proofs are about.
CopierState ==
    [pc : {"none", "start", "attach", "copy", "tryStop", "resend", "write"},
     cnt : Gens, conn : Gens \union {NoConn}]

\* A watcher; which channel it has is left open.
IsWatcher(w) == DOMAIN w = {"pc", "cnt", "ch"} /\ w.cnt \in Gens

Types ==
    /\ isBTCAgent \in BOOLEAN
    /\ panicked \in BOOLEAN
    /\ locked \in BOOLEAN
    /\ clientOpen \in BOOLEAN
    /\ runningStat \in {"Running", "Stoped", "Reconnecting"}
    /\ reconnectCounter \in Gens
    /\ serverConn \in Gens \union {NoConn}
    /\ stops \in Nat
    /\ frees \in Nat
    /\ stopper \in {"none", "release", "unwatch", "forget", "done"}
    /\ proxy \in [Gens -> {"none", "check", "register", "done"}]
    /\ copier \in [Dirs \X Gens -> CopierState]
    /\ DOMAIN watch = Gens
    /\ \A g \in Gens : IsWatcher(watch[g])

\* Once a goroutine has got through the check of Stop, the session is stopped for
\* good, and its ID is freed on the way.
StopOnce ==
    /\ stopper # "none" => runningStat = "Stoped"
    /\ stopper \in {"none", "release"} /\ ~panicked => frees = 0
    /\ frees <= 1

\* The end of the process is the end of every goroutine.
PanicIsFinal ==
    panicked =>
        /\ ~locked
        /\ stops = 0
        /\ stopper = "none"
        /\ \A g \in Gens : proxy[g] = "none" /\ watch[g].pc = "none"
        /\ \A x \in Dirs \X Gens : copier[x].pc = "none"

\* The lock is held by a reconnection, and a running session has the connection
\* of its generation.
LockHeld ==
    /\ locked => runningStat = "Reconnecting"
    /\ runningStat = "Running" => serverConn = reconnectCounter

Busy(x) == copier[x].pc \in {"attach", "copy", "tryStop"}

\* A copier with the current counter copies the current connection.  During a
\* reconnection nobody has the new counter yet.
CounterTellsConn ==
    \A x \in Dirs \X Gens :
        /\ Busy(x) => copier[x].cnt <= reconnectCounter
        /\ Busy(x) /\ locked => copier[x].cnt < reconnectCounter
        /\ /\ copier[x].pc = "copy"
           /\ runningStat = "Running"
           /\ copier[x].cnt = reconnectCounter
           => copier[x].conn = serverConn

Inv ==
    /\ Types
    /\ StopOnce
    /\ PanicIsFinal
    /\ LockHeld
    /\ CounterTellsConn

-----------------------------------------------------------------------------
LEMMA GensAreNat == Gens \subseteq Nat /\ 0 \in Gens
BY BoundAssumption DEF Gens

\* What a step of one copier does to the copiers.
LEMMA CopierStep ==
    ASSUME Types, NEW d \in Dirs, NEW g \in Gens, NEW new \in CopierState,
           Copier(d, g, new)
    PROVE  /\ copier' \in [Dirs \X Gens -> CopierState]
           /\ \A x \in Dirs \X Gens :
                copier'[x] = IF x = <<d, g>> THEN new ELSE copier[x]
BY DEF Types, Copier

\* What a step of one watcher does to the watchers.
LEMMA WatchStep ==
    ASSUME Types, NEW g \in Gens, NEW new, IsWatcher(new), Watch(g, new)
    PROVE  /\ DOMAIN watch' = Gens
           /\ watch'[g] = new
           /\ \A h \in Gens : IsWatcher(watch'[h])
BY DEF Types, Watch

LEMMA NoWatchIsWatcher == IsWatcher(NoWatch) /\ NoWatch.pc = "none"
BY GensAreNat DEF NoWatch, IsWatcher

LEMMA NoCopierIsState == NoCopier \in CopierState /\ NoCopier.pc = "none"
BY GensAreNat DEF NoCopier, CopierState

-----------------------------------------------------------------------------
LEMMA InitInv == Init => Inv
<1> SUFFICES ASSUME Init PROVE Inv
  OBVIOUS
<1> USE GensAreNat
<1>1. Types
  BY NoCopierIsState, NoWatchIsWatcher DEF Init, Types
<1>2. StopOnce /\ PanicIsFinal /\ LockHeld
  BY DEF Init, StopOnce, PanicIsFinal, LockHeld
<1>3. CounterTellsConn
  BY DEF Init, CounterTellsConn, Busy, NoCopier
<1> QED
  BY <1>1, <1>2, <1>3 DEF Inv

\* Reconnection.
LEMMA AttemptSucceedsInv ==
    ASSUME Inv, AttemptSucceeds
    PROVE  Inv'
<1> USE GensAreNat
<1>1. Types'
  BY DEF Inv, AttemptSucceeds, Types, managerVars, stopVars, restVars
<1>2. StopOnce' /\ PanicIsFinal' /\ LockHeld'
  BY DEF Inv, AttemptSucceeds, StopOnce, PanicIsFinal, LockHeld, managerVars,
         stopVars, restVars
<1>3. CounterTellsConn'
  BY DEF Inv, AttemptSucceeds, Types, CopierState, CounterTellsConn, Busy
<1> QED
  BY <1>1, <1>2, <1>3 DEF Inv

LEMMA AttemptFailsInv ==
    ASSUME Inv, AttemptFails
    PROVE  Inv'
<1>1. UNCHANGED <<isBTCAgent, panicked, clientOpen, runningStat, reconnectCounter,
                  serverConn, frees, stopper, proxy, copier, watch>>
  BY DEF AttemptFails, managerVars, connVars, restVars
<1>2. stops' \in Nat /\ ~panicked /\ locked' \in BOOLEAN
  <2>1. locked /\ locked \in BOOLEAN /\ stops \in Nat /\ (panicked => ~locked)
    BY DEF AttemptFails, Inv, Types, PanicIsFinal
  <2>2. CASE attempts + 1 < MaxAttempts
    BY <2>1, <2>2 DEF AttemptFails
  <2>3. CASE ~(attempts + 1 < MaxAttempts)
    <3>1. locked' = FALSE /\ stops' = stops + 1
      BY <2>3 DEF AttemptFails
    <3>2. ~panicked
      BY <2>1
    <3>3. stops' \in Nat
      BY <2>1, <3>1
    <3>4. locked' \in BOOLEAN
      BY <3>1
    <3> QED
      BY <3>2, <3>3, <3>4
  <2> QED
    BY <2>2, <2>3
<1>3. locked /\ (locked' => locked)
  BY DEF AttemptFails
<1>4. Types'
  BY <1>1, <1>2 DEF Inv, Types
<1>5. StopOnce' /\ PanicIsFinal' /\ LockHeld'
  BY <1>1, <1>2, <1>3 DEF Inv, StopOnce, PanicIsFinal, LockHeld
<1>6. CounterTellsConn'
  BY <1>1, <1>3 DEF Inv, CounterTellsConn, Busy
<1> QED
  BY <1>4, <1>5, <1>6 DEF Inv

\* BeginReconnect with nothing said of the copiers: the counter passes all of
\* theirs.
LEMMA TryReconnectInv ==
    ASSUME Inv, NEW cnt \in Gens, TryReconnect(cnt), ~panicked,
           copier' \in [Dirs \X Gens -> CopierState],
           \A x \in Dirs \X Gens :
              copier'[x] = copier[x] \/ copier'[x].pc \in {"none", "resend"},
           DOMAIN watch' = Gens, \A g \in Gens : IsWatcher(watch'[g]),
           UNCHANGED <<clientOpen, frees, proxy, stops, stopper, isBTCAgent, panicked>>
    PROVE  Inv'
<1> USE GensAreNat
<1>1. CASE StillCurrent(cnt)
  <2>1. /\ runningStat = "Running" /\ runningStat' = "Reconnecting"
        /\ reconnectCounter' = reconnectCounter + 1
        /\ reconnectCounter' \in Gens
        /\ locked' = TRUE
        /\ serverConn' = NoConn
    <3>1. BeginReconnect
      BY <1>1 DEF TryReconnect
    <3> QED
      BY <1>1, <3>1, BoundAssumption DEF StillCurrent, BeginReconnect, Inv, Types, Gens
  <2>2. Types' /\ StopOnce' /\ PanicIsFinal' /\ LockHeld'
    BY <2>1 DEF Inv, Types, StopOnce, PanicIsFinal, LockHeld
  <2>3. CounterTellsConn'
    <3>1. ASSUME NEW x \in Dirs \X Gens, Busy(x)'
          PROVE  copier'[x].cnt <= reconnectCounter' /\ copier'[x].cnt < reconnectCounter'
      <4>1. copier'[x] = copier[x] /\ Busy(x)
        BY <3>1 DEF Busy
      <4>2. copier[x] \in CopierState /\ copier[x].cnt \in Nat
        BY DEF Inv, Types, CopierState
      <4>3. copier[x].cnt <= reconnectCounter
        BY <4>1 DEF Inv, CounterTellsConn
      <4> QED
        BY <2>1, <4>1, <4>2, <4>3 DEF Inv, Types
    <3> QED
      BY <2>1, <3>1 DEF CounterTellsConn
  <2> QED
    BY <2>2, <2>3 DEF Inv
<1>2. CASE ~StillCurrent(cnt)
  <2>1. UNCHANGED <<runningStat, reconnectCounter, locked, serverConn>>
    BY <1>2 DEF TryReconnect, statVars
  <2>2. Types' /\ StopOnce' /\ PanicIsFinal' /\ LockHeld'
    BY <2>1 DEF Inv, Types, StopOnce, PanicIsFinal, LockHeld
  <2>3. CounterTellsConn'
    BY <2>1 DEF Inv, CounterTellsConn, Busy
  <2> QED
    BY <2>2, <2>3 DEF Inv
<1> QED
  BY <1>1, <1>2

-----------------------------------------------------------------------------
\* proxyStratum.
LEMMA ProxyCheckInv ==
    ASSUME Inv, NEW g \in Gens, ProxyCheck(g)
    PROVE  Inv'
<1>1. /\ proxy' \in [Gens -> {"none", "check", "register", "done"}]
      /\ ~panicked
  BY DEF ProxyCheck, Inv, Types, PanicIsFinal
<1>2. UNCHANGED <<isBTCAgent, panicked, locked, clientOpen, runningStat, reconnectCounter,
                  serverConn, stops, frees, stopper, copier, watch>>
  BY DEF ProxyCheck, statVars, managerVars, connVars, stopVars, restVars
<1>3. Types' /\ StopOnce' /\ PanicIsFinal' /\ LockHeld' /\ CounterTellsConn'
  BY <1>1, <1>2 DEF Inv, Types, StopOnce, PanicIsFinal, LockHeld, CounterTellsConn, Busy
<1> QED
  BY <1>3 DEF Inv

LEMMA ProxyRegisterInv ==
    ASSUME Inv, NEW g \in Gens, ProxyRegister(g)
    PROVE  Inv'
<1>1. /\ proxy' \in [Gens -> {"none", "check", "register", "done"}]
      /\ ~panicked
      /\ DOMAIN watch' = Gens
      /\ \A h \in Gens : IsWatcher(watch'[h])
  BY DEF ProxyRegister, StartGoroutines, Inv, Types, PanicIsFinal, IsWatcher
<1>2. /\ copier' \in [Dirs \X Gens -> CopierState]
      /\ \A x \in Dirs \X Gens : copier'[x] = copier[x] \/ copier'[x].pc = "start"
  <2> DEFINE started == [NoCopier EXCEPT !.pc = "start"]
  <2>1. started \in CopierState /\ started.pc = "start"
    BY GensAreNat DEF NoCopier, CopierState
  <2>2. copier' = [x \in Dirs \X Gens |-> IF x[2] = g THEN started ELSE copier[x]]
    BY DEF ProxyRegister, StartGoroutines
  <2> HIDE DEF started
  <2> QED
    BY <2>1, <2>2 DEF Inv, Types
<1>3. UNCHANGED <<isBTCAgent, panicked, locked, clientOpen, runningStat, reconnectCounter,
                  serverConn, stops, frees, stopper>>
  BY DEF ProxyRegister, statVars, managerVars, connVars, stopVars, restVars
<1>4. Types' /\ StopOnce' /\ PanicIsFinal' /\ LockHeld'
  BY <1>1, <1>2, <1>3 DEF Inv, Types, StopOnce, PanicIsFinal, LockHeld
<1>5. CounterTellsConn'
  BY <1>2, <1>3 DEF Inv, CounterTellsConn, Busy
<1> QED
  BY <1>4, <1>5 DEF Inv

-----------------------------------------------------------------------------
\* A step of a copier to a state in which its counter and connection are right.
LEMMA CopierInv ==
    ASSUME Inv, ~panicked, NEW d \in Dirs, NEW g \in Gens, NEW new \in CopierState,
           Copier(d, g, new),
           stops' \in Nat,
           UNCHANGED <<isBTCAgent, panicked, locked, clientOpen, runningStat, proxy, watch,
                       reconnectCounter, serverConn, frees, stopper>>,
           new.pc \in {"attach", "copy", "tryStop"} =>
              /\ new.cnt <= reconnectCounter
              /\ locked => new.cnt < reconnectCounter
              /\ new.pc = "copy" => new.conn = serverConn
    PROVE  Inv'
<1>1. /\ copier' \in [Dirs \X Gens -> CopierState]
      /\ \A x \in Dirs \X Gens :
            copier'[x] = IF x = <<d, g>> THEN new ELSE copier[x]
  <2>1. Types
    BY DEF Inv
  <2> QED
    BY <2>1, CopierStep
<1>2. Types' /\ StopOnce' /\ PanicIsFinal' /\ LockHeld'
  BY <1>1 DEF Inv, Types, StopOnce, PanicIsFinal, LockHeld
<1>3. CounterTellsConn'
  BY <1>1 DEF Inv, CounterTellsConn, Busy
<1> QED
  BY <1>2, <1>3 DEF Inv

\* What holds of a copier that is under way.
LEMMA CopierFacts ==
    ASSUME Inv, NEW d \in Dirs, NEW g \in Gens, copier[<<d, g>>].pc # "none"
    PROVE  /\ ~panicked
           /\ copier[<<d, g>>] \in CopierState
           /\ copier[<<d, g>>].cnt \in Gens
           /\ Busy(<<d, g>>) => copier[<<d, g>>].cnt <= reconnectCounter
           /\ Busy(<<d, g>>) /\ locked => copier[<<d, g>>].cnt < reconnectCounter
<1>1. <<d, g>> \in Dirs \X Gens
  OBVIOUS
<1>2. copier[<<d, g>>] \in CopierState
  BY <1>1 DEF Inv, Types
<1> QED
  BY <1>1, <1>2 DEF Inv, PanicIsFinal, CounterTellsConn, CopierState

LEMMA CopierStartInv ==
    ASSUME Inv, NEW d \in Dirs, NEW g \in Gens, CopierStart(d, g)
    PROVE  Inv'
<1> DEFINE new == [NoCopier EXCEPT !.pc = "attach", !.cnt = reconnectCounter]
<1>1. new \in CopierState /\ new.pc = "attach" /\ new.cnt = reconnectCounter
  BY GensAreNat DEF NoCopier, CopierState, Inv, Types
<1>2. Copier(d, g, new) /\ ~locked /\ ~panicked
  BY CopierFacts DEF CopierStart, LockFree
<1>3. UNCHANGED <<isBTCAgent, panicked, locked, clientOpen, runningStat, proxy, watch,
                  reconnectCounter, serverConn, frees, stopper, stops>>
  BY DEF CopierStart, OnlyCopier, statVars, connVars, managerVars, stopVars, restVars
<1>4. stops' \in Nat /\ reconnectCounter \in Nat
  BY <1>3, GensAreNat DEF Inv, Types
<1> HIDE DEF new
<1> QED
  BY <1>1, <1>2, <1>3, <1>4, CopierInv

LEMMA CopierAttachInv ==
    ASSUME Inv, NEW d \in Dirs, NEW g \in Gens, CopierAttach(d, g)
    PROVE  Inv'
<1> DEFINE old == copier[<<d, g>>]
           new == [old EXCEPT !.pc = IF serverConn = NoConn THEN "tryStop" ELSE "copy",
                              !.conn = serverConn]
<1>1. /\ old \in CopierState
      /\ Busy(<<d, g>>)
      /\ ~panicked
      /\ old.cnt <= reconnectCounter
      /\ locked => old.cnt < reconnectCounter
  BY CopierFacts DEF CopierAttach, Busy
<1>2. /\ new \in CopierState
      /\ new.pc \in {"tryStop", "copy"}
      /\ new.cnt = old.cnt
      /\ new.conn = serverConn
  BY <1>1 DEF CopierState, Inv, Types
<1>3. Copier(d, g, new)
  BY DEF CopierAttach
<1>4. UNCHANGED <<isBTCAgent, panicked, locked, clientOpen, runningStat, proxy, watch,
                  reconnectCounter, serverConn, frees, stopper, stops>>
  BY DEF CopierAttach, OnlyCopier, statVars, connVars, managerVars, stopVars, restVars
<1>5. stops' \in Nat
  BY <1>4 DEF Inv, Types
<1> HIDE DEF new, old
<1> QED
  BY <1>1, <1>2, <1>3, <1>4, <1>5, CopierInv

LEMMA CopierTryStopInv ==
    ASSUME Inv, NEW d \in Dirs, NEW g \in Gens, CopierTryStop(d, g)
    PROVE  Inv'
<1>1. ~panicked /\ Copier(d, g, NoCopier)
  BY CopierFacts DEF CopierTryStop
<1>2. stops' \in Nat
  BY DEF CopierTryStop, TryStop, Inv, Types
<1>3. UNCHANGED <<isBTCAgent, panicked, locked, clientOpen, runningStat, proxy, watch,
                  reconnectCounter, serverConn, frees, stopper>>
  BY DEF CopierTryStop, statVars, connVars, managerVars, restVars
<1> QED
  BY <1>1, <1>2, <1>3, NoCopierIsState, CopierInv

LEMMA CopierTryReconnectInv ==
    ASSUME Inv, NEW d \in Dirs, NEW g \in Gens, CopierTryReconnect(d, g)
    PROVE  Inv'
<1> DEFINE new == IF d = "up" THEN [NoCopier EXCEPT !.pc = "resend"] ELSE NoCopier
<1>1. new \in CopierState /\ new.pc \in {"none", "resend"}
  BY GensAreNat DEF NoCopier, CopierState
<1>2. /\ ~panicked
      /\ copier[<<d, g>>].cnt \in Gens
      /\ TryReconnect(copier[<<d, g>>].cnt)
      /\ Copier(d, g, new)
  BY CopierFacts DEF CopierTryReconnect
<1>3. UNCHANGED <<clientOpen, frees, proxy, watch, stops, stopper, isBTCAgent, panicked>>
  BY DEF CopierTryReconnect, stopVars, restVars
<1> HIDE DEF new
<1>4. /\ copier' \in [Dirs \X Gens -> CopierState]
      /\ \A x \in Dirs \X Gens :
            copier'[x] = copier[x] \/ copier'[x].pc \in {"none", "resend"}
  <2>1. Types
    BY DEF Inv
  <2>2. /\ copier' \in [Dirs \X Gens -> CopierState]
        /\ \A x \in Dirs \X Gens :
              copier'[x] = IF x = <<d, g>> THEN new ELSE copier[x]
    <3>1. Copier(d, g, new)
      BY <1>2
    <3> QED
      BY <1>1, <2>1, <3>1 DEF Copier, Types
  <2> QED
    BY <1>1, <2>2
<1>5. DOMAIN watch' = Gens /\ \A h \in Gens : IsWatcher(watch'[h])
  BY <1>3 DEF Inv, Types
<1> QED
  BY <1>2, <1>3, <1>4, <1>5, TryReconnectInv

LEMMA ResendingInv ==
    ASSUME Inv, "up" \in Dirs, NEW g \in Gens, Resending(g)
    PROVE  Inv'
<1>1. PICK pc \in {"none", "write"} : Copier("up", g, [NoCopier EXCEPT !.pc = pc])
  BY DEF Resending, UpResend, UpWrite, NoCopier
<1>2. /\ [NoCopier EXCEPT !.pc = pc] \in CopierState
      /\ [NoCopier EXCEPT !.pc = pc].pc \in {"none", "write"}
  BY GensAreNat DEF NoCopier, CopierState
<1>3. ~panicked
  BY CopierFacts DEF Resending, UpResend, UpWrite
<1>4. UNCHANGED <<isBTCAgent, panicked, locked, clientOpen, runningStat, proxy, watch,
                  reconnectCounter, serverConn, frees, stopper, stops>>
  BY DEF Resending, UpResend, UpWrite, OnlyCopier, statVars, connVars, managerVars,
         stopVars, restVars
<1>5. stops' \in Nat
  BY <1>4 DEF Inv, Types
<1> QED
  BY <1>1, <1>2, <1>3, <1>4, <1>5, CopierInv

-----------------------------------------------------------------------------
\* The coin watchers.

\* A step of a watcher that at most sends a goroutine to stop the session.
LEMMA WatchInv ==
    ASSUME Inv, ~panicked, NEW g \in Gens, NEW new, IsWatcher(new), Watch(g, new),
           stops' \in Nat,
           UNCHANGED <<isBTCAgent, panicked, locked, clientOpen, runningStat, proxy, copier,
                       reconnectCounter, serverConn, frees, stopper>>
    PROVE  Inv'
<1>1. /\ DOMAIN watch' = Gens
      /\ \A h \in Gens : IsWatcher(watch'[h])
  <2>1. Types
    BY DEF Inv
  <2> QED
    BY <2>1, WatchStep
<1>2. Types' /\ StopOnce' /\ PanicIsFinal' /\ LockHeld'
  BY <1>1 DEF Inv, Types, StopOnce, PanicIsFinal, LockHeld
<1>3. CounterTellsConn'
  BY DEF Inv, CounterTellsConn, Busy
<1> QED
  BY <1>2, <1>3 DEF Inv

\* What holds of a watcher that is under way.
LEMMA WatchFacts ==
    ASSUME Inv, NEW g \in Gens, watch[g].pc # "none"
    PROVE  ~panicked /\ IsWatcher(watch[g]) /\ watch[g].cnt \in Gens
BY DEF Inv, Types, PanicIsFinal, IsWatcher

\* The changes that the steps make to a watcher.
LEMMA WatcherChanges ==
    ASSUME NEW w, IsWatcher(w), NEW pc, NEW ch
    PROVE  /\ IsWatcher([w EXCEPT !.pc = pc])
           /\ IsWatcher([w EXCEPT !.ch = ch])
           /\ IsWatcher([w EXCEPT !.pc = pc, !.ch = ch])
BY DEF IsWatcher

LEMMA WatchQuietInv ==
    ASSUME Inv, NEW g \in Gens, watch[g].pc # "none", NEW new, IsWatcher(new),
           Watch(g, new),
           UNCHANGED <<statVars, connVars, managerVars, proxy, copier, stopVars, restVars>>
    PROVE  Inv'
<1>1. UNCHANGED <<isBTCAgent, panicked, locked, clientOpen, runningStat, proxy, copier,
                  reconnectCounter, serverConn, frees, stopper, stops>>
  BY DEF statVars, connVars, managerVars, stopVars, restVars
<1>2. stops' \in Nat
  BY <1>1 DEF Inv, Types
<1> QED
  BY <1>1, <1>2, WatchFacts, WatchInv

LEMMA WatchStartInv ==
    ASSUME Inv, NEW g \in Gens, WatchStart(g)
    PROVE  Inv'
<1> DEFINE new == [NoWatch EXCEPT !.pc = "load", !.cnt = reconnectCounter]
<1>1. IsWatcher(new)
  BY DEF NoWatch, IsWatcher, Inv, Types
<1>2. watch[g].pc # "none" /\ Watch(g, new)
  BY DEF WatchStart
<1>3. UNCHANGED <<statVars, connVars, managerVars, proxy, copier, stopVars, restVars>>
  BY DEF WatchStart, OnlyWatch
<1> HIDE DEF new
<1> QED
  BY <1>1, <1>2, <1>3, WatchQuietInv

LEMMA WatchLoadInv ==
    ASSUME Inv, NEW g \in Gens, WatchLoad(g)
    PROVE  Inv'
<1> DEFINE new == [watch[g] EXCEPT !.pc = "wait", !.ch = zkWatchEvent]
<1>1. watch[g].pc # "none" /\ Watch(g, new)
  BY DEF WatchLoad
<1>2. IsWatcher(new)
  BY <1>1, WatchFacts, WatcherChanges
<1>3. UNCHANGED <<statVars, connVars, managerVars, proxy, copier, stopVars, restVars>>
  BY DEF WatchLoad, OnlyWatch
<1> HIDE DEF new
<1> QED
  BY <1>1, <1>2, <1>3, WatchQuietInv

LEMMA WatchWakeInv ==
    ASSUME Inv, NEW g \in Gens, WatchWake(g)
    PROVE  Inv'
<1> DEFINE again == [watch[g] EXCEPT !.pc = "getw", !.ch = NoChan]
           goesOn == runningStat # "Stoped" /\ watch[g].cnt = reconnectCounter
           new == IF goesOn THEN again ELSE NoWatch
<1>1. watch[g].pc # "none" /\ Watch(g, new)
  BY DEF WatchWake
<1>2. IsWatcher(again)
  BY <1>1, WatchFacts, WatcherChanges
<1>3. UNCHANGED <<statVars, connVars, managerVars, proxy, copier, stopVars, restVars>>
  BY DEF WatchWake, OnlyWatch
<1> HIDE DEF again, goesOn
<1>4. IsWatcher(new)
  BY <1>2, NoWatchIsWatcher
<1> HIDE DEF new
<1> QED
  BY <1>1, <1>3, <1>4, WatchQuietInv

LEMMA WatchGetWInv ==
    ASSUME Inv, NEW g \in Gens, WatchGetW(g)
    PROVE  Inv'
<1>1. PICK ch : Watch(g, [watch[g] EXCEPT !.pc = "store", !.ch = ch])
  BY DEF WatchGetW
<1> DEFINE new == [watch[g] EXCEPT !.pc = "store", !.ch = ch]
<1>2. watch[g].pc # "none"
  BY DEF WatchGetW
<1>3. IsWatcher(new)
  BY <1>2, WatchFacts, WatcherChanges
<1>4. UNCHANGED <<statVars, connVars, managerVars, proxy, copier, stopVars, restVars>>
  BY DEF WatchGetW
<1> HIDE DEF new
<1> QED
  BY <1>1, <1>2, <1>3, <1>4, WatchQuietInv DEF new

LEMMA WatchGetWFailsInv ==
    ASSUME Inv, NEW g \in Gens, WatchGetWFails(g)
    PROVE  Inv'
<1> DEFINE new == [watch[g] EXCEPT !.pc = "load"]
<1>1. watch[g].pc # "none" /\ Watch(g, new)
  BY DEF WatchGetWFails
<1>2. IsWatcher(new)
  BY <1>1, WatchFacts, WatcherChanges
<1>3. UNCHANGED <<statVars, connVars, managerVars, proxy, copier, stopVars, restVars>>
  BY DEF WatchGetWFails, OnlyWatch
<1> HIDE DEF new
<1> QED
  BY <1>1, <1>2, <1>3, WatchQuietInv

LEMMA WatchStoreInv ==
    ASSUME Inv, NEW g \in Gens, WatchStore(g)
    PROVE  Inv'
<1>1. watch[g].pc # "none"
  BY DEF WatchStore
<1>2. UNCHANGED <<statVars, connVars, managerVars, proxy, copier, stopVars, restVars>>
  BY DEF WatchStore, OnlyWatch
<1>3. CASE CoinRead(g) \in {miningCoin} \union (Coins \ ServerCoins)
  <2> DEFINE new == [watch[g] EXCEPT !.pc = "load", !.ch = NoChan]
  <2>1. Watch(g, new)
    BY <1>3 DEF WatchStore
  <2>2. IsWatcher(new)
    BY <1>1, WatchFacts, WatcherChanges
  <2> HIDE DEF new
  <2> QED
    BY <1>1, <1>2, <2>1, <2>2, WatchQuietInv
<1>4. CASE CoinRead(g) \notin {miningCoin} \union (Coins \ ServerCoins)
  <2> DEFINE pc == IF isBTCAgent THEN "tryStop" ELSE "switch"
             new == [watch[g] EXCEPT !.pc = pc]
  <2> HIDE DEF pc
  <2>1. Watch(g, new)
    BY <1>4 DEF WatchStore, pc
  <2>2. IsWatcher(new)
    BY <1>1, WatchFacts, WatcherChanges
  <2> HIDE DEF new
  <2> QED
    BY <1>1, <1>2, <2>1, <2>2, WatchQuietInv
<1> QED
  BY <1>3, <1>4

LEMMA WatchTryStopInv ==
    ASSUME Inv, NEW g \in Gens, WatchTryStop(g)
    PROVE  Inv'
<1>1. watch[g].pc # "none" /\ Watch(g, NoWatch)
  BY DEF WatchTryStop
<1>2. stops' \in Nat
  BY DEF WatchTryStop, TryStop, Inv, Types
<1>3. UNCHANGED <<isBTCAgent, panicked, locked, clientOpen, runningStat, proxy, copier,
                  reconnectCounter, serverConn, frees, stopper>>
  BY DEF WatchTryStop, statVars, connVars, managerVars, restVars
<1> QED
  BY <1>1, <1>2, <1>3, NoWatchIsWatcher, WatchFacts, WatchInv

LEMMA WatchSetCoinInv ==
    ASSUME Inv, NEW g \in Gens, WatchSetCoin(g)
    PROVE  Inv'
<1> DEFINE new == [watch[g] EXCEPT !.pc = "lock", !.ch = NoChan]
<1>1. watch[g].pc # "none" /\ Watch(g, new)
  BY DEF WatchSetCoin
<1>2. IsWatcher(new)
  BY <1>1, WatchFacts, WatcherChanges
<1>3. UNCHANGED <<statVars, connVars, managerVars, proxy, copier, stopVars, restVars>>
  BY DEF WatchSetCoin, OnlyWatch
<1> HIDE DEF new
<1> QED
  BY <1>1, <1>2, <1>3, WatchQuietInv

LEMMA WatchSwitchInv ==
    ASSUME Inv, NEW g \in Gens, WatchSwitch(g)
    PROVE  Inv'
<1>1. watch[g].pc # "none" /\ TryReconnect(watch[g].cnt)
  BY DEF WatchSwitch
<1>2. ~panicked /\ watch[g].cnt \in Gens
  BY <1>1, WatchFacts
<1>3. DOMAIN watch' = Gens /\ \A h \in Gens : IsWatcher(watch'[h])
  <2>1. Types /\ Watch(g, NoWatch)
    BY DEF Inv, WatchSwitch
  <2> QED
    BY <2>1, NoWatchIsWatcher, WatchStep
<1>4. UNCHANGED <<clientOpen, frees, proxy, copier, stops, stopper, isBTCAgent, panicked>>
  BY DEF WatchSwitch, stopVars, restVars
<1>5. copier' \in [Dirs \X Gens -> CopierState]
  BY <1>4 DEF Inv, Types
<1> QED
  BY <1>1, <1>2, <1>3, <1>4, <1>5, TryReconnectInv

-----------------------------------------------------------------------------
\* Steps that touch nothing the invariant is about.
LEMMA QuietInv ==
    ASSUME Inv,
           UNCHANGED <<isBTCAgent, panicked, locked, runningStat, proxy, copier, watch,
                       reconnectCounter, serverConn, frees, stopper, stops>>,
           clientOpen' \in BOOLEAN
    PROVE  Inv'
<1>1. Types' /\ StopOnce' /\ PanicIsFinal' /\ LockHeld'
  BY DEF Inv, Types, StopOnce, PanicIsFinal, LockHeld
<1>2. CounterTellsConn'
  BY DEF Inv, CounterTellsConn, Busy
<1> QED
  BY <1>1, <1>2 DEF Inv

LEMMA CollectGarbageInv ==
    ASSUME Inv, CollectGarbage
    PROVE  Inv'
BY QuietInv DEF CollectGarbage, statVars, connVars, managerVars, goVars, stopVars,
                restVars, Inv, Types

LEMMA EnvironmentInv ==
    ASSUME Inv, Environment
    PROVE  Inv'
<1>1. UNCHANGED <<isBTCAgent, panicked, locked, runningStat, proxy, copier, watch,
                  reconnectCounter, serverConn, frees, stopper, stops>>
  BY DEF Environment, NodeWatcherRuns, CoinChanges, ServerCloses, ClientCloses,
         OnlyEnvironment, statVars, managerVars, goVars, stopVars, restVars
<1>2. clientOpen' \in BOOLEAN
  BY DEF Environment, NodeWatcherRuns, CoinChanges, ServerCloses, ClientCloses, Inv, Types
<1> QED
  BY <1>1, <1>2, QuietInv

-----------------------------------------------------------------------------
\* Stop and the end of the process.
LEMMA StoppingInv ==
    ASSUME Inv, Stopping
    PROVE  Inv'
<1>1. UNCHANGED <<isBTCAgent, panicked, locked, reconnectCounter, serverConn, proxy,
                  copier, watch>>
  BY DEF Stopping, StopEnter, StopReleases, StopUnwatches, StopForgetsManager, OnlyStopEnter,
         OnlyStopper, statVars, connVars, restVars
<1>2. CASE StopEnter
  <2>1. /\ stops > 0 /\ ~locked
        /\ stops' = stops - 1
        /\ runningStat' = "Stoped"
        /\ frees' = frees
        /\ \/ runningStat = "Stoped" /\ UNCHANGED <<stopper, clientOpen>>
           \/ runningStat # "Stoped" /\ stopper' = "release" /\ clientOpen' = FALSE
    BY <1>2 DEF StopEnter, LockFree, OnlyStopEnter, managerVars, CloseBoth
  <2>2. ~panicked
    BY <2>1 DEF Inv, PanicIsFinal
  <2>3. Types'
    <3>1. stops' \in Nat
      BY <2>1 DEF Inv, Types
    <3>2. stopper' \in {"none", "release", "unwatch", "forget", "done"}
      BY <2>1 DEF Inv, Types
    <3>3. clientOpen' \in BOOLEAN
      BY <2>1 DEF Inv, Types
    <3>4. frees' \in Nat /\ runningStat' \in {"Running", "Stoped", "Reconnecting"}
      BY <2>1 DEF Inv, Types
    <3> QED
      BY <1>1, <3>1, <3>2, <3>3, <3>4 DEF Inv, Types
  <2>4. StopOnce' /\ PanicIsFinal' /\ LockHeld'
    BY <1>1, <2>1, <2>2 DEF Inv, Types, StopOnce, PanicIsFinal, LockHeld
  <2>5. CounterTellsConn'
    BY <1>1, <2>1 DEF Inv, CounterTellsConn, Busy
  <2> QED
    BY <2>3, <2>4, <2>5 DEF Inv
<1>3. CASE StopReleases \/ StopUnwatches \/ StopForgetsManager
  <2>1. /\ UNCHANGED <<runningStat, clientOpen, stops>>
        /\ \/ stopper = "release" /\ stopper' = "unwatch" /\ frees' = frees + 1
           \/ stopper = "unwatch" /\ stopper' = "forget" /\ frees' = frees
           \/ stopper = "forget" /\ stopper' = "done" /\ frees' = frees
    BY <1>3 DEF StopReleases, StopUnwatches, StopForgetsManager, OnlyStopper, statVars,
         connVars, managerVars
  <2>2. ~panicked
    BY <2>1 DEF Inv, PanicIsFinal
  <2>3. Types'
    BY <1>1, <2>1 DEF Inv, Types
  <2>4. StopOnce' /\ PanicIsFinal' /\ LockHeld'
    BY <1>1, <2>1, <2>2 DEF Inv, Types, StopOnce, PanicIsFinal, LockHeld
  <2>5. CounterTellsConn'
    BY <1>1, <2>1 DEF Inv, CounterTellsConn, Busy
  <2> QED
    BY <2>3, <2>4, <2>5 DEF Inv
<1> QED
  BY <1>2, <1>3 DEF Stopping

LEMMA PanicInv ==
    ASSUME Inv, Panic
    PROVE  Inv'
<1>1. /\ panicked' = TRUE
      /\ proxy' = [g \in Gens |-> "none"]
      /\ copier' = [x \in Dirs \X Gens |-> NoCopier]
      /\ watch' = [g \in Gens |-> NoWatch]
      /\ stops' = 0
      /\ stopper' = "none"
      /\ locked' = FALSE
      /\ UNCHANGED <<runningStat, reconnectCounter, serverConn, clientOpen, frees, isBTCAgent>>
  BY DEF Panic, connVars, managerVars
<1>2. Types'
  BY <1>1, NoCopierIsState, NoWatchIsWatcher DEF Inv, Types
<1>3. StopOnce' /\ PanicIsFinal' /\ LockHeld'
  BY <1>1, NoCopierIsState, NoWatchIsWatcher DEF Inv, StopOnce, PanicIsFinal, LockHeld
<1>4. CounterTellsConn'
  BY <1>1, NoCopierIsState DEF CounterTellsConn, Busy
<1> QED
  BY <1>2, <1>3, <1>4 DEF Inv

-----------------------------------------------------------------------------
LEMMA NextInv ==
    ASSUME Inv, Next
    PROVE  Inv'
<1>1. CASE CollectGarbage
  BY <1>1, CollectGarbageInv
<1>2. CASE Environment
  BY <1>2, EnvironmentInv
<1>3. CASE Session
  <2>1. CASE Reconnection
    BY <2>1, AttemptSucceedsInv, AttemptFailsInv DEF Reconnection
  <2>2. ASSUME NEW g \in Gens, Proxying(g)
        PROVE  Inv'
    BY <2>2, ProxyCheckInv, ProxyRegisterInv DEF Proxying
  <2>3. ASSUME NEW g \in Gens, NEW d \in Dirs, Copying(d, g) \/ CopierTryReconnect(d, g)
        PROVE  Inv'
    BY <2>3, CopierStartInv, CopierAttachInv, CopierTryStopInv, CopierTryReconnectInv
    DEF Copying
  <2>4. ASSUME NEW g \in Gens, Resending(g)
        PROVE  Inv'
    BY <2>4, ResendingInv, DirAssumption
  <2>5. ASSUME NEW g \in Gens, Watching(g) \/ WatchGetW(g) \/ WatchGetWFails(g)
        PROVE  Inv'
    BY <2>5, WatchStartInv, WatchLoadInv, WatchWakeInv, WatchStoreInv, WatchTryStopInv,
       WatchSetCoinInv, WatchSwitchInv, WatchGetWInv, WatchGetWFailsInv
    DEF Watching
  <2>6. CASE Stopping
    BY <2>6, StoppingInv
  <2>7. CASE Panic
    BY <2>7, PanicInv
  <2> QED
    BY <1>3, <2>1, <2>2, <2>3, <2>4, <2>5, <2>6, <2>7 DEF Session
<1> QED
  BY <1>1, <1>2, <1>3 DEF Next

LEMMA StutterInv ==
    ASSUME Inv, UNCHANGED vars
    PROVE  Inv'
<1>1. UNCHANGED <<isBTCAgent, panicked, locked, runningStat, proxy, copier, watch,
                  reconnectCounter, serverConn, frees, stopper, stops, clientOpen>>
  BY DEF vars, statVars, connVars, managerVars, goVars, stopVars, restVars
<1>2. clientOpen' \in BOOLEAN
  BY <1>1 DEF Inv, Types
<1> QED
  BY <1>1, <1>2, QuietInv

\* The inductive invariant holds in every reachable state.
THEOREM InvAlways == Spec => []Inv
<1>1. Init => Inv
  BY InitInv
<1>2. Inv /\ [Next]_vars => Inv'
  BY NextInv, StutterInv
<1> QED
  BY <1>1, <1>2, PTL DEF Spec

\* However many goroutines stop a session, its ID is freed at most once: only
\* the first gets through the check of Stop.
THEOREM FreedOnce == Spec => []ReleasedOnce
<1>1. Inv => ReleasedOnce
  BY DEF Inv, StopOnce, ReleasedOnce
<1> QED
  BY <1>1, InvAlways, PTL

-----------------------------------------------------------------------------
\* A reconnection begins in two places.  A copier begins one only with the
\* current counter, so the connection it saw fail is the current one.
LEMMA ReconnectionStarts ==
    ASSUME Inv, Next, runningStat = "Running", runningStat' = "Reconnecting"
    PROVE  \/ serverConn \notin openConns
           \/ \E g \in Gens : /\ watch[g].pc = "lock"
                              /\ watch[g].cnt = reconnectCounter
                              /\ watch'[g] = NoWatch
<1>1. \/ \E d \in Dirs, g \in Gens : CopierTryReconnect(d, g)
      \/ \E g \in Gens : WatchSwitch(g)
  <2>1. runningStat' # runningStat /\ runningStat' # "Stoped"
    OBVIOUS
  <2>2. ~Environment /\ ~CollectGarbage /\ ~Panic
    BY <2>1 DEF Environment, NodeWatcherRuns, CoinChanges, ServerCloses, ClientCloses,
                OnlyEnvironment, CollectGarbage, Panic, statVars
  <2>3. ~Reconnection
    BY <2>1 DEF Reconnection, AttemptSucceeds, AttemptFails
  <2>4. ~Stopping
    BY <2>1 DEF Stopping, StopEnter, StopReleases, StopUnwatches, StopForgetsManager,
                OnlyStopper, statVars
  <2>5. ASSUME NEW g \in Gens
        PROVE  ~Proxying(g) /\ ~Resending(g) /\ ~WatchGetW(g) /\ ~WatchGetWFails(g)
    BY <2>1 DEF Proxying, ProxyCheck, ProxyRegister, Resending, UpResend, UpWrite,
                OnlyCopier, WatchGetW, WatchGetWFails, OnlyWatch, statVars
  <2>6. ASSUME NEW g \in Gens, NEW d \in Dirs
        PROVE  ~Copying(d, g)
    BY <2>1 DEF Copying, CopierStart, CopierAttach, CopierTryStop, OnlyCopier, statVars
  <2>7. ASSUME NEW g \in Gens, Watching(g)
        PROVE  WatchSwitch(g)
    BY <2>1, <2>7 DEF Watching, WatchStart, WatchLoad, WatchWake, WatchStore, WatchTryStop,
                WatchSetCoin, OnlyWatch, statVars
  <2> QED
    BY <2>2, <2>3, <2>4, <2>5, <2>6, <2>7 DEF Next, Session
<1>2. ASSUME NEW cnt, TryReconnect(cnt)
      PROVE  cnt = reconnectCounter
  BY <1>2 DEF TryReconnect, StillCurrent, statVars
<1>3. ASSUME NEW d \in Dirs, NEW g \in Gens, CopierTryReconnect(d, g)
      PROVE  serverConn \notin openConns
  <2>1. /\ copier[<<d, g>>].pc = "copy"
        /\ copier[<<d, g>>].conn \notin openConns
        /\ TryReconnect(copier[<<d, g>>].cnt)
    BY <1>3 DEF CopierTryReconnect
  <2>2. copier[<<d, g>>].cnt = reconnectCounter
    BY <1>2, <2>1
  <2>3. <<d, g>> \in Dirs \X Gens
    OBVIOUS
  <2>4. copier[<<d, g>>].conn = serverConn
    BY <2>1, <2>2, <2>3 DEF Inv, CounterTellsConn
  <2> QED
    BY <2>1, <2>4
<1>4. ASSUME NEW g \in Gens, WatchSwitch(g)
      PROVE  /\ watch[g].pc = "lock"
             /\ watch[g].cnt = reconnectCounter
             /\ watch'[g] = NoWatch
  <2>1. watch[g].pc = "lock" /\ TryReconnect(watch[g].cnt) /\ Watch(g, NoWatch)
    BY <1>4 DEF WatchSwitch
  <2>2. watch'[g] = NoWatch
    BY <2>1 DEF Watch, Inv, Types
  <2> QED
    BY <1>2, <2>1, <2>2
<1> QED
  BY <1>1, <1>3, <1>4

\* A connection that is up is given up only by the coin watcher of its own
\* generation, for any number of reconnections and of goroutines left over from
\* earlier ones.
THEOREM HealthyKept == Spec => HealthyConnKept
<1>1. Inv /\ [Next]_vars =>
        [runningStat = "Running" /\ runningStat' = "Reconnecting" =>
         \/ serverConn \notin openConns
         \/ \E g \in Gens : /\ watch[g].pc = "lock"
                            /\ watch[g].cnt = reconnectCounter
                            /\ watch'[g] = NoWatch]_vars
  BY ReconnectionStarts
<1> QED
  BY <1>1, InvAlways, PTL DEF Spec, HealthyConnKept

-----------------------------------------------------------------------------
\* A session leaves the manager when it is reconnected, and then it is not
\* running, or when it is released, which the first goroutine that stops it does.
LEMMA RegisteredStep ==
    ASSUME Inv, RunningIsRegistered, Next
    PROVE  RunningIsRegistered'
<1>1. CASE UNCHANGED <<runningStat, reconnectCounter, proxy, registered>>
  BY <1>1 DEF RunningIsRegistered
<1>2. CASE AttemptSucceeds
  BY <1>2 DEF AttemptSucceeds, RunningIsRegistered, Inv, Types
<1>3. ASSUME NEW g \in Gens, ProxyCheck(g)
      PROVE  RunningIsRegistered'
  <2>1. proxy'[reconnectCounter] = "done" => runningStat # "Running" \/ proxy[reconnectCounter] = "done"
    BY <1>3 DEF ProxyCheck, Inv, Types
  <2> QED
    BY <1>3, <2>1 DEF ProxyCheck, statVars, managerVars, RunningIsRegistered
<1>4. ASSUME NEW g \in Gens, ProxyRegister(g)
      PROVE  RunningIsRegistered'
  BY <1>4 DEF ProxyRegister, RunningIsRegistered
<1>5. ASSUME NEW cnt, TryReconnect(cnt), UNCHANGED proxy
      PROVE  RunningIsRegistered'
  BY <1>5, <1>1 DEF TryReconnect, BeginReconnect, statVars, RunningIsRegistered
<1>6. CASE StopEnter
  BY <1>6 DEF StopEnter, RunningIsRegistered
<1>7. CASE StopReleases
  BY <1>7 DEF StopReleases, OnlyStopper, statVars, Inv, StopOnce, RunningIsRegistered
<1>8. CASE Panic
  <2>1. reconnectCounter' = reconnectCounter /\ reconnectCounter \in Gens
    BY <1>8 DEF Panic, Inv, Types
  <2>2. proxy'[reconnectCounter'] = "none"
    BY <1>8, <2>1 DEF Panic
  <2> QED
    BY <2>2 DEF RunningIsRegistered
<1>9. CASE CollectGarbage \/ Environment \/ AttemptFails \/ StopUnwatches \/ StopForgetsManager
  BY <1>1, <1>9 DEF CollectGarbage, Environment, NodeWatcherRuns, CoinChanges, ServerCloses,
     ClientCloses, OnlyEnvironment, AttemptFails, StopUnwatches, StopForgetsManager,
     OnlyStopper, statVars, managerVars, goVars
<1>10. ASSUME NEW g \in Gens, NEW d \in Dirs, Copying(d, g)
       PROVE  RunningIsRegistered'
  BY <1>1, <1>10 DEF Copying, CopierStart, CopierAttach, CopierTryStop, OnlyCopier,
     statVars, managerVars
<1>11. ASSUME NEW g \in Gens, Resending(g)
       PROVE  RunningIsRegistered'
  BY <1>1, <1>11 DEF Resending, UpResend, UpWrite, OnlyCopier, statVars, managerVars
<1>12. ASSUME NEW g \in Gens, NEW d \in Dirs, CopierTryReconnect(d, g)
       PROVE  RunningIsRegistered'
  BY <1>5, <1>12 DEF CopierTryReconnect
<1>13. ASSUME NEW g \in Gens, Watching(g) \/ WatchGetW(g) \/ WatchGetWFails(g)
       PROVE  RunningIsRegistered'
  <2>1. CASE WatchSwitch(g)
    BY <1>5, <2>1 DEF WatchSwitch
  <2>2. CASE ~WatchSwitch(g)
    BY <1>1, <1>13, <2>2 DEF Watching, WatchStart, WatchLoad, WatchWake, WatchStore,
       WatchTryStop, WatchSetCoin, WatchGetW, WatchGetWFails, OnlyWatch, statVars, managerVars
  <2> QED
    BY <2>1, <2>2
<1> QED
  BY <1>2, <1>3, <1>4, <1>6, <1>7, <1>8, <1>9, <1>10, <1>11, <1>12, <1>13
  DEF Next, Session, Reconnection, Proxying, Stopping

\* A running session whose proxyStratum got through is in the manager's map, so an
\* upgrade does not forget it, whatever goroutines of earlier generations do.
THEOREM RunningRegistered == Spec => []RunningIsRegistered
<1>1. Init => RunningIsRegistered
  BY GensAreNat DEF Init, RunningIsRegistered
<1>2. Inv /\ RunningIsRegistered /\ [Next]_vars => RunningIsRegistered'
  <2>1. Inv /\ RunningIsRegistered /\ UNCHANGED vars => RunningIsRegistered'
    BY DEF RunningIsRegistered, vars, statVars, managerVars, goVars
  <2> QED
    BY <2>1, RegisteredStep
<1> QED
  BY <1>1, <1>2, InvAlways, PTL DEF Spec

-----------------------------------------------------------------------------
\* The coins: those a watcher has read, the session's and the node's.  A watcher
\* that is about to act on a coin has read it from a channel it still holds, and
\* it has seen an event; only the watcher of a BTCAgent stops the session.
WatcherCoin(w) ==
    /\ w.pc \in {"store", "switch"} => w.ch \in Chans /\ handed[w.ch] \in Coins
    /\ w.pc \in {"switch", "lock"} => ~isBTCAgent
    /\ w.pc = "tryStop" => isBTCAgent
    /\ events["coin"] = 0 =>
        /\ w.pc \notin {"switch", "lock", "tryStop"}
        /\ w.pc = "store" => handed[w.ch] = miningCoin

CoinTypes ==
    /\ node \in [{Path} -> Coins]
    /\ nodeValue \in [{Path} -> Coins]
    /\ handed \in [Chans -> Coins \union {NoCoin}]
    /\ miningCoin \in Coins
    /\ zkWatchEvent \in Chans
    /\ events \in [Events -> Nat]
    /\ openConns \subseteq Gens
    /\ registered \in BOOLEAN

\* Until the coin of the sub-account changes, everybody sees the same one.
SameCoin ==
    events["coin"] = 0 => node[Path] = miningCoin /\ nodeValue[Path] = miningCoin

CoinInv ==
    /\ CoinTypes
    /\ SameCoin
    /\ \A g \in Gens : WatcherCoin(watch[g])

LEMMA InitCoinInv == Init => CoinInv
<1> SUFFICES ASSUME Init PROVE CoinInv
  OBVIOUS
<1>1. miningCoin \in Coins /\ zkWatchEvent \in Chans
  BY CoinAssumption, ChanAssumption DEF Init
<1>2. CoinTypes /\ SameCoin
  BY <1>1, GensAreNat DEF Init, CoinTypes, SameCoin, Events
<1>3. \A g \in Gens : WatcherCoin(watch[g])
  BY DEF Init, WatcherCoin, NoWatch
<1> QED
  BY <1>2, <1>3 DEF CoinInv

\* What every step does to the connections and to the manager's map.
LEMMA FieldsStep ==
    ASSUME Inv, CoinInv, Next
    PROVE  openConns' \subseteq Gens /\ registered' \in BOOLEAN
<1>1. /\ openConns \subseteq Gens /\ registered \in BOOLEAN /\ reconnectCounter \in Gens
  BY DEF CoinInv, CoinTypes, Inv, Types
<1>2. CASE UNCHANGED <<openConns, registered>>
  BY <1>1, <1>2
<1>3. CASE AttemptSucceeds
  BY <1>1, <1>3 DEF AttemptSucceeds, managerVars
<1>4. ASSUME NEW g \in Gens, Proxying(g)
      PROVE  openConns' \subseteq Gens /\ registered' \in BOOLEAN
  BY <1>1, <1>4 DEF Proxying, ProxyCheck, ProxyRegister, connVars, managerVars
<1>5. ASSUME NEW cnt, TryReconnect(cnt)
      PROVE  openConns' \subseteq Gens /\ registered' \in BOOLEAN
  BY <1>1, <1>5 DEF TryReconnect, BeginReconnect
<1>6. CASE Stopping
  BY <1>1, <1>6 DEF Stopping, StopEnter, CloseBoth, OnlyStopEnter, StopReleases, StopUnwatches,
     StopForgetsManager, OnlyStopper, connVars, managerVars
<1>7. CASE Environment
  BY <1>1, <1>7 DEF Environment, NodeWatcherRuns, CoinChanges, ServerCloses, ClientCloses,
     OnlyEnvironment, managerVars
<1>8. CASE CollectGarbage \/ AttemptFails \/ Panic
  BY <1>2, <1>8 DEF CollectGarbage, AttemptFails, Panic, connVars, managerVars
<1>9. ASSUME NEW g \in Gens, NEW d \in Dirs, Copying(d, g) \/ CopierTryReconnect(d, g)
      PROVE  openConns' \subseteq Gens /\ registered' \in BOOLEAN
  BY <1>2, <1>5, <1>9 DEF Copying, CopierStart, CopierAttach, CopierTryStop,
     CopierTryReconnect, OnlyCopier, connVars, managerVars
<1>10. ASSUME NEW g \in Gens, Resending(g)
       PROVE  openConns' \subseteq Gens /\ registered' \in BOOLEAN
  BY <1>2, <1>10 DEF Resending, UpResend, UpWrite, OnlyCopier, connVars, managerVars
<1>11. ASSUME NEW g \in Gens, Watching(g) \/ WatchGetW(g) \/ WatchGetWFails(g)
       PROVE  openConns' \subseteq Gens /\ registered' \in BOOLEAN
  <2>1. CASE WatchSwitch(g)
    BY <1>5, <2>1 DEF WatchSwitch
  <2>2. CASE ~WatchSwitch(g)
    BY <1>2, <1>11, <2>2 DEF Watching, WatchStart, WatchLoad, WatchWake, WatchStore,
       WatchTryStop, WatchSetCoin, WatchGetW, WatchGetWFails, OnlyWatch, connVars, managerVars
  <2> QED
    BY <2>1, <2>2
<1> QED
  BY <1>3, <1>4, <1>6, <1>7, <1>8, <1>9, <1>10, <1>11
  DEF Next, Session, Reconnection

\* A step of one watcher that changes nothing a coin is read from.
LEMMA WatcherCoinStep ==
    ASSUME Inv, CoinInv, NEW g \in Gens, NEW new, IsWatcher(new), Watch(g, new),
           WatcherCoin(new), zkWatchEvent' \in Chans,
           openConns' \subseteq Gens, registered' \in BOOLEAN,
           UNCHANGED <<node, nodeValue, handed, miningCoin, events, isBTCAgent>>
    PROVE  CoinInv'
<1>1. watch' = [watch EXCEPT ![g] = new] /\ DOMAIN watch = Gens
  BY DEF Watch, Inv, Types
<1>2. \A h \in Gens : watch'[h] = IF h = g THEN new ELSE watch[h]
  BY <1>1
<1>3. CoinTypes' /\ SameCoin'
  BY DEF CoinInv, CoinTypes, SameCoin
<1>4. ASSUME NEW h \in Gens
      PROVE  WatcherCoin(watch[h])'
  BY <1>2 DEF CoinInv, WatcherCoin
<1> QED
  BY <1>3, <1>4 DEF CoinInv

\* A step that leaves the watchers and what they read alone.
LEMMA CoinQuiet ==
    ASSUME CoinInv,
           openConns' \subseteq Gens, registered' \in BOOLEAN,
           UNCHANGED <<node, nodeValue, handed, miningCoin, zkWatchEvent, events, isBTCAgent>>,
           \A g \in Gens : watch'[g] = watch[g] \/ watch'[g].pc \in {"none", "start"}
    PROVE  CoinInv'
<1>1. CoinTypes' /\ SameCoin'
  BY DEF CoinInv, CoinTypes, SameCoin
<1>2. ASSUME NEW g \in Gens
      PROVE  WatcherCoin(watch[g])'
  BY DEF CoinInv, WatcherCoin
<1> QED
  BY <1>1, <1>2 DEF CoinInv

\* Releasing the watch closes a channel and takes nothing back.
LEMMA UnwatchKeeps == Unwatch => UNCHANGED <<node, nodeValue, handed>>
BY DEF Unwatch, ZK!ReleaseW, ZK!zkVars, zkVars

\* The watchers.  What GetW returns is the coin of the node, now or when the watch
\* was set, and a channel that others may still hold is not made anew.
LEMMA WatchGetWCoins ==
    ASSUME Inv, CoinInv, NEW g \in Gens, WatchGetW(g),
           openConns' \subseteq Gens, registered' \in BOOLEAN
    PROVE  CoinInv'
<1>1. PICK c \in Chans :
        /\ ZK!GetW(Path, Sid, c)
        /\ Watch(g, [watch[g] EXCEPT !.pc = "store", !.ch = c])
  BY DEF WatchGetW
<1> DEFINE new == [watch[g] EXCEPT !.pc = "store", !.ch = c]
<1>2. IsWatcher(new) /\ new.pc = "store" /\ new.ch = c
  <2>1. IsWatcher(watch[g])
    BY DEF Inv, Types
  <2> QED
    BY <2>1 DEF IsWatcher
<1>3. \A h \in Gens : watch'[h] = IF h = g THEN new ELSE watch[h]
  BY <1>1 DEF Watch, Inv, Types
<1>4. /\ UNCHANGED <<node, miningCoin, zkWatchEvent, events, isBTCAgent>>
      /\ nodeValue' \in [{Path} -> Coins]
      /\ events["coin"] = 0 => nodeValue'[Path] = miningCoin
      /\ handed' = [handed EXCEPT ![c] = nodeValue'[Path]]
  <2>1. UNCHANGED <<node, miningCoin, zkWatchEvent, events, isBTCAgent>>
    BY <1>1 DEF ZK!GetW, WatchGetW, coinVars, restVars
  <2>2. handed' = [handed EXCEPT ![c] = nodeValue'[Path]]
    BY <1>1 DEF ZK!GetW, ZK!RegisterChannel
  <2>3. CASE nodeValue' = nodeValue
    BY <2>1, <2>2, <2>3 DEF CoinInv, CoinTypes, SameCoin
  <2>4. CASE nodeValue' = [nodeValue EXCEPT ![Path] = node[Path]]
    BY <2>1, <2>2, <2>4 DEF CoinInv, CoinTypes, SameCoin
  <2> QED
    BY <1>1, <2>3, <2>4 DEF ZK!GetW, ZK!ReadAndWatch
<1> HIDE DEF new
<1>5. /\ handed' \in [Chans -> Coins \union {NoCoin}]
      /\ handed'[c] = nodeValue'[Path]
      /\ nodeValue'[Path] \in Coins
      /\ \A ch \in Chans : handed'[ch] = handed[ch] \/ handed'[ch] = nodeValue'[Path]
  BY <1>4 DEF CoinInv, CoinTypes
<1>6. CoinTypes' /\ SameCoin'
  BY <1>4, <1>5 DEF CoinInv, CoinTypes, SameCoin
<1>7. ASSUME NEW h \in Gens, h # g
      PROVE  WatcherCoin(watch[h])'
  <2>1. watch'[h] = watch[h] /\ WatcherCoin(watch[h])
    BY <1>3, <1>7 DEF CoinInv
  <2>2. CASE watch[h].pc = "store"
    <3>1. watch[h].ch \in Chans /\ handed[watch[h].ch] \in Coins
      BY <2>1, <2>2 DEF WatcherCoin
    <3>2. handed'[watch[h].ch] \in Coins
      BY <1>5, <3>1
    <3>3. events["coin"] = 0 => handed'[watch[h].ch] = miningCoin
      BY <1>4, <1>5, <2>1, <2>2, <3>1 DEF WatcherCoin
    <3> QED
      BY <1>4, <2>1, <2>2, <3>1, <3>2, <3>3 DEF WatcherCoin
  <2>3. CASE watch[h].pc # "store"
    <3>1. watch[h].pc = "switch" => watch[h].ch \in Chans /\ handed'[watch[h].ch] \in Coins
      BY <1>5, <2>1 DEF WatcherCoin
    <3> QED
      BY <1>4, <2>1, <2>3, <3>1 DEF WatcherCoin
  <2> QED
    BY <2>2, <2>3
<1>8. WatcherCoin(watch[g])'
  BY <1>2, <1>3, <1>4, <1>5 DEF WatcherCoin
<1> QED
  BY <1>6, <1>7, <1>8 DEF CoinInv

LEMMA WatchStoreCoins ==
    ASSUME Inv, CoinInv, NEW g \in Gens, WatchStore(g),
           openConns' \subseteq Gens, registered' \in BOOLEAN
    PROVE  CoinInv'
<1>1. /\ watch[g].pc = "store"
      /\ watch[g].ch \in Chans
      /\ CoinRead(g) \in Coins
      /\ events["coin"] = 0 => CoinRead(g) = miningCoin
      /\ IsWatcher(watch[g])
  BY DEF WatchStore, CoinInv, WatcherCoin, CoinRead, Inv, Types
<1>2. /\ zkWatchEvent' \in Chans
      /\ UNCHANGED <<node, nodeValue, handed, miningCoin, events, isBTCAgent>>
  BY <1>1 DEF WatchStore, OnlyWatch, zkVars, restVars
<1>3. CASE CoinRead(g) \in {miningCoin} \union (Coins \ ServerCoins)
  <2> DEFINE new == [watch[g] EXCEPT !.pc = "load", !.ch = NoChan]
  <2>1. Watch(g, new)
    BY <1>3 DEF WatchStore
  <2>2. IsWatcher(new) /\ new.pc = "load"
    BY <1>1 DEF IsWatcher
  <2>3. WatcherCoin(new)
    BY <2>2 DEF WatcherCoin
  <2> HIDE DEF new
  <2> QED
    BY <1>2, <2>1, <2>2, <2>3, WatcherCoinStep
<1>4. CASE CoinRead(g) \notin {miningCoin} \union (Coins \ ServerCoins)
  <2> DEFINE pc == IF isBTCAgent THEN "tryStop" ELSE "switch"
             new == [watch[g] EXCEPT !.pc = pc]
  <2>1. Watch(g, new)
    BY <1>4 DEF WatchStore
  <2>2. /\ pc \in {"tryStop", "switch"}
        /\ pc = "tryStop" => isBTCAgent
        /\ pc = "switch" => ~isBTCAgent
    OBVIOUS
  <2> HIDE DEF pc
  <2>3. IsWatcher(new) /\ new.pc = pc /\ new.ch = watch[g].ch
    BY <1>1 DEF IsWatcher
  <2>4. events["coin"] # 0
    BY <1>1, <1>4
  <2>5. WatcherCoin(new)
    BY <1>1, <2>2, <2>3, <2>4 DEF WatcherCoin, CoinRead
  <2> HIDE DEF new
  <2> QED
    BY <1>2, <2>1, <2>3, <2>5, WatcherCoinStep
<1> QED
  BY <1>3, <1>4

\* The watcher of a session that switches has read the new coin after an event.
LEMMA WatchSetCoinCoins ==
    ASSUME Inv, CoinInv, NEW g \in Gens, WatchSetCoin(g),
           openConns' \subseteq Gens, registered' \in BOOLEAN
    PROVE  CoinInv'
<1> DEFINE new == [watch[g] EXCEPT !.pc = "lock", !.ch = NoChan]
<1>1. /\ watch[g].pc = "switch"
      /\ WatcherCoin(watch[g])
      /\ IsWatcher(watch[g])
      /\ miningCoin' = CoinRead(g)
  BY DEF WatchSetCoin, CoinInv, Inv, Types
<1>2. miningCoin' \in Coins /\ events["coin"] # 0 /\ ~isBTCAgent
  BY <1>1 DEF WatcherCoin, CoinRead
<1>3. UNCHANGED <<node, nodeValue, handed, zkWatchEvent, events, isBTCAgent>>
  BY DEF WatchSetCoin, OnlyWatch, zkVars, restVars
<1>4. new.pc = "lock"
  BY <1>1 DEF IsWatcher
<1>5. \A h \in Gens : watch'[h] = IF h = g THEN new ELSE watch[h]
  BY DEF WatchSetCoin, Watch, Inv, Types
<1> HIDE DEF new
<1>6. CoinTypes' /\ SameCoin'
  BY <1>2, <1>3 DEF CoinInv, CoinTypes, SameCoin
<1>7. ASSUME NEW h \in Gens
      PROVE  WatcherCoin(watch[h])'
  BY <1>2, <1>3, <1>4, <1>5 DEF CoinInv, WatcherCoin
<1> QED
  BY <1>6, <1>7 DEF CoinInv

\* The other steps of a watcher read no coin.
LEMMA WatchingCoins ==
    ASSUME Inv, CoinInv, NEW g \in Gens,
           \/ WatchStart(g) \/ WatchLoad(g) \/ WatchWake(g) \/ WatchTryStop(g)
           \/ WatchSwitch(g) \/ WatchGetWFails(g),
           openConns' \subseteq Gens, registered' \in BOOLEAN
    PROVE  CoinInv'
<1>1. UNCHANGED <<node, nodeValue, handed, miningCoin, zkWatchEvent, events, isBTCAgent>>
  <2>1. UNCHANGED <<node, nodeValue, handed>>
    BY UnwatchKeeps DEF WatchStart, WatchLoad, WatchWake, WatchTryStop, WatchSwitch,
       WatchGetWFails, OnlyWatch, TryReconnect, BeginReconnect, zkVars
  <2>2. UNCHANGED <<miningCoin, zkWatchEvent, events, isBTCAgent>>
    BY DEF WatchStart, WatchLoad, WatchWake, WatchTryStop, WatchSwitch, WatchGetWFails,
       OnlyWatch, coinVars, restVars
  <2> QED
    BY <2>1, <2>2
<1>2. \E new : /\ Watch(g, new) /\ IsWatcher(new)
               /\ new.pc \in {"none", "load", "wait", "getw"}
  <2>1. IsWatcher(watch[g]) /\ reconnectCounter \in Gens
    BY DEF Inv, Types
  <2>2. CASE WatchStart(g)
    <3> DEFINE new == [NoWatch EXCEPT !.pc = "load", !.cnt = reconnectCounter]
    <3>1. IsWatcher(new) /\ new.pc = "load" /\ Watch(g, new)
      BY <2>1, <2>2 DEF NoWatch, IsWatcher, WatchStart
    <3> QED
      BY <3>1
  <2>3. CASE WatchLoad(g)
    <3> DEFINE new == [watch[g] EXCEPT !.pc = "wait", !.ch = zkWatchEvent]
    <3>1. IsWatcher(new) /\ new.pc = "wait" /\ Watch(g, new)
      BY <2>1, <2>3 DEF IsWatcher, WatchLoad
    <3> QED
      BY <3>1
  <2>4. CASE WatchGetWFails(g)
    <3> DEFINE new == [watch[g] EXCEPT !.pc = "load"]
    <3>1. IsWatcher(new) /\ new.pc = "load" /\ Watch(g, new)
      BY <2>1, <2>4 DEF IsWatcher, WatchGetWFails
    <3> QED
      BY <3>1
  <2>5. CASE Watch(g, NoWatch)
    BY <2>5, NoWatchIsWatcher
  <2>6. CASE Watch(g, [watch[g] EXCEPT !.pc = "getw", !.ch = NoChan])
    <3> DEFINE new == [watch[g] EXCEPT !.pc = "getw", !.ch = NoChan]
    <3>1. IsWatcher(new) /\ new.pc = "getw" /\ Watch(g, new)
      BY <2>1, <2>6 DEF IsWatcher
    <3> QED
      BY <3>1
  <2>7. WatchTryStop(g) \/ WatchSwitch(g) => Watch(g, NoWatch)
    BY DEF WatchTryStop, WatchSwitch
  <2>8. WatchWake(g) => \/ Watch(g, NoWatch)
                        \/ Watch(g, [watch[g] EXCEPT !.pc = "getw", !.ch = NoChan])
    BY DEF WatchWake
  <2> QED
    BY <2>2, <2>3, <2>4, <2>5, <2>6, <2>7, <2>8
<1>3. PICK new : Watch(g, new) /\ IsWatcher(new) /\ new.pc \in {"none", "load", "wait", "getw"}
  BY <1>2
<1>4. WatcherCoin(new)
  BY <1>3 DEF WatcherCoin
<1>5. zkWatchEvent' \in Chans
  BY <1>1 DEF CoinInv, CoinTypes
<1> QED
  BY <1>1, <1>3, <1>4, <1>5, WatcherCoinStep

\* ZooKeeper and its manager.  Only a channel that no watcher holds is collected.
LEMMA GarbageCoins ==
    ASSUME Inv, CoinInv, CollectGarbage
    PROVE  CoinInv'
<1>1. PICK c \in Garbage : ZK!Discard(c)
  BY DEF CollectGarbage
<1>2. /\ UNCHANGED <<node, nodeValue, miningCoin, zkWatchEvent, events, isBTCAgent,
                     openConns, registered, watch>>
      /\ handed' = [handed EXCEPT ![c] = NoCoin]
  BY <1>1 DEF CollectGarbage, ZK!Discard, ZK!zkVars, coinVars, restVars, connVars,
     managerVars, goVars
<1>3. /\ c \in Chans
      /\ \A g \in Gens : watch[g].ch # c
  BY <1>1 DEF Garbage
<1>4. /\ handed' \in [Chans -> Coins \union {NoCoin}]
      /\ \A ch \in Chans : ch # c => handed'[ch] = handed[ch]
  BY <1>2, <1>3 DEF CoinInv, CoinTypes
<1>5. CoinTypes' /\ SameCoin'
  BY <1>2, <1>4 DEF CoinInv, CoinTypes, SameCoin
<1>6. ASSUME NEW g \in Gens
      PROVE  WatcherCoin(watch[g])'
  BY <1>2, <1>3, <1>4 DEF CoinInv, WatcherCoin
<1> QED
  BY <1>5, <1>6 DEF CoinInv

LEMMA EnvironmentCoins ==
    ASSUME Inv, CoinInv, Environment,
           openConns' \subseteq Gens, registered' \in BOOLEAN
    PROVE  CoinInv'
<1>1. UNCHANGED <<nodeValue, handed, miningCoin, zkWatchEvent, isBTCAgent, watch>>
  BY DEF Environment, NodeWatcherRuns, CoinChanges, ServerCloses, ClientCloses,
     OnlyEnvironment, ZK!Dispatch, ZK!SetNode, coinVars, zkVars, restVars, goVars
<1>2. CASE UNCHANGED <<node, events>>
  BY <1>1, <1>2, CoinQuiet
<1>3. ASSUME NEW e \in Events, NEW max, Event(e, max),
             \/ node' = node
             \/ e = "coin" /\ \E coin \in Coins : ZK!SetNode(Path, coin)
      PROVE  CoinInv'
  <2>1. /\ events' = [events EXCEPT ![e] = @ + 1]
        /\ events \in [Events -> Nat]
        /\ "coin" \in Events
    BY <1>3 DEF Event, CoinInv, CoinTypes, Events
  <2>2. /\ events' \in [Events -> Nat]
        /\ events'["coin"] = 0 => events["coin"] = 0 /\ e # "coin"
    BY <2>1
  <2>3. /\ node' \in [{Path} -> Coins]
        /\ e # "coin" => node' = node
    BY <1>3 DEF ZK!SetNode, CoinInv, CoinTypes
  <2>4. CoinTypes' /\ SameCoin'
    BY <1>1, <2>2, <2>3 DEF CoinInv, CoinTypes, SameCoin
  <2>5. ASSUME NEW g \in Gens
        PROVE  WatcherCoin(watch[g])'
    BY <1>1, <2>2 DEF CoinInv, WatcherCoin
  <2> QED
    BY <2>4, <2>5 DEF CoinInv
<1>4. CASE NodeWatcherRuns
  BY <1>2, <1>4 DEF NodeWatcherRuns, ZK!Dispatch
<1>5. CASE CoinChanges
  BY <1>3, <1>5 DEF CoinChanges, Events
<1>6. CASE ServerCloses \/ ClientCloses
  BY <1>3, <1>6 DEF ServerCloses, ClientCloses, Events, zkVars
<1> QED
  BY <1>4, <1>5, <1>6 DEF Environment

\* What is left reads and writes no coin, and starts or ends watchers at most.
LEMMA OthersCoins ==
    ASSUME Inv, CoinInv,
           \/ Reconnection \/ Stopping \/ Panic
           \/ \E g \in Gens :
                \/ Proxying(g)
                \/ \E d \in Dirs : Copying(d, g) \/ CopierTryReconnect(d, g)
                \/ Resending(g),
           openConns' \subseteq Gens, registered' \in BOOLEAN
    PROVE  CoinInv'
<1>1. UNCHANGED <<miningCoin, zkWatchEvent, events, isBTCAgent>>
  BY DEF Reconnection, AttemptSucceeds, AttemptFails, Stopping, StopEnter, OnlyStopEnter,
     StopReleases, StopUnwatches, StopForgetsManager, OnlyStopper, Panic,
     Proxying, ProxyCheck, ProxyRegister, Copying, CopierStart, CopierAttach, CopierTryStop,
     CopierTryReconnect, Resending, UpResend, UpWrite, OnlyCopier, coinVars, restVars
<1>2. UNCHANGED <<node, nodeValue, handed>>
  BY UnwatchKeeps
  DEF Reconnection, AttemptSucceeds, AttemptFails, Stopping, StopEnter, OnlyStopEnter,
     StopReleases, StopUnwatches, StopForgetsManager, OnlyStopper, Panic,
     Proxying, ProxyCheck, ProxyRegister, Copying, CopierStart, CopierAttach, CopierTryStop,
     CopierTryReconnect, TryReconnect, BeginReconnect, Resending, UpResend, UpWrite,
     OnlyCopier, zkVars
<1>3. \A g \in Gens : watch'[g] = watch[g] \/ watch'[g].pc \in {"none", "start"}
  <2>1. CASE Panic
    BY <2>1, NoWatchIsWatcher DEF Panic
  <2>2. ASSUME NEW g \in Gens, ProxyRegister(g)
        PROVE  \A h \in Gens : watch'[h] = watch[h] \/ watch'[h].pc \in {"none", "start"}
    <3>1. watch' = [watch EXCEPT ![g].pc = "start"] /\ DOMAIN watch = Gens
      BY <2>2 DEF ProxyRegister, StartGoroutines, Inv, Types
    <3>2. watch'[g].pc = "start"
      BY <3>1 DEF Inv, Types, IsWatcher
    <3> QED
      BY <3>1, <3>2
  <2>3. CASE watch' = watch
    BY <2>3
  <2>4. \/ Panic \/ watch' = watch \/ \E g \in Gens : ProxyRegister(g)
    BY DEF Reconnection, AttemptSucceeds, AttemptFails, Stopping, StopEnter, OnlyStopEnter,
       StopReleases, StopUnwatches, StopForgetsManager, OnlyStopper,
       Proxying, ProxyCheck, Copying, CopierStart, CopierAttach, CopierTryStop,
       CopierTryReconnect, Resending, UpResend, UpWrite, OnlyCopier
  <2> QED
    BY <2>1, <2>2, <2>3, <2>4
<1> QED
  BY <1>1, <1>2, <1>3, CoinQuiet

LEMMA NextCoinInv ==
    ASSUME Inv, CoinInv, [Next]_vars
    PROVE  CoinInv'
<1>1. CASE UNCHANGED vars
  <2>1. UNCHANGED <<node, nodeValue, handed, miningCoin, zkWatchEvent, events, isBTCAgent,
                    openConns, registered, watch>>
    BY <1>1 DEF vars, zkVars, coinVars, connVars, managerVars, goVars, restVars
  <2> QED
    BY <2>1, CoinQuiet DEF CoinInv, CoinTypes
<1>2. CASE Next
  <2>1. openConns' \subseteq Gens /\ registered' \in BOOLEAN
    BY <1>2, FieldsStep
  <2>2. CASE CollectGarbage
    BY <2>2, GarbageCoins
  <2>3. CASE Environment
    BY <2>1, <2>3, EnvironmentCoins
  <2>4. ASSUME NEW g \in Gens, Watching(g) \/ WatchGetW(g) \/ WatchGetWFails(g)
        PROVE  CoinInv'
    BY <2>1, <2>4, WatchingCoins, WatchGetWCoins, WatchStoreCoins, WatchSetCoinCoins
    DEF Watching
  <2>5. CASE Session
    BY <2>1, <2>4, <2>5, OthersCoins DEF Session
  <2> QED
    BY <1>2, <2>2, <2>3, <2>5 DEF Next
<1> QED
  BY <1>1, <1>2

\* Every field keeps its type: a session never mines, and a watcher never waits on,
\* anything but a coin that GetW returned and a channel that was made, although
\* both are read and written without the lock; and the lock is held by nobody but
\* a reconnection, which Stop cannot overtake.
THEOREM Typed == Spec => []TypeOK
<1>1. Inv /\ CoinInv => TypeOK
  BY DEF Inv, Types, StopOnce, LockHeld, CoinInv, CoinTypes, TypeOK
<1> QED
  BY <1>1, InitCoinInv, NextCoinInv, InvAlways, PTL DEF Spec

-----------------------------------------------------------------------------
\* Why a session may be stopped, once a goroutine has been sent to do it.  A
\* reason stays one until the session is stopped: a client that is gone does not
\* come back, a BTCAgent is never reconnected, and a reconnection that has failed
\* for good is not taken up again.
Explained ==
    \/ ~clientOpen
    \/ runningStat = "Stoped"
    \/ runningStat = "Reconnecting" /\ ~locked
    \/ isBTCAgent /\ (serverConn \notin openConns \/ events["coin"] > 0)

\* A copier that met a nil connection did so during a reconnection, and once that
\* has succeeded its counter is an old one.
NilWasMet ==
    \A x \in Dirs \X Gens :
        copier[x].pc = "tryStop" /\ runningStat = "Running" =>
            copier[x].cnt # reconnectCounter

StopInv ==
    /\ isBTCAgent => runningStat # "Reconnecting"
    /\ NilWasMet
    /\ stops > 0 => Explained

LEMMA InitStopInv == Init => StopInv
BY DEF Init, StopInv, NilWasMet, NoCopier

\* Steps that neither stop nor reconnect.
LEMMA StopQuiet ==
    ASSUME StopInv,
           UNCHANGED <<isBTCAgent, runningStat, locked, reconnectCounter, serverConn, stops>>,
           openConns' \subseteq openConns,
           clientOpen' => clientOpen,
           events["coin"] > 0 => events'["coin"] > 0,
           \A x \in Dirs \X Gens : copier'[x] = copier[x] \/ copier'[x].pc # "tryStop"
    PROVE  StopInv'
<1>1. NilWasMet'
  BY DEF StopInv, NilWasMet
<1>2. stops' > 0 => Explained'
  BY DEF StopInv, Explained
<1> QED
  BY <1>1, <1>2 DEF StopInv

\* A goroutine is sent to stop the session.
LEMMA TryStopStep ==
    ASSUME StopInv, NEW cnt, TryStop(cnt), StillCurrent(cnt) => Explained,
           UNCHANGED <<isBTCAgent, runningStat, locked, reconnectCounter, serverConn,
                       openConns, clientOpen, events>>,
           \A x \in Dirs \X Gens : copier'[x] = copier[x] \/ copier'[x].pc # "tryStop"
    PROVE  StopInv'
<1>1. NilWasMet'
  BY DEF StopInv, NilWasMet
<1>2. stops' > 0 => Explained'
  BY DEF StopInv, Explained, TryStop
<1> QED
  BY <1>1, <1>2 DEF StopInv

\* The session of somebody else than a BTCAgent is reconnected.
LEMMA TryReconnectStep ==
    ASSUME Inv, StopInv, NEW cnt \in Gens, TryReconnect(cnt), ~isBTCAgent,
           UNCHANGED <<isBTCAgent, stops, clientOpen, events>>,
           \A x \in Dirs \X Gens : copier'[x] = copier[x] \/ copier'[x].pc # "tryStop"
    PROVE  StopInv'
<1>1. CASE StillCurrent(cnt)
  <2>1. runningStat = "Running" /\ runningStat' = "Reconnecting"
    BY <1>1 DEF TryReconnect, BeginReconnect, StillCurrent
  <2>2. stops > 0 => ~clientOpen
    BY <2>1 DEF StopInv, Explained
  <2> QED
    BY <2>1, <2>2 DEF StopInv, NilWasMet, Explained
<1>2. CASE ~StillCurrent(cnt)
  <2>1. UNCHANGED <<runningStat, locked, reconnectCounter, serverConn, openConns>>
    BY <1>2 DEF TryReconnect, statVars
  <2> QED
    BY <2>1, StopQuiet
<1> QED
  BY <1>1, <1>2

LEMMA ReconnectionStops ==
    ASSUME Inv, StopInv, Reconnection
    PROVE  StopInv'
<1>1. locked /\ runningStat = "Reconnecting" /\ ~isBTCAgent
  BY DEF Reconnection, AttemptSucceeds, AttemptFails, Inv, LockHeld, StopInv
<1>2. UNCHANGED <<isBTCAgent, reconnectCounter, copier, clientOpen, events>>
  BY DEF Reconnection, AttemptSucceeds, AttemptFails, connVars, restVars
<1>3. CASE AttemptSucceeds
  <2>1. stops' = stops /\ (stops > 0 => ~clientOpen)
    BY <1>1, <1>3 DEF AttemptSucceeds, stopVars, StopInv, Explained
  <2>2. NilWasMet'
    <3>1. ASSUME NEW x \in Dirs \X Gens, copier[x].pc = "tryStop"
          PROVE  copier[x].cnt # reconnectCounter
      <4>1. copier[x].cnt \in Nat /\ reconnectCounter \in Nat
        BY GensAreNat DEF Inv, Types, CopierState
      <4>2. copier[x].cnt < reconnectCounter
        BY <1>1, <3>1 DEF Inv, CounterTellsConn, Busy
      <4> QED
        BY <4>1, <4>2
    <3> QED
      BY <1>2, <3>1 DEF NilWasMet
  <2> QED
    BY <1>1, <1>2, <2>1, <2>2 DEF StopInv, Explained
<1>4. CASE AttemptFails
  <2>1. runningStat' = runningStat /\ UNCHANGED connVars
    BY <1>4 DEF AttemptFails
  <2>2. \/ stops' = stops /\ locked' = locked
        \/ ~locked'
    BY <1>4 DEF AttemptFails
  <2>3. NilWasMet'
    BY <1>1, <2>1 DEF NilWasMet
  <2> QED
    BY <1>1, <1>2, <2>1, <2>2, <2>3 DEF StopInv, Explained
<1> QED
  BY <1>3, <1>4 DEF Reconnection

\* The copiers.  One that was refused a nil connection met it outside "Running".
LEMMA CopierAttachStops ==
    ASSUME Inv, StopInv, NEW d \in Dirs, NEW g \in Gens, CopierAttach(d, g)
    PROVE  StopInv'
<1>1. UNCHANGED <<isBTCAgent, runningStat, locked, reconnectCounter, serverConn, stops,
                  openConns, clientOpen, events>>
  BY DEF CopierAttach, OnlyCopier, statVars, connVars, stopVars, restVars
<1>2. CASE serverConn = NoConn
  <2>1. runningStat # "Running"
    BY <1>2, ConnAssumption DEF Inv, Types, LockHeld
  <2> QED
    BY <1>1, <2>1 DEF StopInv, NilWasMet, Explained
<1>3. CASE serverConn # NoConn
  <2>1. ASSUME NEW x \in Dirs \X Gens
        PROVE  copier'[x] = copier[x] \/ copier'[x].pc # "tryStop"
    <3> DEFINE new == [copier[<<d, g>>] EXCEPT !.pc = "copy", !.conn = serverConn]
    <3>1. copier' = [copier EXCEPT ![<<d, g>>] = new]
      BY <1>3 DEF CopierAttach, Copier
    <3>2. new.pc = "copy"
      BY DEF Inv, Types, CopierState
    <3> HIDE DEF new
    <3> QED
      BY <3>1, <3>2 DEF Inv, Types
  <2> QED
    BY <1>1, <2>1, StopQuiet
<1> QED
  BY <1>2, <1>3

\* A copier that ends or starts anew.
LEMMA CopierLeaves ==
    ASSUME Inv, NEW d \in Dirs, NEW g \in Gens, NEW new, Copier(d, g, new),
           new.pc # "tryStop"
    PROVE  \A x \in Dirs \X Gens : copier'[x] = copier[x] \/ copier'[x].pc # "tryStop"
BY DEF Copier, Inv, Types

LEMMA CopierTryStopStops ==
    ASSUME Inv, CoinInv, StopInv, NEW d \in Dirs, NEW g \in Gens, CopierTryStop(d, g)
    PROVE  StopInv'
<1> DEFINE cnt == copier[<<d, g>>].cnt
<1>1. /\ TryStop(cnt)
      /\ Copier(d, g, NoCopier)
      /\ UNCHANGED <<isBTCAgent, runningStat, locked, reconnectCounter, serverConn,
                     openConns, clientOpen, events>>
  BY DEF CopierTryStop, statVars, connVars, restVars
<1>2. <<d, g>> \in Dirs \X Gens
  OBVIOUS
<1>3. ASSUME StillCurrent(cnt) PROVE Explained
  <2>1. runningStat = "Running" /\ cnt = reconnectCounter
    BY <1>3 DEF StillCurrent
  <2>2. copier[<<d, g>>].pc # "tryStop"
    BY <1>2, <2>1 DEF StopInv, NilWasMet
  <2>3. CASE ~clientOpen
    BY <2>3 DEF Explained
  <2>4. CASE copier[<<d, g>>].pc = "copy" /\ isBTCAgent /\ copier[<<d, g>>].conn \notin openConns
    <3>1. copier[<<d, g>>].conn = serverConn
      BY <1>2, <2>1, <2>4 DEF Inv, CounterTellsConn
    <3> QED
      BY <2>4, <3>1 DEF Explained
  <2> QED
    BY <2>2, <2>3, <2>4 DEF CopierTryStop
<1>4. \A x \in Dirs \X Gens : copier'[x] = copier[x] \/ copier'[x].pc # "tryStop"
  BY <1>1, NoCopierIsState, CopierLeaves
<1> HIDE DEF cnt
<1> QED
  BY <1>1, <1>3, <1>4, TryStopStep

LEMMA CopierStartStops ==
    ASSUME Inv, StopInv, NEW d \in Dirs, NEW g \in Gens, CopierStart(d, g)
    PROVE  StopInv'
<1> DEFINE new == [NoCopier EXCEPT !.pc = "attach", !.cnt = reconnectCounter]
<1>1. Copier(d, g, new) /\ new.pc = "attach"
  BY DEF CopierStart, NoCopier
<1>2. UNCHANGED <<isBTCAgent, runningStat, locked, reconnectCounter, serverConn, stops,
                  openConns, clientOpen, events>>
  BY DEF CopierStart, OnlyCopier, statVars, connVars, stopVars, restVars
<1> HIDE DEF new
<1>3. \A x \in Dirs \X Gens : copier'[x] = copier[x] \/ copier'[x].pc # "tryStop"
  BY <1>1, CopierLeaves
<1> QED
  BY <1>2, <1>3, StopQuiet

LEMMA CopierTryReconnectStops ==
    ASSUME Inv, StopInv, NEW d \in Dirs, NEW g \in Gens, CopierTryReconnect(d, g)
    PROVE  StopInv'
<1> DEFINE new == IF d = "up" THEN [NoCopier EXCEPT !.pc = "resend"] ELSE NoCopier
<1>1. Copier(d, g, new) /\ new.pc \in {"none", "resend"}
  BY DEF CopierTryReconnect, NoCopier
<1>2. /\ TryReconnect(copier[<<d, g>>].cnt)
      /\ copier[<<d, g>>].cnt \in Gens
      /\ ~isBTCAgent
      /\ UNCHANGED <<isBTCAgent, stops, clientOpen, events>>
  BY CopierFacts DEF CopierTryReconnect, stopVars, restVars
<1> HIDE DEF new
<1>3. \A x \in Dirs \X Gens : copier'[x] = copier[x] \/ copier'[x].pc # "tryStop"
  BY <1>1, CopierLeaves
<1> QED
  BY <1>2, <1>3, TryReconnectStep

LEMMA ResendingStops ==
    ASSUME Inv, StopInv, NEW g \in Gens, Resending(g)
    PROVE  StopInv'
<1>1. PICK pc \in {"none", "write"} : Copier("up", g, [NoCopier EXCEPT !.pc = pc])
  BY DEF Resending, UpResend, UpWrite, NoCopier
<1>2. [NoCopier EXCEPT !.pc = pc].pc # "tryStop"
  BY DEF NoCopier
<1>3. UNCHANGED <<isBTCAgent, runningStat, locked, reconnectCounter, serverConn, stops,
                  openConns, clientOpen, events>>
  BY DEF Resending, UpResend, UpWrite, OnlyCopier, statVars, connVars, stopVars, restVars
<1>4. \A x \in Dirs \X Gens : copier'[x] = copier[x] \/ copier'[x].pc # "tryStop"
  BY <1>1, <1>2, DirAssumption, CopierLeaves
<1> QED
  BY <1>3, <1>4, StopQuiet

LEMMA ProxyingStops ==
    ASSUME Inv, StopInv, NEW g \in Gens, Proxying(g)
    PROVE  StopInv'
<1>1. UNCHANGED <<isBTCAgent, runningStat, locked, reconnectCounter, serverConn, stops,
                  openConns, clientOpen, events>>
  BY DEF Proxying, ProxyCheck, ProxyRegister, statVars, connVars, stopVars, restVars
<1>2. \A x \in Dirs \X Gens : copier'[x] = copier[x] \/ copier'[x].pc # "tryStop"
  BY DEF Proxying, ProxyCheck, ProxyRegister, StartGoroutines, NoCopier
<1> QED
  BY <1>1, <1>2, StopQuiet

-----------------------------------------------------------------------------
\* The coin watchers.
LEMMA WatchingStops ==
    ASSUME Inv, CoinInv, StopInv, NEW g \in Gens,
           Watching(g) \/ WatchGetW(g) \/ WatchGetWFails(g)
    PROVE  StopInv'
<1>1. CASE WatchTryStop(g)
  <2>1. /\ TryStop(watch[g].cnt)
        /\ UNCHANGED <<isBTCAgent, runningStat, locked, reconnectCounter, serverConn,
                       openConns, clientOpen, events, copier>>
    BY <1>1 DEF WatchTryStop, statVars, connVars, restVars
  <2>2. Explained
    <3>1. isBTCAgent /\ events["coin"] # 0 /\ events["coin"] \in Nat
      BY <1>1 DEF WatchTryStop, CoinInv, CoinTypes, WatcherCoin, Events
    <3> QED
      BY <3>1 DEF Explained
  <2> QED
    BY <2>1, <2>2, TryStopStep
<1>2. CASE WatchSwitch(g)
  <2>1. /\ TryReconnect(watch[g].cnt)
        /\ watch[g].pc = "lock"
        /\ UNCHANGED <<isBTCAgent, stops, clientOpen, events, copier>>
    BY <1>2 DEF WatchSwitch, stopVars, restVars
  <2>2. watch[g].cnt \in Gens /\ ~isBTCAgent
    BY <2>1 DEF Inv, Types, IsWatcher, CoinInv, WatcherCoin
  <2> QED
    BY <2>1, <2>2, TryReconnectStep
<1>3. CASE ~WatchTryStop(g) /\ ~WatchSwitch(g)
  <2>1. UNCHANGED <<isBTCAgent, runningStat, locked, reconnectCounter, serverConn, stops,
                    openConns, clientOpen, events, copier>>
    BY <1>3 DEF Watching, WatchStart, WatchLoad, WatchWake, WatchStore, WatchSetCoin,
       WatchGetW, WatchGetWFails, OnlyWatch, statVars, connVars, stopVars, restVars
  <2> QED
    BY <2>1, StopQuiet
<1> QED
  BY <1>1, <1>2, <1>3

LEMMA StoppingStops ==
    ASSUME Inv, StopInv, Stopping
    PROVE  StopInv'
<1>1. CASE StopEnter
  <2>1. runningStat' = "Stoped"
    BY <1>1 DEF StopEnter
  <2> QED
    BY <2>1 DEF StopInv, NilWasMet, Explained
<1>2. CASE ~StopEnter
  <2>1. UNCHANGED <<isBTCAgent, runningStat, locked, reconnectCounter, serverConn, stops,
                    openConns, clientOpen, events, copier>>
    BY <1>2 DEF Stopping, StopReleases, StopUnwatches, StopForgetsManager, OnlyStopper,
       statVars, connVars, restVars
  <2> QED
    BY <2>1, StopQuiet
<1> QED
  BY <1>1, <1>2

LEMMA EnvironmentStops ==
    ASSUME CoinInv, StopInv, Environment
    PROVE  StopInv'
<1>1. UNCHANGED <<isBTCAgent, runningStat, locked, reconnectCounter, serverConn, stops, copier>>
  BY DEF Environment, NodeWatcherRuns, CoinChanges, ServerCloses, ClientCloses,
     OnlyEnvironment, statVars, goVars, stopVars, restVars
<1>2. openConns' \subseteq openConns /\ (clientOpen' => clientOpen)
  BY DEF Environment, NodeWatcherRuns, CoinChanges, ServerCloses, ClientCloses
<1>3. events["coin"] > 0 => events'["coin"] > 0
  <2>1. events \in [Events -> Nat] /\ "coin" \in Events
    BY DEF CoinInv, CoinTypes, Events
  <2>2. ASSUME NEW e \in Events, events' = [events EXCEPT ![e] = @ + 1]
        PROVE  events["coin"] > 0 => events'["coin"] > 0
    BY <2>1, <2>2
  <2> QED
    BY <2>2 DEF Environment, NodeWatcherRuns, CoinChanges, ServerCloses, ClientCloses, Event,
       Events
<1> QED
  BY <1>1, <1>2, <1>3, StopQuiet

LEMMA NextStopInv ==
    ASSUME Inv, CoinInv, StopInv, [Next]_vars
    PROVE  StopInv'
<1>1. CASE UNCHANGED vars
  <2>1. UNCHANGED <<isBTCAgent, runningStat, locked, reconnectCounter, serverConn, stops,
                    openConns, clientOpen, events, copier>>
    BY <1>1 DEF vars, statVars, connVars, goVars, stopVars, restVars
  <2> QED
    BY <2>1, StopQuiet
<1>2. CASE CollectGarbage
  <2>1. UNCHANGED <<isBTCAgent, runningStat, locked, reconnectCounter, serverConn, stops,
                    openConns, clientOpen, events, copier>>
    BY <1>2 DEF CollectGarbage, statVars, connVars, goVars, stopVars, restVars
  <2> QED
    BY <2>1, StopQuiet
<1>3. CASE Panic
  <2>1. /\ stops' = 0
        /\ copier' = [x \in Dirs \X Gens |-> NoCopier]
        /\ UNCHANGED <<isBTCAgent, runningStat>>
    BY <1>3 DEF Panic
  <2> QED
    BY <2>1, NoCopierIsState DEF StopInv, NilWasMet
<1>4. ASSUME NEW g \in Gens, NEW d \in Dirs, Copying(d, g) \/ CopierTryReconnect(d, g)
      PROVE  StopInv'
  BY <1>4, CopierStartStops, CopierAttachStops, CopierTryStopStops, CopierTryReconnectStops
  DEF Copying
<1>5. CASE Session
  BY <1>3, <1>4, <1>5, ReconnectionStops, ProxyingStops, ResendingStops, WatchingStops,
     StoppingStops
  DEF Session
<1> QED
  BY <1>1, <1>2, <1>5, EnvironmentStops DEF Next

\* Stop is the only step that stops a session.
LEMMA StopsInStop ==
    ASSUME Next, runningStat # "Stoped", runningStat' = "Stoped"
    PROVE  stops > 0
<1>1. ~CollectGarbage /\ ~Environment /\ ~Reconnection /\ ~Panic
  BY DEF CollectGarbage, Environment, NodeWatcherRuns, CoinChanges, ServerCloses, ClientCloses,
     OnlyEnvironment, Reconnection, AttemptSucceeds, AttemptFails, Panic, statVars
<1>2. ASSUME NEW g \in Gens
      PROVE  ~Proxying(g) /\ ~Resending(g)
  BY DEF Proxying, ProxyCheck, ProxyRegister, Resending, UpResend, UpWrite, OnlyCopier, statVars
<1>3. ASSUME NEW cnt
      PROVE  ~TryReconnect(cnt)
  BY DEF TryReconnect, BeginReconnect, statVars
<1>4. ASSUME NEW g \in Gens, NEW d \in Dirs
      PROVE  ~Copying(d, g) /\ ~CopierTryReconnect(d, g)
  BY <1>3 DEF Copying, CopierStart, CopierAttach, CopierTryStop, CopierTryReconnect, OnlyCopier,
     statVars
<1>5. ASSUME NEW g \in Gens
      PROVE  ~Watching(g) /\ ~WatchGetW(g) /\ ~WatchGetWFails(g)
  BY <1>3 DEF Watching, WatchStart, WatchLoad, WatchWake, WatchStore, WatchTryStop, WatchSetCoin,
     WatchSwitch, WatchGetW, WatchGetWFails, OnlyWatch, statVars
<1>6. CASE Stopping
  BY <1>6 DEF Stopping, StopEnter, StopReleases, StopUnwatches, StopForgetsManager, OnlyStopper,
     statVars
<1> QED
  BY <1>1, <1>2, <1>4, <1>5, <1>6 DEF Next, Session

\* A session is stopped only for a reason that still holds when it is stopped,
\* however long ago the goroutine that stops it was sent: a goroutine that met a
\* nil connection, or saw a connection of an earlier generation fail, does not end
\* a session that works again.
THEOREM StoppedForAReason == Spec => StopJustified
<1>1. Inv /\ CoinInv /\ StopInv /\ [Next]_vars =>
        [runningStat # "Stoped" /\ runningStat' = "Stoped" =>
         \/ ~clientOpen
         \/ runningStat = "Reconnecting"
         \/ isBTCAgent /\ (serverConn \notin openConns \/ events["coin"] > 0)]_vars
  BY StopsInStop DEF StopInv, Explained
<1> QED
  BY <1>1, InitCoinInv, NextCoinInv, InitStopInv, NextStopInv, InvAlways, PTL
  DEF Spec, StopJustified

-----------------------------------------------------------------------------
\* The session and the ZooKeeper manager.  The state of the manager changes by
\* steps of the manager alone, so what the manager promises holds in the session.

\* The value that the watcher keeps is the node's, or an event is on its way.
CacheFresh == Path \in watcherMap => nodeValue[Path] = node[Path] \/ fired[Path] > 0

\* The session's channel came with the value that the watcher keeps.
ChannelOfWatcher ==
    channels[Path][Sid] # NoChan =>
        Path \in watcherMap /\ handed[channels[Path][Sid]] = nodeValue[Path]

RegistryInv ==
    /\ ZK!TypeOK
    /\ ZK!OneWatchPerPath
    /\ ZK!RegisteredIsOpen
    /\ CacheFresh
    /\ ChannelOfWatcher

LEMMA NoCoinIsNone == NoCoin \notin Coins /\ NoChan \notin Chans
BY CoinAssumption, ChanAssumption

LEMMA InitRegistryInv == Init => RegistryInv
<1> SUFFICES ASSUME Init PROVE RegistryInv
  OBVIOUS
<1>1. miningCoin \in Coins /\ zkWatchEvent \in Chans
  BY CoinAssumption, ChanAssumption DEF Init
<1>2. /\ node = [p \in {Path} |-> miningCoin]
      /\ armed = [p \in {Path} |-> 1]
      /\ fired = [p \in {Path} |-> 0]
      /\ watcherMap = {Path}
      /\ nodeValue = node
      /\ channels = [p \in {Path} |-> [sid \in {Sid} |-> zkWatchEvent]]
      /\ chan = [c \in Chans |-> IF c = zkWatchEvent THEN "open" ELSE "free"]
      /\ handed = [c \in Chans |-> IF c = zkWatchEvent THEN miningCoin ELSE NoCoin]
  BY DEF Init
<1>3. ZK!TypeOK
  BY <1>1, <1>2 DEF ZK!TypeOK
<1>4. ZK!OneWatchPerPath /\ ZK!RegisteredIsOpen
  BY <1>1, <1>2 DEF ZK!OneWatchPerPath, ZK!RegisteredIsOpen
<1>5. CacheFresh /\ ChannelOfWatcher
  BY <1>1, <1>2 DEF CacheFresh, ChannelOfWatcher
<1> QED
  BY <1>3, <1>4, <1>5 DEF RegistryInv

\* A registered channel is open and the only one, and every other is not
\* registered.
LEMMA RegistryFacts ==
    ASSUME RegistryInv
    PROVE  /\ channels \in [{Path} -> [{Sid} -> Chans \union {NoChan}]]
           /\ channels[Path][Sid] \in Chans \union {NoChan}
           /\ channels[Path][Sid] # NoChan => chan[channels[Path][Sid]] = "open"
           /\ chan \in [Chans -> {"free", "open", "closed"}]
           /\ armed[Path] \in Nat /\ fired[Path] \in Nat
           /\ armed[Path] + fired[Path] = IF Path \in watcherMap THEN 1 ELSE 0
BY DEF RegistryInv, ZK!TypeOK, ZK!OneWatchPerPath, ZK!RegisteredIsOpen

LEMMA GetWRegistry ==
    ASSUME RegistryInv, NEW c \in Chans, ZK!GetW(Path, Sid, c)
    PROVE  RegistryInv'
<1>1. /\ chan[c] = "free"
      /\ channels' = [channels EXCEPT ![Path][Sid] = c]
      /\ chan' = [chan EXCEPT ![c] = "open"]
      /\ handed' = [handed EXCEPT ![c] = nodeValue'[Path]]
      /\ node' = node /\ fired' = fired
  BY DEF ZK!GetW, ZK!RegisterChannel
<1>2. channels'[Path][Sid] = c /\ channels' \in [{Path} -> [{Sid} -> Chans \union {NoChan}]]
  BY <1>1, RegistryFacts
<1>3. /\ watcherMap' = {Path}
      /\ nodeValue' \in [{Path} -> Coins \union {NoCoin}]
      /\ armed' \in [{Path} -> Nat]
      /\ armed'[Path] + fired[Path] = 1
      /\ nodeValue'[Path] = node[Path] \/ fired[Path] > 0
      /\ nodeValue'[Path] \in Coins
  <2>1. CASE Path \in watcherMap
    BY <2>1 DEF ZK!GetW, RegistryInv, ZK!TypeOK, ZK!OneWatchPerPath, CacheFresh
  <2>2. CASE Path \notin watcherMap
    <3>1. /\ node[Path] # NoCoin
          /\ watcherMap' = watcherMap \union {Path}
          /\ nodeValue' = [nodeValue EXCEPT ![Path] = node[Path]]
          /\ armed' = [armed EXCEPT ![Path] = @ + 1]
      BY <2>2 DEF ZK!GetW, ZK!ReadAndWatch
    <3>2. armed[Path] = 0 /\ fired[Path] = 0
      BY <2>2, RegistryFacts
    <3> QED
      BY <2>2, <3>1, <3>2 DEF RegistryInv, ZK!TypeOK
  <2> QED
    BY <2>1, <2>2
<1>4. ZK!TypeOK'
  BY <1>1, <1>2, <1>3 DEF RegistryInv, ZK!TypeOK
<1>5. ZK!OneWatchPerPath'
  BY <1>1, <1>3 DEF ZK!OneWatchPerPath
<1>6. ZK!RegisteredIsOpen' /\ CacheFresh' /\ ChannelOfWatcher'
  BY <1>1, <1>2, <1>3 DEF RegistryInv, ZK!TypeOK, ZK!RegisteredIsOpen, CacheFresh, ChannelOfWatcher
<1> QED
  BY <1>4, <1>5, <1>6 DEF RegistryInv

LEMMA ReleaseWRegistry ==
    ASSUME RegistryInv, ZK!ReleaseW(Path, Sid)
    PROVE  RegistryInv'
<1>1. /\ channels[Path][Sid] \in Chans
      /\ chan' = [chan EXCEPT ![channels[Path][Sid]] = "closed"]
      /\ channels' = [channels EXCEPT ![Path][Sid] = NoChan]
      /\ UNCHANGED <<node, armed, fired, watcherMap, nodeValue, handed>>
  BY RegistryFacts DEF ZK!ReleaseW, ZK!zkVars
<1>2. channels'[Path][Sid] = NoChan /\ channels' \in [{Path} -> [{Sid} -> Chans \union {NoChan}]]
  BY <1>1, RegistryFacts
<1>3. ZK!TypeOK'
  BY <1>1, <1>2 DEF RegistryInv, ZK!TypeOK
<1> QED
  BY <1>1, <1>2, <1>3
  DEF RegistryInv, ZK!OneWatchPerPath, ZK!RegisteredIsOpen, CacheFresh, ChannelOfWatcher

LEMMA DispatchRegistry ==
    ASSUME RegistryInv, ZK!Dispatch(Path)
    PROVE  RegistryInv'
<1>1. /\ fired[Path] > 0
      /\ fired' = [fired EXCEPT ![Path] = @ - 1]
      /\ chan' = [c \in Chans |->
                    IF \E sid \in {Sid} : channels[Path][sid] = c THEN "closed" ELSE chan[c]]
      /\ channels' = [channels EXCEPT ![Path] = [sid \in {Sid} |-> NoChan]]
      /\ watcherMap' = watcherMap \ {Path}
      /\ UNCHANGED <<node, armed, nodeValue, handed>>
  BY DEF ZK!Dispatch
<1>2. armed[Path] = 0 /\ fired[Path] = 1
  BY <1>1, RegistryFacts
<1>3. /\ channels'[Path][Sid] = NoChan
      /\ channels' \in [{Path} -> [{Sid} -> Chans \union {NoChan}]]
  BY <1>1, RegistryFacts
<1>4. chan' \in [Chans -> {"free", "open", "closed"}]
  BY <1>1, RegistryFacts
<1>5. fired' \in [{Path} -> Nat] /\ fired'[Path] = 0 /\ Path \notin watcherMap'
  BY <1>1, <1>2 DEF RegistryInv, ZK!TypeOK
<1>6. ZK!TypeOK'
  BY <1>1, <1>3, <1>4, <1>5 DEF RegistryInv, ZK!TypeOK
<1>7. ZK!OneWatchPerPath'
  BY <1>1, <1>2, <1>5 DEF ZK!OneWatchPerPath
<1> QED
  BY <1>3, <1>5, <1>6, <1>7 DEF RegistryInv, ZK!RegisteredIsOpen, CacheFresh, ChannelOfWatcher

LEMMA DiscardRegistry ==
    ASSUME RegistryInv, NEW c \in Chans, ZK!Discard(c)
    PROVE  RegistryInv'
<1>1. /\ chan' = [chan EXCEPT ![c] = "free"]
      /\ handed' = [handed EXCEPT ![c] = NoCoin]
      /\ UNCHANGED <<node, armed, fired, watcherMap, nodeValue, channels>>
  BY DEF ZK!Discard, ZK!zkVars
<1>2. channels[Path][Sid] # c
  BY DEF ZK!Discard, ZK!Registered
<1>3. ZK!TypeOK'
  BY <1>1 DEF RegistryInv, ZK!TypeOK
<1>4. ZK!OneWatchPerPath' /\ CacheFresh'
  BY <1>1 DEF RegistryInv, ZK!OneWatchPerPath, CacheFresh
<1>5. ZK!RegisteredIsOpen'
  BY <1>1, <1>2 DEF RegistryInv, ZK!TypeOK, ZK!RegisteredIsOpen
<1>6. ChannelOfWatcher'
  BY <1>1, <1>2, RegistryFacts DEF RegistryInv, ZK!TypeOK, ChannelOfWatcher
<1> QED
  BY <1>3, <1>4, <1>5, <1>6 DEF RegistryInv

LEMMA FireRegistry ==
    ASSUME RegistryInv, ZK!Fire(Path), node' \in [{Path} -> Coins \union {NoCoin}],
           UNCHANGED <<watcherMap, nodeValue, channels, chan, handed>>
    PROVE  RegistryInv'
<1>1. /\ fired' = [fired EXCEPT ![Path] = @ + armed[Path]]
      /\ armed' = [armed EXCEPT ![Path] = 0]
  BY DEF ZK!Fire
<1>2. /\ armed' \in [{Path} -> Nat] /\ fired' \in [{Path} -> Nat]
      /\ armed'[Path] = 0 /\ fired'[Path] = armed[Path] + fired[Path]
  BY <1>1 DEF RegistryInv, ZK!TypeOK
<1>3. ZK!TypeOK'
  BY <1>2 DEF RegistryInv, ZK!TypeOK
<1>4. ZK!OneWatchPerPath' /\ CacheFresh'
  BY <1>2, RegistryFacts DEF RegistryInv, ZK!OneWatchPerPath, CacheFresh
<1> QED
  BY <1>3, <1>4 DEF RegistryInv, ZK!RegisteredIsOpen, ChannelOfWatcher

LEMMA RegistryStep ==
    ASSUME RegistryInv, [ZK!Next]_zkVars
    PROVE  RegistryInv'
<1>1. ASSUME NEW v \in Coins \union {NoCoin}, ZK!SetNode(Path, v)
      PROVE  RegistryInv'
  <2>1. node' \in [{Path} -> Coins \union {NoCoin}]
    BY <1>1 DEF ZK!SetNode, RegistryInv, ZK!TypeOK
  <2> QED
    BY <1>1, <2>1, FireRegistry DEF ZK!SetNode
<1>2. ASSUME ZK!LoseWatches(Path)
      PROVE  RegistryInv'
  BY <1>2, FireRegistry DEF ZK!LoseWatches, RegistryInv, ZK!TypeOK
<1>3. CASE UNCHANGED zkVars
  BY <1>3 DEF zkVars, RegistryInv, ZK!TypeOK, ZK!OneWatchPerPath, ZK!RegisteredIsOpen,
     CacheFresh, ChannelOfWatcher
<1> QED
  BY <1>1, <1>2, <1>3, GetWRegistry, ReleaseWRegistry, DispatchRegistry, DiscardRegistry
  DEF ZK!Next

\* What each step of the session is to the manager.
LEMMA UnwatchIsRelease == Unwatch => [ZK!Next]_zkVars
BY DEF Unwatch, ZK!Next

LEMMA TryReconnectIsRelease ==
    ASSUME NEW cnt, TryReconnect(cnt)
    PROVE  [ZK!Next]_zkVars
BY UnwatchIsRelease DEF TryReconnect, BeginReconnect

LEMMA SessionStepsRegistry ==
    ASSUME Next
    PROVE  [ZK!Next]_zkVars
<1>1. CASE CollectGarbage
  <2>1. PICK c \in Garbage : ZK!Discard(c)
    BY <1>1 DEF CollectGarbage
  <2>2. c \in Chans
    BY DEF Garbage
  <2> QED
    BY <2>1, <2>2 DEF ZK!Next
<1>2. CASE Environment
  BY <1>2 DEF Environment, NodeWatcherRuns, CoinChanges, ServerCloses, ClientCloses, ZK!Next
<1>3. CASE Reconnection \/ Panic
  BY <1>3 DEF Reconnection, AttemptSucceeds, AttemptFails, Panic
<1>4. CASE Stopping
  BY <1>4, UnwatchIsRelease
  DEF Stopping, StopEnter, OnlyStopEnter, StopReleases, StopUnwatches, StopForgetsManager
<1>5. ASSUME NEW g \in Gens, Proxying(g) \/ Resending(g)
      PROVE  [ZK!Next]_zkVars
  BY <1>5 DEF Proxying, ProxyCheck, ProxyRegister, Resending, UpResend, UpWrite, OnlyCopier
<1>6. ASSUME NEW g \in Gens, NEW d \in Dirs, Copying(d, g) \/ CopierTryReconnect(d, g)
      PROVE  [ZK!Next]_zkVars
  BY <1>6, TryReconnectIsRelease
  DEF Copying, CopierStart, CopierAttach, CopierTryStop, CopierTryReconnect, OnlyCopier
<1>7. ASSUME NEW g \in Gens, WatchGetW(g)
      PROVE  [ZK!Next]_zkVars
  <2>1. PICK c \in Chans : ZK!GetW(Path, Sid, c)
    BY <1>7 DEF WatchGetW
  <2> QED
    BY <2>1 DEF ZK!Next
<1>8. ASSUME NEW g \in Gens, Watching(g) \/ WatchGetWFails(g)
      PROVE  [ZK!Next]_zkVars
  BY <1>8, TryReconnectIsRelease
  DEF Watching, WatchStart, WatchLoad, WatchWake, WatchStore, WatchTryStop, WatchSetCoin,
      WatchSwitch, WatchGetWFails, OnlyWatch
<1> QED
  BY <1>1, <1>2, <1>3, <1>4, <1>5, <1>6, <1>7, <1>8 DEF Next, Session

\* Whatever the goroutines of the session, of its reconnections and of Stop do,
\* they do to the registry of watches what GetW, ReleaseW and the NodeWatcher do:
\* the manager of ZookeeperManager takes every step.
THEOREM SessionImplementsRegistry == Spec => [][ZK!Next]_zkVars
<1>1. [Next]_vars => [ZK!Next]_zkVars
  BY SessionStepsRegistry DEF vars
<1> QED
  BY <1>1, PTL DEF Spec

\* So a session has what the manager promises: its channel is open and tells it of
\* every change of the coin since the one it was handed, although it registers,
\* releases and replaces channels from goroutines that race with each other.
THEOREM RegistryInSession ==
    Spec => [](ZK!TypeOK /\ ZK!NoLostUpdate /\ ZK!RegisteredIsOpen /\ ZK!OneWatchPerPath)
<1>1. [Next]_vars => [ZK!Next]_zkVars
  BY SessionStepsRegistry DEF vars
<1>2. RegistryInv =>
        ZK!TypeOK /\ ZK!NoLostUpdate /\ ZK!RegisteredIsOpen /\ ZK!OneWatchPerPath
  BY RegistryFacts DEF RegistryInv, ZK!NoLostUpdate, CacheFresh, ChannelOfWatcher
<1> QED
  BY <1>1, <1>2, InitRegistryInv, RegistryStep, PTL DEF Spec

-----------------------------------------------------------------------------
\* What a session keeps as long as its servers keep their connections.  Then a
\* generation ends only through its coin watcher, and whatever another goroutine
\* reads without the lock is the current watcher's own.
Watcher == watch[reconnectCounter]

NotStarted(p) == p \in {"check", "register"}

\* Only the current generation has a watcher, or is about to have one, and during
\* a reconnection none has.
OnlyCurrent ==
    /\ \A g \in Gens :
        g # reconnectCounter \/ runningStat = "Reconnecting" =>
            ~NotStarted(proxy[g]) /\ watch[g].pc = "none"
    /\ Watcher.pc \notin {"none", "start"} => Watcher.cnt = reconnectCounter
    /\ NotStarted(proxy[reconnectCounter]) => Watcher.pc = "none"

\* The session is connected to the server of its coin, except while the watcher
\* that has changed the coin waits for the lock.
ConnFits ==
    /\ DOMAIN connCoin = Gens
    /\ runningStat = "Running" => serverConn \in openConns
    /\ runningStat = "Running" /\ Watcher.pc # "lock" => connCoin[serverConn] = miningCoin
    /\ locked => dialing = miningCoin

\* Somebody who waits for the channel is woken, or will be.
Heard(c) == chan[c] = "closed" \/ channels[Path][Sid] = c

\* The session's channel is heard, and so is the one that its watcher is about to
\* store in its place.
ChannelsHeard ==
    /\ Heard(zkWatchEvent)
    /\ Watcher.pc = "store" => Heard(Watcher.ch) /\ Watcher.ch # zkWatchEvent
    /\ Watcher.pc \in {"wait", "switch"} => Watcher.ch = zkWatchEvent
    /\ Watcher.pc \in {"getw", "store"} => chan[zkWatchEvent] = "closed"
    /\ \/ channels[Path][Sid] \in {NoChan, zkWatchEvent}
       \/ Watcher.pc = "store" /\ channels[Path][Sid] = Watcher.ch

\* The coin that came with the session's channel is the session's, or one without
\* a server, unless the watcher is about to act on it or has ended.
CoinKnown == handed[zkWatchEvent] \in {miningCoin} \union (Coins \ ServerCoins)

KnownWhenNeeded ==
    \/ locked
    \/ NotStarted(proxy[reconnectCounter])
    \/ Watcher.pc \in {"start", "load", "wait", "getw", "store", "lock"}
    => CoinKnown

FollowInv == OnlyCurrent /\ ConnFits /\ ChannelsHeard /\ KnownWhenNeeded

\* The channels in use: that of the session and that of the watcher.
InUse(c) == c = zkWatchEvent \/ (Watcher.pc = "store" /\ c = Watcher.ch)

\* The manager changes nothing of a channel in use but to close it.
KeepsChannels ==
    /\ channels'[Path][Sid] \in {NoChan, channels[Path][Sid]}
    /\ \A c \in Chans : InUse(c) =>
        /\ handed'[c] = handed[c]
        /\ chan[c] = "closed" => chan'[c] = "closed"
        /\ Heard(c) => Heard(c)'

LEMMA InitFollowInv == Init => FollowInv
<1> SUFFICES ASSUME Init PROVE FollowInv
  OBVIOUS
<1>1. miningCoin \in Coins /\ zkWatchEvent \in Chans /\ 0 \in Gens
  BY CoinAssumption, ChanAssumption, GensAreNat DEF Init
<1>2. Watcher.pc = "none" /\ reconnectCounter = 0
  BY <1>1 DEF Init, Watcher, NoWatch
<1>3. OnlyCurrent /\ ConnFits
  BY <1>1, <1>2 DEF Init, OnlyCurrent, NotStarted, ConnFits, NoWatch
<1>4. ChannelsHeard /\ KnownWhenNeeded
  BY <1>1, <1>2 DEF Init, ChannelsHeard, Heard, KnownWhenNeeded, CoinKnown
<1> QED
  BY <1>3, <1>4 DEF FollowInv

\* A watcher that is under way is the current one, and nobody holds the lock.
LEMMA WatcherIsCurrent ==
    ASSUME Inv, FollowInv, NEW g \in Gens, watch[g].pc # "none"
    PROVE  /\ g = reconnectCounter /\ Watcher = watch[g]
           /\ runningStat # "Reconnecting" /\ ~locked
           /\ ~NotStarted(proxy[g])
           /\ watch[g].pc # "start" => watch[g].cnt = reconnectCounter
BY DEF FollowInv, OnlyCurrent, Watcher, Inv, LockHeld, NotStarted

\* Its steps leave the other watchers alone.
LEMMA CurrentWatcherStep ==
    ASSUME Inv, FollowInv, NEW g \in Gens, watch[g].pc # "none", NEW new, Watch(g, new),
           reconnectCounter' = reconnectCounter
    PROVE  /\ Watcher' = new
           /\ \A h \in Gens : h # g => watch'[h].pc = "none"
<1>1. g = reconnectCounter
  BY WatcherIsCurrent
<1>2. \A h \in Gens : watch'[h] = IF h = g THEN new ELSE watch[h]
  BY DEF Watch, Inv, Types
<1>3. \A h \in Gens : h # g => watch[h].pc = "none"
  BY <1>1 DEF FollowInv, OnlyCurrent
<1> QED
  BY <1>1, <1>2, <1>3 DEF Watcher

\* A step that leaves the session's fields and goroutines alone, and closes
\* channels at most.
LEMMA FollowQuiet ==
    ASSUME Inv, CoinInv, FollowInv, KeepsChannels,
           UNCHANGED <<runningStat, reconnectCounter, locked, dialing, serverConn, connCoin,
                       proxy, watch, coinVars>>,
           serverConn \in openConns => serverConn \in openConns'
    PROVE  FollowInv'
<1>1. Watcher' = Watcher /\ miningCoin' = miningCoin /\ zkWatchEvent' = zkWatchEvent
  BY DEF Watcher, coinVars
<1>2. zkWatchEvent \in Chans /\ (Watcher.pc = "store" => Watcher.ch \in Chans)
  BY DEF CoinInv, CoinTypes, WatcherCoin, Inv, Types, Watcher
<1>3. OnlyCurrent' /\ ConnFits'
  BY <1>1 DEF FollowInv, OnlyCurrent, ConnFits
<1>4. /\ handed'[zkWatchEvent] = handed[zkWatchEvent]
      /\ chan[zkWatchEvent] = "closed" => chan'[zkWatchEvent] = "closed"
      /\ Heard(zkWatchEvent) => Heard(zkWatchEvent)'
      /\ Watcher.pc = "store" => (Heard(Watcher.ch) => Heard(Watcher.ch)')
  BY <1>1, <1>2 DEF KeepsChannels, InUse
<1>5. ChannelsHeard'
  BY <1>1, <1>4 DEF KeepsChannels, FollowInv, ChannelsHeard
<1>6. KnownWhenNeeded'
  BY <1>1, <1>4 DEF FollowInv, KnownWhenNeeded, CoinKnown
<1> QED
  BY <1>3, <1>5, <1>6 DEF FollowInv

\* The steps of the manager that the session or ZooKeeper cause, other than GetW.
LEMMA SameRegistryKeeps ==
    ASSUME UNCHANGED <<channels, chan, handed, coinVars>>,
           Watcher' = Watcher
    PROVE  KeepsChannels
BY DEF KeepsChannels, Heard

LEMMA UnwatchKeepsChannels ==
    ASSUME RegistryInv, Unwatch
    PROVE  KeepsChannels
<1>1. CASE channels[Path][Sid] = NoChan
  BY <1>1 DEF Unwatch, zkVars, KeepsChannels, Heard
<1>2. CASE channels[Path][Sid] # NoChan
  <2>1. /\ channels[Path][Sid] \in Chans
        /\ chan' = [chan EXCEPT ![channels[Path][Sid]] = "closed"]
        /\ channels' = [channels EXCEPT ![Path][Sid] = NoChan]
        /\ handed' = handed
    BY <1>2, RegistryFacts DEF Unwatch, ZK!ReleaseW
  <2>2. channels'[Path][Sid] = NoChan
    BY <2>1, RegistryFacts
  <2>3. \A c \in Chans : chan'[c] = IF c = channels[Path][Sid] THEN "closed" ELSE chan[c]
    BY <2>1, RegistryFacts
  <2> QED
    BY <2>1, <2>2, <2>3 DEF KeepsChannels, Heard
<1> QED
  BY <1>1, <1>2

LEMMA DispatchKeepsChannels ==
    ASSUME RegistryInv, ZK!Dispatch(Path)
    PROVE  KeepsChannels
<1>1. /\ chan' = [c \in Chans |->
                    IF \E sid \in {Sid} : channels[Path][sid] = c THEN "closed" ELSE chan[c]]
      /\ channels' = [channels EXCEPT ![Path] = [sid \in {Sid} |-> NoChan]]
      /\ handed' = handed
  BY DEF ZK!Dispatch
<1>2. channels'[Path][Sid] = NoChan
  BY <1>1, RegistryFacts
<1>3. \A c \in Chans : chan'[c] = IF channels[Path][Sid] = c THEN "closed" ELSE chan[c]
  BY <1>1
<1> QED
  BY <1>1, <1>2, <1>3 DEF KeepsChannels, Heard

LEMMA GarbageKeepsChannels ==
    ASSUME Inv, RegistryInv, CoinInv, NEW c \in Garbage, ZK!Discard(c)
    PROVE  KeepsChannels
<1>1. /\ chan' = [chan EXCEPT ![c] = "free"]
      /\ handed' = [handed EXCEPT ![c] = NoCoin]
      /\ channels' = channels
  BY DEF ZK!Discard
<1>2. \A b \in Chans : InUse(b) => b # c
  BY DEF Garbage, InUse, Watcher, Inv, Types
<1>3. \A b \in Chans : b # c => chan'[b] = chan[b] /\ handed'[b] = handed[b]
  BY <1>1, RegistryFacts DEF CoinInv, CoinTypes
<1> QED
  BY <1>1, <1>2, <1>3 DEF KeepsChannels, Heard

\* The reconnection.
LEMMA AttemptSucceedsFollows ==
    ASSUME Inv, FollowInv, AttemptSucceeds
    PROVE  FollowInv'
<1>1. /\ locked /\ runningStat = "Reconnecting" /\ reconnectCounter \in Gens
      /\ reconnectCounter' = reconnectCounter /\ watch' = watch
      /\ runningStat' = "Running" /\ locked' = FALSE
      /\ serverConn' = reconnectCounter /\ dialing = miningCoin
      /\ openConns' = openConns \union {reconnectCounter}
      /\ connCoin' = [connCoin EXCEPT ![reconnectCounter] = dialing]
      /\ proxy' = [proxy EXCEPT ![reconnectCounter] = "check"]
      /\ UNCHANGED <<channels, chan, handed, zkWatchEvent, miningCoin>>
  BY DEF AttemptSucceeds, Inv, Types, LockHeld, FollowInv, ConnFits, zkVars, coinVars
<1>2. Watcher.pc = "none" /\ Watcher' = Watcher
  BY <1>1 DEF FollowInv, OnlyCurrent, Watcher
<1>3. OnlyCurrent'
  <2>1. ASSUME NEW g \in Gens, g # reconnectCounter
        PROVE  ~NotStarted(proxy'[g]) /\ watch'[g].pc = "none"
    <3>1. proxy'[g] = proxy[g]
      BY <1>1, <2>1 DEF Inv, Types
    <3> QED
      BY <1>1, <2>1, <3>1 DEF FollowInv, OnlyCurrent
  <2> QED
    BY <1>1, <1>2, <2>1 DEF OnlyCurrent
<1>4. ConnFits'
  <2>1. DOMAIN connCoin = Gens
    BY DEF FollowInv, ConnFits
  <2> QED
    BY <1>1, <2>1 DEF ConnFits
<1>5. ChannelsHeard'
  BY <1>1, <1>2 DEF FollowInv, ChannelsHeard, Heard
<1>6. KnownWhenNeeded'
  BY <1>1 DEF FollowInv, KnownWhenNeeded, CoinKnown
<1> QED
  BY <1>3, <1>4, <1>5, <1>6 DEF FollowInv

LEMMA AttemptFailsFollows ==
    ASSUME FollowInv, AttemptFails
    PROVE  FollowInv'
<1>1. /\ locked
      /\ UNCHANGED <<runningStat, reconnectCounter, proxy, watch, connCoin, serverConn, openConns,
                     channels, chan, handed, zkWatchEvent, miningCoin>>
      /\ locked' => dialing' = miningCoin
  BY DEF AttemptFails, connVars, zkVars, coinVars, FollowInv, ConnFits
<1>2. Watcher' = Watcher
  BY <1>1 DEF Watcher
<1>3. OnlyCurrent' /\ ConnFits'
  BY <1>1, <1>2 DEF FollowInv, OnlyCurrent, ConnFits
<1>4. ChannelsHeard'
  BY <1>1, <1>2 DEF FollowInv, ChannelsHeard, Heard
<1>5. KnownWhenNeeded'
  BY <1>1, <1>2 DEF FollowInv, KnownWhenNeeded, CoinKnown
<1> QED
  BY <1>3, <1>4, <1>5 DEF FollowInv

\* proxyStratum.
LEMMA ProxyCheckFollows ==
    ASSUME Inv, FollowInv, NEW g \in Gens, ProxyCheck(g)
    PROVE  FollowInv'
<1>1. /\ proxy[g] = "check"
      /\ \A h \in Gens : proxy'[h] = IF h = g THEN proxy'[g] ELSE proxy[h]
      /\ UNCHANGED <<runningStat, reconnectCounter, locked, dialing, watch, connCoin, serverConn,
                     openConns, channels, chan, handed, zkWatchEvent, miningCoin>>
  BY DEF ProxyCheck, Inv, Types, statVars, connVars, zkVars, coinVars
<1>2. g = reconnectCounter /\ runningStat # "Reconnecting"
  BY <1>1 DEF FollowInv, OnlyCurrent, NotStarted
<1>3. Watcher.pc = "none" /\ Watcher' = Watcher
  BY <1>1, <1>2 DEF FollowInv, OnlyCurrent, NotStarted, Watcher
<1>4. OnlyCurrent' /\ ConnFits'
  BY <1>1, <1>2, <1>3 DEF FollowInv, OnlyCurrent, ConnFits
<1>5. ChannelsHeard'
  BY <1>1, <1>3 DEF FollowInv, ChannelsHeard, Heard
<1>6. KnownWhenNeeded'
  BY <1>1, <1>2 DEF FollowInv, KnownWhenNeeded, CoinKnown, NotStarted
<1> QED
  BY <1>4, <1>5, <1>6 DEF FollowInv

LEMMA ProxyRegisterFollows ==
    ASSUME Inv, FollowInv, NEW g \in Gens, ProxyRegister(g)
    PROVE  FollowInv'
<1>1. /\ proxy[g] = "register"
      /\ proxy' = [proxy EXCEPT ![g] = "done"]
      /\ watch' = [watch EXCEPT ![g].pc = "start"]
      /\ UNCHANGED <<runningStat, reconnectCounter, locked, dialing, connCoin, serverConn,
                     openConns, channels, chan, handed, zkWatchEvent, miningCoin>>
  BY DEF ProxyRegister, StartGoroutines, statVars, connVars, zkVars, coinVars
<1>2. g = reconnectCounter /\ runningStat # "Reconnecting" /\ Watcher.pc = "none"
  BY <1>1 DEF FollowInv, OnlyCurrent, NotStarted
<1>3. /\ \A h \in Gens : h # g => watch'[h] = watch[h] /\ proxy'[h] = proxy[h]
      /\ proxy'[g] = "done" /\ watch'[g].pc = "start"
  BY <1>1 DEF Inv, Types, IsWatcher
<1>4. Watcher'.pc = "start"
  BY <1>1, <1>2, <1>3 DEF Watcher
<1>5. OnlyCurrent'
  BY <1>1, <1>2, <1>3, <1>4 DEF FollowInv, OnlyCurrent, NotStarted
<1>6. ConnFits'
  BY <1>1, <1>2, <1>4 DEF FollowInv, ConnFits
<1>7. ChannelsHeard'
  BY <1>1, <1>2, <1>4 DEF FollowInv, ChannelsHeard, Heard
<1>8. KnownWhenNeeded'
  BY <1>1, <1>2 DEF FollowInv, KnownWhenNeeded, CoinKnown, NotStarted
<1> QED
  BY <1>5, <1>6, <1>7, <1>8 DEF FollowInv

\* The watcher's own steps that leave the manager and the connections alone.
LEMMA WatcherStepFollows ==
    ASSUME Inv, FollowInv, NEW g \in Gens, watch[g].pc # "none", NEW new, Watch(g, new),
           UNCHANGED <<runningStat, reconnectCounter, locked, dialing, serverConn, openConns,
                       connCoin, proxy>>,
           new.pc \notin {"none", "start"} => new.cnt = reconnectCounter,
           \/ new.pc = "lock"
           \/ UNCHANGED miningCoin /\ watch[g].pc # "lock"
           \/ runningStat # "Running"
    PROVE  OnlyCurrent' /\ ConnFits'
<1>1. /\ g = reconnectCounter /\ Watcher = watch[g] /\ ~locked /\ ~NotStarted(proxy[g])
      /\ runningStat # "Reconnecting"
  BY WatcherIsCurrent
<1>2. Watcher' = new /\ \A h \in Gens : h # g => watch'[h].pc = "none"
  BY CurrentWatcherStep
<1>3. OnlyCurrent'
  BY <1>1, <1>2 DEF FollowInv, OnlyCurrent
<1>4. ConnFits'
  BY <1>1, <1>2 DEF FollowInv, ConnFits
<1> QED
  BY <1>3, <1>4

LEMMA WatchStartFollows ==
    ASSUME Inv, FollowInv, NEW g \in Gens, WatchStart(g)
    PROVE  FollowInv'
<1> DEFINE new == [NoWatch EXCEPT !.pc = "load", !.cnt = reconnectCounter]
<1>1. /\ watch[g].pc = "start" /\ Watch(g, new)
      /\ new.pc = "load" /\ new.cnt = reconnectCounter
      /\ UNCHANGED <<runningStat, reconnectCounter, locked, dialing, serverConn, openConns,
                     connCoin, proxy, channels, chan, handed, zkWatchEvent, miningCoin>>
  BY DEF WatchStart, OnlyWatch, NoWatch, statVars, connVars, zkVars, coinVars
<1> HIDE DEF new
<1>2. OnlyCurrent' /\ ConnFits'
  BY <1>1, WatcherStepFollows
<1>3. Watcher' = new /\ Watcher = watch[g]
  BY <1>1, CurrentWatcherStep, WatcherIsCurrent
<1>4. ChannelsHeard' /\ KnownWhenNeeded'
  BY <1>1, <1>3 DEF FollowInv, ChannelsHeard, Heard, KnownWhenNeeded, CoinKnown
<1> QED
  BY <1>2, <1>4 DEF FollowInv

LEMMA WatchLoadFollows ==
    ASSUME Inv, FollowInv, NEW g \in Gens, WatchLoad(g)
    PROVE  FollowInv'
<1> DEFINE new == [watch[g] EXCEPT !.pc = "wait", !.ch = zkWatchEvent]
<1>1. /\ watch[g].pc = "load" /\ Watch(g, new)
      /\ UNCHANGED <<runningStat, reconnectCounter, locked, dialing, serverConn, openConns,
                     connCoin, proxy, channels, chan, handed, zkWatchEvent, miningCoin>>
  BY DEF WatchLoad, OnlyWatch, statVars, connVars, zkVars, coinVars
<1>2. new.pc = "wait" /\ new.cnt = watch[g].cnt /\ new.ch = zkWatchEvent
  BY <1>1, WatchFacts DEF IsWatcher
<1> HIDE DEF new
<1>3. Watcher' = new /\ Watcher = watch[g] /\ watch[g].cnt = reconnectCounter
  BY <1>1, CurrentWatcherStep, WatcherIsCurrent
<1>4. OnlyCurrent' /\ ConnFits'
  BY <1>1, <1>2, <1>3, WatcherStepFollows
<1>5. ChannelsHeard' /\ KnownWhenNeeded'
  BY <1>1, <1>2, <1>3 DEF FollowInv, ChannelsHeard, Heard, KnownWhenNeeded, CoinKnown
<1> QED
  BY <1>4, <1>5 DEF FollowInv

LEMMA WatchWakeFollows ==
    ASSUME Inv, FollowInv, NEW g \in Gens, WatchWake(g)
    PROVE  FollowInv'
<1> DEFINE again == [watch[g] EXCEPT !.pc = "getw", !.ch = NoChan]
           goesOn == runningStat # "Stoped" /\ watch[g].cnt = reconnectCounter
           new == IF goesOn THEN again ELSE NoWatch
<1>1. /\ watch[g].pc = "wait" /\ Watch(g, new) /\ chan[watch[g].ch] = "closed"
      /\ UNCHANGED <<runningStat, reconnectCounter, locked, dialing, serverConn, openConns,
                     connCoin, proxy, channels, chan, handed, zkWatchEvent, miningCoin>>
  BY DEF WatchWake, OnlyWatch, statVars, connVars, zkVars, coinVars
<1>2. again.pc = "getw" /\ again.cnt = watch[g].cnt
  BY <1>1, WatchFacts DEF IsWatcher
<1> HIDE DEF again, goesOn
<1>3. new = again \/ new.pc = "none"
  BY NoWatchIsWatcher
<1> HIDE DEF new
<1>4. Watcher' = new /\ Watcher = watch[g] /\ watch[g].cnt = reconnectCounter
  BY <1>1, CurrentWatcherStep, WatcherIsCurrent
<1>5. OnlyCurrent' /\ ConnFits'
  BY <1>1, <1>2, <1>3, <1>4, WatcherStepFollows
<1>6. watch[g].ch = zkWatchEvent
  BY <1>1, <1>4 DEF FollowInv, ChannelsHeard
<1>7. ChannelsHeard' /\ KnownWhenNeeded'
  BY <1>1, <1>2, <1>3, <1>4, <1>6
  DEF FollowInv, ChannelsHeard, Heard, KnownWhenNeeded, CoinKnown, NotStarted
<1> QED
  BY <1>5, <1>7 DEF FollowInv

\* GetW registers a channel nobody holds, in place of one that is closed.
LEMMA WatchGetWFollows ==
    ASSUME Inv, CoinInv, RegistryInv, FollowInv, NEW g \in Gens, WatchGetW(g)
    PROVE  FollowInv'
<1>1. PICK c \in Chans :
        /\ ZK!GetW(Path, Sid, c)
        /\ Watch(g, [watch[g] EXCEPT !.pc = "store", !.ch = c])
  BY DEF WatchGetW
<1> DEFINE new == [watch[g] EXCEPT !.pc = "store", !.ch = c]
<1>2. /\ watch[g].pc = "getw" /\ Watch(g, new)
      /\ UNCHANGED <<runningStat, reconnectCounter, locked, dialing, serverConn, openConns,
                     connCoin, proxy, zkWatchEvent, miningCoin>>
  BY <1>1 DEF WatchGetW, statVars, connVars, coinVars
<1>3. new.pc = "store" /\ new.cnt = watch[g].cnt /\ new.ch = c
  BY <1>2, WatchFacts DEF IsWatcher
<1> HIDE DEF new
<1>4. Watcher' = new /\ Watcher = watch[g] /\ watch[g].cnt = reconnectCounter
  BY <1>2, CurrentWatcherStep, WatcherIsCurrent
<1>5. OnlyCurrent' /\ ConnFits'
  BY <1>2, <1>3, <1>4, WatcherStepFollows
<1>6. chan[zkWatchEvent] = "closed" /\ zkWatchEvent \in Chans
  BY <1>2, <1>4 DEF FollowInv, ChannelsHeard, CoinInv, CoinTypes
<1>7. /\ chan[c] = "free"
      /\ channels'[Path][Sid] = c
      /\ chan'[zkWatchEvent] = "closed"
      /\ handed'[zkWatchEvent] = handed[zkWatchEvent]
      /\ c # zkWatchEvent
  BY <1>1, <1>6, RegistryFacts DEF ZK!GetW, ZK!RegisterChannel, CoinInv, CoinTypes
<1>8. ChannelsHeard'
  BY <1>2, <1>3, <1>4, <1>7 DEF FollowInv, ChannelsHeard, Heard
<1>9. KnownWhenNeeded'
  BY <1>2, <1>3, <1>4, <1>7 DEF FollowInv, KnownWhenNeeded, CoinKnown
<1> QED
  BY <1>5, <1>8, <1>9 DEF FollowInv

LEMMA WatchGetWFailsFollows ==
    ASSUME Inv, FollowInv, NEW g \in Gens, WatchGetWFails(g)
    PROVE  FollowInv'
<1> DEFINE new == [watch[g] EXCEPT !.pc = "load"]
<1>1. /\ watch[g].pc = "getw" /\ Watch(g, new)
      /\ UNCHANGED <<runningStat, reconnectCounter, locked, dialing, serverConn, openConns,
                     connCoin, proxy, channels, chan, handed, zkWatchEvent, miningCoin>>
  BY DEF WatchGetWFails, OnlyWatch, statVars, connVars, zkVars, coinVars
<1>2. new.pc = "load" /\ new.cnt = watch[g].cnt
  BY <1>1, WatchFacts DEF IsWatcher
<1> HIDE DEF new
<1>3. Watcher' = new /\ Watcher = watch[g] /\ watch[g].cnt = reconnectCounter
  BY <1>1, CurrentWatcherStep, WatcherIsCurrent
<1>4. OnlyCurrent' /\ ConnFits'
  BY <1>1, <1>2, <1>3, WatcherStepFollows
<1>5. ChannelsHeard' /\ KnownWhenNeeded'
  BY <1>1, <1>2, <1>3 DEF FollowInv, ChannelsHeard, Heard, KnownWhenNeeded, CoinKnown
<1> QED
  BY <1>4, <1>5 DEF FollowInv

\* The channel that the new one replaces is closed: nobody is left waiting on it.
LEMMA WatchStoreFollows ==
    ASSUME Inv, RegistryInv, FollowInv, NEW g \in Gens, WatchStore(g)
    PROVE  FollowInv'
<1>1. /\ watch[g].pc = "store" /\ zkWatchEvent' = watch[g].ch
      /\ UNCHANGED <<runningStat, reconnectCounter, locked, dialing, serverConn, openConns,
                     connCoin, proxy, channels, chan, handed, miningCoin>>
  BY DEF WatchStore, OnlyWatch, statVars, connVars, zkVars
<1> DEFINE known == handed[watch[g].ch] \in {miningCoin} \union (Coins \ ServerCoins)
<1>2. PICK new :
        /\ Watch(g, new) /\ new.cnt = watch[g].cnt
        /\ \/ new.pc = "load" /\ known
           \/ new.pc \in {"tryStop", "switch"} /\ new.ch = watch[g].ch
  <2>1. CASE known
    <3>1. Watch(g, [watch[g] EXCEPT !.pc = "load", !.ch = NoChan])
      BY <2>1 DEF WatchStore, CoinRead
    <3>2. /\ [watch[g] EXCEPT !.pc = "load", !.ch = NoChan].pc = "load"
          /\ [watch[g] EXCEPT !.pc = "load", !.ch = NoChan].cnt = watch[g].cnt
      BY <1>1, WatchFacts DEF IsWatcher
    <3> QED
      BY <2>1, <3>1, <3>2
  <2>2. CASE ~known
    <3> DEFINE pc == IF isBTCAgent THEN "tryStop" ELSE "switch"
    <3>1. Watch(g, [watch[g] EXCEPT !.pc = pc])
      BY <2>2 DEF WatchStore, CoinRead
    <3>2. pc \in {"tryStop", "switch"}
      OBVIOUS
    <3> HIDE DEF pc
    <3>3. /\ [watch[g] EXCEPT !.pc = pc].pc = pc
          /\ [watch[g] EXCEPT !.pc = pc].cnt = watch[g].cnt
          /\ [watch[g] EXCEPT !.pc = pc].ch = watch[g].ch
      BY <1>1, WatchFacts DEF IsWatcher
    <3> QED
      BY <3>1, <3>2, <3>3
  <2> QED
    BY <2>1, <2>2
<1>3. Watcher' = new /\ Watcher = watch[g] /\ watch[g].cnt = reconnectCounter
  BY <1>1, <1>2, CurrentWatcherStep, WatcherIsCurrent
<1>4. OnlyCurrent' /\ ConnFits'
  BY <1>1, <1>2, <1>3, WatcherStepFollows
<1>5. channels[Path][Sid] \in {NoChan, watch[g].ch}
  <2>1. chan[zkWatchEvent] = "closed"
    BY <1>1, <1>3 DEF FollowInv, ChannelsHeard
  <2>2. channels[Path][Sid] # NoChan => channels[Path][Sid] # zkWatchEvent
    BY <2>1, RegistryFacts
  <2> QED
    BY <1>3, <2>2 DEF FollowInv, ChannelsHeard
<1>6. Heard(watch[g].ch)
  BY <1>1, <1>3 DEF FollowInv, ChannelsHeard
<1>7. ChannelsHeard'
  BY <1>1, <1>2, <1>3, <1>5, <1>6 DEF ChannelsHeard, Heard
<1>8. KnownWhenNeeded'
  <2>1. ~locked /\ ~NotStarted(proxy[reconnectCounter])
    BY <1>1, <1>3, WatcherIsCurrent
  <2> QED
    BY <1>1, <1>2, <1>3, <2>1 DEF KnownWhenNeeded, CoinKnown
<1> QED
  BY <1>4, <1>7, <1>8 DEF FollowInv

LEMMA WatchTryStopFollows ==
    ASSUME Inv, FollowInv, NEW g \in Gens, WatchTryStop(g)
    PROVE  FollowInv'
<1>1. /\ watch[g].pc = "tryStop" /\ Watch(g, NoWatch)
      /\ UNCHANGED <<runningStat, reconnectCounter, locked, dialing, serverConn, openConns,
                     connCoin, proxy, channels, chan, handed, zkWatchEvent, miningCoin>>
  BY DEF WatchTryStop, statVars, connVars, zkVars, coinVars
<1>2. Watcher' = NoWatch /\ Watcher = watch[g] /\ ~locked /\ ~NotStarted(proxy[reconnectCounter])
  BY <1>1, CurrentWatcherStep, WatcherIsCurrent
<1>3. OnlyCurrent' /\ ConnFits'
  BY <1>1, NoWatchIsWatcher, WatcherStepFollows
<1>4. ChannelsHeard' /\ KnownWhenNeeded'
  BY <1>1, <1>2, NoWatchIsWatcher DEF FollowInv, ChannelsHeard, Heard, KnownWhenNeeded
<1> QED
  BY <1>3, <1>4 DEF FollowInv

\* The coin that the session takes is the one that came with its channel.
LEMMA WatchSetCoinFollows ==
    ASSUME Inv, FollowInv, NEW g \in Gens, WatchSetCoin(g)
    PROVE  FollowInv'
<1> DEFINE new == [watch[g] EXCEPT !.pc = "lock", !.ch = NoChan]
<1>1. /\ watch[g].pc = "switch" /\ Watch(g, new)
      /\ miningCoin' = handed[watch[g].ch]
      /\ UNCHANGED <<runningStat, reconnectCounter, locked, dialing, serverConn, openConns,
                     connCoin, proxy, channels, chan, handed, zkWatchEvent>>
  BY DEF WatchSetCoin, CoinRead, OnlyWatch, statVars, connVars, zkVars
<1>2. new.pc = "lock" /\ new.cnt = watch[g].cnt
  BY <1>1, WatchFacts DEF IsWatcher
<1> HIDE DEF new
<1>3. Watcher' = new /\ Watcher = watch[g] /\ watch[g].cnt = reconnectCounter
  BY <1>1, CurrentWatcherStep, WatcherIsCurrent
<1>4. OnlyCurrent' /\ ConnFits'
  BY <1>1, <1>2, <1>3, WatcherStepFollows
<1>5. watch[g].ch = zkWatchEvent
  BY <1>1, <1>3 DEF FollowInv, ChannelsHeard
<1>6. ChannelsHeard' /\ KnownWhenNeeded'
  BY <1>1, <1>2, <1>3, <1>5 DEF FollowInv, ChannelsHeard, Heard, KnownWhenNeeded, CoinKnown
<1> QED
  BY <1>4, <1>6 DEF FollowInv

\* The watcher is the last goroutine of its generation that counts.
LEMMA WatchSwitchFollows ==
    ASSUME Inv, CoinInv, RegistryInv, FollowInv, NEW g \in Gens, WatchSwitch(g)
    PROVE  FollowInv'
<1>1. /\ watch[g].pc = "lock" /\ Watch(g, NoWatch) /\ TryReconnect(watch[g].cnt)
      /\ UNCHANGED <<connCoin, proxy, zkWatchEvent, miningCoin>>
  BY DEF WatchSwitch, coinVars
<1>2. /\ g = reconnectCounter /\ Watcher = watch[g] /\ ~locked
      /\ runningStat # "Reconnecting"
      /\ ~NotStarted(proxy[g]) /\ watch[g].cnt = reconnectCounter
  BY <1>1, WatcherIsCurrent
<1>3. \A h \in Gens : watch'[h].pc = "none"
  <2>1. \A h \in Gens : watch'[h] = IF h = g THEN NoWatch ELSE watch[h]
    BY <1>1 DEF Watch, Inv, Types
  <2>2. \A h \in Gens : h # g => watch[h].pc = "none"
    BY <1>2 DEF FollowInv, OnlyCurrent
  <2> QED
    BY <2>1, <2>2, NoWatchIsWatcher
<1>4. \A h \in Gens : ~NotStarted(proxy[h])
  BY <1>2 DEF FollowInv, OnlyCurrent
<1>5. CASE runningStat = "Running"
  <2>1. /\ BeginReconnect /\ reconnectCounter' \in Gens
        /\ reconnectCounter' = reconnectCounter + 1
        /\ runningStat' = "Reconnecting" /\ dialing' = miningCoin /\ Unwatch
    BY <1>1, <1>2, <1>5, BoundAssumption
    DEF TryReconnect, StillCurrent, BeginReconnect, Inv, Types, Gens
  <2>2. Watcher'.pc = "none"
    BY <1>3, <2>1 DEF Watcher
  <2>3. OnlyCurrent' /\ ConnFits'
    BY <1>1, <1>3, <1>4, <2>1, <2>2 DEF OnlyCurrent, FollowInv, ConnFits
  <2>4. KeepsChannels /\ zkWatchEvent \in Chans
    BY <2>1, UnwatchKeepsChannels DEF CoinInv, CoinTypes
  <2>5. Heard(zkWatchEvent)' /\ handed'[zkWatchEvent] = handed[zkWatchEvent]
    BY <1>1, <2>4 DEF KeepsChannels, InUse, FollowInv, ChannelsHeard, Heard
  <2>6. channels'[Path][Sid] \in {NoChan, zkWatchEvent}
    BY <1>1, <1>2, <2>4 DEF KeepsChannels, FollowInv, ChannelsHeard
  <2>7. ChannelsHeard'
    BY <1>1, <2>2, <2>5, <2>6 DEF ChannelsHeard
  <2>8. KnownWhenNeeded'
    BY <1>1, <1>2, <2>5 DEF FollowInv, KnownWhenNeeded, CoinKnown
  <2> QED
    BY <2>3, <2>7, <2>8 DEF FollowInv
<1>6. CASE runningStat # "Running"
  <2>1. UNCHANGED <<runningStat, reconnectCounter, locked, dialing, serverConn, openConns,
                    channels, chan, handed>>
    BY <1>1, <1>6 DEF TryReconnect, StillCurrent, statVars, zkVars
  <2>2. Watcher'.pc = "none"
    BY <1>2, <1>3, <2>1 DEF Watcher
  <2>3. OnlyCurrent' /\ ConnFits'
    BY <1>1, <1>2, <1>3, <1>4, <1>6, <2>1, <2>2 DEF OnlyCurrent, FollowInv, ConnFits
  <2>4. ChannelsHeard'
    BY <1>1, <1>2, <2>1, <2>2 DEF FollowInv, ChannelsHeard, Heard
  <2>5. KnownWhenNeeded'
    BY <1>1, <1>2, <1>4, <2>1, <2>2 DEF KnownWhenNeeded
  <2> QED
    BY <2>3, <2>4, <2>5 DEF FollowInv
<1> QED
  BY <1>5, <1>6

\* A copier finds the connection it copies closed only when it is an old one, and
\* then it leaves the session alone.
LEMMA CopierTryReconnectFollows ==
    ASSUME Inv, CoinInv, FollowInv, NEW d \in Dirs, NEW g \in Gens, CopierTryReconnect(d, g)
    PROVE  FollowInv'
<1>1. /\ copier[<<d, g>>].pc = "copy"
      /\ copier[<<d, g>>].conn \notin openConns
      /\ TryReconnect(copier[<<d, g>>].cnt)
      /\ UNCHANGED <<coinVars, connCoin, proxy, watch>>
  BY DEF CopierTryReconnect
<1>2. <<d, g>> \in Dirs \X Gens
  OBVIOUS
<1>3. ~StillCurrent(copier[<<d, g>>].cnt)
  BY <1>1, <1>2 DEF StillCurrent, Inv, CounterTellsConn, FollowInv, ConnFits
<1>4. UNCHANGED <<zkVars, statVars, openConns, serverConn>>
  BY <1>1, <1>3 DEF TryReconnect
<1>5. UNCHANGED <<channels, chan, handed, runningStat, reconnectCounter, locked, dialing>>
  BY <1>4 DEF zkVars, statVars
<1>6. KeepsChannels
  BY <1>1, <1>5, SameRegistryKeeps DEF Watcher
<1> QED
  BY <1>1, <1>4, <1>5, <1>6, FollowQuiet

LEMMA StopEnterFollows ==
    ASSUME Inv, FollowInv, StopEnter
    PROVE  FollowInv'
<1>1. /\ runningStat' = "Stoped" /\ ~locked
      /\ UNCHANGED <<reconnectCounter, locked, dialing, serverConn, connCoin, proxy, watch,
                     channels, chan, handed, zkWatchEvent, miningCoin>>
  BY DEF StopEnter, LockFree, OnlyStopEnter, zkVars, coinVars
<1>2. Watcher' = Watcher
  BY <1>1 DEF Watcher
<1>3. OnlyCurrent' /\ ConnFits'
  BY <1>1, <1>2 DEF FollowInv, OnlyCurrent, ConnFits
<1>4. ChannelsHeard' /\ KnownWhenNeeded'
  BY <1>1, <1>2 DEF FollowInv, ChannelsHeard, Heard, KnownWhenNeeded, CoinKnown
<1> QED
  BY <1>3, <1>4 DEF FollowInv

\* The other steps leave the session's fields and goroutines alone.
LEMMA OthersFollow ==
    ASSUME Inv, CoinInv, RegistryInv, FollowInv,
           \/ CollectGarbage
           \/ StopReleases \/ StopUnwatches \/ StopForgetsManager
           \/ NodeWatcherRuns \/ CoinChanges \/ ClientCloses
           \/ \E d \in Dirs, g \in Gens : Copying(d, g)
           \/ \E g \in Gens : Resending(g)
    PROVE  FollowInv'
<1>1. UNCHANGED <<runningStat, reconnectCounter, locked, dialing, serverConn, connCoin, openConns,
                  proxy, watch, coinVars>>
  <2>1. CASE CollectGarbage
    BY <2>1 DEF CollectGarbage, statVars, connVars, goVars
  <2>2. CASE StopReleases \/ StopUnwatches \/ StopForgetsManager
    BY <2>2 DEF StopReleases, StopUnwatches, StopForgetsManager, OnlyStopper, statVars, connVars
  <2>3. CASE NodeWatcherRuns \/ CoinChanges \/ ClientCloses
    BY <2>3 DEF NodeWatcherRuns, CoinChanges, ClientCloses, OnlyEnvironment, statVars, goVars
  <2>4. ASSUME NEW d \in Dirs, NEW g \in Gens, Copying(d, g) \/ Resending(g)
        PROVE  UNCHANGED <<runningStat, reconnectCounter, locked, dialing, serverConn, connCoin,
                           openConns, proxy, watch, coinVars>>
    BY <2>4 DEF Copying, CopierStart, CopierAttach, CopierTryStop, Resending, UpResend, UpWrite,
       OnlyCopier, statVars, connVars
  <2> QED
    BY <2>1, <2>2, <2>3, <2>4, DirAssumption
<1>2. KeepsChannels
  <2>1. CASE UNCHANGED <<channels, chan, handed>>
    BY <1>1, <2>1, SameRegistryKeeps DEF Watcher
  <2>2. CASE CollectGarbage
    BY <2>2, GarbageKeepsChannels DEF CollectGarbage
  <2>3. CASE StopUnwatches
    BY <2>3, UnwatchKeepsChannels DEF StopUnwatches
  <2>4. CASE NodeWatcherRuns
    BY <2>4, DispatchKeepsChannels DEF NodeWatcherRuns
  <2>5. CASE StopReleases \/ StopForgetsManager \/ ClientCloses \/ CoinChanges
    BY <2>1, <2>5 DEF StopReleases, StopForgetsManager, ClientCloses, CoinChanges, ZK!SetNode, zkVars
  <2>6. ASSUME NEW d \in Dirs, NEW g \in Gens, Copying(d, g) \/ Resending(g)
        PROVE  KeepsChannels
    BY <2>1, <2>6 DEF Copying, CopierStart, CopierAttach, CopierTryStop, Resending, UpResend,
       UpWrite, OnlyCopier, zkVars
  <2> QED
    BY <2>2, <2>3, <2>4, <2>5, <2>6, DirAssumption
<1> QED
  BY <1>1, <1>2, FollowQuiet

\* Until a server closes a connection or the process ends.
KeptFollows == ServerKept /\ ~panicked => FollowInv

LEMMA KeptBefore ==
    ASSUME CoinInv, Next, ServerKept', ~panicked'
    PROVE  ServerKept /\ ~panicked /\ ~ServerCloses /\ ~Panic
<1>1. events \in [Events -> Nat]
  BY DEF CoinInv, CoinTypes
<1>2. ASSUME NEW e \in Events, NEW max, Event(e, max)
      PROVE  ServerKept /\ e # "server" /\ ~panicked
  BY <1>1, <1>2 DEF Event, Events, ServerKept
<1>3. CASE Environment
  <2>1. "coin" \in Events /\ "server" \in Events /\ "client" \in Events
    BY DEF Events
  <2>2. ~Panic
    BY DEF Panic
  <2>3. ~ServerCloses
    BY <1>2, <2>1 DEF ServerCloses
  <2>4. CASE NodeWatcherRuns
    BY <2>2, <2>3, <2>4 DEF NodeWatcherRuns, ServerKept
  <2>5. CoinChanges => ServerKept /\ ~panicked
    BY <1>2, <2>1 DEF CoinChanges
  <2>6. ClientCloses => ServerKept /\ ~panicked
    BY <1>2, <2>1 DEF ClientCloses
  <2> QED
    BY <1>3, <2>2, <2>3, <2>4, <2>5, <2>6 DEF Environment
<1>4. CASE ~Environment
  <2>1. ~ServerCloses /\ ~Panic
    BY <1>4 DEF Environment, Panic
  <2>2. ASSUME NEW g \in Gens, NEW d \in Dirs, Copying(d, g) \/ CopierTryReconnect(d, g)
        PROVE  UNCHANGED <<events, panicked>>
    BY <2>2 DEF Copying, CopierStart, CopierAttach, CopierTryStop, CopierTryReconnect, OnlyCopier,
       restVars
  <2>3. ASSUME NEW g \in Gens, Proxying(g) \/ Resending(g)
        PROVE  UNCHANGED <<events, panicked>>
    BY <2>3 DEF Proxying, ProxyCheck, ProxyRegister, Resending, UpResend, UpWrite, OnlyCopier, restVars
  <2>4. ASSUME NEW g \in Gens, Watching(g) \/ WatchGetW(g) \/ WatchGetWFails(g)
        PROVE  UNCHANGED <<events, panicked>>
    BY <2>4 DEF Watching, WatchStart, WatchLoad, WatchWake, WatchStore, WatchTryStop, WatchSetCoin,
       WatchSwitch, WatchGetW, WatchGetWFails, OnlyWatch, restVars
  <2>5. CollectGarbage \/ Reconnection \/ Stopping => UNCHANGED <<events, panicked>>
    BY DEF CollectGarbage, Reconnection, AttemptSucceeds, AttemptFails, Stopping, StopEnter,
       StopReleases, StopUnwatches, StopForgetsManager, OnlyStopEnter, OnlyStopper, restVars
  <2>6. UNCHANGED <<events, panicked>>
    BY <1>4, <2>1, <2>2, <2>3, <2>4, <2>5 DEF Next, Session
  <2> QED
    BY <2>1, <2>6 DEF ServerKept
<1> QED
  BY <1>3, <1>4

LEMMA KeptFollowsStep ==
    ASSUME Inv, CoinInv, RegistryInv, KeptFollows, Next
    PROVE  KeptFollows'
<1> SUFFICES ASSUME ServerKept', ~panicked'
             PROVE  FollowInv'
  BY DEF KeptFollows
<1>1. FollowInv /\ ~ServerCloses /\ ~Panic
  BY KeptBefore DEF KeptFollows
<1>2. CASE CollectGarbage \/ StopReleases \/ StopUnwatches \/ StopForgetsManager
  BY <1>1, <1>2, OthersFollow
<1>3. CASE Environment
  BY <1>1, <1>3, OthersFollow DEF Environment
<1>4. CASE Reconnection
  BY <1>1, <1>4, AttemptSucceedsFollows, AttemptFailsFollows DEF Reconnection
<1>5. ASSUME NEW g \in Gens, Proxying(g)
      PROVE  FollowInv'
  BY <1>1, <1>5, ProxyCheckFollows, ProxyRegisterFollows DEF Proxying
<1>6. ASSUME NEW g \in Gens, NEW d \in Dirs, Copying(d, g) \/ CopierTryReconnect(d, g)
      PROVE  FollowInv'
  BY <1>1, <1>6, OthersFollow, CopierTryReconnectFollows
<1>7. ASSUME NEW g \in Gens, Resending(g)
      PROVE  FollowInv'
  BY <1>1, <1>7, OthersFollow
<1>8. ASSUME NEW g \in Gens, Watching(g) \/ WatchGetW(g) \/ WatchGetWFails(g)
      PROVE  FollowInv'
  BY <1>1, <1>8, WatchStartFollows, WatchLoadFollows, WatchWakeFollows, WatchGetWFollows,
     WatchGetWFailsFollows, WatchStoreFollows, WatchTryStopFollows, WatchSetCoinFollows,
     WatchSwitchFollows
  DEF Watching
<1>9. CASE StopEnter
  BY <1>1, <1>9, StopEnterFollows
<1> QED
  BY <1>1, <1>2, <1>3, <1>4, <1>5, <1>6, <1>7, <1>8, <1>9 DEF Next, Session, Stopping

LEMMA StutterFollows ==
    ASSUME KeptFollows, UNCHANGED vars
    PROVE  KeptFollows'
<1>1. UNCHANGED <<runningStat, reconnectCounter, locked, dialing, serverConn, connCoin, openConns,
                  proxy, watch, zkWatchEvent, miningCoin, channels, chan, handed, events, panicked>>
  BY DEF vars, zkVars, coinVars, statVars, connVars, goVars, restVars
<1>2. Watcher' = Watcher
  BY <1>1 DEF Watcher
<1> QED
  BY <1>1, <1>2 DEF KeptFollows, ServerKept, FollowInv, OnlyCurrent, ConnFits, ChannelsHeard, Heard,
     KnownWhenNeeded, CoinKnown

\* At rest the watcher waits on the session's channel, which is registered, so the
\* coin it came with is the node's.
LEMMA RestFollows ==
    ASSUME Inv, RegistryInv, CoinInv, KeptFollows
    PROVE  FollowsAtRest
<1> SUFFICES ASSUME Settled, ServerKept, node[Path] \in ServerCoins
             PROVE  connCoin[serverConn] = node[Path]
  BY DEF FollowsAtRest
<1>1. /\ reconnectCounter \in Gens /\ runningStat = "Running" /\ fired[Path] = 0
      /\ Watcher.pc = "wait" /\ chan[Watcher.ch] = "open"
  BY DEF Settled, Watcher, Inv, Types
<1>2. ~panicked
  BY <1>1 DEF Watcher, Inv, PanicIsFinal
<1>3. FollowInv
  BY <1>2 DEF KeptFollows
<1>4. Watcher.ch = zkWatchEvent /\ channels[Path][Sid] = zkWatchEvent
  BY <1>1, <1>3 DEF FollowInv, ChannelsHeard, Heard
<1>5. zkWatchEvent # NoChan
  BY NoCoinIsNone DEF CoinInv, CoinTypes
<1>6. handed[zkWatchEvent] = node[Path]
  BY <1>1, <1>4, <1>5 DEF RegistryInv, ChannelOfWatcher, CacheFresh
<1>7. handed[zkWatchEvent] = miningCoin
  BY <1>1, <1>3, <1>6, CoinAssumption DEF FollowInv, KnownWhenNeeded, CoinKnown
<1> QED
  BY <1>1, <1>3, <1>6, <1>7 DEF FollowInv, ConnFits

\* As long as the servers keep their connections a session at rest is connected to
\* the server of the coin that its sub-account has in ZooKeeper, whatever changes,
\* failed reads, reconnections and goroutines of earlier generations came before.
THEOREM SettledFollows == Spec => []FollowsAtRest
<1>1. Init => RegistryInv /\ KeptFollows
  BY InitRegistryInv, InitFollowInv DEF KeptFollows
<1>2. RegistryInv /\ [Next]_vars => RegistryInv'
  BY SessionStepsRegistry, RegistryStep DEF vars
<1>3. Inv /\ CoinInv /\ RegistryInv /\ KeptFollows /\ [Next]_vars => KeptFollows'
  BY KeptFollowsStep, StutterFollows
<1>4. Inv /\ CoinInv /\ RegistryInv /\ KeptFollows => FollowsAtRest
  BY RestFollows
<1> QED
  BY <1>1, <1>2, <1>3, <1>4, InvAlways, InitCoinInv, NextCoinInv, PTL DEF Spec
=============================================================================
