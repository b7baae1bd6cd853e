-------------------------- MODULE SwitcherAPI_proofs --------------------------
(***************************************************************************)
(* Proofs about SwitcherAPI: a cached list of users is the list; the types *)
(* of the import and of the switches, with the times of the cron job; and, *)
(* when the safety period is shorter than the interval of the cron job, a  *)
(* switch of coins takes effect.                                           *)
(***************************************************************************)
EXTENDS SwitcherAPI, TLAPS

-----------------------------------------------------------------------------
\* A user is listed or not, and a list that is cached is the list.
Ages == listAge \in [Coins -> [Users -> Unlisted .. SafetyPeriod]]

Inv ==
    /\ DOMAIN userListJsonCaches = Lists
    /\ DOMAIN userIDMaps = Lists
    /\ Ages
    /\ ListIsCurrent

\* A list depends on nothing but its map.
LEMMA SameList ==
    ASSUME NEW l, userIDMaps'[l] = userIDMaps[l]
    PROVE  \A id : UserList(l, id)' = UserList(l, id)
BY DEF UserList

LEMMA InitInv == Init => Inv
<1> SUFFICES ASSUME Init PROVE Inv
  OBVIOUS
<1>1. Ages
  BY ListAssumption DEF Init, Ages, Unlisted
<1>2. DOMAIN userListJsonCaches = Lists /\ \A l \in Lists : userListJsonCaches[l] = NoCache
  BY DEF Init
<1>3. DOMAIN userIDMaps = Lists
  BY DEF Init
<1> QED
  BY <1>1, <1>2, <1>3 DEF Inv, ListIsCurrent

LEMMA QuietInv ==
    ASSUME Inv, UNCHANGED <<userIDMaps, listAge, userListJsonCaches>>
    PROVE  Inv'
<1>1. Ages'
  BY DEF Inv, Ages
<1>2. \A l \in Lists : \A id : UserList(l, id)' = UserList(l, id)
  BY SameList
<1> QED
  BY <1>1, <1>2 DEF Inv, ListIsCurrent

\* A new user is in the list of the coin and in the merged one, and in no other.
LEMMA AddUserInv ==
    ASSUME Inv, NEW c \in Coins, addUser(c)
    PROVE  Inv'
<1>1. PICK u : listAge' = [listAge EXCEPT ![c] = [listAge[c] EXCEPT ![u] = 0]]
  BY DEF addUser, Inv, Ages
<1>2. userListJsonCaches' = [userListJsonCaches EXCEPT ![c] = NoCache, ![AllCoins] = NoCache]
  BY DEF addUser, Cleared
<1>3. Ages'
  <2>1. 0 \in Unlisted .. SafetyPeriod
    BY ListAssumption DEF Unlisted
  <2> DEFINE row == [listAge[c] EXCEPT ![u] = 0]
  <2>2. row \in [Users -> Unlisted .. SafetyPeriod]
    BY <2>1 DEF Inv, Ages
  <2>3. listAge' = [listAge EXCEPT ![c] = row]
    BY <1>1
  <2> HIDE DEF row
  <2> QED
    BY <2>2, <2>3 DEF Inv, Ages
<1>4. DOMAIN userIDMaps' = Lists /\ \A l \in Lists \ {c, AllCoins} : userIDMaps'[l] = userIDMaps[l]
  <2>1. PICK m, n : userIDMaps' = [userIDMaps EXCEPT ![c] = m, ![AllCoins] = n]
    BY DEF addUser
  <2> QED
    BY <2>1 DEF Inv
<1>5. ASSUME NEW l \in Lists \ {c, AllCoins}
      PROVE  /\ userListJsonCaches'[l] = userListJsonCaches[l]
             /\ \A id : UserList(l, id)' = UserList(l, id)
  <2>1. \A id : UserList(l, id)' = UserList(l, id)
    BY <1>4, <1>5, SameList
  <2>2. userListJsonCaches'[l] = userListJsonCaches[l]
    BY <1>2, <1>5 DEF Inv
  <2> QED
    BY <2>1, <2>2
<1>6. \A l \in Lists \cap {c, AllCoins} : userListJsonCaches'[l] = NoCache
  BY <1>2 DEF Inv
<1>7. DOMAIN userListJsonCaches' = Lists
  BY <1>2 DEF Inv
<1> QED
  BY <1>3, <1>4, <1>5, <1>6, <1>7 DEF Inv, ListIsCurrent

\* An answer is remembered for the ID for which it was given.
LEMMA GetListInv ==
    ASSUME Inv, NEW l \in Lists, NEW id, getUserListJson(l, id)
    PROVE  Inv'
<1>1. UNCHANGED <<userIDMaps, listAge>>
  BY DEF getUserListJson
<1>2. Ages' /\ DOMAIN userIDMaps' = Lists /\ \A k \in Lists : \A i : UserList(k, i)' = UserList(k, i)
  BY <1>1, SameList DEF Inv, Ages
<1> DEFINE new == [lastUserId |-> id, users |-> UserList(l, id)]
<1>3. new.users = UserList(l, id) /\ new.lastUserId = id
  OBVIOUS
<1> HIDE DEF new
<1>4. /\ userListJsonCaches'[l] \in {userListJsonCaches[l], new}
      /\ \A k \in Lists \ {l} : userListJsonCaches'[k] = userListJsonCaches[k]
      /\ DOMAIN userListJsonCaches' = Lists
  BY DEF getUserListJson, Inv, new
<1> QED
  BY <1>2, <1>3, <1>4 DEF Inv, ListIsCurrent

\* With time no list changes.
LEMMA TickInv ==
    ASSUME Inv, Tick
    PROVE  Inv'
<1>1. /\ listAge' = [c \in Coins |-> [u \in Users |->
            IF listAge[c][u] = SafetyPeriod THEN SafetyPeriod ELSE Older(listAge[c][u])]]
      /\ UNCHANGED <<userIDMaps, userListJsonCaches>>
  BY DEF Tick
<1>2. ASSUME NEW c \in Coins, NEW u \in Users
      PROVE  listAge'[c][u] \in Unlisted .. SafetyPeriod
  <2>1. listAge[c][u] \in Unlisted .. SafetyPeriod /\ SafetyPeriod \in Nat \ {0}
    BY ListAssumption DEF Inv, Ages
  <2>2. listAge'[c][u] = IF listAge[c][u] = SafetyPeriod THEN SafetyPeriod
                         ELSE IF listAge[c][u] \in {Unlisted, Cap} THEN listAge[c][u]
                         ELSE listAge[c][u] + 1
    BY <1>1 DEF Older
  <2> QED
    BY <2>1, <2>2 DEF Unlisted
<1>3. Ages'
  BY <1>1, <1>2 DEF Ages
<1>4. \A l \in Lists : \A id : UserList(l, id)' = UserList(l, id)
  BY <1>1, SameList
<1> QED
  BY <1>1, <1>3, <1>4 DEF Inv, ListIsCurrent

\* A process that has just started has listed nobody.
LEMMA RestartInv ==
    ASSUME Inv, Restart
    PROVE  Inv'
<1>1. Ages'
  BY ListAssumption DEF Restart, ListStarts, Ages, Unlisted
<1>2. /\ DOMAIN userListJsonCaches' = Lists /\ DOMAIN userIDMaps' = Lists
      /\ \A l \in Lists : userListJsonCaches'[l] = NoCache
  BY DEF Restart, ListStarts
<1> QED
  BY <1>1, <1>2 DEF Inv, ListIsCurrent

LEMMA NextInv ==
    ASSUME Inv, Next
    PROVE  Inv'
<1>1. ASSUME NEW c \in Coins, Import(c)
      PROVE  Inv'
  <2>1. CASE addUser(c)
    BY <2>1, AddUserInv
  <2>2. CASE Register(c) \/ ImportFails(c) \/ ImportFetch(c) \/ ImportExists(c) \/ ImportCreate(c)
    BY <2>2, QuietInv DEF Register, ImportFails, ImportFetch, ImportExists, ImportCreate
  <2> QED
    BY <1>1, <2>1, <2>2 DEF Import
<1>2. CASE getUserIDList
  BY <1>2, GetListInv DEF getUserIDList
<1>3. ASSUME NEW h \in Handlers, Change(h)
      PROVE  Inv'
  BY <1>3, QuietInv DEF Change, ChangeExists, ChangeGet, ChangeSet, ChangeCreate, ChangeFails,
     UnchangedByEntry, listVars
<1>4. CASE Switch \/ DelayedSet \/ CronPull \/ CronPullFails
  BY <1>4, QuietInv DEF Switch, DelayedSet, CronPull, CronPullFails, listVars
<1> QED
  BY <1>1, <1>2, <1>3, <1>4, TickInv, RestartInv DEF Next

\* However the import of several coins, the requests for lists and restarts
\* interleave, a cached answer is the one that would be given without the caches
\* (addUser, getUserListJson).
THEOREM CachesAreCurrent == Spec => []ListIsCurrent
<1>1. Inv /\ [Next]_vars => Inv'
  <2>1. Inv /\ UNCHANGED vars => Inv'
    BY QuietInv DEF vars, listVars
  <2> QED
    BY <2>1, NextInv
<1>2. Inv => ListIsCurrent
  BY DEF Inv
<1> QED
  BY <1>1, <1>2, InitInv, PTL DEF Spec

-----------------------------------------------------------------------------
(* Types of the import and of the requests *)

\* A goroutine of the import has a user of its batch while it adds it.
IsImporter(i) ==
    /\ DOMAIN i = {"pc", "batch", "user", "lastPUID"}
    /\ i.pc \in {"sleep", "exists", "create", "add"}
    /\ i.batch \subseteq Users
    /\ i.pc = "sleep" <=> i.batch = {}
    /\ i.user \in i.batch \cup {NoUser}
    /\ i.pc \in {"create", "add"} => i.user \in i.batch

\* The entry that a request works on is one that it has not done.
IsRequest(r) ==
    /\ DOMAIN r = {"pc", "todo", "user", "coin", "age"}
    /\ r.todo \subseteq Users \X Coins
    /\ r.age \in 0 .. Latency
    /\ r.pc \in {"get", "set", "create"} =>
          r.user \in Users /\ r.coin \in Coins /\ <<r.user, r.coin>> \in r.todo

IsDelayed(d) ==
    /\ DOMAIN d = {"user", "coin", "left"}
    /\ d.user \in Users /\ d.coin \in Coins /\ d.left \in 0 .. SafetyPeriod

ListTypes ==
    /\ node \in [Users -> Coins \cup {NoCoin}]
    /\ registered \in [Coins -> SUBSET Users]
    /\ Ages
    /\ DOMAIN importer = Coins
    /\ \A c \in Coins : IsImporter(importer[c])
    /\ \A c \in Coins : importer[c].pc = "add" => node[importer[c].user] # NoCoin

ApiTypes ==
    /\ wish \in [Users -> Coins \cup {NoCoin}]
    /\ wishAge \in [Users -> 0 .. Cap] /\ calm \in 0 .. Cap
    /\ failed \subseteq Users
    /\ DOMAIN requests = Handlers
    /\ \A h \in Handlers : IsRequest(requests[h])
    /\ \A d \in delayed : IsDelayed(d)
    /\ cronSleep \in 0 .. CronInterval /\ lastRequestDate \in Never .. Cap

Types == ListTypes /\ ApiTypes

LEMMA Bounds ==
    /\ CronInterval \in Nat \ {0} /\ Latency \in Nat /\ Cap \in Nat /\ SafetyPeriod \in Nat \ {0}
    /\ \A b \in Budgets : /\ b.faults \in Nat /\ b.users \subseteq Users
                          /\ b.nodes \subseteq Coins \cup {NoCoin}
    /\ Budgets # {} => Cap > 2 * CronInterval + Latency
<1>1. /\ CronInterval \in Nat \ {0} /\ Latency \in Nat /\ Cap \in Nat
      /\ SafetyPeriod \in Nat \ {0}
  BY TimeAssumption, ListAssumption
<1>2. ASSUME NEW b \in Budgets
      PROVE  /\ b.faults \in Nat /\ b.users \subseteq Users
             /\ b.nodes \subseteq Coins \cup {NoCoin}
             /\ Cap > (2 + b.faults) * CronInterval + Latency
  BY BudgetAssumption
<1>3. ASSUME NEW n \in Nat, Cap > (2 + n) * CronInterval + Latency
      PROVE  Cap > 2 * CronInterval + Latency
  <2>1. (2 + n) * CronInterval = 2 * CronInterval + n * CronInterval
    BY <1>1
  <2>2. n * CronInterval \in Nat
    BY <1>1
  <2> QED
    BY <1>1, <1>3, <2>1, <2>2
<1> QED
  BY <1>1, <1>2, <1>3

LEMMA IdleTypes == IsRequest(NoRequest) /\ NoRequest.todo = {} /\ IsImporter(Idle)
<1>1. Latency \in Nat
  BY Bounds
<1> QED
  BY <1>1 DEF IsRequest, NoRequest, IsImporter, Idle

LEMMA InitTypes == Init => Types
<1> SUFFICES ASSUME Init PROVE Types
  OBVIOUS
<1>1. node \in [Users -> Coins \cup {NoCoin}] /\ wish = node
  BY Bounds DEF Init
<1>2. Ages /\ registered \in [Coins -> SUBSET Users]
  BY InitInv DEF Inv, Init
<1>3. importer = [c \in Coins |-> Idle] /\ Idle.pc = "sleep"
  BY DEF Init, Idle
<1>4. ListTypes
  BY <1>1, <1>2, <1>3, IdleTypes DEF ListTypes
<1>5. ApiTypes
  BY <1>1, Bounds, IdleTypes DEF Init, ApiTypes, Never
<1> QED
  BY <1>4, <1>5 DEF Types

\* The import: the steps of one goroutine.
LEMMA RestTypes ==
    ASSUME NEW i, IsImporter(i)
    PROVE  /\ IsImporter(Rest(i)) /\ Rest(i).pc \in {"sleep", "exists"}
           /\ \A p : IsImporter([Rest(i) EXCEPT !.lastPUID = p]) /\ [Rest(i) EXCEPT !.lastPUID = p].pc # "add"
BY DEF Rest, IsImporter

\* A user that has a coin keeps one.
NodesKept ==
    /\ node' \in [Users -> Coins \cup {NoCoin}]
    /\ \A u \in Users : node[u] # NoCoin => node'[u] # NoCoin

LEMMA ImporterStep ==
    ASSUME ListTypes, NEW c \in Coins, NEW i, IsImporter(i),
           importer' = [importer EXCEPT ![c] = i],
           i.pc = "add" => node'[i.user] # NoCoin,
           NodesKept, registered' \in [Coins -> SUBSET Users], Ages'
    PROVE  ListTypes'
<1>1. DOMAIN importer' = Coins
  BY DEF ListTypes
<1>2. ASSUME NEW d \in Coins
      PROVE  /\ IsImporter(importer'[d])
             /\ importer'[d].pc = "add" => node'[importer'[d].user] # NoCoin
  <2>1. CASE d = c
    BY <2>1 DEF ListTypes
  <2>2. CASE d # c
    <3>1. importer'[d] = importer[d]
      BY <2>2 DEF ListTypes
    <3>2. importer[d].pc = "add" => importer[d].user \in Users
      BY DEF ListTypes, IsImporter
    <3> QED
      BY <3>1, <3>2 DEF ListTypes, NodesKept
  <2> QED
    BY <2>1, <2>2
<1> QED
  BY <1>1, <1>2 DEF ListTypes, NodesKept

LEMMA NodesStep ==
    ASSUME ListTypes, NodesKept, UNCHANGED <<registered, importer, listAge>>
    PROVE  ListTypes'
<1>1. \A c \in Coins : importer[c].pc = "add" => importer[c].user \in Users
  BY DEF ListTypes, IsImporter
<1> QED
  BY <1>1 DEF ListTypes, NodesKept, Ages

\* What the import does to the coins of users: a user that has one keeps it.
NodesGiven ==
    /\ node' \in [Users -> Coins \cup {NoCoin}]
    /\ \A u \in Users : node[u] # NoCoin => node'[u] = node[u]

LEMMA ImportTypes ==
    ASSUME Inv, Types, NEW c \in Coins,
           \/ Register(c) \/ ImportFails(c) \/ ImportFetch(c) \/ ImportExists(c)
           \/ ImportCreate(c) \/ addUser(c)
    PROVE  ListTypes' /\ NodesGiven
<1>0. ListTypes /\ IsImporter(importer[c]) /\ NoCoin \notin Coins
  BY ListAssumption DEF Types, ListTypes
<1>1. UNCHANGED node => NodesGiven /\ NodesKept
  BY <1>0 DEF NodesGiven, NodesKept, ListTypes
<1>2. UNCHANGED registered => registered' \in [Coins -> SUBSET Users]
  BY <1>0 DEF ListTypes
<1>3. UNCHANGED listAge => Ages'
  BY DEF Inv, Ages
<1>4. CASE Register(c)
  <2>1. registered' \in [Coins -> SUBSET Users]
    BY <1>0, <1>4 DEF Register, ListTypes
  <2>2. UNCHANGED <<node, importer, listAge>>
    BY <1>4 DEF Register
  <2> QED
    BY <1>0, <1>1, <1>3, <2>1, <2>2 DEF ListTypes
<1>5. CASE ImportFetch(c)
  <2> DEFINE new == {u \in registered[c] : PUID[c][u] > importer[c].lastPUID}
             i == [importer[c] EXCEPT !.pc = "exists", !.batch = new]
  <2>1. /\ importer[c].pc = "sleep" /\ new # {} /\ importer' = [importer EXCEPT ![c] = i]
        /\ UNCHANGED <<node, registered, listAge>>
    BY <1>5 DEF ImportFetch
  <2>2. new \subseteq Users
    BY <1>0 DEF ListTypes
  <2> HIDE DEF new
  <2>3. IsImporter(i) /\ i.pc = "exists"
    BY <1>0, <2>1, <2>2 DEF IsImporter
  <2> HIDE DEF i
  <2> QED
    BY <1>0, <1>1, <1>2, <1>3, <2>1, <2>3, ImporterStep
<1>6. CASE ImportExists(c)
  <2>1. PICK u \in importer[c].batch :
          importer' = [importer EXCEPT ![c] = [importer[c] EXCEPT !.user = u,
                          !.pc = IF node[u] = NoCoin THEN "create" ELSE "add"]]
    BY <1>6 DEF ImportExists
  <2> DEFINE i == [importer[c] EXCEPT !.user = u,
                          !.pc = IF node[u] = NoCoin THEN "create" ELSE "add"]
  <2>2. importer[c].pc = "exists" /\ UNCHANGED <<node, registered, listAge>>
    BY <1>6 DEF ImportExists
  <2>3. IsImporter(i) /\ (i.pc = "add" => node[i.user] # NoCoin)
    BY <1>0, <2>1, <2>2 DEF IsImporter
  <2>4. importer' = [importer EXCEPT ![c] = i]
    BY <2>1
  <2> HIDE DEF i
  <2> QED
    BY <1>0, <1>1, <1>2, <1>3, <2>2, <2>3, <2>4, ImporterStep
<1>7. CASE ImportCreate(c)
  <2> DEFINE u == importer[c].user
             i == [importer[c] EXCEPT !.pc = "add"]
  <2>1. importer[c].pc = "create" /\ UNCHANGED <<registered, listAge>>
    BY <1>7 DEF ImportCreate
  <2>2. u \in Users
    BY <1>0, <2>1 DEF IsImporter
  <2>3. CASE node[u] = NoCoin
    <3>1. node' = [node EXCEPT ![u] = c] /\ importer' = [importer EXCEPT ![c] = i]
      BY <1>7, <2>3 DEF ImportCreate
    <3>2. NodesGiven /\ NodesKept /\ node'[u] # NoCoin
      BY <1>0, <2>2, <2>3, <3>1 DEF NodesGiven, NodesKept, ListTypes
    <3>3. IsImporter(i) /\ i.user = u
      BY <1>0, <2>1 DEF IsImporter
    <3> HIDE DEF i
    <3> QED
      BY <1>0, <1>2, <1>3, <2>1, <3>1, <3>2, <3>3, ImporterStep
  <2>4. CASE node[u] # NoCoin
    <3>1. importer' = [importer EXCEPT ![c] = Rest(importer[c])] /\ UNCHANGED node
      BY <1>7, <2>4 DEF ImportCreate
    <3> QED
      BY <1>0, <1>1, <1>2, <1>3, <2>1, <3>1, RestTypes, ImporterStep
  <2> QED
    BY <2>3, <2>4
<1>8. CASE ImportFails(c)
  <2>1. PICK u \in importer[c].batch :
          importer' = [importer EXCEPT ![c] = Rest([importer[c] EXCEPT !.user = u])]
    BY <1>8 DEF ImportFails
  <2> DEFINE j == [importer[c] EXCEPT !.user = u]
  <2>2. importer[c].pc = "exists" /\ UNCHANGED <<node, registered, listAge>>
    BY <1>8 DEF ImportFails
  <2>3. IsImporter(j)
    BY <1>0, <2>1, <2>2 DEF IsImporter
  <2>4. importer' = [importer EXCEPT ![c] = Rest(j)]
    BY <2>1
  <2> HIDE DEF j
  <2> QED
    BY <1>0, <1>1, <1>2, <1>3, <2>2, <2>3, <2>4, RestTypes, ImporterStep
<1>9. CASE addUser(c)
  <2>1. Ages'
    BY <1>9, AddUserInv DEF Inv
  <2>2. UNCHANGED <<node, registered>>
    BY <1>9 DEF addUser
  <2>3. PICK p : importer' = [importer EXCEPT ![c] = [Rest(importer[c]) EXCEPT !.lastPUID = p]]
    BY <1>9 DEF addUser
  <2> DEFINE i == [Rest(importer[c]) EXCEPT !.lastPUID = p]
  <2>4. IsImporter(i) /\ i.pc # "add"
    BY <1>0, RestTypes
  <2>5. importer' = [importer EXCEPT ![c] = i]
    BY <2>3
  <2> HIDE DEF i
  <2> QED
    BY <1>0, <1>1, <1>2, <2>1, <2>2, <2>4, <2>5, ImporterStep
<1> QED
  BY <1>4, <1>5, <1>6, <1>7, <1>8, <1>9

-----------------------------------------------------------------------------
(* The steps of a request *)

\* A request that goes on with what it has not done, or ends.
Proceeds(h) ==
    /\ DOMAIN requests' = Handlers
    /\ \A k \in Handlers \ {h} : requests'[k] = requests[k]
    /\ IsRequest(requests'[h])
    /\ requests'[h].todo \subseteq requests[h].todo
    /\ requests'[h] # NoRequest => requests'[h].age = requests[h].age

\* It has not done anything yet.
Looks(h) ==
    /\ Proceeds(h)
    /\ requests[h] # NoRequest /\ requests'[h] # NoRequest
    /\ requests'[h].todo = requests[h].todo
    /\ UNCHANGED <<node, failed, delayed, cronSleep>>

\* It has done the entry of user u and coin c.
Done(h, u, c) ==
    /\ Proceeds(h)
    /\ requests[h] # NoRequest
    /\ u \in Users /\ c \in Coins /\ <<u, c>> \in requests[h].todo
    /\ failed \subseteq failed' /\ failed' \subseteq Users
    /\ h = "cron" =>
          /\ requests[h].todo \ {<<u, c>>} \subseteq requests'[h].todo
          /\ requests'[h] # NoRequest => cronSleep' = cronSleep
          /\ requests'[h] = NoRequest => cronSleep' = CronInterval
    /\ h # "cron" => cronSleep' = cronSleep

\* What has become of it.
WritesLater(u, c) ==
    \E d : /\ delayed' = delayed \cup {d}
           /\ IsDelayed(d) /\ d.user = u /\ d.coin = c
           /\ UNCHANGED node
WritesNow(u, c) == node' = [node EXCEPT ![u] = c] /\ UNCHANGED delayed
Errs(u, c) == (wish[u] = c => u \in failed') /\ UNCHANGED <<node, delayed>>

LEMMA EntryDone ==
    ASSUME Types, NEW h \in Handlers, NEW error \in BOOLEAN,
           requests[h].pc \in {"get", "set", "create"}, NextEntry(h, error)
    PROVE  /\ Done(h, requests[h].user, requests[h].coin)
           /\ error /\ wish[requests[h].user] = requests[h].coin => requests[h].user \in failed'
<1> DEFINE r == requests[h]
           u == r.user
           c == r.coin
           left == r.todo \ {<<u, c>>}
           next == [r EXCEPT !.pc = "exists", !.todo = left, !.user = NoUser, !.coin = NoCoin]
<1>1. /\ IsRequest(r) /\ u \in Users /\ c \in Coins /\ <<u, c>> \in r.todo
      /\ DOMAIN requests = Handlers /\ failed \subseteq Users
  BY DEF Types, ApiTypes, IsRequest
<1>2. r # NoRequest
  BY DEF NoRequest
<1>3. /\ requests' = [requests EXCEPT ![h] = IF left = {} \/ (error /\ h = "http") THEN NoRequest ELSE next]
      /\ failed' = IF error /\ wish[u] = c THEN failed \cup {u} ELSE failed
      /\ cronSleep' = IF h = "cron" /\ left = {} THEN CronInterval ELSE cronSleep
  BY DEF NextEntry
<1>4. /\ IsRequest(next) /\ next.todo = left /\ next.age = r.age /\ next # NoRequest
  BY <1>1 DEF IsRequest, NoRequest
<1> HIDE DEF next
<1>5. \/ requests'[h] = NoRequest /\ (h = "cron" => left = {})
      \/ requests'[h] = next /\ left # {}
  BY <1>1, <1>3
<1>6. DOMAIN requests' = Handlers /\ \A k \in Handlers \ {h} : requests'[k] = requests[k]
  BY <1>1, <1>3
<1>7. Proceeds(h)
  BY <1>4, <1>5, <1>6, IdleTypes DEF Proceeds
<1>8. failed \subseteq failed' /\ failed' \subseteq Users /\ (error /\ wish[u] = c => u \in failed')
  BY <1>1, <1>3
<1>9. /\ h = "cron" =>
          /\ left \subseteq requests'[h].todo
          /\ requests'[h] # NoRequest => cronSleep' = cronSleep
          /\ requests'[h] = NoRequest => cronSleep' = CronInterval
      /\ h # "cron" => cronSleep' = cronSleep
  BY <1>3, <1>4, <1>5
<1> QED
  BY <1>1, <1>2, <1>7, <1>8, <1>9 DEF Done

LEMMA ChangeStep ==
    ASSUME Types, NEW h \in Handlers, Change(h)
    PROVE  /\ \/ Looks(h)
              \/ \E u \in Users, c \in Coins :
                    Done(h, u, c) /\ (WritesLater(u, c) \/ WritesNow(u, c) \/ Errs(u, c))
           /\ UNCHANGED <<listVars, wish, wishAge, lastRequestDate, calm>>
           /\ budget' = budget \/ Spend("faults")
<1> DEFINE r == requests[h]
           u == r.user
           c == r.coin
<1>0. /\ UNCHANGED <<listVars, wish, wishAge, lastRequestDate, calm>>
      /\ budget' = budget \/ Spend("faults")
  BY DEF Change, ChangeExists, ChangeGet, ChangeSet, ChangeCreate, ChangeFails, UnchangedByEntry
<1>1. /\ IsRequest(r) /\ DOMAIN requests = Handlers /\ listAge \in [Coins -> [Users -> Unlisted .. SafetyPeriod]]
  BY DEF Types, ApiTypes, ListTypes, Ages
<1>2. r.pc # "idle" => r # NoRequest
  BY DEF NoRequest
<1>3. r.pc \in {"get", "set", "create"} => u \in Users /\ c \in Coins
  BY <1>1 DEF IsRequest
<1>4. CASE ChangeExists(h)
  <2>1. PICK entry \in r.todo :
          requests' = [requests EXCEPT ![h] =
             [r EXCEPT !.user = entry[1], !.coin = entry[2],
                       !.pc = IF node[entry[1]] = NoCoin THEN "create" ELSE "get"]]
    BY <1>4 DEF ChangeExists
  <2> DEFINE next == [r EXCEPT !.user = entry[1], !.coin = entry[2],
                       !.pc = IF node[entry[1]] = NoCoin THEN "create" ELSE "get"]
  <2>2. entry[1] \in Users /\ entry[2] \in Coins /\ entry = <<entry[1], entry[2]>>
    BY <1>1, <2>1 DEF IsRequest
  <2>3. IsRequest(next) /\ next.todo = r.todo /\ next.age = r.age /\ next.pc # "idle"
    BY <1>1, <2>1, <2>2 DEF IsRequest
  <2>4. requests' = [requests EXCEPT ![h] = next]
    BY <2>1
  <2> HIDE DEF next
  <2>5. next # NoRequest
    BY <2>3 DEF NoRequest
  <2>6. r.pc = "exists" /\ UNCHANGED <<node, failed, delayed, cronSleep>>
    BY <1>4 DEF ChangeExists
  <2>7. Looks(h)
    BY <1>1, <1>2, <2>3, <2>4, <2>5, <2>6 DEF Looks, Proceeds
  <2> QED
    BY <1>0, <2>7
<1>5. CASE ChangeGet(h)
  <2> DEFINE age == listAge[c][u]
  <2>1. r.pc = "get" /\ UNCHANGED node
    BY <1>5 DEF ChangeGet
  <2>2. CASE age = SafetyPeriod
    <3> DEFINE next == [r EXCEPT !.pc = "set"]
    <3>1. requests' = [requests EXCEPT ![h] = next] /\ UNCHANGED <<failed, delayed, cronSleep>>
      BY <1>1, <1>5, <2>2 DEF ChangeGet
    <3>2. IsRequest(next) /\ next.todo = r.todo /\ next.age = r.age /\ next.pc # "idle"
      BY <1>1, <2>1 DEF IsRequest
    <3> HIDE DEF next
    <3>3. next # NoRequest
      BY <3>2 DEF NoRequest
    <3>4. Looks(h)
      BY <1>1, <1>2, <2>1, <3>1, <3>2, <3>3 DEF Looks, Proceeds
    <3> QED
      BY <1>0, <3>4
  <2>3. CASE age # SafetyPeriod
    <3> DEFINE d == [user |-> u, coin |-> c, left |-> SleepTime(age)]
    <3>1. delayed' = delayed \cup {d} /\ NextEntry(h, FALSE)
      BY <1>5, <2>3 DEF ChangeGet
    <3>2. age \in Unlisted .. SafetyPeriod
      BY <1>1, <1>3, <2>1
    <3>3. SleepTime(age) \in 0 .. SafetyPeriod
      BY <3>2, Bounds DEF SleepTime, Unlisted
    <3>4. IsDelayed(d) /\ d.user = u /\ d.coin = c
      BY <1>3, <2>1, <3>3 DEF IsDelayed
    <3> HIDE DEF d
    <3>5. WritesLater(u, c)
      BY <2>1, <3>1, <3>4 DEF WritesLater
    <3>6. Done(h, u, c)
      BY <2>1, <3>1, EntryDone
    <3> QED
      BY <1>0, <1>3, <2>1, <3>5, <3>6
  <2> QED
    BY <2>2, <2>3
<1>6. CASE ChangeSet(h)
  <2>1. r.pc = "set" /\ NextEntry(h, FALSE) /\ WritesNow(u, c)
    BY <1>6 DEF ChangeSet, WritesNow
  <2>2. Done(h, u, c)
    BY <2>1, EntryDone
  <2> QED
    BY <1>0, <1>3, <2>1, <2>2
<1>7. CASE ChangeCreate(h)
  <2>1. r.pc = "create" /\ UNCHANGED delayed
    BY <1>7 DEF ChangeCreate
  <2>2. CASE node[u] = NoCoin
    <3>1. NextEntry(h, FALSE) /\ WritesNow(u, c)
      BY <1>7, <2>2 DEF ChangeCreate, WritesNow, NextEntry
    <3>2. Done(h, u, c)
      BY <2>1, <3>1, EntryDone
    <3> QED
      BY <1>0, <1>3, <2>1, <3>1, <3>2
  <2>3. CASE node[u] # NoCoin
    <3>1. NextEntry(h, TRUE) /\ UNCHANGED node
      BY <1>7, <2>3 DEF ChangeCreate, NextEntry
    <3>2. Done(h, u, c) /\ Errs(u, c)
      BY <2>1, <3>1, EntryDone DEF Errs
    <3> QED
      BY <1>0, <1>3, <2>1, <3>2
  <2> QED
    BY <2>2, <2>3
<1>8. CASE ChangeFails(h)
  <2>1. r.pc \in {"get", "set", "create"} /\ NextEntry(h, TRUE) /\ UNCHANGED <<node, delayed>>
    BY <1>8 DEF ChangeFails
  <2>2. Done(h, u, c) /\ Errs(u, c)
    BY <2>1, EntryDone DEF Errs
  <2> QED
    BY <1>0, <1>3, <2>1, <2>2
<1> QED
  BY <1>4, <1>5, <1>6, <1>7, <1>8 DEF Change

-----------------------------------------------------------------------------
(* Types of the switches *)

\* What is left to happen in a run that has begun with bounds b.
BudgetFits(b) ==
    /\ DOMAIN budget = {"users", "nodes", "registrations", "switches", "faults", "queries"}
    /\ budget.users \subseteq Users
    /\ budget.faults \in 0 .. b.faults

LEMMA SpendFits ==
    ASSUME NEW b \in Budgets, BudgetFits(b),
           NEW what \in {"registrations", "switches", "faults", "queries"}, Spend(what)
    PROVE  /\ BudgetFits(b)'
           /\ budget'.faults = IF what = "faults" THEN budget.faults - 1 ELSE budget.faults
<1>1. budget[what] > 0 /\ budget' = [budget EXCEPT ![what] = budget[what] - 1]
  BY DEF Spend
<1>2. b.faults \in Nat
  BY Bounds
<1>3. CASE what = "faults"
  BY <1>1, <1>2, <1>3 DEF BudgetFits
<1>4. CASE what # "faults"
  <2>1. budget'.faults = budget.faults /\ budget'.users = budget.users /\ DOMAIN budget' = DOMAIN budget
    BY <1>1, <1>4 DEF BudgetFits
  <2> QED
    BY <1>4, <2>1 DEF BudgetFits
<1> QED
  BY <1>3, <1>4

\* A tick of the clock makes the requests older and does nothing else.
LEMMA TickRequests ==
    ASSUME Types, Tick, NEW h \in Handlers
    PROVE  /\ IsRequest(requests'[h]) /\ DOMAIN requests' = Handlers
           /\ requests'[h].todo = requests[h].todo
           /\ requests'[h] = NoRequest <=> requests[h] = NoRequest
           /\ requests[h] # NoRequest => requests'[h].age = requests[h].age + 1
<1>1. /\ requests' = [k \in Handlers |-> IF requests[k] = NoRequest THEN NoRequest
                                         ELSE [requests[k] EXCEPT !.age = @ + 1]]
      /\ requests[h].age < Latency \/ requests[h] = NoRequest
  BY DEF Tick
<1>2. IsRequest(requests[h]) /\ Latency \in Nat
  BY Bounds DEF Types, ApiTypes
<1>3. CASE requests[h] = NoRequest
  BY <1>1, <1>3, IdleTypes
<1>4. CASE requests[h] # NoRequest
  <2> DEFINE next == [requests[h] EXCEPT !.age = requests[h].age + 1]
  <2>1. requests'[h] = next /\ DOMAIN requests' = Handlers
    BY <1>1, <1>4
  <2>2. /\ DOMAIN next = DOMAIN requests[h]
        /\ next.pc = requests[h].pc /\ next.todo = requests[h].todo
        /\ next.user = requests[h].user /\ next.coin = requests[h].coin
        /\ next.age = requests[h].age + 1
    BY <1>2 DEF IsRequest
  <2> HIDE DEF next
  <2>3. IsRequest(next)
    BY <1>1, <1>2, <1>4, <2>2 DEF IsRequest
  <2>4. next # NoRequest
    BY <1>2, <2>2 DEF IsRequest, NoRequest
  <2> QED
    BY <1>4, <2>1, <2>2, <2>3, <2>4
<1> QED
  BY <1>3, <1>4

\* So do the goroutines that write later.
LEMMA TickDelayed ==
    ASSUME Types, Tick
    PROVE  /\ \A e \in delayed' : \E d \in delayed :
                 e.user = d.user /\ e.coin = d.coin /\ e.left = d.left - 1 /\ IsDelayed(e)
           /\ \A d \in delayed : \E e \in delayed' :
                 e.user = d.user /\ e.coin = d.coin /\ e.left = d.left - 1
<1>1. delayed' = {[d EXCEPT !.left = @ - 1] : d \in delayed} /\ \A d \in delayed : d.left > 0
  BY DEF Tick
<1>2. ASSUME NEW d \in delayed, NEW e, e = [d EXCEPT !.left = @ - 1]
      PROVE  e.user = d.user /\ e.coin = d.coin /\ e.left = d.left - 1 /\ IsDelayed(e)
  BY <1>1, <1>2, Bounds DEF Types, ApiTypes, IsDelayed
<1>3. ASSUME NEW e \in delayed'
      PROVE  \E d \in delayed : e = [d EXCEPT !.left = @ - 1]
  BY <1>1
<1>4. ASSUME NEW d \in delayed
      PROVE  [d EXCEPT !.left = @ - 1] \in delayed'
  BY <1>1
<1>5. ASSUME NEW e \in delayed'
      PROVE  \E d \in delayed : e.user = d.user /\ e.coin = d.coin /\ e.left = d.left - 1 /\ IsDelayed(e)
  BY <1>2, <1>3
<1>6. ASSUME NEW d \in delayed
      PROVE  \E e \in delayed' : e.user = d.user /\ e.coin = d.coin /\ e.left = d.left - 1
  BY <1>2, <1>4
<1> QED
  BY <1>5, <1>6

LEMMA TickTypes ==
    ASSUME Inv, Types, Tick
    PROVE  Types'
<1>1. Ages'
  BY TickInv DEF Inv
<1>2. UNCHANGED <<node, registered, importer, wish, failed>>
  BY DEF Tick
<1>3. ListTypes'
  BY <1>1, <1>2 DEF Types, ListTypes
<1>4. \A age \in 0 .. Cap : Older(age) \in 0 .. Cap
  BY Bounds DEF Older, Unlisted
<1>5. Older(Never) = Never
  BY DEF Older, Never, Unlisted
<1>6. /\ wishAge' = [u \in Users |-> Older(wishAge[u])] /\ calm' = Older(calm)
      /\ lastRequestDate' = Older(lastRequestDate)
      /\ cronSleep' = IF cronSleep > 0 THEN cronSleep - 1 ELSE 0
  BY DEF Tick
<1>7. wishAge' \in [Users -> 0 .. Cap] /\ calm' \in 0 .. Cap
  BY <1>4, <1>6 DEF Types, ApiTypes
<1>8. lastRequestDate \in 0 .. Cap \/ lastRequestDate = Never
  BY Bounds DEF Types, ApiTypes, Never
<1>9. lastRequestDate' \in Never .. Cap
  BY <1>4, <1>5, <1>6, <1>8, Bounds DEF Never
<1>10. cronSleep' \in 0 .. CronInterval
  BY <1>6, Bounds DEF Types, ApiTypes
<1>11. DOMAIN requests' = Handlers /\ \A h \in Handlers : IsRequest(requests'[h])
  BY TickRequests DEF Handlers
<1>12. \A e \in delayed' : IsDelayed(e)
  BY TickDelayed
<1> QED
  BY <1>2, <1>3, <1>7, <1>9, <1>10, <1>11, <1>12 DEF Types, ApiTypes

\* A write of a coin to the node of a user.
LEMMA WriteKeeps ==
    ASSUME Types, NEW u \in Users, NEW c \in Coins, node' = [node EXCEPT ![u] = c]
    PROVE  NodesKept
BY ListAssumption DEF Types, ListTypes, NodesKept

LEMMA SameNodes ==
    ASSUME Types, UNCHANGED node
    PROVE  NodesKept
BY DEF Types, ListTypes, NodesKept

LEMMA ChangeTypes ==
    ASSUME Types, NEW h \in Handlers, Change(h)
    PROVE  Types'
<1>1. UNCHANGED <<registered, importer, listAge, wish, wishAge, lastRequestDate, calm>>
  BY ChangeStep DEF listVars
<1>2. ASSUME Proceeds(h)
      PROVE  DOMAIN requests' = Handlers /\ \A k \in Handlers : IsRequest(requests'[k])
  BY <1>2 DEF Proceeds, Types, ApiTypes
<1>3. CASE Looks(h)
  <2>1. NodesKept
    BY <1>3, SameNodes DEF Looks
  <2>2. ListTypes'
    BY <1>1, <2>1, NodesStep DEF Types
  <2> QED
    BY <1>1, <1>2, <1>3, <2>2 DEF Looks, Types, ApiTypes
<1>4. ASSUME NEW u \in Users, NEW c \in Coins, Done(h, u, c),
             WritesLater(u, c) \/ WritesNow(u, c) \/ Errs(u, c)
      PROVE  Types'
  <2>1. NodesKept
    BY <1>4, SameNodes, WriteKeeps DEF WritesLater, WritesNow, Errs
  <2>2. ListTypes'
    BY <1>1, <2>1, NodesStep DEF Types
  <2>3. \A d \in delayed' : IsDelayed(d)
    BY <1>4 DEF WritesLater, WritesNow, Errs, Types, ApiTypes
  <2>4. cronSleep' \in 0 .. CronInterval
    <3>1. cronSleep' \in {cronSleep, CronInterval}
      BY <1>4 DEF Done
    <3> QED
      BY <3>1, Bounds DEF Types, ApiTypes
  <2>5. failed' \subseteq Users /\ Proceeds(h)
    BY <1>4 DEF Done
  <2> QED
    BY <1>1, <1>2, <2>2, <2>3, <2>4, <2>5 DEF Types, ApiTypes
<1> QED
  BY <1>3, <1>4, ChangeStep

LEMMA NewRequest ==
    ASSUME NEW todo, todo \subseteq Users \X Coins,
           NEW r, r = [NoRequest EXCEPT !.pc = "exists", !.todo = todo]
    PROVE  IsRequest(r) /\ r.todo = todo /\ r.age = 0 /\ r # NoRequest
<1>1. Latency \in Nat
  BY Bounds
<1>2. /\ DOMAIN r = {"pc", "todo", "user", "coin", "age"}
      /\ r.pc = "exists" /\ r.todo = todo /\ r.age = 0
  BY DEF NoRequest
<1>3. NoRequest.pc = "idle"
  BY DEF NoRequest
<1>4. IsRequest(r)
  BY <1>1, <1>2 DEF IsRequest
<1> QED
  BY <1>2, <1>3, <1>4

\* The steps of the website, of the cron job and of the delayed writes.
LEMMA SwitchStep ==
    ASSUME Types, NEW b \in Budgets, BudgetFits(b), Switch
    PROVE  \E us \in SUBSET Users, c \in Coins :
              /\ wish' = [u \in Users |-> IF u \in us THEN c ELSE wish[u]]
              /\ wishAge' = [u \in Users |-> IF u \in us THEN 0 ELSE wishAge[u]]
              /\ failed' = failed \ us
              /\ \/ requests' = requests
                 \/ \E r : /\ requests' = [requests EXCEPT !["http"] = r]
                           /\ IsRequest(r) /\ r.todo = us \X {c} /\ r.age = 0
<1>1. PICK us \in SUBSET budget.users \ {{}}, c \in Coins, sent \in BOOLEAN :
        /\ wish' = [u \in Users |-> IF u \in us THEN c ELSE wish[u]]
        /\ wishAge' = [u \in Users |-> IF u \in us THEN 0 ELSE wishAge[u]]
        /\ failed' = failed \ us
        /\ requests' = IF sent
                       THEN [requests EXCEPT !["http"] = [NoRequest EXCEPT !.pc = "exists", !.todo = us \X {c}]]
                       ELSE requests
  BY DEF Switch
<1>2. us \in SUBSET Users
  BY DEF BudgetFits
<1> DEFINE r == [NoRequest EXCEPT !.pc = "exists", !.todo = us \X {c}]
<1>3. us \X {c} \subseteq Users \X Coins
  BY <1>2
<1>4. IsRequest(r) /\ r.todo = us \X {c} /\ r.age = 0
  BY <1>3, NewRequest
<1>5. requests' = requests \/ requests' = [requests EXCEPT !["http"] = r]
  BY <1>1
<1> HIDE DEF r
<1>6. \/ requests' = requests
      \/ \E q : /\ requests' = [requests EXCEPT !["http"] = q]
                /\ IsRequest(q) /\ q.todo = us \X {c} /\ q.age = 0
  BY <1>4, <1>5
<1> QED
  BY <1>1, <1>2, <1>6

LEMMA SwitchTypes ==
    ASSUME Types, NEW b \in Budgets, BudgetFits(b), Switch
    PROVE  Types'
<1>1. PICK us \in SUBSET Users, c \in Coins :
        /\ wish' = [u \in Users |-> IF u \in us THEN c ELSE wish[u]]
        /\ wishAge' = [u \in Users |-> IF u \in us THEN 0 ELSE wishAge[u]]
        /\ failed' = failed \ us
        /\ \/ requests' = requests
           \/ \E r : requests' = [requests EXCEPT !["http"] = r] /\ IsRequest(r)
  BY SwitchStep
<1>2. UNCHANGED <<node, registered, importer, listAge, delayed, cronSleep, lastRequestDate, calm>>
  BY DEF Switch, listVars
<1>3. ListTypes'
  BY <1>2, NodesStep, SameNodes DEF Types
<1>4. wish' \in [Users -> Coins \cup {NoCoin}]
  BY <1>1 DEF Types, ApiTypes
<1>5. wishAge' \in [Users -> 0 .. Cap]
  BY <1>1, Bounds DEF Types, ApiTypes
<1>6. DOMAIN requests' = Handlers /\ \A h \in Handlers : IsRequest(requests'[h])
  BY <1>1 DEF Types, ApiTypes
<1>7. failed' \subseteq Users
  BY <1>1 DEF Types, ApiTypes
<1> QED
  BY <1>2, <1>3, <1>4, <1>5, <1>6, <1>7 DEF Types, ApiTypes

\* A pull: the request of the cron job has the entries that are to be pulled.
Pulled(u) == wish[u] # NoCoin /\ (lastRequestDate = Never \/ wishAge[u] <= Window)

LEMMA PullStep ==
    ASSUME Types, CronPull
    PROVE  /\ lastRequestDate' = 0 /\ requests["cron"] = NoRequest /\ cronSleep = 0
           /\ DOMAIN requests' = Handlers
           /\ requests'["http"] = requests["http"]
           /\ IsRequest(requests'["cron"]) /\ requests'["cron"].age = 0
           /\ \A u \in Users, c \in Coins :
                 <<u, c>> \in requests'["cron"].todo <=> Pulled(u) /\ c = wish[u]
           /\ requests'["cron"] = NoRequest => cronSleep' = CronInterval
           /\ requests'["cron"] # NoRequest => cronSleep' = 0
<1> DEFINE changed == {u \in Users : Pulled(u)}
           todo == {<<u, wish[u]>> : u \in changed}
           r == [NoRequest EXCEPT !.pc = "exists", !.todo = todo]
<1>1. /\ lastRequestDate' = 0 /\ requests["cron"] = NoRequest /\ cronSleep = 0
      /\ changed = {} => cronSleep' = CronInterval /\ UNCHANGED requests
      /\ changed # {} => requests' = [requests EXCEPT !["cron"] = r] /\ UNCHANGED cronSleep
  BY DEF CronPull, Pulled
<1>2. wish \in [Users -> Coins \cup {NoCoin}] /\ DOMAIN requests = Handlers
  BY DEF Types, ApiTypes
<1>3. todo \subseteq Users \X Coins
  BY <1>2 DEF Pulled
<1>4. \A u \in Users, c \in Coins : <<u, c>> \in todo <=> Pulled(u) /\ c = wish[u]
  OBVIOUS
<1>5. changed = {} => \A u \in Users : ~Pulled(u)
  OBVIOUS
<1> HIDE DEF changed, todo
<1>6. r = [NoRequest EXCEPT !.pc = "exists", !.todo = todo]
  OBVIOUS
<1> HIDE DEF r
<1>7. IsRequest(r) /\ r.todo = todo /\ r.age = 0 /\ r # NoRequest /\ NoRequest.age = 0
  BY <1>3, <1>6, NewRequest DEF NoRequest
<1>8. CASE changed = {}
  BY <1>1, <1>2, <1>5, <1>7, <1>8, IdleTypes
<1>9. CASE changed # {}
  BY <1>1, <1>2, <1>4, <1>7, <1>9 DEF Handlers
<1> QED
  BY <1>8, <1>9

LEMMA PullTypes ==
    ASSUME Types, CronPull \/ CronPullFails
    PROVE  Types'
<1>1. UNCHANGED <<node, registered, importer, listAge, wish, wishAge, failed, delayed>>
  BY DEF CronPull, CronPullFails, listVars
<1>2. ListTypes'
  BY <1>1, NodesStep, SameNodes DEF Types
<1>3. CASE CronPull
  <2>1. DOMAIN requests' = Handlers /\ \A h \in Handlers : IsRequest(requests'[h])
    BY <1>3, PullStep DEF Handlers, Types, ApiTypes
  <2>2. cronSleep' \in 0 .. CronInterval /\ lastRequestDate' \in Never .. Cap
    BY <1>3, PullStep, Bounds DEF Never
  <2>3. calm' = calm
    BY <1>3 DEF CronPull
  <2> QED
    BY <1>1, <1>2, <2>1, <2>2, <2>3 DEF Types, ApiTypes
<1>4. CASE CronPullFails
  <2>1. cronSleep' = CronInterval /\ calm' = 0 /\ UNCHANGED <<requests, lastRequestDate>>
    BY <1>4 DEF CronPullFails
  <2> QED
    BY <1>1, <1>2, <2>1, Bounds DEF Types, ApiTypes
<1> QED
  BY <1>3, <1>4

LEMMA DelayedStep ==
    ASSUME Types, DelayedSet
    PROVE  \E d \in delayed :
              /\ d.left = 0 /\ delayed' = delayed \ {d} /\ failed \subseteq failed' /\ failed' \subseteq Users
              /\ \/ node' = [node EXCEPT ![d.user] = d.coin]
                 \/ node' = node /\ (wish[d.user] = d.coin => d.user \in failed')
<1>1. PICK d \in delayed, error \in BOOLEAN :
        /\ d.left = 0 /\ delayed' = delayed \ {d}
        /\ node' = IF error THEN node ELSE [node EXCEPT ![d.user] = d.coin]
        /\ failed' = IF error /\ wish[d.user] = d.coin THEN failed \cup {d.user} ELSE failed
  BY DEF DelayedSet
<1>2. d.user \in Users /\ failed \subseteq Users
  BY DEF Types, ApiTypes, IsDelayed
<1>3. failed \subseteq failed' /\ failed' \subseteq Users
  BY <1>1, <1>2
<1>4. \/ node' = [node EXCEPT ![d.user] = d.coin]
      \/ node' = node /\ (wish[d.user] = d.coin => d.user \in failed')
  BY <1>1
<1> QED
  BY <1>1, <1>3, <1>4

LEMMA DelayedTypes ==
    ASSUME Types, DelayedSet
    PROVE  Types'
<1>1. UNCHANGED <<registered, importer, listAge, wish, wishAge, requests, cronSleep, lastRequestDate, calm>>
  BY DEF DelayedSet, listVars
<1>2. PICK d \in delayed :
        /\ delayed' = delayed \ {d} /\ failed' \subseteq Users
        /\ node' = [node EXCEPT ![d.user] = d.coin] \/ node' = node
  BY DelayedStep
<1>3. d.user \in Users /\ d.coin \in Coins
  BY DEF Types, ApiTypes, IsDelayed
<1>4. NodesKept
  BY <1>2, <1>3, SameNodes, WriteKeeps
<1>5. ListTypes'
  BY <1>1, <1>4, NodesStep DEF Types
<1> QED
  BY <1>1, <1>2, <1>5 DEF Types, ApiTypes

LEMMA RestartTypes ==
    ASSUME Inv, Types, Restart
    PROVE  Types'
<1>1. /\ UNCHANGED <<node, registered, wish, wishAge, failed>>
      /\ importer' = [c \in Coins |-> Idle]
      /\ requests' = [h \in Handlers |-> NoRequest]
      /\ delayed' = {} /\ cronSleep' = CronInterval /\ lastRequestDate' = Never /\ calm' = 0
  BY DEF Restart, ListStarts
<1>2. Ages' /\ Idle.pc = "sleep"
  BY RestartInv DEF Inv, Idle
<1>3. ListTypes'
  BY <1>1, <1>2, IdleTypes DEF Types, ListTypes
<1> QED
  BY <1>1, <1>3, IdleTypes, Bounds DEF Types, ApiTypes, Never

LEMMA QuietTypes ==
    ASSUME Types, UNCHANGED <<node, registered, importer, listAge, apiVars>>
    PROVE  Types'
BY DEF Types, ListTypes, ApiTypes, Ages, apiVars

LEMMA NextTypes ==
    ASSUME Inv, Types, NEW b \in Budgets, BudgetFits(b), [Next]_vars
    PROVE  Types'
<1>1. ASSUME NEW c \in Coins, Import(c)
      PROVE  Types'
  <2>1. ListTypes'
    BY <1>1, ImportTypes DEF Import
  <2> QED
    BY <1>1, <2>1 DEF Import, Types, ApiTypes, apiVars
<1>2. CASE getUserIDList
  BY <1>2, QuietTypes DEF getUserIDList, getUserListJson
<1>3. CASE UNCHANGED vars
  BY <1>3, QuietTypes DEF vars, listVars
<1> QED
  BY <1>1, <1>2, <1>3, SwitchTypes, RestartTypes, TickTypes, ChangeTypes, DelayedTypes,
     PullTypes DEF Next

-----------------------------------------------------------------------------
(* The times of the cron job *)

\* The cron job sleeps, since it has pulled or since a pull has failed; or it
\* handles what it has pulled.
CronOnTime ==
    IF requests["cron"] # NoRequest
    THEN cronSleep = 0 /\ lastRequestDate = requests["cron"].age
    ELSE \/ calm <= CronInterval - cronSleep
         \/ lastRequestDate # Never /\ lastRequestDate <= Latency + CronInterval - cronSleep

\* The intervals since the last pull that succeeded: one, and one for each
\* pull that has failed.
Intervals(b) == (b.faults - budget.faults + 1) * CronInterval

DateFits(b) ==
    requests["cron"] = NoRequest /\ lastRequestDate # Never =>
        lastRequestDate <= Latency + Intervals(b) - cronSleep

Budgeted == \E b \in Budgets : BudgetFits(b) /\ DateFits(b)

LEMMA IntervalsFit ==
    ASSUME NEW b \in Budgets, NEW m \in 0 .. b.faults, NEW n \in 0 .. m
    PROVE  /\ (b.faults - m + 1) * CronInterval \in Nat
           /\ (b.faults - n + 1) * CronInterval \in Nat
           /\ CronInterval <= (b.faults - m + 1) * CronInterval
           /\ (b.faults - m + 1) * CronInterval <= (b.faults - n + 1) * CronInterval
           /\ n = m - 1 => (b.faults - n + 1) * CronInterval = (b.faults - m + 1) * CronInterval + CronInterval
           /\ Latency + (b.faults - m + 1) * CronInterval < Cap - CronInterval
<1>1. b.faults \in Nat /\ Cap > (2 + b.faults) * CronInterval + Latency
  BY BudgetAssumption
<1>2. CronInterval \in Nat /\ Latency \in Nat /\ Cap \in Nat /\ m \in Nat /\ n \in Nat
  BY <1>1, TimeAssumption
<1>3. \A i, j \in Nat : i * j \in Nat
  OBVIOUS
<1>4. \A i \in Nat : (i + 1) * CronInterval = i * CronInterval + CronInterval
  BY <1>2
<1>5. PICK i \in Nat : i = b.faults - m
  BY <1>1, <1>2
<1>6. PICK j \in Nat : j = m - n
  BY <1>1, <1>2
<1>7. b.faults - m + 1 = i + 1 /\ b.faults - n + 1 = (i + j) + 1 /\ i + j \in Nat
  BY <1>1, <1>2, <1>5, <1>6
<1>8. (i + j) * CronInterval = i * CronInterval + j * CronInterval
  BY <1>2
<1>9. i * CronInterval \in Nat /\ j * CronInterval \in Nat /\ (i + j) * CronInterval \in Nat
  BY <1>2, <1>3, <1>7
<1>10. n = m - 1 => (i + j) * CronInterval = i * CronInterval + CronInterval
  <2>1. n = m - 1 => i + j = i + 1
    BY <1>1, <1>2, <1>6
  <2> QED
    BY <1>4, <2>1
<1>11. (2 + b.faults) * CronInterval = i * CronInterval + m * CronInterval + 2 * CronInterval
  <2>1. 2 + b.faults = i + m + 2
    BY <1>1, <1>2, <1>5
  <2>2. (i + m + 2) * CronInterval = i * CronInterval + m * CronInterval + 2 * CronInterval
    BY <1>2
  <2> QED
    BY <2>1, <2>2
<1>12. m * CronInterval \in Nat
  BY <1>2, <1>3
<1>13. Latency + (i * CronInterval + CronInterval) < Cap - CronInterval
  BY <1>1, <1>2, <1>9, <1>11, <1>12
<1> QED
  BY <1>2, <1>4, <1>7, <1>8, <1>9, <1>10, <1>13

\* A step that leaves the cron job alone, and may use up what may fail.
LEMMA DateKept ==
    ASSUME Types, NEW b \in Budgets, BudgetFits(b), BudgetFits(b)', DateFits(b),
           budget'.faults <= budget.faults,
           UNCHANGED <<requests["cron"], lastRequestDate, cronSleep>>
    PROVE  DateFits(b)'
<1>1. /\ budget.faults \in 0 .. b.faults /\ budget'.faults \in 0 .. budget.faults
  BY DEF BudgetFits
<1>2. Intervals(b) \in Nat /\ Intervals(b)' \in Nat /\ Intervals(b) <= Intervals(b)'
  BY <1>1, IntervalsFit DEF Intervals
<1>3. Latency \in Nat /\ cronSleep \in Nat /\ lastRequestDate \in Int
  BY Bounds DEF Types, ApiTypes, Never
<1> QED
  BY <1>2, <1>3 DEF DateFits

\* The cron job goes to sleep after a pull that succeeded.
LEMMA DateFresh ==
    ASSUME Types', NEW b \in Budgets, BudgetFits(b)',
           lastRequestDate' <= Latency, cronSleep' = CronInterval
    PROVE  DateFits(b)'
<1>1. budget'.faults \in 0 .. b.faults
  BY DEF BudgetFits
<1>2. 0 \in 0 .. budget'.faults
  BY <1>1, Bounds
<1>3. Intervals(b)' \in Nat /\ CronInterval <= Intervals(b)'
  BY <1>1, <1>2, IntervalsFit DEF Intervals
<1>4. Latency \in Nat /\ CronInterval \in Nat /\ lastRequestDate' \in Int
  BY Bounds DEF Types, ApiTypes, Never
<1> QED
  BY <1>3, <1>4 DEF DateFits

\* What a step of the clock does to the ages.
LEMMA TickAges ==
    ASSUME Types, Tick
    PROVE  /\ lastRequestDate' = Never <=> lastRequestDate = Never
           /\ lastRequestDate' <= lastRequestDate + 1 /\ lastRequestDate <= lastRequestDate'
           /\ lastRequestDate # Never /\ lastRequestDate < Cap => lastRequestDate' = lastRequestDate + 1
           /\ calm' <= calm + 1
           /\ \A u \in Users : wishAge'[u] <= wishAge[u] + 1
<1>1. \A age \in 0 .. Cap : /\ Older(age) \in 0 .. Cap /\ Older(age) <= age + 1 /\ age <= Older(age)
                            /\ Older(age) # Never
                            /\ age < Cap => Older(age) = age + 1
  BY Bounds DEF Older, Never, Unlisted
<1>2. Older(Never) = Never
  BY DEF Older, Never, Unlisted
<1>3. /\ calm' = Older(calm) /\ lastRequestDate' = Older(lastRequestDate)
      /\ wishAge' = [u \in Users |-> Older(wishAge[u])]
  BY DEF Tick
<1>4. /\ lastRequestDate \in 0 .. Cap \/ lastRequestDate = Never
      /\ wishAge \in [Users -> 0 .. Cap] /\ calm \in 0 .. Cap
  BY Bounds DEF Types, ApiTypes, Never
<1>5. lastRequestDate' <= lastRequestDate + 1 /\ lastRequestDate <= lastRequestDate'
  BY <1>1, <1>2, <1>3, <1>4, Bounds DEF Never
<1>6. ASSUME NEW u \in Users
      PROVE  wishAge'[u] <= wishAge[u] + 1
  <2>1. wishAge'[u] = Older(wishAge[u]) /\ wishAge[u] \in 0 .. Cap
    BY <1>3, <1>4
  <2> QED
    BY <1>1, <2>1
<1> QED
  BY <1>1, <1>2, <1>3, <1>4, <1>5, <1>6

\* The cron job is asleep or at work in each step as it should be.
LEMMA CronSame ==
    ASSUME CronOnTime, UNCHANGED <<requests["cron"], lastRequestDate, cronSleep, calm>>
    PROVE  CronOnTime'
BY DEF CronOnTime

LEMMA TickCron ==
    ASSUME Types, Types', NEW b \in Budgets, CronOnTime, Tick
    PROVE  CronOnTime'
<1>1. /\ requests'["cron"] = NoRequest <=> requests["cron"] = NoRequest
      /\ requests["cron"] # NoRequest => requests'["cron"].age = requests["cron"].age + 1
  BY TickRequests DEF Handlers
<1>2. /\ cronSleep > 0 \/ requests["cron"] # NoRequest
      /\ cronSleep' = IF cronSleep > 0 THEN cronSleep - 1 ELSE 0
  BY DEF Tick
<1>3. /\ CronInterval \in Nat /\ Latency \in Nat /\ Cap \in Nat
      /\ cronSleep \in 0 .. CronInterval /\ calm \in Nat /\ calm' \in Nat
      /\ lastRequestDate \in Int /\ lastRequestDate' \in Int
  BY Bounds DEF Types, ApiTypes, Never
<1>4. CASE requests["cron"] # NoRequest
  <2>1. cronSleep = 0 /\ lastRequestDate = requests["cron"].age
    BY <1>4 DEF CronOnTime
  <2>2. requests'["cron"].age \in 0 .. Latency /\ requests["cron"].age \in 0 .. Latency
    BY DEF Types, ApiTypes, IsRequest, Handlers
  <2>3. lastRequestDate < Cap /\ lastRequestDate # Never
    <3>1. Cap > Latency
      BY <1>3, Bounds
    <3> QED
      BY <1>3, <2>1, <2>2, <3>1 DEF Never
  <2>4. lastRequestDate' = lastRequestDate + 1
    BY <2>3, TickAges
  <2> QED
    BY <1>1, <1>2, <1>3, <1>4, <2>1, <2>4 DEF CronOnTime
<1>5. CASE requests["cron"] = NoRequest
  <2>1. cronSleep > 0 /\ cronSleep' = cronSleep - 1
    BY <1>2, <1>3, <1>5
  <2>2. calm' <= calm + 1 /\ lastRequestDate' <= lastRequestDate + 1
        /\ (lastRequestDate # Never => lastRequestDate' # Never)
    BY TickAges
  <2> QED
    BY <1>1, <1>3, <1>5, <2>1, <2>2 DEF CronOnTime
<1> QED
  BY <1>4, <1>5

\* A step of a request: the cron job goes to sleep when it has handled all of it.
LEMMA ChangeCron ==
    ASSUME Types, Types', CronOnTime, NEW h \in Handlers, Change(h)
    PROVE  /\ CronOnTime'
           /\ \/ requests'["cron"] = requests["cron"] /\ cronSleep' = cronSleep
              \/ requests'["cron"] # NoRequest
              \/ lastRequestDate' <= Latency /\ cronSleep' = CronInterval
<1>1. UNCHANGED <<lastRequestDate, calm>>
  BY ChangeStep
<1>2. /\ Latency \in Nat /\ CronInterval \in Nat
      /\ requests["cron"].age \in 0 .. Latency
  BY Bounds DEF Types, ApiTypes, IsRequest, Handlers
<1>3. CASE h # "cron"
  <2>1. requests'["cron"] = requests["cron"] /\ cronSleep' = cronSleep
    BY <1>3, ChangeStep DEF Looks, Done, Proceeds, Handlers
  <2> QED
    BY <1>1, <2>1, CronSame
<1>4. CASE h = "cron" /\ Looks(h)
  <2>1. /\ requests["cron"] # NoRequest /\ requests'["cron"] # NoRequest
        /\ requests'["cron"].age = requests["cron"].age /\ cronSleep' = cronSleep
    BY <1>4 DEF Looks, Proceeds
  <2> QED
    BY <1>1, <2>1 DEF CronOnTime
<1>5. ASSUME h = "cron", NEW u \in Users, NEW c \in Coins, Done(h, u, c)
      PROVE  CronOnTime' /\ (\/ requests'["cron"] # NoRequest
                             \/ lastRequestDate' <= Latency /\ cronSleep' = CronInterval)
  <2>1. /\ requests["cron"] # NoRequest
        /\ requests'["cron"] # NoRequest =>
              requests'["cron"].age = requests["cron"].age /\ cronSleep' = cronSleep
        /\ requests'["cron"] = NoRequest => cronSleep' = CronInterval
    BY <1>5 DEF Done, Proceeds
  <2>2. cronSleep = 0 /\ lastRequestDate = requests["cron"].age
    BY <2>1 DEF CronOnTime
  <2>3. CASE requests'["cron"] # NoRequest
    BY <1>1, <2>1, <2>2, <2>3 DEF CronOnTime
  <2>4. CASE requests'["cron"] = NoRequest
    <3>1. lastRequestDate' # Never /\ lastRequestDate' <= Latency
      BY <1>1, <1>2, <2>2 DEF Never
    <3>2. lastRequestDate' <= Latency + CronInterval - cronSleep'
      BY <1>1, <1>2, <2>1, <2>2, <2>4
    <3> QED
      BY <2>1, <2>4, <3>1, <3>2 DEF CronOnTime
  <2> QED
    BY <2>3, <2>4
<1> QED
  BY <1>3, <1>4, <1>5, ChangeStep

\* All steps: the cron job is on time, and its dates are within the bounds.
LEMMA NextDates ==
    ASSUME Types, Types', CronOnTime, NEW b \in Budgets, BudgetFits(b), DateFits(b), [Next]_vars
    PROVE  CronOnTime' /\ BudgetFits(b)' /\ DateFits(b)'
<1>0. CronInterval \in Nat /\ Latency \in Nat
  BY Bounds
<1>1. budget.faults \in Int
  BY DEF BudgetFits
<1>2. UNCHANGED budget => BudgetFits(b)' /\ budget'.faults <= budget.faults
  BY <1>1 DEF BudgetFits
<1>3. ASSUME NEW what \in {"registrations", "switches", "faults", "queries"}, Spend(what)
      PROVE  BudgetFits(b)' /\ budget'.faults <= budget.faults
  BY <1>1, <1>3, SpendFits
<1>4. ASSUME UNCHANGED <<requests["cron"], lastRequestDate, cronSleep, calm>>,
             BudgetFits(b)', budget'.faults <= budget.faults
      PROVE  CronOnTime' /\ BudgetFits(b)' /\ DateFits(b)'
  BY <1>4, CronSame, DateKept
<1>5. ASSUME NEW c \in Coins, Import(c)
      PROVE  CronOnTime' /\ BudgetFits(b)' /\ DateFits(b)'
  <2>1. budget' = budget \/ Spend("registrations") \/ Spend("faults")
    BY <1>5 DEF Import
  <2>2. UNCHANGED <<requests["cron"], lastRequestDate, cronSleep, calm>>
    BY <1>5 DEF Import, apiVars
  <2> QED
    BY <1>2, <1>3, <1>4, <2>1, <2>2
<1>6. CASE getUserIDList
  <2>1. UNCHANGED <<requests["cron"], lastRequestDate, cronSleep, calm>> /\ Spend("queries")
    BY <1>6 DEF getUserIDList, apiVars
  <2> QED
    BY <1>3, <1>4, <2>1
<1>7. CASE Switch
  <2>1. Spend("switches") /\ UNCHANGED <<lastRequestDate, cronSleep, calm>>
    BY <1>7 DEF Switch
  <2>2. requests'["cron"] = requests["cron"]
    <3>1. requests' = requests \/ \E r : requests' = [requests EXCEPT !["http"] = r]
      BY <1>7 DEF Switch
    <3> QED
      BY <3>1 DEF Types, ApiTypes, Handlers
  <2> QED
    BY <1>3, <1>4, <2>1, <2>2
<1>8. CASE Restart
  <2>1. /\ Spend("faults") /\ requests'["cron"] = NoRequest /\ cronSleep' = CronInterval
        /\ lastRequestDate' = Never /\ calm' = 0
    BY <1>8 DEF Restart, Handlers
  <2>2. CronOnTime'
    BY <1>0, <2>1 DEF CronOnTime
  <2>3. DateFits(b)'
    BY <2>1 DEF DateFits
  <2> QED
    BY <1>3, <2>1, <2>2, <2>3
<1>9. CASE Tick
  <2>1. CronOnTime' /\ UNCHANGED budget
    BY <1>9, TickCron DEF Tick
  <2>2. requests'["cron"] = NoRequest <=> requests["cron"] = NoRequest
    BY <1>9, TickRequests DEF Handlers
  <2>3. ASSUME requests["cron"] = NoRequest, lastRequestDate' # Never
        PROVE  lastRequestDate' <= Latency + Intervals(b)' - cronSleep'
    <3>1. lastRequestDate # Never /\ lastRequestDate' <= lastRequestDate + 1
      BY <1>9, <2>3, TickAges
    <3>2. cronSleep' = cronSleep - 1
      BY <1>9, <2>3, Bounds DEF Tick, Types, ApiTypes
    <3>3. lastRequestDate <= Latency + Intervals(b) - cronSleep
      BY <2>3, <3>1 DEF DateFits
    <3>4. Intervals(b)' = Intervals(b)
      BY <2>1 DEF Intervals
    <3>5. Intervals(b) \in Nat
      <4>1. budget.faults \in 0 .. b.faults /\ budget.faults \in 0 .. budget.faults
        BY Bounds DEF BudgetFits
      <4> QED
        BY <4>1, IntervalsFit DEF Intervals
    <3>6. cronSleep \in Int /\ lastRequestDate \in Int /\ lastRequestDate' \in Int
      BY Bounds DEF Types, ApiTypes, Never
    <3> QED
      BY <1>0, <3>1, <3>2, <3>3, <3>4, <3>5, <3>6
  <2> QED
    BY <1>2, <2>1, <2>2, <2>3 DEF DateFits
<1>10. ASSUME NEW h \in Handlers, Change(h)
       PROVE  CronOnTime' /\ BudgetFits(b)' /\ DateFits(b)'
  <2>1. BudgetFits(b)' /\ budget'.faults <= budget.faults
    BY <1>2, <1>3, <1>10, ChangeStep
  <2>2. CronOnTime'
    BY <1>10, ChangeCron
  <2>3. CASE requests'["cron"] = requests["cron"] /\ cronSleep' = cronSleep
    <3>1. UNCHANGED lastRequestDate
      BY <1>10, ChangeStep
    <3> QED
      BY <2>1, <2>2, <2>3, <3>1, DateKept
  <2>4. CASE requests'["cron"] # NoRequest
    BY <2>1, <2>2, <2>4 DEF DateFits
  <2>5. CASE lastRequestDate' <= Latency /\ cronSleep' = CronInterval
    BY <2>1, <2>2, <2>5, DateFresh
  <2> QED
    BY <1>10, <2>3, <2>4, <2>5, ChangeCron
<1>11. CASE DelayedSet
  <2>1. (Spend("faults") \/ UNCHANGED budget) /\ UNCHANGED <<requests, lastRequestDate, cronSleep, calm>>
    BY <1>11 DEF DelayedSet
  <2> QED
    BY <1>2, <1>3, <1>4, <2>1
<1>12. CASE CronPull
  <2>1. /\ lastRequestDate' = 0 /\ UNCHANGED budget
        /\ requests'["cron"].age = 0
        /\ requests'["cron"] = NoRequest => cronSleep' = CronInterval
        /\ requests'["cron"] # NoRequest => cronSleep' = 0
    BY <1>12, PullStep DEF CronPull
  <2>2. CASE requests'["cron"] = NoRequest
    <3>1. CronOnTime'
      BY <1>0, <2>1, <2>2 DEF CronOnTime, Never
    <3> QED
      BY <1>0, <1>2, <2>1, <2>2, <3>1, DateFresh
  <2>3. CASE requests'["cron"] # NoRequest
    BY <1>2, <2>1, <2>3 DEF CronOnTime, DateFits
  <2> QED
    BY <2>2, <2>3
<1>13. CASE CronPullFails
  <2>1. /\ Spend("faults") /\ cronSleep = 0 /\ cronSleep' = CronInterval /\ calm' = 0
        /\ UNCHANGED <<requests, lastRequestDate>> /\ requests["cron"] = NoRequest
    BY <1>13 DEF CronPullFails
  <2>2. CronOnTime'
    BY <1>0, <2>1 DEF CronOnTime
  <2>3. BudgetFits(b)' /\ budget'.faults = budget.faults - 1
    BY <2>1, SpendFits
  <2>4. Intervals(b)' = Intervals(b) + CronInterval /\ Intervals(b) \in Nat
    <3>1. budget.faults \in 0 .. b.faults /\ budget'.faults \in 0 .. budget.faults
      BY <2>3, Bounds DEF BudgetFits
    <3> QED
      BY <2>3, <3>1, IntervalsFit DEF Intervals
  <2>5. lastRequestDate \in Int
    BY Bounds DEF Types, ApiTypes, Never
  <2>6. DateFits(b)'
    BY <1>0, <2>1, <2>4, <2>5 DEF DateFits
  <2> QED
    BY <2>2, <2>3, <2>6
<1>14. CASE UNCHANGED vars
  BY <1>2, <1>4, <1>14 DEF vars, apiVars
<1> QED
  BY <1>5, <1>6, <1>7, <1>8, <1>9, <1>10, <1>11, <1>12, <1>13, <1>14 DEF Next

-----------------------------------------------------------------------------
(* Older switches *)

\* A request with another coin than the one that is wanted has begun before
\* that one was wanted, and ends soon after; so do the writes that it delays.
OldRequests ==
    \A h \in Handlers : \A u \in Users, c \in Coins :
        <<u, c>> \in requests[h].todo /\ c # wish[u] => wishAge[u] <= requests[h].age

OldDelayed ==
    \A d \in delayed : d.coin # wish[d.user] => wishAge[d.user] + d.left <= Latency + SafetyPeriod

Old == OldRequests /\ OldDelayed

LEMMA AgeTypes ==
    ASSUME Types
    PROVE  /\ \A u \in Users : wishAge[u] \in 0 .. Cap
           /\ \A h \in Handlers : requests[h].age \in 0 .. Latency
           /\ \A d \in delayed : d.user \in Users /\ d.coin \in Coins /\ d.left \in 0 .. SafetyPeriod
<1>1. \A u \in Users : wishAge[u] \in 0 .. Cap
  BY DEF Types, ApiTypes
<1>2. \A h \in Handlers : requests[h].age \in 0 .. Latency
  BY DEF Types, ApiTypes, IsRequest
<1>3. \A d \in delayed : d.user \in Users /\ d.coin \in Coins /\ d.left \in 0 .. SafetyPeriod
  BY DEF Types, ApiTypes, IsDelayed
<1> QED
  BY <1>1, <1>2, <1>3

LEMMA TickOld ==
    ASSUME Types, Types', Old, Tick
    PROVE  Old'
<1>0. wish' = wish
  BY DEF Tick
<1>1. ASSUME NEW h \in Handlers, NEW u \in Users, NEW c \in Coins,
             <<u, c>> \in requests'[h].todo, c # wish'[u]
      PROVE  wishAge'[u] <= requests'[h].age
  <2>1. <<u, c>> \in requests[h].todo /\ requests[h] # NoRequest
    BY <1>1, TickRequests, IdleTypes
  <2>2. requests'[h].age = requests[h].age + 1 /\ wishAge'[u] <= wishAge[u] + 1
    BY <2>1, TickRequests, TickAges
  <2>3. wishAge[u] <= requests[h].age
    BY <1>0, <1>1, <2>1 DEF Old, OldRequests
  <2>4. wishAge[u] \in Int /\ wishAge'[u] \in Int /\ requests[h].age \in Int
    <3>1. wishAge' \in [Users -> 0 .. Cap]
      BY DEF Types, ApiTypes
    <3> QED
      BY <3>1, AgeTypes
  <2> QED
    BY <2>2, <2>3, <2>4
<1>2. ASSUME NEW e \in delayed', e.coin # wish'[e.user]
      PROVE  wishAge'[e.user] + e.left <= Latency + SafetyPeriod
  <2>1. PICK d \in delayed : e.user = d.user /\ e.coin = d.coin /\ e.left = d.left - 1
    BY TickDelayed
  <2>2. d.user \in Users /\ d.left \in Int
    BY DEF Types, ApiTypes, IsDelayed
  <2>3. wishAge'[d.user] <= wishAge[d.user] + 1
    BY <2>2, TickAges
  <2>4. wishAge[d.user] + d.left <= Latency + SafetyPeriod
    BY <1>0, <1>2, <2>1 DEF Old, OldDelayed
  <2>5. wishAge[d.user] \in Int /\ wishAge'[d.user] \in Int
    <3>1. wishAge' \in [Users -> 0 .. Cap]
      BY DEF Types, ApiTypes
    <3>2. wishAge'[d.user] \in 0 .. Cap /\ wishAge[d.user] \in 0 .. Cap
      BY <2>2, <3>1, AgeTypes
    <3> QED
      BY <3>2
  <2> QED
    BY <2>1, <2>2, <2>3, <2>4, <2>5, Bounds
<1> QED
  BY <1>1, <1>2 DEF Old, OldRequests, OldDelayed

LEMMA ChangeOld ==
    ASSUME Types, Old, NEW h \in Handlers, Change(h)
    PROVE  Old'
<1>1. UNCHANGED <<wish, wishAge>>
  BY ChangeStep
<1>2. ASSUME Proceeds(h)
      PROVE  OldRequests'
  <2> SUFFICES ASSUME NEW k \in Handlers, NEW u \in Users, NEW c \in Coins,
                      <<u, c>> \in requests'[k].todo, c # wish[u]
               PROVE  wishAge[u] <= requests'[k].age
    BY <1>1 DEF OldRequests
  <2>1. <<u, c>> \in requests[k].todo /\ requests'[k].age = requests[k].age
    BY <1>2, IdleTypes DEF Proceeds
  <2> QED
    BY <2>1 DEF Old, OldRequests
<1>3. CASE Looks(h)
  BY <1>1, <1>2, <1>3 DEF Looks, Old, OldDelayed
<1>4. ASSUME NEW u \in Users, NEW c \in Coins, Done(h, u, c),
             WritesLater(u, c) \/ WritesNow(u, c) \/ Errs(u, c)
      PROVE  Old'
  <2>1. OldRequests'
    BY <1>2, <1>4 DEF Done
  <2>2. CASE UNCHANGED delayed
    BY <1>1, <2>1, <2>2 DEF Old, OldDelayed
  <2>3. CASE WritesLater(u, c)
    <3>1. PICK d : delayed' = delayed \cup {d} /\ IsDelayed(d) /\ d.user = u /\ d.coin = c
      BY <2>3 DEF WritesLater
    <3>2. c # wish[u] => wishAge[u] <= requests[h].age
      BY <1>4 DEF Old, OldRequests, Done
    <3>3. /\ wishAge[u] \in Int /\ requests[h].age \in 0 .. Latency /\ d.left \in 0 .. SafetyPeriod
          /\ Latency \in Nat /\ SafetyPeriod \in Nat
      BY <3>1, AgeTypes, Bounds DEF IsDelayed
    <3>4. d.coin # wish[d.user] => wishAge[d.user] + d.left <= Latency + SafetyPeriod
      BY <3>1, <3>2, <3>3
    <3> QED
      BY <1>1, <2>1, <3>1, <3>4 DEF Old, OldDelayed
  <2> QED
    BY <1>4, <2>2, <2>3 DEF WritesNow, Errs
<1> QED
  BY <1>3, <1>4, ChangeStep

\* A new switch is no older than any request.
LEMMA SwitchOld ==
    ASSUME Types, Old, NEW b \in Budgets, BudgetFits(b), Switch
    PROVE  Old'
<1>1. PICK us \in SUBSET Users, c \in Coins :
        /\ wish' = [u \in Users |-> IF u \in us THEN c ELSE wish[u]]
        /\ wishAge' = [u \in Users |-> IF u \in us THEN 0 ELSE wishAge[u]]
        /\ \/ requests' = requests
           \/ \E r : /\ requests' = [requests EXCEPT !["http"] = r]
                     /\ IsRequest(r) /\ r.todo = us \X {c} /\ r.age = 0
  BY SwitchStep
<1>2. UNCHANGED delayed
  BY DEF Switch
<1>3. ASSUME NEW h \in Handlers, NEW u \in Users, NEW k \in Coins,
             <<u, k>> \in requests'[h].todo, k # wish'[u]
      PROVE  wishAge'[u] <= requests'[h].age
  <2>1. requests'[h] = requests[h]
    <3>1. requests'[h] = requests[h] \/ (requests'[h].todo = us \X {c})
      BY <1>1 DEF Types, ApiTypes
    <3>2. <<u, k>> \in us \X {c} => k = wish'[u]
      BY <1>1
    <3> QED
      BY <1>3, <3>1, <3>2
  <2>2. requests[h].age \in Nat
    BY AgeTypes
  <2> QED
    BY <1>1, <1>3, <2>1, <2>2 DEF Old, OldRequests
<1>4. ASSUME NEW d \in delayed, d.coin # wish'[d.user]
      PROVE  wishAge'[d.user] + d.left <= Latency + SafetyPeriod
  <2>1. d.user \in Users /\ d.left \in 0 .. SafetyPeriod
    BY DEF Types, ApiTypes, IsDelayed
  <2>2. CASE d.user \in us
    BY <1>1, <2>1, <2>2, Bounds
  <2>3. CASE d.user \notin us
    BY <1>1, <1>4, <2>1, <2>3 DEF Old, OldDelayed
  <2> QED
    BY <2>2, <2>3
<1> QED
  BY <1>2, <1>3, <1>4 DEF Old, OldRequests, OldDelayed

LEMMA NextOld ==
    ASSUME Types, Types', Old, NEW b \in Budgets, BudgetFits(b), [Next]_vars
    PROVE  Old'
<1>1. ASSUME UNCHANGED <<wish, wishAge, requests, delayed>>
      PROVE  Old'
  BY <1>1 DEF Old, OldRequests, OldDelayed
<1>2. CASE \/ \E c \in Coins : Import(c)
           \/ getUserIDList \/ CronPullFails \/ UNCHANGED vars
  BY <1>1, <1>2 DEF Import, getUserIDList, CronPullFails, vars, apiVars
<1>3. CASE Restart
  BY <1>3, IdleTypes DEF Restart, Old, OldRequests, OldDelayed
<1>4. CASE DelayedSet
  <2>1. UNCHANGED <<wish, wishAge, requests>> /\ delayed' \subseteq delayed
    BY <1>4 DEF DelayedSet
  <2> QED
    BY <2>1 DEF Old, OldRequests, OldDelayed
<1>5. CASE CronPull
  <2>1. UNCHANGED <<wish, wishAge, delayed>>
    BY <1>5 DEF CronPull
  <2>2. ASSUME NEW h \in Handlers, NEW u \in Users, NEW c \in Coins,
               <<u, c>> \in requests'[h].todo, c # wish[u]
        PROVE  wishAge[u] <= requests'[h].age
    <3>1. h = "http" /\ requests'[h] = requests[h]
      BY <1>5, <2>2, PullStep DEF Handlers
    <3> QED
      BY <2>2, <3>1 DEF Old, OldRequests
  <2> QED
    BY <2>1, <2>2 DEF Old, OldRequests, OldDelayed
<1> QED
  BY <1>2, <1>3, <1>4, <1>5, TickOld, ChangeOld, SwitchOld DEF Next

-----------------------------------------------------------------------------
(* A switch takes effect *)

\* A switch that will not be pulled again: the last pull was more than an
\* interval after it.
Settled(u) == lastRequestDate # Never /\ Window < wishAge[u]

\* The deadline of a switch is not passed in the next t seconds.
Due(u, t) ==
    \/ wishAge[u] + t <= 2 * CronInterval + 2 * Latency + SafetyPeriod
    \/ calm + t <= CronInterval + Latency + SafetyPeriod

\* The switch is in effect, or is about to be, in time.
Arrives(u) ==
    \/ node[u] = wish[u]
    \/ /\ <<u, wish[u]>> \in requests["cron"].todo
       /\ Due(u, Latency + SafetyPeriod - requests["cron"].age)
    \/ \E d \in delayed : d.user = u /\ d.coin = wish[u] /\ Due(u, d.left)

Arrival == \A u \in Users \ failed : wish[u] # NoCoin /\ Settled(u) => Arrives(u)

\* The safety period is the shorter one: what an older switch has delayed is
\* written before the last pull of a newer one.
InOrder == Latency + SafetyPeriod <= CronInterval

LEMMA NoneOlder ==
    ASSUME InOrder, Types, Old, NEW u \in Users, Settled(u)
    PROVE  /\ \A h \in Handlers : \A c \in Coins : <<u, c>> \in requests[h].todo => c = wish[u]
           /\ \A d \in delayed : d.user = u => d.coin = wish[u]
<1>1. /\ CronInterval \in Nat /\ Latency \in Nat /\ SafetyPeriod \in Nat
      /\ Latency + SafetyPeriod <= CronInterval
  BY Bounds DEF InOrder
<1>2. lastRequestDate \in Nat
  BY Bounds DEF Settled, Types, ApiTypes, Never
<1>3. wishAge[u] \in 0 .. Cap /\ wishAge[u] > CronInterval
  <2>1. wishAge[u] \in 0 .. Cap
    BY AgeTypes
  <2> QED
    BY <1>1, <1>2, <2>1 DEF Settled, Window
<1>4. ASSUME NEW h \in Handlers, NEW c \in Coins, <<u, c>> \in requests[h].todo, c # wish[u]
      PROVE  FALSE
  <2>1. wishAge[u] <= requests[h].age /\ requests[h].age \in 0 .. Latency
    BY <1>4, AgeTypes DEF Old, OldRequests
  <2> QED
    BY <1>1, <1>3, <2>1
<1>5. ASSUME NEW d \in delayed, d.user = u, d.coin # wish[u]
      PROVE  FALSE
  <2>1. wishAge[u] + d.left <= Latency + SafetyPeriod /\ d.left \in 0 .. SafetyPeriod
    BY <1>5, AgeTypes DEF Old, OldDelayed
  <2> QED
    BY <1>1, <1>3, <2>1
<1> QED
  BY <1>4, <1>5

\* A deadline that is later, or as much nearer as time has passed.
LEMMA DueSooner ==
    ASSUME Types, NEW u \in Users, NEW s \in Int, NEW t \in Int, t <= s, Due(u, s)
    PROVE  Due(u, t)
<1>1. wishAge[u] \in Int /\ calm \in Int /\ CronInterval \in Int /\ Latency \in Int /\ SafetyPeriod \in Int
  BY AgeTypes, Bounds DEF Types, ApiTypes
<1> QED
  BY <1>1 DEF Due

LEMMA DueTick ==
    ASSUME Types, Types', Tick, NEW u \in Users, NEW t \in Int, NEW s \in Int, s = t - 1, Due(u, t)
    PROVE  Due(u, s)'
<1>1. wishAge[u] \in Int /\ calm \in Int /\ CronInterval \in Int /\ Latency \in Int /\ SafetyPeriod \in Int
  BY AgeTypes, Bounds DEF Types, ApiTypes
<1>2. wishAge'[u] \in Int /\ calm' \in Int
  <2>1. wishAge' \in [Users -> 0 .. Cap] /\ calm' \in 0 .. Cap
    BY DEF Types, ApiTypes
  <2>2. wishAge'[u] \in 0 .. Cap
    BY <2>1
  <2> QED
    BY <2>1, <2>2
<1>3. wishAge'[u] <= wishAge[u] + 1 /\ calm' <= calm + 1
  BY TickAges
<1> QED
  BY <1>1, <1>2, <1>3 DEF Due

\* Steps that leave a user's switch as it is, and the times.
SwitchStays(u) ==
    /\ wish'[u] = wish[u] /\ wishAge'[u] = wishAge[u]
    /\ UNCHANGED <<lastRequestDate, calm>>

LEMMA StaysDue ==
    ASSUME NEW u, SwitchStays(u)
    PROVE  /\ Settled(u)' <=> Settled(u)
           /\ \A t : Due(u, t)' <=> Due(u, t)
BY DEF SwitchStays, Settled, Window, Due

\* What is on its way to the node of a user stays there.
LEMMA ArrivesStays ==
    ASSUME NEW u \in Users, SwitchStays(u), Arrives(u),
           node[u] = wish[u] => node'[u] = wish[u],
           requests'["cron"] = requests["cron"],
           delayed \subseteq delayed'
    PROVE  Arrives(u)'
<1>1. wish'[u] = wish[u] /\ \A t : Due(u, t)' <=> Due(u, t)
  BY StaysDue DEF SwitchStays
<1>2. CASE node[u] = wish[u]
  BY <1>1, <1>2 DEF Arrives
<1>3. CASE /\ <<u, wish[u]>> \in requests["cron"].todo
           /\ Due(u, Latency + SafetyPeriod - requests["cron"].age)
  BY <1>1, <1>3 DEF Arrives
<1>4. CASE \E d \in delayed : d.user = u /\ d.coin = wish[u] /\ Due(u, d.left)
  BY <1>1, <1>4 DEF Arrives
<1> QED
  BY <1>2, <1>3, <1>4 DEF Arrives

LEMMA ChangeArrives ==
    ASSUME InOrder, Types, Old, NEW h \in Handlers, Change(h),
           NEW u \in Users \ failed', wish[u] # NoCoin, Settled(u),
           u \notin failed => Arrives(u)
    PROVE  Arrives(u)'
<1>0. SwitchStays(u) /\ wish'[u] = wish[u] /\ \A t : Due(u, t)' <=> Due(u, t)
  BY ChangeStep, StaysDue DEF SwitchStays
<1>1. CASE Looks(h)
  <2>1. Arrives(u) /\ UNCHANGED <<node, delayed>>
    BY <1>1 DEF Looks
  <2>2. /\ requests'["cron"].todo = requests["cron"].todo
        /\ requests["cron"].todo # {} => requests'["cron"].age = requests["cron"].age
    BY <1>1 DEF Looks, Proceeds, Handlers
  <2> QED
    BY <1>0, <2>1, <2>2 DEF Arrives
<1>2. ASSUME NEW v \in Users, NEW c \in Coins, Done(h, v, c),
             WritesLater(v, c) \/ WritesNow(v, c) \/ Errs(v, c)
      PROVE  Arrives(u)'
  <2>0. Arrives(u) /\ delayed \subseteq delayed'
    BY <1>2 DEF Done, WritesLater, WritesNow, Errs
  <2>1. v = u => c = wish[u]
    BY <1>2, NoneOlder DEF Done
  <2>2. node[u] = wish[u] => node'[u] = wish[u]
    BY <1>2, <2>1 DEF WritesLater, WritesNow, Errs, Types, ListTypes
  <2>3. CASE h # "cron"
    <3>1. requests'["cron"] = requests["cron"]
      BY <1>2, <2>3 DEF Done, Proceeds, Handlers
    <3> QED
      BY <1>0, <2>0, <2>2, <3>1, ArrivesStays
  <2>4. CASE h = "cron"
    <3>1. CASE node[u] = wish[u]
      BY <1>0, <2>2, <3>1 DEF Arrives
    <3>2. CASE \E d \in delayed : d.user = u /\ d.coin = wish[u] /\ Due(u, d.left)
      BY <1>0, <2>0, <3>2 DEF Arrives
    <3>3. CASE /\ <<u, wish[u]>> \in requests["cron"].todo
               /\ Due(u, Latency + SafetyPeriod - requests["cron"].age)
      <4>1. CASE v # u
        <5>1. <<u, wish[u]>> \in requests'["cron"].todo
          BY <1>2, <2>4, <3>3, <4>1 DEF Done
        <5>2. requests'["cron"].age = requests["cron"].age
          BY <1>2, <2>4, <5>1, IdleTypes DEF Done, Proceeds
        <5> QED
          BY <1>0, <3>3, <5>1, <5>2 DEF Arrives
      <4>2. CASE v = u /\ WritesNow(v, c)
        <5>1. node'[u] = wish[u]
          BY <2>1, <4>2 DEF WritesNow, Types, ListTypes
        <5> QED
          BY <1>0, <5>1 DEF Arrives
      <4>3. CASE v = u /\ Errs(v, c)
        BY <2>1, <4>3 DEF Errs
      <4>4. CASE v = u /\ WritesLater(v, c)
        <5>1. PICK d \in delayed' : IsDelayed(d) /\ d.user = u /\ d.coin = wish[u]
          BY <2>1, <4>4 DEF WritesLater
        <5>2. /\ d.left \in 0 .. SafetyPeriod /\ requests["cron"].age \in 0 .. Latency
              /\ Latency \in Nat /\ SafetyPeriod \in Nat
          BY <5>1, AgeTypes, Bounds DEF IsDelayed, Handlers
        <5>3. d.left <= Latency + SafetyPeriod - requests["cron"].age
          BY <5>2
        <5>4. Due(u, d.left)
          BY <3>3, <5>2, <5>3, DueSooner
        <5> QED
          BY <1>0, <5>1, <5>4 DEF Arrives
      <4> QED
        BY <1>2, <4>1, <4>2, <4>3, <4>4
    <3> QED
      BY <2>0, <3>1, <3>2, <3>3 DEF Arrives
  <2> QED
    BY <2>3, <2>4
<1> QED
  BY <1>1, <1>2, ChangeStep

\* A write that was delayed is of the coin that is wanted.
LEMMA DelayedArrives ==
    ASSUME InOrder, Types, Old, DelayedSet,
           NEW u \in Users \ failed', wish[u] # NoCoin, Settled(u),
           u \notin failed => Arrives(u)
    PROVE  Arrives(u)'
<1>0. UNCHANGED <<wish, wishAge, requests, lastRequestDate, calm>>
  BY DEF DelayedSet
<1>1. SwitchStays(u) /\ wish'[u] = wish[u] /\ \A t : Due(u, t)' <=> Due(u, t)
  BY <1>0, StaysDue DEF SwitchStays
<1>2. PICK d \in delayed :
        /\ delayed' = delayed \ {d} /\ failed \subseteq failed'
        /\ \/ node' = [node EXCEPT ![d.user] = d.coin]
           \/ node' = node /\ (wish[d.user] = d.coin => d.user \in failed')
  BY DelayedStep
<1>3. d.user = u => d.coin = wish[u]
  BY NoneOlder
<1>4. CASE d.user = u
  <2>1. node'[u] = wish[u]
    BY <1>2, <1>3, <1>4 DEF Types, ListTypes
  <2> QED
    BY <1>1, <2>1 DEF Arrives
<1>5. CASE d.user # u
  <2>1. node'[u] = node[u] /\ Arrives(u)
    BY <1>2, <1>5 DEF Types, ListTypes
  <2>2. CASE \E e \in delayed : e.user = u /\ e.coin = wish[u] /\ Due(u, e.left)
    <3>1. \E e \in delayed' : e.user = u /\ e.coin = wish[u] /\ Due(u, e.left)
      BY <1>2, <1>5, <2>2
    <3> QED
      BY <1>1, <3>1 DEF Arrives
  <2>3. CASE ~ \E e \in delayed : e.user = u /\ e.coin = wish[u] /\ Due(u, e.left)
    BY <1>0, <1>1, <2>1, <2>3 DEF Arrives
  <2> QED
    BY <2>2, <2>3
<1> QED
  BY <1>4, <1>5

\* The last pull of a switch is in time, or a pull before it has failed.
LEMMA PullArrives ==
    ASSUME Types, CronOnTime, CronPull,
           NEW u \in Users, wish[u] # NoCoin,
           Settled(u) => Arrives(u)
    PROVE  Arrives(u)'
<1>0. UNCHANGED <<node, wish, wishAge, delayed, calm>>
  BY DEF CronPull
<1>1. requests["cron"] = NoRequest /\ cronSleep = 0 /\ requests'["cron"].age = 0
  BY PullStep
<1>2. \A t : Due(u, t)' <=> Due(u, t)
  BY <1>0 DEF Due
<1>3. /\ CronInterval \in Nat /\ Latency \in Nat /\ SafetyPeriod \in Nat
      /\ wishAge[u] \in Int /\ calm \in Int /\ lastRequestDate \in Int
  BY AgeTypes, Bounds DEF Types, ApiTypes, Never
<1>4. CASE Pulled(u)
  <2>1. wish[u] \in Coins
    BY <1>4 DEF Pulled, Types, ApiTypes
  <2>2. <<u, wish[u]>> \in requests'["cron"].todo
    BY <1>4, <2>1, PullStep
  <2>3. calm <= CronInterval \/ wishAge[u] <= Latency + CronInterval + CronInterval
    BY <1>1, <1>3, <1>4 DEF CronOnTime, Pulled, Window
  <2>4. Due(u, Latency + SafetyPeriod - 0)
    BY <1>3, <2>3 DEF Due
  <2> QED
    BY <1>0, <1>1, <1>2, <2>2, <2>4 DEF Arrives
<1>5. CASE ~Pulled(u)
  <2>1. Settled(u)
    BY <1>3, <1>5 DEF Pulled, Settled, Window
  <2> QED
    BY <1>0, <1>1, <1>2, <2>1, IdleTypes DEF Arrives
<1> QED
  BY <1>4, <1>5

LEMMA PullFailsArrives ==
    ASSUME Types, CronPullFails, NEW u \in Users, Arrives(u)
    PROVE  Arrives(u)'
<1>0. /\ UNCHANGED <<node, wish, wishAge, requests, delayed>>
      /\ requests["cron"] = NoRequest /\ calm' = 0
  BY DEF CronPullFails
<1>1. ASSUME NEW d \in delayed
      PROVE  Due(u, d.left)'
  <2>1. d.left \in 0 .. SafetyPeriod
    BY AgeTypes
  <2> QED
    BY <1>0, <2>1, Bounds DEF Due
<1> QED
  BY <1>0, <1>1, IdleTypes DEF Arrives

LEMMA TickArrives ==
    ASSUME Types, Types', Tick, NEW u \in Users, Settled(u)',
           Settled(u) => Arrives(u)
    PROVE  Arrives(u)'
<1>0. UNCHANGED <<node, wish>>
  BY DEF Tick
<1>1. /\ CronInterval \in Nat \ {0} /\ Latency \in Nat /\ SafetyPeriod \in Nat /\ Cap \in Nat
      /\ wishAge[u] \in Int /\ lastRequestDate \in Never .. Cap /\ lastRequestDate' \in Int
  BY AgeTypes, Bounds DEF Types, ApiTypes, Never
<1>2. wishAge'[u] \in 0 .. Cap
  <2>1. wishAge' \in [Users -> 0 .. Cap]
    BY DEF Types, ApiTypes
  <2> QED
    BY <2>1
<1>3. Settled(u)
  <2>1. lastRequestDate' # Never /\ lastRequestDate' + CronInterval < wishAge'[u]
    BY DEF Settled, Window
  <2>2. lastRequestDate # Never /\ lastRequestDate <= lastRequestDate'
    BY <2>1, TickAges
  <2>3. lastRequestDate < Cap
    BY <1>1, <1>2, <2>1, <2>2 DEF Never
  <2>4. lastRequestDate' = lastRequestDate + 1 /\ wishAge'[u] <= wishAge[u] + 1
    BY <2>2, <2>3, TickAges
  <2>5. lastRequestDate + CronInterval < wishAge[u]
    BY <1>1, <1>2, <2>1, <2>4 DEF Never
  <2> QED
    BY <2>2, <2>5 DEF Settled, Window
<1>4. CASE node[u] = wish[u]
  BY <1>0, <1>4 DEF Arrives
<1>5. CASE /\ <<u, wish[u]>> \in requests["cron"].todo
           /\ Due(u, Latency + SafetyPeriod - requests["cron"].age)
  <2>1. /\ requests'["cron"].todo = requests["cron"].todo
        /\ requests'["cron"].age = requests["cron"].age + 1
        /\ requests["cron"].age \in Int
    BY <1>5, TickRequests, IdleTypes, AgeTypes DEF Handlers
  <2> DEFINE t == Latency + SafetyPeriod - requests["cron"].age
             s == Latency + SafetyPeriod - (requests["cron"].age + 1)
  <2>2. t \in Int /\ s \in Int /\ s = t - 1
    BY <1>1, <2>1
  <2>3. PICK at : at = s
    OBVIOUS
  <2>4. Due(u, at)'
    BY <1>5, <2>2, <2>3, DueTick
  <2>5. Due(u, Latency + SafetyPeriod - requests["cron"].age)'
    BY <2>1, <2>3, <2>4
  <2> QED
    BY <1>0, <1>5, <2>1, <2>5 DEF Arrives
<1>6. CASE \E d \in delayed : d.user = u /\ d.coin = wish[u] /\ Due(u, d.left)
  <2>1. PICK d \in delayed : d.user = u /\ d.coin = wish[u] /\ Due(u, d.left)
    BY <1>6
  <2>2. PICK e \in delayed' : e.user = d.user /\ e.coin = d.coin /\ e.left = d.left - 1
    BY TickDelayed
  <2>3. d.left \in Int /\ e.left \in Int
    BY <1>1, <2>2, AgeTypes
  <2>4. Due(u, e.left)'
    BY <2>1, <2>2, <2>3, DueTick
  <2> QED
    BY <1>0, <2>1, <2>2, <2>4 DEF Arrives
<1> QED
  BY <1>3, <1>4, <1>5, <1>6 DEF Arrives

\* A new switch is not settled; those of other users stay.
LEMMA SwitchArrives ==
    ASSUME Types, NEW b \in Budgets, BudgetFits(b), Switch,
           NEW u \in Users \ failed', wish'[u] # NoCoin, Settled(u)',
           u \notin failed /\ wish[u] # NoCoin /\ Settled(u) => Arrives(u)
    PROVE  Arrives(u)'
<1>1. PICK us \in SUBSET Users, c \in Coins :
        /\ wish' = [v \in Users |-> IF v \in us THEN c ELSE wish[v]]
        /\ wishAge' = [v \in Users |-> IF v \in us THEN 0 ELSE wishAge[v]]
        /\ failed' = failed \ us
        /\ requests' = requests \/ \E r : requests' = [requests EXCEPT !["http"] = r]
  BY SwitchStep
<1>2. UNCHANGED <<node, delayed, lastRequestDate, calm>>
  BY DEF Switch
<1>3. requests'["cron"] = requests["cron"]
  BY <1>1 DEF Types, ApiTypes, Handlers
<1>4. CASE u \in us
  <2>1. wishAge'[u] = 0
    BY <1>1, <1>4
  <2>2. lastRequestDate \in Nat /\ CronInterval \in Nat
    BY <1>2, Bounds DEF Settled, Types, ApiTypes, Never
  <2>3. lastRequestDate + CronInterval < 0
    BY <1>2, <2>1 DEF Settled, Window
  <2> QED
    BY <2>2, <2>3
<1>5. CASE u \notin us
  <2>1. SwitchStays(u) /\ u \notin failed
    BY <1>1, <1>2, <1>5 DEF SwitchStays
  <2>2. Arrives(u)
    BY <2>1, StaysDue DEF SwitchStays
  <2> QED
    BY <1>2, <1>3, <2>1, <2>2, ArrivesStays
<1> QED
  BY <1>4, <1>5

LEMMA NextArrival ==
    ASSUME InOrder, Inv, Types, Types', Old, CronOnTime, NEW b \in Budgets, BudgetFits(b), Arrival,
           [Next]_vars
    PROVE  Arrival'
<1> SUFFICES ASSUME NEW u \in Users \ failed', wish'[u] # NoCoin, Settled(u)'
             PROVE  Arrives(u)'
  BY DEF Arrival
<1>1. u \notin failed /\ wish[u] # NoCoin /\ Settled(u) => Arrives(u)
  BY DEF Arrival
<1>2. ASSUME SwitchStays(u)
      PROVE  wish[u] # NoCoin /\ Settled(u)
  BY <1>2, StaysDue DEF SwitchStays
<1>3. ASSUME NEW c \in Coins, Import(c)
      PROVE  Arrives(u)'
  <2>1. UNCHANGED apiVars
    BY <1>3 DEF Import
  <2>2. SwitchStays(u) /\ u \notin failed
    BY <2>1 DEF SwitchStays, apiVars
  <2>3. NodesGiven
    BY <1>3, ImportTypes DEF Import
  <2>4. wish[u] # NoCoin /\ Arrives(u)
    BY <1>1, <1>2, <2>2
  <2>5. node[u] = wish[u] => node'[u] = wish[u]
    BY <2>3, <2>4 DEF NodesGiven
  <2> QED
    BY <2>1, <2>2, <2>4, <2>5, ArrivesStays DEF apiVars
<1>4. ASSUME UNCHANGED <<node, apiVars>>
      PROVE  Arrives(u)'
  <2>1. SwitchStays(u) /\ u \notin failed
    BY <1>4 DEF SwitchStays, apiVars
  <2> QED
    BY <1>1, <1>2, <1>4, <2>1, ArrivesStays DEF apiVars
<1>5. CASE getUserIDList \/ UNCHANGED vars
  BY <1>4, <1>5 DEF getUserIDList, getUserListJson, vars
<1>6. CASE Restart
  BY <1>6 DEF Restart, Settled
<1>7. ASSUME NEW h \in Handlers, Change(h)
      PROVE  Arrives(u)'
  <2>1. SwitchStays(u)
    BY <1>7, ChangeStep DEF SwitchStays
  <2> QED
    BY <1>1, <1>2, <1>7, <2>1, ChangeArrives
<1>8. CASE DelayedSet
  <2>1. SwitchStays(u)
    BY <1>8 DEF DelayedSet, SwitchStays
  <2> QED
    BY <1>1, <1>2, <1>8, <2>1, DelayedArrives
<1>9. CASE CronPull
  BY <1>1, <1>9, PullArrives DEF CronPull
<1>10. CASE CronPullFails
  <2>1. u \notin failed /\ wish[u] # NoCoin /\ Settled(u)
    BY <1>10 DEF CronPullFails, Settled, Window
  <2> QED
    BY <1>1, <1>10, <2>1, PullFailsArrives
<1>11. CASE Tick
  <2>1. u \notin failed /\ wish[u] # NoCoin
    BY <1>11 DEF Tick
  <2> QED
    BY <1>1, <1>11, <2>1, TickArrives
<1> QED
  BY <1>1, <1>3, <1>5, <1>6, <1>7, <1>8, <1>9, <1>10, <1>11, SwitchArrives DEF Next

-----------------------------------------------------------------------------
(* The theorems *)

Bounded == Types /\ Old /\ CronOnTime /\ Budgeted

LEMMA InitBounded == Init => Bounded
<1> SUFFICES ASSUME Init PROVE Bounded
  OBVIOUS
<1>1. Types
  BY InitTypes
<1>2. Old
  BY IdleTypes DEF Init, Old, OldRequests, OldDelayed
<1>3. CronOnTime
  BY Bounds DEF Init, CronOnTime, Handlers
<1>4. budget \in Budgets /\ BudgetFits(budget)
  BY BudgetAssumption DEF Init, BudgetFits
<1>5. DateFits(budget)
  BY DEF Init, DateFits
<1> QED
  BY <1>1, <1>2, <1>3, <1>4, <1>5 DEF Bounded, Budgeted

LEMMA NextBounded ==
    ASSUME Inv, Bounded, [Next]_vars
    PROVE  Bounded'
<1>1. PICK b \in Budgets : BudgetFits(b) /\ DateFits(b)
  BY DEF Bounded, Budgeted
<1>2. Types'
  BY <1>1, NextTypes DEF Bounded
<1>3. CronOnTime' /\ BudgetFits(b)' /\ DateFits(b)'
  BY <1>1, <1>2, NextDates DEF Bounded
<1>4. Old'
  BY <1>1, <1>2, NextOld DEF Bounded
<1> QED
  BY <1>2, <1>3, <1>4 DEF Bounded, Budgeted

\* The maps of the lists: every entry is put in by a goroutine of the import.
Maps == userIDMaps \in [Lists -> SUBSET (Nat \X Users)]

LEMMA NextMaps ==
    ASSUME Types, Maps, [Next]_vars
    PROVE  Maps'
<1>1. ASSUME UNCHANGED userIDMaps
      PROVE  Maps'
  BY <1>1 DEF Maps
<1>2. ASSUME NEW c \in Coins, addUser(c)
      PROVE  Maps'
  <2> DEFINE u == importer[c].user
             id == PUID[c][u]
  <2>1. IsImporter(importer[c]) /\ importer[c].pc = "add"
    BY <1>2 DEF Types, ListTypes, addUser
  <2>2. u \in Users
    BY <2>1 DEF IsImporter
  <2>3. id \in Nat
    BY <2>2, ListAssumption
  <2>4. /\ userIDMaps' = [userIDMaps EXCEPT ![c] = Put(userIDMaps[c], id, u),
                                            ![AllCoins] = Put(userIDMaps[AllCoins], id, u)]
        /\ c # AllCoins
    BY <1>2, ListAssumption DEF addUser
  <2>5. c \in Lists /\ AllCoins \in Lists
    BY DEF Lists
  <2> HIDE DEF u, id
  <2>6. \A l \in Lists : Put(userIDMaps[l], id, u) \in SUBSET (Nat \X Users)
    BY <2>2, <2>3 DEF Maps, Put
  <2>7. /\ Put(userIDMaps[c], id, u) \in SUBSET (Nat \X Users)
        /\ Put(userIDMaps[AllCoins], id, u) \in SUBSET (Nat \X Users)
    BY <2>5, <2>6
  <2> QED
    BY <2>4, <2>5, <2>7 DEF Maps
<1>3. ASSUME NEW c \in Coins, Import(c)
      PROVE  Maps'
  BY <1>1, <1>2, <1>3 DEF Import, Register, ImportFails, ImportFetch, ImportExists, ImportCreate
<1>4. ASSUME NEW h \in Handlers, Change(h)
      PROVE  Maps'
  BY <1>1, <1>4 DEF Change, ChangeExists, ChangeGet, ChangeSet, ChangeCreate, ChangeFails,
     UnchangedByEntry, listVars
<1>5. CASE Restart
  BY <1>5 DEF Restart, ListStarts, Maps
<1>6. CASE getUserIDList \/ Switch \/ Tick \/ DelayedSet \/ CronPull \/ CronPullFails \/ UNCHANGED vars
  BY <1>1, <1>6 DEF getUserIDList, getUserListJson, Switch, Tick, DelayedSet, CronPull, CronPullFails,
     vars, listVars
<1> QED
  BY <1>3, <1>4, <1>5, <1>6 DEF Next

LEMMA Invariance == Spec => [](Inv /\ Bounded /\ Maps)
<1>1. Inv /\ [Next]_vars => Inv'
  <2>1. Inv /\ UNCHANGED vars => Inv'
    BY QuietInv DEF vars, listVars
  <2> QED
    BY <2>1, NextInv
<1>2. Inv /\ Bounded /\ [Next]_vars => Bounded'
  BY NextBounded
<1>3. Bounded /\ Maps /\ [Next]_vars => Maps'
  BY NextMaps DEF Bounded
<1>4. Init => Maps
  BY DEF Init, Maps
<1> QED
  BY <1>1, <1>2, <1>3, <1>4, InitInv, InitBounded, PTL DEF Spec

\* The date of the last pull is known exactly where it is compared: the ages
\* that the clock counts stay below its bound, whatever fails.
LEMMA DateExact ==
    ASSUME Bounded
    PROVE  lastRequestDate \in Never .. Cap - CronInterval - 1
<1>1. PICK b \in Budgets : BudgetFits(b) /\ DateFits(b)
  BY DEF Bounded, Budgeted
<1>2. /\ CronInterval \in Nat \ {0} /\ Latency \in Nat /\ Cap \in Nat
      /\ Cap > 2 * CronInterval + Latency
      /\ lastRequestDate \in Never .. Cap /\ cronSleep \in Nat
      /\ requests["cron"].age \in 0 .. Latency
  BY Bounds, AgeTypes DEF Bounded, Types, ApiTypes, Handlers
<1>3. CASE requests["cron"] # NoRequest
  BY <1>2, <1>3 DEF Bounded, CronOnTime, Never
<1>4. CASE requests["cron"] = NoRequest /\ lastRequestDate # Never
  <2>1. lastRequestDate <= Latency + Intervals(b) - cronSleep
    BY <1>1, <1>4 DEF DateFits
  <2>2. Intervals(b) \in Nat /\ Latency + Intervals(b) < Cap - CronInterval
    <3>1. budget.faults \in 0 .. b.faults /\ budget.faults \in 0 .. budget.faults
      BY <1>1, Bounds DEF BudgetFits
    <3> QED
      BY <3>1, IntervalsFit DEF Intervals
  <2> QED
    BY <1>2, <2>1, <2>2 DEF Never
<1>5. CASE lastRequestDate = Never
  BY <1>2, <1>5 DEF Never
<1> QED
  BY <1>3, <1>4, <1>5

\* The types of the nodes, the lists, the requests and the times; a user whom
\* the import lists has a coin (setMiningCoin, addUser).
THEOREM Typed == Spec => []TypeOK
<1>1. Bounded /\ Maps => TypeOK
  <2> SUFFICES ASSUME Bounded, Maps PROVE TypeOK
    OBVIOUS
  <2>1. ListTypeOK
    BY DEF Bounded, Maps, Types, ListTypes, ListTypeOK, IsImporter, Ages
  <2>2. \A h \in Handlers : requests[h].age \in 0 .. Latency
    BY AgeTypes DEF Bounded
  <2>3. \A d \in delayed : d.left \in 0 .. SafetyPeriod
    BY AgeTypes DEF Bounded
  <2> QED
    BY <2>1, <2>2, <2>3, DateExact DEF Bounded, Types, ApiTypes, TypeOK
<1> QED
  BY <1>1, Invariance, PTL

\* A switch that nothing has failed for is in effect after the time in which the
\* cron job has pulled it for the last time and has written it, provided that
\* the safety period, and the time that a request takes, are within the interval
\* of the cron job, as they are in the default configuration (15 s and 60 s):
\* otherwise a write that an older switch has delayed may come last
\* (changeMiningCoin, RunCronJob).
THEOREM SwitchTakesEffect == InOrder => (Spec => []CoinFollowsList)
<1> SUFFICES ASSUME InOrder PROVE Spec => []CoinFollowsList
  OBVIOUS
<1>1. Init => Arrival
  BY DEF Init, Arrival, Settled
<1>2. Inv /\ Bounded /\ Bounded' /\ Arrival /\ [Next]_vars => Arrival'
  <2> SUFFICES ASSUME Inv, Bounded, Bounded', Arrival, [Next]_vars PROVE Arrival'
    OBVIOUS
  <2>1. PICK b \in Budgets : BudgetFits(b)
    BY DEF Bounded, Budgeted
  <2> QED
    BY <2>1, NextArrival DEF Bounded
<1>3. Bounded /\ Arrival => CoinFollowsList
  <2> SUFFICES ASSUME Bounded, Arrival, NEW u \in Users \ failed, wish[u] # NoCoin,
                      wishAge[u] > 2 * CronInterval + 2 * Latency + SafetyPeriod,
                      calm > CronInterval + Latency + SafetyPeriod
               PROVE  node[u] = wish[u]
    BY DEF CoinFollowsList
  <2>1. /\ CronInterval \in Nat /\ Latency \in Nat /\ SafetyPeriod \in Nat
        /\ wishAge[u] \in Int /\ calm \in Int /\ lastRequestDate \in Int
        /\ cronSleep \in Nat /\ requests["cron"].age \in 0 .. Latency
    BY Bounds, AgeTypes DEF Bounded, Types, ApiTypes, Never, Handlers
  <2>2. lastRequestDate # Never /\ lastRequestDate <= Latency + CronInterval
    BY <2>1 DEF Bounded, CronOnTime, Never
  <2>3. Settled(u)
    BY <2>1, <2>2 DEF Settled, Window
  <2>4. \A t \in Nat : ~Due(u, t)
    BY <2>1 DEF Due
  <2>5. Latency + SafetyPeriod - requests["cron"].age \in Nat
    BY <2>1
  <2>6. \A d \in delayed : d.left \in Nat
    BY AgeTypes DEF Bounded
  <2> QED
    BY <2>3, <2>4, <2>5, <2>6 DEF Arrival, Arrives
<1> QED
  BY <1>1, <1>2, <1>3, Invariance, PTL DEF Spec

=============================================================================
