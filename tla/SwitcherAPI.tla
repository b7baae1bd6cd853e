---------------------------- MODULE SwitcherAPI ----------------------------
(***************************************************************************)
(* The switches of coins (userChainAPIServer/switcherAPIServer): the HTTP  *)
(* requests of the website and the cron job that pulls the website's list  *)
(* write the coins of users to their nodes, at once or after a delay,      *)
(* while the import (UserList) creates nodes and lists users.              *)
(*                                                                         *)
(* Times are relative, and grow up to Cap, which is beyond every           *)
(* comparison: the state space is finite and the clock runs on.            *)
(***************************************************************************)
EXTENDS UserList

CONSTANTS
    CronInterval,    \* CronIntervalSeconds
    Latency,         \* bound: ticks from the first call of a request to its last
    Cap,             \* bound of the ages
    Budgets          \* bounds: users, first values of nodes, and how much may happen

ASSUME TimeAssumption ==
    CronInterval \in Nat \ {0} /\ Latency \in Nat /\ Cap \in Nat

\* A pull that fails puts off the next one by an interval.
ASSUME BudgetAssumption ==
    \A b \in Budgets :
        /\ b \in [users : SUBSET Users, nodes : SUBSET (Coins \cup {NoCoin}), registrations : Nat,
                  switches : Nat, faults : Nat, queries : Nat]
        /\ Cap > (2 + b.faults) * CronInterval + Latency

VARIABLES
    wish,            \* external: the website's list of coins by user
    wishAge,         \* the time since a user's entry was changed
    failed,          \* users whose wish has met an error
    requests,        \* the goroutines that call changeMiningCoin
    delayed,         \* the goroutines that write later
    cronSleep,       \* what is left of RunCronJob's sleep
    lastRequestDate, \* as the time since; Never if there is none
    calm,            \* the time since a restart or a failed pull
    budget           \* for the bounds

apiVars == <<wish, wishAge, failed, requests, delayed, cronSleep, lastRequestDate, calm>>
vars == <<node, listVars, apiVars, budget>>

Never == -1
Handlers == {"cron", "http"}
NoRequest == [pc |-> "idle", todo |-> {}, user |-> NoUser, coin |-> NoCoin, age |-> 0]
Older(age) == IF age \in {Unlisted, Cap} THEN age ELSE age + 1

Init ==
    /\ budget \in Budgets
    /\ node \in [Users -> budget.nodes]
    /\ registered = [c \in Coins |-> {}]
    /\ importer = [c \in Coins |-> Idle]
    /\ userIDMaps = [l \in Lists |-> {}]
    /\ listAge = [c \in Coins |-> [u \in Users |-> Unlisted]]
    /\ userListJsonCaches = [c \in Lists |-> NoCache]
    /\ wish = node
    /\ wishAge = [u \in Users |-> Cap]
    /\ failed = {}
    /\ requests = [h \in Handlers |-> NoRequest]
    /\ delayed = {}
    /\ cronSleep = CronInterval
    /\ lastRequestDate = Never
    /\ calm = 0

Spend(what) == budget[what] > 0 /\ budget' = [budget EXCEPT ![what] = @ - 1]

-----------------------------------------------------------------------------
(* switchHandle and switchMultiUserHandle *)

\* external: the website changes the coin of some users and sends a request,
\* which may be lost or come too late for it to be told apart from a later one.
Switch ==
    \E us \in SUBSET budget.users \ {{}}, c \in Coins, sent \in BOOLEAN :
        /\ Spend("switches")
        /\ wish' = [u \in Users |-> IF u \in us THEN c ELSE wish[u]]
        /\ wishAge' = [u \in Users |-> IF u \in us THEN 0 ELSE wishAge[u]]
        /\ failed' = failed \ us
        /\ sent => requests["http"] = NoRequest
        /\ requests' = IF sent
                       THEN [requests EXCEPT !["http"] = [NoRequest EXCEPT !.pc = "exists", !.todo = us \X {c}]]
                       ELSE requests
        /\ UNCHANGED <<node, listVars, delayed, cronSleep, lastRequestDate, calm>>

-----------------------------------------------------------------------------
(* changeMiningCoin *)

\* The next entry of a request, which ends with its last one, or, if it came by
\* HTTP, at the first error.
NextEntry(h, error) ==
    LET r == requests[h]
        left == r.todo \ {<<r.user, r.coin>>}
    IN /\ requests' = [requests EXCEPT ![h] =
             IF left = {} \/ (error /\ h = "http") THEN NoRequest
             ELSE [r EXCEPT !.pc = "exists", !.todo = left, !.user = NoUser, !.coin = NoCoin]]
       /\ failed' = IF error /\ wish[r.user] = r.coin THEN failed \cup {r.user} ELSE failed
       /\ cronSleep' = IF h = "cron" /\ left = {} THEN CronInterval ELSE cronSleep

UnchangedByEntry == UNCHANGED <<listVars, wish, wishAge, lastRequestDate, calm>>

\* A single request has one entry; the cron job ranges over a map.
ChangeExists(h) ==
    /\ requests[h].pc = "exists"
    /\ \E entry \in requests[h].todo :
         requests' = [requests EXCEPT ![h] =
             [@ EXCEPT !.user = entry[1], !.coin = entry[2],
                       !.pc = IF node[entry[1]] = NoCoin THEN "create" ELSE "get"]]
    /\ UNCHANGED <<node, failed, delayed, cronSleep, budget>>
    /\ UnchangedByEntry

\* A slip: a user that is not listed has been since the epoch.
SleepSinceEpoch(age) == SafetyPeriod - IF age = Unlisted THEN Cap ELSE age

SleepTime(age) == SafetyPeriod - IF age = Unlisted THEN 0 ELSE age

\* After the old coin is read: a user that has not been in the list of the coin
\* for the safety period is written later.
ChangeGet(h) ==
    LET r == requests[h]
        age == listAge[r.coin][r.user]
    IN /\ r.pc = "get"
       /\ IF age = SafetyPeriod
          THEN /\ requests' = [requests EXCEPT ![h].pc = "set"]
               /\ UNCHANGED <<failed, delayed, cronSleep>>
          ELSE /\ delayed' = delayed \cup {[user |-> r.user, coin |-> r.coin, left |-> SleepTime(age)]}
               /\ NextEntry(h, FALSE)
       /\ UNCHANGED <<node, budget>>
       /\ UnchangedByEntry

ChangeSet(h) ==
    LET r == requests[h]
    IN /\ r.pc = "set"
       /\ node' = [node EXCEPT ![r.user] = r.coin]
       /\ NextEntry(h, FALSE)
       /\ UNCHANGED <<delayed, budget>>
       /\ UnchangedByEntry

\* Create fails when the import has created the node meanwhile.
ChangeCreate(h) ==
    LET r == requests[h]
        error == node[r.user] # NoCoin
    IN /\ r.pc = "create"
       /\ node' = IF error THEN node ELSE [node EXCEPT ![r.user] = r.coin]
       /\ NextEntry(h, error)
       /\ UNCHANGED <<delayed, budget>>
       /\ UnchangedByEntry

\* ZooKeeper does not answer.
ChangeFails(h) ==
    /\ requests[h].pc \in {"get", "set", "create"}
    /\ Spend("faults")
    /\ NextEntry(h, TRUE)
    /\ UNCHANGED <<node, delayed>>
    /\ UnchangedByEntry

\* The goroutine of a delayed switch; an error is logged.
DelayedSet ==
    \E d \in delayed, error \in BOOLEAN :
        /\ d.left = 0
        /\ IF error THEN Spend("faults") ELSE UNCHANGED budget
        /\ delayed' = delayed \ {d}
        /\ node' = IF error THEN node ELSE [node EXCEPT ![d.user] = d.coin]
        /\ failed' = IF error /\ wish[d.user] = d.coin THEN failed \cup {d.user} ELSE failed
        /\ UNCHANGED <<listVars, wish, wishAge, requests, cronSleep, lastRequestDate, calm>>

-----------------------------------------------------------------------------
(* RunCronJob *)

\* A slip: the interval is not subtracted from the date.
WindowExact == lastRequestDate

Window == lastRequestDate + CronInterval

\* The entries that were changed since then, or the whole list.
CronPull ==
    LET changed == {u \in Users : wish[u] # NoCoin /\ (lastRequestDate = Never \/ wishAge[u] <= Window)}
    IN /\ cronSleep = 0 /\ requests["cron"] = NoRequest
       /\ lastRequestDate' = 0
       /\ IF changed = {} THEN cronSleep' = CronInterval /\ UNCHANGED requests
          ELSE /\ requests' = [requests EXCEPT !["cron"] =
                      [NoRequest EXCEPT !.pc = "exists", !.todo = {<<u, wish[u]>> : u \in changed}]]
               /\ UNCHANGED cronSleep
       /\ UNCHANGED <<node, listVars, wish, wishAge, failed, delayed, calm, budget>>

\* No answer, or one that is not understood: the date stays.
CronPullFails ==
    /\ cronSleep = 0 /\ requests["cron"] = NoRequest
    /\ Spend("faults")
    /\ cronSleep' = CronInterval
    /\ calm' = 0
    /\ UNCHANGED <<node, listVars, wish, wishAge, failed, requests, delayed, lastRequestDate>>

-----------------------------------------------------------------------------

\* The process is started again: delayed switches are lost.
Restart ==
    /\ Spend("faults")
    /\ ListStarts
    /\ requests' = [h \in Handlers |-> NoRequest]
    /\ delayed' = {}
    /\ cronSleep' = CronInterval
    /\ lastRequestDate' = Never
    /\ calm' = 0
    /\ UNCHANGED <<node, registered, wish, wishAge, failed>>

\* A sleep that is over ends, and a request does not take longer than Latency.
Tick ==
    /\ cronSleep > 0 \/ requests["cron"] # NoRequest
    /\ \A d \in delayed : d.left > 0
    /\ \A h \in Handlers : requests[h].age < Latency \/ requests[h] = NoRequest
    /\ wishAge' = [u \in Users |-> Older(wishAge[u])]
    /\ listAge' = [c \in Coins |-> [u \in Users |->
          IF listAge[c][u] = SafetyPeriod THEN SafetyPeriod ELSE Older(listAge[c][u])]]
    /\ requests' = [h \in Handlers |-> IF requests[h] = NoRequest THEN NoRequest
                                       ELSE [requests[h] EXCEPT !.age = @ + 1]]
    /\ delayed' = {[d EXCEPT !.left = @ - 1] : d \in delayed}
    /\ cronSleep' = IF cronSleep > 0 THEN cronSleep - 1 ELSE 0
    /\ lastRequestDate' = Older(lastRequestDate)
    /\ calm' = Older(calm)
    /\ UNCHANGED <<node, registered, importer, userIDMaps, userListJsonCaches, wish, failed, budget>>

Import(c) ==
    /\ \/ Register(c) /\ registered'[c] \subseteq budget.users /\ Spend("registrations")
       \/ ImportFails(c) /\ Spend("faults")
       \/ /\ ImportFetch(c) \/ ImportExists(c) \/ ImportCreate(c) \/ addUser(c)
          /\ UNCHANGED budget
    /\ UNCHANGED apiVars

getUserIDList ==
    \E l \in Lists, id \in 0 .. 1 :
        /\ Spend("queries")
        /\ getUserListJson(l, id)
        /\ UNCHANGED apiVars

Change(h) == ChangeExists(h) \/ ChangeGet(h) \/ ChangeSet(h) \/ ChangeCreate(h) \/ ChangeFails(h)

Next ==
    \/ \E c \in Coins : Import(c)
    \/ getUserIDList \/ Switch \/ Restart \/ Tick
    \/ \E h \in Handlers : Change(h)
    \/ DelayedSet \/ CronPull \/ CronPullFails

Spec == Init /\ [][Next]_vars

-----------------------------------------------------------------------------

TypeOK ==
    /\ ListTypeOK
    /\ wish \in [Users -> Coins \cup {NoCoin}]
    /\ wishAge \in [Users -> 0 .. Cap] /\ calm \in 0 .. Cap
    /\ failed \subseteq Users
    /\ cronSleep \in 0 .. CronInterval /\ lastRequestDate \in Never .. Cap - CronInterval - 1
    /\ \A h \in Handlers : requests[h].age \in 0 .. Latency
    /\ \A d \in delayed : d.left \in 0 .. SafetyPeriod

\* A switch is in effect at the latest after the cron job has pulled it again,
\* and what it writes later has been written; so long a switch that was lost,
\* that was given up when the process ended, or that a delayed write of an older
\* one has overtaken, may be missing.  A failed pull or a restart begins that
\* time anew, and the switch is missing for good only if an error has met the
\* switch itself (changeMiningCoin, RunCronJob).
CoinFollowsList ==
    \A u \in Users \ failed :
        /\ wish[u] # NoCoin
        /\ wishAge[u] > 2 * CronInterval + 2 * Latency + SafetyPeriod
        /\ calm > CronInterval + Latency + SafetyPeriod
        => node[u] = wish[u]
=============================================================================
