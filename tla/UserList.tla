------------------------------ MODULE UserList ------------------------------
(***************************************************************************)
(* The import of the users of each coin from the website                   *)
(* (userChainAPIServer/initUserCoin): a goroutine per coin gives a new     *)
(* user that coin, if it has none, and lists the user for the servers of   *)
(* the coin, which ask over HTTP for the users after an ID.                *)
(*                                                                         *)
(* The variable node is shared with the switcher API, which is composed    *)
(* with the import in the module SwitcherAPI.                              *)
(***************************************************************************)
EXTENDS Integers, FiniteSets

CONSTANTS
    Users, Coins, NoCoin, NoUser,
    AllCoins,        \* "", the merged list
    PUID,            \* external: [Coins -> [Users -> Nat]], 0 if not in the list
    SafetyPeriod,    \* 1.5 * IntervalSeconds
    NoCache

ASSUME ListAssumption ==
    /\ PUID \in [Coins -> [Users -> Nat]]
    /\ SafetyPeriod \in Nat \ {0}
    /\ NoCoin \notin Coins /\ AllCoins \notin Coins /\ NoUser \notin Users

VARIABLES
    node,            \* the coin in the node of a user, which stratumSwitcher watches
    registered,      \* external: the website's list of users per coin
    importer,        \* the goroutine InitUserCoin of each coin
    userIDMaps,      \* the pairs of an ID and a user in each list; an ID is in a list once
    listAge,         \* userUpdateTimeMaps, as the time since; users in no list have none
    userListJsonCaches

listVars == <<registered, importer, userIDMaps, listAge, userListJsonCaches>>

Unlisted == -1
Idle == [pc |-> "sleep", batch |-> {}, user |-> NoUser, lastPUID |-> 0]
Lists == Coins \cup {AllCoins}

\* A process that has just started, for nodes and lists that are there.
ListStarts ==
    /\ importer' = [c \in Coins |-> Idle]
    /\ userIDMaps' = [l \in Lists |-> {}]
    /\ listAge' = [c \in Coins |-> [u \in Users |-> Unlisted]]
    /\ userListJsonCaches' = [c \in Lists |-> NoCache]

-----------------------------------------------------------------------------
(* InitUserCoin *)

\* external: a new user in the list of a coin.  IDs are given in order.
Register(c) ==
    \E u \in Users :
        /\ PUID[c][u] > 0 /\ u \notin registered[c]
        /\ \A v \in Users : PUID[c][v] \in 1 .. PUID[c][u] - 1 => v \in registered[c]
        /\ registered' = [registered EXCEPT ![c] = @ \cup {u}]
        /\ UNCHANGED <<node, importer, userIDMaps, listAge, userListJsonCaches>>

\* The users after the last ID; a request that fails is repeated after a while.
ImportFetch(c) ==
    /\ importer[c].pc = "sleep"
    /\ LET new == {u \in registered[c] : PUID[c][u] > importer[c].lastPUID}
       IN /\ new # {}
          /\ importer' = [importer EXCEPT ![c] = [@ EXCEPT !.pc = "exists", !.batch = new]]
    /\ UNCHANGED <<node, registered, userIDMaps, listAge, userListJsonCaches>>

\* A batch ends with its last user.
Rest(i) ==
    LET left == i.batch \ {i.user}
    IN [i EXCEPT !.batch = left, !.user = NoUser, !.pc = IF left = {} THEN "sleep" ELSE "exists"]

\* setMiningCoin; the map is ranged over in any order.
ImportExists(c) ==
    /\ importer[c].pc = "exists"
    /\ \E u \in importer[c].batch :
         importer' = [importer EXCEPT ![c] = [@ EXCEPT !.user = u,
                         !.pc = IF node[u] = NoCoin THEN "create" ELSE "add"]]
    /\ UNCHANGED <<node, registered, userIDMaps, listAge, userListJsonCaches>>

ImportCreate(c) ==
    LET u == importer[c].user
    IN /\ importer[c].pc = "create"
       /\ IF node[u] = NoCoin
          THEN /\ node' = [node EXCEPT ![u] = c]
               /\ importer' = [importer EXCEPT ![c].pc = "add"]
          ELSE /\ importer' = [importer EXCEPT ![c] = Rest(@)]
               /\ UNCHANGED node
       /\ UNCHANGED <<registered, userIDMaps, listAge, userListJsonCaches>>

\* ZooKeeper does not answer: the user is left out.
ImportFails(c) ==
    /\ importer[c].pc = "exists"
    /\ \E u \in importer[c].batch :
         importer' = [importer EXCEPT ![c] = Rest([@ EXCEPT !.user = u])]
    /\ UNCHANGED <<node, registered, userIDMaps, listAge, userListJsonCaches>>

\* A slip: the cache of the merged list stays.
ClearedOwn(c) == [userListJsonCaches EXCEPT ![c] = NoCache]

Cleared(c) == [userListJsonCaches EXCEPT ![c] = NoCache, ![AllCoins] = NoCache]

\* The map of a list is keyed by the ID.
Put(list, id, u) == {e \in list : e[1] # id} \cup {<<id, u>>}

addUser(c) ==
    LET i == importer[c]
        id == PUID[c][i.user]
    IN /\ i.pc = "add"
       /\ userIDMaps' = [userIDMaps EXCEPT ![c] = Put(@, id, i.user), ![AllCoins] = Put(@, id, i.user)]
       /\ listAge' = [listAge EXCEPT ![c] = [@ EXCEPT ![i.user] = 0]]
       /\ userListJsonCaches' = Cleared(c)
       /\ importer' = [importer EXCEPT ![c] =
             [Rest(i) EXCEPT !.lastPUID = IF id > @ THEN id ELSE @]]
       /\ UNCHANGED <<node, registered>>

-----------------------------------------------------------------------------
(* getUserListJson *)

UserList(list, lastUserId) == {e \in userIDMaps[list] : e[1] > lastUserId}

\* The answer is that of the cache, if it is for the same last ID.
getUserListJson(list, lastUserId) ==
    /\ userListJsonCaches' = [userListJsonCaches EXCEPT ![list] =
          IF @ # NoCache /\ @.lastUserId = lastUserId THEN @
          ELSE [lastUserId |-> lastUserId, users |-> UserList(list, lastUserId)]]
    /\ UNCHANGED <<node, registered, importer, userIDMaps, listAge>>

-----------------------------------------------------------------------------

ListTypeOK ==
    /\ node \in [Users -> Coins \cup {NoCoin}]
    /\ registered \in [Coins -> SUBSET Users]
    /\ userIDMaps \in [Lists -> SUBSET (Nat \X Users)]
    /\ listAge \in [Coins -> [Users -> Unlisted .. SafetyPeriod]]
    /\ \A c \in Coins :
         /\ importer[c].pc \in {"sleep", "exists", "create", "add"}
         /\ importer[c].pc = "sleep" <=> importer[c].batch = {}
         /\ importer[c].user \in importer[c].batch \cup {NoUser}
         /\ importer[c].pc = "add" => node[importer[c].user] # NoCoin

\* The cached answers, of the lists of the coins and of the merged list, are
\* those that would be given without the caches (addUser, getUserListJson).
ListIsCurrent ==
    \A l \in Lists : userListJsonCaches[l] # NoCache =>
        userListJsonCaches[l].users = UserList(l, userListJsonCaches[l].lastUserId)
=============================================================================
