--------------------------- MODULE ChainSwitcher ---------------------------
(***************************************************************************)
(* The automatic switch of the chain (chainSwitcher/main.go): one          *)
(* goroutine asks an API for the best chain and sends it to the mining     *)
(* servers by Kafka, another falls back on a default chain when the API    *)
(* has been silent, and a third answers servers that come online.  They    *)
(* share currentChainName and updateTime without a lock.                   *)
(*                                                                         *)
(* A string is written and read in two words (ptr, len), so a name may be  *)
(* torn.  Times are relative: updateTime is the time since then, up to     *)
(* FailSafeSeconds + 1.                                                    *)
(***************************************************************************)
EXTENDS Integers, Sequences, FiniteSets

CONSTANTS
    Chains, NoChain,          \* NoChain: the empty name
    ChainNameMap,             \* [some coins -> Chains]
    Limited,                  \* chains with an entry in ChainLimits
    Answers,                  \* external: what the API may answer, as lists of coins
    Down,
    FailSafeChain, FailSafeSeconds, SwitchIntervalSeconds,
    Latency,                  \* bound: ticks of an iteration of a goroutine, if the API is not down
    MaxEvents                 \* bound: commands lost, ends of the process, servers that come online

ASSUME ChainAssumption ==
    /\ FailSafeChain \in Chains /\ NoChain \notin Chains
    /\ Limited \subseteq Chains
    /\ Down \notin Answers
    /\ \A coin \in DOMAIN ChainNameMap : ChainNameMap[coin] \in Chains

\* The configuration leaves the API an interval to answer before the fail-safe,
\* which sets updateTime back by what it takes itself.
ASSUME IntervalAssumption ==
    /\ SwitchIntervalSeconds \in Nat \ {0}
    /\ Latency \in [{"updateChain", "failSafe", "readResponse"} -> Nat]
    /\ FailSafeSeconds >= SwitchIntervalSeconds + 2 * Latency["updateChain"] + Latency["failSafe"]

VARIABLES
    world,              \* external: what the API answers, and the chains at their limits
    currentChainName, updateTime,
    goroutine,          \* per goroutine: the record below
    command,            \* external: the last command that Kafka has
    events              \* for the bound

vars == <<world, currentChainName, updateTime, goroutine, command, events>>

Goroutines == {"updateChain", "failSafe", "readResponse"}
Words(name) == [ptr |-> name, len |-> name]
Worlds == [api : Answers, full : SUBSET Limited] \cup {[api |-> Down, full |-> {}]}
LongAgo == FailSafeSeconds + 1

\* Since it woke up a goroutine is `age` ticks in its iteration; name is what it
\* has chosen or read, and old what it has read at the start.
Sleeping(left) == [pc |-> "sleep", left |-> left, age |-> 0,
                   old |-> Words(NoChain), name |-> Words(NoChain)]

Start ==
    [g \in Goroutines |-> Sleeping(IF g = "failSafe" THEN FailSafeSeconds ELSE 0)]

Init ==
    /\ world \in Worlds
    /\ currentChainName = Words(NoChain)
    /\ updateTime = LongAgo
    /\ goroutine = Start
    /\ command = Words(NoChain)
    /\ events = 0

At(g, pc) == goroutine[g].pc = pc
Goto(g, pc) == goroutine' = [goroutine EXCEPT ![g].pc = pc]
Shared == <<currentChainName, updateTime>>

-----------------------------------------------------------------------------
(* Steps that several goroutines take *)

\* currentChainName = name, in two words.
WritePtr(g) ==
    /\ At(g, "ptr")
    /\ currentChainName' = [currentChainName EXCEPT !.ptr = goroutine[g].name.ptr]
    /\ Goto(g, "len")
    /\ UNCHANGED <<world, updateTime, command, events>>

AfterWrite == [updateChain |-> "stamp", failSafe |-> "read"]

WriteLen(g) ==
    /\ At(g, "len")
    /\ currentChainName' = [currentChainName EXCEPT !.len = goroutine[g].name.len]
    /\ goroutine' = [goroutine EXCEPT ![g] = [@ EXCEPT !.pc = AfterWrite[g], !.name = Words(NoChain)]]
    /\ UNCHANGED <<world, updateTime, command, events>>

\* updateTime = now; failSafe has read the clock when it woke up.
Stamp(g) ==
    /\ At(g, "stamp")
    /\ updateTime' = IF g = "failSafe" THEN goroutine[g].age ELSE 0
    /\ goroutine' = [goroutine EXCEPT ![g] = IF g = "failSafe" THEN Sleeping(FailSafeSeconds)
                                             ELSE [@ EXCEPT !.pc = "record"]]
    /\ UNCHANGED <<world, currentChainName, command, events>>

\* sendCurrentChainToKafka; the command is made up before it is written, and
\* an error of WriteMessages is not looked at.
SendRead(g) ==
    /\ At(g, "read")
    /\ goroutine' = [goroutine EXCEPT ![g] = [@ EXCEPT !.pc = "send", !.name = currentChainName]]
    /\ UNCHANGED <<world, Shared, command, events>>

AfterSend(g) ==
    CASE g = "updateChain" -> Sleeping(SwitchIntervalSeconds)
      [] g = "failSafe" -> [goroutine[g] EXCEPT !.pc = "record", !.name = Words(NoChain)]
      [] OTHER -> Sleeping(0)

Send(g) ==
    /\ At(g, "send")
    /\ \/ command' = goroutine[g].name /\ UNCHANGED events
       \/ events < MaxEvents /\ events' = events + 1 /\ UNCHANGED command
    /\ goroutine' = [goroutine EXCEPT ![g] = AfterSend(g)]
    /\ UNCHANGED <<world, Shared>>

\* The record of a switch is inserted (updateChain: only if the name is another
\* than before); or the database fails, which ends the process, and it is
\* started again.
Record(g) ==
    /\ At(g, "record")
    /\ \/ /\ goroutine' = [goroutine EXCEPT ![g] =
                [@ EXCEPT !.pc = IF g = "failSafe" THEN "stamp" ELSE "empty"]]
          /\ UNCHANGED <<Shared, events>>
       \/ /\ g = "failSafe" \/ goroutine[g].old # currentChainName
          /\ events < MaxEvents /\ events' = events + 1
          /\ currentChainName' = Words(NoChain)
          /\ updateTime' = LongAgo
          /\ goroutine' = Start
    /\ UNCHANGED <<world, command>>

-----------------------------------------------------------------------------
(* updateChain and updateCurrentChain *)

\* A slip: the name of the coin is taken for that of its chain.
BestCoin(coins, full) == IF coins = <<>> THEN FailSafeChain ELSE Head(coins)

\* The first coin of the list whose chain is known and not at its limit.
BestChain(coins, full) ==
    LET open == {i \in DOMAIN coins :
                    coins[i] \in DOMAIN ChainNameMap /\ ChainNameMap[coins[i]] \notin full}
    IN IF open = {} THEN FailSafeChain
       ELSE ChainNameMap[coins[CHOOSE i \in open : \A j \in open : i <= j]]

Fetch ==
    /\ At("updateChain", "sleep") /\ goroutine["updateChain"].left = 0
    /\ goroutine' = [goroutine EXCEPT !["updateChain"] = [@ EXCEPT !.pc = "fetch", !.old = currentChainName]]
    /\ UNCHANGED <<world, Shared, command, events>>

\* The answer, and then the hashrates of limited chains, at the limit or below
\* it: a query that fails counts as at the limit, no recent shares as below.
Answered ==
    /\ At("updateChain", "fetch") /\ world.api # Down
    /\ goroutine' = [goroutine EXCEPT !["updateChain"] =
          [@ EXCEPT !.pc = "ptr", !.name = Words(BestChain(world.api, world.full))]]
    /\ UNCHANGED <<world, Shared, command, events>>

\* An error, after any time, as there is no time limit.
FetchFails ==
    /\ At("updateChain", "fetch") /\ world.api = Down
    /\ Goto("updateChain", "empty")
    /\ UNCHANGED <<world, Shared, command, events>>

\* A slip: only a chain that has changed is sent.
SendChanged ==
    /\ At("updateChain", "empty")
    /\ goroutine' = [goroutine EXCEPT !["updateChain"] =
          IF currentChainName # @.old THEN [@ EXCEPT !.pc = "read", !.old = Words(NoChain)]
          ELSE Sleeping(SwitchIntervalSeconds)]
    /\ UNCHANGED <<world, Shared, command, events>>

\* The chain is sent again after every interval, changed or not.
SendUnlessEmpty ==
    /\ At("updateChain", "empty")
    /\ goroutine' = [goroutine EXCEPT !["updateChain"] =
          IF currentChainName # Words(NoChain) THEN [@ EXCEPT !.pc = "read", !.old = Words(NoChain)]
          ELSE Sleeping(SwitchIntervalSeconds)]
    /\ UNCHANGED <<world, Shared, command, events>>

-----------------------------------------------------------------------------
(* failSafe and readResponse *)

Silent == updateTime > FailSafeSeconds

FailSafeCheck ==
    /\ At("failSafe", "sleep") /\ goroutine["failSafe"].left = 0
    /\ goroutine' = [goroutine EXCEPT !["failSafe"] =
          IF Silent THEN [@ EXCEPT !.pc = "ptr", !.name = Words(FailSafeChain)]
          ELSE Sleeping(FailSafeSeconds)]
    /\ UNCHANGED <<world, Shared, command, events>>

\* external: a mining server comes online; other messages are logged.
Online ==
    /\ At("readResponse", "sleep")
    /\ events < MaxEvents /\ events' = events + 1
    /\ Goto("readResponse", "read")
    /\ UNCHANGED <<world, Shared, command>>

-----------------------------------------------------------------------------
(* The world *)

WorldChanges ==
    /\ world' \in Worlds \ {world}
    /\ UNCHANGED <<Shared, goroutine, command, events>>

\* A sleep that is over ends, and an iteration takes no longer than Latency,
\* except for a request to an API that is down.
Hangs(g) == At(g, "fetch") /\ world.api = Down

Tick ==
    /\ \A g \in Goroutines :
         IF At(g, "sleep") THEN goroutine[g].left > 0 \/ g = "readResponse"
         ELSE goroutine[g].age < Latency[g] \/ Hangs(g)
    /\ updateTime' = IF updateTime = LongAgo THEN LongAgo ELSE updateTime + 1
    /\ goroutine' = [g \in Goroutines |->
          IF At(g, "sleep")
          THEN [goroutine[g] EXCEPT !.left = IF @ > 0 THEN @ - 1 ELSE 0]
          ELSE [goroutine[g] EXCEPT !.age = IF @ < Latency[g] THEN @ + 1 ELSE @]]
    /\ UNCHANGED <<world, currentChainName, command, events>>

Common(g) == WritePtr(g) \/ WriteLen(g) \/ Stamp(g) \/ SendRead(g) \/ Send(g) \/ Record(g)
UpdateChain == Common("updateChain") \/ Fetch \/ Answered \/ FetchFails \/ SendUnlessEmpty
FailSafe == Common("failSafe") \/ FailSafeCheck
Respond == SendRead("readResponse") \/ Send("readResponse")

Next == UpdateChain \/ FailSafe \/ Respond \/ Online \/ WorldChanges \/ Tick

\* The goroutines are scheduled, time passes, and a request to the API ends.
Spec ==
    /\ Init /\ [][Next]_vars
    /\ WF_vars(UpdateChain) /\ WF_vars(FailSafe) /\ WF_vars(Respond) /\ WF_vars(Tick)

-----------------------------------------------------------------------------

Names == [ptr : Chains \cup {NoChain}, len : Chains \cup {NoChain}]

TypeOK ==
    /\ world \in Worlds
    /\ currentChainName \in Names /\ command \in Names
    /\ updateTime \in 0 .. LongAgo
    /\ events \in 0 .. MaxEvents
    /\ \A g \in Goroutines :
         /\ goroutine[g].old \in Names /\ goroutine[g].name \in Names
         /\ goroutine[g].age \in 0 .. Latency[g]
         /\ goroutine[g].left \in 0 .. FailSafeSeconds
         /\ goroutine[g].pc \in {"sleep", "fetch", "empty", "ptr", "len", "stamp", "read", "send", "record"}

Wanted(w) == Words(IF w.api = Down THEN FailSafeChain ELSE BestChain(w.api, w.full))

\* When the API goes on to give the same answer, the servers are on the best
\* chain that is not at its limit, and when it goes on to be silent they are on
\* the default chain, in the end and for good, although the goroutines race for
\* the name and commands get lost (updateCurrentChain, failSafe,
\* sendCurrentChainToKafka).
ChainSettles ==
    \A w \in Worlds :
        <>[](world = w) => <>[](currentChainName = Wanted(w) /\ command = Wanted(w))
=============================================================================
