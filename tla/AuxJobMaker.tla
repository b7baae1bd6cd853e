---------------------------- MODULE AuxJobMaker ----------------------------
(***************************************************************************)
(* The job maker of mergedMiningProxy (AuxJobMaker.go): one goroutine per  *)
(* chain keeps the block of the chain current and passes the hash of a new *)
(* one to a publisher, which announces it on a socket, and the RPC service *)
(* hands out jobs made of the blocks of all chains.                        *)
(*                                                                         *)
(* maker.lock protects the blocks and the jobs.  updateAuxBlock holds it   *)
(* while it sends on the unbuffered channel of the publisher: that is the  *)
(* only step in which the lock is seen held, all other critical sections   *)
(* are single actions guarded by LockFree.                                 *)
(*                                                                         *)
(* FindAuxJob reads the map of jobs without the lock while GetAuxJob may be *)
(* writing it; Go ends the process when it notices.  That outcome, as every *)
(* other end of the process, is Restart.                                   *)
(***************************************************************************)
EXTENDS AuxPow

CONSTANTS
    NumChains,          \* chains in the configuration
    Replies,            \* per chain: what createauxblock answers, one after another
    MaxJobTarget,       \* config.MaxJobTarget
    AuxPowJobListSize,
    Clients,            \* clients of the RPC service
    NoBlock, NoSlots, NoJob,
    MaxRestarts         \* bound

Chains == 0 .. NumChains - 1

ASSUME ChainAssumption == NumChains \in Nat \ {0} /\ DOMAIN Replies = Chains
\* Every node has something to answer.  A reply may come without a height, and
\* with bits, a target, or both, which then belong together.
Bits == [exponent : Nat, mantissa : 0 .. SignBit - 1]
ASSUME ReplyAssumption ==
    \A c \in Chains :
        /\ Len(Replies[c]) \in Nat \ {0} /\ DOMAIN Replies[c] = 1 .. Len(Replies[c])
        /\ \A i \in DOMAIN Replies[c] :
             LET reply == Replies[c][i]
                 fields == DOMAIN reply
             IN /\ reply.chainID \in 0 .. Modulus - 1
                /\ "height" \in fields => reply.height \in Nat
                /\ fields \cap {"bits", "target"} # {}
                /\ "bits" \in fields => reply.bits \in Bits
                /\ "target" \in fields => reply.target \in 0 .. Power(Base, Bytes) - 1
                /\ {"bits", "target"} \subseteq fields => BitsMatch(reply.bits, reply.target)
ASSUME TargetAssumption == MaxJobTarget \in 0 .. Power(Base, Bytes) - 1
ASSUME ListAssumption == AuxPowJobListSize \in Nat
ASSUME RestartAssumption == MaxRestarts \in Nat

VARIABLES
    tip,               \* external: position in Replies of what a node answers
    updater,           \* goroutine of a chain: step and block in hand
    publisher,         \* "starting", "up", or "down" for good
    inHand,            \* the hash that the publisher has and has not sent yet
    announced,         \* largest height sent on the publisher's socket, per chain
    currentAuxBlocks,
    chainSlots,        \* merkleNonce, merkleSize and chainIDIndexSlots
    auxPowJobs, auxPowJobIndex,
    request,           \* per client: step of its createauxblock, and the job in hand
    restarts           \* for the bound

makerVars == <<currentAuxBlocks, chainSlots>>
jobVars == <<auxPowJobs, auxPowJobIndex>>
publisherVars == <<publisher, inHand, announced>>
vars == <<tip, updater, publisherVars, makerVars, jobVars, request, restarts>>

-----------------------------------------------------------------------------
(* The loops that update the blocks *)

BlockAt == [c \in Chains |-> [i \in DOMAIN Replies[c] |-> BlockOf(c, Replies[c][i])]]
Blocks(c) == Range(BlockAt[c])

ASSUME NoBlockAssumption == \A c \in Chains : NoBlock \notin Blocks(c)

IdleUpdater == [pc |-> "idle", block |-> NoBlock]
IdleRequest == [pc |-> "idle", job |-> NoJob]

\* A slip: nobody waits for the lock.
LockIgnored == TRUE

LockFree == \A c \in Chains : updater[c].pc # "sending"

Init ==
    /\ updater = [c \in Chains |-> IdleUpdater]
    /\ publisher = "starting"
    /\ inHand = {}
    /\ announced = [c \in Chains |-> 0]
    /\ currentAuxBlocks = [c \in Chains |-> NoBlock]
    /\ chainSlots = NoSlots
    /\ auxPowJobs = <<>>
    /\ auxPowJobIndex = <<>>
    /\ request = [m \in Clients |-> IdleRequest]
    /\ tip = [c \in Chains |-> 1]
    /\ restarts = 0

\* On a signal of the node or of the timer; the node answers with the block it
\* gave before or with a new one.  A call that fails, or an answer without a
\* result object, changes nothing.
Fetch(c) ==
    /\ updater[c].pc = "idle"
    /\ tip' \in {tip, [tip EXCEPT ![c] = Min({@ + 1, Len(Replies[c])})]}
    /\ updater' = [updater EXCEPT ![c] =
                     [pc |-> "fetched", block |-> BlockAt[c][tip'[c]]]]
    /\ UNCHANGED <<publisherVars, makerVars, jobVars, request, restarts>>

HeightOf(block) == IF block = NoBlock THEN 0 ELSE block.height

\* A slip: the slots survive a change of the chain ID.
SlotsKept(old, new) == chainSlots

\* The slots are assigned anew when there was no block, or it had another ID.
SlotsAfter(old, new) ==
    IF old # NoBlock /\ old.chainID = new.chainID THEN chainSlots ELSE NoSlots

Announces(old, new) == new.height > HeightOf(old)

\* Under the lock, which is kept when there is a height to announce.
Store(c) ==
    LET old == currentAuxBlocks[c]
        new == updater[c].block
    IN /\ updater[c].pc = "fetched"
       /\ LockFree
       /\ chainSlots' = SlotsAfter(old, new)
       /\ currentAuxBlocks' = [currentAuxBlocks EXCEPT ![c] = new]
       /\ updater' = [updater EXCEPT ![c] = IF Announces(old, new)
                                           THEN [pc |-> "sending", block |-> new]
                                           ELSE IdleUpdater]
       /\ UNCHANGED <<tip, publisherVars, jobVars, request, restarts>>

\* A hash on its way to the socket.
HashOf(c) == [chain |-> c, height |-> updater[c].block.height]

\* A slip: the publisher takes one hash of each chain.
ReceiveFirst(c) ==
    /\ updater[c].pc = "sending"
    /\ publisher = "up" /\ inHand = {} /\ announced[c] = 0
    /\ inHand' = {HashOf(c)}
    /\ updater' = [updater EXCEPT ![c] = IdleUpdater]
    /\ UNCHANGED <<tip, publisher, announced, makerVars, jobVars, request, restarts>>

\* The publisher takes the hash from the channel, and the lock is released.
Receive(c) ==
    /\ updater[c].pc = "sending"
    /\ publisher = "up" /\ inHand = {}
    /\ inHand' = {HashOf(c)}
    /\ updater' = [updater EXCEPT ![c] = IdleUpdater]
    /\ UNCHANGED <<tip, publisher, announced, makerVars, jobVars, request, restarts>>

\* It sends the hash on its socket, whose errors it drops.  Its messages that
\* keep the connection alive are left out.
Publish ==
    /\ \E hash \in inHand :
         announced' = [announced EXCEPT ![hash.chain] = Max({@, hash.height})]
    /\ inHand' = {}
    /\ UNCHANGED <<tip, updater, publisher, makerVars, jobVars, request, restarts>>

\* The publisher binds its port, or returns.
PublisherStarts ==
    /\ publisher = "starting"
    /\ publisher' \in {"up", "down"}
    /\ UNCHANGED <<tip, updater, inHand, announced, makerVars, jobVars, request,
                   restarts>>

-----------------------------------------------------------------------------
(* createauxblock *)

Known == {c \in Chains : currentAuxBlocks[c] # NoBlock}

ChainIDs == [c \in Known |-> currentAuxBlocks[c].chainID]

CreateAuxBlock(m) ==
    /\ request[m].pc = "idle"
    /\ request' = [request EXCEPT ![m] = [pc |-> "making", job |-> NoJob]]
    /\ UNCHANGED <<tip, updater, publisherVars, makerVars, jobVars, restarts>>

\* makeAuxJob, under the lock.
MakeAuxJob(m) ==
    /\ request[m].pc = "making"
    /\ LockFree
    /\ Known # {}
    /\ UNCHANGED <<tip, updater, publisherVars, currentAuxBlocks, jobVars, restarts>>
    /\ \E s \in IF chainSlots = NoSlots THEN assignChainSlots(ChainIDs) ELSE {chainSlots} :
         LET blocks == [c \in Known |-> currentAuxBlocks[c]]
         IN /\ chainSlots' = s
            /\ request' = [request EXCEPT ![m] =
                             [pc |-> "made", job |-> MakeJob(blocks, s, MaxJobTarget)]]

\* A slip: nothing recovers the panic, and the client is not answered.
MakeAuxJobFailsEmpty(m) ==
    /\ request[m].pc = "making" /\ LockFree /\ Known = {}
    /\ request' = [request EXCEPT ![m] = IdleRequest]
    /\ UNCHANGED <<tip, updater, publisherVars, makerVars, jobVars, restarts>>

\* There is no block yet, or the search for slots panics; the HTTP server
\* recovers, and the lock is released.
MakeAuxJobFails(m) ==
    /\ request[m].pc = "making"
    /\ LockFree
    /\ Known = {} \/ (chainSlots = NoSlots /\ assignChainSlots(ChainIDs) = {})
    /\ request' = [request EXCEPT ![m] = IdleRequest]
    /\ UNCHANGED <<tip, updater, publisherVars, makerVars, jobVars, restarts>>

With(f, x, v) == [y \in DOMAIN f \cup {x} |-> IF y = x THEN v ELSE f[y]]
Without(f, x) == [y \in DOMAIN f \ {x} |-> f[y]]

\* A slip: a job of another request with the same root is not noticed.
RememberTwice(job) ==
    /\ auxPowJobIndex' = Append(auxPowJobIndex, job.merkleRoot)
    /\ auxPowJobs' = With(auxPowJobs, job.merkleRoot, job)

\* A new job enters the list, and the oldest leaves it when it is too long.
Remember(job) ==
    LET index == Append(auxPowJobIndex, job.merkleRoot)
        jobs == With(auxPowJobs, job.merkleRoot, job)
    IN IF job.merkleRoot \in DOMAIN auxPowJobs THEN UNCHANGED jobVars
       ELSE IF Len(index) > AuxPowJobListSize
       THEN /\ auxPowJobIndex' = Tail(index)
            /\ auxPowJobs' = Without(jobs, Head(index))
       ELSE auxPowJobIndex' = index /\ auxPowJobs' = jobs

\* The second critical section of GetAuxJob, and the answer.
GetAuxJob(m) ==
    /\ request[m].pc = "made"
    /\ LockFree
    /\ UNCHANGED <<tip, updater, publisherVars, makerVars, restarts>>
    /\ request' = [request EXCEPT ![m] = IdleRequest]
    /\ Remember(request[m].job)

\* The process ends and is started again: everything in memory is lost.
Restart ==
    /\ restarts < MaxRestarts
    /\ restarts' = restarts + 1
    /\ updater' = [c \in Chains |-> IdleUpdater]
    /\ publisher' = "starting"
    /\ inHand' = {} /\ announced' = [c \in Chains |-> 0]
    /\ currentAuxBlocks' = [c \in Chains |-> NoBlock]
    /\ chainSlots' = NoSlots
    /\ auxPowJobs' = <<>> /\ auxPowJobIndex' = <<>>
    /\ request' = [m \in Clients |-> IdleRequest]
    /\ UNCHANGED tip

UpdateStep(c) == Fetch(c) \/ Store(c) \/ Receive(c)
RequestStep(m) == MakeAuxJob(m) \/ MakeAuxJobFails(m) \/ GetAuxJob(m)

Next ==
    \/ \E c \in Chains : UpdateStep(c)
    \/ PublisherStarts \/ Publish
    \/ \E m \in Clients : CreateAuxBlock(m) \/ RequestStep(m)
    \/ Restart

\* Goroutines run; the mutex of Go does not starve a waiter; nodes answer.
Fairness ==
    /\ WF_vars(PublisherStarts) /\ WF_vars(Publish)
    /\ \A c \in Chains : SF_vars(UpdateStep(c))
    /\ \A m \in Clients : SF_vars(RequestStep(m))

Spec == Init /\ [][Next]_vars /\ Fairness

-----------------------------------------------------------------------------
(* Properties *)

Roots == DOMAIN auxPowJobs
MadeJobs == {auxPowJobs[r] : r \in Roots}
             \cup {request[m].job : m \in {n \in Clients : request[n].pc = "made"}}

\* Types of the variables.
TypeOK ==
    /\ \A c \in Chains :
         /\ tip[c] \in DOMAIN Replies[c]
         /\ updater[c].pc \in {"idle", "fetched", "sending"}
         /\ updater[c].block \in {NoBlock} \cup Blocks(c)
         /\ (updater[c].pc = "idle") = (updater[c].block = NoBlock)
         /\ currentAuxBlocks[c] \in {NoBlock} \cup Blocks(c)
         /\ announced[c] \in Nat
    /\ publisher \in {"starting", "up", "down"}
    /\ inHand \subseteq [chain : Chains, height : Nat]
    /\ \A x, y \in inHand : x = y
    /\ \A c, d \in Chains : updater[c].pc = "sending" /\ updater[d].pc = "sending" => c = d
    /\ \A m \in Clients : request[m].pc \in {"idle", "making", "made"}
    /\ restarts \in 0 .. MaxRestarts

\* The list of roots and the map of jobs hold the same jobs, each once, and no
\* more than configured, although two requests may make the same job before
\* either remembers it (GetAuxJob).
JobsMatchIndex ==
    /\ Len(auxPowJobIndex) <= AuxPowJobListSize
    /\ Range(auxPowJobIndex) = Roots
    /\ Cardinality(Roots) = Len(auxPowJobIndex)
    /\ \A r \in Roots : auxPowJobs[r].merkleRoot = r

\* Whatever blocks and chain IDs arrive between the steps of a request, every
\* chain of a job finds its block under the root of the job, and at the slot
\* that its node computes from its ID, the size and the nonce (makeAuxJob).
WorkVerifies ==
    \A job \in MadeJobs : \A c \in DOMAIN job.auxPows :
        LET pow == job.auxPows[c]
            branch == PathBranch(pow.branch)
        IN /\ RootOf(pow.block.hash, branch) = job.merkleRoot
           /\ branch.sideMask
                = getChainSlot(pow.block.chainID, job.merkleSize, job.merkleNonce)

\* The tree is the smallest in which the chains of a job have slots of their
\* own: every other nonce would have done for its size, and none for a smaller
\* one, so that the retries with new nonces are in vain (assignChainSlots).
SmallestTree ==
    \A job \in MadeJobs :
        LET ids == [c \in DOMAIN job.auxPows |-> job.auxPows[c].block.chainID]
        IN \A s \in Sizes(Cardinality(DOMAIN ids)), n \in 0 .. Modulus - 1 :
             s <= job.merkleSize => (Conflict(ids, s, n) <=> s < job.merkleSize)

\* A miner that works for the bits of a job meets its target, and loses less
\* than the last digit of the mantissa by the conversion (BigToCompact).
BitsMatchTarget == \A job \in MadeJobs : BitsMatch(job.minBits, job.maxTarget)

\* A height that was announced, or that the hash in hand will announce.
Covered(c, height) ==
    \/ height <= announced[c]
    \/ \E hash \in inHand : hash.chain = c /\ height <= hash.height

\* The jobs run ahead of the announcements by one hash of one chain: a job may
\* be handed out as soon as updateAuxBlock has released the lock, when the
\* publisher has the hash of its block but has not sent it, and for no other
\* block (updateAuxBlock, updateAuxBlockAllChains).
OneHashAhead ==
    \A job \in MadeJobs : \A c \in DOMAIN job.auxPows :
        Covered(c, job.auxPows[c].block.height)

\* Every request for a job ends, with an answer or, when making the job panics,
\* with the connection, although it takes a lock twice that is held over a
\* channel send; unless the publisher has failed, when nobody receives and the
\* lock is held for good.
RequestsAnswered ==
    \A m \in Clients : request[m].pc # "idle" ~> (request[m].pc = "idle" \/ publisher = "down")

\* Again and again the jobs are made of the block that the node of the chain
\* gives, unless the publisher has failed (updateAuxBlockAllChains).
TasksFollowBlocks ==
    \A c \in Chains :
        []<>(publisher = "down" \/ currentAuxBlocks[c] = BlockAt[c][tip[c]])
=============================================================================
