--------------------------- MODULE AuxSubmission ---------------------------
(***************************************************************************)
(* The submission of work by mergedMiningProxy (ProxyRPC.go): a goroutine  *)
(* per chain sends the proof of work to the node of the chain and records  *)
(* the response in the database (DbConnection.go).                         *)
(*                                                                         *)
(* The jobs that AuxJobMaker remembers are a constant: which of them are   *)
(* found when work arrives is the environment's choice, and work for a job *)
(* that is not found changes nothing.                                      *)
(*                                                                         *)
(* The tables are made outside of the repository.  Whether one refuses a   *)
(* second row for a block, which the UPDATE of InsertAuxBlock is for, is   *)
(* a constant.                                                             *)
(***************************************************************************)
EXTENDS AuxPow

CONSTANTS
    Jobs,          \* jobs the miners may have been handed
    HasResponse,   \* chains whose table has the column submit_response
    Keyed,         \* external: chains whose table refuses a second row of a block
    Works,         \* hashes of parent blocks, as numbers
    Outers,        \* branches above the root of a job in submitted work
    MaxSubmits, MaxRestarts, MaxFailures   \* bounds

ASSUME BoundAssumption == MaxSubmits \in Nat /\ MaxRestarts \in Nat /\ MaxFailures \in Nat

Chains == UNION {DOMAIN job.auxPows : job \in Jobs}
BlockHashes == UNION {{job.auxPows[c].block.hash : c \in DOMAIN job.auxPows} : job \in Jobs}

\* Jobs are those of makeAuxJob: AuxJobMaker makes no others.
ASSUME JobAssumption == \A job \in Jobs : LeadsToRoot(job)
\* A hash says of which chain a block is, so that one table stands for those of all.
ASSUME HashAssumption == ChainsApart(Jobs)

\* The mask has bits for the branches of the work and of the job.
ASSUME OuterAssumption ==
    \A outer \in Outers :
        /\ outer.branchs \in Seq(Range(outer.branchs)) /\ outer.sideMask \in Nat
        /\ \A job \in Jobs : \A c \in DOMAIN job.auxPows :
             Len(job.auxPows[c].branch) + Len(outer.branchs) <= Width

VARIABLES
    submissions,   \* goroutines of submitAuxBlock
    mined,         \* external: blocks that their chain has accepted
    table,         \* external: the rows of a block, as the set of their responses
    acknowledged,  \* blocks whose acceptance InsertAuxBlock says it has recorded
    submits, restarts, failures   \* for the bounds

vars == <<submissions, mined, table, acknowledged, submits, restarts, failures>>

Init ==
    /\ submissions = {}
    /\ mined = {}
    /\ table = [b \in BlockHashes |-> {}]
    /\ acknowledged = {}
    /\ submits = 0 /\ restarts = 0 /\ failures = 0

\* ParseAuxPowData keeps the hash in the byte order in which it is found, and
\* it is compared with the target as it is.
Reaches(work, found, target) ==
    (IF found = "little-endian" THEN Reverse(work) ELSE work) <= target

\* The goroutine of a chain expands its own copy of the branch of the work by
\* that of the chain in the job.
Goroutine(c, pow, outer, root) ==
    [id |-> submits, chain |-> c, hash |-> pow.block.hash, outcome |-> "none",
     branch |-> ExpandingBlockchainBranch(outer, pow.branch),
     parentRoot |-> RootOf(root, outer)]

\* Nothing happens when the work reaches no target ("high-hash").
SubmitAuxBlock ==
    \E job \in Jobs, work \in Works, found \in {"big-endian", "little-endian"}, outer \in Outers :
        LET pows == job.auxPows
            reached == {c \in DOMAIN pows : Reaches(work, found, pows[c].block.target)}
        IN /\ submits < MaxSubmits
           /\ reached # {}
           /\ submissions' = submissions \cup
                {Goroutine(c, pows[c], outer, job.merkleRoot) : c \in reached}
           /\ submits' = submits + 1
           /\ UNCHANGED <<mined, table, acknowledged, restarts, failures>>

\* The call of a goroutine.  A chain accepts a block once, and answers others with
\* an error ("rejected") or with the result false and no error ("refused"); the
\* call or its response may be lost, and the goroutine does not look at the error.
RPCCall(g) ==
    /\ g.outcome = "none"
    /\ \/ /\ g.hash \notin mined
          /\ mined' = mined \cup {g.hash}
          /\ \E outcome \in {"accepted", "lost"} :
                submissions' = (submissions \ {g}) \cup {[g EXCEPT !.outcome = outcome]}
       \/ /\ \E outcome \in {"rejected", "refused", "lost"} :
                submissions' = (submissions \ {g}) \cup {[g EXCEPT !.outcome = outcome]}
          /\ UNCHANGED mined
    /\ UNCHANGED <<table, acknowledged, submits, restarts, failures>>

\* There was no error in the response, which is also so when there was none, and
\* whatever its result.
IsSubmitSuccess(g) == g.outcome # "rejected"

\* A slip: the row is replaced whatever the response.
UpdatesAlways(g, column) == column

\* After an INSERT that has failed.
Updates(g, column) == column /\ IsSubmitSuccess(g)

\* The INSERT, and the UPDATE of every row of the block when it is refused.
Record(g, column) ==
    LET rows == table[g.hash]
        row == IF column THEN g.outcome ELSE "recorded"
        refused == g.chain \in Keyed /\ rows # {}
        done == ~refused \/ Updates(g, column)
    IN /\ g.outcome # "none"
       /\ table' = [table EXCEPT ![g.hash] = IF ~refused THEN rows \cup {row}
                                             ELSE IF done THEN {row} ELSE rows]
       /\ acknowledged' = IF done /\ g.outcome = "accepted" THEN acknowledged \cup {g.hash}
                          ELSE acknowledged
       /\ submissions' = submissions \ {g}
       /\ UNCHANGED <<mined, submits, restarts>>

InsertAuxBlock(g) == Record(g, g.chain \in HasResponse) /\ UNCHANGED failures

\* The question for the column fails, which reads as that there is none.
InsertWithoutColumn(g) ==
    /\ failures < MaxFailures
    /\ failures' = failures + 1
    /\ Record(g, FALSE)

\* The database is away: a warning is logged, and the response is forgotten.
InsertFails(g) ==
    /\ failures < MaxFailures
    /\ failures' = failures + 1
    /\ g.outcome # "none"
    /\ submissions' = submissions \ {g}
    /\ UNCHANGED <<mined, table, acknowledged, submits, restarts>>

\* The process ends and is started again.
Restart ==
    /\ restarts < MaxRestarts
    /\ restarts' = restarts + 1
    /\ submissions' = {}
    /\ UNCHANGED <<mined, table, acknowledged, submits, failures>>

Next ==
    \/ SubmitAuxBlock
    \/ \E g \in submissions : \/ RPCCall(g) \/ InsertFails(g)
                              \/ InsertAuxBlock(g) \/ InsertWithoutColumn(g)
    \/ Restart

Spec == Init /\ [][Next]_vars

-----------------------------------------------------------------------------
(* Properties *)

Responses == {"accepted", "rejected", "refused", "lost"}

\* Types of the variables.
TypeOK ==
    /\ \A g \in submissions : g.hash \in BlockHashes /\ g.outcome \in {"none"} \cup Responses
    /\ mined \subseteq BlockHashes /\ acknowledged \subseteq BlockHashes
    /\ table \in [BlockHashes -> SUBSET (Responses \cup {"recorded"})]
    /\ submits \in 0 .. MaxSubmits /\ restarts \in 0 .. MaxRestarts
    /\ failures \in 0 .. MaxFailures

\* What a goroutine submits to its chain leads from the block of the chain to
\* where the work of the miner led from the root of the job, also when that is
\* itself in a larger tree (ExpandingBlockchainBranch).
SubmittedVerifies ==
    \A g \in submissions : RootOf(g.hash, g.branch) = g.parentRoot

\* Of several submissions of a block at most one is accepted, and the others
\* fail.  In whatever order they reach the database, once InsertAuxBlock says that
\* it has recorded the acceptance the rows of the block are never all errors: the
\* acceptance replaces the error of a duplicate, and none replaces it.  A refusal or
\* a lost response, which are no errors for the code, may replace it (InsertAuxBlock).
AcceptanceOverErrors ==
    \A b \in acknowledged : table[b] \ {"rejected"} # {}
=============================================================================
