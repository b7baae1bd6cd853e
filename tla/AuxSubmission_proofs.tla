------------------------ MODULE AuxSubmission_proofs ------------------------
(***************************************************************************)
(* Proofs about the submission of work.  That the rows of a block whose     *)
(* acceptance was recorded are never all errors rests on the two ways in   *)
(* which rows change: an INSERT adds one, and an UPDATE writes a response   *)
(* without an error.  That the chains can verify what they are sent is     *)
(* what RootOfExpanded says of branches of any length.                     *)
(***************************************************************************)
EXTENDS AuxSubmission, AuxPow_proofs

Outcomes == {"none"} \cup Responses
Rows == SUBSET (Responses \cup {"recorded"})

\* What a goroutine submits is a block of some job.
OwnBlocks ==
    \A g \in submissions : /\ "outcome" \in DOMAIN g
                           /\ g.hash \in BlockHashes /\ g.outcome \in Outcomes

Inv ==
    /\ TypeOK
    /\ OwnBlocks
    /\ AcceptanceOverErrors

-----------------------------------------------------------------------------
(* New goroutines submit blocks of the jobs. *)
LEMMA GoroutineOwns ==
    ASSUME NEW job \in Jobs, NEW c \in DOMAIN job.auxPows, NEW outer, NEW root
    PROVE  LET g == Goroutine(c, job.auxPows[c], outer, root)
           IN "outcome" \in DOMAIN g /\ g.hash \in BlockHashes /\ g.outcome = "none"
<1> DEFINE hash == job.auxPows[c].block.hash
           branch == ExpandingBlockchainBranch(outer, job.auxPows[c].branch)
           top == RootOf(root, outer)
<1>1. hash \in BlockHashes
  BY DEF BlockHashes
<1>2. Goroutine(c, job.auxPows[c], outer, root)
        = [id |-> submits, chain |-> c, hash |-> hash, outcome |-> "none",
           branch |-> branch, parentRoot |-> top]
  BY DEF Goroutine
<1> HIDE DEF hash, branch, top
<1> QED
  BY <1>1, <1>2

(* Goroutines that were there keep their block, whatever the response. *)
LEMMA SameBlock ==
    ASSUME NEW g, NEW o \in Outcomes, "outcome" \in DOMAIN g, g.hash \in BlockHashes
    PROVE  LET h == [g EXCEPT !.outcome = o]
           IN "outcome" \in DOMAIN h /\ h.hash \in BlockHashes /\ h.outcome = o
OBVIOUS

(* Rows are added, or replaced by one that is no error. *)
LEMMA RowsChange ==
    ASSUME Inv, NEW g \in submissions, NEW column, Record(g, column)
    PROVE  /\ table' \in [BlockHashes -> Rows]
           /\ \A b \in BlockHashes : \/ table[b] \subseteq table'[b]
                                    \/ table'[b] \ {"rejected"} # {}
           /\ g.hash \in acknowledged' \ acknowledged =>
                 table'[g.hash] \ {"rejected"} # {}
<1> DEFINE b == g.hash
           rows == table[b]
           row == IF column THEN g.outcome ELSE "recorded"
           refused == g.chain \in Keyed /\ rows # {}
           done == ~refused \/ Updates(g, column)
           new == IF ~refused THEN rows \cup {row} ELSE IF done THEN {row} ELSE rows
<1>1. b \in BlockHashes /\ g.outcome \in Responses
  BY DEF Inv, OwnBlocks, Outcomes, Record
<1>2. table \in [BlockHashes -> Rows] /\ rows \in Rows
  BY <1>1 DEF Inv, TypeOK, Rows
<1>3. table' = [table EXCEPT ![b] = new]
  BY DEF Record
<1>4. row \in Responses \cup {"recorded"}
  BY <1>1
<1>5. refused /\ done => row # "rejected"
  BY DEF Updates, IsSubmitSuccess
<1>6. done /\ g.outcome = "accepted" => row # "rejected"
  OBVIOUS
<1>7. new = rows \/ new = rows \cup {row} \/ (new = {row} /\ row # "rejected")
  BY <1>5
<1>8. done => row \in new
  OBVIOUS
<1>9. g.hash \in acknowledged' \ acknowledged => done /\ g.outcome = "accepted"
  BY DEF Record
<1> HIDE DEF new, done, refused, row
<1>10. new \in Rows
  BY <1>2, <1>4, <1>7 DEF Rows
<1>11. table' \in [BlockHashes -> Rows] /\ table'[b] = new
       /\ \A a \in BlockHashes : a # b => table'[a] = table[a]
  BY <1>1, <1>2, <1>3, <1>10
<1> QED
  BY <1>6, <1>7, <1>8, <1>9, <1>11

-----------------------------------------------------------------------------
(* One step per action. *)

LEMMA InitInv == Init => Inv
BY BoundAssumption DEF Init, Inv, TypeOK, OwnBlocks, AcceptanceOverErrors

LEMMA SubmitInv == Inv /\ SubmitAuxBlock => Inv'
<1> SUFFICES ASSUME Inv, SubmitAuxBlock
             PROVE  Inv'
  OBVIOUS
<1>1. PICK job \in Jobs, work \in Works, found \in {"big-endian", "little-endian"},
           outer \in Outers :
        LET pows == job.auxPows
            reached == {c \in DOMAIN pows : Reaches(work, found, pows[c].block.target)}
        IN submissions' = submissions \cup
             {Goroutine(c, pows[c], outer, job.merkleRoot) : c \in reached}
  BY DEF SubmitAuxBlock
<1>2. /\ UNCHANGED <<mined, table, acknowledged, restarts, failures>>
      /\ submits < MaxSubmits /\ submits' = submits + 1
  BY DEF SubmitAuxBlock
<1>3. OwnBlocks'
  <2> SUFFICES ASSUME NEW g \in submissions'
               PROVE  /\ "outcome" \in DOMAIN g
                      /\ g.hash \in BlockHashes /\ g.outcome \in Outcomes
    BY DEF OwnBlocks
  <2>1. CASE g \in submissions
    BY <2>1 DEF Inv, OwnBlocks
  <2>2. CASE g \notin submissions
    <3>1. PICK c \in DOMAIN job.auxPows :
            g = Goroutine(c, job.auxPows[c], outer, job.merkleRoot)
      BY <1>1, <2>2
    <3> QED
      BY <3>1, GoroutineOwns DEF Outcomes
  <2> QED
    BY <2>1, <2>2
<1>4. TypeOK'
  BY <1>2, <1>3, BoundAssumption DEF Inv, TypeOK, OwnBlocks, Outcomes
<1>5. AcceptanceOverErrors'
  BY <1>2 DEF Inv, AcceptanceOverErrors
<1> QED
  BY <1>3, <1>4, <1>5 DEF Inv

LEMMA CallInv == ASSUME Inv, NEW g \in submissions, RPCCall(g) PROVE Inv'
<1>1. PICK o \in Outcomes : submissions' = (submissions \ {g}) \cup {[g EXCEPT !.outcome = o]}
  BY DEF RPCCall, Outcomes, Responses
<1>2. OwnBlocks'
  <2> SUFFICES ASSUME NEW h \in submissions'
               PROVE  /\ "outcome" \in DOMAIN h
                      /\ h.hash \in BlockHashes /\ h.outcome \in Outcomes
    BY DEF OwnBlocks
  <2>1. CASE h \in submissions
    BY <2>1 DEF Inv, OwnBlocks
  <2>2. CASE h = [g EXCEPT !.outcome = o]
    <3>1. "outcome" \in DOMAIN g /\ g.hash \in BlockHashes
      BY DEF Inv, OwnBlocks
    <3> QED
      BY <2>2, <3>1, SameBlock
  <2> QED
    BY <1>1, <2>1, <2>2
<1>3. UNCHANGED <<table, acknowledged, submits, restarts, failures>>
  BY DEF RPCCall
<1>4. mined' \subseteq BlockHashes
  BY DEF RPCCall, Inv, TypeOK, OwnBlocks
<1>5. TypeOK'
  BY <1>2, <1>3, <1>4 DEF Inv, TypeOK, OwnBlocks, Outcomes
<1>6. AcceptanceOverErrors'
  BY <1>3 DEF Inv, AcceptanceOverErrors
<1> QED
  BY <1>2, <1>5, <1>6 DEF Inv

(* What is recorded of a block agrees with what was recorded before. *)
LEMMA RecordInv ==
    ASSUME Inv, NEW g \in submissions, NEW column, Record(g, column),
           failures' \in 0 .. MaxFailures
    PROVE  Inv'
<1>1. OwnBlocks' /\ acknowledged' \subseteq BlockHashes
  BY DEF Record, Inv, OwnBlocks, TypeOK
<1>2. UNCHANGED <<mined, submits, restarts>>
  BY DEF Record
<1>3. TypeOK'
  BY <1>1, <1>2, RowsChange DEF Inv, TypeOK, OwnBlocks, Outcomes, Rows
<1>4. AcceptanceOverErrors'
  <2> SUFFICES ASSUME NEW b \in acknowledged'
               PROVE  table'[b] \ {"rejected"} # {}
    BY DEF AcceptanceOverErrors
  <2>1. CASE b \in acknowledged
    <3>1. b \in BlockHashes /\ table[b] \ {"rejected"} # {}
      BY <2>1 DEF Inv, TypeOK, AcceptanceOverErrors
    <3>2. table[b] \subseteq table'[b] \/ table'[b] \ {"rejected"} # {}
      BY <3>1, RowsChange
    <3> QED
      BY <3>1, <3>2
  <2>2. CASE b \notin acknowledged
    <3>1. b = g.hash
      BY <2>2 DEF Record
    <3> QED
      BY <2>2, <3>1, RowsChange
  <2> QED
    BY <2>1, <2>2
<1> QED
  BY <1>1, <1>3, <1>4 DEF Inv

(* A failure of the database, a new start, and steps that change nothing. *)
LEMMA ForgetInv ==
    ASSUME Inv, submissions' \subseteq submissions,
           UNCHANGED <<mined, table, acknowledged, submits>>,
           failures' \in 0 .. MaxFailures, restarts' \in 0 .. MaxRestarts
    PROVE  Inv'
<1>1. OwnBlocks'
  BY DEF Inv, OwnBlocks
<1>2. TypeOK'
  BY <1>1 DEF Inv, TypeOK, OwnBlocks, Outcomes
<1> QED
  BY <1>1, <1>2 DEF Inv, AcceptanceOverErrors

LEMMA StepInv == Inv /\ [Next]_vars => Inv'
<1> SUFFICES ASSUME Inv, [Next]_vars
             PROVE  Inv'
  OBVIOUS
<1>1. ASSUME NEW g \in submissions, InsertFails(g)
      PROVE  Inv'
  <2>1. failures' \in 0 .. MaxFailures /\ restarts' \in 0 .. MaxRestarts
    BY <1>1, BoundAssumption DEF InsertFails, Inv, TypeOK
  <2> QED
    BY <1>1, <2>1, ForgetInv DEF InsertFails
<1>2. CASE Restart
  <2>1. failures' \in 0 .. MaxFailures /\ restarts' \in 0 .. MaxRestarts
    BY <1>2, BoundAssumption DEF Restart, Inv, TypeOK
  <2> QED
    BY <1>2, <2>1, ForgetInv DEF Restart
<1>3. CASE UNCHANGED vars
  <2>1. failures' \in 0 .. MaxFailures /\ restarts' \in 0 .. MaxRestarts
    BY <1>3 DEF vars, Inv, TypeOK
  <2> QED
    BY <1>3, <2>1, ForgetInv DEF vars
<1>4. ASSUME NEW g \in submissions, InsertAuxBlock(g)
      PROVE  Inv'
  BY <1>4, RecordInv DEF InsertAuxBlock, Inv, TypeOK
<1>5. ASSUME NEW g \in submissions, InsertWithoutColumn(g)
      PROVE  Inv'
  <2>1. failures' = failures + 1 /\ failures < MaxFailures
    BY <1>5 DEF InsertWithoutColumn
  <2>2. failures' \in 0 .. MaxFailures
    BY <2>1, BoundAssumption DEF Inv, TypeOK
  <2>3. Record(g, FALSE)
    BY <1>5 DEF InsertWithoutColumn
  <2> QED
    BY <2>2, <2>3, RecordInv
<1> QED
  BY <1>1, <1>2, <1>3, <1>4, <1>5, SubmitInv, CallInv DEF Next

\* The invariant holds in every state of the specification.
THEOREM Invariance == Spec => []Inv
BY InitInv, StepInv, PTL DEF Spec

\* Goroutines submit blocks of the jobs, and rows hold responses.
THEOREM TypesCorrect == Spec => []TypeOK
<1>1. Inv => TypeOK
  BY DEF Inv
<1> QED
  BY <1>1, Invariance, PTL

\* Once InsertAuxBlock says that it has recorded the acceptance of a block, the
\* rows of the block are never all errors, in whatever order any number of
\* submissions reach the chain and the database, and whether or not the tables
\* refuse a second row of a block.  That a response without an error may replace
\* the acceptance is left open: it may (InsertAuxBlock).
THEOREM ErrorsYield == Spec => []AcceptanceOverErrors
<1>1. Inv => AcceptanceOverErrors
  BY DEF Inv
<1> QED
  BY <1>1, Invariance, PTL

-----------------------------------------------------------------------------
(* Branches *)

Verifies(g) == RootOf(g.hash, g.branch) = g.parentRoot

LEMMA GoroutineVerifies ==
    ASSUME NEW job \in Jobs, NEW c \in DOMAIN job.auxPows, NEW outer \in Outers
    PROVE  Verifies(Goroutine(c, job.auxPows[c], outer, job.merkleRoot))
<1> DEFINE pow == job.auxPows[c]
           g == Goroutine(c, pow, outer, job.merkleRoot)
<1>1. /\ pow.branch \in Seq(Range(pow.branch))
      /\ RootOf(pow.block.hash, PathBranch(pow.branch)) = job.merkleRoot
      /\ Len(pow.branch) + Len(outer.branchs) <= Width
  BY JobAssumption, OuterAssumption DEF LeadsToRoot
<1>2. outer.branchs \in Seq(Range(outer.branchs)) /\ outer.sideMask \in Nat
  BY OuterAssumption
<1>3. /\ g.hash = pow.block.hash
      /\ g.branch = ExpandingBlockchainBranch(outer, pow.branch)
      /\ g.parentRoot = RootOf(job.merkleRoot, outer)
  BY DEF Goroutine
<1> HIDE DEF pow, g
<1>4. RootOf(pow.block.hash, ExpandingBlockchainBranch(outer, pow.branch))
        = RootOf(RootOf(pow.block.hash, PathBranch(pow.branch)), outer)
  <2> DEFINE path == pow.branch
             leaf == pow.block.hash
             E == Range(path)
             H == Range(outer.branchs)
  <2>1. path \in Seq(E) /\ Len(path) + Len(outer.branchs) <= Width
    BY <1>1
  <2>2. outer.branchs \in Seq(H) /\ outer.sideMask \in Nat
    BY <1>2
  <2> HIDE DEF path, leaf, E, H
  <2>3. RootOf(leaf, ExpandingBlockchainBranch(outer, path))
          = RootOf(RootOf(leaf, PathBranch(path)), outer)
    BY <2>1, <2>2, RootOfExpanded
  <2> QED
    BY <2>3 DEF path, leaf
<1>5. Verifies(g)
  BY <1>1, <1>3, <1>4 DEF Verifies
<1> QED
  BY <1>5 DEF g, pow

LEMMA OutcomeVerifies ==
    ASSUME NEW g, NEW o, Verifies(g)
    PROVE  Verifies([g EXCEPT !.outcome = o])
<1>1. /\ [g EXCEPT !.outcome = o].hash = g.hash
      /\ [g EXCEPT !.outcome = o].branch = g.branch
      /\ [g EXCEPT !.outcome = o].parentRoot = g.parentRoot
  OBVIOUS
<1> QED
  BY <1>1 DEF Verifies

\* Whatever the sizes of the trees, the branch that a chain is sent leads from
\* its block to where the work of the miner leads from the root of the job
\* (ExpandingBlockchainBranch), for trees that the mask has bits for.
THEOREM SubmittedLeads == Spec => []SubmittedVerifies
<1> DEFINE All == \A g \in submissions : Verifies(g)
<1>1. Init => All
  BY DEF Init
<1>2. ASSUME All, [Next]_vars
      PROVE  All'
  <2>1. CASE SubmitAuxBlock
    <3>1. PICK job \in Jobs, work \in Works, found \in {"big-endian", "little-endian"},
               outer \in Outers :
            LET pows == job.auxPows
                reached == {c \in DOMAIN pows : Reaches(work, found, pows[c].block.target)}
            IN submissions' = submissions \cup
                 {Goroutine(c, pows[c], outer, job.merkleRoot) : c \in reached}
      BY <2>1 DEF SubmitAuxBlock
    <3>2. \A g \in submissions' : g \in submissions \/ \E c \in DOMAIN job.auxPows :
              g = Goroutine(c, job.auxPows[c], outer, job.merkleRoot)
      BY <3>1
    <3> QED
      BY <1>2, <3>2, GoroutineVerifies
  <2>2. ASSUME NEW g \in submissions, RPCCall(g)
        PROVE  All'
    <3>1. PICK o : submissions' = (submissions \ {g}) \cup {[g EXCEPT !.outcome = o]}
      BY <2>2 DEF RPCCall
    <3>2. Verifies([g EXCEPT !.outcome = o])
      BY <1>2, OutcomeVerifies
    <3> QED
      BY <1>2, <3>1, <3>2
  <2>3. ASSUME submissions' \subseteq submissions
        PROVE  All'
    BY <1>2, <2>3
  <2>4. ASSUME NEW g \in submissions,
               InsertAuxBlock(g) \/ InsertWithoutColumn(g) \/ InsertFails(g)
        PROVE  submissions' \subseteq submissions
    BY <2>4 DEF InsertAuxBlock, InsertWithoutColumn, Record, InsertFails
  <2>5. CASE Restart
    BY <2>3, <2>5 DEF Restart
  <2>6. CASE UNCHANGED vars
    BY <2>3, <2>6 DEF vars
  <2> QED
    BY <1>2, <2>1, <2>2, <2>3, <2>4, <2>5, <2>6 DEF Next
<1>3. All => SubmittedVerifies
  BY DEF Verifies, SubmittedVerifies
<1> QED
  BY <1>1, <1>2, <1>3, PTL DEF Spec

=============================================================================
