------------------------- MODULE AuxJobMaker_proofs -------------------------
(***************************************************************************)
(* Proofs about the job maker: the list of jobs and its index agree, jobs  *)
(* run ahead of the announcements by one hash of one chain, and what a job *)
(* says of its chains, its tree and its target is right.                   *)
(*                                                                         *)
(* The second rests on the lock: a block whose hash the publisher has not  *)
(* taken yet is in the hands of the one goroutine that holds the lock, so  *)
(* that no job can be made.  The third rests on the slots: they are        *)
(* dropped with every change of a chain ID, so that a job made with slots  *)
(* of an earlier job has them for the IDs it is made of; the rest is the   *)
(* arithmetic of AuxPow_proofs.                                            *)
(***************************************************************************)
EXTENDS AuxJobMaker, AuxPow_proofs, FiniteSetTheorems, SequenceTheorems, TLAPS

\* The domains that TypeOK leaves to the definitions.
Shapes ==
    /\ DOMAIN tip = Chains /\ DOMAIN announced = Chains
    /\ DOMAIN currentAuxBlocks = Chains
    /\ updater = [c \in Chains |-> [pc |-> updater[c].pc, block |-> updater[c].block]]
    /\ request = [m \in Clients |-> [pc |-> request[m].pc, job |-> request[m].job]]

\* A block that the maker has and that neither was announced nor is in the hands
\* of the publisher is the one its goroutine is sending to the publisher.
CurrentIsCovered ==
    \A c \in Chains : currentAuxBlocks[c] # NoBlock =>
        \/ Covered(c, currentAuxBlocks[c].height)
        \/ updater[c].pc = "sending" /\ updater[c].block = currentAuxBlocks[c]

\* The index is a sequence without repetitions.
IndexIsSequence == \E S : auxPowJobIndex \in Seq(S)
IndexHasEachOnce ==
    \A i, j \in 1 .. Len(auxPowJobIndex) : auxPowJobIndex[i] = auxPowJobIndex[j] => i = j

\* The blocks of a job are those of its chains.
JobsOfBlocks ==
    \A job \in MadeJobs : \A c \in DOMAIN job.auxPows :
        c \in Chains /\ job.auxPows[c].block \in Blocks(c)

\* The slots are those of the chain IDs of the current blocks: whatever changes
\* an ID drops them.
SlotsAreCurrent == chainSlots # NoSlots => Assigned(chainSlots, ChainIDs)

\* The made jobs are what the arithmetic of makeAuxJob says of one job.
JobsMadeWell ==
    \A job \in MadeJobs : JobVerifies(job) /\ JobIsSmallest(job) /\ JobBitsMatch(job)

Types == TypeOK /\ Shapes
Lists == IndexIsSequence /\ IndexHasEachOnce /\ IsFiniteSet(Roots) /\ JobsMatchIndex
Announcements == CurrentIsCovered /\ JobsOfBlocks /\ OneHashAhead
Work == SlotsAreCurrent /\ JobsMadeWell

Inv == Types /\ Lists /\ Announcements /\ Work

-----------------------------------------------------------------------------
(* Blocks *)

LEMMA BlockHeights ==
    ASSUME NEW c \in Chains, NEW b \in Blocks(c)
    PROVE  b # NoBlock /\ b.height \in Nat
<1>1. PICK i \in DOMAIN Replies[c] : b = BlockOf(c, Replies[c][i])
  BY DEF Blocks, BlockAt, Range
<1> DEFINE h == IF "height" \in DOMAIN Replies[c][i] THEN Replies[c][i].height ELSE 0
<1>2. h \in Nat
  BY ReplyAssumption
<1>3. BlockOf(c, Replies[c][i]).height = h
  BY DEF BlockOf
<1> QED
  BY <1>1, <1>2, <1>3, NoBlockAssumption

(* Bits and target of a block belong together, whichever of them was missing. *)
LEMMA BlockBits ==
    ASSUME NEW c \in Chains, NEW b \in Blocks(c)
    PROVE  /\ b.chainID \in Nat /\ b.target \in Nat
           /\ BitsMatch(b.bits, b.target)
<1>1. PICK i \in DOMAIN Replies[c] : b = BlockOf(c, Replies[c][i])
  BY DEF Blocks, BlockAt, Range
<1> DEFINE reply == Replies[c][i]
           fields == DOMAIN reply
           bits == IF "bits" \in fields THEN reply.bits ELSE BigToCompact(reply.target)
           target == IF "target" \in fields THEN reply.target ELSE CompactToBig(bits)
<1>2. /\ reply.chainID \in 0 .. Modulus - 1
      /\ "bits" \in fields \/ "target" \in fields
      /\ "bits" \in fields => reply.bits \in Bits
      /\ "target" \in fields => reply.target \in 0 .. Power(Base, Bytes) - 1
      /\ "bits" \in fields /\ "target" \in fields => BitsMatch(reply.bits, reply.target)
  BY ReplyAssumption
<1>3. b.chainID = reply.chainID /\ b.bits = bits /\ b.target = target
  BY <1>1 DEF BlockOf
<1>4. Modulus \in Nat /\ Power(Base, Bytes) \in Nat
  BY ScrambleFits, BasePowers, ArithmeticAssumption
<1> HIDE DEF reply
<1>5. CASE "target" \in fields
  <2>1. reply.target \in Nat /\ reply.target < Power(Base, Bytes)
    BY <1>2, <1>4, <1>5
  <2>2. BitsMatch(bits, reply.target)
    <3>1. CASE "bits" \in fields
      BY <1>2, <1>5, <3>1
    <3>2. CASE "bits" \notin fields
      BY <2>1, <3>2, BigToCompactMatches
    <3> QED
      BY <3>1, <3>2
  <2>3. target = reply.target
    BY <1>5
  <2> HIDE DEF bits, target
  <2> QED
    BY <1>2, <1>3, <1>4, <2>1, <2>2, <2>3
<1>6. CASE "target" \notin fields
  <2>1. bits = reply.bits /\ GoodBits(reply.bits)
    BY <1>2, <1>6 DEF GoodBits, Bits
  <2>2. CompactToBig(reply.bits) \in Nat /\ BitsMatch(reply.bits, CompactToBig(reply.bits))
    BY <2>1, BitsMatchThemselves
  <2>3. target = CompactToBig(reply.bits)
    BY <1>6, <2>1
  <2> HIDE DEF bits, target
  <2> QED
    BY <1>2, <1>3, <1>4, <2>1, <2>2, <2>3
<1> QED
  BY <1>5, <1>6

(* A job is made of the blocks it is made from. *)
LEMMA JobBlocks ==
    ASSUME NEW blocks, NEW s, NEW max, NEW c \in DOMAIN MakeJob(blocks, s, max).auxPows
    PROVE  c \in DOMAIN blocks /\ MakeJob(blocks, s, max).auxPows[c].block = blocks[c]
BY DEF MakeJob

-----------------------------------------------------------------------------
(* The list of jobs *)

(* Taking the first of a sequence without repetitions takes it from its range. *)
LEMMA TailDrops ==
    ASSUME NEW S, NEW q \in Seq(S), q # <<>>,
           \A i, j \in 1 .. Len(q) : q[i] = q[j] => i = j
    PROVE  /\ Tail(q) \in Seq(S) /\ Len(Tail(q)) = Len(q) - 1
           /\ Range(Tail(q)) = Range(q) \ {Head(q)}
           /\ \A i, j \in 1 .. Len(Tail(q)) : Tail(q)[i] = Tail(q)[j] => i = j
<1>1. /\ Tail(q) \in Seq(S) /\ Len(Tail(q)) = Len(q) - 1 /\ Len(q) \in Nat \ {0}
      /\ \A i \in 1 .. Len(q) - 1 : Tail(q)[i] = q[i + 1]
      /\ Head(q) = q[1] /\ DOMAIN q = 1 .. Len(q) /\ DOMAIN Tail(q) = 1 .. Len(q) - 1
  OBVIOUS
<1>2. Range(Tail(q)) \subseteq Range(q) \ {Head(q)}
  <2> SUFFICES ASSUME NEW i \in 1 .. Len(q) - 1
               PROVE  q[i + 1] \in Range(q) /\ q[i + 1] # q[1]
    BY <1>1 DEF Range
  <2> QED
    BY <1>1 DEF Range
<1>3. Range(q) \ {Head(q)} \subseteq Range(Tail(q))
  <2> SUFFICES ASSUME NEW i \in 1 .. Len(q), q[i] # q[1]
               PROVE  q[i] \in Range(Tail(q))
    BY <1>1 DEF Range
  <2>1. i - 1 \in 1 .. Len(q) - 1 /\ Tail(q)[i - 1] = q[i]
    BY <1>1
  <2> QED
    BY <1>1, <2>1 DEF Range
<1>4. ASSUME NEW i \in 1 .. Len(Tail(q)), NEW j \in 1 .. Len(Tail(q)), Tail(q)[i] = Tail(q)[j]
      PROVE  i = j
  <2>1. i + 1 \in 1 .. Len(q) /\ j + 1 \in 1 .. Len(q) /\ q[i + 1] = q[j + 1]
    BY <1>1, <1>4
  <2>2. i + 1 = j + 1
    BY <2>1
  <2> QED
    BY <1>1, <2>2
<1> QED
  BY <1>1, <1>2, <1>3, <1>4

(* Adding what is not there keeps a sequence without repetitions. *)
LEMMA AppendAdds ==
    ASSUME NEW S, NEW q \in Seq(S), NEW r, r \notin Range(q),
           \A i, j \in 1 .. Len(q) : q[i] = q[j] => i = j
    PROVE  /\ Append(q, r) \in Seq(S \cup {r}) /\ Len(Append(q, r)) = Len(q) + 1
           /\ Append(q, r) # <<>>
           /\ Range(Append(q, r)) = Range(q) \cup {r}
           /\ \A i, j \in 1 .. Len(Append(q, r)) : Append(q, r)[i] = Append(q, r)[j] => i = j
<1>1. q \in Seq(S \cup {r})
  OBVIOUS
<1>2. /\ Append(q, r) \in Seq(S \cup {r}) /\ Len(Append(q, r)) = Len(q) + 1 /\ Len(q) \in Nat
      /\ \A i \in 1 .. Len(q) : Append(q, r)[i] = q[i]
      /\ Append(q, r)[Len(q) + 1] = r
      /\ DOMAIN q = 1 .. Len(q) /\ DOMAIN Append(q, r) = 1 .. Len(q) + 1
  BY <1>1
<1>3. \A i \in 1 .. Len(q) : q[i] # r
  BY <1>2 DEF Range
<1>4. Range(Append(q, r)) = Range(q) \cup {r}
  BY <1>2 DEF Range
<1>5. ASSUME NEW i \in 1 .. Len(q) + 1, NEW j \in 1 .. Len(q) + 1,
             Append(q, r)[i] = Append(q, r)[j]
      PROVE  i = j
  <2>1. CASE i \in 1 .. Len(q) /\ j \in 1 .. Len(q)
    BY <1>2, <1>5, <2>1
  <2>2. CASE i = Len(q) + 1 \/ j = Len(q) + 1
    BY <1>2, <1>3, <1>5, <2>2
  <2> QED
    BY <1>2, <2>1, <2>2
<1>6. Append(q, r) # <<>>
  BY <1>2
<1> QED
  BY <1>2, <1>4, <1>5, <1>6

(* A new job enters the list and the map, and the oldest leaves both. *)
LEMMA RememberLists ==
    ASSUME Lists, NEW job, Remember(job)
    PROVE  Lists'
<1> DEFINE r == job.merkleRoot
           index == Append(auxPowJobIndex, r)
           jobs == With(auxPowJobs, r, job)
<1>1. PICK S : auxPowJobIndex \in Seq(S)
  BY DEF Lists, IndexIsSequence
<1>2. CASE r \in Roots
  <2>1. UNCHANGED jobVars
    BY <1>2 DEF Remember, Roots
  <2> QED
    BY <2>1 DEF jobVars, Lists, IndexIsSequence, IndexHasEachOnce, JobsMatchIndex, Roots
<1>3. CASE r \notin Roots
  <2>1. /\ index \in Seq(S \cup {r}) /\ Len(index) = Len(auxPowJobIndex) + 1
        /\ index # <<>> /\ Range(index) = Roots \cup {r}
        /\ \A i, j \in 1 .. Len(index) : index[i] = index[j] => i = j
    BY <1>1, <1>3, AppendAdds DEF Lists, IndexHasEachOnce, JobsMatchIndex
  <2>2. /\ DOMAIN jobs = Roots \cup {r}
        /\ \A x \in DOMAIN jobs : jobs[x].merkleRoot = x
    BY <1>3 DEF Lists, JobsMatchIndex, Roots, With
  <2>3. /\ IsFiniteSet(Roots \cup {r})
        /\ Cardinality(Roots \cup {r}) = Len(index) /\ Len(auxPowJobIndex) \in Nat
    <3>1. IsFiniteSet(Roots) /\ Cardinality(Roots) = Len(auxPowJobIndex)
      BY DEF Lists, JobsMatchIndex
    <3>2. Len(auxPowJobIndex) \in Nat
      BY <1>1
    <3>3. /\ IsFiniteSet(Roots \cup {r})
          /\ Cardinality(Roots \cup {r}) = Cardinality(Roots) + 1
      BY <1>3, <3>1, FS_AddElement
    <3> QED
      BY <2>1, <3>1, <3>2, <3>3
  <2>4. CASE Len(index) > AuxPowJobListSize
    <3> DEFINE h == Head(index)
    <3>1. auxPowJobIndex' = Tail(index) /\ auxPowJobs' = Without(jobs, h)
      BY <1>3, <2>4 DEF Remember, Roots
    <3>2. /\ Tail(index) \in Seq(S \cup {r}) /\ Len(Tail(index)) = Len(index) - 1
          /\ Range(Tail(index)) = Range(index) \ {h}
          /\ \A i, j \in 1 .. Len(Tail(index)) : Tail(index)[i] = Tail(index)[j] => i = j
      <4> PICK T : T = S \cup {r}
        OBVIOUS
      <4> PICK q : q = index
        OBVIOUS
      <4>1. /\ q \in Seq(T) /\ q # <<>>
            /\ \A i, j \in 1 .. Len(q) : q[i] = q[j] => i = j
        BY <2>1
      <4> HIDE DEF index, jobs, r
      <4>2. /\ Tail(q) \in Seq(T) /\ Len(Tail(q)) = Len(q) - 1
            /\ Range(Tail(q)) = Range(q) \ {Head(q)}
            /\ \A i, j \in 1 .. Len(Tail(q)) : Tail(q)[i] = Tail(q)[j] => i = j
        BY <4>1, TailDrops
      <4> QED
        BY <4>2
    <3>3. Roots' = (Roots \cup {r}) \ {h}
      BY <2>2, <3>1 DEF Roots, Without
    <3>4. \A x \in Roots' : auxPowJobs'[x].merkleRoot = x
      BY <2>2, <3>1, <3>3 DEF Without
    <3>5. h \in Roots \cup {r}
      BY <2>1 DEF Range
    <3>6. /\ IsFiniteSet((Roots \cup {r}) \ {h})
          /\ Cardinality((Roots \cup {r}) \ {h}) = Len(index) - 1
      <4> HIDE DEF index, h, jobs, r
      <4> QED
        BY <2>3, <3>5, FS_RemoveElement
    <3>7. Len(index) - 1 <= AuxPowJobListSize
      BY <2>1, <2>3, ListAssumption DEF Lists, JobsMatchIndex
    <3> HIDE DEF index, h, jobs, r
    <3>8. IndexIsSequence' /\ IndexHasEachOnce'
      BY <3>1, <3>2 DEF IndexIsSequence, IndexHasEachOnce
    <3>9. IsFiniteSet(Roots')
      BY <3>3, <3>6
    <3>10. JobsMatchIndex'
      BY <2>1, <3>1, <3>2, <3>3, <3>4, <3>6, <3>7 DEF JobsMatchIndex
    <3> QED
      BY <3>8, <3>9, <3>10 DEF Lists
  <2>5. CASE ~(Len(index) > AuxPowJobListSize)
    <3>1. auxPowJobIndex' = index /\ auxPowJobs' = jobs
      BY <1>3, <2>5 DEF Remember, Roots
    <3>2. Len(index) <= AuxPowJobListSize
      BY <2>1, <2>3, <2>5, ListAssumption
    <3> HIDE DEF index, jobs, r
    <3>3. Roots' = Roots \cup {r}
      BY <2>2, <3>1 DEF Roots
    <3>4. IndexIsSequence' /\ IndexHasEachOnce' /\ IsFiniteSet(Roots')
      BY <2>1, <2>3, <3>1, <3>3 DEF IndexIsSequence, IndexHasEachOnce
    <3>5. JobsMatchIndex'
      BY <2>1, <2>2, <2>3, <3>1, <3>2, <3>3 DEF JobsMatchIndex, Roots
    <3> QED
      BY <3>4, <3>5 DEF Lists
  <2> QED
    BY <2>4, <2>5
<1> QED
  BY <1>2, <1>3

(* The map gets no other job. *)
LEMMA RememberJobs ==
    ASSUME NEW job, Remember(job)
    PROVE  \A x \in Roots' : auxPowJobs'[x] = job \/ (x \in Roots /\ auxPowJobs'[x] = auxPowJobs[x])
<1> DEFINE jobs == With(auxPowJobs, job.merkleRoot, job)
<1>1. \A x \in DOMAIN jobs : jobs[x] = job \/ (x \in Roots /\ jobs[x] = auxPowJobs[x])
  BY DEF Roots, With
<1>2. \/ auxPowJobs' = auxPowJobs
      \/ auxPowJobs' = jobs
      \/ auxPowJobs' = Without(jobs, Head(Append(auxPowJobIndex, job.merkleRoot)))
  BY DEF Remember, jobVars
<1> HIDE DEF jobs
<1> QED
  BY <1>1, <1>2 DEF Roots, Without

-----------------------------------------------------------------------------
(* What steps leave alone *)

LEMMA SameLists == ASSUME Lists, UNCHANGED jobVars PROVE Lists'
BY DEF jobVars, Lists, IndexIsSequence, IndexHasEachOnce, JobsMatchIndex, Roots

(* What was announced or is in hand stays so. *)
LEMMA SameCover ==
    ASSUME UNCHANGED <<inHand, announced>>
    PROVE  \A c \in Chains : \A h \in Nat : Covered(c, h) => Covered(c, h)'
BY DEF Covered

(* Jobs go, and announcements come. *)
LEMMA FewerJobs ==
    ASSUME Inv, MadeJobs' \subseteq MadeJobs,
           \A c \in Chains : \A h \in Nat : Covered(c, h) => Covered(c, h)'
    PROVE  JobsOfBlocks' /\ OneHashAhead'
<1>1. ASSUME NEW job \in MadeJobs', NEW c \in DOMAIN job.auxPows
      PROVE  /\ c \in Chains /\ job.auxPows[c].block \in Blocks(c)
             /\ Covered(c, job.auxPows[c].block.height)'
  <2>1. c \in Chains /\ job.auxPows[c].block \in Blocks(c)
    BY DEF Inv, Announcements, JobsOfBlocks
  <2>2. PICK h \in Nat : h = job.auxPows[c].block.height
    BY <2>1, BlockHeights
  <2>3. Covered(c, h)
    BY <2>2 DEF Inv, Announcements, OneHashAhead
  <2>4. Covered(c, h)'
    BY <2>1, <2>3
  <2> QED
    BY <2>1, <2>2, <2>4 DEF Covered
<1> QED
  BY <1>1 DEF JobsOfBlocks, OneHashAhead, Covered

(* Jobs go, and the slots stay with the IDs. *)
LEMMA SameWork ==
    ASSUME Work, MadeJobs' \subseteq MadeJobs,
           chainSlots' # NoSlots => chainSlots' = chainSlots /\ ChainIDs' = ChainIDs
    PROVE  Work'
<1>1. SlotsAreCurrent'
  BY DEF Work, SlotsAreCurrent
<1>2. JobsMadeWell'
  BY DEF Work, JobsMadeWell
<1> QED
  BY <1>1, <1>2 DEF Work

LEMMA SameIDs ==
    ASSUME Work, MadeJobs' \subseteq MadeJobs, UNCHANGED makerVars
    PROVE  Work'
<1>1. chainSlots' = chainSlots /\ ChainIDs' = ChainIDs
  BY DEF makerVars, ChainIDs, Known
<1> QED
  BY <1>1, SameWork

(* A block with the same ID keeps the IDs, and another drops the slots. *)
LEMMA StoreWork ==
    ASSUME Inv, NEW c \in Chains, Store(c), MadeJobs' \subseteq MadeJobs
    PROVE  Work'
<1> DEFINE old == currentAuxBlocks[c]
           new == updater[c].block
<1>1. /\ updater[c].pc = "fetched"
      /\ currentAuxBlocks' = [currentAuxBlocks EXCEPT ![c] = new]
      /\ chainSlots' = IF old # NoBlock /\ old.chainID = new.chainID
                       THEN chainSlots ELSE NoSlots
  BY DEF Store, SlotsAfter
<1>2. new # NoBlock
  BY <1>1, BlockHeights DEF Inv, Types, TypeOK
<1> HIDE DEF new
<1>3. ASSUME chainSlots' # NoSlots
      PROVE  chainSlots' = chainSlots /\ ChainIDs' = ChainIDs
  <2>1. chainSlots' = chainSlots /\ old # NoBlock /\ old.chainID = new.chainID
    BY <1>1, <1>3
  <2>2. /\ currentAuxBlocks'[c] = new
        /\ \A d \in Chains : d # c => currentAuxBlocks'[d] = currentAuxBlocks[d]
    BY <1>1 DEF Inv, Types, Shapes
  <2>3. Known' = Known
    BY <1>2, <2>1, <2>2 DEF Known
  <2>4. \A d \in Known : currentAuxBlocks'[d].chainID = currentAuxBlocks[d].chainID
    BY <2>1, <2>2 DEF Known
  <2> QED
    BY <2>1, <2>3, <2>4 DEF ChainIDs
<1> QED
  BY <1>3, SameWork DEF Inv

(* The slots of a new job are those it finds, or new ones. *)
LEMMA MakeWork ==
    ASSUME Inv, NEW m \in Clients, MakeAuxJob(m), NEW job, NEW s,
           s \in IF chainSlots = NoSlots THEN assignChainSlots(ChainIDs) ELSE {chainSlots},
           job = MakeJob([c \in Known |-> currentAuxBlocks[c]], s, MaxJobTarget),
           chainSlots' = s, MadeJobs' \subseteq MadeJobs \cup {job}
    PROVE  Work'
<1> DEFINE blocks == [c \in Known |-> currentAuxBlocks[c]]
<1>1. Known # {} /\ currentAuxBlocks' = currentAuxBlocks
  BY DEF MakeAuxJob
<1>2. Assigned(s, ChainIDs)
  <2>1. CASE chainSlots = NoSlots
    BY <2>1, SlotsAssigned
  <2>2. CASE chainSlots # NoSlots
    BY <2>2 DEF Inv, Work, SlotsAreCurrent
  <2> QED
    BY <2>1, <2>2
<1>3. DOMAIN blocks = Known /\ Known \subseteq 0 .. NumChains - 1 /\ NumChains \in Nat
  BY ChainAssumption DEF Known, Chains
<1>4. ASSUME NEW c \in Known
      PROVE  /\ blocks[c].chainID = ChainIDs[c] /\ ChainIDs[c] \in Nat
             /\ blocks[c].target \in Nat /\ BitsMatch(blocks[c].bits, blocks[c].target)
  <2>1. c \in Chains /\ blocks[c] = currentAuxBlocks[c] /\ currentAuxBlocks[c] \in Blocks(c)
    BY DEF Known, Inv, Types, TypeOK
  <2>2. ChainIDs[c] = currentAuxBlocks[c].chainID
    BY DEF ChainIDs
  <2> QED
    BY <2>1, <2>2, BlockBits
<1>5. ChainIDs = [c \in DOMAIN blocks |-> blocks[c].chainID]
  BY DEF ChainIDs
<1>6. job = MakeJob(blocks, s, MaxJobTarget)
  OBVIOUS
<1>7. MaxJobTarget \in Nat /\ MaxJobTarget < Power(Base, Bytes)
  <2>1. Power(Base, Bytes) \in Nat
    BY BasePowers, ArithmeticAssumption
  <2> QED
    BY <2>1, TargetAssumption
<1>8. PICK ids : ids = ChainIDs
  OBVIOUS
<1> HIDE DEF blocks
<1>9. /\ ids = [c \in DOMAIN blocks |-> blocks[c].chainID]
      /\ \A c \in DOMAIN blocks : ids[c] \in Nat
      /\ Assigned(s, ids)
  BY <1>2, <1>3, <1>4, <1>5, <1>8
<1>10. JobVerifies(job)
  BY <1>6, <1>9, MakeJobVerifies
<1>11. JobIsSmallest(job)
  BY <1>6, <1>9, MakeJobSmallest
<1>12. JobBitsMatch(job)
  BY <1>1, <1>3, <1>4, <1>6, <1>7, MakeJobBits
<1>13. JobsMadeWell'
  BY <1>10, <1>11, <1>12 DEF Inv, Work, JobsMadeWell
<1>14. SlotsAreCurrent'
  BY <1>1, <1>2 DEF SlotsAreCurrent, ChainIDs, Known
<1> QED
  BY <1>13, <1>14 DEF Work

(* Requests that lose their job, or begin. *)
LEMMA RequestDrops ==
    ASSUME Inv, NEW m \in Clients, NEW r, r.pc # "made", auxPowJobs' = auxPowJobs,
           request' = [request EXCEPT ![m] = r]
    PROVE  MadeJobs' \subseteq MadeJobs
<1>1. DOMAIN request = Clients
  BY DEF Inv, Types, Shapes
<1>2. \A n \in Clients : n # m => request'[n] = request[n]
  BY <1>1
<1>3. request'[m] = r
  BY <1>1
<1> QED
  BY <1>2, <1>3 DEF MadeJobs, Roots

-----------------------------------------------------------------------------
(* One step per action. *)

LEMMA InitInv == Init => Inv
<1> SUFFICES ASSUME Init
             PROVE  Inv
  OBVIOUS
<1>1. TypeOK
  BY ReplyAssumption, RestartAssumption DEF Init, TypeOK, IdleUpdater, IdleRequest
<1>2. Shapes
  BY DEF Init, Shapes, IdleUpdater, IdleRequest
<1>3. Roots = {} /\ Range(auxPowJobIndex) = {} /\ Len(auxPowJobIndex) = 0
  BY DEF Init, Roots, Range
<1>4. IndexIsSequence /\ IndexHasEachOnce
  BY <1>3 DEF Init, IndexIsSequence, IndexHasEachOnce
<1>5. IsFiniteSet(Roots) /\ JobsMatchIndex
  BY <1>3, FS_EmptySet, ListAssumption DEF JobsMatchIndex
<1>6. MadeJobs = {}
  BY <1>3 DEF Init, MadeJobs, IdleRequest
<1>7. Announcements
  BY <1>6 DEF Init, Announcements, CurrentIsCovered, JobsOfBlocks, OneHashAhead
<1>8. Work
  BY <1>6 DEF Init, Work, SlotsAreCurrent, JobsMadeWell
<1> QED
  BY <1>1, <1>2, <1>4, <1>5, <1>7, <1>8 DEF Inv, Types, Lists

LEMMA FetchInv == ASSUME Inv, NEW c \in Chains, Fetch(c) PROVE Inv'
<1> DEFINE r == [pc |-> "fetched", block |-> BlockAt[c][tip'[c]]]
<1>1. /\ updater[c].pc = "idle" /\ updater' = [updater EXCEPT ![c] = r]
      /\ UNCHANGED <<publisher, inHand, announced, currentAuxBlocks, chainSlots, auxPowJobs,
                     auxPowJobIndex, request, restarts>>
  BY DEF Fetch, makerVars, jobVars, publisherVars
<1>2. tip[c] \in 1 .. Len(Replies[c]) /\ DOMAIN tip = Chains
  <2>1. tip[c] \in DOMAIN Replies[c] /\ DOMAIN tip = Chains
    BY DEF Inv, Types, TypeOK, Shapes
  <2>2. DOMAIN Replies[c] = 1 .. Len(Replies[c])
    BY ReplyAssumption
  <2> QED
    BY <2>1, <2>2
<1>3. DOMAIN tip' = Chains /\ \A d \in Chains : tip'[d] \in DOMAIN Replies[d]
  <2> DEFINE next == Min({tip[c] + 1, Len(Replies[c])})
  <2>1. next \in 1 .. Len(Replies[c])
    <3>1. PICK i \in Int, n \in Int : i = tip[c] + 1 /\ n = Len(Replies[c])
      BY <1>2, ReplyAssumption
    <3>2. Min({i, n}) \in {i, n} /\ Min({i, n}) <= n
      BY MinOfTwo
    <3>3. next = Min({i, n}) /\ i >= 1 /\ n >= 1
      BY <1>2, <3>1, ReplyAssumption
    <3> QED
      BY <3>1, <3>2, <3>3
  <2>2. tip' = tip \/ tip' = [tip EXCEPT ![c] = next]
    BY DEF Fetch
  <2> HIDE DEF next
  <2> QED
    BY <1>2, <2>1, <2>2, ReplyAssumption DEF Inv, Types, TypeOK
<1>4. BlockAt[c][tip'[c]] \in Blocks(c)
  BY <1>3 DEF BlockAt, Blocks, Range
<1>5. r.pc = "fetched" /\ r.block \in Blocks(c) /\ r = [pc |-> r.pc, block |-> r.block]
  BY <1>4
<1> HIDE DEF r
<1>6. /\ DOMAIN updater = Chains /\ updater'[c] = r
      /\ \A d \in Chains : d # c => updater'[d] = updater[d]
  BY <1>1 DEF Inv, Types, Shapes
<1>7. Types'
  <2>1. Shapes'
    BY <1>1, <1>3, <1>5, <1>6 DEF Inv, Types, Shapes
  <2>2. TypeOK'
    BY <1>1, <1>3, <1>5, <1>6, NoBlockAssumption DEF Inv, Types, TypeOK
  <2> QED
    BY <2>1, <2>2 DEF Types
<1>8. Lists'
  BY <1>1, SameLists DEF Inv, jobVars
<1>9. CurrentIsCovered'
  BY <1>1, <1>6 DEF Inv, Announcements, CurrentIsCovered, Covered
<1>10. MadeJobs' \subseteq MadeJobs
  BY <1>1 DEF MadeJobs, Roots
<1>11. JobsOfBlocks' /\ OneHashAhead'
  BY <1>1, <1>10, SameCover, FewerJobs
<1>12. Work'
  BY <1>1, <1>10, SameIDs DEF Inv, makerVars
<1> QED
  BY <1>7, <1>8, <1>9, <1>11, <1>12 DEF Inv, Announcements

(* A block that needs no announcement has a height that is covered. *)
LEMMA StoreInv == ASSUME Inv, NEW c \in Chains, Store(c) PROVE Inv'
<1> DEFINE old == currentAuxBlocks[c]
           new == updater[c].block
           r == IF Announces(old, new) THEN [pc |-> "sending", block |-> new] ELSE IdleUpdater
<1>1. /\ updater[c].pc = "fetched" /\ LockFree
      /\ currentAuxBlocks' = [currentAuxBlocks EXCEPT ![c] = new]
      /\ updater' = [updater EXCEPT ![c] = r]
      /\ UNCHANGED <<tip, publisher, inHand, announced, auxPowJobs, auxPowJobIndex, request, restarts>>
  BY DEF Store, jobVars, publisherVars
<1>2. new \in Blocks(c) /\ new # NoBlock /\ new.height \in Nat
  BY <1>1, BlockHeights DEF Inv, Types, TypeOK
<1>3. announced[c] \in Nat /\ old \in {NoBlock} \cup Blocks(c)
  BY DEF Inv, Types, TypeOK
<1>4. Covered(c, HeightOf(old)) /\ HeightOf(old) \in Nat
  <2>1. CASE old = NoBlock
    BY <1>3, <2>1 DEF HeightOf, Covered
  <2>2. CASE old # NoBlock
    BY <1>1, <1>3, <2>2, BlockHeights
       DEF Inv, Announcements, CurrentIsCovered, HeightOf, LockFree
  <2> QED
    BY <2>1, <2>2
<1>5. \/ r = IdleUpdater /\ Covered(c, new.height)
      \/ r = [pc |-> "sending", block |-> new]
  <2>1. CASE Announces(old, new)
    BY <2>1
  <2>2. CASE ~Announces(old, new)
    <3>1. new.height <= HeightOf(old)
      BY <1>2, <1>4, <2>2 DEF Announces
    <3>2. \A hash \in inHand : hash.height \in Nat
      BY DEF Inv, Types, TypeOK
    <3>3. Covered(c, new.height)
      BY <1>2, <1>3, <1>4, <3>1, <3>2 DEF Covered
    <3> QED
      BY <2>2, <3>3
  <2> QED
    BY <2>1, <2>2
<1>6. /\ r = [pc |-> r.pc, block |-> r.block] /\ r.pc \in {"idle", "sending"}
      /\ r.pc = "sending" => r.block = new
      /\ r.pc = "idle" => r.block = NoBlock /\ Covered(c, new.height)
  BY <1>5 DEF IdleUpdater
<1> HIDE DEF r, new, old
<1>7. /\ DOMAIN updater = Chains /\ updater'[c] = r
      /\ \A d \in Chains : d # c => updater'[d] = updater[d]
      /\ \A d \in Chains : updater[d].pc # "sending"
  BY <1>1 DEF Inv, Types, Shapes, LockFree
<1>8. /\ DOMAIN currentAuxBlocks = Chains /\ currentAuxBlocks'[c] = new
      /\ \A d \in Chains : d # c => currentAuxBlocks'[d] = currentAuxBlocks[d]
      /\ DOMAIN currentAuxBlocks' = Chains
  BY <1>1 DEF Inv, Types, Shapes
<1>9. Types'
  <2>1. Shapes'
    BY <1>1, <1>6, <1>7, <1>8 DEF Inv, Types, Shapes
  <2>2. TypeOK'
    BY <1>1, <1>2, <1>6, <1>7, <1>8 DEF Inv, Types, TypeOK
  <2> QED
    BY <2>1, <2>2 DEF Types
<1>10. Lists'
  BY <1>1, SameLists DEF Inv, jobVars
<1>11. CurrentIsCovered'
  BY <1>1, <1>2, <1>6, <1>7, <1>8 DEF Inv, Announcements, CurrentIsCovered, Covered
<1>12. MadeJobs' \subseteq MadeJobs
  BY <1>1 DEF MadeJobs, Roots
<1>13. JobsOfBlocks' /\ OneHashAhead'
  BY <1>1, <1>12, SameCover, FewerJobs
<1>14. Work'
  BY <1>12, StoreWork
<1> QED
  BY <1>9, <1>10, <1>11, <1>13, <1>14 DEF Inv, Announcements

(* The hash goes from the goroutine that holds the lock to the empty hand. *)
LEMMA ReceiveInv == ASSUME Inv, NEW c \in Chains, Receive(c) PROVE Inv'
<1>1. /\ updater[c].pc = "sending" /\ updater' = [updater EXCEPT ![c] = IdleUpdater]
      /\ inHand = {} /\ inHand' = {HashOf(c)}
      /\ UNCHANGED <<tip, publisher, announced, currentAuxBlocks, chainSlots, auxPowJobs,
                     auxPowJobIndex, request, restarts>>
  BY DEF Receive, makerVars, jobVars
<1>2. updater[c].block \in Blocks(c) /\ updater[c].block.height \in Nat
  BY <1>1, BlockHeights DEF Inv, Types, TypeOK
<1>3. PICK hash : hash = HashOf(c)
  OBVIOUS
<1>4. /\ hash \in [chain : Chains, height : Nat]
      /\ hash.chain = c /\ hash.height = updater[c].block.height
  BY <1>2, <1>3 DEF HashOf
<1>5. /\ DOMAIN updater = Chains /\ updater'[c] = IdleUpdater
      /\ \A d \in Chains : d # c => updater'[d] = updater[d]
  BY <1>1 DEF Inv, Types, Shapes
<1>6. Types'
  <2>1. Shapes'
    BY <1>1, <1>5 DEF Inv, Types, Shapes, IdleUpdater
  <2>2. TypeOK'
    BY <1>1, <1>3, <1>4, <1>5 DEF Inv, Types, TypeOK, IdleUpdater
  <2> QED
    BY <2>1, <2>2 DEF Types
<1>7. Lists'
  BY <1>1, SameLists DEF Inv, jobVars
<1>8. \A d \in Chains : \A h \in Nat : Covered(d, h) => Covered(d, h)'
  BY <1>1 DEF Covered
<1>9. CurrentIsCovered'
  <2> SUFFICES ASSUME NEW d \in Chains, currentAuxBlocks[d] # NoBlock
               PROVE  \/ Covered(d, currentAuxBlocks[d].height)'
                      \/ /\ updater'[d].pc = "sending"
                         /\ updater'[d].block = currentAuxBlocks[d]
    BY <1>1 DEF CurrentIsCovered
  <2>1. currentAuxBlocks[d].height \in Nat
    BY BlockHeights DEF Inv, Types, TypeOK
  <2>2. CASE Covered(d, currentAuxBlocks[d].height)
    BY <1>1, <2>2 DEF Covered
  <2>3. CASE updater[d].pc = "sending" /\ updater[d].block = currentAuxBlocks[d]
    <3>1. CASE d # c
      BY <1>5, <2>3, <3>1
    <3>2. CASE d = c
      <4>1. hash \in inHand' /\ hash.chain = d
            /\ currentAuxBlocks'[d].height <= hash.height
        BY <1>1, <1>3, <1>4, <2>1, <2>3, <3>2
      <4> QED
        BY <4>1 DEF Covered
    <3> QED
      BY <3>1, <3>2
  <2> QED
    BY <2>2, <2>3 DEF Inv, Announcements, CurrentIsCovered
<1>10. MadeJobs' \subseteq MadeJobs
  BY <1>1 DEF MadeJobs, Roots
<1>11. JobsOfBlocks' /\ OneHashAhead'
  BY <1>8, <1>10, FewerJobs
<1>12. Work'
  BY <1>1, <1>10, SameIDs DEF Inv, makerVars
<1> QED
  BY <1>6, <1>7, <1>9, <1>11, <1>12 DEF Inv, Announcements

(* What the hash in hand covered is announced. *)
LEMMA PublishInv == ASSUME Inv, Publish PROVE Inv'
<1>1. PICK hash \in inHand :
        announced' = [announced EXCEPT ![hash.chain] = Max({@, hash.height})]
  BY DEF Publish
<1>2. /\ inHand' = {}
      /\ UNCHANGED <<tip, updater, publisher, currentAuxBlocks, chainSlots, auxPowJobs,
                     auxPowJobIndex, request, restarts>>
  BY DEF Publish, makerVars, jobVars
<1>3. PICK c \in Chains, h \in Nat : c = hash.chain /\ h = hash.height
  BY DEF Inv, Types, TypeOK
<1>4. \A x \in inHand : x = hash
  BY DEF Inv, Types, TypeOK
<1>5. announced[c] \in Nat /\ DOMAIN announced = Chains
  BY DEF Inv, Types, TypeOK, Shapes
<1>6. PICK top \in Nat : top = Max({announced[c], h}) /\ top >= announced[c] /\ top >= h
  <2>1. PICK i \in Nat, n \in Nat : i = announced[c] /\ n = h
    BY <1>5
  <2>2. Max({i, n}) \in {i, n} /\ Max({i, n}) >= i /\ Max({i, n}) >= n
    BY MaxOfTwo
  <2> QED
    BY <2>1, <2>2
<1>7. /\ DOMAIN announced' = Chains /\ announced'[c] = top
      /\ \A d \in Chains : d # c => announced'[d] = announced[d]
  BY <1>1, <1>3, <1>5, <1>6
<1>8. Types'
  <2>1. Shapes'
    BY <1>2, <1>7 DEF Inv, Types, Shapes
  <2>2. TypeOK'
    BY <1>2, <1>6, <1>7 DEF Inv, Types, TypeOK
  <2> QED
    BY <2>1, <2>2 DEF Types
<1>9. Lists'
  BY <1>2, SameLists DEF Inv, jobVars
<1>10. ASSUME NEW d \in Chains, NEW n \in Nat, Covered(d, n)
       PROVE  Covered(d, n)'
  <2>1. CASE d # c
    <3>1. n <= announced[d]
      BY <1>3, <1>4, <1>10, <2>1 DEF Covered
    <3> QED
      BY <1>7, <2>1, <3>1 DEF Covered
  <2>2. CASE d = c
    <3>1. n <= announced[c] \/ n <= h
      BY <1>3, <1>4, <1>10, <2>2 DEF Covered
    <3>2. n <= announced'[c]
      BY <1>5, <1>6, <1>7, <3>1
    <3> QED
      BY <2>2, <3>2 DEF Covered
  <2> QED
    BY <2>1, <2>2
<1>11. CurrentIsCovered'
  <2> SUFFICES ASSUME NEW d \in Chains, currentAuxBlocks[d] # NoBlock
               PROVE  \/ Covered(d, currentAuxBlocks[d].height)'
                      \/ /\ updater[d].pc = "sending"
                         /\ updater[d].block = currentAuxBlocks[d]
    BY <1>2 DEF CurrentIsCovered
  <2>1. PICK n \in Nat : n = currentAuxBlocks[d].height
    BY BlockHeights DEF Inv, Types, TypeOK
  <2>2. Covered(d, n) => Covered(d, n)'
    BY <1>10
  <2>3. Covered(d, n)' => Covered(d, currentAuxBlocks[d].height)'
    BY <1>2, <2>1 DEF Covered
  <2> QED
    BY <2>1, <2>2, <2>3 DEF Inv, Announcements, CurrentIsCovered
<1>12. MadeJobs' \subseteq MadeJobs
  BY <1>2 DEF MadeJobs, Roots
<1>13. JobsOfBlocks' /\ OneHashAhead'
  BY <1>10, <1>12, FewerJobs
<1>14. Work'
  BY <1>2, <1>12, SameIDs DEF Inv, makerVars
<1> QED
  BY <1>8, <1>9, <1>11, <1>13, <1>14 DEF Inv, Announcements

LEMMA PublisherInv == ASSUME Inv, PublisherStarts PROVE Inv'
<1>1. /\ publisher' \in {"up", "down"}
      /\ UNCHANGED <<tip, updater, inHand, announced, currentAuxBlocks, chainSlots, auxPowJobs,
                     auxPowJobIndex, request, restarts>>
  BY DEF PublisherStarts, makerVars, jobVars
<1>2. Types'
  BY <1>1 DEF Inv, Types, TypeOK, Shapes
<1>3. Lists'
  BY <1>1, SameLists DEF Inv, jobVars
<1>4. Announcements'
  BY <1>1 DEF Inv, Announcements, CurrentIsCovered, Covered, JobsOfBlocks,
              OneHashAhead, MadeJobs, Roots
<1>5. Work'
  <2>1. MadeJobs' \subseteq MadeJobs
    BY <1>1 DEF MadeJobs, Roots
  <2> QED
    BY <1>1, <2>1, SameIDs DEF Inv, makerVars
<1> QED
  BY <1>2, <1>3, <1>4, <1>5 DEF Inv

(* A client's request changes, and neither blocks nor announcements do. *)
LEMMA RequestKeeps ==
    ASSUME Inv, NEW m \in Clients, NEW r, request' = [request EXCEPT ![m] = r],
           r = [pc |-> r.pc, job |-> r.job], r.pc \in {"idle", "making", "made"},
           UNCHANGED <<tip, updater, publisher, inHand, announced, currentAuxBlocks, restarts>>
    PROVE  Types' /\ CurrentIsCovered'
<1>1. /\ DOMAIN request = Clients /\ request'[m] = r
      /\ \A n \in Clients : n # m => request'[n] = request[n]
  BY DEF Inv, Types, Shapes
<1>2. Shapes'
  BY <1>1 DEF Inv, Types, Shapes
<1>3. TypeOK'
  BY <1>1 DEF Inv, Types, TypeOK
<1>4. CurrentIsCovered'
  BY DEF Inv, Announcements, CurrentIsCovered, Covered
<1> QED
  BY <1>2, <1>3, <1>4 DEF Types

(* A request begins, or fails. *)
LEMMA NoJobInv ==
    ASSUME Inv, NEW m \in Clients, NEW pc \in {"idle", "making"},
           request' = [request EXCEPT ![m] = [pc |-> pc, job |-> NoJob]],
           UNCHANGED <<tip, updater, publisher, inHand, announced, makerVars, restarts, jobVars>>
    PROVE  Inv'
<1> DEFINE r == [pc |-> pc, job |-> NoJob]
<1>1. r = [pc |-> r.pc, job |-> r.job] /\ r.pc \in {"idle", "making"}
  OBVIOUS
<1> HIDE DEF r
<1>2. Types' /\ CurrentIsCovered'
  BY <1>1, RequestKeeps DEF r, makerVars, publisherVars
<1>3. Lists'
  BY SameLists DEF Inv
<1>4. auxPowJobs' = auxPowJobs /\ request' = [request EXCEPT ![m] = r] /\ r.pc # "made"
  BY <1>1 DEF jobVars, r
<1>5. MadeJobs' \subseteq MadeJobs
  BY <1>4, RequestDrops
<1>6. JobsOfBlocks' /\ OneHashAhead'
  BY <1>5, SameCover, FewerJobs
<1>7. Work'
  BY <1>5, SameIDs DEF Inv
<1> QED
  BY <1>2, <1>3, <1>6, <1>7 DEF Inv, Announcements

(* The lock is free, so that the hashes of all blocks were taken. *)
LEMMA MakeInv == ASSUME Inv, NEW m \in Clients, MakeAuxJob(m) PROVE Inv'
<1>1. PICK s \in IF chainSlots = NoSlots THEN assignChainSlots(ChainIDs) ELSE {chainSlots} :
        /\ chainSlots' = s
        /\ request' = [request EXCEPT ![m] =
            [pc |-> "made", job |-> MakeJob([c \in Known |-> currentAuxBlocks[c]], s, MaxJobTarget)]]
  BY DEF MakeAuxJob
<1>2. /\ LockFree
      /\ UNCHANGED <<tip, updater, publisher, inHand, announced, currentAuxBlocks, auxPowJobs,
                     auxPowJobIndex, restarts>>
  BY DEF MakeAuxJob, jobVars, publisherVars
<1> DEFINE blocks == [c \in Known |-> currentAuxBlocks[c]]
<1>3. PICK job : job = MakeJob(blocks, s, MaxJobTarget)
  OBVIOUS
<1>4. request' = [request EXCEPT ![m] = [pc |-> "made", job |-> job]]
  BY <1>1, <1>3
<1>5. \A c \in DOMAIN job.auxPows :
        /\ c \in Chains /\ job.auxPows[c].block \in Blocks(c)
        /\ Covered(c, job.auxPows[c].block.height)
  <2> SUFFICES ASSUME NEW c \in DOMAIN job.auxPows
               PROVE  /\ c \in Chains /\ job.auxPows[c].block \in Blocks(c)
                      /\ Covered(c, job.auxPows[c].block.height)
    OBVIOUS
  <2>1. c \in DOMAIN blocks /\ job.auxPows[c].block = blocks[c]
    BY <1>3, JobBlocks
  <2>2. c \in Known /\ job.auxPows[c].block = currentAuxBlocks[c]
    BY <2>1
  <2>3. c \in Chains /\ currentAuxBlocks[c] # NoBlock
    BY <2>2 DEF Known
  <2>4. currentAuxBlocks[c] \in Blocks(c)
    BY <2>3 DEF Inv, Types, TypeOK
  <2>5. Covered(c, currentAuxBlocks[c].height)
    BY <1>2, <2>3 DEF Inv, Announcements, CurrentIsCovered, LockFree
  <2> QED
    BY <2>2, <2>3, <2>4, <2>5
<1> HIDE DEF blocks
<1>6. Types' /\ CurrentIsCovered'
  BY <1>2, <1>4, RequestKeeps
<1>7. Lists'
  BY <1>2, SameLists DEF Inv, jobVars
<1>8. MadeJobs' \subseteq MadeJobs \cup {job}
  <2>1. \A n \in Clients : request'[n] = request[n] \/ request'[n].job = job
    BY <1>4 DEF Inv, Types, Shapes
  <2> QED
    BY <1>2, <2>1 DEF MadeJobs, Roots
<1>9. JobsOfBlocks' /\ OneHashAhead'
  BY <1>2, <1>5, <1>8 DEF Inv, Announcements, JobsOfBlocks, OneHashAhead, Covered
<1>10. Work'
  BY <1>1, <1>3, <1>8, MakeWork DEF blocks
<1> QED
  BY <1>6, <1>7, <1>9, <1>10 DEF Inv, Announcements

LEMMA GetInv == ASSUME Inv, NEW m \in Clients, GetAuxJob(m) PROVE Inv'
<1>1. PICK job : job = request[m].job
  OBVIOUS
<1>2. /\ request[m].pc = "made" /\ Remember(job)
      /\ request' = [request EXCEPT ![m] = IdleRequest]
      /\ UNCHANGED <<tip, updater, publisher, inHand, announced, currentAuxBlocks, chainSlots, restarts>>
  BY <1>1 DEF GetAuxJob, makerVars, publisherVars
<1>3. Types' /\ CurrentIsCovered'
  BY <1>2, RequestKeeps DEF IdleRequest
<1>4. Lists'
  BY <1>2, RememberLists DEF Inv
<1>5. MadeJobs' \subseteq MadeJobs
  <2>1. job \in MadeJobs
    BY <1>1, <1>2 DEF MadeJobs
  <2>2. \A n \in Clients : request'[n].pc = "made" => request'[n] = request[n]
    BY <1>2 DEF Inv, Types, Shapes, IdleRequest
  <2>3. \A x \in Roots' : auxPowJobs'[x] \in MadeJobs
    BY <1>2, <2>1, RememberJobs DEF MadeJobs
  <2> QED
    BY <2>2, <2>3 DEF MadeJobs
<1>6. JobsOfBlocks' /\ OneHashAhead'
  BY <1>2, <1>5, SameCover, FewerJobs
<1>7. Work'
  BY <1>2, <1>5, SameIDs DEF Inv, makerVars
<1> QED
  BY <1>3, <1>4, <1>6, <1>7 DEF Inv, Announcements

LEMMA RestartInv == ASSUME Inv, Restart PROVE Inv'
<1>1. TypeOK'
  BY RestartAssumption DEF Restart, Inv, Types, TypeOK, IdleUpdater, IdleRequest
<1>2. Shapes'
  BY DEF Restart, Inv, Types, Shapes, IdleUpdater, IdleRequest
<1>3. Roots' = {} /\ Range(auxPowJobIndex') = {} /\ Len(auxPowJobIndex') = 0
  BY DEF Restart, Roots, Range
<1>4. IndexIsSequence' /\ IndexHasEachOnce'
  BY <1>3 DEF Restart, IndexIsSequence, IndexHasEachOnce
<1>5. IsFiniteSet(Roots') /\ JobsMatchIndex'
  BY <1>3, FS_EmptySet, ListAssumption DEF JobsMatchIndex
<1>6. MadeJobs' = {}
  BY <1>3 DEF Restart, MadeJobs, IdleRequest
<1>7. Announcements'
  BY <1>6 DEF Restart, Announcements, CurrentIsCovered, JobsOfBlocks, OneHashAhead
<1>8. Work'
  BY <1>6 DEF Restart, Work, SlotsAreCurrent, JobsMadeWell
<1> QED
  BY <1>1, <1>2, <1>4, <1>5, <1>7, <1>8 DEF Inv, Types, Lists

LEMMA StepInv == Inv /\ [Next]_vars => Inv'
<1> SUFFICES ASSUME Inv, [Next]_vars
             PROVE  Inv'
  OBVIOUS
<1>1. ASSUME NEW c \in Chains, UpdateStep(c)
      PROVE  Inv'
  BY <1>1, FetchInv, StoreInv, ReceiveInv DEF UpdateStep
<1>2. ASSUME NEW m \in Clients, CreateAuxBlock(m)
      PROVE  Inv'
  BY <1>2, NoJobInv DEF CreateAuxBlock, publisherVars
<1>3. ASSUME NEW m \in Clients, RequestStep(m)
      PROVE  Inv'
  <2>1. CASE MakeAuxJobFails(m)
    BY <2>1, NoJobInv DEF MakeAuxJobFails, publisherVars, IdleRequest
  <2>2. CASE MakeAuxJob(m)
    BY <2>2, MakeInv
  <2>3. CASE GetAuxJob(m)
    BY <2>3, GetInv
  <2> QED
    BY <1>3, <2>1, <2>2, <2>3 DEF RequestStep
<1>4. CASE UNCHANGED vars
  <2>1. UNCHANGED <<tip, updater, publisher, inHand, announced, currentAuxBlocks, auxPowJobs,
                    auxPowJobIndex, request, restarts>>
    BY <1>4 DEF vars, publisherVars, makerVars, jobVars
  <2>2. Types'
    BY <2>1 DEF Inv, Types, TypeOK, Shapes
  <2>3. Lists'
    BY <2>1, SameLists DEF Inv, jobVars
  <2>4. Announcements'
    BY <2>1 DEF Inv, Announcements, CurrentIsCovered, Covered, JobsOfBlocks,
                OneHashAhead, MadeJobs, Roots
  <2>5. Work'
    <3>1. MadeJobs' \subseteq MadeJobs /\ UNCHANGED makerVars
      BY <1>4, <2>1 DEF MadeJobs, Roots, vars
    <3> QED
      BY <3>1, SameIDs DEF Inv
  <2> QED
    BY <2>2, <2>3, <2>4, <2>5 DEF Inv
<1> QED
  BY <1>1, <1>2, <1>3, <1>4, PublisherInv, PublishInv, RestartInv DEF Next

\* The invariant holds in every state of the specification.
THEOREM Invariance == Spec => []Inv
BY InitInv, StepInv, PTL DEF Spec

\* The goroutines, the blocks and the requests keep their types, and at most one
\* goroutine holds the lock over a channel send.
THEOREM TypesCorrect == Spec => []TypeOK
<1>1. Inv => TypeOK
  BY DEF Inv, Types
<1> QED
  BY <1>1, Invariance, PTL

\* The list of roots and the map of jobs agree and stay within the configured
\* length, for any number of clients that make the same job at the same time
\* (GetAuxJob).
THEOREM IndexMatches == Spec => []JobsMatchIndex
<1>1. Inv => JobsMatchIndex
  BY DEF Inv, Lists
<1> QED
  BY <1>1, Invariance, PTL

\* Whatever the nodes of any number of chains answer, the jobs run ahead of the
\* announcements by no more than the one hash the publisher is about to send
\* (updateAuxBlock, updateAuxBlockAllChains, GetAuxJob).
THEOREM AheadByOne == Spec => []OneHashAhead
<1>1. Inv => OneHashAhead
  BY DEF Inv, Announcements
<1> QED
  BY <1>1, Invariance, PTL

\* For any trees, nonces and chain IDs, and whatever happens between the steps of
\* a request, each block of a job is found under its root, at the slot its node
\* computes (makeAuxJob, GetAuxPow).
THEOREM WorkLeads == Spec => []WorkVerifies
<1>1. Inv => WorkVerifies
  BY DEF Inv, Work, JobsMadeWell, WorkVerifies, JobVerifies, LeadsToRoot
<1> QED
  BY <1>1, Invariance, PTL

\* A job that AuxSubmission may be given: the blocks are those of the nodes, and
\* their branches lead to the root.
OfItsNodes(job) ==
    \A c \in DOMAIN job.auxPows : c \in Chains /\ job.auxPows[c].block \in Blocks(c)

Submittable(job) == LeadsToRoot(job) /\ OfItsNodes(job)

\* Jobs of the nodes keep their chains apart, whichever of them, made whenever, are
\* taken together: nodes of two chains do not answer with the same hash (BlockOf).
LEMMA NodesKeepApart ==
    ASSUME NEW jobs, \A job \in jobs : OfItsNodes(job)
    PROVE  ChainsApart(jobs)
<1> SUFFICES ASSUME NEW job \in jobs, NEW other \in jobs,
                    NEW c \in DOMAIN job.auxPows, NEW d \in DOMAIN other.auxPows,
                    job.auxPows[c].block.hash = other.auxPows[d].block.hash
             PROVE  c = d
  BY DEF ChainsApart
<1>1. ASSUME NEW e \in Chains, NEW block \in Blocks(e)
      PROVE  \E n : block.hash = <<"block", e, n>>
  <2>1. PICK i \in DOMAIN Replies[e] : block = BlockOf(e, Replies[e][i])
    BY <1>1 DEF Blocks, BlockAt, Range
  <2> QED
    BY <2>1 DEF BlockOf
<1>2. PICK m, n : <<"block", c, m>> = <<"block", d, n>>
  BY <1>1 DEF OfItsNodes
<1> QED
  BY <1>2

\* What AuxSubmission takes for granted of the jobs it is given, its JobAssumption
\* and HashAssumption, is what the job maker guarantees of every set of jobs it
\* ever hands out, also of those that earlier processes made (makeAuxJob).
THEOREM JobsAreSubmittable ==
    /\ Spec => [](\A job \in MadeJobs : Submittable(job))
    /\ \A jobs : (\A job \in jobs : Submittable(job)) =>
          ChainsApart(jobs) /\ \A job \in jobs : LeadsToRoot(job)
<1>1. Inv => \A job \in MadeJobs : Submittable(job)
  BY DEF Inv, Work, JobsMadeWell, JobVerifies, Announcements, JobsOfBlocks, OfItsNodes, Submittable
<1>2. Spec => [](\A job \in MadeJobs : Submittable(job))
  BY <1>1, Invariance, PTL
<1>3. ASSUME NEW jobs, \A job \in jobs : Submittable(job)
      PROVE  ChainsApart(jobs) /\ \A job \in jobs : LeadsToRoot(job)
  BY <1>3, NodesKeepApart DEF Submittable
<1> QED
  BY <1>2, <1>3

\* The tree of a job is the smallest that has slots for its chains, for any width
\* of the integers and any number of chains: no nonce would do for a smaller one,
\* and every nonce does for this one (assignChainSlots).
THEOREM TreeIsSmallest == Spec => []SmallestTree
<1>1. Inv => SmallestTree
  BY DEF Inv, Work, JobsMadeWell, SmallestTree, JobIsSmallest
<1> QED
  BY <1>1, Invariance, PTL

\* The bits of a job say its target down to the last digit of the mantissa, and
\* never ask for less work than the target, for any base and number of digits
\* (BigToCompact, CompactToBig, makeAuxJob).
THEOREM BitsFollowTarget == Spec => []BitsMatchTarget
<1>1. Inv => BitsMatchTarget
  BY DEF Inv, Work, JobsMadeWell, BitsMatchTarget, JobBitsMatch
<1> QED
  BY <1>1, Invariance, PTL
=============================================================================
