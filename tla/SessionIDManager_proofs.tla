---------------------- MODULE SessionIDManager_proofs ----------------------
(***************************************************************************)
(* Proofs about the session ID manager, for any number of connections,     *)
(* indices and server IDs.                                                 *)
(*                                                                         *)
(* What is used of the interval is that no saved session lies within one   *)
(* interval of the end of the index range (InRange).  It holds by itself   *)
(* when the interval is 0, as on Bitcoin and Decred, and as long as the    *)
(* process is never upgraded.                                              *)
(***************************************************************************)
EXTENDS SessionIDManager, FiniteSetTheorems, TLAPS

InRange == \A id \in pending : id.index + AllocInterval <= Mask

\* The inductive invariant: the properties of the runs lean on each other, and
\* on the pointer staying within the mask.
Inv ==
    /\ TypeOK
    /\ UniqueIDs
    /\ NoLeak
    /\ ResumeFindsFree
    /\ allocIDx \in Indices

-----------------------------------------------------------------------------
\* What setting and clearing a bit does to the number of bits set.
LEMMA BitCount ==
    ASSUME NEW S \in SUBSET Indices
    PROVE  /\ IsFiniteSet(S)
           /\ Cardinality(S) \in 0 .. Size
           /\ \A i : Cardinality(S \union {i}) =
                        IF i \in S THEN Cardinality(S) ELSE Cardinality(S) + 1
           /\ \A i : Cardinality(S \ {i}) =
                        IF i \in S THEN Cardinality(S) - 1 ELSE Cardinality(S)
<1>1. IsFiniteSet(Indices) /\ Cardinality(Indices) = Size
  BY FS_Interval, SizeAssumption DEF Indices, Mask
<1>2. IsFiniteSet(S) /\ Cardinality(S) <= Size
  BY <1>1, FS_Subset
<1>3. Cardinality(S) \in Nat
  BY <1>2, FS_CardinalityType
<1>4. Cardinality(S) \in 0 .. Size
  BY <1>2, <1>3, SizeAssumption
<1> QED
  BY <1>2, <1>4, FS_AddElement, FS_RemoveElement

\* An allocation pointer is masked.
LEMMA AdvanceInRange ==
    ASSUME NEW i \in Indices
    PROVE  Advance(i) \in Indices
<1>1. i + AllocInterval \in Nat
  BY SizeAssumption, IntervalAssumption DEF Indices, Mask
<1>2. (i + AllocInterval) % Size \in 0 .. Size - 1
  BY <1>1, SizeAssumption
<1> QED
  BY <1>2 DEF Advance, Indices, Mask

LEMMA InitInv == Init => Inv
<1> SUFFICES ASSUME Init PROVE Inv
  OBVIOUS
<1>1. Live = {}
  BY DEF Init, Live
<1>2. TypeOK
  BY SizeAssumption, FirstIDxAssumption, IntervalAssumption
  DEF Init, TypeOK, Mask
<1>3. NoLeak
  BY <1>1, FS_EmptySet DEF Init, NoLeak
<1>4. UniqueIDs /\ ResumeFindsFree
  BY <1>1 DEF Init, UniqueIDs, ResumeFindsFree
<1> QED
  BY <1>2, <1>3, <1>4, FirstIDxAssumption DEF Init, Inv, Indices, Mask

-----------------------------------------------------------------------------
\* The heart of the matter: giving session s an ID of a free index, and
\* setting its bit, keeps indices unique and the bitset exact.
LEMMA TakeIndex ==
    ASSUME Inv,
           NEW s \in Sessions, NEW id \in ID,
           held[s] = NoID,
           id.index \notin sessionIDs,
           held' = [held EXCEPT ![s] = id],
           sessionIDs' = sessionIDs \union {id.index},
           count' = count + 1
    PROVE  /\ held' \in [Sessions -> ID \union {NoID}]
           /\ sessionIDs' \subseteq Indices
           /\ count' \in 0 .. Size
           /\ UniqueIDs'
           /\ NoLeak'
<1> USE NoIDAssumption
<1>1. /\ held \in [Sessions -> ID \union {NoID}]
      /\ sessionIDs = {held[t].index : t \in Live}
      /\ count = Cardinality(sessionIDs)
  BY DEF Inv, TypeOK, NoLeak
<1>2. \A t \in Live : held[t] \in ID
  BY <1>1 DEF Live
<1>3. sessionIDs \subseteq Indices
  BY <1>1, <1>2 DEF ID
<1>4. id.index \in Indices
  BY DEF ID
<1>5. Live' = Live \union {s}
  BY <1>1 DEF Live
<1>6. /\ s \notin Live
      /\ \A t \in Live : held'[t] = held[t]
      /\ held'[s] = id
  BY <1>1 DEF Live
<1>7. sessionIDs' = {held'[t].index : t \in Live'}
  BY <1>1, <1>5, <1>6
<1>8. count' = Cardinality(sessionIDs')
  BY <1>1, <1>3, BitCount
<1>9. sessionIDs' \subseteq Indices
  BY <1>3, <1>4
<1>10. count' \in 0 .. Size
  BY <1>8, <1>9, BitCount
<1>11. \A t \in Live : held[t].index # id.index
  BY <1>1
<1>12. UniqueIDs'
  BY <1>5, <1>6, <1>11 DEF Inv, UniqueIDs
<1>13. held' \in [Sessions -> ID \union {NoID}]
  BY <1>1
<1> QED
  BY <1>7, <1>8, <1>9, <1>10, <1>12, <1>13 DEF NoLeak

LEMMA AllocStep ==
    ASSUME Inv, NEW s \in Sessions, AllocSessionID(s)
    PROVE  Inv'
<1>1. PICK i \in {allocIDx} \union Indices :
        /\ FirstClear(i)
        /\ sessionIDs' = sessionIDs \union {i}
        /\ held' = [held EXCEPT ![s] = MakeID(serverID, i)]
        /\ allocIDx' = Advance(i)
  BY DEF AllocSessionID
<1>2. i \in Indices /\ i \notin sessionIDs
  BY <1>1 DEF FirstClear, Inv
<1>3. serverID \in 1 .. 255
  BY ServerIDAssumption DEF Inv, TypeOK
<1>4. MakeID(serverID, i) = [server |-> serverID, index |-> i]
  BY <1>2, SizeAssumption DEF MakeID, Indices, Mask
<1>5. MakeID(serverID, i) \in ID /\ MakeID(serverID, i).index = i
  BY <1>2, <1>3, <1>4 DEF ID
<1>6. /\ held' \in [Sessions -> ID \union {NoID}]
      /\ sessionIDs' \subseteq Indices
      /\ count' \in 0 .. Size
      /\ UniqueIDs'
      /\ NoLeak'
  <2> DEFINE id == MakeID(serverID, i)
  <2>1. id \in ID /\ id.index = i
    BY <1>5
  <2>2. /\ held[s] = NoID
        /\ id.index \notin sessionIDs
        /\ held' = [held EXCEPT ![s] = id]
        /\ sessionIDs' = sessionIDs \union {id.index}
        /\ count' = count + 1
    BY <1>1, <1>2, <2>1 DEF AllocSessionID
  <2> HIDE DEF id
  <2> QED
    BY <2>1, <2>2, TakeIndex
<1>7. pending = {} /\ pending' = {} /\ serverID' = serverID
  BY DEF AllocSessionID, Listening
<1>8. allocIDx' \in Indices
  BY <1>1, <1>2, AdvanceInRange
<1>9. Indices \subseteq 0 .. Mask + AllocInterval
  BY SizeAssumption, IntervalAssumption DEF Indices, Mask
<1>10. TypeOK'
  BY <1>6, <1>7, <1>8, <1>9 DEF TypeOK, Inv
<1>11. ResumeFindsFree'
  BY <1>7 DEF ResumeFindsFree
<1> QED
  BY <1>6, <1>8, <1>10, <1>11 DEF Inv

LEMMA ResumeStep ==
    ASSUME Inv, InRange, NEW s \in Sessions, ResumeSessionID(s)
    PROVE  Inv'
<1>1. PICK id \in pending :
        /\ ResumeIndex(id.index)
        /\ held' = [held EXCEPT ![s] = id]
        /\ pending' = pending \ {id}
  BY DEF ResumeSessionID
<1>2. id \in ID /\ id.index \in Indices
  BY DEF Inv, TypeOK, ID
<1>3. id.index \notin sessionIDs
  BY DEF Inv, ResumeFindsFree
<1>4. /\ sessionIDs' = sessionIDs \union {id.index}
      /\ count' = count + 1
      /\ allocIDx' = IF allocIDx <= id.index
                     THEN id.index + AllocInterval ELSE allocIDx
  BY <1>1, <1>3 DEF ResumeIndex
<1>5. held[s] = NoID /\ serverID' = serverID
  BY DEF ResumeSessionID
<1>6. /\ held' \in [Sessions -> ID \union {NoID}]
      /\ sessionIDs' \subseteq Indices
      /\ count' \in 0 .. Size
      /\ UniqueIDs'
      /\ NoLeak'
  BY <1>1, <1>2, <1>3, <1>4, <1>5, TakeIndex
<1>7. allocIDx' \in Indices
  <2>1. id.index + AllocInterval <= Mask
    BY DEF InRange
  <2>2. allocIDx \in Indices
    BY DEF Inv
  <2> QED
    BY <1>2, <1>4, <2>1, <2>2, SizeAssumption, IntervalAssumption
    DEF Indices, Mask
<1>8. Indices \subseteq 0 .. Mask + AllocInterval
  BY SizeAssumption, IntervalAssumption DEF Indices, Mask
<1>9. TypeOK'
  BY <1>1, <1>5, <1>6, <1>7, <1>8 DEF TypeOK, Inv
<1>10. ResumeFindsFree'
  BY <1>1, <1>4 DEF ResumeFindsFree, Inv
<1> QED
  BY <1>6, <1>7, <1>9, <1>10 DEF Inv

LEMMA FreeStep ==
    ASSUME Inv, NEW s \in Sessions, FreeSessionID(s)
    PROVE  Inv'
<1> USE NoIDAssumption
<1> DEFINE i == held[s].index
<1>1. /\ held \in [Sessions -> ID \union {NoID}]
      /\ sessionIDs = {held[t].index : t \in Live}
      /\ count = Cardinality(sessionIDs)
  BY DEF Inv, TypeOK, NoLeak
<1>2. s \in Live /\ i \in sessionIDs
  BY <1>1 DEF FreeSessionID, Live
<1>3. /\ sessionIDs' = sessionIDs \ {i}
      /\ count' = count - 1
      /\ held' = [held EXCEPT ![s] = NoID]
      /\ serverID' = serverID /\ allocIDx' = allocIDx /\ pending' = pending
  BY <1>2 DEF FreeSessionID, FreeIndex
<1>4. sessionIDs \subseteq Indices
  BY <1>1 DEF Live, ID
<1>5. Live' = Live \ {s}
  BY <1>1, <1>3 DEF Live
<1>6. \A t \in Live' : held'[t] = held[t]
  BY <1>1, <1>3, <1>5 DEF Live
<1>7. \A t \in Live' : held[t].index # i
  BY <1>2, <1>5 DEF Inv, UniqueIDs
<1>8. sessionIDs' = {held'[t].index : t \in Live'}
  BY <1>1, <1>3, <1>5, <1>6, <1>7
<1>9. count' = Cardinality(sessionIDs') /\ count' \in 0 .. Size
  BY <1>1, <1>2, <1>3, <1>4, BitCount
<1>10. NoLeak'
  BY <1>8, <1>9 DEF NoLeak
<1>11. UniqueIDs'
  BY <1>5, <1>6 DEF UniqueIDs, Inv
<1>12. TypeOK'
  BY <1>1, <1>3, <1>9 DEF TypeOK, Inv
<1>13. ResumeFindsFree'
  BY <1>3 DEF ResumeFindsFree, Inv
<1> QED
  BY <1>3, <1>10, <1>11, <1>12, <1>13 DEF Inv

LEMMA UpgradeStep ==
    ASSUME Inv, Upgrade
    PROVE  Inv'
<1>1. Live' = {}
  BY DEF Upgrade, Live
<1>2. /\ sessionIDs' = {} /\ count' = 0 /\ allocIDx' = FirstIDx
      /\ serverID' \in ServerIDs
      /\ held' = [s \in Sessions |-> NoID]
      /\ pending' \subseteq {held[s] : s \in Live}
  BY DEF Upgrade
<1>3. TypeOK'
  BY <1>2, SizeAssumption, FirstIDxAssumption, IntervalAssumption
  DEF TypeOK, Inv, Live, Mask
<1>4. NoLeak' /\ UniqueIDs'
  BY <1>1, <1>2, FS_EmptySet DEF NoLeak, UniqueIDs
<1>5. ResumeFindsFree'
  BY <1>2 DEF ResumeFindsFree, Inv, UniqueIDs
<1> QED
  BY <1>2, <1>3, <1>4, <1>5, FirstIDxAssumption DEF Inv, Indices, Mask

LEMMA NextInv == Inv /\ InRange /\ [Next]_vars => Inv'
<1> SUFFICES ASSUME Inv, InRange, [Next]_vars PROVE Inv'
  OBVIOUS
<1>1. ASSUME NEW s \in Sessions, AllocSessionID(s) PROVE Inv'
  BY <1>1, AllocStep
<1>2. ASSUME NEW s \in Sessions, ResumeSessionID(s) PROVE Inv'
  BY <1>2, ResumeStep
<1>3. ASSUME NEW s \in Sessions, FreeSessionID(s) PROVE Inv'
  BY <1>3, FreeStep
<1>4. ASSUME ResumeFails PROVE Inv'
  BY <1>4 DEF ResumeFails, Inv, TypeOK, UniqueIDs, NoLeak, ResumeFindsFree, Live
<1>5. CASE Upgrade
  BY <1>5, UpgradeStep
<1>6. CASE UNCHANGED vars
  BY <1>6 DEF vars, Inv, TypeOK, UniqueIDs, NoLeak, ResumeFindsFree, Live
<1> QED
  BY <1>1, <1>2, <1>3, <1>4, <1>5, <1>6 DEF Next

-----------------------------------------------------------------------------
\* As long as no session saved by an upgrade lies within one interval of the
\* end of the index range, live sessions have distinct indices, the bitset and
\* the counter are exact, and every saved session finds its index free.
THEOREM SafeInRange ==
    Spec /\ []InRange => [](TypeOK /\ UniqueIDs /\ NoLeak /\ ResumeFindsFree)
<1>1. Inv => TypeOK /\ UniqueIDs /\ NoLeak /\ ResumeFindsFree
  BY DEF Inv
<1> QED
  BY <1>1, InitInv, NextInv, PTL DEF Spec

LEMMA NoIntervalInRange ==
    ASSUME AllocInterval = 0
    PROVE  TypeOK => InRange
BY SizeAssumption DEF TypeOK, InRange, ID, Indices, Mask

LEMMA NoIntervalInv ==
    ASSUME AllocInterval = 0
    PROVE  Spec => []Inv
<1>1. Inv => InRange
  BY NoIntervalInRange DEF Inv
<1> QED
  BY <1>1, InitInv, NextInv, PTL DEF Spec

\* Without an allocation interval (Bitcoin, Decred) no condition is left: two
\* live sessions never share an index, through any frees and upgrades.
THEOREM UniqueWithoutInterval ==
    ASSUME AllocInterval = 0
    PROVE  Spec => []UniqueIDs
<1>1. Inv => UniqueIDs
  BY DEF Inv
<1> QED
  BY <1>1, NoIntervalInv, PTL

\* Without an interval the pointer stays within the mask, and the fields in their
\* ranges.
THEOREM TypesWithoutInterval ==
    ASSUME AllocInterval = 0
    PROVE  Spec => []TypeOK
<1>1. Inv => TypeOK
  BY DEF Inv
<1> QED
  BY <1>1, NoIntervalInv, PTL

\* Without an interval a session that an upgrade hands over finds its index free
\* when it is resumed, in whatever order the saved sessions come.
THEOREM ResumeWithoutInterval ==
    ASSUME AllocInterval = 0
    PROVE  Spec => []ResumeFindsFree
<1>1. Inv => ResumeFindsFree
  BY DEF Inv
<1> QED
  BY <1>1, NoIntervalInv, PTL

\* Without an interval the bitset and the counter always say exactly which
\* indices live sessions hold.
THEOREM NoLeakWithoutInterval ==
    ASSUME AllocInterval = 0
    PROVE  Spec => []NoLeak
<1>1. Inv => NoLeak
  BY DEF Inv
<1> QED
  BY <1>1, NoIntervalInv, PTL

\* An allocation is the only step that gives an ID and leaves the saved sessions
\* as they are: a resumed ID is one of theirs.
LEMMA AllocServer ==
    ASSUME Inv, Next, NEW s \in Sessions,
           held[s] = NoID, held'[s] # NoID, pending' = pending
    PROVE  held'[s].server = serverID
<1> USE DEF Inv, TypeOK
<1>1. ASSUME NEW t \in Sessions, AllocSessionID(t)
      PROVE  held'[s].server = serverID
  <2>1. PICK i \in {allocIDx} \union Indices : held' = [held EXCEPT ![t] = MakeID(serverID, i)]
    BY <1>1 DEF AllocSessionID
  <2>2. MakeID(serverID, i).server = serverID
    BY SizeAssumption DEF MakeID, Indices, Mask
  <2>3. s = t
    BY <2>1
  <2> QED
    BY <2>1, <2>2, <2>3
<1>2. ASSUME NEW t \in Sessions, ResumeSessionID(t)
      PROVE  FALSE
  BY <1>2 DEF ResumeSessionID
<1>3. ASSUME NEW t \in Sessions, FreeSessionID(t)
      PROVE  FALSE
  BY <1>3 DEF FreeSessionID
<1>4. ~ResumeFails /\ ~Upgrade
  BY DEF ResumeFails, Upgrade
<1> QED
  BY <1>1, <1>2, <1>3, <1>4 DEF Next

\* An ID that is allocated carries the server ID of the running process, as long as
\* no session saved by an upgrade lies within one interval of the end of the index
\* range: the OR of the two fields never reaches the server ID.
THEOREM ServerIDInRange ==
    Spec /\ []InRange => AllocCarriesServerID
<1>1. Inv /\ [Next]_vars =>
        [\A s \in Sessions :
          held[s] = NoID /\ held'[s] # NoID /\ pending' = pending
              => held'[s].server = serverID]_vars
  BY AllocServer
<1> QED
  BY <1>1, InitInv, NextInv, PTL DEF Spec, AllocCarriesServerID

\* Without an interval no condition is left.
THEOREM ServerIDWithoutInterval ==
    ASSUME AllocInterval = 0
    PROVE  Spec => AllocCarriesServerID
<1>1. Inv => InRange
  BY NoIntervalInRange DEF Inv
<1> QED
  BY <1>1, NoIntervalInv, ServerIDInRange, PTL

-----------------------------------------------------------------------------
\* The index pool of the refinement mapping, by name.
Holds == [s \in Sessions |-> IF held[s] = NoID THEN NoIndex ELSE held[s].index]
Reserved == {id.index : id \in pending}

LEMMA PoolState ==
    ASSUME Inv
    PROVE  /\ \A s \in Sessions : Holds[s] = NoIndex <=> held[s] = NoID
           /\ {Holds[s] : s \in Sessions} \ {NoIndex} = sessionIDs
           /\ Reserved \subseteq Indices
           /\ Reserved \intersect sessionIDs = {}
<1> USE NoIDAssumption
<1>1. /\ held \in [Sessions -> ID \union {NoID}]
      /\ sessionIDs = {held[t].index : t \in Live}
      /\ pending \subseteq ID
  BY DEF Inv, TypeOK, NoLeak
<1>2. NoIndex \notin Indices
  BY SizeAssumption DEF NoIndex, Indices, Mask
<1>3. \A s \in Sessions : held[s] # NoID => Holds[s] = held[s].index /\ Holds[s] \in Indices
  BY <1>1 DEF Holds, ID
<1>4. \A s \in Sessions : held[s] = NoID => Holds[s] = NoIndex
  BY DEF Holds
<1>5. {Holds[s] : s \in Sessions} \ {NoIndex} = sessionIDs
  BY <1>1, <1>2, <1>3, <1>4 DEF Live
<1>6. Reserved \subseteq Indices /\ Reserved \intersect sessionIDs = {}
  BY <1>1 DEF Reserved, ID, Inv, ResumeFindsFree
<1> QED
  BY <1>2, <1>3, <1>4, <1>5, <1>6

LEMMA PoolAcquire ==
    ASSUME Inv, NEW s \in Sessions, AllocSessionID(s)
    PROVE  Pool!Acquire(s)
<1>1. PICK i \in {allocIDx} \union Indices :
        /\ FirstClear(i)
        /\ held' = [held EXCEPT ![s] = MakeID(serverID, i)]
  BY DEF AllocSessionID
<1>2. i \in Indices /\ i \notin sessionIDs
  BY <1>1 DEF FirstClear, Inv
<1>3. MakeID(serverID, i).index = i /\ MakeID(serverID, i) \in ID
  BY <1>2, ServerIDAssumption, SizeAssumption
  DEF MakeID, Indices, Mask, Inv, TypeOK, ID
<1>4. Holds' = [Holds EXCEPT ![s] = i]
  BY <1>1, <1>3, NoIDAssumption DEF Holds, Inv, TypeOK
<1>5. Reserved = {} /\ Reserved' = Reserved
  BY DEF AllocSessionID, Listening, Reserved
<1>6. Holds[s] = NoIndex
  BY PoolState DEF AllocSessionID
<1>7. i \in Indices \ (({Holds[t] : t \in Sessions} \ {NoIndex}) \union Reserved)
  BY <1>2, <1>5, PoolState
<1> QED
  BY <1>4, <1>5, <1>6, <1>7 DEF Pool!Acquire, Pool!InUse, Holds, Reserved

LEMMA PoolReclaim ==
    ASSUME Inv, NEW s \in Sessions, ResumeSessionID(s)
    PROVE  Pool!Reclaim(s)
<1>1. PICK id \in pending :
        /\ held' = [held EXCEPT ![s] = id]
        /\ pending' = pending \ {id}
  BY DEF ResumeSessionID
<1>2. id \in ID
  BY DEF Inv, TypeOK
<1>3. Holds' = [Holds EXCEPT ![s] = id.index]
  BY <1>1, <1>2, NoIDAssumption DEF Holds, Inv, TypeOK
<1>4. Reserved' = Reserved \ {id.index}
  BY <1>1 DEF Reserved, Inv, ResumeFindsFree
<1>5. id.index \in Reserved
  BY DEF Reserved
<1>6. Holds[s] = NoIndex
  BY PoolState DEF ResumeSessionID
<1> QED
  BY <1>3, <1>4, <1>5, <1>6 DEF Pool!Reclaim, Holds, Reserved

LEMMA PoolRelease ==
    ASSUME Inv, NEW s \in Sessions, FreeSessionID(s)
    PROVE  Pool!Release(s)
<1>1. held[s] # NoID /\ held' = [held EXCEPT ![s] = NoID] /\ pending' = pending
  BY DEF FreeSessionID
<1>2. Holds[s] # NoIndex
  BY <1>1, PoolState
<1>3. Holds' = [Holds EXCEPT ![s] = NoIndex] /\ Reserved' = Reserved
  BY <1>1 DEF Holds, Reserved, Inv, TypeOK
<1> QED
  BY <1>2, <1>3 DEF Pool!Release, Holds, Reserved

LEMMA PoolHandover ==
    ASSUME Inv, Upgrade
    PROVE  Pool!Handover
<1>1. Holds' = [s \in Sessions |-> NoIndex]
  BY DEF Upgrade, Holds
<1>2. Reserved = {}
  BY DEF Upgrade, Listening, Reserved
<1>3. Reserved' \subseteq sessionIDs
  BY DEF Upgrade, Reserved, Inv, NoLeak
<1>4. Reserved' \subseteq {Holds[s] : s \in Sessions} \ {NoIndex}
  BY <1>3, PoolState
<1> QED
  BY <1>1, <1>2, <1>4 DEF Pool!Handover, Pool!InUse, Holds, Reserved

LEMMA PoolForfeit ==
    ASSUME Inv, ResumeFails
    PROVE  Pool!Forfeit
<1>1. PICK id \in pending : pending' = pending \ {id}
  BY DEF ResumeFails
<1>2. Reserved' = Reserved \ {id.index} /\ id.index \in Reserved
  BY <1>1 DEF Reserved, Inv, ResumeFindsFree
<1>3. Holds' = Holds
  BY DEF ResumeFails, Holds
<1> QED
  BY <1>2, <1>3 DEF Pool!Forfeit, Holds, Reserved

\* Every method is one operation of the pool.
LEMMA PoolStep ==
    ASSUME Inv, [Next]_vars
    PROVE  [Pool!Next]_(Pool!vars)
<1>1. CASE \E s \in Sessions : AllocSessionID(s)
  BY <1>1, PoolAcquire DEF Pool!Next
<1>2. CASE \E s \in Sessions : ResumeSessionID(s)
  BY <1>2, PoolReclaim DEF Pool!Next
<1>3. CASE \E s \in Sessions : FreeSessionID(s)
  BY <1>3, PoolRelease DEF Pool!Next
<1>4. CASE ResumeFails
  BY <1>4, PoolForfeit DEF Pool!Next
<1>5. CASE Upgrade
  BY <1>5, PoolHandover DEF Pool!Next
<1>6. CASE UNCHANGED vars
  BY <1>6 DEF vars, Pool!vars
<1> QED
  BY <1>1, <1>2, <1>3, <1>4, <1>5, <1>6 DEF Next

LEMMA PoolInit == Init => Pool!Init
BY DEF Init, Pool!Init

\* Whatever the interval, the manager implements the index pool as long as the
\* pointer stays in range (AllocSessionID, ResumeSessionID): an index is handed out
\* only when nobody holds it and no saved session of the previous process is
\* promised it.
THEOREM ManagerImplementsPoolInRange == Spec /\ []InRange => PoolSpec
<1>1. Inv /\ [Next]_vars => [Pool!Next]_(Pool!vars)
  BY PoolStep
<1> QED
  BY <1>1, PoolInit, InitInv, NextInv, PTL DEF Spec, PoolSpec, Pool!Spec

\* Without an interval it does so whatever happens.
THEOREM ManagerImplementsPool ==
    ASSUME AllocInterval = 0
    PROVE  Spec => PoolSpec
<1>1. Inv => InRange
  BY NoIntervalInRange DEF Inv
<1> QED
  BY <1>1, NoIntervalInv, ManagerImplementsPoolInRange, PTL
=============================================================================
