-------------------------- MODULE SessionIDManager --------------------------
(***************************************************************************)
(* The session ID manager of stratumSwitcher (SessionIDManager.go) with    *)
(* the sessions that call it: a connection allocates an ID when it is      *)
(* accepted, frees it when it stops, and an upgraded process resumes the   *)
(* sessions its predecessor saved before it listens again.  Each method    *)
(* runs under manager.lock, so each is one action.                         *)
(*                                                                         *)
(* Operators named after another with an addition (AdvanceUnmasked) are slips *)
(* that a property must catch; no action uses them.                        *)
(*                                                                         *)
(* An ID is kept as the pair the source draws it as, server ID and session *)
(* index; MakeID is the source's serverID | allocIDx.                      *)
(***************************************************************************)
EXTENDS Integers, FiniteSets

CONSTANTS
    Sessions,       \* client connections
    ServerIDs,      \* server IDs a process may be given, within 1..255
    Size,           \* number of session indices, 1 << indexBits
    FirstIDx,       \* allocIDx of a new manager, 128 in the source
    AllocInterval,  \* 256 on Ethereum, 0 on the other chains
    NoID            \* the ID of a connection that has none

ASSUME SizeAssumption == Size \in Nat \ {0}
ASSUME FirstIDxAssumption == FirstIDx \in 0 .. Size - 1
ASSUME IntervalAssumption == AllocInterval \in 0 .. Size
ASSUME ServerIDAssumption == ServerIDs \subseteq 1 .. 255

Mask == Size - 1
Indices == 0 .. Mask

ID == [server : 1 .. 255, index : Indices]
ASSUME NoIDAssumption == NoID \notin ID

VARIABLES
    serverID,    \* server ID of the running process
    sessionIDs,  \* bits set in the bitset
    count,       \* how many IDs are used now
    allocIDx,    \* where the next search for a free index begins
    held,        \* the ID of each connection, or NoID
    pending      \* saved session IDs the new process has yet to resume

vars == <<serverID, sessionIDs, count, allocIDx, held, pending>>

Live == {s \in Sessions : held[s] # NoID}

-----------------------------------------------------------------------------
\* serverID | allocIDx.  With allocIDx at most Mask the OR joins two disjoint
\* fields; beyond Mask its lowest high bit is ORed into the server ID.
MakeID(server, a) ==
    IF a <= Mask
    THEN [server |-> server, index |-> a]
    ELSE [server |-> server + 1 - (server % 2), index |-> a - Size]

\* The index the search from allocIDx stops at: allocIDx itself if its bit is
\* clear, else the first clear bit after it, wrapping at the mask.
StepsTo(i) == (i - allocIDx - 1) % Size

FirstClearUnsearched(i) == i = allocIDx

FirstClear(i) ==
    IF allocIDx \notin sessionIDs
    THEN i = allocIDx
    ELSE /\ i \in Indices \ sessionIDs
         /\ \A j \in Indices : StepsTo(j) < StepsTo(i) => j \in sessionIDs

IsFull == count > Mask

\* Where the search after an allocation of i begins.
AdvanceUnmasked(i) == i + 1 + AllocInterval

Advance(i) == (i + AllocInterval) % Size

-----------------------------------------------------------------------------
\* NewSessionIDManager.
Init ==
    /\ serverID \in ServerIDs
    /\ sessionIDs = {}
    /\ count = 0
    /\ allocIDx = FirstIDx
    /\ held = [s \in Sessions |-> NoID]
    /\ pending = {}

\* Run listens for connections, and for the upgrade signal, only after it has
\* tried to resume every saved session.
ListeningAtOnce == TRUE

Listening == pending = {}

\* RunStratumSession: AllocSessionID for an accepted connection.  When the
\* pool is full the connection is closed and nothing changes.
AllocSessionID(s) ==
    /\ held[s] = NoID
    /\ Listening
    /\ ~IsFull
    /\ \E i \in {allocIDx} \union Indices :
        /\ FirstClear(i)
        /\ sessionIDs' = sessionIDs \union {i}
        /\ held' = [held EXCEPT ![s] = MakeID(serverID, i)]
        /\ allocIDx' = Advance(i)
    /\ count' = count + 1
    /\ UNCHANGED <<serverID, pending>>

\* ResumeSessionID; the pointer it moves is not masked.  An index found
\* occupied is only logged by the caller, and the session runs all the same.
ResumeIndexUnmarked(idx) ==
    /\ count' = count + 1
    /\ allocIDx' = IF allocIDx <= idx THEN idx + AllocInterval ELSE allocIDx
    /\ UNCHANGED sessionIDs

ResumeIndex(idx) ==
    IF idx \in sessionIDs
    THEN UNCHANGED <<sessionIDs, count, allocIDx>>
    ELSE /\ sessionIDs' = sessionIDs \union {idx}
         /\ count' = count + 1
         /\ allocIDx' = IF allocIDx <= idx THEN idx + AllocInterval ELSE allocIDx

\* ResumeStratumSession: the saved sessions are resumed one after the other.
ResumeSessionID(s) ==
    /\ held[s] = NoID
    /\ \E id \in pending :
        /\ ResumeIndex(id.index)
        /\ held' = [held EXCEPT ![s] = id]
        /\ pending' = pending \ {id}
    /\ UNCHANGED serverID

\* ResumeStratumSession returns early when a connection of the saved session
\* is gone.
ResumeFails ==
    /\ \E id \in pending : pending' = pending \ {id}
    /\ UNCHANGED <<serverID, sessionIDs, count, allocIDx, held>>

\* FreeSessionID.
FreeIndexUncounted(idx) ==
    /\ sessionIDs' = sessionIDs \ {idx}
    /\ UNCHANGED count

FreeIndex(idx) ==
    IF idx \in sessionIDs
    THEN /\ sessionIDs' = sessionIDs \ {idx}
         /\ count' = count - 1
    ELSE UNCHANGED <<sessionIDs, count>>

\* ReleaseStratumSession: the ID of a stopped session is freed.
FreeSessionID(s) ==
    /\ held[s] # NoID
    /\ FreeIndex(held[s].index)
    /\ held' = [held EXCEPT ![s] = NoID]
    /\ UNCHANGED <<serverID, allocIDx, pending>>

\* upgradeStratumSwitcher: once the process listens, a signal makes it save
\* the registered sessions, any of the live ones, and execute a new process,
\* which builds its manager anew, possibly under another server ID.
Upgrade ==
    /\ Listening
    /\ pending' \in SUBSET {held[s] : s \in Live}
    /\ serverID' \in ServerIDs
    /\ sessionIDs' = {}
    /\ count' = 0
    /\ allocIDx' = FirstIDx
    /\ held' = [s \in Sessions |-> NoID]

Next ==
    \/ \E s \in Sessions :
        AllocSessionID(s) \/ ResumeSessionID(s) \/ FreeSessionID(s)
    \/ ResumeFails
    \/ Upgrade

Spec == Init /\ [][Next]_vars

-----------------------------------------------------------------------------
\* Types: the state a manager can be in; the pointer may pass the mask by at
\* most the interval, after a resume.
TypeOK ==
    /\ serverID \in ServerIDs
    /\ sessionIDs \subseteq 0 .. Mask + AllocInterval
    /\ count \in 0 .. Size
    /\ allocIDx \in 0 .. Mask + AllocInterval
    /\ held \in [Sessions -> ID \union {NoID}]
    /\ pending \subseteq ID

\* No two live sessions have the same session index: the index is the part of
\* the extranonce that keeps the miners of one server apart, also across
\* upgrades, frees and wrap-arounds of the pointer.
UniqueIDs ==
    \A s, t \in Live : s # t => held[s].index # held[t].index

\* The bitset and the counter say exactly which indices live sessions hold:
\* nothing leaks, and freeing every session brings the count back to 0.
NoLeak ==
    /\ sessionIDs = {held[s].index : s \in Live}
    /\ count = Cardinality(sessionIDs)

\* A saved session finds its index free, so ResumeSessionID never reports
\* ErrSessionIDOccupied to a caller that would ignore it.
ResumeFindsFree ==
    /\ \A id \in pending : id.index \notin sessionIDs
    /\ \A id, other \in pending : id # other => id.index # other.index

\* An ID allocated now carries the server ID of this process, which keeps the
\* IDs of several switchers apart.
AllocCarriesServerID ==
    [][\A s \in Sessions :
          held[s] = NoID /\ held'[s] # NoID /\ pending' = pending
              => held'[s].server = serverID]_vars

\* The manager implements the pool it promises: an index is acquired only
\* when neither held nor reserved.
NoIndex == Size
Pool == INSTANCE SessionIDPool WITH
    Nobody   <- NoIndex,
    holds    <- [s \in Sessions |-> IF held[s] = NoID THEN NoIndex ELSE held[s].index],
    reserved <- {id.index : id \in pending}

PoolSpec == Pool!Spec
=============================================================================
