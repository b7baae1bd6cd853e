--------------------------- MODULE SessionIDPool ---------------------------
(***************************************************************************)
(* What the session ID manager of the Stratum switcher promises to the    *)
(* sessions: an index belongs to one session at a time, and the indices    *)
(* handed over to an upgraded process stay reserved until their session    *)
(* takes them back.  How the indices are found is left open.               *)
(***************************************************************************)
CONSTANTS
    Sessions,    \* client connections that may hold an index
    Indices,     \* the indices of the pool
    Nobody       \* stands for no index, not one of Indices

VARIABLES
    holds,       \* the index each session holds, or Nobody
    reserved     \* indices saved for the sessions of the previous process

vars == <<holds, reserved>>

InUse == {holds[s] : s \in Sessions} \ {Nobody}

Init ==
    /\ holds = [s \in Sessions |-> Nobody]
    /\ reserved = {}

\* A new connection receives an index nobody holds and nobody is promised.
Acquire(s) ==
    /\ holds[s] = Nobody
    /\ \E i \in Indices \ (InUse \union reserved) :
        holds' = [holds EXCEPT ![s] = i]
    /\ UNCHANGED reserved

\* A stopped session gives its index back.
Release(s) ==
    /\ holds[s] # Nobody
    /\ holds' = [holds EXCEPT ![s] = Nobody]
    /\ UNCHANGED reserved

\* The process is replaced: the indices of some live sessions are handed over.
Handover ==
    /\ reserved = {}
    /\ reserved' \in SUBSET InUse
    /\ holds' = [s \in Sessions |-> Nobody]

\* A session of the previous process is resumed under its own index.
Reclaim(s) ==
    /\ holds[s] = Nobody
    /\ \E i \in reserved :
        /\ holds' = [holds EXCEPT ![s] = i]
        /\ reserved' = reserved \ {i}

\* A session of the previous process cannot be resumed.
Forfeit ==
    /\ \E i \in reserved : reserved' = reserved \ {i}
    /\ UNCHANGED holds

Next ==
    \/ \E s \in Sessions : Acquire(s) \/ Release(s) \/ Reclaim(s)
    \/ Handover
    \/ Forfeit

Spec == Init /\ [][Next]_vars
=============================================================================
