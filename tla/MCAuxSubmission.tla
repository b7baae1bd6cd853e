-------------------------- MODULE MCAuxSubmission --------------------------
(***************************************************************************)
(* Two jobs over two chains that share the block of the first chain, so    *)
(* that it is submitted more than once.  The work reaches both targets, or *)
(* only the larger one when its hash is found in the other byte order.     *)
(***************************************************************************)
EXTENDS AuxSubmission

MCReply(n, id, t) == [serial |-> n, chainID |-> id, height |-> n, target |-> t]
MCBlocks == {<<MCReply(1, 1, 20), MCReply(1, 2, 100)>>, <<MCReply(1, 1, 20), MCReply(2, 3, 40)>>}
MCJobs == {MakeJob([c \in 0 .. 1 |-> BlockOf(c, r[c + 1])],
                   CHOOSE s \in assignChainSlots([c \in 0 .. 1 |-> r[c + 1].chainID]) : TRUE,
                   255) : r \in MCBlocks}

\* Work that stands directly on the root of the job, and under a larger tree.
MCOuters == {[branchs |-> <<>>, sideMask |-> 0],
             [branchs |-> <<<<"other">>>>, sideMask |-> 1]}
=============================================================================
