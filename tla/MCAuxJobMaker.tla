--------------------------- MODULE MCAuxJobMaker ---------------------------
(***************************************************************************)
(* Two chains.  The IDs of the second differ from that of the first in the *)
(* lowest bit, then in the next one, so that the tree grows from two slots *)
(* to four, and are then equal to it, so that no tree has slots for both.  *)
(* Replies with a target and with bits, with and without a height, and     *)
(* targets with and without the bit that compact bits cannot hold.         *)
(***************************************************************************)
EXTENDS AuxJobMaker, TLC

MCReplies ==
    0 :> << [serial |-> 1, chainID |-> 1, height |-> 1, bits |-> [exponent |-> 3, mantissa |-> 20]] >>
    @@
    1 :> << [serial |-> 1, chainID |-> 2, height |-> 1, target |-> 100],
            [serial |-> 2, chainID |-> 3, target |-> 200],
            [serial |-> 3, chainID |-> 1, height |-> 3, target |-> 40] >>

=============================================================================
