------------------------------- MODULE AuxPow -------------------------------
(***************************************************************************)
(* The arithmetic of mergedMiningProxy: slots of the chains in a Merkle    *)
(* tree (ChainSlot.go), compact difficulty (Utils.go), and Merkle branches  *)
(* of a proof of work (AuxPowData.go).                                     *)
(*                                                                         *)
(* Numbers keep their shape and lose their size: uint32 is taken modulo    *)
(* 2^Width, and a hash or target of 32 bytes is a number of Bytes digits   *)
(* in base Base.  The mantissa of compact bits has three digits, as in the *)
(* code.  A hash of two hashes is the pair of them.                        *)
(***************************************************************************)
EXTENDS Integers, Sequences, Functions, FiniteSets, FiniteSetsExt

CONSTANTS
    Width,   \* bits of an integer, 32 in the source
    Base,    \* values of a byte, 256 in the source; even
    Bytes,   \* bytes of a hash or a target, 32 in the source
    Nonces   \* values that rand.Uint32 may return

\* Powers of b, for shifts and numbers of digits, and what remains of n after
\* shifts to the right by one.
Powers(b) == LET p[k \in Nat] == IF k = 0 THEN 1 ELSE b * p[k - 1] IN p
Power(b, k) == Powers(b)[k]
Halvings(n) == LET h[k \in Nat] == IF k = 0 THEN n ELSE h[k - 1] \div 2 IN h

Modulus == Power(2, Width)

ASSUME ArithmeticAssumption ==
    /\ Width \in Nat \ {0} /\ Base \in Nat \ {0, 1} /\ Bytes \in Nat /\ Base % 2 = 0
    /\ Nonces \subseteq 0 .. Modulus - 1

-----------------------------------------------------------------------------
(* Slots *)

\* The low Width bits of the constants of the generator.
Multiplier == 1103515245 % Modulus
Increment == 12345 % Modulus

Scramble(x) == (x * Multiplier + Increment) % Modulus

\* A slip: the slot is taken from the higher bits, which are the better random.
getChainSlotHigh(chainID, merkleSize, merkleNonce) ==
    (Scramble((Scramble(merkleNonce) + chainID) % Modulus) \div 2) % merkleSize

getChainSlot(chainID, merkleSize, merkleNonce) ==
    Scramble((Scramble(merkleNonce) + chainID) % Modulus) % merkleSize

Conflict(chainIDs, merkleSize, merkleNonce) ==
    \E c, d \in DOMAIN chainIDs :
        /\ c # d
        /\ getChainSlot(chainIDs[c], merkleSize, merkleNonce)
             = getChainSlot(chainIDs[d], merkleSize, merkleNonce)

\* The sizes the search goes through; the next one overflows to 0.
Sizes(n) == {s \in {Power(2, k) : k \in 0 .. Width - 1} : s >= n}

\* What the search may return: it gives up a size after five nonces that
\* conflict.  No result means that the size overflows to 0 and the division
\* by it panics.
assignChainSlots(chainIDs) ==
    LET sizes == Sizes(Cardinality(DOMAIN chainIDs))
        tried == {s \in sizes : \A t \in sizes :
                    t < s => \E n \in Nonces : Conflict(chainIDs, t, n)}
        fitting(s) == {n \in Nonces : ~Conflict(chainIDs, s, n)}
    IN UNION {{[merkleSize |-> s, merkleNonce |-> n,
                slots |-> [id \in Range(chainIDs) |-> getChainSlot(id, s, n)]] :
                    n \in fitting(s)} : s \in tried}

-----------------------------------------------------------------------------
(* Compact difficulty *)

NumBytes(n) ==
    CHOOSE e \in 0 .. Bytes : n < Power(Base, e) /\ (e = 0 \/ n >= Power(Base, e - 1))
SignBit == Power(Base, 3) \div 2

CompactToBig(compact) ==
    LET e == compact.exponent
    IN IF e <= 3 THEN compact.mantissa \div Power(Base, 3 - e)
                 ELSE compact.mantissa * Power(Base, e - 3)

\* Of a number of e digits, the first three.
Leading(n, e) == IF e <= 3 THEN n * Power(Base, 3 - e) ELSE n \div Power(Base, e - 3)

\* A slip: the bit of the sign is not looked at.
BigToCompactUnsigned(n) ==
    LET e == NumBytes(n)
    IN [exponent |-> e,
        mantissa |-> Leading(n, e)]

\* The three leading digits; one less when the first has the sign bit.
BigToCompact(n) ==
    LET e == NumBytes(n)
        m == Leading(n, e)
    IN IF n = 0 THEN [exponent |-> 0, mantissa |-> 0]
       ELSE IF m >= SignBit THEN [exponent |-> e + 1, mantissa |-> m \div Base]
       ELSE [exponent |-> e, mantissa |-> m]

\* Bits of a target: whoever meets them meets the target, and less than the
\* last digit of the mantissa is lost.
BitsMatch(bits, target) ==
    /\ CompactToBig(bits) <= target
    /\ bits.exponent >= 3 => target < CompactToBig([bits EXCEPT !.mantissa = @ + 1])
    /\ bits.mantissa < SignBit

-----------------------------------------------------------------------------
(* Merkle trees and branches *)

Log2(size) == CHOOSE k \in 0 .. Width : Power(2, k) = size

\* The rows of the tree over so many leaves, numbered from 0.
MerkleRows(leaves, size) ==
    LET height == Log2(size)
        rows[l \in 0 .. height] ==
            IF l = 0 THEN leaves
            ELSE [i \in 0 .. Power(2, height - l) - 1 |->
                    <<rows[l - 1][2 * i], rows[l - 1][2 * i + 1]>>]
    IN rows

MerkleRoot(rows) == rows[Max(DOMAIN rows)][0]

MerklePathForLeaf(rows, slot) ==
    [l \in 1 .. Max(DOMAIN rows) |->
        LET i == Halvings(slot)[l - 1]
        IN [hash |-> rows[l - 1][IF i % 2 = 1 THEN i - 1 ELSE i + 1],
            useFirst |-> i % 2 = 1]]

\* A branch: hashes from the leaf up, and the bits that say which are on the left.
\* The mask makes room for a branch below it: a shift for each hash, from the
\* last to the first, leaves the bit of that hash at the end.
SideMask(mask, path) ==
    LET n == Len(path)
        m[i \in 0 .. n] == IF i = 0 THEN mask
                           ELSE 2 * m[i - 1] + (IF path[n - i + 1].useFirst THEN 1 ELSE 0)
    IN m[n]

\* A slip: the mask of the submitted branch is not shifted.
ExpandingUnshifted(branch, ext) ==
    [branchs |-> [i \in DOMAIN ext |-> ext[i].hash] \o branch.branchs,
     sideMask |-> branch.sideMask + SideMask(0, ext)]

ExpandingBlockchainBranch(branch, ext) ==
    [branchs |-> [i \in DOMAIN ext |-> ext[i].hash] \o branch.branchs,
     sideMask |-> SideMask(branch.sideMask, ext) % Modulus]

\* Where a branch leads, by the merged mining specification: what a node of a
\* chain computes, and TestCheckAuxBranch.
RootOf(leaf, branch) ==
    LET up[i \in 0 .. Len(branch.branchs)] ==
            IF i = 0 THEN leaf
            ELSE IF Halvings(branch.sideMask)[i - 1] % 2 = 0
                 THEN <<up[i - 1], branch.branchs[i]>>
                 ELSE <<branch.branchs[i], up[i - 1]>>
    IN up[Len(branch.branchs)]

\* A path leads from a leaf to the root of its tree.
EmptyBranch == [branchs |-> <<>>, sideMask |-> 0]
PathBranch(path) == ExpandingBlockchainBranch(EmptyBranch, path)

\* Byte order: the same digits from the other end.
Reverse(n) == MapThenSumSet(LAMBDA i : ((n \div Power(Base, i)) % Base) * Power(Base, Bytes - 1 - i),
                            0 .. Bytes - 1)

-----------------------------------------------------------------------------
(* Blocks and jobs *)

\* The fields of a reply that are missing are computed or have a default.  Whether
\* there was an error beside the result makes no difference, as decoding the hash
\* overwrites it.  The block of a chain with its own ID in the configuration has
\* that ID.
BlockOf(c, reply) ==
    LET bits == IF "bits" \in DOMAIN reply THEN reply.bits ELSE BigToCompact(reply.target)
    IN [hash |-> <<"block", c, reply.serial>>,
        chainID |-> reply.chainID,
        height |-> IF "height" \in DOMAIN reply THEN reply.height ELSE 0,
        bits |-> bits,
        target |-> IF "target" \in DOMAIN reply THEN reply.target ELSE CompactToBig(bits)]

\* makeAuxJob over the blocks of the known chains.  Among them one with the
\* largest target gives the difficulty, unless that is beyond maxJobTarget.  The
\* branch of a block is that of its slot; a chain ID without a slot reads as
\* slot 0, the zero value of the map.
Zero == <<>>
MakeJob(blocks, s, maxJobTarget) ==
    LET known == DOMAIN blocks
        slotOf(c) == IF blocks[c].chainID \in DOMAIN s.slots THEN s.slots[blocks[c].chainID] ELSE 0
        leaves == [i \in 0 .. s.merkleSize - 1 |->
                     IF \E c \in known : slotOf(c) = i
                     THEN blocks[CHOOSE c \in known : slotOf(c) = i].hash ELSE Zero]
        rows == MerkleRows(leaves, s.merkleSize)
        target == Max({blocks[c].target : c \in known})
    IN [merkleRoot |-> MerkleRoot(rows),
        merkleSize |-> s.merkleSize,
        merkleNonce |-> s.merkleNonce,
        maxTarget |-> Min({target, maxJobTarget}),
        minBits |-> IF target > maxJobTarget THEN BigToCompact(maxJobTarget)
                    ELSE blocks[CHOOSE c \in known : blocks[c].target = target].bits,
        auxPows |-> [c \in known |->
                        [block |-> blocks[c], branch |-> MerklePathForLeaf(rows, slotOf(c))]]]

\* What the chains of a job rely on: the branch of a block leads from it to the
\* root that the miners work for.
LeadsToRoot(job) ==
    \A c \in DOMAIN job.auxPows :
        LET pow == job.auxPows[c]
        IN /\ pow.branch \in Seq(Range(pow.branch))
           /\ RootOf(pow.block.hash, PathBranch(pow.branch)) = job.merkleRoot

\* What the database relies on, which finds the row of a block by its hash: no two
\* chains have the same block.
ChainsApart(jobs) ==
    \A job, other \in jobs : \A c \in DOMAIN job.auxPows, d \in DOMAIN other.auxPows :
        job.auxPows[c].block.hash = other.auxPows[d].block.hash => c = d
=============================================================================
