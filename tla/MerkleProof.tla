---------------------------- MODULE MerkleProof ----------------------------
(***************************************************************************)
(* The Merkle tree of a rewards epoch on its two sides: cryptolib.ts       *)
(* builds it, claim_rewards.ts takes a proof from it, and claim_rewards    *)
(* (processor.rs) folds the proof on chain, one loop iteration per step.   *)
(*                                                                         *)
(* sha256 is a free constructor: Hash(s) of a sequence of digests, equal   *)
(* only for equal sequences.  ZERO32 of cryptolib.ts is the EMPTY buffer,  *)
(* so it adds nothing to a concatenation; on the wire it is 32 zero bytes. *)
(***************************************************************************)
EXTENDS Integers, Sequences, SequencesExt, FiniteSetsExt

CONSTANTS
  Allocations,  \* <<user, amount>> pairs that may be allotted or claimed
  Epochs,       \* epoch indexes hashed into the leaves
  MaxLeaves,    \* bound of the number of allocations
  MaxProof,     \* bound of the length of proofs that getProof did not make
  MaxMixed      \* bound of the number of allocations those proofs are tried on

ASSUME MerkleAssumption == {MaxLeaves, MaxProof, MaxMixed} \subseteq Nat

ZERO32 == <<"pad">>    \* Buffer.alloc(0)
ZeroBytes == <<"zero">> \* [0u8; 32]

Bytes(digest) == IF digest = ZERO32 THEN <<>> ELSE <<digest>>

Hash(digests) == <<"sha256", digests>>

(* Defective forms, which a run must reject; no specification uses them.   *)
LeafOfUser(allocation, e) == <<"leaf", allocation[1], e>>
FoldZeroToo(node, step) ==
  IF step.is_left THEN Hash(<<step.sibling, node>>) ELSE Hash(<<node, step.sibling>>)

makeLeaf(allocation, e) == <<"leaf", allocation, e>>
-----------------------------------------------------------------------------
(* The tree (cryptolib.ts; the layers are merkletreejs without sortPairs). *)

Power[k \in 0 .. MaxLeaves] == IF k = 0 THEN 1 ELSE 2 * Power[k - 1]

(* The exponent is the logarithm rounded up; there is one leaf at least. *)
nextPowerOf2(n) == Power[Min({k \in 0 .. n : Power[k] >= n})]

(* Sorting puts the leaves in the order of their digests, which is any     *)
(* order as far as the allocations go, and the padding last.               *)
padToPowerOfTwo(leaves) ==
  [i \in 1 .. nextPowerOf2(Len(leaves)) |-> IF i <= Len(leaves) THEN leaves[i] ELSE ZERO32]

Parents(layer) ==
  [i \in 1 .. Len(layer) \div 2 |-> Hash(Bytes(layer[2 * i - 1]) \o Bytes(layer[2 * i]))]

Depth(layer) == CHOOSE h \in 0 .. MaxLeaves : Power[h] = Len(layer)

Layers(layer) ==
  LET above[k \in 0 .. Depth(layer)] == IF k = 0 THEN layer ELSE Parents(above[k - 1])
  IN  above

getRoot(layer) == Layers(layer)[Depth(layer)][1]

OnWire(digest) == IF digest = ZERO32 THEN ZeroBytes ELSE digest

(* Where the ancestors of the leaf at place i are, one in each layer. *)
Places(layer, i) ==
  LET at[k \in 0 .. Depth(layer)] == IF k = 0 THEN i ELSE (at[k - 1] + 1) \div 2
  IN  at

IsRight(place) == place % 2 = 0

Sibling(layer, place) == layer[IF IsRight(place) THEN place - 1 ELSE place + 1]

PathFrom(layer, i) ==
  [k \in 1 .. Depth(layer) |->
     LET place == Places(layer, i)[k - 1]
     IN  [sibling |-> OnWire(Sibling(Layers(layer)[k - 1], place)), is_left |-> IsRight(place)]]

LeafAt(layer, leaf) == Min({i \in DOMAIN layer : layer[i] = leaf})

(* A leaf that is not in the tree has the empty proof. *)
getProof(layer, leaf) ==
  IF leaf \in ToSet(layer) THEN PathFrom(layer, LeafAt(layer, leaf)) ELSE <<>>
-----------------------------------------------------------------------------
VARIABLES
  allotted,   \* the allocations of the epoch, in the order of their leaves
  built,      \* the epoch index the tree was built with
  index,      \* the index in the epoch account its root was posted to
  claim,      \* the <<user, amount>> claimed
  proof,      \* the proof presented with it
  node,       \* running hash of claim_rewards
  folded,     \* loop iterations done
  verdict     \* "pending", "minted" or "InvalidMerkleProof"

vars == <<allotted, built, index, claim, proof, node, folded, verdict>>

Tree(allocations, e) ==
  padToPowerOfTwo([i \in DOMAIN allocations |-> makeLeaf(allocations[i], e)])

layer0 == Tree(allotted, built)

merkle_root == OnWire(getRoot(layer0))

(* What a proof can be made of: the digests of the tree and zeros. *)
Digests(layer) == UNION {ToSet(Layers(layer)[k]) : k \in 0 .. Depth(layer)}

Siblings(layer) == {OnWire(d) : d \in Digests(layer)} \cup {ZeroBytes}

ClientProof == getProof(layer0, makeLeaf(claim, index))

(* An epoch and a claim against it. *)
Claimed ==
  /\ allotted \in SeqOf(Allocations, MaxLeaves)
  /\ built \in Epochs
  /\ index \in Epochs
  /\ claim \in Allocations
  /\ node = makeLeaf(claim, index)
  /\ folded = 0
  /\ verdict = "pending"

Init ==
  /\ Claimed
  /\ \/ proof = ClientProof
     \/ /\ Len(allotted) <= MaxMixed
        /\ proof \in SeqOf([sibling : Siblings(layer0), is_left : BOOLEAN], MaxProof)

(* A zero sibling stands for padding, and the node is hashed alone. *)
FoldStep(n, step) ==
  CASE step.sibling = ZeroBytes -> Hash(<<n>>)
    [] step.sibling # ZeroBytes /\ step.is_left -> Hash(<<step.sibling, n>>)
    [] OTHER -> Hash(<<n, step.sibling>>)

Fold ==
  /\ verdict = "pending"
  /\ folded < Len(proof)
  /\ folded' = folded + 1
  /\ node' = FoldStep(node, proof[folded'])
  /\ UNCHANGED <<allotted, built, index, claim, proof, verdict>>

Compare ==
  /\ verdict = "pending"
  /\ folded = Len(proof)
  /\ verdict' = IF node = merkle_root THEN "minted" ELSE "InvalidMerkleProof"
  /\ UNCHANGED <<allotted, built, index, claim, proof, node, folded>>

Next == Fold \/ Compare

Spec == Init /\ [][Next]_vars
-----------------------------------------------------------------------------
(* Properties                                                              *)

(* The client and the program agree on every tree: whoever is allotted      *)
(* something gets through with the proof getProof returns, however many     *)
(* leaves are padding and wherever the leaf was sorted (cryptolib.ts:8,     *)
(* 27-36, processor.rs:388-392).                                            *)
AllottedGetsThrough ==
  verdict = "InvalidMerkleProof" /\ proof = ClientProof =>
    claim \notin ToSet(allotted) \/ built # index

(* Nothing else gets through: no sequence of digests of the tree and zeros  *)
(* leads from a leaf that is not in the tree to its root, padding,          *)
(* duplicate leaves and roots of other epochs included                      *)
(* (processor.rs:376-380, 385-414).                                         *)
OnlyAllottedGetsThrough ==
  verdict = "minted" => claim \in ToSet(allotted) /\ built = index
=============================================================================
