---------------------------- MODULE MerkleTheorems ----------------------------
(***************************************************************************)
(* Theorems about MerkleProof: who is allotted something gets through with *)
(* the client's proof, for any number of leaves, and nothing else gets     *)
(* through, whatever the proof.                                            *)
(***************************************************************************)
EXTENDS MerkleProof, SumTheorems, SequenceTheorems

(* The recursive functions of the model are what their definitions say: a   *)
(* function that satisfies each recursion is built up step by step.         *)
IsPower(f, n) == f = [k \in 0 .. n |-> IF k = 0 THEN 1 ELSE 2 * f[k - 1]]

LEMMA PowerExists ==
  ASSUME NEW n \in Nat
  PROVE  \E f : IsPower(f, n)
  <1> DEFINE T == {m \in Nat : \E f : IsPower(f, m)}
  <1>1. 0 \in T
    <2>1. IsPower([k \in 0 .. 0 |-> 1], 0)
      BY DEF IsPower
    <2>. QED
      BY <2>1
  <1>2. ASSUME NEW m \in T PROVE m + 1 \in T
    <2>1. PICK f : IsPower(f, m)
      BY <1>2
    <2> DEFINE g == [k \in 0 .. m + 1 |-> IF k = m + 1 THEN 2 * f[m] ELSE f[k]]
    <2>2. ASSUME NEW k \in 0 .. m + 1
          PROVE  g[k] = IF k = 0 THEN 1 ELSE 2 * g[k - 1]
      BY <2>1 DEF IsPower
    <2>3. IsPower(g, m + 1)
      <3> HIDE DEF g
      <3>1. g = [k \in 0 .. m + 1 |-> g[k]]
        BY DEF g
      <3>. QED
        BY <2>2, <3>1 DEF IsPower
    <2>. QED
      BY <2>3
  <1>. QED
    <2> HIDE DEF T
    <2>1. T \subseteq Nat
      BY DEF T
    <2>2. n \in T
      BY <1>1, <1>2, <2>1, NumberInduction
    <2>. QED
      BY <2>2 DEF T

LEMMA PowerIs ==
  /\ MaxLeaves \in Nat
  /\ Power[0] = 1
  /\ \A k \in 1 .. MaxLeaves : Power[k] = 2 * Power[k - 1]
  <1>1. MaxLeaves \in Nat
    BY MerkleAssumption
  <1>2. \E f : f = [k \in 0 .. MaxLeaves |-> IF k = 0 THEN 1 ELSE 2 * f[k - 1]]
    BY <1>1, PowerExists DEF IsPower
  <1>3. Power = [k \in 0 .. MaxLeaves |-> IF k = 0 THEN 1 ELSE 2 * Power[k - 1]]
    BY <1>2, Zenon DEF Power
  <1>. QED
    BY <1>1, <1>3

LEMMA PowerBounds ==
  \A k \in 0 .. MaxLeaves : Power[k] \in Nat /\ Power[k] > k
  <1> DEFINE T == {n \in Nat : n <= MaxLeaves => Power[n] \in Nat /\ Power[n] > n}
  <1>1. 0 \in T
    BY PowerIs
  <1>2. ASSUME NEW m \in T PROVE m + 1 \in T
    <2>1. CASE m + 1 <= MaxLeaves
      <3>1. Power[m + 1] = 2 * Power[m] /\ Power[m] \in Nat /\ Power[m] > m
        BY <2>1, PowerIs
      <3>. QED
        BY <3>1
    <2>. QED
      BY <2>1, PowerIs
  <1>. QED
    <2> HIDE DEF T
    <2>1. \A n \in Nat : n \in T
      BY <1>1, <1>2, NumberInduction DEF T
    <2>. QED
      BY <2>1, PowerIs DEF T

IsLayers(f, layer, n) == f = [k \in 0 .. n |-> IF k = 0 THEN layer ELSE Parents(f[k - 1])]

LEMMA LayersExist ==
  ASSUME NEW layer, NEW n \in Nat
  PROVE  \E f : IsLayers(f, layer, n)
  <1> DEFINE T == {m \in Nat : \E f : IsLayers(f, layer, m)}
  <1>1. 0 \in T
    <2>1. IsLayers([k \in 0 .. 0 |-> layer], layer, 0)
      BY DEF IsLayers
    <2>. QED
      BY <2>1
  <1>2. ASSUME NEW m \in T PROVE m + 1 \in T
    <2>1. PICK f : IsLayers(f, layer, m)
      BY <1>2
    <2> DEFINE g == [k \in 0 .. m + 1 |-> IF k = m + 1 THEN Parents(f[m]) ELSE f[k]]
    <2>2. ASSUME NEW k \in 0 .. m + 1
          PROVE  g[k] = IF k = 0 THEN layer ELSE Parents(g[k - 1])
      BY <2>1 DEF IsLayers
    <2>3. IsLayers(g, layer, m + 1)
      <3> HIDE DEF g
      <3>1. g = [k \in 0 .. m + 1 |-> g[k]]
        BY DEF g
      <3>. QED
        BY <2>2, <3>1 DEF IsLayers
    <2>. QED
      BY <2>3
  <1>. QED
    <2> HIDE DEF T
    <2>1. T \subseteq Nat
      BY DEF T
    <2>2. n \in T
      BY <1>1, <1>2, <2>1, NumberInduction
    <2>. QED
      BY <2>2 DEF T

LEMMA LayersAre ==
  ASSUME NEW layer, Depth(layer) \in Nat
  PROVE  /\ Layers(layer)[0] = layer
         /\ \A k \in 1 .. Depth(layer) : Layers(layer)[k] = Parents(Layers(layer)[k - 1])
  <1> DEFINE d == Depth(layer)
  <1> HIDE DEF d
  <1>1. \E f : f = [k \in 0 .. d |-> IF k = 0 THEN layer ELSE Parents(f[k - 1])]
    BY LayersExist DEF IsLayers, d
  <1>2. Layers(layer) = [k \in 0 .. d |-> IF k = 0 THEN layer ELSE Parents(Layers(layer)[k - 1])]
    BY <1>1, Zenon DEF Layers, d
  <1>. QED
    BY <1>2 DEF d

IsPlaces(f, i, n) == f = [k \in 0 .. n |-> IF k = 0 THEN i ELSE (f[k - 1] + 1) \div 2]

LEMMA PlacesExist ==
  ASSUME NEW i \in Nat, NEW n \in Nat
  PROVE  \E f : IsPlaces(f, i, n)
  <1> DEFINE T == {m \in Nat : \E f : IsPlaces(f, i, m)}
  <1>1. 0 \in T
    <2>1. IsPlaces([k \in 0 .. 0 |-> i], i, 0)
      BY DEF IsPlaces
    <2>. QED
      BY <2>1
  <1>2. ASSUME NEW m \in T PROVE m + 1 \in T
    <2>1. PICK f : IsPlaces(f, i, m)
      BY <1>2
    <2> DEFINE g == [k \in 0 .. m + 1 |-> IF k = m + 1 THEN (f[m] + 1) \div 2 ELSE f[k]]
    <2>2. ASSUME NEW k \in 0 .. m + 1
          PROVE  g[k] = IF k = 0 THEN i ELSE (g[k - 1] + 1) \div 2
      BY <2>1 DEF IsPlaces
    <2>3. IsPlaces(g, i, m + 1)
      <3> HIDE DEF g
      <3>1. g = [k \in 0 .. m + 1 |-> g[k]]
        BY DEF g
      <3>. QED
        BY <2>2, <3>1 DEF IsPlaces
    <2>. QED
      BY <2>3
  <1>. QED
    <2> HIDE DEF T
    <2>1. T \subseteq Nat
      BY DEF T
    <2>2. n \in T
      BY <1>1, <1>2, <2>1, NumberInduction
    <2>. QED
      BY <2>2 DEF T

LEMMA PlacesAre ==
  ASSUME NEW layer, NEW i \in Nat, Depth(layer) \in Nat
  PROVE  /\ Places(layer, i)[0] = i
         /\ \A k \in 1 .. Depth(layer) : Places(layer, i)[k] = (Places(layer, i)[k - 1] + 1) \div 2
  <1> DEFINE d == Depth(layer)
  <1> HIDE DEF d
  <1>1. \E f : f = [k \in 0 .. d |-> IF k = 0 THEN i ELSE (f[k - 1] + 1) \div 2]
    BY PlacesExist DEF IsPlaces, d
  <1>2. Places(layer, i)
          = [k \in 0 .. d |-> IF k = 0 THEN i ELSE (Places(layer, i)[k - 1] + 1) \div 2]
    BY <1>1, Zenon DEF Places, d
  <1>. QED
    BY <1>2 DEF d
-----------------------------------------------------------------------------
(* A pair of digests is hashed without the padding among them.              *)
LEMMA PairsJoined ==
  ASSUME NEW a, NEW b
  PROVE  Bytes(a) \o Bytes(b) =
           IF a = ZERO32 THEN Bytes(b) ELSE IF b = ZERO32 THEN <<a>> ELSE <<a, b>>
  <1>1. <<a>> \in Seq({a, b}) /\ <<b>> \in Seq({a, b})
    OBVIOUS
  <1>2. <<a>> \o <<b>> = <<a, b>>
    <2>1. Len(<<a>> \o <<b>>) = 2 /\ <<a>> \o <<b>> \in Seq({a, b})
      BY <1>1, ConcatProperties
    <2>2. (<<a>> \o <<b>>)[1] = a /\ (<<a>> \o <<b>>)[2] = b
      BY <1>1, ConcatProperties
    <2>3. <<a, b>> \in Seq({a, b}) /\ Len(<<a, b>>) = 2 /\ <<a, b>>[1] = a /\ <<a, b>>[2] = b
      OBVIOUS
    <2> DEFINE s == <<a>> \o <<b>>
               t == <<a, b>>
    <2>4. \A i \in 1 .. Len(s) : s[i] = t[i]
      <3> HIDE DEF s, t
      <3>1. Len(s) = 2 /\ s[1] = t[1] /\ s[2] = t[2]
        BY <2>1, <2>2, <2>3 DEF s, t
      <3>. QED
        BY <3>1
    <2> HIDE DEF s, t
    <2>5. s \in Seq({a, b}) /\ t \in Seq({a, b}) /\ Len(s) = Len(t)
      BY <2>1, <2>3 DEF s, t
    <2>6. s = t
      BY <2>4, <2>5, SeqEqual
    <2>. QED
      BY <2>6 DEF s, t
  <1>3. <<>> \o <<>> = <<>> /\ <<>> \o <<b>> = <<b>> /\ <<a>> \o <<>> = <<a>>
    OBVIOUS
  <1>. QED
    BY <1>2, <1>3 DEF Bytes

(* A hash is that of the digests it was made from, and neither a leaf nor   *)
(* padding.                                                                 *)
IsHash(d) == \E digests : d = Hash(digests)

IsDigest(d) == d = ZERO32 \/ IsHash(d) \/ \E allocation, e : d = makeLeaf(allocation, e)

LEMMA HashesApart ==
  /\ \A s, t : Hash(s) = Hash(t) => s = t
  /\ \A s, allocation, e : Hash(s) # makeLeaf(allocation, e)
  /\ \A s : Hash(s) # ZERO32 /\ Hash(s) # ZeroBytes
  /\ \A allocation, e : makeLeaf(allocation, e) # ZERO32 /\ makeLeaf(allocation, e) # ZeroBytes
  /\ ZERO32 # ZeroBytes
  BY DEF Hash, makeLeaf, ZERO32, ZeroBytes

LEMMA LeavesApart ==
  ASSUME NEW a, NEW b, NEW e, NEW f, makeLeaf(a, e) = makeLeaf(b, f)
  PROVE  a = b /\ e = f
  BY DEF makeLeaf

(* The tree: its leaves, and half as many digests in each layer above.      *)
LEMMA TreeLeaves ==
  ASSUME NEW allocations \in SeqOf(Allocations, MaxLeaves), NEW e
  PROVE  /\ Depth(Tree(allocations, e)) \in 0 .. MaxLeaves
         /\ Power[Depth(Tree(allocations, e))] = Len(Tree(allocations, e))
         /\ Len(allocations) <= Len(Tree(allocations, e))
         /\ \A i \in 1 .. Len(Tree(allocations, e)) :
              Tree(allocations, e)[i] = IF i <= Len(allocations)
                                        THEN makeLeaf(allocations[i], e) ELSE ZERO32
  <1> DEFINE n == Len(allocations)
             S == {k \in 0 .. n : Power[k] >= n}
             h == Min(S)
             leaves == [i \in DOMAIN allocations |-> makeLeaf(allocations[i], e)]
  <1>1. n \in 0 .. MaxLeaves /\ DOMAIN allocations = 1 .. n
    BY PowerIs DEF SeqOf
  <1>2. h \in S
    <2>1. n \in S /\ S \subseteq Nat
      BY <1>1, PowerBounds, PowerIs
    <2>2. PICK m \in S : \A k \in S : m <= k
      <3> HIDE DEF S
      <3>. QED
        BY <2>1, LeastNumber
    <2> HIDE DEF S
    <2>. QED
      BY <2>2 DEF Min
  <1>3. h \in 0 .. MaxLeaves /\ Power[h] \in Nat /\ Power[h] >= n
    <2> HIDE DEF h
    <2>. QED
      BY <1>1, <1>2, PowerBounds, PowerIs
  <1>4. Len(leaves) = n /\ \A i \in 1 .. n : leaves[i] = makeLeaf(allocations[i], e)
    BY <1>1
  <1>5. nextPowerOf2(Len(leaves)) = Power[h]
    BY <1>4 DEF nextPowerOf2
  <1> HIDE DEF h
  <1>6. Tree(allocations, e) = padToPowerOfTwo(leaves)
    BY DEF Tree
  <1> HIDE DEF leaves
  <1>7. Tree(allocations, e)
          = [i \in 1 .. Power[h] |-> IF i <= n THEN leaves[i] ELSE ZERO32]
    BY <1>4, <1>5, <1>6 DEF padToPowerOfTwo
  <1>8. Len(Tree(allocations, e)) = Power[h]
    BY <1>3, <1>7
  <1>. QED
    BY <1>1, <1>3, <1>4, <1>7, <1>8 DEF Depth

(* A tree of a power of two of leaves.                                      *)
IsTree(layer) ==
  /\ Depth(layer) \in 0 .. MaxLeaves
  /\ DOMAIN layer = 1 .. Power[Depth(layer)]
  /\ \A i \in DOMAIN layer : layer[i] = ZERO32 \/ \E a, e : layer[i] = makeLeaf(a, e)

LEMMA TreeLength ==
  ASSUME NEW layer, NEW n \in Nat, DOMAIN layer = 1 .. n
  PROVE  Len(layer) = n
  OBVIOUS

LEMMA TreeIsTree ==
  ASSUME NEW allocations \in SeqOf(Allocations, MaxLeaves), NEW e
  PROVE  IsTree(Tree(allocations, e))
  BY TreeLeaves DEF IsTree

LEMMA ParentsAre ==
  ASSUME NEW layer, NEW n \in Nat, DOMAIN layer = 1 .. 2 * n, Len(layer) = 2 * n
  PROVE  /\ DOMAIN Parents(layer) = 1 .. n
         /\ Len(Parents(layer)) = n
         /\ \A i \in 1 .. n :
              Parents(layer)[i] = Hash(Bytes(layer[2 * i - 1]) \o Bytes(layer[2 * i]))
  <1>1. (2 * n) \div 2 = n
    OBVIOUS
  <1>. QED
    BY <1>1 DEF Parents

LEMMA LayerLengths ==
  ASSUME NEW layer, IsTree(layer)
  PROVE  \A k \in 0 .. Depth(layer) :
           /\ DOMAIN Layers(layer)[k] = 1 .. Power[Depth(layer) - k]
           /\ Len(Layers(layer)[k]) = Power[Depth(layer) - k]
  <1> DEFINE d == Depth(layer)
             L == Layers(layer)
             Shaped(k) == /\ DOMAIN L[k] = 1 .. Power[d - k]
                          /\ Len(L[k]) = Power[d - k]
             T == {k \in Nat : k <= d => Shaped(k)}
  <1>0. d \in Nat /\ d <= MaxLeaves /\ MaxLeaves \in Nat
    BY PowerIs DEF IsTree
  <1>1. 0 \in T
    <2>1. L[0] = layer
      BY <1>0, LayersAre
    <2>2. DOMAIN layer = 1 .. Power[d] /\ Power[d] \in Nat
      BY <1>0, PowerBounds DEF IsTree
    <2>3. Len(layer) = Power[d]
      BY <2>2, TreeLength
    <2> HIDE DEF L, d
    <2>. QED
      BY <1>0, <2>1, <2>2, <2>3
  <1>2. ASSUME NEW k \in T PROVE k + 1 \in T
    <2>1. CASE k + 1 <= d
      <3>1. L[k + 1] = Parents(L[k]) /\ Shaped(k)
        BY <1>0, <2>1, LayersAre
      <3>2. /\ Power[d - k] = 2 * Power[(d - k) - 1] /\ Power[(d - k) - 1] \in Nat
            /\ (d - k) - 1 = d - (k + 1)
        <4>1. d - k \in 1 .. MaxLeaves /\ (d - k) - 1 \in 0 .. MaxLeaves
          BY <1>0, <2>1
        <4>. QED
          BY <1>0, <4>1, PowerIs, PowerBounds
      <3> HIDE DEF d, L
      <3>. QED
        BY <3>1, <3>2, ParentsAre
    <2>. QED
      BY <1>0, <2>1
  <1>. QED
    <2>1. \A n \in Nat : n \in T
      <3> HIDE DEF T
      <3>1. T \subseteq Nat
        BY DEF T
      <3>. QED
        BY <1>1, <1>2, <3>1, NumberInduction
    <2>. QED
      BY <1>0, <2>1

(* What a tree is made of, layer by layer.                                  *)
LEMMA LayersMade ==
  ASSUME NEW layer, IsTree(layer), NEW k \in 1 .. Depth(layer),
         NEW i \in 1 .. Power[Depth(layer) - k]
  PROVE  LET below == Layers(layer)[k - 1]
         IN  /\ 2 * i - 1 \in DOMAIN below /\ 2 * i \in DOMAIN below
             /\ Layers(layer)[k][i] = Hash(Bytes(below[2 * i - 1]) \o Bytes(below[2 * i]))
  <1> DEFINE below == Layers(layer)[k - 1]
             n == Power[Depth(layer) - k]
  <1>1. /\ Depth(layer) - k \in 0 .. MaxLeaves /\ Depth(layer) - (k - 1) \in 1 .. MaxLeaves
        /\ (Depth(layer) - (k - 1)) - 1 = Depth(layer) - k
        /\ k - 1 \in 0 .. Depth(layer)
    BY PowerIs DEF IsTree
  <1>2. n \in Nat /\ Power[Depth(layer) - (k - 1)] = 2 * n
    BY <1>1, PowerIs, PowerBounds
  <1>3. DOMAIN below = 1 .. 2 * n /\ Len(below) = 2 * n
    BY <1>1, <1>2, LayerLengths
  <1>4. Layers(layer)[k] = Parents(below)
    BY <1>1, LayersAre DEF IsTree
  <1> HIDE DEF below, n
  <1>5. i \in 1 .. n
    BY DEF n
  <1>6. Layers(layer)[k][i] = Hash(Bytes(below[2 * i - 1]) \o Bytes(below[2 * i]))
    BY <1>2, <1>3, <1>4, <1>5, ParentsAre
  <1>7. 2 * i - 1 \in DOMAIN below /\ 2 * i \in DOMAIN below
    BY <1>2, <1>3, <1>5
  <1>. QED
    BY <1>6, <1>7 DEF below

LEMMA DigestsAre ==
  ASSUME NEW layer, NEW d
  PROVE  d \in Digests(layer) <=>
           \E k \in 0 .. Depth(layer) : \E i \in DOMAIN Layers(layer)[k] : d = Layers(layer)[k][i]
  BY DEF Digests, ToSet

(* A digest of the tree is padding, a leaf, or made from two others.        *)
LEMMA DigestMade ==
  ASSUME NEW layer, IsTree(layer), NEW d \in Digests(layer)
  PROVE  \/ d \in ToSet(layer)
         \/ \E a, b \in Digests(layer) : d = Hash(Bytes(a) \o Bytes(b))
  <1>0. Depth(layer) \in Nat
    BY PowerIs DEF IsTree
  <1>1. PICK k \in 0 .. Depth(layer) : \E i \in DOMAIN Layers(layer)[k] : d = Layers(layer)[k][i]
    BY DigestsAre
  <1>2. PICK i \in DOMAIN Layers(layer)[k] : d = Layers(layer)[k][i]
    BY <1>1
  <1>3. CASE k = 0
    BY <1>0, <1>2, <1>3, LayersAre DEF ToSet
  <1>4. CASE k # 0
    <2> DEFINE below == Layers(layer)[k - 1]
    <2>1. k \in 1 .. Depth(layer) /\ k - 1 \in 0 .. Depth(layer)
      BY <1>0, <1>4
    <2>a. i \in 1 .. Power[Depth(layer) - k]
      BY LayerLengths
    <2>2. /\ 2 * i - 1 \in DOMAIN below /\ 2 * i \in DOMAIN below
          /\ d = Hash(Bytes(below[2 * i - 1]) \o Bytes(below[2 * i]))
      BY <1>2, <2>1, <2>a, LayersMade
    <2>3. below[2 * i - 1] \in Digests(layer) /\ below[2 * i] \in Digests(layer)
      BY <2>1, <2>2, DigestsAre
    <2>. QED
      BY <2>2, <2>3
  <1>. QED
    BY <1>3, <1>4

LEMMA DigestKinds ==
  ASSUME NEW layer, IsTree(layer), NEW d \in Digests(layer)
  PROVE  IsDigest(d) /\ d # ZeroBytes
  <1>1. CASE d \in ToSet(layer)
    BY <1>1, HashesApart DEF IsTree, IsDigest, ToSet
  <1>2. CASE \E a, b \in Digests(layer) : d = Hash(Bytes(a) \o Bytes(b))
    BY <1>2, HashesApart DEF IsDigest, IsHash
  <1>. QED
    BY <1>1, <1>2, DigestMade

(* A fold that arrives at a pair of digests came from one of the two.       *)
LEMMA FoldsFrom ==
  ASSUME NEW n, NEW step, NEW a, NEW b, FoldStep(n, step) = Hash(Bytes(a) \o Bytes(b))
  PROVE  n \in {a, b}
  <1> DEFINE s == step.sibling
  <1>1. PICK digests \in {<<n>>, <<s, n>>, <<n, s>>} : FoldStep(n, step) = Hash(digests)
    BY Zenon DEF FoldStep
  <1>2. digests = Bytes(a) \o Bytes(b)
    BY <1>1, HashesApart
  <1>3. digests \in {<<>>, <<a>>, <<b>>, <<a, b>>}
    BY <1>2, PairsJoined DEF Bytes
  <1>. QED
    BY <1>1, <1>3
-----------------------------------------------------------------------------
(* Nothing gets through that is not in the tree: a node that is a digest of *)
(* the tree was reached from a leaf of it.  The proof is whatever it is.    *)
IsNode(d) == IsHash(d) \/ \E allocation, e : d = makeLeaf(allocation, e)

ReachedInv ==
  /\ allotted \in SeqOf(Allocations, MaxLeaves)
  /\ IsNode(node)
  /\ node \in Digests(layer0) => makeLeaf(claim, index) \in ToSet(layer0)
  /\ verdict = "minted" => node = merkle_root

LEMMA FoldIsHash ==
  ASSUME NEW n, NEW step
  PROVE  IsHash(FoldStep(n, step))
  BY Zenon DEF FoldStep, IsHash

LEMMA ReachedInit == Claimed => ReachedInv
  <1> SUFFICES ASSUME Claimed PROVE ReachedInv
    OBVIOUS
  <1>1. IsTree(layer0)
    BY TreeIsTree DEF Claimed, layer0
  <1>2. node = makeLeaf(claim, index) /\ verdict # "minted"
    BY DEF Claimed
  <1>3. ASSUME node \in Digests(layer0) PROVE node \in ToSet(layer0)
    BY <1>1, <1>2, <1>3, DigestMade, HashesApart
  <1>. QED
    BY <1>2, <1>3 DEF Claimed, ReachedInv, IsNode

LEMMA ReachedNext == ReachedInv /\ [Next]_vars => ReachedInv'
  <1> SUFFICES ASSUME ReachedInv, [Next]_vars PROVE ReachedInv'
    OBVIOUS
  <1>1. CASE Fold
    <2>1. layer0' = layer0 /\ claim' = claim /\ index' = index /\ allotted' = allotted
          /\ verdict' = verdict /\ verdict # "minted"
      BY <1>1 DEF Fold, layer0
    <2>2. node' = FoldStep(node, proof[folded + 1])
      BY <1>1 DEF Fold
    <2>3. IsTree(layer0)
      BY TreeIsTree DEF ReachedInv, layer0
    <2>4. IsHash(node')
      BY <2>2, FoldIsHash
    <2>5. ASSUME node' \in Digests(layer0) PROVE node \in Digests(layer0)
      <3>1. node' \notin ToSet(layer0)
        BY <2>3, <2>4, HashesApart DEF IsTree, IsHash, ToSet
      <3>2. PICK a \in Digests(layer0), b \in Digests(layer0) : node' = Hash(Bytes(a) \o Bytes(b))
        BY <2>3, <2>5, <3>1, DigestMade
      <3>3. node \in {a, b}
        <4> DEFINE step == proof[folded + 1]
        <4>1. FoldStep(node, step) = Hash(Bytes(a) \o Bytes(b))
          BY <2>2, <3>2
        <4> HIDE DEF step
        <4>. QED
          BY <4>1, FoldsFrom
      <3>. QED
        BY <3>2, <3>3
    <2>. QED
      BY <2>1, <2>4, <2>5 DEF ReachedInv, IsNode
  <1>2. CASE Compare
    <2>1. layer0' = layer0 /\ merkle_root' = merkle_root
      BY <1>2 DEF Compare, layer0, merkle_root
    <2>. QED
      BY <1>2, <2>1 DEF Compare, ReachedInv, IsNode
  <1>3. CASE UNCHANGED vars
    <2>1. layer0' = layer0 /\ merkle_root' = merkle_root
      BY <1>3 DEF vars, layer0, merkle_root
    <2>. QED
      BY <1>3, <2>1 DEF vars, ReachedInv, IsNode
  <1>. QED
    BY <1>1, <1>2, <1>3 DEF Next

(* The root of a tree is one of its digests.                                *)
LEMMA RootInTree ==
  ASSUME NEW layer, IsTree(layer)
  PROVE  /\ getRoot(layer) \in Digests(layer)
         /\ DOMAIN Layers(layer)[Depth(layer)] = {1}
  <1>1. Depth(layer) \in 0 .. Depth(layer) /\ Depth(layer) - Depth(layer) = 0
    BY DEF IsTree
  <1>2. DOMAIN Layers(layer)[Depth(layer)] = 1 .. 1
    BY <1>1, LayerLengths, PowerIs
  <1>. QED
    BY <1>1, <1>2, DigestsAre DEF getRoot

(* Whatever the proof presented, of any length and with any siblings, what  *)
(* is minted was allotted under the index of the epoch: the fold of         *)
(* claim_rewards opens no way to a root but from a leaf of its tree         *)
(* (processor.rs:376-414).                                                  *)
THEOREM OnlyAllottedByAnyProof == Claimed /\ [][Next]_vars => []OnlyAllottedGetsThrough
  <1>1. ReachedInv => OnlyAllottedGetsThrough
    <2> SUFFICES ASSUME ReachedInv, verdict = "minted"
                 PROVE  claim \in ToSet(allotted) /\ built = index
      BY DEF OnlyAllottedGetsThrough
    <2>1. IsTree(layer0)
      BY TreeIsTree DEF ReachedInv, layer0
    <2>2. node # ZeroBytes /\ node # ZERO32
      BY HashesApart DEF ReachedInv, IsNode, IsHash
    <2>3. node = getRoot(layer0)
      BY <2>2 DEF ReachedInv, merkle_root, OnWire
    <2>4. makeLeaf(claim, index) \in ToSet(layer0)
      BY <2>1, <2>3, RootInTree DEF ReachedInv
    <2>5. PICK i \in DOMAIN layer0 : layer0[i] = makeLeaf(claim, index)
      BY <2>4 DEF ToSet
    <2>6. i \in 1 .. Len(layer0)
      BY <2>1, TreeLeaves DEF IsTree, layer0, ReachedInv
    <2>7. i <= Len(allotted) /\ layer0[i] = makeLeaf(allotted[i], built)
      BY <2>5, <2>6, TreeLeaves, HashesApart DEF layer0, ReachedInv
    <2>8. claim = allotted[i] /\ index = built
      <3> DEFINE other == allotted[i]
      <3>1. makeLeaf(claim, index) = makeLeaf(other, built)
        BY <2>5, <2>7
      <3> HIDE DEF other
      <3>2. claim = other /\ index = built
        BY <3>1, LeavesApart
      <3>. QED
        BY <3>2 DEF other
    <2>9. i \in DOMAIN allotted
      BY <2>6, <2>7 DEF ReachedInv, SeqOf
    <2>. QED
      BY <2>8, <2>9 DEF ToSet
  <1>. QED
    BY <1>1, ReachedInit, ReachedNext, PTL

(* So it is for the proofs the runs try.                                    *)
THEOREM OnlyAllotted == Spec => []OnlyAllottedGetsThrough
  <1>1. Init => Claimed
    BY DEF Init
  <1>. QED
    BY <1>1, OnlyAllottedByAnyProof, PTL DEF Spec
-----------------------------------------------------------------------------
(* Who is allotted gets through: folding the client's proof keeps the node  *)
(* on the path from the claim's leaf to the root.                           *)
LEMMA PlacesIn ==
  ASSUME NEW layer, IsTree(layer), NEW i \in DOMAIN layer
  PROVE  \A k \in 0 .. Depth(layer) : Places(layer, i)[k] \in 1 .. Power[Depth(layer) - k]
  <1> DEFINE d == Depth(layer)
             P == Places(layer, i)
             T == {k \in Nat : k <= d => P[k] \in 1 .. Power[d - k]}
  <1>0. /\ d \in Nat /\ d <= MaxLeaves /\ MaxLeaves \in Nat
        /\ Power[d] \in Nat /\ i \in 1 .. Power[d] /\ i \in Nat
    BY PowerIs, PowerBounds DEF IsTree
  <1>1. 0 \in T
    <2>1. P[0] = i /\ d - 0 = d
      BY <1>0, PlacesAre
    <2> HIDE DEF P, d
    <2>. QED
      BY <1>0, <2>1
  <1>2. ASSUME NEW k \in T PROVE k + 1 \in T
    <2>1. CASE k + 1 <= d
      <3>1. P[k + 1] = (P[k] + 1) \div 2 /\ P[k] \in 1 .. Power[d - k]
        BY <1>0, <2>1, PlacesAre
      <3>2. /\ Power[d - k] = 2 * Power[(d - k) - 1] /\ Power[(d - k) - 1] \in Nat
            /\ (d - k) - 1 = d - (k + 1)
        <4>1. d - k \in 1 .. MaxLeaves /\ (d - k) - 1 \in 0 .. MaxLeaves
          BY <1>0, <2>1
        <4>. QED
          BY <1>0, <4>1, PowerIs, PowerBounds
      <3> HIDE DEF d, P
      <3>. QED
        BY <3>1, <3>2
    <2>. QED
      BY <1>0, <2>1
  <1>. QED
    <2>1. \A n \in Nat : n \in T
      <3> HIDE DEF T
      <3>1. T \subseteq Nat
        BY DEF T
      <3>. QED
        BY <1>1, <1>2, <3>1, NumberInduction
    <2>. QED
      BY <1>0, <2>1

(* What crosses the wire as zeros is padding, and hashing the node alone is *)
(* what the tree does beside padding.                                       *)
LEMMA FoldsPair ==
  ASSUME NEW n, n # ZERO32, NEW s, s # ZeroBytes, NEW step, step.sibling = OnWire(s)
  PROVE  /\ step.is_left => FoldStep(n, step) = Hash(Bytes(s) \o Bytes(n))
         /\ ~step.is_left => FoldStep(n, step) = Hash(Bytes(n) \o Bytes(s))
  <1>1. CASE s = ZERO32
    <2>1. FoldStep(n, step) = Hash(<<n>>)
      BY <1>1 DEF FoldStep, OnWire
    <2>2. Bytes(s) \o Bytes(n) = <<n>> /\ Bytes(n) \o Bytes(s) = <<n>>
      BY <1>1, PairsJoined DEF Bytes
    <2>. QED
      BY <2>1, <2>2
  <1>2. CASE s # ZERO32
    <2>1. step.sibling = s
      BY <1>2 DEF OnWire
    <2>2. Bytes(s) \o Bytes(n) = <<s, n>> /\ Bytes(n) \o Bytes(s) = <<n, s>>
      BY <1>2, PairsJoined
    <2>. QED
      BY <2>1, <2>2, Zenon DEF FoldStep
  <1>. QED
    BY <1>1, <1>2

(* One iteration with the client's proof goes up one layer.                 *)
LEMMA FoldsUp ==
  ASSUME NEW layer, IsTree(layer), NEW i \in DOMAIN layer, NEW k \in 1 .. Depth(layer),
         Layers(layer)[k - 1][Places(layer, i)[k - 1]] # ZERO32
  PROVE  FoldStep(Layers(layer)[k - 1][Places(layer, i)[k - 1]], PathFrom(layer, i)[k])
           = Layers(layer)[k][Places(layer, i)[k]]
  <1> DEFINE below == Layers(layer)[k - 1]
             p == Places(layer, i)[k - 1]
             q == Places(layer, i)[k]
             s == Sibling(below, p)
             step == PathFrom(layer, i)[k]
  <1>0. Depth(layer) \in Nat /\ i \in Nat /\ k - 1 \in 0 .. Depth(layer) /\ k \in 0 .. Depth(layer)
    BY PowerIs DEF IsTree
  <1>1. q = (p + 1) \div 2 /\ q \in 1 .. Power[Depth(layer) - k] /\ p \in Nat
    BY <1>0, PlacesAre, PlacesIn
  <1>2. /\ 2 * q - 1 \in DOMAIN below /\ 2 * q \in DOMAIN below
        /\ Layers(layer)[k][q] = Hash(Bytes(below[2 * q - 1]) \o Bytes(below[2 * q]))
    <2> HIDE DEF q
    <2>. QED
      BY <1>1, LayersMade
  <1>3. step.sibling = OnWire(s) /\ step.is_left = IsRight(p)
    BY DEF PathFrom
  <1>4. below[2 * q - 1] \in Digests(layer) /\ below[2 * q] \in Digests(layer)
    BY <1>0, <1>2, DigestsAre
  <1>5. below[p] # ZERO32 /\ q \in Nat
    BY <1>1
  <1> HIDE DEF below, p, q, step
  <1>6. FoldStep(below[p], step) = Layers(layer)[k][q]
    <2>1. CASE IsRight(p)
      <3>1. p = 2 * q /\ p - 1 = 2 * q - 1
        BY <1>1, <1>5, <2>1 DEF IsRight
      <3>2. s = below[2 * q - 1]
        BY <2>1, <3>1 DEF Sibling
      <3> HIDE DEF s
      <3>3. s # ZeroBytes
        BY <1>4, <3>2, DigestKinds
      <3>4. FoldStep(below[p], step) = Hash(Bytes(s) \o Bytes(below[p]))
        BY <1>3, <1>5, <2>1, <3>3, FoldsPair
      <3>. QED
        BY <1>2, <3>1, <3>2, <3>4
    <2>2. CASE ~IsRight(p)
      <3>1. p = 2 * q - 1 /\ p + 1 = 2 * q
        BY <1>1, <1>5, <2>2 DEF IsRight
      <3>2. s = below[2 * q]
        BY <2>2, <3>1 DEF Sibling
      <3> HIDE DEF s
      <3>3. s # ZeroBytes
        BY <1>4, <3>2, DigestKinds
      <3>4. FoldStep(below[p], step) = Hash(Bytes(below[p]) \o Bytes(s))
        BY <1>3, <1>5, <2>2, <3>3, FoldsPair
      <3>. QED
        BY <1>2, <3>1, <3>2, <3>4
    <2>. QED
      BY <2>1, <2>2
  <1>. QED
    BY <1>6 DEF below, p, q, step

(* The client's proof is that of a leaf of the tree.                        *)
LEMMA ClientsPath ==
  ASSUME NEW layer, IsTree(layer), NEW leaf \in ToSet(layer)
  PROVE  /\ LeafAt(layer, leaf) \in DOMAIN layer
         /\ layer[LeafAt(layer, leaf)] = leaf
         /\ getProof(layer, leaf) = PathFrom(layer, LeafAt(layer, leaf))
         /\ Len(getProof(layer, leaf)) = Depth(layer)
  <1> DEFINE S == {i \in DOMAIN layer : layer[i] = leaf}
  <1>0. Depth(layer) \in Nat
    BY PowerIs DEF IsTree
  <1>1. S # {} /\ S \subseteq Nat
    BY PowerBounds DEF IsTree, ToSet
  <1>2. Min(S) \in S
    <2> HIDE DEF S
    <2>1. PICK m \in S : \A k \in S : m <= k
      BY <1>1, LeastNumber
    <2>. QED
      BY <2>1 DEF Min
  <1>3. LeafAt(layer, leaf) = Min(S)
    BY DEF LeafAt
  <1>4. getProof(layer, leaf) = PathFrom(layer, LeafAt(layer, leaf))
    BY DEF getProof
  <1>5. Len(PathFrom(layer, LeafAt(layer, leaf))) = Depth(layer)
    BY <1>0 DEF PathFrom
  <1>. QED
    BY <1>2, <1>3, <1>4, <1>5

OnPath ==
  LET leaf == makeLeaf(claim, index)
  IN  node = Layers(layer0)[folded][Places(layer0, LeafAt(layer0, leaf))[folded]]

GetsThroughInv ==
  /\ allotted \in SeqOf(Allocations, MaxLeaves)
  /\ IsNode(node)
  /\ proof = ClientProof /\ claim \in ToSet(allotted) /\ built = index =>
       /\ folded \in 0 .. Depth(layer0)
       /\ OnPath
       /\ verdict # "InvalidMerkleProof"

(* The leaf of an allocation is in the tree.                                *)
LEMMA AllottedInTree ==
  ASSUME NEW allocations \in SeqOf(Allocations, MaxLeaves), NEW e,
         NEW allocation \in ToSet(allocations)
  PROVE  makeLeaf(allocation, e) \in ToSet(Tree(allocations, e))
  <1> DEFINE t == Tree(allocations, e)
  <1>1. PICK i \in DOMAIN allocations : allocations[i] = allocation
    BY DEF ToSet
  <1>2. DOMAIN allocations = 1 .. Len(allocations) /\ Len(allocations) \in Nat
    BY PowerIs DEF SeqOf
  <1>3. IsTree(t) /\ Len(allocations) <= Len(t) /\ Power[Depth(t)] = Len(t) /\ Len(t) \in Nat
    BY TreeIsTree, TreeLeaves, PowerBounds
  <1>4. i \in 1 .. Len(t) /\ DOMAIN t = 1 .. Len(t)
    BY <1>1, <1>2, <1>3 DEF IsTree
  <1>5. t[i] = makeLeaf(allocation, e)
    BY <1>1, <1>2, <1>4, TreeLeaves
  <1>. QED
    BY <1>4, <1>5 DEF ToSet

LEMMA GetsThroughInit == Init => GetsThroughInv
  <1> SUFFICES ASSUME Init PROVE GetsThroughInv
    OBVIOUS
  <1> DEFINE leaf == makeLeaf(claim, index)
  <1>1. /\ node = leaf /\ folded = 0 /\ verdict = "pending"
        /\ allotted \in SeqOf(Allocations, MaxLeaves) /\ IsNode(node)
    BY DEF Init, Claimed, IsNode
  <1>2. ASSUME claim \in ToSet(allotted), built = index
        PROVE  folded \in 0 .. Depth(layer0) /\ OnPath
    <2>1. IsTree(layer0)
      BY <1>1, TreeIsTree DEF layer0
    <2>2. leaf \in ToSet(layer0)
      BY <1>1, <1>2, AllottedInTree DEF layer0
    <2>3. LeafAt(layer0, leaf) \in DOMAIN layer0 /\ layer0[LeafAt(layer0, leaf)] = leaf
      BY <2>1, <2>2, ClientsPath
    <2>4. Depth(layer0) \in Nat /\ LeafAt(layer0, leaf) \in Nat
      BY <2>1, <2>3, PowerIs, PowerBounds DEF IsTree
    <2>5. Layers(layer0)[0] = layer0 /\ Places(layer0, LeafAt(layer0, leaf))[0] = LeafAt(layer0, leaf)
      BY <2>4, LayersAre, PlacesAre
    <2>. QED
      BY <1>1, <2>3, <2>4, <2>5 DEF OnPath
  <1>. QED
    BY <1>1, <1>2 DEF GetsThroughInv

LEMMA GetsThroughNext == GetsThroughInv /\ [Next]_vars => GetsThroughInv'
  <1> SUFFICES ASSUME GetsThroughInv, [Next]_vars PROVE GetsThroughInv'
    OBVIOUS
  <1> DEFINE leaf == makeLeaf(claim, index)
             at == LeafAt(layer0, leaf)
  <1>a. IsTree(layer0)
    BY TreeIsTree DEF GetsThroughInv, layer0
  <1>b. node # ZERO32 /\ node # ZeroBytes
    BY HashesApart DEF GetsThroughInv, IsNode, IsHash
  <1>c. ASSUME claim \in ToSet(allotted), built = index
        PROVE  leaf \in ToSet(layer0)
    BY <1>c, AllottedInTree DEF GetsThroughInv, layer0
  <1>1. CASE Fold
    <2>1. /\ layer0' = layer0 /\ ClientProof' = ClientProof /\ proof' = proof
          /\ claim' = claim /\ index' = index /\ built' = built /\ allotted' = allotted
          /\ verdict' = verdict /\ folded' = folded + 1
      BY <1>1 DEF Fold, layer0, ClientProof
    <2>2. node' = FoldStep(node, proof[folded + 1]) /\ folded < Len(proof)
      BY <1>1 DEF Fold
    <2>3. IsNode(node')
      BY <2>2, FoldIsHash DEF IsNode
    <2>4. ASSUME proof = ClientProof, claim \in ToSet(allotted), built = index
          PROVE  folded' \in 0 .. Depth(layer0) /\ OnPath'
      <3>1. folded \in 0 .. Depth(layer0) /\ OnPath
        BY <2>4 DEF GetsThroughInv
      <3>2. /\ at \in DOMAIN layer0 /\ proof = PathFrom(layer0, at)
            /\ Len(proof) = Depth(layer0)
        BY <1>a, <1>c, <2>4, ClientsPath DEF ClientProof
      <3>3. folded + 1 \in 1 .. Depth(layer0) /\ (folded + 1) - 1 = folded /\ Depth(layer0) \in Nat
        BY <1>a, <2>2, <3>1, <3>2, PowerIs DEF IsTree
      <3>4. node = Layers(layer0)[folded][Places(layer0, at)[folded]]
        BY <3>1 DEF OnPath
      <3>5. FoldStep(node, PathFrom(layer0, at)[folded + 1])
              = Layers(layer0)[folded + 1][Places(layer0, at)[folded + 1]]
        <4> HIDE DEF at
        <4>1. Layers(layer0)[(folded + 1) - 1][Places(layer0, at)[(folded + 1) - 1]] # ZERO32
          BY <1>b, <3>3, <3>4
        <4>2. FoldStep(Layers(layer0)[(folded + 1) - 1][Places(layer0, at)[(folded + 1) - 1]],
                       PathFrom(layer0, at)[folded + 1])
                = Layers(layer0)[folded + 1][Places(layer0, at)[folded + 1]]
          BY <1>a, <3>2, <3>3, <4>1, FoldsUp
        <4>. QED
          BY <3>3, <3>4, <4>2
      <3>6. node' = Layers(layer0)[folded + 1][Places(layer0, at)[folded + 1]]
        BY <2>2, <3>2, <3>5
      <3>7. OnPath' = (node' = Layers(layer0)[folded'][Places(layer0, at)[folded']])
        BY <2>1 DEF OnPath
      <3>8. OnPath'
        BY <2>1, <3>6, <3>7
      <3>. QED
        BY <2>1, <3>3, <3>8
    <2>. QED
      BY <2>1, <2>3, <2>4 DEF GetsThroughInv
  <1>2. CASE Compare
    <2>1. /\ layer0' = layer0 /\ ClientProof' = ClientProof /\ proof' = proof
          /\ claim' = claim /\ index' = index /\ built' = built /\ allotted' = allotted
          /\ folded' = folded /\ node' = node /\ OnPath' = OnPath
      BY <1>2 DEF Compare, layer0, ClientProof, OnPath
    <2>2. ASSUME proof = ClientProof, claim \in ToSet(allotted), built = index
          PROVE  verdict' = "minted"
      <3>1. folded \in 0 .. Depth(layer0) /\ OnPath /\ folded = Len(proof)
        BY <1>2, <2>2 DEF GetsThroughInv, Compare
      <3>2. at \in DOMAIN layer0 /\ folded = Depth(layer0)
        BY <1>a, <1>c, <2>2, <3>1, ClientsPath DEF ClientProof
      <3>3. Places(layer0, at)[folded] = 1
        <4> HIDE DEF at
        <4>1. Places(layer0, at)[folded] \in 1 .. Power[Depth(layer0) - folded]
          BY <1>a, <3>1, <3>2, PlacesIn
        <4>2. Depth(layer0) - folded = 0
          BY <1>a, <3>2, PowerIs DEF IsTree
        <4>. QED
          BY <4>1, <4>2, PowerIs
      <3>4. node = getRoot(layer0)
        BY <3>1, <3>2, <3>3 DEF OnPath, getRoot
      <3>5. node = merkle_root
        BY <1>b, <3>4 DEF merkle_root, OnWire
      <3>. QED
        BY <1>2, <3>5 DEF Compare
    <2>. QED
      BY <2>1, <2>2 DEF GetsThroughInv
  <1>3. CASE UNCHANGED vars
    <2>1. /\ layer0' = layer0 /\ ClientProof' = ClientProof /\ OnPath' = OnPath
      BY <1>3 DEF vars, layer0, ClientProof, OnPath
    <2>. QED
      BY <1>3, <2>1 DEF vars, GetsThroughInv
  <1>. QED
    BY <1>1, <1>2, <1>3 DEF Next

(* The client and the program agree on every tree: whoever is allotted      *)
(* something gets through with the proof getProof returns, for any number   *)
(* of leaves and any padding (cryptolib.ts:27-36, processor.rs:384-414).    *)
THEOREM AllottedGetThrough == Spec => []AllottedGetsThrough
  <1>1. GetsThroughInv => AllottedGetsThrough
    BY DEF GetsThroughInv, AllottedGetsThrough
  <1>. QED
    BY <1>1, GetsThroughInit, GetsThroughNext, PTL DEF Spec
=============================================================================
