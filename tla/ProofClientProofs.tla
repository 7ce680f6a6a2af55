------------------------- MODULE ProofClientProofs -------------------------
(***************************************************************************)
(* The Merkle proofs, for blocks of any length: which indexes verify, that *)
(* a transaction comes with a proof of its own, and that a proof fits no   *)
(* other place.  The tree and the way up it are recursive functions; what  *)
(* holds of all their values follows from the least one of which it would  *)
(* not (LeastNat).                                                         *)
(***************************************************************************)
EXTENDS ProofClient, DataLemmas

-----------------------------------------------------------------------------
(* The layers of the tree.                                                 *)

LEMMA LenOf ==
  ASSUME NEW n \in Nat, NEW f, f = [i \in 1 .. n |-> f[i]]
  PROVE  Len(f) = n
<1> DEFINE S == {f[i] : i \in 1 .. n}
<1>1. f \in [1 .. n -> S]
  OBVIOUS
<1>2. f \in Seq(S)
  BY <1>1
<1>3. Len(f) \in Nat /\ DOMAIN f = 1 .. Len(f) /\ DOMAIN f = 1 .. n
  BY <1>1, <1>2
<1> QED
  BY <1>3

Leaves(s) == [i \in 1 .. Len(s) |-> Digest(s[i])]

(* l[k] is the layer k levels above the leaves, up to level n.             *)
Layers(l, s, n) == l = [k \in 0 .. n |-> IF k = 0 THEN Leaves(s) ELSE Parents(l[k - 1])]

LEMMA LayersExist ==
  ASSUME NEW s, NEW n \in Nat
  PROVE  \E l : Layers(l, s, n)
<1> DEFINE Bad == {m \in Nat : ~ \E l : Layers(l, s, m)}
<1>1. SUFFICES ASSUME Bad # {} PROVE FALSE
  OBVIOUS
<1>2. PICK m \in Bad : \A y \in Bad : m <= y
  <2>1. Bad \in SUBSET Nat
    OBVIOUS
  <2> HIDE DEF Bad
  <2> QED
    BY <1>1, <2>1, LeastNat
<1>3. m \in Nat /\ ~ \E l : Layers(l, s, m)
  OBVIOUS
<1>4. CASE m = 0
  <2>1. Layers([k \in 0 .. 0 |-> Leaves(s)], s, 0)
    BY DEF Layers
  <2> QED
    BY <1>3, <1>4, <2>1
<1>5. CASE m # 0
  <2>1. m - 1 \in Nat /\ ~(m - 1 >= m)
    BY <1>3, <1>5
  <2>2. PICK l : Layers(l, s, m - 1)
    BY <1>2, <1>3, <2>1
  <2> DEFINE top == Parents(l[m - 1])
             g == [k \in 0 .. m |-> IF k = m THEN top ELSE l[k]]
  <2>4. ASSUME NEW k \in 0 .. m
        PROVE  g[k] = IF k = 0 THEN Leaves(s) ELSE Parents(g[k - 1])
    <3>1. CASE k = m
      <4>1. g[k] = top /\ g[k - 1] = l[m - 1] /\ k # 0
        <5> HIDE DEF top
        <5> QED
          BY <1>3, <1>5, <2>1, <3>1
      <4> QED
        BY <3>1, <4>1
    <3>2. CASE k # m
      <4>1. k \in 0 .. m - 1 /\ g[k] = l[k] /\ (k # 0 => g[k - 1] = l[k - 1])
        <5> HIDE DEF top
        <5> QED
          BY <1>3, <3>2
      <4>2. l[k] = IF k = 0 THEN Leaves(s) ELSE Parents(l[k - 1])
        BY <2>2, <4>1 DEF Layers
      <4> HIDE DEF g
      <4> QED
        BY <4>1, <4>2
    <3> QED
      BY <3>1, <3>2
  <2>5. g = [k \in 0 .. m |-> g[k]]
    OBVIOUS
  <2> HIDE DEF g
  <2>6. Layers(g, s, m)
    BY <2>4, <2>5 DEF Layers
  <2> QED
    BY <1>3, <2>6
<1> QED
  BY <1>4, <1>5

(* A layer is a sequence.                                                  *)
IsLayer(f) == Len(f) \in Nat /\ f = [i \in 1 .. Len(f) |-> f[i]]

LEMMA LeavesLayer ==
  ASSUME NEW s, Len(s) \in Nat
  PROVE  IsLayer(Leaves(s)) /\ Len(Leaves(s)) = Len(s)
<1> DEFINE f == Leaves(s)
<1>1. f = [i \in 1 .. Len(s) |-> f[i]]
  BY DEF Leaves
<1> HIDE DEF f
<1>2. Len(f) = Len(s)
  BY <1>1, LenOf
<1> QED
  BY <1>1, <1>2 DEF IsLayer, f

LEMMA ParentsLayer ==
  ASSUME NEW f, IsLayer(f)
  PROVE  IsLayer(Parents(f)) /\ Len(Parents(f)) = (Len(f) + 1) \div 2
<1> DEFINE g == Parents(f)
           n == (Len(f) + 1) \div 2
<1>1. n \in Nat
  BY DEF IsLayer
<1>2. g = [i \in 1 .. n |-> g[i]]
  BY DEF Parents
<1> HIDE DEF g, n
<1>3. Len(g) = n
  BY <1>1, <1>2, LenOf
<1> QED
  BY <1>1, <1>2, <1>3 DEF IsLayer, g, n

(* Layers shrink to one digest, in no more steps than there are leaves.    *)
LEMMA LayersShrink ==
  ASSUME NEW s, Len(s) \in Nat, NEW l, NEW n \in Nat, Layers(l, s, n), NEW k \in 0 .. n
  PROVE  /\ IsLayer(l[k])
         /\ Len(l[k]) <= 1 \/ Len(l[k]) <= Len(s) - k
         /\ Len(s) # 0 <=> Len(l[k]) # 0
<1> DEFINE P(j) == /\ IsLayer(l[j])
                   /\ Len(l[j]) <= 1 \/ Len(l[j]) <= Len(s) - j
                   /\ Len(s) # 0 <=> Len(l[j]) # 0
           Bad == {j \in 0 .. n : ~P(j)}
<1>1. SUFFICES ASSUME Bad # {} PROVE FALSE
  OBVIOUS
<1>2. PICK j \in Bad : \A y \in Bad : j <= y
  <2>1. Bad \in SUBSET Nat
    OBVIOUS
  <2> HIDE DEF Bad
  <2> QED
    BY <1>1, <2>1, LeastNat
<1>3. j \in 0 .. n /\ ~P(j)
  OBVIOUS
<1>4. l[j] = IF j = 0 THEN Leaves(s) ELSE Parents(l[j - 1])
  BY <1>3 DEF Layers
<1>5. CASE j = 0
  <2>1. IsLayer(l[j]) /\ Len(l[j]) = Len(s)
    BY <1>4, <1>5, LeavesLayer
  <2> QED
    BY <1>3, <1>5, <2>1
<1>6. CASE j # 0
  <2>1. j - 1 \in 0 .. n /\ ~(j <= j - 1)
    BY <1>3, <1>6
  <2>2. P(j - 1)
    BY <1>2, <2>1
  <2>3. IsLayer(l[j]) /\ Len(l[j]) = (Len(l[j - 1]) + 1) \div 2
    BY <1>4, <1>6, <2>2, ParentsLayer
  <2> DEFINE a == Len(l[j - 1])
             b == Len(l[j])
  <2>4. a \in Nat /\ b = (a + 1) \div 2
    BY <2>2, <2>3 DEF IsLayer
  <2>5. (a <= 1 \/ a <= Len(s) - (j - 1)) /\ (Len(s) # 0 <=> a # 0)
    BY <2>2
  <2> HIDE DEF a, b
  <2>6. (b <= 1 \/ b <= Len(s) - j) /\ (Len(s) # 0 <=> b # 0)
    BY <1>3, <2>4, <2>5
  <2> QED
    BY <1>3, <2>3, <2>6 DEF b
<1> QED
  BY <1>5, <1>6

(* A tree is its layers up to the one of at most one digest.               *)
TreeOf(tree, s, l, h) ==
  /\ Layers(l, s, Len(s)) /\ h \in 0 .. Len(s) /\ Len(l[h]) <= 1
  /\ tree.leaves = Leaves(s)
  /\ Len(tree.layers) = h + 1 /\ \A k \in 0 .. h : tree.layers[k + 1] = l[k]
  /\ tree.root = IF s = <<>> THEN ZeroDigest ELSE l[h][1]

LEMMA TreeMade ==
  ASSUME NEW s, Len(s) \in Nat
  PROVE  \E l, h : TreeOf(MerkleTree(s), s, l, h)
<1> DEFINE l == CHOOSE q : Layers(q, s, Len(s))
           Low == {k \in 0 .. Len(s) : Len(l[k]) <= 1}
           h == Min(Low)
           layers == [k \in 1 .. h + 1 |-> l[k - 1]]
           tree == MerkleTree(s)
<1>1. Layers(l, s, Len(s))
  BY LayersExist
<1>2. /\ tree.leaves = l[0]
      /\ tree.layers = layers
      /\ tree.root = IF s = <<>> THEN ZeroDigest ELSE l[h][1]
  BY DEF MerkleTree, Layers, Leaves
<1> HIDE DEF l, tree
<1>3. h \in Low
  <2>1. Len(s) \in Low
    <3>1. Len(s) \in 0 .. Len(s)
      OBVIOUS
    <3>2. IsLayer(l[Len(s)]) /\ (Len(l[Len(s)]) <= 1 \/ Len(l[Len(s)]) <= Len(s) - Len(s))
      BY <1>1, <3>1, LayersShrink
    <3> QED
      BY <3>1, <3>2 DEF IsLayer
  <2>2. Low \in SUBSET Nat /\ Low # {}
    BY <2>1
  <2> HIDE DEF Low
  <2> QED
    BY <2>2, MinOfNats
<1>4. h \in 0 .. Len(s) /\ Len(l[h]) <= 1
  BY <1>3
<1> HIDE DEF h
<1>5. Len(layers) = h + 1 /\ \A k \in 0 .. h : layers[k + 1] = l[k]
  <2>1. h + 1 \in Nat /\ layers = [k \in 1 .. h + 1 |-> layers[k]]
    BY <1>4
  <2>2. \A k \in 0 .. h : layers[k + 1] = l[k]
    BY <1>4
  <2> HIDE DEF layers
  <2> QED
    BY <2>1, <2>2, LenOf
<1>6. l[0] = Leaves(s)
  BY <1>1 DEF Layers
<1> HIDE DEF layers
<1> QED
  BY <1>1, <1>2, <1>4, <1>5, <1>6 DEF TreeOf, tree

-----------------------------------------------------------------------------
(* The way up.                                                             *)

(* at[k] is the hash and the index after k steps up.                       *)
Climbs(at, leaf, proof, index, n) ==
  at = [k \in 0 .. n |->
          IF k = 0 THEN [hash |-> leaf, idx |-> index] ELSE Up(at[k - 1], proof[k])]

LEMMA ClimbExists ==
  ASSUME NEW leaf, NEW proof, NEW index, NEW n \in Nat
  PROVE  \E at : Climbs(at, leaf, proof, index, n)
<1> DEFINE Bad == {m \in Nat : ~ \E at : Climbs(at, leaf, proof, index, m)}
           start == [hash |-> leaf, idx |-> index]
<1>1. SUFFICES ASSUME Bad # {} PROVE FALSE
  OBVIOUS
<1>2. PICK m \in Bad : \A y \in Bad : m <= y
  <2>1. Bad \in SUBSET Nat
    OBVIOUS
  <2> HIDE DEF Bad
  <2> QED
    BY <1>1, <2>1, LeastNat
<1>3. m \in Nat /\ ~ \E at : Climbs(at, leaf, proof, index, m)
  OBVIOUS
<1>4. CASE m = 0
  <2>1. Climbs([k \in 0 .. 0 |-> start], leaf, proof, index, 0)
    BY DEF Climbs
  <2> QED
    BY <1>3, <1>4, <2>1
<1>5. CASE m # 0
  <2>1. m - 1 \in Nat /\ ~(m - 1 >= m)
    BY <1>3, <1>5
  <2>2. PICK at : Climbs(at, leaf, proof, index, m - 1)
    BY <1>2, <1>3, <2>1
  <2> DEFINE last == Up(at[m - 1], proof[m])
             g == [k \in 0 .. m |-> IF k = m THEN last ELSE at[k]]
  <2> HIDE DEF start
  <2>3. ASSUME NEW k \in 0 .. m
        PROVE  g[k] = IF k = 0 THEN start ELSE Up(g[k - 1], proof[k])
    <3>1. CASE k = m
      <4>1. g[k] = last /\ g[k - 1] = at[m - 1] /\ k # 0
        <5> HIDE DEF last
        <5> QED
          BY <1>3, <1>5, <2>1, <3>1
      <4> HIDE DEF g
      <4> QED
        BY <3>1, <4>1
    <3>2. CASE k # m
      <4>1. k \in 0 .. m - 1 /\ g[k] = at[k] /\ (k # 0 => g[k - 1] = at[k - 1])
        <5> HIDE DEF last
        <5> QED
          BY <1>3, <3>2
      <4>2. at[k] = IF k = 0 THEN start ELSE Up(at[k - 1], proof[k])
        BY <2>2, <4>1 DEF Climbs, start
      <4> HIDE DEF g
      <4> QED
        BY <4>1, <4>2
    <3> QED
      BY <3>1, <3>2
  <2>4. g = [k \in 0 .. m |-> g[k]]
    OBVIOUS
  <2> HIDE DEF g
  <2>5. Climbs(g, leaf, proof, index, m)
    BY <2>3, <2>4 DEF Climbs, start
  <2> QED
    BY <1>3, <2>5
<1> QED
  BY <1>4, <1>5

LEMMA VerifyClimbs ==
  ASSUME NEW root, NEW leaf, NEW proof, NEW index, Len(proof) \in Nat
  PROVE  \E at : /\ Climbs(at, leaf, proof, index, Len(proof))
                 /\ Verify(root, leaf, proof, index) <=> at[Len(proof)].hash = root
<1> DEFINE at == CHOOSE q : Climbs(q, leaf, proof, index, Len(proof))
<1>1. Climbs(at, leaf, proof, index, Len(proof))
  BY ClimbExists
<1>2. Verify(root, leaf, proof, index) <=> at[Len(proof)].hash = root
  BY DEF Verify, Climbs
<1> HIDE DEF at
<1> QED
  BY <1>1, <1>2

(* One step up from position i of a layer.  Only the hash of that position *)
(* becomes the one above it, and with the right sibling it does.           *)
StepsUp(f, i, at, sibling) ==
  /\ Up(at, sibling).idx = i \div 2
  /\ i \div 2 \in 0 .. Len(Parents(f)) - 1
  /\ at.hash # f[i + 1] => Up(at, sibling).hash # Parents(f)[(i \div 2) + 1]
  /\ at.hash = f[i + 1] /\ sibling = Sibling(f, i) =>
       Up(at, sibling).hash = Parents(f)[(i \div 2) + 1]

(* Up climbs so.                                                           *)
LEMMA StepUp ==
  ASSUME NEW f, IsLayer(f), NEW i \in 0 .. Len(f) - 1, NEW at, at.idx = i, NEW sibling
  PROVE  StepsUp(f, i, at, sibling)
<1> DEFINE n == Len(f)
           k == (i \div 2) + 1
           right == IF 2 * k > n THEN 2 * k - 1 ELSE 2 * k
<1>1. n \in Nat /\ i \in 0 .. n - 1
  BY DEF IsLayer
<1>2. Len(Parents(f)) = (n + 1) \div 2
  BY ParentsLayer
<1>3. k \in 1 .. (n + 1) \div 2
  <2> HIDE DEF n
  <2> QED
    BY <1>1
<1>4. Parents(f)[k] = HashPair(f[2 * k - 1], f[right])
  <2> HIDE DEF k
  <2> QED
    BY <1>3 DEF Parents
<1>5. CASE i % 2 = 0
  <2>1. i + 1 = 2 * k - 1
    BY <1>5
  <2>2. Sibling(f, i) = f[right]
    <3>1. CASE i + 1 < n
      <4>1. right = i + 2 /\ i % 2 # 1
        <5> HIDE DEF n
        <5> QED
          BY <1>1, <1>5, <3>1
      <4> QED
        BY <3>1, <4>1 DEF Sibling
    <3>2. CASE ~(i + 1 < n)
      <4>1. right = i + 1 /\ i % 2 # 1
        <5> HIDE DEF n
        <5> QED
          BY <1>1, <1>5, <3>2
      <4> QED
        BY <3>2, <4>1 DEF Sibling
    <3> QED
      BY <3>1, <3>2
  <2>3. Up(at, sibling).hash = HashPair(at.hash, sibling) /\ Up(at, sibling).idx = i \div 2
    BY <1>5 DEF Up
  <2> HIDE DEF k, right, n
  <2>4. Up(at, sibling).hash = Parents(f)[k] <=> at.hash = f[i + 1] /\ sibling = f[right]
    BY <1>4, <2>1, <2>3 DEF HashPair
  <2> QED
    BY <1>2, <1>3, <2>2, <2>3, <2>4 DEF k, n, StepsUp
<1>6. CASE i % 2 # 0
  <2>1. i % 2 = 1 /\ i + 1 = 2 * k /\ i = 2 * k - 1
    BY <1>6
  <2>2. right = i + 1
    <3> HIDE DEF n, k
    <3> QED
      BY <1>1, <2>1
  <2>3. Sibling(f, i) = f[2 * k - 1]
    BY <2>1 DEF Sibling
  <2>4. Up(at, sibling).hash = HashPair(sibling, at.hash) /\ Up(at, sibling).idx = i \div 2
    BY <1>6 DEF Up
  <2> HIDE DEF k, right, n
  <2>5. Up(at, sibling).hash = Parents(f)[k] <=> at.hash = f[i + 1] /\ sibling = f[2 * k - 1]
    BY <1>4, <2>2, <2>4 DEF HashPair
  <2> QED
    BY <1>2, <1>3, <2>3, <2>4, <2>5 DEF k, n, StepsUp
<1> QED
  BY <1>5, <1>6

(* Going up stays on the path to the root.                                 *)
LEMMA ClimbFollows ==
  ASSUME NEW s, Len(s) \in Nat, NEW l, NEW n \in Nat, Layers(l, s, n), NEW h \in 0 .. n,
         NEW at, NEW leaf, NEW proof, NEW index \in 0 .. Len(s) - 1,
         Climbs(at, leaf, proof, index, h), NEW k \in 0 .. h
  PROVE  /\ at[k].idx \in 0 .. Len(l[k]) - 1
         /\ leaf # Leaves(s)[index + 1] => at[k].hash # l[k][at[k].idx + 1]
         /\ /\ leaf = Leaves(s)[index + 1]
            /\ \A m \in 1 .. h : proof[m] = Sibling(l[m - 1], at[m - 1].idx)
            => at[k].hash = l[k][at[k].idx + 1]
<1> DEFINE Right == \A m \in 1 .. h : proof[m] = Sibling(l[m - 1], at[m - 1].idx)
           P(j) == /\ at[j].idx \in 0 .. Len(l[j]) - 1
                   /\ leaf # Leaves(s)[index + 1] => at[j].hash # l[j][at[j].idx + 1]
                   /\ leaf = Leaves(s)[index + 1] /\ Right => at[j].hash = l[j][at[j].idx + 1]
           Bad == {j \in 0 .. h : ~P(j)}
<1>1. SUFFICES ASSUME Bad # {} PROVE FALSE
  OBVIOUS
<1>2. PICK j \in Bad : \A y \in Bad : j <= y
  <2>1. Bad \in SUBSET Nat
    OBVIOUS
  <2> HIDE DEF Bad
  <2> QED
    BY <1>1, <2>1, LeastNat
<1>3. j \in 0 .. h /\ j \in 0 .. n /\ ~P(j)
  OBVIOUS
<1>4. /\ l[j] = IF j = 0 THEN Leaves(s) ELSE Parents(l[j - 1])
      /\ at[j] = IF j = 0 THEN [hash |-> leaf, idx |-> index] ELSE Up(at[j - 1], proof[j])
  BY <1>3 DEF Layers, Climbs
<1>5. CASE j = 0
  <2>1. Len(l[0]) = Len(s) /\ l[0] = Leaves(s) /\ at[0].hash = leaf /\ at[0].idx = index
    BY <1>4, <1>5, LeavesLayer
  <2> QED
    BY <1>3, <1>5, <2>1
<1>6. CASE j # 0
  <2>1. j - 1 \in 0 .. h /\ j - 1 \in 0 .. n /\ ~(j <= j - 1) /\ j \in 1 .. h
    BY <1>3, <1>6
  <2>2. P(j - 1)
    BY <1>2, <2>1
  <2> DEFINE i == at[j - 1].idx
             f == l[j - 1]
             last == at[j - 1]
             sibling == proof[j]
  <2>3. i \in 0 .. Len(f) - 1 /\ last.idx = i
    BY <2>2
  <2>4. IsLayer(f)
    BY <2>1, LayersShrink
  <2>5. l[j] = Parents(f) /\ at[j] = Up(last, sibling)
    BY <1>4, <1>6
  <2>6. Right => sibling = Sibling(f, i)
    BY <2>1
  <2>7. /\ leaf # Leaves(s)[index + 1] => last.hash # f[i + 1]
        /\ leaf = Leaves(s)[index + 1] /\ Right => last.hash = f[i + 1]
    BY <2>2
  <2> HIDE DEF i, f, last, sibling, Right, P, Bad
  <2>8. /\ Up(last, sibling).idx = i \div 2
        /\ i \div 2 \in 0 .. Len(Parents(f)) - 1
        /\ last.hash # f[i + 1] => Up(last, sibling).hash # Parents(f)[(i \div 2) + 1]
        /\ last.hash = f[i + 1] /\ sibling = Sibling(f, i) =>
             Up(last, sibling).hash = Parents(f)[(i \div 2) + 1]
    <3>1. StepsUp(f, i, last, sibling)
      BY <2>3, <2>4, StepUp, Zenon
    <3> QED
      BY <3>1 DEF StepsUp
  <2>9. P(j)
    BY <2>5, <2>6, <2>7, <2>8 DEF P, i, f, last, sibling
  <2> QED
    BY <1>3, <2>9
<1> QED
  BY <1>5, <1>6

-----------------------------------------------------------------------------
(* The proof the node makes.                                               *)

Halves(idx, index, n) == idx = [k \in 0 .. n |-> IF k = 0 THEN index ELSE idx[k - 1] \div 2]

LEMMA HalvesExist ==
  ASSUME NEW index, NEW n \in Nat
  PROVE  \E idx : Halves(idx, index, n)
<1> DEFINE Bad == {m \in Nat : ~ \E idx : Halves(idx, index, m)}
<1>1. SUFFICES ASSUME Bad # {} PROVE FALSE
  OBVIOUS
<1>2. PICK m \in Bad : \A y \in Bad : m <= y
  <2>1. Bad \in SUBSET Nat
    OBVIOUS
  <2> HIDE DEF Bad
  <2> QED
    BY <1>1, <2>1, LeastNat
<1>3. m \in Nat /\ ~ \E idx : Halves(idx, index, m)
  OBVIOUS
<1>4. CASE m = 0
  <2>1. Halves([k \in 0 .. 0 |-> index], index, 0)
    BY DEF Halves
  <2> QED
    BY <1>3, <1>4, <2>1
<1>5. CASE m # 0
  <2>1. m - 1 \in Nat /\ ~(m - 1 >= m)
    BY <1>3, <1>5
  <2>2. PICK idx : Halves(idx, index, m - 1)
    BY <1>2, <1>3, <2>1
  <2> DEFINE last == idx[m - 1] \div 2
             g == [k \in 0 .. m |-> IF k = m THEN last ELSE idx[k]]
  <2>3. ASSUME NEW k \in 0 .. m
        PROVE  g[k] = IF k = 0 THEN index ELSE g[k - 1] \div 2
    <3>1. CASE k = m
      <4>1. g[k] = last /\ g[k - 1] = idx[m - 1] /\ k # 0
        <5> HIDE DEF last
        <5> QED
          BY <1>3, <1>5, <2>1, <3>1
      <4> HIDE DEF g
      <4> QED
        BY <3>1, <4>1
    <3>2. CASE k # m
      <4>1. k \in 0 .. m - 1 /\ g[k] = idx[k] /\ (k # 0 => g[k - 1] = idx[k - 1])
        <5> HIDE DEF last
        <5> QED
          BY <1>3, <3>2
      <4>2. idx[k] = IF k = 0 THEN index ELSE idx[k - 1] \div 2
        BY <2>2, <4>1 DEF Halves
      <4> HIDE DEF g
      <4> QED
        BY <4>1, <4>2
    <3> QED
      BY <3>1, <3>2
  <2>4. g = [k \in 0 .. m |-> g[k]]
    OBVIOUS
  <2> HIDE DEF g
  <2>5. Halves(g, index, m)
    BY <2>3, <2>4 DEF Halves
  <2> QED
    BY <1>3, <2>5
<1> QED
  BY <1>4, <1>5

(* A sibling from each layer, next to the index halved so often.           *)
LEMMA ProofMade ==
  ASSUME NEW s, Len(s) \in Nat, NEW tree, NEW l, NEW h, TreeOf(tree, s, l, h),
         NEW index \in 0 .. Len(s) - 1
  PROVE  /\ Len(Prove(tree, index)) = h
         /\ \E idx : /\ Halves(idx, index, h)
                     /\ \A k \in 1 .. h : Prove(tree, index)[k] = Sibling(l[k - 1], idx[k - 1])
<1> DEFINE idx == CHOOSE q : Halves(q, index, Len(tree.layers) - 1)
           proof == Prove(tree, index)
<1>1. h \in Nat /\ Len(tree.layers) - 1 = h /\ Len(tree.leaves) = Len(s)
  BY LeavesLayer DEF TreeOf
<1>2. Halves(idx, index, h)
  BY <1>1, HalvesExist
<1>3. proof = [k \in 1 .. h |-> Sibling(tree.layers[k], idx[k - 1])]
  <2>1. ~(index >= Len(tree.leaves))
    BY <1>1
  <2>2. proof = [k \in 1 .. Len(tree.layers) - 1 |-> Sibling(tree.layers[k], idx[k - 1])]
    BY <2>1 DEF Prove, Halves
  <2> QED
    BY <1>1, <2>2
<1>4. ASSUME NEW k \in 1 .. h
      PROVE  tree.layers[k] = l[k - 1]
  <2>1. k - 1 \in 0 .. h /\ (k - 1) + 1 = k
    BY <1>1
  <2>2. tree.layers[(k - 1) + 1] = l[k - 1]
    BY <2>1 DEF TreeOf
  <2> QED
    BY <2>1, <2>2
<1> HIDE DEF idx, proof
<1>5. Len(proof) = h
  BY <1>1, <1>3, LenOf
<1>6. \A k \in 1 .. h : proof[k] = Sibling(l[k - 1], idx[k - 1])
  BY <1>3, <1>4
<1> QED
  BY <1>2, <1>5, <1>6 DEF proof

(* The index goes up as it does in the proof.                              *)
LEMMA SameHalves ==
  ASSUME NEW h \in Nat, NEW idx, NEW at, NEW leaf, NEW proof, NEW index,
         Halves(idx, index, h), Climbs(at, leaf, proof, index, h), NEW k \in 0 .. h
  PROVE  at[k].idx = idx[k]
<1> DEFINE Bad == {j \in 0 .. h : at[j].idx # idx[j]}
<1>1. SUFFICES ASSUME Bad # {} PROVE FALSE
  OBVIOUS
<1>2. PICK j \in Bad : \A y \in Bad : j <= y
  <2>1. Bad \in SUBSET Nat
    OBVIOUS
  <2> HIDE DEF Bad
  <2> QED
    BY <1>1, <2>1, LeastNat
<1>3. j \in 0 .. h /\ at[j].idx # idx[j]
  OBVIOUS
<1>4. /\ idx[j] = IF j = 0 THEN index ELSE idx[j - 1] \div 2
      /\ at[j] = IF j = 0 THEN [hash |-> leaf, idx |-> index] ELSE Up(at[j - 1], proof[j])
  BY <1>3 DEF Halves, Climbs
<1>5. CASE j = 0
  BY <1>3, <1>4, <1>5
<1>6. CASE j # 0
  <2>1. j - 1 \in 0 .. h /\ ~(j <= j - 1)
    BY <1>3, <1>6
  <2>2. at[j - 1].idx = idx[j - 1]
    BY <1>2, <2>1
  <2>3. at[j].idx = at[j - 1].idx \div 2
    BY <1>4, <1>6 DEF Up
  <2> QED
    BY <1>3, <1>4, <1>6, <2>2, <2>3
<1> QED
  BY <1>5, <1>6

-----------------------------------------------------------------------------
(* What verifies.                                                          *)

LEMMA OwnProofVerifies ==
  ASSUME NEW s, Len(s) \in Nat, NEW index \in 0 .. Len(s) - 1
  PROVE  LET tree == MerkleTree(s)
         IN  /\ LeafAt(tree, index) = Digest(s[index + 1])
             /\ Verify(tree.root, Digest(s[index + 1]), Prove(tree, index), index)
<1> DEFINE tree == MerkleTree(s)
           leaf == Digest(s[index + 1])
           proof == Prove(tree, index)
<1>1. PICK l, h : TreeOf(tree, s, l, h)
  BY TreeMade
<1> HIDE DEF tree
<1>2. /\ h \in Nat /\ h \in 0 .. Len(s) /\ Layers(l, s, Len(s)) /\ tree.leaves = Leaves(s)
      /\ s # <<>> /\ tree.root = l[h][1] /\ Len(l[h]) <= 1
  BY <1>1 DEF TreeOf
<1>3. leaf = Leaves(s)[index + 1] /\ index + 1 \in 1 .. Len(s) /\ Len(tree.leaves) = Len(s)
  BY <1>2, LeavesLayer DEF Leaves
<1>4. LeafAt(tree, index) = leaf
  BY <1>2, <1>3 DEF LeafAt
<1>5. Len(proof) = h
  BY <1>1, ProofMade
<1>6. PICK idx : /\ Halves(idx, index, h)
                 /\ \A k \in 1 .. h : proof[k] = Sibling(l[k - 1], idx[k - 1])
  BY <1>1, ProofMade
<1> HIDE DEF leaf, proof
<1>7. PICK at : /\ Climbs(at, leaf, proof, index, h)
                /\ Verify(tree.root, leaf, proof, index) <=> at[h].hash = tree.root
  BY <1>2, <1>5, VerifyClimbs
<1>8. \A m \in 1 .. h : proof[m] = Sibling(l[m - 1], at[m - 1].idx)
  <2> SUFFICES ASSUME NEW m \in 1 .. h
               PROVE  proof[m] = Sibling(l[m - 1], at[m - 1].idx)
    OBVIOUS
  <2>1. m - 1 \in 0 .. h
    BY <1>2
  <2>2. at[m - 1].idx = idx[m - 1]
    BY <1>2, <1>6, <1>7, <2>1, SameHalves
  <2> QED
    BY <1>6, <2>2
<1>9. at[h].idx \in 0 .. Len(l[h]) - 1 /\ at[h].hash = l[h][at[h].idx + 1]
  <2>1. h \in 0 .. h
    BY <1>2
  <2> QED
    BY <1>2, <1>3, <1>7, <1>8, <2>1, ClimbFollows
<1>10. at[h].idx = 0
  <2>1. Len(l[h]) \in Nat
    BY <1>2, LayersShrink DEF IsLayer
  <2> QED
    BY <1>2, <1>9, <2>1
<1> QED
  BY <1>2, <1>4, <1>7, <1>9, <1>10 DEF tree, leaf, proof

(* From another leaf than that of index no proof of the block leads to the *)
(* root: two pairs of digests are equal only if their parts are.           *)
LEMMA OtherLeafFails ==
  ASSUME NEW s, Len(s) \in Nat, NEW index \in 0 .. Len(s) - 1, NEW k \in 0 .. Len(s) - 1,
         NEW leaf, leaf # Digest(s[index + 1])
  PROVE  ~Verify(MerkleTree(s).root, leaf, Prove(MerkleTree(s), k), index)
<1> DEFINE tree == MerkleTree(s)
           proof == Prove(tree, k)
<1>1. PICK l, h : TreeOf(tree, s, l, h)
  BY TreeMade
<1> HIDE DEF tree
<1>2. /\ h \in Nat /\ h \in 0 .. Len(s) /\ Layers(l, s, Len(s))
      /\ s # <<>> /\ tree.root = l[h][1] /\ Len(l[h]) <= 1
  BY <1>1 DEF TreeOf
<1>3. leaf # Leaves(s)[index + 1]
  <2>1. index + 1 \in 1 .. Len(s)
    OBVIOUS
  <2> QED
    BY <2>1 DEF Leaves
<1>5. Len(proof) = h
  BY <1>1, ProofMade
<1> HIDE DEF proof
<1>7. PICK at : /\ Climbs(at, leaf, proof, index, h)
                /\ Verify(tree.root, leaf, proof, index) <=> at[h].hash = tree.root
  BY <1>2, <1>5, VerifyClimbs
<1>9. at[h].idx \in 0 .. Len(l[h]) - 1 /\ at[h].hash # l[h][at[h].idx + 1]
  <2>1. h \in 0 .. h
    BY <1>2
  <2> QED
    BY <1>2, <1>3, <1>7, <2>1, ClimbFollows
<1>10. at[h].idx = 0
  <2>1. Len(l[h]) \in Nat
    BY <1>2, LayersShrink DEF IsLayer
  <2> QED
    BY <1>2, <1>9, <2>1
<1> QED
  BY <1>2, <1>7, <1>9, <1>10 DEF tree, proof

(* Beyond the block the zero leaf is the root of the empty block only.     *)
LEMMA OutsideFails ==
  ASSUME NEW T, NEW s \in Seq(T), NEW index \in Nat, index >= Len(s)
  PROVE  LET tree == MerkleTree(s)
         IN  Verify(tree.root, LeafAt(tree, index), Prove(tree, index), index) <=> s = <<>>
<1> DEFINE tree == MerkleTree(s)
<1>0. Len(s) \in Nat /\ (s = <<>> <=> Len(s) = 0)
  OBVIOUS
<1>1. PICK l, h : TreeOf(tree, s, l, h)
  BY <1>0, TreeMade
<1> HIDE DEF tree
<1>2. /\ h \in Nat /\ h \in 0 .. Len(s) /\ Layers(l, s, Len(s)) /\ Len(l[h]) <= 1
      /\ Len(tree.leaves) = Len(s)
      /\ tree.root = IF s = <<>> THEN ZeroDigest ELSE l[h][1]
  BY <1>0, <1>1, LeavesLayer DEF TreeOf
<1>3. LeafAt(tree, index) = <<>> /\ Prove(tree, index) = <<>>
  BY <1>0, <1>2 DEF LeafAt, Prove, ZeroDigest
<1>4. Verify(tree.root, <<>>, <<>>, index) <=> tree.root = <<>>
  <2> DEFINE none == <<>>
  <2>1. Len(none) = 0
    OBVIOUS
  <2> HIDE DEF none
  <2>2. PICK at : /\ Climbs(at, none, none, index, 0)
                  /\ Verify(tree.root, none, none, index) <=> at[0].hash = tree.root
    BY <2>1, VerifyClimbs
  <2>3. at[0].hash = none
    BY <2>2 DEF Climbs
  <2> QED
    BY <2>2, <2>3 DEF none
<1>5. s # <<>> => l[h][1] # <<>>
  <2> SUFFICES ASSUME s # <<>> PROVE l[h][1] # <<>>
    OBVIOUS
  <2>1. IsLayer(l[h]) /\ Len(l[h]) # 0
    BY <1>0, <1>2, LayersShrink
  <2>2. Len(l[h]) = 1
    <3> DEFINE n == Len(l[h])
    <3>1. n \in Nat /\ n # 0 /\ n <= 1
      BY <1>2, <2>1 DEF IsLayer
    <3> HIDE DEF n
    <3>2. n = 1
      BY <3>1
    <3> QED
      BY <3>2 DEF n
  <2>3. l[h] = IF h = 0 THEN Leaves(s) ELSE Parents(l[h - 1])
    BY <1>2 DEF Layers
  <2>4. CASE h = 0
    <3>1. l[h][1] = <<s[1]>>
      BY <1>0, <2>3, <2>4 DEF Leaves, Digest
    <3> QED
      BY <3>1
  <2>5. CASE h # 0
    <3>1. h - 1 \in 0 .. Len(s)
      BY <1>2, <2>5
    <3>2. IsLayer(l[h - 1])
      BY <1>0, <1>2, <3>1, LayersShrink
    <3>3. 1 = (Len(l[h - 1]) + 1) \div 2
      BY <2>2, <2>3, <2>5, <3>2, ParentsLayer
    <3>4. 1 \in 1 .. (Len(l[h - 1]) + 1) \div 2
      <4> DEFINE m == (Len(l[h - 1]) + 1) \div 2
      <4>1. 1 = m
        BY <3>3
      <4> HIDE DEF m
      <4>2. 1 \in 1 .. m
        BY <4>1
      <4> QED
        BY <4>2 DEF m
    <3>5. \E a, b : l[h][1] = <<a, b>>
      BY <2>3, <2>5, <3>4 DEF Parents, HashPair
    <3> QED
      BY <3>5
  <2> QED
    BY <2>4, <2>5
<1> QED
  BY <1>2, <1>3, <1>4, <1>5 DEF tree, ZeroDigest

-----------------------------------------------------------------------------
(* The transactions the node can deserialize.                              *)

(* None is found that the block has not, and up to the first the node      *)
(* cannot deserialize they are where the block has them.                   *)
LEMMA ParsedInPlace ==
  ASSUME NEW T, NEW s \in Seq(T)
  PROVE  /\ ParseTransactions(s) \in Seq(T)
         /\ Len(ParseTransactions(s)) <= Len(s)
         /\ \A m \in 1 .. Len(s) : (\A i \in 1 .. m : s[i] \notin Opaque) =>
              m <= Len(ParseTransactions(s)) /\ ParseTransactions(s)[m] = s[m]
<1> DEFINE f == CHOOSE q : Filters(q, s, Opaque, Len(s))
           p == ParseTransactions(s)
           len == Len(s)
<1>1. len \in Nat /\ len \in 0 .. len
  OBVIOUS
<1>2. Filters(f, s, Opaque, len)
  BY <1>1, FilterExists
<1>3. p = f[len]
  BY DEF ParseTransactions, Filters
<1> HIDE DEF f, p
<1>4. ASSUME NEW n \in 0 .. len
      PROVE  f[n] \in Seq(T)
  <2>1. f[n] \in Seq(T \ Opaque)
    BY <1>2, FilterFacts
  <2> QED
    BY <2>1
<1>5. ASSUME NEW m \in 1 .. len, \A i \in 1 .. m : s[i] \notin Opaque
      PROVE  m <= Len(p) /\ p[m] = s[m]
  <2> DEFINE P(n) == /\ n <= m => Len(f[n]) = n
                     /\ n >= m => m <= Len(f[n]) /\ f[n][m] = s[m]
             Bad == {n \in 0 .. len : ~P(n)}
  <2>1. SUFFICES ASSUME Bad # {} PROVE FALSE
    BY <1>1, <1>3
  <2>2. PICK n \in Bad : \A y \in Bad : n <= y
    <3>1. Bad \in SUBSET Nat
      OBVIOUS
    <3> HIDE DEF Bad
    <3> QED
      BY <2>1, <3>1, LeastNat
  <2>3. n \in 0 .. len /\ ~P(n)
    OBVIOUS
  <2>4. f[n] = IF n = 0 THEN <<>>
               ELSE IF s[n] \in Opaque THEN f[n - 1] ELSE Append(f[n - 1], s[n])
    BY <2>3, <1>2 DEF Filters
  <2>5. CASE n = 0
    BY <1>5, <2>3, <2>4, <2>5
  <2>6. CASE n # 0
    <3>1. n - 1 \in 0 .. len /\ ~(n <= n - 1)
      BY <2>3, <2>6
    <3>2. P(n - 1)
      BY <2>2, <3>1
    <3> DEFINE g == f[n - 1]
    <3>3. g \in Seq(T) /\ Len(g) \in Nat
      BY <1>4, <3>1
    <3>4. s[n] \in T
      BY <2>3, <2>6
    <3>5. n <= m => Len(g) = n - 1
      BY <1>5, <2>3, <3>2
    <3>6. n > m => m <= Len(g) /\ g[m] = s[m]
      BY <1>5, <2>3, <3>2
    <3> HIDE DEF g
    <3>7. /\ Len(Append(g, s[n])) = Len(g) + 1
          /\ Append(g, s[n])[Len(g) + 1] = s[n]
          /\ m <= Len(g) => Append(g, s[n])[m] = g[m]
      BY <1>5, <3>3, <3>4
    <3>8. CASE n <= m
      <4>1. s[n] \notin Opaque
        BY <1>5, <2>3, <2>6, <3>8
      <4>2. f[n] = Append(g, s[n])
        BY <2>4, <2>6, <4>1 DEF g
      <4>3. Len(f[n]) = n /\ f[n][n] = s[n]
        BY <2>3, <3>5, <3>7, <3>8, <4>2
      <4> QED
        BY <1>5, <2>3, <3>8, <4>3
    <3>9. CASE n > m
      <4>1. CASE s[n] \in Opaque
        <5>1. f[n] = g
          BY <2>4, <2>6, <4>1 DEF g
        <5> QED
          BY <1>5, <2>3, <3>6, <3>9, <5>1
      <4>2. CASE s[n] \notin Opaque
        <5>1. f[n] = Append(g, s[n])
          BY <2>4, <2>6, <4>2 DEF g
        <5>2. m <= Len(f[n]) /\ f[n][m] = s[m]
          BY <1>5, <3>3, <3>6, <3>7, <3>9, <5>1
        <5> QED
          BY <1>5, <2>3, <3>9, <5>2
      <4> QED
        BY <4>1, <4>2
    <3> QED
      BY <1>5, <2>3, <3>8, <3>9
  <2> QED
    BY <2>5, <2>6
<1>6. Len(p) <= len
  <2>1. /\ IsFiniteSet(LeftOut(s, Opaque, len))
        /\ ShortBy(f, s, Opaque, len)
    BY <1>1, <1>2, FilterFacts
  <2>2. Cardinality(LeftOut(s, Opaque, len)) \in Nat
    BY <2>1, FS_CardinalityType
  <2>3. Len(f[len]) = len - Cardinality(LeftOut(s, Opaque, len))
    BY <2>1 DEF ShortBy
  <2> QED
    BY <1>1, <1>3, <2>2, <2>3
<1> QED
  BY <1>1, <1>3, <1>4, <1>5, <1>6 DEF p

-----------------------------------------------------------------------------
(* The calls.                                                              *)

(* Every answer is what the node makes of the one block there is.          *)
AnswerOfBlock ==
  /\ txs \in Seq(Transactions)
  /\ Answered("proof") => answer.index \in Nat /\ answer.proof = GetProof(txs, answer.index)
  /\ Answered("transaction") =>
       /\ answer.index \in Nat
       /\ LET tx == GetTransactionByIndex(txs, answer.index)
          IN  answer.result = IF tx.found /\ tx.proof.verified THEN tx ELSE Failed
  /\ Answered("block") => answer.result = GetBlockWithProofs(txs)

(* rpc_server.rs:269-420 what a call returns is what the handlers make of  *)
(* the block, whatever was asked before.                                   *)
THEOREM Invariance ==
  Spec => []AnswerOfBlock
<1>1. Init => AnswerOfBlock
  <2> SUFFICES ASSUME Init PROVE AnswerOfBlock
    OBVIOUS
  <2>1. txs \in Seq(Transactions)
    <3>1. PICK n \in 0 .. MaxTxs : txs \in [1 .. n -> Transactions]
      BY DEF Init
    <3>2. n \in Nat
      BY ClientAssumption
    <3> QED
      BY <3>1, <3>2
  <2> QED
    BY <2>1 DEF Init, AnswerOfBlock, Answered
<1>2. AnswerOfBlock /\ [Next]_vars => AnswerOfBlock'
  <2> SUFFICES ASSUME AnswerOfBlock, [Next]_vars PROVE AnswerOfBlock'
    OBVIOUS
  <2>1. ASSUME NEW index \in 0 .. MaxIndex, GetProofAndVerify(index) PROVE AnswerOfBlock'
    <3>1. /\ answer'.call = "proof" /\ answer'.index = index /\ answer'.proof = GetProof(txs, index)
          /\ txs' = txs /\ index \in Nat
      BY <2>1, ClientAssumption DEF GetProofAndVerify
    <3> QED
      BY <3>1 DEF AnswerOfBlock, Answered
  <2>2. ASSUME NEW index \in 0 .. MaxIndex, GetVerifiedTransaction(index) PROVE AnswerOfBlock'
    <3> DEFINE tx == GetTransactionByIndex(txs, index)
    <3>1. /\ answer'.call = "transaction" /\ answer'.index = index
          /\ answer'.result = IF tx.found /\ tx.proof.verified THEN tx ELSE Failed
          /\ txs' = txs /\ index \in Nat
      BY <2>2, ClientAssumption DEF GetVerifiedTransaction
    <3> QED
      BY <3>1 DEF AnswerOfBlock, Answered
  <2>3. CASE FetchBlockWithProofs
    <3>1. answer'.call = "block" /\ answer'.result = GetBlockWithProofs(txs) /\ txs' = txs
      BY <2>3 DEF FetchBlockWithProofs
    <3> QED
      BY <3>1 DEF AnswerOfBlock, Answered
  <2>4. CASE UNCHANGED vars
    BY <2>4 DEF vars, AnswerOfBlock, Answered
  <2> QED
    BY <2>1, <2>2, <2>3, <2>4 DEF Next
<1> QED
  BY <1>1, <1>2, PTL DEF Spec

(* merkle_prover.rs:46-89 for a block of any length and shape of tree,     *)
(* verified is true for exactly its own indexes; of the empty block every  *)
(* index verifies.                                                         *)
THEOREM VerifiedSafe ==
  Spec => []VerifiedExactly
<1>1. AnswerOfBlock => VerifiedExactly
  <2> SUFFICES ASSUME AnswerOfBlock, Answered("proof")
               PROVE  answer.proof.verified <=> answer.index < Len(txs) \/ txs = <<>>
    BY DEF VerifiedExactly
  <2> DEFINE index == answer.index
             tree == MerkleTree(txs)
             good == Verify(tree.root, LeafAt(tree, index), Prove(tree, index), index)
  <2>1. /\ txs \in Seq(Transactions) /\ Len(txs) \in Nat /\ (txs = <<>> => Len(txs) = 0)
        /\ index \in Nat /\ answer.proof = GetProof(txs, index)
    BY DEF AnswerOfBlock
  <2>2. answer.proof.verified <=> good
    BY <2>1 DEF GetProof
  <2>3. CASE index < Len(txs)
    <3>1. index \in 0 .. Len(txs) - 1
      BY <2>1, <2>3
    <3>2. good
      BY <2>1, <3>1, OwnProofVerifies
    <3> QED
      BY <2>2, <2>3, <3>2
  <2>4. CASE index >= Len(txs)
    <3>1. good <=> txs = <<>>
      BY <2>1, <2>4, OutsideFails
    <3>2. ~(index < Len(txs))
      BY <2>1, <2>4
    <3> QED
      BY <2>2, <3>1, <3>2
  <2> QED
    BY <2>1, <2>3, <2>4
<1> QED
  BY <1>1, Invariance, PTL

(* index.ts:186-195 the transaction returned is the one at the index asked *)
(* for with a proof of its own, none in range is withheld, and every leaf  *)
(* of a whole block leads to the root that getProof gives of it: the SDK   *)
(* reads none from the block itself (index.ts:56-57, rpc_server.rs:413).   *)
THEOREM TransactionSafe ==
  Spec => []TransactionProven
<1>1. ASSUME AnswerOfBlock, Answered("transaction"), ~Shifted(answer.index)
      PROVE  IF answer.index < Len(txs)
             THEN /\ answer.result.found
                  /\ answer.result.transaction = txs[answer.index + 1]
                  /\ VerifyMerkleProof(MerkleTree(txs).root, Digest(answer.result.transaction),
                                       answer.result.proof.proof, answer.index)
             ELSE ~answer.result.found
  <2> DEFINE index == answer.index
             tree == MerkleTree(txs)
             tx == GetTransactionByIndex(txs, index)
             parsed == ParseTransactions(txs)
  <2>1. /\ txs \in Seq(Transactions) /\ Len(txs) \in Nat /\ index \in Nat
        /\ answer.result = IF tx.found /\ tx.proof.verified THEN tx ELSE Failed
    BY <1>1 DEF AnswerOfBlock
  <2>2. /\ parsed \in Seq(Transactions) /\ Len(parsed) \in Nat /\ Len(parsed) <= Len(txs)
        /\ \A m \in 1 .. Len(txs) : (\A i \in 1 .. m : txs[i] \notin Opaque) =>
             m <= Len(parsed) /\ parsed[m] = txs[m]
    BY <2>1, ParsedInPlace
  <2>3. CASE index < Len(txs)
    <3>1. index + 1 \in 1 .. Len(txs) /\ index \in 0 .. Len(txs) - 1
      BY <2>1, <2>3
    <3>2. \A i \in 1 .. index + 1 : txs[i] \notin Opaque
      BY <1>1, <2>1, <3>1 DEF Shifted
    <3>3. index + 1 <= Len(parsed) /\ parsed[index + 1] = txs[index + 1]
      BY <2>2, <3>1, <3>2
    <3>4. ~(index >= Len(parsed))
      BY <2>1, <2>2, <3>3
    <3>5. tx = [found |-> TRUE, transaction |-> parsed[index + 1], proof |-> GetProof(txs, index)]
      BY <3>4 DEF GetTransactionByIndex
    <3>6. /\ LeafAt(tree, index) = Digest(txs[index + 1])
          /\ Verify(tree.root, Digest(txs[index + 1]), Prove(tree, index), index)
      BY <2>1, <3>1, OwnProofVerifies
    <3>7. GetProof(txs, index).verified /\ GetProof(txs, index).proof = Prove(tree, index)
      BY <3>6 DEF GetProof
    <3> HIDE DEF tx, parsed, tree, index
    <3>8. answer.result = tx
      BY <2>1, <3>5, <3>7
    <3> QED
      BY <2>3, <3>3, <3>5, <3>6, <3>7, <3>8 DEF VerifyMerkleProof, tree, index
  <2>4. CASE ~(index < Len(txs))
    <3>1. index >= Len(parsed)
      BY <2>1, <2>2, <2>4
    <3>2. tx = Failed
      BY <3>1 DEF GetTransactionByIndex
    <3>3. ~answer.result.found
      BY <2>1, <3>2 DEF Failed
    <3> QED
      BY <2>4, <3>3
  <2> QED
    BY <2>3, <2>4
<1>2. ASSUME AnswerOfBlock, Answered("block"), NEW i \in DOMAIN answer.result.transactions
      PROVE  LET tx == answer.result.transactions[i]
             IN  VerifyMerkleProof(GetProof(txs, tx.index).root, tx.leaf, tx.proof, tx.index)
  <2> DEFINE tree == MerkleTree(txs)
             parsed == ParseTransactions(txs)
             tx == answer.result.transactions[i]
  <2>1. /\ txs \in Seq(Transactions) /\ Len(txs) \in Nat
        /\ answer.result = GetBlockWithProofs(txs)
    BY <1>2 DEF AnswerOfBlock
  <2>2. parsed \in Seq(Transactions) /\ Len(parsed) <= Len(txs)
    BY <2>1, ParsedInPlace
  <2>3. answer.result.transactions = [k \in DOMAIN parsed |->
          [index |-> k - 1, transaction |-> parsed[k],
           leaf |-> LeafAt(tree, k - 1), proof |-> Prove(tree, k - 1)]]
    BY <2>1 DEF GetBlockWithProofs
  <2>4. i \in DOMAIN parsed
    BY <1>2, <2>3
  <2>5. i - 1 \in 0 .. Len(txs) - 1
    BY <2>1, <2>2, <2>4
  <2>6. tx.index = i - 1 /\ tx.leaf = LeafAt(tree, i - 1) /\ tx.proof = Prove(tree, i - 1)
    BY <2>3, <2>4
  <2>7. Verify(tree.root, LeafAt(tree, i - 1), Prove(tree, i - 1), i - 1)
    BY <2>1, <2>5, OwnProofVerifies
  <2>8. GetProof(txs, tx.index).root = tree.root
    BY DEF GetProof
  <2> QED
    BY <2>6, <2>7, <2>8 DEF VerifyMerkleProof
<1>3. AnswerOfBlock => TransactionProven
  BY <1>1, <1>2 DEF TransactionProven
<1> QED
  BY <1>3, Invariance, PTL

(* merkle_prover.rs:18-28 a proof binds its position: no leaf and proof of *)
(* a block verify under an index that holds another transaction, although  *)
(* an odd layer is completed with a copy of its last digest.               *)
THEOREM ProofBinds ==
  Spec => []ProofBindsIndex
<1>1. AnswerOfBlock => ProofBindsIndex
  <2> SUFFICES ASSUME AnswerOfBlock, NEW i \in 0 .. Len(txs) - 1, NEW j \in 0 .. Len(txs) - 1,
                      NEW k \in 0 .. Len(txs) - 1,
                      VerifyMerkleProof(MerkleTree(txs).root, LeafAt(MerkleTree(txs), j),
                                        Prove(MerkleTree(txs), k), i)
               PROVE  txs[i + 1] = txs[j + 1]
    BY DEF ProofBindsIndex
  <2>1. Len(txs) \in Nat
    BY DEF AnswerOfBlock
  <2>2. LeafAt(MerkleTree(txs), j) = Digest(txs[j + 1])
    BY <2>1, OwnProofVerifies
  <2>3. Digest(txs[j + 1]) = Digest(txs[i + 1])
    BY <2>1, <2>2, OtherLeafFails DEF VerifyMerkleProof
  <2> QED
    BY <2>3 DEF Digest
<1> QED
  BY <1>1, Invariance, PTL
=============================================================================
