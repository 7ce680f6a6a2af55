----------------------------- MODULE DataLemmas -----------------------------
(***************************************************************************)
(* Facts about numbers, sets and sequences that the proofs of the          *)
(* components share.  Induction comes as LeastNat, a nonempty set has a    *)
(* least member: a claim about all numbers is proved from the set of its   *)
(* exceptions.                                                             *)
(***************************************************************************)
EXTENDS Integers, Sequences, FiniteSetsExt, FiniteSetTheorems, WellFoundedInduction, TLAPS

(* Every nonempty set of natural numbers has a least member.               *)
LEMMA LeastNat ==
  ASSUME NEW T \in SUBSET Nat, T # {}
  PROVE  \E m \in T : \A y \in T : m <= y
<1> DEFINE Less == {p \in Nat \X Nat : p[1] < p[2]}
<1>1. IsWellFoundedOn(Less, Nat)
  BY NatLessThanWellFounded DEF OpToRel
<1> HIDE DEF Less
<1>2. PICK m \in T : \A y \in T : ~(<<y, m>> \in Less)
  BY <1>1, WFMin
<1>3. \A y \in T : ~(y < m)
  BY <1>2 DEF Less
<1> QED
  BY <1>3

(* Min is a member and a lower bound.                                      *)
LEMMA MinOfNats ==
  ASSUME NEW T \in SUBSET Nat, T # {}
  PROVE  Min(T) \in T /\ \A y \in T : Min(T) <= y
BY LeastNat DEF Min

(* Induction up to n: S holds 0, and with each number below n the next.     *)
LEMMA UpTo ==
  ASSUME NEW n \in Nat, NEW S, 0 \in S, \A k \in 1 .. n : k - 1 \in S => k \in S
  PROVE  \A k \in 0 .. n : k \in S
<1> DEFINE Bad == (0 .. n) \ S
<1>1. SUFFICES ASSUME Bad # {} PROVE FALSE
  OBVIOUS
<1>2. PICK m \in Bad : \A y \in Bad : m <= y
  <2>1. Bad \in SUBSET Nat
    OBVIOUS
  <2> HIDE DEF Bad
  <2> QED
    BY <1>1, <2>1, LeastNat
<1>3. m \in 1 .. n /\ m \notin S
  OBVIOUS
<1>4. m - 1 \in 0 .. n /\ ~(m <= m - 1)
  BY <1>3
<1>5. m - 1 \in S
  BY <1>2, <1>4
<1> QED
  BY <1>3, <1>5

-----------------------------------------------------------------------------
(* Loops: a value in T that each round k takes to step[k] of it.           *)

Loops(l, base, step, n) ==
  l = [k \in 0 .. n |-> IF k = 0 THEN base ELSE step[k][l[k - 1]]]

(* The values l[0], ..., l[n] of a loop exist.                             *)
LEMMA LoopExists ==
  ASSUME NEW T, NEW base \in T, NEW n \in Nat, NEW step \in [1 .. n -> [T -> T]]
  PROVE  \E l \in [0 .. n -> T] : Loops(l, base, step, n)
<1> DEFINE Good == {m \in 0 .. n : \E l \in [0 .. m -> T] : Loops(l, base, step, m)}
<1>1. 0 \in Good
  <2>1. [k \in 0 .. 0 |-> base] \in [0 .. 0 -> T]
    OBVIOUS
  <2>2. Loops([k \in 0 .. 0 |-> base], base, step, 0)
    BY DEF Loops
  <2> QED
    BY <2>1, <2>2
<1>2. ASSUME NEW m \in 1 .. n, m - 1 \in Good
      PROVE  m \in Good
  <2>1. PICK l \in [0 .. m - 1 -> T] : Loops(l, base, step, m - 1)
    BY <1>2
  <2>2. m - 1 \in 0 .. m - 1 /\ step[m] \in [T -> T]
    OBVIOUS
  <2>3. l[m - 1] \in T /\ step[m][l[m - 1]] \in T
    BY <2>2
  <2> DEFINE g == [k \in 0 .. m |-> IF k = m THEN step[m][l[m - 1]] ELSE l[k]]
  <2>4. g \in [0 .. m -> T]
    BY <2>3
  <2>5. ASSUME NEW k \in 0 .. m
        PROVE  g[k] = IF k = 0 THEN base ELSE step[k][g[k - 1]]
    <3>1. CASE k = m
      <4>1. g[k - 1] = l[m - 1] /\ g[k] = step[m][l[m - 1]] /\ k # 0
        BY <3>1
      <4> QED
        BY <3>1, <4>1
    <3>2. CASE k # m
      <4>1. k \in 0 .. m - 1 /\ g[k] = l[k] /\ (k # 0 => g[k - 1] = l[k - 1])
        BY <3>2
      <4>2. l[k] = IF k = 0 THEN base ELSE step[k][l[k - 1]]
        BY <2>1, <4>1 DEF Loops
      <4> QED
        BY <4>1, <4>2
    <3> QED
      BY <3>1, <3>2
  <2>6. g = [k \in 0 .. m |-> g[k]]
    OBVIOUS
  <2> HIDE DEF g
  <2>7. Loops(g, base, step, m)
    BY <2>5, <2>6 DEF Loops
  <2> QED
    BY <2>4, <2>7
<1> HIDE DEF Good
<1>3. \A k \in 0 .. n : k \in Good
  BY <1>1, <1>2, UpTo
<1>4. n \in Good
  BY <1>3
<1> QED
  BY <1>4 DEF Good

(* Every solution keeps to T.                                              *)
LEMMA LoopValues ==
  ASSUME NEW T, NEW base \in T, NEW n \in Nat, NEW step \in [1 .. n -> [T -> T]],
         NEW l, Loops(l, base, step, n)
  PROVE  \A k \in 0 .. n : l[k] \in T
<1> DEFINE S == {k \in 0 .. n : l[k] \in T}
<1>1. 0 \in S
  BY DEF Loops
<1>2. ASSUME NEW k \in 1 .. n, k - 1 \in S PROVE k \in S
  <2>1. l[k] = step[k][l[k - 1]] /\ step[k] \in [T -> T]
    BY DEF Loops
  <2> QED
    BY <1>2, <2>1
<1> HIDE DEF S
<1>3. \A k \in 0 .. n : k \in S
  BY <1>1, <1>2, UpTo
<1> QED
  BY <1>3 DEF S

(* A loop of fewer rounds goes through the same values.                    *)
LEMMA LoopsAgree ==
  ASSUME NEW base, NEW step, NEW n \in Nat, NEW m \in 0 .. n,
         NEW l, Loops(l, base, step, n), NEW g, Loops(g, base, step, m)
  PROVE  \A k \in 0 .. m : g[k] = l[k]
<1> DEFINE S == {k \in 0 .. m : g[k] = l[k]}
<1>1. 0 \in S
  BY DEF Loops
<1>2. ASSUME NEW k \in 1 .. m, k - 1 \in S PROVE k \in S
  BY <1>2 DEF Loops
<1> HIDE DEF S
<1>3. \A k \in 0 .. m : k \in S
  BY <1>1, <1>2, UpTo
<1> QED
  BY <1>3 DEF S

-----------------------------------------------------------------------------
(* Every nonempty finite set of natural numbers has a greatest member.     *)
LEMMA GreatestOfFinite ==
  ASSUME NEW S \in SUBSET Nat, S # {}, IsFiniteSet(S)
  PROVE  \E m \in S : \A y \in S : y <= m
<1> DEFINE Smaller == StrictSubsetOrdering(S)
           Subsets == FiniteSubsetsOf(S)
           Bad == {T \in Subsets : T # {} /\ ~ \E m \in T : \A y \in T : y <= m}
<1>1. IsWellFoundedOn(Smaller, Subsets)
  BY FS_StrictSubsetOrderingWellFounded
<1>2. SUFFICES ASSUME Bad # {} PROVE FALSE
  BY DEF FiniteSubsetsOf
<1>3. PICK T \in Bad : \A U \in Bad : ~(<<U, T>> \in Smaller)
  <2>1. Bad \subseteq Subsets
    OBVIOUS
  <2> HIDE DEF Bad, Smaller, Subsets
  <2> QED
    BY <1>1, <1>2, <2>1, WFMin
<1>4. PICK x \in T : TRUE
  OBVIOUS
<1>5. T \ {x} \in Subsets /\ <<T \ {x}, T>> \in Smaller
  BY FS_RemoveElement DEF FiniteSubsetsOf, StrictSubsetOrdering
<1>6. T \ {x} = {} \/ \E m \in T \ {x} : \A y \in T \ {x} : y <= m
  BY <1>3, <1>5
<1>7. x \in Nat /\ T \subseteq Nat
  BY DEF FiniteSubsetsOf
<1>8. \E m \in T : \A y \in T : y <= m
  <2>1. CASE T \ {x} = {}
    BY <2>1, <1>7
  <2>2. CASE \E m \in T \ {x} : \A y \in T \ {x} : y <= m
    <3>1. PICK m \in T \ {x} : \A y \in T \ {x} : y <= m
      BY <2>2
    <3>2. CASE x <= m
      BY <3>1, <3>2, <1>7
    <3>3. CASE ~(x <= m)
      BY <3>1, <3>3, <1>7
    <3> QED
      BY <3>2, <3>3
  <2> QED
    BY <1>6, <2>1, <2>2
<1> QED
  BY <1>8

(* Max is a member and an upper bound.                                     *)
LEMMA MaxOfFinite ==
  ASSUME NEW S \in SUBSET Nat, S # {}, IsFiniteSet(S)
  PROVE  Max(S) \in S /\ \A y \in S : y <= Max(S)
BY GreatestOfFinite DEF Max

(* The smaller and the greater of two numbers.                             *)
LEMMA MinOfTwo ==
  ASSUME NEW a \in Nat, NEW b \in Nat
  PROVE  /\ Min({a, b}) \in {a, b} /\ Min({a, b}) <= a /\ Min({a, b}) <= b
         /\ Min({a, b}) \in Nat
BY MinOfNats

LEMMA MaxOfTwo ==
  ASSUME NEW a \in Nat, NEW b \in Nat
  PROVE  /\ Max({a, b}) \in {a, b} /\ a <= Max({a, b}) /\ b <= Max({a, b})
         /\ Max({a, b}) \in Nat
<1>1. IsFiniteSet({a, b})
  <2>1. IsFiniteSet({a}) /\ {a, b} = {a} \cup {b}
    BY FS_Singleton
  <2> QED
    BY <2>1, FS_AddElement
<1> QED
  BY <1>1, MaxOfFinite

(* The values of a function on a finite set are finitely many.             *)
LEMMA FiniteRange ==
  ASSUME NEW S, IsFiniteSet(S), NEW f, DOMAIN f = S, f = [x \in S |-> f[x]]
  PROVE  IsFiniteSet({f[x] : x \in S})
<1> DEFINE T == {f[x] : x \in S}
<1>1. f \in Surjection(S, T)
  BY DEF Surjection
<1> QED
  BY <1>1, FS_Surjection

-----------------------------------------------------------------------------
(* Filtering a sequence, from its front.                                   *)

(* f[n] is what is left of the first n members of txs without those of O.  *)
Filters(f, txs, O, len) ==
  f = [n \in 0 .. len |->
         IF n = 0 THEN <<>>
         ELSE IF txs[n] \in O THEN f[n - 1]
         ELSE Append(f[n - 1], txs[n])]

(* The positions of those left out.                                        *)
LeftOut(txs, O, n) == {i \in 1 .. n : txs[i] \in O}

(* f[n] is short of n by as many.                                          *)
ShortBy(f, txs, O, n) == Len(f[n]) = n - Cardinality(LeftOut(txs, O, n))

(* There is such a function.                                               *)
LEMMA FilterExists ==
  ASSUME NEW txs, NEW O, NEW len \in Nat
  PROVE  \E f : Filters(f, txs, O, len)
<1> DEFINE Bad == {m \in Nat : ~ \E f : Filters(f, txs, O, m)}
<1>1. SUFFICES ASSUME Bad # {} PROVE FALSE
  OBVIOUS
<1>2. PICK m \in Bad : \A y \in Bad : m <= y
  <2>1. Bad \in SUBSET Nat
    OBVIOUS
  <2> HIDE DEF Bad
  <2> QED
    BY <1>1, <2>1, LeastNat
<1>3. m \in Nat /\ ~ \E f : Filters(f, txs, O, m)
  OBVIOUS
<1>4. CASE m = 0
  <2>1. Filters([n \in 0 .. 0 |-> <<>>], txs, O, 0)
    BY DEF Filters
  <2> QED
    BY <1>3, <1>4, <2>1
<1>5. CASE m # 0
  <2>1. m - 1 \in Nat /\ ~(m - 1 >= m)
    BY <1>3, <1>5
  <2>2. \E f : Filters(f, txs, O, m - 1)
    BY <1>2, <1>3, <2>1
  <2>3. PICK f : Filters(f, txs, O, m - 1)
    BY <2>2
  <2> DEFINE last == IF txs[m] \in O THEN f[m - 1] ELSE Append(f[m - 1], txs[m])
             g == [n \in 0 .. m |-> IF n = m THEN last ELSE f[n]]
  <2>4. ASSUME NEW n \in 0 .. m
        PROVE  g[n] = IF n = 0 THEN <<>>
                      ELSE IF txs[n] \in O THEN g[n - 1]
                      ELSE Append(g[n - 1], txs[n])
    <3>1. CASE n = m
      <4>1. g[n] = last /\ g[n - 1] = f[m - 1] /\ n # 0
        BY <1>3, <1>5, <2>1, <3>1
      <4> QED
        BY <3>1, <4>1
    <3>2. CASE n # m
      <4>1. n \in 0 .. m - 1 /\ g[n] = f[n]
        BY <1>3, <3>2
      <4>2. n # 0 => g[n - 1] = f[n - 1]
        BY <1>3, <3>2
      <4>3. f[n] = IF n = 0 THEN <<>>
                   ELSE IF txs[n] \in O THEN f[n - 1]
                   ELSE Append(f[n - 1], txs[n])
        BY <2>3, <4>1 DEF Filters
      <4> QED
        BY <4>1, <4>2, <4>3
    <3> QED
      BY <3>1, <3>2
  <2>5. g = [n \in 0 .. m |-> g[n]]
    OBVIOUS
  <2> HIDE DEF g
  <2>6. Filters(g, txs, O, m)
    BY <2>4, <2>5 DEF Filters
  <2> QED
    BY <1>3, <2>6
<1> QED
  BY <1>4, <1>5

(* What is left is in T and not in O, and short of the n members by what   *)
(* was left out.                                                           *)
LEMMA FilterFacts ==
  ASSUME NEW T, NEW txs \in Seq(T), NEW O, NEW f, Filters(f, txs, O, Len(txs)),
         NEW n \in 0 .. Len(txs)
  PROVE  /\ f[n] \in Seq(T \ O)
         /\ IsFiniteSet(LeftOut(txs, O, n))
         /\ ShortBy(f, txs, O, n)
<1> DEFINE Out(k) == {i \in 1 .. k : txs[i] \in O}
           P(k) == f[k] \in Seq(T \ O) /\ IsFiniteSet(Out(k))
                   /\ Len(f[k]) = k - Cardinality(Out(k))
           Bad == {k \in 0 .. Len(txs) : ~P(k)}
<1>1. Len(txs) \in Nat
  OBVIOUS
<1>2. ASSUME NEW k \in 0 .. Len(txs), k # 0, P(k - 1)
      PROVE  P(k)
  <2>1. f[k] = IF txs[k] \in O THEN f[k - 1] ELSE Append(f[k - 1], txs[k])
    BY <1>2 DEF Filters
  <2>2. txs[k] \in T /\ k \in Nat /\ k - 1 \in Nat
    BY <1>1, <1>2
  <2>3. f[k - 1] \in Seq(T \ O) /\ IsFiniteSet(Out(k - 1))
        /\ Len(f[k - 1]) = (k - 1) - Cardinality(Out(k - 1))
    BY <1>2
  <2>4. Cardinality(Out(k - 1)) \in Nat
    BY <2>3, FS_CardinalityType
  <2>5. CASE txs[k] \in O
    <3>1. Out(k) = Out(k - 1) \cup {k} /\ k \notin Out(k - 1)
      BY <2>2, <2>5
    <3> HIDE DEF Out
    <3>2. IsFiniteSet(Out(k)) /\ Cardinality(Out(k)) = Cardinality(Out(k - 1)) + 1
      BY <2>3, <3>1, FS_AddElement
    <3> QED
      BY <2>1, <2>2, <2>3, <2>4, <2>5, <3>2
  <2>6. CASE txs[k] \notin O
    <3>1. Out(k) = Out(k - 1)
      BY <2>2, <2>6
    <3> HIDE DEF Out
    <3>2. f[k] \in Seq(T \ O) /\ Len(f[k]) = Len(f[k - 1]) + 1
      BY <2>1, <2>2, <2>3, <2>6
    <3> QED
      BY <2>2, <2>3, <2>4, <3>1, <3>2
  <2> QED
    BY <2>5, <2>6
<1>3. P(0)
  <2>1. f[0] = <<>>
    BY <1>1 DEF Filters
  <2>2. Out(0) = {}
    OBVIOUS
  <2> HIDE DEF Out
  <2>3. IsFiniteSet(Out(0)) /\ Cardinality(Out(0)) = 0
    BY <2>2, FS_EmptySet
  <2> QED
    BY <2>1, <2>3
<1> HIDE DEF P
<1>4. Bad = {}
  <2> SUFFICES ASSUME Bad # {} PROVE FALSE
    OBVIOUS
  <2>1. Bad \in SUBSET Nat
    OBVIOUS
  <2>2. PICK m \in Bad : \A y \in Bad : m <= y
    <3> HIDE DEF Bad
    <3> QED
      BY <2>1, LeastNat
  <2>3. m \in 0 .. Len(txs) /\ m # 0 /\ ~P(m)
    BY <1>3
  <2>4. m - 1 \in 0 .. Len(txs) /\ ~(m <= m - 1)
    BY <1>1, <2>3
  <2>5. P(m - 1)
    BY <2>2, <2>4
  <2> QED
    BY <1>2, <2>3, <2>5
<1>5. P(n)
  BY <1>4
<1> QED
  BY <1>5 DEF P, LeftOut, ShortBy
=============================================================================
