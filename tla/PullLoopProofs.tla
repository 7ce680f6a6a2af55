--------------------------- MODULE PullLoopProofs ---------------------------
(***************************************************************************)
(* What the pull requests promise, for every word width, packet size,      *)
(* table of filter sizes, set of peers and period of the timers: a request *)
(* fits in a packet, and the rotation covers a peer's whole table.         *)
(***************************************************************************)
EXTENDS PullLoop, DataLemmas

-----------------------------------------------------------------------------
(* Powers of two.                                                          *)

(* p[k] is 2^k up to n.                                                    *)
Doubles(p, n) == p = [k \in 0 .. n |-> IF k = 0 THEN 1 ELSE 2 * p[k - 1]]

LEMMA DoublesExists ==
  ASSUME NEW n \in Nat
  PROVE  \E p : Doubles(p, n)
<1> DEFINE Bad == {m \in Nat : ~ \E p : Doubles(p, m)}
<1>1. SUFFICES ASSUME Bad # {} PROVE FALSE
  OBVIOUS
<1>2. PICK m \in Bad : \A y \in Bad : m <= y
  <2>1. Bad \in SUBSET Nat
    OBVIOUS
  <2> HIDE DEF Bad
  <2> QED
    BY <1>1, <2>1, LeastNat
<1>3. m \in Nat /\ ~ \E p : Doubles(p, m)
  OBVIOUS
<1>4. CASE m = 0
  <2>1. Doubles([k \in 0 .. 0 |-> 1], 0)
    BY DEF Doubles
  <2> QED
    BY <1>3, <1>4, <2>1
<1>5. CASE m # 0
  <2>1. m - 1 \in Nat /\ ~(m - 1 >= m)
    BY <1>3, <1>5
  <2>2. \E p : Doubles(p, m - 1)
    BY <1>2, <1>3, <2>1
  <2>3. PICK p : Doubles(p, m - 1)
    BY <2>2
  <2> DEFINE last == 2 * p[m - 1]
             g == [k \in 0 .. m |-> IF k = m THEN last ELSE p[k]]
  <2>4. ASSUME NEW k \in 0 .. m
        PROVE  g[k] = IF k = 0 THEN 1 ELSE 2 * g[k - 1]
    <3>1. CASE k = m
      <4>1. g[k] = last /\ g[k - 1] = p[m - 1] /\ k # 0
        BY <1>3, <1>5, <2>1, <3>1
      <4> QED
        BY <3>1, <4>1
    <3>2. CASE k # m
      <4>1. k \in 0 .. m - 1 /\ g[k] = p[k]
        BY <1>3, <3>2
      <4>2. k # 0 => g[k - 1] = p[k - 1]
        BY <1>3, <3>2
      <4>3. p[k] = IF k = 0 THEN 1 ELSE 2 * p[k - 1]
        BY <2>3, <4>1 DEF Doubles
      <4> QED
        BY <4>1, <4>2, <4>3
    <3> QED
      BY <3>1, <3>2
  <2>5. g = [k \in 0 .. m |-> g[k]]
    OBVIOUS
  <2> HIDE DEF g
  <2>6. Doubles(g, m)
    BY <2>4, <2>5 DEF Doubles
  <2> QED
    BY <1>3, <2>6
<1> QED
  BY <1>4, <1>5

LEMMA Pow2Doubles ==
  ASSUME NEW n \in Nat
  PROVE  \E p : Doubles(p, n) /\ Pow2(n) = p[n]
<1> DEFINE p == CHOOSE q : Doubles(q, n)
<1>1. \E q : Doubles(q, n)
  BY DoublesExists
<1>2. Doubles(p, n)
  BY <1>1
<1>3. Pow2(n) = p[n]
  BY DEF Pow2, Doubles
<1> HIDE DEF p
<1> QED
  BY <1>2, <1>3

(* Two such functions agree where both are defined.                        *)
LEMMA DoublesUnique ==
  ASSUME NEW n \in Nat, NEW m \in Nat, NEW p, NEW q, Doubles(p, n), Doubles(q, m),
         NEW k \in Nat, k <= n, k <= m
  PROVE  p[k] = q[k] /\ p[k] \in Nat \ {0}
<1> DEFINE Same(j) == p[j] = q[j] /\ p[j] \in Nat \ {0}
           Bad == {j \in Nat : j <= n /\ j <= m /\ ~Same(j)}
<1>1. SUFFICES ASSUME Bad # {} PROVE FALSE
  OBVIOUS
<1>2. PICK j \in Bad : \A y \in Bad : j <= y
  <2>1. Bad \in SUBSET Nat
    OBVIOUS
  <2> HIDE DEF Bad
  <2> QED
    BY <1>1, <2>1, LeastNat
<1>3. j \in Nat /\ j <= n /\ j <= m /\ ~Same(j)
  OBVIOUS
<1>4. /\ p[j] = IF j = 0 THEN 1 ELSE 2 * p[j - 1]
      /\ q[j] = IF j = 0 THEN 1 ELSE 2 * q[j - 1]
  <2>1. j \in 0 .. n /\ j \in 0 .. m
    BY <1>3
  <2> QED
    BY <2>1 DEF Doubles
<1>5. CASE j = 0
  BY <1>3, <1>4, <1>5
<1>6. CASE j # 0
  <2>1. j - 1 \in Nat /\ j - 1 <= n /\ j - 1 <= m /\ ~(j <= j - 1)
    BY <1>3, <1>6
  <2>2. Same(j - 1)
    BY <1>2, <2>1
  <2> QED
    BY <1>3, <1>4, <1>6, <2>2
<1> QED
  BY <1>5, <1>6

LEMMA Pow2Facts ==
  ASSUME NEW n \in Nat
  PROVE  Pow2(n) \in Nat \ {0} /\ Pow2(n + 1) = 2 * Pow2(n) /\ Pow2(0) = 1
<1>1. PICK p : Doubles(p, n) /\ Pow2(n) = p[n]
  BY Pow2Doubles
<1>2. PICK q : Doubles(q, n + 1) /\ Pow2(n + 1) = q[n + 1]
  BY Pow2Doubles
<1>3. PICK z : Doubles(z, 0) /\ Pow2(0) = z[0]
  BY Pow2Doubles
<1>4. p[n] = q[n] /\ p[n] \in Nat \ {0}
  <2>1. n + 1 \in Nat /\ n <= n /\ n <= n + 1
    OBVIOUS
  <2> QED
    BY <1>1, <1>2, <2>1, DoublesUnique
<1>5. q[n + 1] = 2 * q[n]
  <2>1. n + 1 \in 0 .. n + 1 /\ n + 1 # 0 /\ (n + 1) - 1 = n
    OBVIOUS
  <2> QED
    BY <1>2, <2>1 DEF Doubles
<1>6. z[0] = 1
  BY <1>3 DEF Doubles
<1> QED
  BY <1>1, <1>2, <1>3, <1>4, <1>5, <1>6

(* 2^(a + b) = 2^a * 2^b.                                                  *)
LEMMA Pow2Sum ==
  ASSUME NEW a \in Nat, NEW b \in Nat
  PROVE  Pow2(a + b) = Pow2(a) * Pow2(b)
<1> DEFINE Bad == {c \in Nat : ~(Pow2(a + c) = Pow2(a) * Pow2(c))}
<1>1. SUFFICES ASSUME Bad # {} PROVE FALSE
  OBVIOUS
<1>2. PICK m \in Bad : \A y \in Bad : m <= y
  <2>1. Bad \in SUBSET Nat
    OBVIOUS
  <2> HIDE DEF Bad
  <2> QED
    BY <1>1, <2>1, LeastNat
<1>3. m \in Nat /\ ~(Pow2(a + m) = Pow2(a) * Pow2(m))
  OBVIOUS
<1>4. CASE m = 0
  BY <1>3, <1>4, Pow2Facts
<1>5. CASE m # 0
  <2> DEFINE k == m - 1
  <2>1. k \in Nat /\ ~(m <= k) /\ k + 1 = m /\ a + k \in Nat /\ (a + k) + 1 = a + m
    BY <1>3, <1>5
  <2>2. Pow2(a + k) = Pow2(a) * Pow2(k)
    BY <1>2, <2>1
  <2> HIDE DEF k
  <2>3. Pow2(k + 1) = 2 * Pow2(k) /\ Pow2((a + k) + 1) = 2 * Pow2(a + k)
    BY <2>1, Pow2Facts
  <2>4. Pow2(a) \in Nat /\ Pow2(k) \in Nat
    BY <2>1, Pow2Facts
  <2> DEFINE x == Pow2(a)
             y == Pow2(k)
  <2>5. x \in Nat /\ y \in Nat
    BY <2>4
  <2>6. Pow2(a + m) = 2 * (x * y) /\ Pow2(a) * Pow2(m) = x * (2 * y)
    BY <2>1, <2>2, <2>3
  <2> HIDE DEF x, y
  <2>7. 2 * (x * y) = x * (2 * y)
    BY <2>5
  <2> QED
    BY <1>3, <2>6, <2>7
<1> QED
  BY <1>4, <1>5

-----------------------------------------------------------------------------
(* Counting in a circle.                                                   *)

LEMMA ModOfSum ==
  ASSUME NEW n \in Nat \ {0}, NEW k \in Nat, NEW r \in 0 .. n - 1
  PROVE  (k * n + r) % n = r
OBVIOUS

(* A counter that wraps at a multiple of n goes round all of 0 .. n - 1.   *)
LEMMA ModStep ==
  ASSUME NEW n \in Nat \ {0}, NEW q \in Nat \ {0}, NEW p \in Nat, p < q * n
  PROVE  ((p + 1) % (q * n)) % n = IF p % n = n - 1 THEN 0 ELSE (p % n) + 1
<1> DEFINE k == p \div n
           r == p % n
           w == q * n
<1>1. k \in Nat /\ r \in 0 .. n - 1 /\ p = k * n + r
  OBVIOUS
<1>2. w \in Nat \ {0} /\ p < w
  OBVIOUS
<1>3. w = q * n
  OBVIOUS
<1> HIDE DEF k, r, w
<1>4. (p + 1) % w = IF p + 1 = w THEN 0 ELSE p + 1
  BY <1>2
<1>5. CASE r = n - 1
  <2>1. p + 1 = (k + 1) * n + 0
    BY <1>1, <1>5
  <2>2. (p + 1) % n = 0 /\ 0 % n = 0
    <3>1. k + 1 \in Nat /\ 0 \in 0 .. n - 1
      BY <1>1
    <3>2. ((k + 1) * n + 0) % n = 0
      BY <3>1, ModOfSum
    <3> QED
      BY <2>1, <3>2
  <2>3. ((p + 1) % w) % n = 0
    BY <1>4, <2>2
  <2> QED
    BY <1>5, <2>3 DEF r, w
<1>6. CASE r # n - 1
  <2>1. p + 1 = k * n + (r + 1) /\ r + 1 \in 1 .. n - 1
    BY <1>1, <1>6
  <2>2. p + 1 # w
    <3>1. w % n = 0
      <4>1. (q * n + 0) % n = 0 /\ w = q * n + 0
        BY <1>3, ModOfSum
      <4> QED
        BY <4>1
    <3>2. (p + 1) % n = r + 1
      BY <1>1, <2>1, ModOfSum
    <3> QED
      BY <2>1, <3>1, <3>2
  <2>3. ((p + 1) % w) % n = r + 1
    BY <1>1, <1>4, <2>1, <2>2, ModOfSum
  <2> QED
    BY <1>6, <2>3 DEF r, w
<1> QED
  BY <1>5, <1>6

(* The top bits of a word name one block of `low` words.                   *)
LEMMA BlockOf ==
  ASSUME NEW low \in Nat \ {0}, NEW blocks \in Nat, NEW h \in Nat, h < blocks * low
  PROVE  /\ h \div low \in 0 .. blocks - 1
         /\ \A s \in 0 .. blocks - 1 : (s * low + (low - 1)) \div low = s
<1> DEFINE k == h \div low
           r == h % low
<1>1. k \in Nat /\ r \in 0 .. low - 1 /\ h = k * low + r
  OBVIOUS
<1> HIDE DEF k, r
<1>2. k < blocks
  BY <1>1
<1>3. ASSUME NEW s \in Nat PROVE (s * low + (low - 1)) \div low = s
  OBVIOUS
<1> QED
  BY <1>1, <1>2, <1>3 DEF k

-----------------------------------------------------------------------------
(* The requests.                                                           *)

(* A budget a size has is one of a filter of just that size.               *)
LEMMA BudgetSound ==
  ASSUME NEW size, BudgetOfSize(size) # 0
  PROVE  BudgetOfSize(size) \in BloomBytes /\ FilterSize[BudgetOfSize(size)] = size
<1> DEFINE Fit == {b \in BloomBytes : FilterSize[b] = size}
<1>1. IsFiniteSet(BloomBytes) /\ BloomBytes \subseteq Nat
  BY FS_Interval, PullFilterAssumption DEF BloomBytes
<1>2. IsFiniteSet(Fit \cup {0})
  BY <1>1, FS_Subset, FS_AddElement
<1>3. Max(Fit \cup {0}) \in Fit \cup {0}
  BY <1>1, <1>2, MaxOfFinite
<1> QED
  BY <1>3 DEF BudgetOfSize

(* The cache gives a filter no larger than the room asked for.             *)
LEMMA CacheSound ==
  ASSUME NEW size \in 0 .. PacketSize, MaxBloomBytesCache[size] > 0
  PROVE  /\ MaxBloomBytesCache[size] \in BloomBytes
         /\ FilterSize[MaxBloomBytesCache[size]] <= size
<1> DEFINE Taken == {s \in 0 .. size : BudgetOfSize(s) # 0}
           m == Max(Taken \cup {0})
<1>1. PacketSize \in Nat /\ size \in Nat
  BY PullFilterAssumption
<1>2. IsFiniteSet(0 .. size) /\ 0 .. size \subseteq Nat
  BY <1>1, FS_Interval
<1>3. IsFiniteSet(Taken \cup {0})
  BY <1>2, FS_Subset, FS_AddElement
<1>4. m \in Taken \cup {0}
  BY <1>2, <1>3, MaxOfFinite
<1>5. m <= size
  BY <1>1, <1>4
<1>6. MaxBloomBytesCache[size] = BudgetOfSize(m)
  BY DEF MaxBloomBytesCache
<1> HIDE DEF m
<1> QED
  BY <1>5, <1>6, BudgetSound

(* What one pull sends: a request for each of 2^bits blocks of hashes.     *)
Requests(m, bits) ==
  LET low == Pow2(WordBits - bits)
  IN  /\ bits \in Nat /\ bits < WordBits /\ bits <= RoundBits
      /\ DOMAIN m = 0 .. Pow2(bits) - 1
      /\ \A s \in DOMAIN m :
           /\ m[s].size <= PacketSize
           /\ m[s].filter.mask_bits = bits
           /\ m[s].filter.mask = s * low + (low - 1)

LEMMA RequestsMade ==
  ASSUME NEW caller \in CallerSizes
  PROVE  \E bits : Requests(CreatePullRequestMessages(caller), bits)
<1> DEFINE bytes == GetMaxBloomFilterBytes(caller)
           bits == MaskBits(bytes)
           low == Pow2(WordBits - bits)
           m == CreatePullRequestMessages(caller)
<1>1. /\ WordBits \in Nat \ {0} /\ PacketSize \in Nat /\ TagSize \in Nat
      /\ caller \in Nat /\ RoundBits \in Nat /\ WordBits - 1 \in Nat
  BY PullFilterAssumption, PullLoopAssumption
<1>2. bytes > 0 /\ bits \in 0 .. Min({WordBits - 1, RoundBits})
  BY PullLoopAssumption
<1>3. bits \in Nat /\ bits < WordBits /\ bits <= RoundBits
  BY <1>1, <1>2, MinOfTwo
<1>4. TagSize + caller + FilterSize[bytes] <= PacketSize
  <2> DEFINE room == IF TagSize + caller <= PacketSize THEN PacketSize - (TagSize + caller) ELSE 0
  <2>1. room \in 0 .. PacketSize
    BY <1>1
  <2>2. bytes = MaxBloomBytesCache[room]
    BY DEF GetMaxBloomFilterBytes
  <2>3. bytes \in BloomBytes /\ FilterSize[bytes] <= room
    <3> HIDE DEF room, bytes
    <3> QED
      BY <1>2, <2>1, <2>2, CacheSound
  <2>4. FilterSize[bytes] \in Nat \ {0}
    <3> HIDE DEF bytes
    <3> QED
      BY <2>3, PullFilterAssumption
  <2> HIDE DEF bytes
  <2>5. CASE TagSize + caller <= PacketSize
    BY <1>1, <2>3, <2>4, <2>5
  <2>6. CASE ~(TagSize + caller <= PacketSize)
    BY <1>1, <2>3, <2>4, <2>6
  <2> QED
    BY <2>5, <2>6
<1>5. NumPartitions(bits) = Pow2(bits) /\ Pow2(bits) \in Nat \ {0}
  <2>1. Min({bits, WordBits - 1}) = bits
    <3> HIDE DEF bits
    <3> QED
      BY <1>1, <1>3, MinOfTwo
  <2>2. Pow2(bits) \in Nat \ {0}
    <3> HIDE DEF bits
    <3> QED
      BY <1>3, Pow2Facts
  <2> QED
    BY <2>1, <2>2 DEF NumPartitions
<1>6. m = [seed \in 0 .. Pow2(bits) - 1 |->
             [filter |-> NewSeeded(bytes, seed), size |-> TagSize + caller + FilterSize[bytes]]]
  BY <1>5 DEF CreatePullRequestMessages
<1>7. ASSUME NEW s \in 0 .. Pow2(bits) - 1
      PROVE  /\ NewSeeded(bytes, s).mask_bits = bits
             /\ NewSeeded(bytes, s).mask = s * low + (low - 1)
  <2> DEFINE parts == Pow2(bits)
  <2>1. s % parts = s
    <3>1. parts \in Nat \ {0} /\ s \in 0 .. parts - 1
      BY <1>5
    <3> HIDE DEF parts
    <3> QED
      BY <3>1
  <2>2. /\ NewSeeded(bytes, s).mask_bits = bits
        /\ NewSeeded(bytes, s).mask = ComputeMask(s % NumPartitions(bits), bits)
    BY DEF NewSeeded
  <2>3. ComputeMask(s, bits) = s * low + (low - 1)
    <3>1. CASE bits = 0
      <4>1. Pow2(bits) = 1
        BY <3>1, Pow2Facts
      <4>2. s = 0
        BY <1>5, <4>1
      <4>3. low = Pow2(WordBits) /\ low \in Nat
        <5>1. WordBits - bits = WordBits
          BY <1>1, <3>1
        <5> QED
          BY <1>1, <5>1, Pow2Facts
      <4>4. ComputeMask(s, bits) = low - 1
        BY <3>1, <4>3 DEF ComputeMask
      <4> HIDE DEF low, bits
      <4> QED
        BY <4>2, <4>3, <4>4
    <3>2. CASE bits # 0
      BY <3>2 DEF ComputeMask
    <3> QED
      BY <3>1, <3>2
  <2> QED
    BY <1>5, <2>1, <2>2, <2>3
<1> HIDE DEF m, bits, bytes
<1>8. /\ DOMAIN m = 0 .. Pow2(bits) - 1
      /\ \A s \in DOMAIN m : m[s].size <= PacketSize /\ m[s].filter = NewSeeded(bytes, s)
  BY <1>4, <1>6
<1>9. Requests(m, bits)
  BY <1>3, <1>7, <1>8 DEF Requests
<1> QED
  BY <1>9 DEF m

-----------------------------------------------------------------------------
(* The invariant.                                                          *)

(* The requests are those of one call, whatever our contact info's size.   *)
Built == \E bits : Requests(messages, bits)

(* The library's loop has no handshake before it, and never forgets the    *)
(* entrypoint.                                                             *)
Started ==
  /\ program = "library" => pc \in {"select", "dead"}
  /\ Entrypoint \in known_peers

(* How many rounds ago it was the turn of partition s.                     *)
Turn == pull_round % num

Age(s) == IF s < Turn THEN Turn - 1 - s ELSE Turn - 1 - s + num

(* Who was not asked for a partition joined after its last turn.           *)
JoinedAfter ==
  program = "library" =>
    \A a \in Addrs :
      /\ a \notin known_peers => rounds[a] = 0
      /\ \A s \in DOMAIN messages \ asked[a] : rounds[a] <= Age(s)

Inv == TypeOK /\ Built /\ Started /\ JoinedAfter

LEMMA Sizes ==
  ASSUME Built
  PROVE  /\ num \in Nat \ {0} /\ DOMAIN messages = 0 .. num - 1 /\ 0 \in DOMAIN messages
         /\ Pow2(RoundBits) \in Nat \ {0}
         /\ \E q \in Nat \ {0} : Pow2(RoundBits) = q * num
<1>1. PICK bits : Requests(messages, bits)
  BY DEF Built
<1>2. /\ bits \in Nat /\ RoundBits \in Nat /\ RoundBits - bits \in Nat
      /\ (RoundBits - bits) + bits = RoundBits
  BY <1>1, PullLoopAssumption DEF Requests
<1>3. DOMAIN messages = 0 .. Pow2(bits) - 1
  BY <1>1 DEF Requests
<1>4. /\ Pow2(bits) \in Nat \ {0} /\ Pow2(RoundBits) \in Nat \ {0}
      /\ Pow2(RoundBits - bits) \in Nat \ {0}
  BY <1>2, Pow2Facts
<1>5. num = Pow2(bits)
  <2> DEFINE n == Pow2(bits)
  <2>1. n \in Nat \ {0} /\ num = Cardinality(0 .. n - 1)
    BY <1>3, <1>4 DEF num
  <2> HIDE DEF n
  <2>2. Cardinality(0 .. n - 1) = n
    BY <2>1, FS_Interval
  <2> QED
    BY <2>1, <2>2 DEF n
<1>6. Pow2(RoundBits) = Pow2(RoundBits - bits) * num
  BY <1>2, <1>5, Pow2Sum
<1> QED
  BY <1>3, <1>4, <1>5, <1>6

LEMMA InitInv ==
  Init => Inv
<1> SUFFICES ASSUME Init PROVE Inv
  OBVIOUS
<1>1. Built
  BY RequestsMade DEF Init, Built
<1>2. num \in Nat \ {0} /\ DOMAIN messages = 0 .. num - 1 /\ Pow2(RoundBits) \in Nat \ {0}
  BY <1>1, Sizes
<1>3. TypeOK
  <2>1. 0 \in 0 .. Max({Attempts, Windows}) - 1
    BY PullLoopAssumption, MaxOfTwo
  <2>2. program \in Programs /\ Entrypoint \in Addrs /\ PullEvery[program] \in Nat
        /\ PruneEvery[program] \in Nat /\ Sleep \in Nat
    BY PullLoopAssumption DEF Init, Addrs
  <2>3. asked \in [Addrs -> SUBSET DOMAIN messages] /\ rounds \in [Addrs -> 0 .. num]
    BY <1>2 DEF Init, SingleMask
  <2> QED
    BY <1>2, <2>1, <2>2, <2>3 DEF Init, TypeOK
<1>4. Started
  BY DEF Init, Started
<1>5. JoinedAfter
  <2>1. Turn = 0
    <3> DEFINE n == num
    <3>1. n \in Nat \ {0} /\ Turn = 0 % n
      BY <1>2 DEF Init, Turn
    <3> HIDE DEF n
    <3> QED
      BY <3>1
  <2>2. ASSUME NEW a \in Addrs
        PROVE  rounds[a] = 0
    BY DEF Init
  <2>3. ASSUME NEW s \in DOMAIN messages
        PROVE  0 <= Age(s)
    BY <1>2, <2>1 DEF Age
  <2> QED
    BY <2>2, <2>3 DEF JoinedAfter
<1> QED
  BY <1>1, <1>3, <1>4, <1>5 DEF Inv

-----------------------------------------------------------------------------
(* Sending.                                                                *)

LEMMA SendTypes ==
  ASSUME TypeOK, Built, NEW seeds, SendPulls(seeds),
         \A a \in DOMAIN seeds : seeds[a] \subseteq DOMAIN messages
  PROVE  asked' \in [Addrs -> SUBSET DOMAIN messages] /\ rounds' \in [Addrs -> 0 .. num]
<1>1. num \in Nat
  BY Sizes
<1>2. ASSUME NEW a \in Addrs
      PROVE  Min({rounds[a] + 1, num}) \in 0 .. num /\ rounds[a] \in 0 .. num
  <2>1. rounds[a] \in 0 .. num
    BY DEF TypeOK
  <2>2. rounds[a] + 1 \in Nat
    BY <1>1, <2>1
  <2> QED
    BY <1>1, <2>1, <2>2, MinOfTwo
<1> QED
  BY <1>2 DEF SendPulls, TypeOK

(* After a pull of the library every partition is a round older.           *)
LEMMA PullLibraryOrder ==
  ASSUME Inv, program = "library", PullLibrary
  PROVE  /\ pull_round' \in 0 .. Pow2(RoundBits) - 1
         /\ asked' \in [Addrs -> SUBSET DOMAIN messages] /\ rounds' \in [Addrs -> 0 .. num]
         /\ messages' = messages /\ known_peers \subseteq known_peers' => JoinedAfter'
<1> DEFINE seeds == [a \in known_peers \cup {Entrypoint} |->
                       IF a = Entrypoint THEN DOMAIN messages ELSE {pull_round % num}]
           wide == Pow2(RoundBits)
<1>1. /\ num \in Nat \ {0} /\ DOMAIN messages = 0 .. num - 1
      /\ wide \in Nat \ {0} /\ \E q \in Nat \ {0} : wide = q * num
  BY Sizes DEF Inv
<1>2. pull_round \in 0 .. wide - 1 /\ Entrypoint \in known_peers /\ known_peers \subseteq Addrs
  BY DEF Inv, TypeOK, Started
<1>3. pull_round' = (pull_round + 1) % wide /\ SendPulls(seeds)
  BY DEF PullLibrary
<1>4. Turn \in 0 .. num - 1
  <2> DEFINE n == num
             r == pull_round
  <2>1. n \in Nat \ {0} /\ r \in Nat
    BY <1>1, <1>2
  <2> HIDE DEF n, r
  <2>2. r % n \in 0 .. n - 1
    BY <2>1
  <2> QED
    BY <2>2 DEF Turn, n, r
<1>5. \A a \in DOMAIN seeds : seeds[a] \subseteq DOMAIN messages
  BY <1>1, <1>4 DEF Turn
<1>6. pull_round' \in 0 .. wide - 1
  <2> HIDE DEF wide
  <2> QED
    BY <1>1, <1>2, <1>3
<1>7. asked' \in [Addrs -> SUBSET DOMAIN messages] /\ rounds' \in [Addrs -> 0 .. num]
  <2> HIDE DEF seeds
  <2> QED
    BY <1>3, <1>5, SendTypes DEF Inv
<1>8. ASSUME messages' = messages, known_peers \subseteq known_peers'
      PROVE  JoinedAfter'
  <2>1. num' = num
    BY <1>8 DEF num
  <2>2. Turn' = IF Turn = num - 1 THEN 0 ELSE Turn + 1
    <3> DEFINE n == num
    <3>1. PICK q \in Nat \ {0} : wide = q * n
      BY <1>1
    <3>2. n \in Nat \ {0} /\ pull_round \in Nat /\ pull_round < q * n
      BY <1>1, <1>2, <3>1
    <3>3. Turn = pull_round % n /\ Turn' = ((pull_round + 1) % (q * n)) % n
      BY <1>3, <2>1, <3>1 DEF Turn
    <3> HIDE DEF n, wide
    <3>4. Turn' = IF Turn = n - 1 THEN 0 ELSE Turn + 1
      BY <3>2, <3>3, ModStep
    <3> QED
      BY <3>4 DEF n
  <2>3. ASSUME NEW a \in Addrs, a \notin known_peers'
        PROVE  rounds'[a] = 0
    <3>1. a \notin DOMAIN seeds
      BY <1>2, <1>8, <2>3
    <3>2. rounds'[a] = rounds[a]
      BY <1>3, <3>1 DEF SendPulls
    <3> QED
      BY <1>8, <2>3, <3>2 DEF Inv, JoinedAfter
  <2>4. ASSUME NEW a \in Addrs, NEW s \in DOMAIN messages \ asked'[a]
        PROVE  rounds'[a] <= Age(s)'
    <3>1. s \in DOMAIN messages \ asked[a] /\ rounds[a] <= Age(s)
      <4>1. asked[a] \subseteq asked'[a]
        BY <1>3 DEF SendPulls
      <4> QED
        BY <2>4, <4>1 DEF Inv, JoinedAfter
    <3>2. rounds[a] \in 0 .. num /\ s \in 0 .. num - 1
      BY <1>1 DEF Inv, TypeOK
    <3>3. CASE a \in known_peers
      <4>1. /\ asked'[a] = asked[a] \cup seeds[a]
            /\ rounds'[a] = Min({rounds[a] + 1, num})
        BY <1>3, <3>3 DEF SendPulls
      <4>2. s # Turn
        BY <2>4, <3>3, <4>1 DEF Turn
      <4>3. rounds'[a] <= rounds[a] + 1
        <5>1. rounds[a] + 1 \in Nat /\ num \in Nat
          BY <1>1, <3>2
        <5>2. Min({rounds[a] + 1, num}) <= rounds[a] + 1
          BY <5>1, MinOfTwo
        <5> QED
          BY <4>1, <5>2
      <4>4. rounds'[a] \in Nat
        BY <1>1, <1>7
      <4>5. Age(s)' = IF s < Turn' THEN Turn' - 1 - s ELSE Turn' - 1 - s + num
        BY <2>1 DEF Age
      <4>6. Age(s) + 1 = Age(s)' /\ Age(s) \in Int
        <5>1. Age(s) = IF s < Turn THEN Turn - 1 - s ELSE Turn - 1 - s + num
          BY DEF Age
        <5> DEFINE n == num
                   turn == Turn
                   age == Age(s)
                   nextTurn == Turn'
                   nextAge == Age(s)'
        <5>2. /\ n \in Nat \ {0} /\ s \in 0 .. n - 1 /\ turn \in 0 .. n - 1 /\ s # turn
              /\ age = IF s < turn THEN turn - 1 - s ELSE turn - 1 - s + n
              /\ nextTurn = IF turn = n - 1 THEN 0 ELSE turn + 1
              /\ nextAge = IF s < nextTurn THEN nextTurn - 1 - s ELSE nextTurn - 1 - s + n
          BY <1>1, <1>4, <2>2, <3>2, <4>2, <4>5, <5>1
        <5> HIDE DEF n, turn, age, nextTurn, nextAge
        <5>3. age + 1 = nextAge /\ age \in Int
          BY <5>2
        <5> QED
          BY <5>3 DEF age, nextAge
      <4> QED
        BY <3>1, <3>2, <4>3, <4>4, <4>6
    <3>4. CASE a \notin known_peers
      <4>1. rounds'[a] = 0
        <5>1. a \notin DOMAIN seeds
          BY <1>2, <3>4
        <5>2. rounds'[a] = rounds[a]
          BY <1>3, <5>1 DEF SendPulls
        <5> QED
          BY <3>4, <5>2 DEF Inv, JoinedAfter
      <4>2. 0 <= Age(s)'
        BY <1>1, <1>4, <2>1, <2>2, <3>2 DEF Age
      <4> QED
        BY <4>1, <4>2
    <3> QED
      BY <3>3, <3>4
  <2> QED
    BY <1>8, <2>3, <2>4 DEF JoinedAfter
<1> QED
  BY <1>6, <1>7, <1>8

-----------------------------------------------------------------------------
(* Every step.                                                             *)

(* What a step that sends nothing needs to leave alone.                    *)
LEMMA Unsent ==
  ASSUME JoinedAfter, known_peers \subseteq known_peers',
         UNCHANGED <<program, messages, pull_round, asked, rounds>>
  PROVE  JoinedAfter'
<1>1. num' = num
  BY DEF num
<1>2. Turn' = Turn
  BY <1>1 DEF Turn
<1>3. \A s : Age(s)' = Age(s)
  BY <1>1, <1>2 DEF Age
<1> QED
  BY <1>1, <1>3 DEF JoinedAfter

LEMMA NextInv ==
  Inv /\ [Next]_vars => Inv'
<1> SUFFICES ASSUME Inv, [Next]_vars PROVE Inv'
  OBVIOUS
<1>1. /\ num \in Nat \ {0} /\ DOMAIN messages = 0 .. num - 1 /\ 0 \in DOMAIN messages
      /\ TypeOK /\ Built /\ Started /\ JoinedAfter
  BY Sizes DEF Inv
<1>2. /\ Entrypoint \in Addrs /\ Own \in Addrs /\ Peers \subseteq Addrs
      /\ Attempts \in Nat \ {0} /\ Windows \in Nat \ {0} /\ Sleep \in Nat \ {0}
      /\ PullEvery[program] \in Nat \ {0} /\ PruneEvery[program] \in Nat \ {0}
  BY <1>1, PullLoopAssumption DEF Addrs, TypeOK
<1>3. Max({Attempts, Windows}) \in Nat /\ Attempts <= Max({Attempts, Windows})
      /\ Windows <= Max({Attempts, Windows})
  BY <1>2, MaxOfTwo
<1>4. messages' = messages => Built' /\ num' = num
  BY <1>1 DEF Built, Requests, num
<1>5. FirstPull => asked' \in [Addrs -> SUBSET DOMAIN messages] /\ rounds' \in [Addrs -> 0 .. num]
  <2> DEFINE seeds == [a \in {Entrypoint} |-> {SingleMask}]
  <2> SUFFICES ASSUME SendPulls(seeds)
               PROVE  asked' \in [Addrs -> SUBSET DOMAIN messages] /\ rounds' \in [Addrs -> 0 .. num]
    BY DEF FirstPull
  <2>1. \A a \in DOMAIN seeds : seeds[a] \subseteq DOMAIN messages
    BY <1>1 DEF SingleMask
  <2> HIDE DEF seeds
  <2> QED
    BY <1>1, <2>1, SendTypes
<1>6. ASSUME NEW m \in Messages, Handshake(m) PROVE Inv'
  <2>1. UNCHANGED startUnchanged /\ pc = "ping"
    BY <1>6 DEF Handshake
  <2>2. program = "standalone"
    BY <1>1, <2>1 DEF Started, TypeOK, Programs
  <2>3. /\ pc' \in {"ping", "listen", "dead"}
        /\ tries' \in 0 .. Max({Attempts, Windows}) - 1
        /\ asked' \in [Addrs -> SUBSET DOMAIN messages] /\ rounds' \in [Addrs -> 0 .. num]
    <3>1. CASE FirstPull
      BY <1>3, <1>2, <1>5, <3>1 DEF FirstPull
    <3>2. CASE Die
      BY <1>1, <3>2 DEF Die, TypeOK
    <3>3. CASE tries + 1 < Attempts /\ tries' = tries + 1 /\ UNCHANGED <<pc, asked, rounds>>
      BY <1>1, <1>2, <1>3, <2>1, <3>3 DEF TypeOK
    <3> QED
      BY <1>6, <3>1, <3>2, <3>3 DEF Handshake
  <2>4. TypeOK'
    BY <1>1, <1>4, <2>1, <2>3 DEF TypeOK, startUnchanged, loopVars
  <2>5. Started' /\ JoinedAfter'
    BY <1>1, <2>1, <2>2 DEF Started, JoinedAfter, startUnchanged
  <2> QED
    BY <1>4, <2>1, <2>4, <2>5 DEF Inv, startUnchanged
<1>7. ASSUME NEW m \in Messages, Listen(m) PROVE Inv'
  <2>1. UNCHANGED startUnchanged /\ pc = "listen"
    BY <1>7 DEF Listen
  <2>2. program = "standalone"
    BY <1>1, <2>1 DEF Started, TypeOK, Programs
  <2>3. /\ pc' \in {"listen", "select", "dead"} /\ UNCHANGED <<asked, rounds>>
        /\ tries' \in 0 .. Max({Attempts, Windows}) - 1
    <3>1. CASE Die
      BY <1>1, <3>1 DEF Die, TypeOK
    <3>2. CASE tries + 1 < Windows /\ tries' = tries + 1 /\ UNCHANGED <<pc, asked, rounds>>
      BY <1>1, <1>2, <1>3, <2>1, <3>2 DEF TypeOK
    <3>3. CASE tries' = 0 /\ pc' = "select" /\ UNCHANGED <<asked, rounds>>
      BY <1>2, <1>3, <3>3
    <3> QED
      BY <1>7, <3>1, <3>2, <3>3 DEF Listen
  <2>4. TypeOK'
    BY <1>1, <1>4, <2>1, <2>3 DEF TypeOK, startUnchanged, loopVars
  <2>5. Started' /\ JoinedAfter'
    BY <1>1, <2>1, <2>2 DEF Started, JoinedAfter, startUnchanged
  <2> QED
    BY <1>4, <2>1, <2>4, <2>5 DEF Inv, startUnchanged
<1>8. CASE Tick
  <2>1. since_pull \in Nat /\ since_prune \in Nat
    BY <1>1, <1>2 DEF TypeOK
  <2>2. since_pull' \in 0 .. PullEvery[program] /\ since_prune' \in 0 .. PruneEvery[program]
    <3>1. /\ Min({since_pull + 1, PullEvery[program]}) \in 0 .. PullEvery[program]
          /\ Min({since_prune + 1, PruneEvery[program]}) \in 0 .. PruneEvery[program]
      <4>1. since_pull + 1 \in Nat /\ since_prune + 1 \in Nat
        BY <2>1
      <4> QED
        BY <1>2, <4>1, MinOfTwo
    <3> QED
      BY <1>8, <3>1 DEF Tick
  <2>3. slept' \in 0 .. Sleep
    BY <1>1, <1>2, <1>8 DEF Tick, TypeOK
  <2>4. TypeOK'
    BY <1>1, <1>4, <1>8, <2>2, <2>3 DEF TypeOK, Tick
  <2>5. Started' /\ JoinedAfter'
    BY <1>1, <1>8, Unsent DEF Started, Tick
  <2> QED
    BY <1>4, <1>8, <2>4, <2>5 DEF Inv, Tick
<1>9. CASE SleepArm
  <2>1. UNCHANGED <<program, messages, pc, tries>> /\ slept' = 0 /\ pc = "select"
    BY <1>9 DEF SleepArm
  <2>2. /\ known_peers \subseteq known_peers' /\ known_peers' \subseteq Addrs
        /\ contacts' \subseteq Addrs /\ since_prune' \in 0 .. PruneEvery[program]
    <3>1. CASE since_prune >= PruneEvery[program]
      BY <1>1, <1>2, <1>9, <3>1 DEF SleepArm, TypeOK
    <3>2. CASE ~(since_prune >= PruneEvery[program])
      BY <1>1, <1>9, <3>2 DEF SleepArm, TypeOK
    <3> QED
      BY <3>1, <3>2
  <2>3. since_pull' \in 0 .. PullEvery[program]
    BY <1>1, <1>2, <1>9 DEF SleepArm, TypeOK
  <2>4. /\ pull_round' \in 0 .. Pow2(RoundBits) - 1
        /\ asked' \in [Addrs -> SUBSET DOMAIN messages] /\ rounds' \in [Addrs -> 0 .. num]
        /\ JoinedAfter'
    <3>1. CASE program = "library" /\ PullLibrary
      BY <2>1, <2>2, <3>1, PullLibraryOrder
    <3>2. CASE program # "library" /\ PullStandalone
      <4> DEFINE seeds == [a \in known_peers |-> {SingleMask}]
      <4>1. SendPulls(seeds) /\ pull_round' = pull_round
        BY <3>2 DEF PullStandalone
      <4>2. \A a \in DOMAIN seeds : seeds[a] \subseteq DOMAIN messages
        BY <1>1 DEF SingleMask
      <4> HIDE DEF seeds
      <4>3. asked' \in [Addrs -> SUBSET DOMAIN messages] /\ rounds' \in [Addrs -> 0 .. num]
        BY <1>1, <4>1, <4>2, SendTypes
      <4> QED
        BY <1>1, <2>1, <3>2, <4>1, <4>3 DEF TypeOK, JoinedAfter
    <3>3. CASE UNCHANGED <<pull_round, asked, rounds>>
      BY <1>1, <2>1, <2>2, <3>3, Unsent DEF TypeOK
    <3> QED
      BY <1>9, <3>1, <3>2, <3>3 DEF SleepArm
  <2>5. TypeOK'
    BY <1>1, <1>2, <1>4, <2>1, <2>2, <2>3, <2>4 DEF TypeOK
  <2>6. Started'
    BY <1>1, <2>1, <2>2 DEF Started
  <2> QED
    BY <1>4, <2>1, <2>4, <2>5, <2>6 DEF Inv
<1>10. CASE LoopFails
  <2>1. TypeOK'
    BY <1>1, <1>4, <1>10 DEF TypeOK, LoopFails, Die, startUnchanged, loopVars
  <2>2. Started' /\ JoinedAfter'
    BY <1>1, <1>10, Unsent DEF Started, LoopFails, Die, startUnchanged
  <2> QED
    BY <1>4, <1>10, <2>1, <2>2 DEF Inv, LoopFails, startUnchanged
<1>11. ASSUME NEW new \in {{}} \cup {{a} : a \in Peers \cup {Own}}, Receive(new) PROVE Inv'
  <2>1. /\ contacts' \subseteq Addrs /\ known_peers' \subseteq Addrs
        /\ known_peers \subseteq known_peers'
    <3>1. new \subseteq Addrs
      BY <1>2
    <3> QED
      BY <1>1, <1>11, <3>1 DEF TypeOK, Receive
  <2>2. TypeOK'
    BY <1>1, <1>2, <1>4, <1>11, <2>1 DEF TypeOK, Receive
  <2>3. Started' /\ JoinedAfter'
    BY <1>1, <1>11, <2>1, Unsent DEF Started, Receive
  <2> QED
    BY <1>4, <1>11, <2>2, <2>3 DEF Inv, Receive
<1>12. CASE UNCHANGED vars
  <2>1. TypeOK' /\ Started'
    BY <1>1, <1>4, <1>12 DEF TypeOK, Started, vars, loopVars
  <2>2. JoinedAfter'
    BY <1>1, <1>12, Unsent DEF vars
  <2> QED
    BY <1>4, <1>12, <2>1, <2>2 DEF Inv, vars
<1> QED
  BY <1>6, <1>7, <1>8, <1>9, <1>10, <1>11, <1>12 DEF Next

(* At every point of both loops the requests are those of one call, the    *)
(* timers and the counter are within their bounds, and what the library    *)
(* did not ask a peer for had its turn before that peer's first round.     *)
THEOREM Invariance ==
  Spec => []Inv
BY InitInv, NextInv, PTL DEF Spec

(* lib.rs:140-216 the timers stay within their bounds, the counter wraps   *)
(* and what was sent are requests there are.                               *)
THEOREM TypeCorrect ==
  Spec => []TypeOK
<1>1. Inv => TypeOK
  BY DEF Inv
<1> QED
  BY <1>1, Invariance, PTL

(* pull_request.rs:24 no request exceeds a packet, whatever the sizes the  *)
(* filters have and however large our contact info is.                     *)
THEOREM RequestsFit ==
  Spec => []FitsPacket
<1>1. Inv => FitsPacket
  BY DEF Inv, Built, Requests, FitsPacket
<1> QED
  BY <1>1, Invariance, PTL

(* The blocks share no hash and leave none out: of all the requests        *)
(* exactly one asks for it.                                                *)
LEMMA OneAsksForEach ==
  ASSUME Built, NEW h \in Hashes
  PROVE  \E t \in DOMAIN messages :
           \A s \in DOMAIN messages : Matches(messages[s].filter, h) <=> s = t
<1>1. PICK bits : Requests(messages, bits)
  BY DEF Built
<1> DEFINE low == Pow2(WordBits - bits)
           blocks == Pow2(bits)
<1>2. /\ bits \in Nat /\ WordBits \in Nat /\ WordBits - bits \in Nat
      /\ bits + (WordBits - bits) = WordBits
  BY <1>1, PullFilterAssumption DEF Requests
<1>3. low \in Nat \ {0} /\ blocks \in Nat \ {0} /\ Pow2(WordBits) = blocks * low
  <2>1. Pow2(WordBits) = Pow2(bits) * Pow2(WordBits - bits)
    BY <1>2, Pow2Sum
  <2> QED
    BY <1>2, <2>1, Pow2Facts
<1>4. h \in Nat /\ h < blocks * low
  <2>1. Pow2(WordBits) \in Nat
    BY <1>2, Pow2Facts
  <2>2. h \in Nat /\ h < Pow2(WordBits)
    BY <2>1 DEF Hashes
  <2> QED
    BY <1>3, <2>2
<1>5. DOMAIN messages = 0 .. blocks - 1
  BY <1>1 DEF Requests
<1>6. ASSUME NEW s \in DOMAIN messages
      PROVE  Matches(messages[s].filter, h) <=> h \div low = (s * low + (low - 1)) \div low
  BY <1>1 DEF Requests, Matches
<1> HIDE DEF low, blocks
<1>7. /\ h \div low \in 0 .. blocks - 1
      /\ \A s \in 0 .. blocks - 1 : (s * low + (low - 1)) \div low = s
  BY <1>3, <1>4, BlockOf
<1>8. \A s \in DOMAIN messages : Matches(messages[s].filter, h) <=> s = h \div low
  BY <1>5, <1>6, <1>7
<1> QED
  BY <1>5, <1>7, <1>8

(* lib.rs:194-203 a peer that took part in as many rounds as there are     *)
(* partitions was asked for each of its values by exactly one request,     *)
(* whenever it joined and however often the counter of rounds wrapped.     *)
THEOREM CoverageSafe ==
  Spec => []RotationCovers
<1>1. Inv => RotationCovers
  <2> SUFFICES ASSUME Inv, program = "library", NEW a \in known_peers, rounds[a] >= num,
                      NEW h \in Hashes
               PROVE  Cardinality(Covered(a, h)) = 1
    BY DEF RotationCovers
  <2>1. /\ num \in Nat \ {0} /\ DOMAIN messages = 0 .. num - 1
        /\ a \in Addrs /\ asked[a] \subseteq DOMAIN messages /\ rounds[a] \in Nat
        /\ pull_round \in Nat /\ Built /\ JoinedAfter
    <3>1. num \in Nat \ {0} /\ DOMAIN messages = 0 .. num - 1 /\ Pow2(RoundBits) \in Nat
      BY Sizes DEF Inv
    <3> QED
      BY <3>1 DEF Inv, TypeOK
  <2>2. Turn \in 0 .. num - 1
    <3> DEFINE n == num
    <3>1. n \in Nat \ {0} /\ Turn = pull_round % n
      BY <2>1 DEF Turn
    <3> HIDE DEF n
    <3>2. Turn \in 0 .. n - 1
      BY <2>1, <3>1
    <3> QED
      BY <3>2 DEF n
  <2>3. asked[a] = DOMAIN messages
    <3> SUFFICES ASSUME NEW s \in DOMAIN messages \ asked[a] PROVE FALSE
      BY <2>1
    <3>1. rounds[a] <= Age(s)
      BY <2>1 DEF JoinedAfter
    <3>2. Age(s) < num
      BY <2>1, <2>2 DEF Age
    <3>3. Age(s) \in Int
      BY <2>1, <2>2 DEF Age
    <3> QED
      BY <2>1, <3>1, <3>2, <3>3
  <2>4. PICK t \in DOMAIN messages :
          \A s \in DOMAIN messages : Matches(messages[s].filter, h) <=> s = t
    BY <2>1, OneAsksForEach
  <2>5. Covered(a, h) = {t}
    BY <2>3, <2>4 DEF Covered
  <2> QED
    BY <2>5, FS_Singleton
<1> QED
  BY <1>1, Invariance, PTL
=============================================================================
