---------------------------- MODULE KallocProofs ----------------------------
(* The kernel heap gives every word to one owner, for heaps of any size.   *)
EXTENDS Kalloc, NatFacts, FiniteSetTheorems, SequenceTheorems

-----------------------------------------------------------------------------
(* Powers of two.                                                          *)

(* The recursive function Pow2 exists: finite ones agree and make it up.   *)
LEMMA Pow2Exists == Pow2 = [k \in Nat |-> IF k = 0 THEN 1 ELSE 2 * Pow2[k - 1]]
<1> DEFINE Is(g, m) == g = [k \in 0 .. m |-> IF k = 0 THEN 1 ELSE 2 * g[k - 1]]
           D == {m \in Nat : \E g : Is(g, m)}
<1>1. 0 \in D
  <2> DEFINE g == [k \in 0 .. 0 |-> 1]
  <2>1. Is(g, 0)
    OBVIOUS
  <2> QED BY <2>1
<1>2. ASSUME NEW m \in D PROVE m + 1 \in D
  <2>1. PICK g : Is(g, m)
    BY <1>2
  <2> DEFINE h == [k \in 0 .. (m + 1) |-> IF k = m + 1 THEN 2 * g[m] ELSE g[k]]
  <2>2. ASSUME NEW k \in 0 .. (m + 1)
        PROVE  h[k] = IF k = 0 THEN 1 ELSE 2 * h[k - 1]
    <3>1. CASE k = m + 1
      BY <3>1
    <3>2. CASE k # m + 1
      <4>1. k \in 0 .. m /\ h[k] = g[k]
        BY <3>2
      <4>2. g[k] = IF k = 0 THEN 1 ELSE 2 * g[k - 1]
        BY <2>1, <4>1
      <4>3. k # 0 => h[k - 1] = g[k - 1]
        BY <4>1
      <4> QED BY <4>1, <4>2, <4>3
    <3> QED BY <3>1, <3>2
  <2>3. Is(h, m + 1)
    BY <2>2
  <2>4. m + 1 \in Nat
    OBVIOUS
  <2> HIDE DEF h
  <2> QED BY <2>3, <2>4
<1>3. D = Nat
  <2> HIDE DEF D
  <2>1. D \in SUBSET Nat
    BY DEF D
  <2> QED BY <1>1, <1>2, <2>1, Closed
<1>4. ASSUME NEW g, NEW h, NEW m \in Nat, NEW n \in Nat, Is(g, m), Is(h, n)
      PROVE  \A k \in Nat : k <= m /\ k <= n => g[k] = h[k]
  <2> DEFINE E == {k \in Nat : k <= m /\ k <= n => g[k] = h[k]}
  <2>1. 0 \in E
    BY <1>4
  <2>2. ASSUME NEW k \in E PROVE k + 1 \in E
    <3>1. ASSUME k + 1 <= m, k + 1 <= n PROVE g[k + 1] = h[k + 1]
      <4>1. g[k] = h[k] /\ k + 1 \in 0 .. m /\ k + 1 \in 0 .. n /\ (k + 1) - 1 = k
        BY <3>1
      <4>2. g[k + 1] = 2 * g[k] /\ h[k + 1] = 2 * h[k]
        BY <1>4, <4>1
      <4> QED BY <4>1, <4>2
    <3> QED BY <3>1
  <2>3. E = Nat
    <3>1. E \in SUBSET Nat
      OBVIOUS
    <3> HIDE DEF E
    <3> QED BY <2>1, <2>2, <3>1, Closed
  <2> QED BY <2>3
<1> HIDE DEF Is
<1> DEFINE at(k) == CHOOSE g : Is(g, k)
           f == [k \in Nat |-> at(k)[k]]
<1>5. \A k \in Nat : Is(at(k), k)
  BY <1>3
<1> HIDE DEF at
<1>6. ASSUME NEW k \in Nat PROVE f[k] = IF k = 0 THEN 1 ELSE 2 * f[k - 1]
  <2>1. at(k)[k] = IF k = 0 THEN 1 ELSE 2 * at(k)[k - 1]
    BY <1>5 DEF Is
  <2>2. CASE k # 0
    <3>1. k - 1 \in Nat /\ k - 1 <= k
      BY <2>2
    <3>2. at(k)[k - 1] = at(k - 1)[k - 1]
      BY <1>4, <1>5, <3>1
    <3> QED BY <2>1, <2>2, <3>1, <3>2
  <2> QED BY <2>1, <2>2
<1>7. f = [k \in Nat |-> IF k = 0 THEN 1 ELSE 2 * f[k - 1]]
  <2>1. \A k \in Nat : f[k] = IF k = 0 THEN 1 ELSE 2 * f[k - 1]
    BY <1>6
  <2>2. f = [k \in Nat |-> f[k]]
    OBVIOUS
  <2> HIDE DEF f
  <2> QED BY <2>1, <2>2
<1> HIDE DEF f
<1>8. \E p : p = [k \in Nat |-> IF k = 0 THEN 1 ELSE 2 * p[k - 1]]
  BY <1>7
<1> QED BY <1>8 DEF Pow2

(* 1 << k doubles from one k to the next, starting at 1.                   *)
LEMMA Pow2Facts ==
  /\ Pow2[0] = 1
  /\ \A k \in Nat : Pow2[k] \in Nat \ {0} /\ Pow2[k + 1] = 2 * Pow2[k]
<1>1. Pow2[0] = 1 /\ \A k \in Nat : Pow2[k + 1] = 2 * Pow2[k]
  <2>1. \A k \in Nat : Pow2[k] = IF k = 0 THEN 1 ELSE 2 * Pow2[k - 1]
    BY Pow2Exists
  <2>2. \A k \in Nat : k + 1 \in Nat /\ k + 1 # 0 /\ (k + 1) - 1 = k
    OBVIOUS
  <2>3. Pow2[0] = 1
    BY <2>1
  <2> QED BY <2>1, <2>2, <2>3
<1> DEFINE D == {k \in Nat : Pow2[k] \in Nat \ {0}}
<1>2. D = Nat
  <2>1. 0 \in D
    BY <1>1
  <2>2. ASSUME NEW k \in D PROVE k + 1 \in D
    BY <1>1
  <2>3. D \in SUBSET Nat
    OBVIOUS
  <2> HIDE DEF D
  <2> QED BY <2>1, <2>2, <2>3, Closed
<1> QED BY <1>1, <1>2

(* A power is a multiple of every smaller one.                             *)
LEMMA Pow2Sum ==
  ASSUME NEW j \in Nat, NEW d \in Nat
  PROVE  Pow2[j + d] = Pow2[d] * Pow2[j]
<1> DEFINE D == {e \in Nat : Pow2[j + e] = Pow2[e] * Pow2[j]}
<1>1. 0 \in D
  BY Pow2Facts
<1>2. ASSUME NEW e \in D PROVE e + 1 \in D
  <2>1. Pow2[j + e] = Pow2[e] * Pow2[j]
    OBVIOUS
  <2>2. Pow2[e] \in Nat /\ Pow2[j] \in Nat /\ Pow2[e + 1] = 2 * Pow2[e]
    BY Pow2Facts
  <2>3. Pow2[(j + e) + 1] = 2 * Pow2[j + e]
    BY Pow2Facts
  <2>4. (j + e) + 1 = j + (e + 1)
    OBVIOUS
  <2>5. 2 * (Pow2[e] * Pow2[j]) = (2 * Pow2[e]) * Pow2[j]
    BY <2>2
  <2>6. Pow2[j + (e + 1)] = Pow2[e + 1] * Pow2[j]
    BY <2>1, <2>2, <2>3, <2>4, <2>5
  <2> QED BY <2>6
<1>3. D = Nat
  <2>1. D \in SUBSET Nat
    OBVIOUS
  <2> HIDE DEF D
  <2> QED BY <1>1, <1>2, <2>1, Closed
<1> QED BY <1>3

(* Comparing two powers.                                                   *)
LEMMA Pow2Monotone ==
  ASSUME NEW j \in Nat, NEW k \in Nat, j <= k
  PROVE  Pow2[j] <= Pow2[k] /\ \E m \in Nat \ {0} : Pow2[k] = m * Pow2[j]
<1>1. k - j \in Nat /\ j + (k - j) = k
  OBVIOUS
<1>2. Pow2[k] = Pow2[k - j] * Pow2[j]
  BY <1>1, Pow2Sum
<1>3. Pow2[k - j] \in Nat \ {0} /\ Pow2[j] \in Nat \ {0}
  BY <1>1, Pow2Facts
<1>4. Pow2[j] <= Pow2[k - j] * Pow2[j]
  BY <1>3
<1> QED BY <1>2, <1>3, <1>4

(* The sizes of blocks double from order to order.                         *)
LEMMA OrderSizes ==
  ASSUME NEW k \in Nat
  PROVE  /\ OrderSize(k) \in Nat \ {0}
         /\ OrderSize(k + 1) = 2 * OrderSize(k)
         /\ \A j \in 0 .. k : \E m \in Nat \ {0} : OrderSize(k) = m * OrderSize(j)
         /\ \A j \in 0 .. k : OrderSize(j) <= OrderSize(k)
         /\ \A j \in 0 .. k : OrderSize(k) = Pow2[k - j] * OrderSize(j)
<1>1. MinBlock \in Nat \ {0}
  BY Pow2Facts, BuddyAssumption DEF Powers
<1>2. Pow2[k] \in Nat \ {0} /\ Pow2[k + 1] = 2 * Pow2[k]
  BY Pow2Facts
<1>3. OrderSize(k) \in Nat \ {0}
  BY <1>1, <1>2 DEF OrderSize
<1>4. OrderSize(k + 1) = 2 * OrderSize(k)
  BY <1>1, <1>2 DEF OrderSize
<1>5. ASSUME NEW j \in 0 .. k
      PROVE  /\ OrderSize(k) = Pow2[k - j] * OrderSize(j)
             /\ Pow2[k - j] \in Nat \ {0} /\ OrderSize(j) \in Nat \ {0}
             /\ OrderSize(j) <= OrderSize(k)
  <2>1. Pow2[j] \in Nat \ {0} /\ Pow2[k - j] \in Nat \ {0} /\ Pow2[k] = Pow2[k - j] * Pow2[j]
    <3>1. k - j \in Nat /\ j \in Nat /\ j + (k - j) = k
      OBVIOUS
    <3> QED BY <3>1, Pow2Facts, Pow2Sum
  <2>2. MinBlock * (Pow2[k - j] * Pow2[j]) = Pow2[k - j] * (MinBlock * Pow2[j])
    BY <1>1, <2>1
  <2>3. OrderSize(k) = Pow2[k - j] * OrderSize(j) /\ OrderSize(j) \in Nat \ {0}
    BY <1>1, <2>1, <2>2 DEF OrderSize
  <2>4. OrderSize(j) <= Pow2[k - j] * OrderSize(j)
    BY <2>1, <2>3
  <2> QED BY <2>1, <2>3, <2>4
<1> QED BY <1>3, <1>4, <1>5

-----------------------------------------------------------------------------
(* Blocks, as pairs <<address, order>>.                                    *)

\* A block of order k starts at a multiple of its size, inside the heap.
Aligned(b, k) ==
    /\ \E i \in Nat : b = Base + i * OrderSize(k)
    /\ b + OrderSize(k) <= Base + HeapSize

AllBlocks == {e \in HeapWords \X Orders : Aligned(e[1], e[2])}

\* Is word w in block e?
Holds(e, w) == e[1] <= w /\ w < e[1] + OrderSize(e[2])

(* Orders are numbered from 0 to Top, and the heap is one block of order   *)
(* Top.                                                                    *)
LEMMA OrdersFacts ==
  /\ Orders \subseteq Nat /\ Top \in Orders /\ \A k \in Orders : k <= Top
  /\ Base \in Nat \ {0} /\ HeapSize \in Nat \ {0} /\ HeapSize = OrderSize(Top)
<1>1. /\ Orders \subseteq Nat /\ Top \in Orders /\ \A k \in Orders : k <= Top
      /\ Base \in Nat \ {0}
  BY BuddyAssumption DEF Orders, Top
<1>2. HeapSize \in Nat \ {0}
  BY <1>1, OrderSizes DEF HeapSize
<1> QED BY <1>1, <1>2 DEF HeapSize

(* A block of order k that is aligned lies inside the heap.                *)
LEMMA AlignedFacts ==
  ASSUME NEW k \in Orders, NEW b, Aligned(b, k)
  PROVE  /\ b \in Nat /\ b \in HeapWords /\ <<b, k>> \in AllBlocks
         /\ k \in Nat /\ OrderSize(k) \in Nat \ {0}
<1>1. k \in Nat /\ OrderSize(k) \in Nat \ {0} /\ Base \in Nat \ {0} /\ HeapSize \in Nat
  BY OrdersFacts, OrderSizes
<1>2. PICK i \in Nat : b = Base + i * OrderSize(k)
  BY DEF Aligned
<1>3. i * OrderSize(k) \in Nat
  BY <1>1
<1>4. b \in Nat /\ b \in HeapWords
  BY <1>1, <1>2, <1>3 DEF Aligned, HeapWords
<1> QED BY <1>1, <1>4 DEF AllBlocks

(* Two blocks that share a word are nested.                                *)
LEMMA Nested ==
  ASSUME NEW j \in Orders, NEW k \in Orders, j <= k, NEW b, NEW c,
         Aligned(b, j), Aligned(c, k),
         NEW w \in Int, Holds(<<b, j>>, w), Holds(<<c, k>>, w)
  PROVE  c <= b /\ b + OrderSize(j) <= c + OrderSize(k)
<1>1. j \in Nat /\ k \in Nat /\ OrderSize(j) \in Nat \ {0} /\ OrderSize(k) \in Nat \ {0} /\ Base \in Nat
  BY OrdersFacts, OrderSizes
<1>2. PICK m \in Nat \ {0} : OrderSize(k) = m * OrderSize(j)
  BY <1>1, OrderSizes
<1>3. PICK i \in Nat : b = Base + i * OrderSize(j)
  BY DEF Aligned
<1>4. PICK l \in Nat : c = Base + l * OrderSize(k)
  BY DEF Aligned
<1> DEFINE s == OrderSize(j)
<1>5. b <= w /\ w < b + s /\ c <= w /\ w < c + OrderSize(k)
  BY DEF Holds
<1>6. l * OrderSize(k) = (l * m) * s /\ l * m \in Nat /\ i * s \in Nat /\ (l * m) * s \in Nat
  BY <1>1, <1>2
<1>7. (i + 1) * s = i * s + s /\ (l * m + m) * s = (l * m) * s + OrderSize(k)
  BY <1>1, <1>2, <1>6
<1> HIDE DEF s
<1>s. s \in Nat \ {0}
  BY <1>1 DEF s
<1>8. (l * m) * s < (i + 1) * s
  BY <1>1, <1>3, <1>4, <1>5, <1>6, <1>7, <1>s DEF s
<1>9. i * s < (l * m + m) * s
  BY <1>1, <1>3, <1>4, <1>5, <1>6, <1>7, <1>s DEF s
<1>n. l * m \in Int /\ i + 1 \in Int /\ i \in Int /\ l * m + m \in Int
  BY <1>6
<1>10. (l * m) * s + s <= (i + 1) * s
  BY <1>8, <1>n, <1>s, Apart
<1>11. i * s + s <= (l * m + m) * s
  BY <1>9, <1>n, <1>s, Apart
<1>12. (l * m) * s <= i * s
  BY <1>10, <1>7, <1>6, <1>s
<1> QED
  <2>1. b = Base + i * s
    BY <1>3 DEF s
  <2>2. c = Base + (l * m) * s
    BY <1>4, <1>6
  <2>3. c + OrderSize(k) = Base + (l * m + m) * s
    BY <2>2, <1>7, <1>1, <1>6
  <2>4. b + s <= c + OrderSize(k)
    BY <2>1, <2>3, <1>11, <1>1, <1>6, <1>s, <1>7
  <2>5. c <= b
    BY <2>1, <2>2, <1>12, <1>1, <1>6
  <2> QED BY <2>4, <2>5 DEF s

(* Two aligned blocks of the same order that share a word are one block.   *)
LEMMA SameOrder ==
  ASSUME NEW k \in Orders, NEW b, NEW c, Aligned(b, k), Aligned(c, k),
         NEW w \in Int, Holds(<<b, k>>, w), Holds(<<c, k>>, w)
  PROVE  b = c
<1>1. k <= k /\ b \in Nat /\ c \in Nat
  BY AlignedFacts
<1>2. c <= b
  BY <1>1, Nested
<1>3. b <= c
  BY <1>1, Nested
<1> QED BY <1>1, <1>2, <1>3

-----------------------------------------------------------------------------
(* Buddies: the halves of a block, and BuddyOf and Merged on them.         *)

(* A block of order k + 1 falls into two buddies of order k.               *)
LEMMA Halves ==
  ASSUME NEW k \in Orders, k + 1 \in Orders, NEW p, Aligned(p, k + 1)
  PROVE  /\ Aligned(p, k) /\ Aligned(p + OrderSize(k), k)
         /\ BuddyOf(k, p) = p + OrderSize(k)
         /\ BuddyOf(k, p + OrderSize(k)) = p
         /\ OrderSize(k + 1) = OrderSize(k) + OrderSize(k)
<1> DEFINE s == OrderSize(k)
<1>1. k \in Nat /\ Base \in Nat /\ HeapSize \in Nat /\ s \in Nat \ {0} /\ OrderSize(k + 1) = 2 * s
  BY OrdersFacts, OrderSizes
<1>2. PICK i \in Nat : p = Base + i * OrderSize(k + 1)
  BY DEF Aligned
<1> HIDE DEF s
<1>3. /\ i * (2 * s) = (2 * i) * s /\ (2 * i) * s + s = (2 * i + 1) * s
      /\ (2 * i) * s \in Nat /\ (2 * i + 1) * s \in Nat
  BY <1>1
<1>4. p = Base + (2 * i) * s /\ p + s = Base + (2 * i + 1) * s
  BY <1>1, <1>2, <1>3
<1>5. p + 2 * s <= Base + HeapSize
  BY <1>1 DEF Aligned
<1>6. Aligned(p, k) /\ Aligned(p + s, k)
  <2>1. 2 * i \in Nat /\ 2 * i + 1 \in Nat
    OBVIOUS
  <2>2. p \in Nat /\ p + s <= Base + HeapSize /\ (p + s) + s <= Base + HeapSize
    BY <1>1, <1>3, <1>4, <1>5
  <2> QED BY <2>1, <2>2, <1>4 DEF Aligned, s
<1>7. (p - Base) \div s = 2 * i /\ ((p + s) - Base) \div s = 2 * i + 1
  <2>1. 0 \in 0 .. s - 1
    BY <1>1
  <2>2. ((2 * i) * s + 0) \div s = 2 * i
    BY <1>1, <2>1, DivisionIsUnique
  <2>3. ((2 * i + 1) * s + 0) \div s = 2 * i + 1
    BY <1>1, <2>1, DivisionIsUnique
  <2>4. p - Base = (2 * i) * s + 0 /\ (p + s) - Base = (2 * i + 1) * s + 0
    BY <1>1, <1>3, <1>4
  <2> QED BY <2>2, <2>3, <2>4
<1>8. (2 * i) % 2 = 0 /\ (2 * i + 1) % 2 # 0
  OBVIOUS
<1>9. BuddyOf(k, p) = p + s
  BY <1>7, <1>8 DEF BuddyOf, s
<1>10. BuddyOf(k, p + s) = (p + s) - s
  BY <1>7, <1>8 DEF BuddyOf, s
<1>11. (p + s) - s = p
  BY <1>1, <1>3, <1>4
<1> QED BY <1>1, <1>6, <1>9, <1>10, <1>11 DEF s

(* The block of order k around an address of the heap.                     *)
LEMMA MergedAligned ==
  ASSUME NEW k \in Orders, NEW w \in HeapWords
  PROVE  /\ Aligned(Merged(w, k), k)
         /\ Holds(<<Merged(w, k), k>>, w)
         /\ Merged(w, k) = Base + ((w - Base) \div OrderSize(k)) * OrderSize(k)
<1> DEFINE s == OrderSize(k)
           x == w - Base
           q == x \div s
<1>1. k \in Nat /\ Top \in Nat /\ k \in 0 .. Top /\ Base \in Nat /\ HeapSize \in Nat /\ s \in Nat \ {0}
      /\ HeapSize = OrderSize(Top)
  BY OrdersFacts, OrderSizes
<1>2. x \in Nat /\ x < HeapSize /\ w = Base + x /\ w \in Nat
  BY <1>1 DEF HeapWords
<1>3. PICK m \in Nat \ {0} : HeapSize = m * s
  BY <1>1, OrderSizes
<1> HIDE DEF s, x
<1>4. q \in Nat /\ x % s \in 0 .. s - 1 /\ x = q * s + (x % s)
  BY <1>1, <1>2, Division
<1> HIDE DEF q
<1>5. q * s \in Nat /\ m * s \in Nat
  BY <1>1, <1>4
<1>6. q * s < m * s
  BY <1>1, <1>2, <1>3, <1>4, <1>5
<1>7. q * s + s <= m * s
  BY <1>1, <1>4, <1>6, Apart
<1>8. Merged(w, k) = Base + q * s
  <2>1. Merged(w, k) = w - (x % s)
    BY DEF Merged, x, s
  <2> QED BY <2>1, <1>1, <1>2, <1>4, <1>5
<1>9. Aligned(Merged(w, k), k)
  <2>1. (Base + q * s) + s <= Base + HeapSize
    BY <1>1, <1>3, <1>5, <1>7
  <2> QED BY <1>4, <1>8, <2>1 DEF Aligned, s
<1>10. Holds(<<Merged(w, k), k>>, w)
  <2>1. Base + q * s <= w /\ w < (Base + q * s) + s
    BY <1>1, <1>2, <1>4, <1>5
  <2> QED BY <2>1, <1>8 DEF Holds, s
<1> QED BY <1>8, <1>9, <1>10 DEF q, x, s

(* An aligned block is the one around its own address.                     *)
LEMMA MergedOfAligned ==
  ASSUME NEW k \in Orders, NEW b, Aligned(b, k)
  PROVE  Merged(b, k) = b
<1>1. b \in HeapWords /\ b \in Nat /\ OrderSize(k) \in Nat \ {0}
  BY AlignedFacts
<1>2. Aligned(Merged(b, k), k) /\ Holds(<<Merged(b, k), k>>, b)
  BY <1>1, MergedAligned
<1>3. Holds(<<b, k>>, b)
  BY <1>1 DEF Holds
<1> QED BY <1>1, <1>2, <1>3, SameOrder

(* A block below the top order and its buddy are the halves of the block   *)
(* one order higher.                                                       *)
LEMMA Buddies ==
  ASSUME NEW k \in Orders, k # Top, NEW b, Aligned(b, k)
  PROVE  LET p == Merged(b, k + 1)
             c == BuddyOf(k, b)
         IN  /\ k + 1 \in Orders /\ Aligned(p, k + 1)
             /\ \/ b = p /\ c = p + OrderSize(k)
                \/ b = p + OrderSize(k) /\ c = p
             /\ Aligned(c, k) /\ c # b /\ BuddyOf(k, c) = b
<1> DEFINE p == Merged(b, k + 1)
           s == OrderSize(k)
<1>1. k + 1 \in Orders /\ k \in Nat
  BY BuddyAssumption DEF Orders, Top
<1>2. b \in HeapWords /\ b \in Nat /\ s \in Nat \ {0}
  BY AlignedFacts
<1>3. Aligned(p, k + 1) /\ Holds(<<p, k + 1>>, b)
  BY <1>1, <1>2, MergedAligned
<1>4. p \in Nat
  BY <1>1, <1>3, AlignedFacts
<1> HIDE DEF p
<1>5. /\ Aligned(p, k) /\ Aligned(p + s, k) /\ OrderSize(k + 1) = s + s
      /\ BuddyOf(k, p) = p + s /\ BuddyOf(k, p + s) = p
  BY <1>1, <1>3, Halves
<1>6. Holds(<<b, k>>, b)
  BY <1>2 DEF Holds
<1>7. p <= b /\ b < p + (s + s)
  BY <1>3, <1>5 DEF Holds
<1> HIDE DEF s
<1>8. CASE b < p + s
  <2>1. Holds(<<p, k>>, b)
    BY <1>7, <1>8 DEF Holds, s
  <2>2. b = p
    BY <2>1, <1>2, <1>5, <1>6, SameOrder
  <2> QED BY <2>2, <1>1, <1>3, <1>4, <1>5, <1>2 DEF p, s
<1>9. CASE p + s <= b
  <2>1. Holds(<<p + s, k>>, b)
    <3>1. b < (p + s) + s
      BY <1>7, <1>2, <1>4
    <3> QED BY <3>1, <1>9 DEF Holds, s
  <2>2. b = p + s
    BY <2>1, <1>2, <1>5, <1>6, SameOrder
  <2> QED BY <2>2, <1>1, <1>3, <1>4, <1>5, <1>2 DEF p, s
<1>10. b < p + s \/ p + s <= b
  BY <1>2, <1>4
<1> QED BY <1>8, <1>9, <1>10

(* Merging twice is merging once.                                          *)
LEMMA MergedTwice ==
  ASSUME NEW k \in Orders, NEW w \in HeapWords, k + 1 \in Orders
  PROVE  Merged(Merged(w, k), k + 1) = Merged(w, k + 1)
<1> DEFINE b == Merged(w, k)
           p == Merged(w, k + 1)
           r == Merged(b, k + 1)
<1>1. w \in Int /\ k \in Int /\ k <= k + 1
  BY OrdersFacts DEF HeapWords
<1>2. Aligned(b, k) /\ Holds(<<b, k>>, w) /\ Aligned(p, k + 1) /\ Holds(<<p, k + 1>>, w)
  BY MergedAligned
<1> HIDE DEF b, p
<1>3. p <= b /\ b + OrderSize(k) <= p + OrderSize(k + 1)
  BY <1>1, <1>2, Nested
<1>4. b \in HeapWords /\ b \in Nat /\ OrderSize(k) \in Nat \ {0} /\ p \in Nat /\ OrderSize(k + 1) \in Nat
  BY <1>2, AlignedFacts
<1>5. Aligned(r, k + 1) /\ Holds(<<r, k + 1>>, b)
  BY <1>4, MergedAligned
<1>6. Holds(<<p, k + 1>>, b)
  BY <1>3, <1>4 DEF Holds
<1> HIDE DEF r
<1>7. r = p
  BY <1>2, <1>4, <1>5, <1>6, SameOrder
<1> QED BY <1>7 DEF r, p, b

-----------------------------------------------------------------------------
(* Tilings of the heap by blocks.                                          *)

Tiling(T) ==
    /\ T \subseteq AllBlocks
    /\ \A e, f \in T : \A w \in HeapWords : Holds(e, w) /\ Holds(f, w) => e = f
    /\ \A w \in HeapWords : \E e \in T : Holds(e, w)

(* A block holds its own address.                                          *)
LEMMA HoldsItself ==
  ASSUME NEW e \in AllBlocks
  PROVE  /\ e = <<e[1], e[2]>> /\ e[1] \in HeapWords /\ e[1] \in Nat
         /\ e[2] \in Orders /\ e[2] \in Nat
         /\ Aligned(e[1], e[2]) /\ OrderSize(e[2]) \in Nat \ {0} /\ Holds(e, e[1])
<1>1. e = <<e[1], e[2]>> /\ e[1] \in HeapWords /\ e[2] \in Orders /\ Aligned(e[1], e[2])
  BY DEF AllBlocks
<1>2. e[1] \in Nat /\ OrderSize(e[2]) \in Nat \ {0} /\ e[2] \in Nat
  BY <1>1, AlignedFacts
<1> QED BY <1>1, <1>2 DEF Holds

(* The words of a block are those of its halves, and no word is in both.   *)
LEMMA HalvesHold ==
  ASSUME NEW k \in Orders, k + 1 \in Orders, NEW p, Aligned(p, k + 1), NEW w \in HeapWords
  PROVE  /\ Holds(<<p, k + 1>>, w) <=> Holds(<<p, k>>, w) \/ Holds(<<p + OrderSize(k), k>>, w)
         /\ ~ (Holds(<<p, k>>, w) /\ Holds(<<p + OrderSize(k), k>>, w))
<1> DEFINE s == OrderSize(k)
<1>1. p \in Nat /\ w \in Nat /\ s \in Nat \ {0} /\ OrderSize(k + 1) = s + s
  <2>1. w \in Nat
    BY OrdersFacts DEF HeapWords
  <2> QED BY <2>1, Halves, AlignedFacts
<1> HIDE DEF s
<1>2. Holds(<<p, k + 1>>, w) <=> p <= w /\ w < p + (s + s)
  BY <1>1 DEF Holds
<1>3. Holds(<<p, k>>, w) <=> p <= w /\ w < p + s
  BY DEF Holds, s
<1>4. Holds(<<p + s, k>>, w) <=> p + s <= w /\ w < (p + s) + s
  BY DEF Holds, s
<1>5. Holds(<<p, k + 1>>, w) <=> Holds(<<p, k>>, w) \/ Holds(<<p + s, k>>, w)
  BY <1>1, <1>2, <1>3, <1>4
<1>6. ~ (Holds(<<p, k>>, w) /\ Holds(<<p + s, k>>, w))
  BY <1>1, <1>3, <1>4
<1> QED BY <1>5, <1>6 DEF s

(* Cutting a block of a tiling into its halves gives a tiling;             *)
LEMMA Cut ==
  ASSUME NEW T, Tiling(T), NEW k \in Orders, k + 1 \in Orders, NEW p, <<p, k + 1>> \in T
  PROVE  Tiling((T \ {<<p, k + 1>>}) \union {<<p, k>>, <<p + OrderSize(k), k>>})
<1> DEFINE e == <<p, k + 1>>
           l == <<p, k>>
           u == <<p + OrderSize(k), k>>
           U == (T \ {e}) \union {l, u}
<1>1. T \subseteq AllBlocks
  BY DEF Tiling
<1>2. Aligned(p, k + 1)
  BY <1>1 DEF AllBlocks
<1>3. l \in AllBlocks /\ u \in AllBlocks
  BY <1>2, Halves, AlignedFacts
<1>4. \A w \in HeapWords : (Holds(e, w) <=> Holds(l, w) \/ Holds(u, w)) /\ ~ (Holds(l, w) /\ Holds(u, w))
  BY <1>2, HalvesHold
<1>5. e \in T
  OBVIOUS
<1> HIDE DEF e, l, u
<1>6. ASSUME NEW f \in U, NEW g \in U, NEW w \in HeapWords, Holds(f, w), Holds(g, w) PROVE f = g
  <2>1. CASE f \in T \ {e} /\ g \in T \ {e}
    BY <1>6, <2>1 DEF Tiling
  <2>2. CASE f \in T \ {e} /\ g \in {l, u}
    BY <1>4, <1>5, <1>6, <2>2 DEF Tiling
  <2>3. CASE f \in {l, u} /\ g \in T \ {e}
    BY <1>4, <1>5, <1>6, <2>3 DEF Tiling
  <2>4. CASE f \in {l, u} /\ g \in {l, u}
    BY <1>4, <1>6, <2>4
  <2> QED BY <1>6, <2>1, <2>2, <2>3, <2>4
<1>7. ASSUME NEW w \in HeapWords PROVE \E f \in U : Holds(f, w)
  <2>1. PICK f \in T : Holds(f, w)
    BY DEF Tiling
  <2>2. CASE f = e
    BY <1>4, <2>1, <2>2
  <2>3. CASE f # e
    BY <2>1, <2>3
  <2> QED BY <2>2, <2>3
<1>8. U \subseteq AllBlocks
  BY <1>1, <1>3
<1>9. Tiling(U)
  BY <1>6, <1>7, <1>8 DEF Tiling
<1> QED BY <1>9 DEF e, l, u

(* and so does joining two buddies to their parent.                        *)
LEMMA Join ==
  ASSUME NEW T, Tiling(T), NEW k \in Orders, k + 1 \in Orders, NEW p, Aligned(p, k + 1),
         <<p, k>> \in T, <<p + OrderSize(k), k>> \in T
  PROVE  Tiling((T \ {<<p, k>>, <<p + OrderSize(k), k>>}) \union {<<p, k + 1>>})
<1> DEFINE e == <<p, k + 1>>
           l == <<p, k>>
           u == <<p + OrderSize(k), k>>
           U == (T \ {l, u}) \union {e}
<1>1. T \subseteq AllBlocks
  BY DEF Tiling
<1>3. e \in AllBlocks
  BY AlignedFacts
<1>4. \A w \in HeapWords : Holds(e, w) <=> Holds(l, w) \/ Holds(u, w)
  BY HalvesHold
<1>5. l \in T /\ u \in T
  OBVIOUS
<1> HIDE DEF e, l, u
<1>6. ASSUME NEW f \in U, NEW g \in U, NEW w \in HeapWords, Holds(f, w), Holds(g, w) PROVE f = g
  <2>1. CASE f \in T \ {l, u} /\ g \in T \ {l, u}
    BY <1>6, <2>1 DEF Tiling
  <2>2. CASE f \in T \ {l, u} /\ g = e
    BY <1>4, <1>5, <1>6, <2>2 DEF Tiling
  <2>3. CASE f = e /\ g \in T \ {l, u}
    BY <1>4, <1>5, <1>6, <2>3 DEF Tiling
  <2> QED BY <1>6, <2>1, <2>2, <2>3
<1>7. ASSUME NEW w \in HeapWords PROVE \E f \in U : Holds(f, w)
  <2>1. PICK f \in T : Holds(f, w)
    BY DEF Tiling
  <2>2. CASE f \in {l, u}
    BY <1>4, <2>1, <2>2
  <2>3. CASE f \notin {l, u}
    BY <2>1, <2>3
  <2> QED BY <2>2, <2>3
<1>8. U \subseteq AllBlocks
  BY <1>1, <1>3
<1>9. Tiling(U)
  BY <1>6, <1>7, <1>8 DEF Tiling
<1> QED BY <1>9 DEF e, l, u

(* Two blocks of a tiling that start at the same address are one block.    *)
LEMMA OneAtAddress ==
  ASSUME NEW T, Tiling(T), NEW e \in T, NEW f \in AllBlocks, NEW w \in HeapWords,
         Holds(e, w), Holds(f, w), f \in T
  PROVE  e = f
BY DEF Tiling

-----------------------------------------------------------------------------
(* The free lists (pool), with the blocks handed out, tile the heap.       *)

FreeSet(pool) == {e \in HeapWords \X Orders : e[1] \in pool[e[2]]}

\* The invariant of the buddy allocator: used is the set of blocks handed out.
Tiled(pool, used) ==
    /\ pool \in [Orders -> SUBSET HeapWords]
    /\ Tiling(FreeSet(pool) \union used)
    /\ FreeSet(pool) \intersect used = {}
    /\ \A k \in Orders : k # Top => \A b \in pool[k] : BuddyOf(k, b) \notin pool[k]

(* What is on a free list is an aligned block of that list's order.        *)
LEMMA FreeSetFacts ==
  ASSUME NEW pool, NEW used, Tiled(pool, used)
  PROVE  \A k \in Orders : \A b \in pool[k] :
           /\ <<b, k>> \in FreeSet(pool) /\ <<b, k>> \in AllBlocks
           /\ Aligned(b, k) /\ b \in HeapWords
<1>1. ASSUME NEW k \in Orders, NEW b \in pool[k] PROVE <<b, k>> \in FreeSet(pool) /\ b \in HeapWords
  BY DEF Tiled, FreeSet
<1>2. FreeSet(pool) \subseteq AllBlocks
  BY DEF Tiled, Tiling
<1>3. \A e \in AllBlocks : Aligned(e[1], e[2])
  BY DEF AllBlocks
<1> QED BY <1>1, <1>2, <1>3

(* allocate, once it has found a block: the block asked for is cut out of  *)
(* it and the other halves return to the lists.                            *)
LEMMA SplitTiles ==
  ASSUME NEW pool, NEW used, Tiled(pool, used),
         NEW first \in Orders, NEW need \in Orders, need <= first,
         NEW block \in pool[first], \A j \in need .. first - 1 : pool[j] = {}
  PROVE  /\ Tiled(Split(pool, block, first, need), used \union {<<block, need>>})
         /\ <<block, need>> \notin used /\ block \in HeapWords
<1> DEFINE T == FreeSet(pool) \union used
           e0 == <<block, first>>
           Uppers(n) == {<<block + OrderSize(j), j>> : j \in n .. first - 1}
           P(n) == ((T \ {e0}) \union Uppers(n)) \union {<<block, n>>}
           fs == Split(pool, block, first, need)
<1>1. /\ pool \in [Orders -> SUBSET HeapWords] /\ Tiling(T) /\ FreeSet(pool) \intersect used = {}
      /\ e0 \in FreeSet(pool) /\ e0 \in AllBlocks /\ block \in HeapWords /\ T \subseteq AllBlocks
  BY FreeSetFacts DEF Tiled, Tiling
<1>2. /\ first \in Nat /\ need \in Nat /\ block \in Nat /\ \A j \in need .. first : j \in Orders /\ j \in Nat
      /\ Aligned(block, first)
  <2>1. first \in Nat /\ need \in Nat /\ \A j \in need .. first : j \in Orders /\ j \in Nat
    <3>1. NOrders \in Nat /\ first \in 0 .. NOrders - 1 /\ need \in 0 .. NOrders - 1
      BY BuddyAssumption DEF Orders
    <3> QED BY <3>1 DEF Orders
  <2>2. block \in Nat /\ Aligned(block, first)
    BY <1>1, HoldsItself
  <2> QED BY <2>1, <2>2
<1>3. \A j \in need .. first - 1 : OrderSize(j) \in Nat \ {0} /\ OrderSize(j) < OrderSize(first)
                                   /\ OrderSize(first) \in Nat
  <2> TAKE j \in need .. first - 1
  <2>1. j \in Nat /\ j + 1 \in 0 .. first
    BY <1>2
  <2>2. OrderSize(j) \in Nat \ {0} /\ OrderSize(j + 1) = 2 * OrderSize(j)
    BY <2>1, OrderSizes
  <2>3. OrderSize(j + 1) <= OrderSize(first) /\ OrderSize(first) \in Nat
    BY <1>2, <2>1, OrderSizes
  <2> QED BY <2>2, <2>3
<1>4. \A m \in Orders : <<block, m>> \in T => m = first
  <2> TAKE m \in Orders
  <2> SUFFICES ASSUME <<block, m>> \in T PROVE m = first
    OBVIOUS
  <2>1. <<block, m>> \in AllBlocks
    BY <1>1
  <2>2. Holds(<<block, m>>, block) /\ Holds(e0, block)
    <3>1. Holds(<<block, m>>, block)
      BY <2>1, HoldsItself
    <3>2. Holds(e0, block)
      BY <1>1, HoldsItself
    <3> QED BY <3>1, <3>2
  <2>3. e0 \in T /\ e0 \in AllBlocks
    BY <1>1
  <2> HIDE DEF T
  <2>4. e0 = <<block, m>>
    BY <1>1, <2>1, <2>2, <2>3, OneAtAddress
  <2> QED BY <2>4
<1> HIDE DEF T
<1>5. Tiling(P(need))
  <2> DEFINE D == {d \in Nat : d <= first - need => Tiling(P(first - d))}
  <2>1. 0 \in D
    <3>1. first - 0 = first /\ Uppers(first) = {}
      BY <1>2
    <3>2. P(first) = T
      BY <3>1, <1>1 DEF T
    <3> QED BY <3>1, <3>2, <1>1
  <2>2. ASSUME NEW d \in D PROVE d + 1 \in D
    <3> SUFFICES ASSUME d + 1 <= first - need PROVE Tiling(P(first - (d + 1)))
      OBVIOUS
    <3> DEFINE n == first - (d + 1)
               lo == <<block, n>>
               up == <<block + OrderSize(n), n>>
               mid == <<block, n + 1>>
    <3>1. /\ n \in Nat /\ n \in need .. first - 1 /\ n + 1 = first - d /\ n + 1 \in need .. first
          /\ n \in Orders /\ n + 1 \in Orders
      BY <1>2
    <3>2. Tiling(P(n + 1))
      BY <1>2, <3>1
    <3> HIDE DEF n
    <3>3. mid \notin T \ {e0}
      BY <1>4, <3>1
    <3>4. mid \notin Uppers(n + 1)
      <4> SUFFICES ASSUME NEW j \in n + 1 .. first - 1, mid = <<block + OrderSize(j), j>>
                   PROVE  FALSE
        OBVIOUS
      <4>1. j \in need .. first - 1 /\ block = block + OrderSize(j)
        BY <3>1, <1>2
      <4> QED BY <4>1, <1>2, <1>3
    <3>5. Uppers(n) = Uppers(n + 1) \union {up}
      BY <3>1, <1>2
    <3>6. Tiling((P(n + 1) \ {mid}) \union {lo, up})
      <4>1. mid \in P(n + 1)
        OBVIOUS
      <4> HIDE DEF P
      <4> QED BY <4>1, <3>1, <3>2, Cut
    <3>7. (P(n + 1) \ {mid}) \union {lo, up} = P(n)
      <4> HIDE DEF lo, up, Uppers, e0
      <4>1. P(n + 1) = ((T \ {e0}) \union Uppers(n + 1)) \union {mid}
        OBVIOUS
      <4>2. P(n) = ((T \ {e0}) \union Uppers(n)) \union {lo}
        BY DEF lo
      <4> HIDE DEF P, mid
      <4> QED BY <3>3, <3>4, <3>5, <4>1, <4>2
    <3> HIDE DEF P
    <3>8. Tiling(P(n))
      BY <3>6, <3>7
    <3> QED BY <3>8 DEF n
  <2>3. D \in SUBSET Nat
    OBVIOUS
  <2>4. D = Nat
    <3> HIDE DEF D
    <3> QED BY <2>1, <2>2, <2>3, Closed
  <2>5. first - need \in Nat /\ first - (first - need) = need
    BY <1>2
  <2> HIDE DEF P
  <2>6. first - need \in D
    BY <2>4, <2>5
  <2> QED BY <2>5, <2>6
<1>6. /\ P(need) \subseteq AllBlocks
      /\ \A j \in need .. first - 1 : <<block + OrderSize(j), j>> \in AllBlocks
                                      /\ block + OrderSize(j) \in HeapWords
  <2>1. P(need) \subseteq AllBlocks
    <3> HIDE DEF P
    <3> QED BY <1>5 DEF Tiling
  <2>2. \A j \in need .. first - 1 : <<block + OrderSize(j), j>> \in AllBlocks
    BY <2>1
  <2> QED BY <2>1, <2>2 DEF AllBlocks
<1>7. fs = [j \in Orders |->
              CASE j = first             -> pool[j] \ {block}
                [] j \in need .. first-1 -> pool[j] \union {block + OrderSize(j)}
                [] OTHER                 -> pool[j]]
  BY DEF Split
<1> HIDE DEF fs
<1>8. /\ fs[first] = pool[first] \ {block}
      /\ \A j \in need .. first - 1 : fs[j] = {block + OrderSize(j)}
      /\ \A j \in Orders : j # first /\ j \notin need .. first - 1 => fs[j] = pool[j]
  <2>1. fs[first] = pool[first] \ {block}
    BY <1>7
  <2>2. ASSUME NEW j \in need .. first - 1 PROVE fs[j] = {block + OrderSize(j)}
    <3>1. j \in Orders /\ j # first /\ pool[j] = {}
      BY <1>2
    <3> QED BY <3>1, <1>7
  <2>3. \A j \in Orders : j # first /\ j \notin need .. first - 1 => fs[j] = pool[j]
    BY <1>7
  <2> QED BY <2>1, <2>2, <2>3
<1>9. fs \in [Orders -> SUBSET HeapWords]
  <2>1. ASSUME NEW j \in Orders PROVE fs[j] \subseteq HeapWords
    <3>1. pool[j] \subseteq HeapWords
      BY <1>1
    <3>2. CASE j = first
      BY <3>1, <3>2, <1>8
    <3>3. CASE j \in need .. first - 1
      BY <3>3, <1>6, <1>8
    <3>4. CASE j # first /\ j \notin need .. first - 1
      BY <3>1, <3>4, <1>8
    <3> QED BY <3>2, <3>3, <3>4
  <2>2. DOMAIN fs = Orders /\ fs = [j \in DOMAIN fs |-> fs[j]]
    BY <1>7
  <2> QED BY <2>1, <2>2
<1>10. FreeSet(fs) = (FreeSet(pool) \ {e0}) \union Uppers(need)
  <2>1. ASSUME NEW b \in HeapWords, NEW j \in Orders
        PROVE  b \in fs[j] <=> (b \in pool[j] /\ <<b, j>> # e0)
                               \/ (j \in need .. first - 1 /\ b = block + OrderSize(j))
    <3>1. CASE j = first
      <4>1. j \notin need .. first - 1
        BY <3>1, <1>2
      <4> QED BY <3>1, <4>1, <1>8
    <3>2. CASE j \in need .. first - 1
      BY <3>2, <1>2, <1>8
    <3>3. CASE j # first /\ j \notin need .. first - 1
      BY <3>3, <1>8
    <3> QED BY <3>1, <3>2, <3>3
  <2>2. ASSUME NEW e \in FreeSet(fs) PROVE e \in (FreeSet(pool) \ {e0}) \union Uppers(need)
    <3>1. e[1] \in HeapWords /\ e[2] \in Orders /\ e[1] \in fs[e[2]] /\ e = <<e[1], e[2]>>
      BY DEF FreeSet
    <3>2. \/ e[1] \in pool[e[2]] /\ <<e[1], e[2]>> # e0
          \/ e[2] \in need .. first - 1 /\ e[1] = block + OrderSize(e[2])
      BY <2>1, <3>1
    <3>3. CASE e[1] \in pool[e[2]] /\ <<e[1], e[2]>> # e0
      BY <3>1, <3>3 DEF FreeSet
    <3>4. CASE e[2] \in need .. first - 1 /\ e[1] = block + OrderSize(e[2])
      <4>1. e = <<block + OrderSize(e[2]), e[2]>>
        BY <3>1, <3>4
      <4> QED BY <4>1, <3>4
    <3> QED BY <3>2, <3>3, <3>4
  <2>3. ASSUME NEW e \in FreeSet(pool) \ {e0} PROVE e \in FreeSet(fs)
    <3>1. e[1] \in HeapWords /\ e[2] \in Orders /\ e[1] \in pool[e[2]] /\ e = <<e[1], e[2]>> /\ e # e0
      BY DEF FreeSet
    <3>2. e[1] \in fs[e[2]]
      BY <2>1, <3>1
    <3> QED BY <3>1, <3>2 DEF FreeSet
  <2>4. ASSUME NEW j \in need .. first - 1 PROVE <<block + OrderSize(j), j>> \in FreeSet(fs)
    <3>1. block + OrderSize(j) \in HeapWords /\ j \in Orders
      <4>1. j \in need .. first
        BY <1>2
      <4> QED BY <4>1, <1>2, <1>6
    <3>2. block + OrderSize(j) \in fs[j]
      BY <2>1, <3>1
    <3> QED BY <3>1, <3>2 DEF FreeSet
  <2> QED BY <2>2, <2>3, <2>4
<1>11. <<block, need>> \notin used
  <2>1. <<block, need>> \in used => need = first
    BY <1>4 DEF T
  <2> QED BY <2>1, <1>1
<1>12. \A j \in need .. first - 1 : <<block + OrderSize(j), j>> \notin T
  <2> TAKE j \in need .. first - 1
  <2> DEFINE u == <<block + OrderSize(j), j>>
  <2> SUFFICES ASSUME u \in T PROVE FALSE
    OBVIOUS
  <2>1. u \in AllBlocks /\ block + OrderSize(j) \in HeapWords
    BY <1>6
  <2>2. Holds(u, block + OrderSize(j))
    BY <2>1, HoldsItself
  <2>3. Holds(e0, block + OrderSize(j))
    BY <1>2, <1>3 DEF Holds
  <2>4. e0 \in T
    BY <1>1 DEF T
  <2>5. e0 = u
    BY <1>1, <2>1, <2>2, <2>3, <2>4, OneAtAddress
  <2>6. first = j
    BY <2>5
  <2> QED BY <2>6, <1>2
<1>13. <<block, need>> \notin Uppers(need)
  <2> SUFFICES ASSUME NEW j \in need .. first - 1, <<block, need>> = <<block + OrderSize(j), j>>
               PROVE  FALSE
    OBVIOUS
  <2>1. block = block + OrderSize(j)
    OBVIOUS
  <2> QED BY <2>1, <1>2, <1>3
<1>14. <<block, need>> \notin FreeSet(pool) \ {e0}
  BY <1>4 DEF T
<1>15. FreeSet(fs) \intersect (used \union {<<block, need>>}) = {}
  <2>1. Uppers(need) \intersect T = {}
    BY <1>12
  <2> HIDE DEF Uppers, e0
  <2> QED BY <2>1, <1>1, <1>10, <1>13, <1>14 DEF T
<1>16. FreeSet(fs) \union (used \union {<<block, need>>}) = P(need)
  <2>1. e0 \notin used
    BY <1>1
  <2> HIDE DEF Uppers, e0
  <2> QED BY <1>10, <2>1 DEF T
<1>17. ASSUME NEW k \in Orders, k # Top, NEW b \in fs[k] PROVE BuddyOf(k, b) \notin fs[k]
  <2>1. \A c \in pool[k] : BuddyOf(k, c) \notin pool[k]
    BY <1>17 DEF Tiled
  <2>2. CASE k = first
    BY <2>1, <2>2, <1>8
  <2>3. CASE k \in need .. first - 1
    <3>1. b = block + OrderSize(k) /\ fs[k] = {b}
      BY <2>3, <1>8
    <3>2. Aligned(b, k)
      BY <2>3, <3>1, <1>6, HoldsItself
    <3>3. BuddyOf(k, b) # b
      BY <3>2, <1>17, Buddies
    <3> QED BY <3>1, <3>3
  <2>4. CASE k # first /\ k \notin need .. first - 1
    BY <2>1, <2>4, <1>8
  <2> QED BY <2>2, <2>3, <2>4
<1> HIDE DEF P
<1>18. Tiled(fs, used \union {<<block, need>>})
  BY <1>5, <1>9, <1>15, <1>16, <1>17 DEF Tiled
<1> QED BY <1>1, <1>11, <1>18 DEF fs

(* The order of a request that is not larger than the heap.                *)
LEMMA AllocationOrderFacts ==
  ASSUME NEW size \in Nat, AllocationSize(size)
  PROVE  /\ AllocationOrder(size) \in Orders /\ size <= OrderSize(AllocationOrder(size))
         /\ \A k \in Orders : size <= OrderSize(k) => AllocationOrder(size) <= k
<1> DEFINE S == {k \in Orders : size <= OrderSize(k)}
<1>1. Top \in S
  BY OrdersFacts DEF AllocationSize
<1>2. S \in SUBSET Nat
  BY OrdersFacts
<1>3. AllocationOrder(size) = Min(S)
  BY DEF AllocationOrder
<1> HIDE DEF S
<1>4. Min(S) \in S /\ \A k \in S : Min(S) <= k
  BY <1>1, <1>2, MinIsLeast
<1> QED BY <1>3, <1>4 DEF S

(* allocate.                                                               *)
LEMMA AllocTiles ==
  ASSUME NEW pool, NEW used, Tiled(pool, used), NEW size \in Nat,
         NEW a \in Allocations(pool, size)
  PROVE  /\ AllocationSize(size)
         /\ Tiled(a.free, used \union {<<a.block, AllocationOrder(size)>>})
         /\ <<a.block, AllocationOrder(size)>> \notin used /\ a.block \in HeapWords
<1> DEFINE need == AllocationOrder(size)
           avail == {k \in Orders : k >= need /\ pool[k] # {}}
           first == Min(avail)
<1>1. /\ AllocationSize(size) /\ avail # {}
      /\ a \in {[block |-> b, free |-> Split(pool, b, first, need)] : b \in pool[first]}
  BY DEF Allocations
<1>2. need \in Orders
  BY <1>1, AllocationOrderFacts
<1> HIDE DEF need
<1>3. avail \in SUBSET Nat
  BY OrdersFacts
<1>4. first \in avail /\ \A k \in avail : first <= k
  <2> HIDE DEF avail
  <2> QED BY <1>1, <1>3, MinIsLeast
<1>5. PICK b \in pool[first] : a = [block |-> b, free |-> Split(pool, b, first, need)]
  BY <1>1
<1>6. first \in Orders /\ first >= need /\ first \in Nat /\ need \in Nat
  BY <1>2, <1>4, OrdersFacts
<1> HIDE DEF first
<1>7. ASSUME NEW j \in need .. first - 1 PROVE pool[j] = {}
  <2>1. j \in Orders
    <3>1. NOrders \in Nat /\ first \in 0 .. NOrders - 1
      BY <1>6, BuddyAssumption DEF Orders
    <3> QED BY <3>1, <1>6 DEF Orders
  <2>2. ~ (first <= j) /\ j >= need
    BY <1>6
  <2> QED BY <2>1, <2>2, <1>4
<1>8. /\ Tiled(Split(pool, b, first, need), used \union {<<b, need>>})
      /\ <<b, need>> \notin used /\ b \in HeapWords
  BY <1>2, <1>6, <1>7, SplitTiles
<1>9. a.block = b /\ a.free = Split(pool, b, first, need)
  BY <1>5
<1> QED BY <1>1, <1>8, <1>9 DEF need

(* dealloc: the block is joined with its buddy as long as that is free.    *)
LEMMA DeallocTiles ==
  ASSUME NEW pool, NEW used, Tiled(pool, used), NEW size \in Nat, AllocationSize(size),
         NEW block, <<block, AllocationOrder(size)>> \in used
  PROVE  Tiled(Dealloc(pool, block, size), used \ {<<block, AllocationOrder(size)>>})
<1> DEFINE start == AllocationOrder(size)
           buddy(k) == BuddyOf(k, Merged(block, k))
           Stops == {k \in start .. Top : k = Top \/ buddy(k) \notin pool[k]}
           stop == Min(Stops)
           e0 == <<block, start>>
           T == FreeSet(pool) \union used
           Eaten(n) == {<<buddy(k), k>> : k \in start .. n - 1}
           P(n) == (T \ ({e0} \union Eaten(n))) \union {<<Merged(block, n), n>>}
           fs == Dealloc(pool, block, size)
<1>1. /\ pool \in [Orders -> SUBSET HeapWords] /\ Tiling(T) /\ FreeSet(pool) \intersect used = {}
      /\ e0 \in used /\ e0 \in T /\ e0 \in AllBlocks /\ T \subseteq AllBlocks
  BY DEF Tiled, Tiling
<1>2. /\ start \in Orders /\ start \in Nat /\ Top \in Nat /\ Top \in Orders
      /\ \A k \in start .. Top : k \in Orders /\ k \in Nat
      /\ block \in HeapWords /\ Aligned(block, start) /\ Holds(e0, block)
  <2>1. start \in Orders
    BY AllocationOrderFacts
  <2>2. NOrders \in Nat \ {0} /\ start \in 0 .. NOrders - 1 /\ Top = NOrders - 1
    BY <2>1, BuddyAssumption DEF Orders, Top
  <2>3. \A k \in start .. Top : k \in Orders /\ k \in Nat
    BY <2>2 DEF Orders
  <2>4. block \in HeapWords /\ Aligned(block, start) /\ Holds(e0, block)
    BY <1>1, HoldsItself
  <2> QED BY <2>1, <2>2, <2>3, <2>4, OrdersFacts
<1>3. fs = [k \in Orders |->
              CASE k = stop              -> pool[k] \union {Merged(block, k)}
                [] k \in start .. stop-1 -> pool[k] \ {buddy(k)}
                [] OTHER                 -> pool[k]]
  BY DEF Dealloc
<1> HIDE DEF fs, start
<1>4. /\ stop \in start .. Top /\ (stop = Top \/ buddy(stop) \notin pool[stop])
      /\ \A k \in start .. stop - 1 : k \in Orders /\ k # Top /\ k + 1 \in Orders /\ k \in Nat
                                      /\ buddy(k) \in pool[k]
  <2> HIDE DEF buddy
  <2>1. Stops \in SUBSET Nat /\ Top \in Stops
    <3>1. start <= Top
      BY <1>2, OrdersFacts
    <3> QED BY <1>2, <3>1
  <2>2. stop \in Stops /\ \A k \in Stops : stop <= k
    <3> HIDE DEF Stops
    <3> QED BY <2>1, MinIsLeast
  <2> HIDE DEF stop
  <2>3. stop \in start .. Top /\ (stop = Top \/ buddy(stop) \notin pool[stop])
    BY <2>2
  <2>4. ASSUME NEW k \in start .. stop - 1
        PROVE  k \in Orders /\ k # Top /\ k + 1 \in Orders /\ k \in Nat /\ buddy(k) \in pool[k]
    <3>1. k \in start .. Top /\ k + 1 \in start .. Top /\ k # Top /\ ~ (stop <= k)
      BY <1>2, <2>3
    <3>2. k \notin Stops
      BY <2>2, <3>1
    <3> QED BY <3>1, <3>2, <1>2
  <2> QED BY <2>3, <2>4
<1>5. stop \in Orders /\ stop \in Nat
  BY <1>2, <1>4
<1> HIDE DEF stop
<1>6. /\ Merged(block, start) = block
      /\ \A k \in Orders : Aligned(Merged(block, k), k) /\ Holds(<<Merged(block, k), k>>, block)
                           /\ Merged(block, k) \in HeapWords /\ <<Merged(block, k), k>> \in AllBlocks
  BY <1>2, MergedAligned, MergedOfAligned, AlignedFacts
<1>7. ASSUME NEW k \in Orders, <<Merged(block, k), k>> \in T PROVE <<Merged(block, k), k>> = e0
  BY <1>1, <1>2, <1>6, <1>7, OneAtAddress
<1>8. ASSUME NEW k \in start .. stop - 1
      PROVE  /\ Merged(block, k + 1) = Merged(Merged(block, k), k + 1)
             /\ Aligned(Merged(block, k + 1), k + 1)
             /\ buddy(k) # Merged(block, k)
             /\ {Merged(block, k), buddy(k)}
                  = {Merged(block, k + 1), Merged(block, k + 1) + OrderSize(k)}
  <2>1. k \in Orders /\ k # Top /\ k + 1 \in Orders
    BY <1>4
  <2>2. Merged(block, k + 1) = Merged(Merged(block, k), k + 1)
    BY <1>2, <2>1, MergedTwice
  <2>3. Aligned(Merged(block, k), k)
    BY <1>6, <2>1
  <2>4. /\ Aligned(Merged(Merged(block, k), k + 1), k + 1)
        /\ \/ /\ Merged(block, k) = Merged(Merged(block, k), k + 1)
              /\ buddy(k) = Merged(Merged(block, k), k + 1) + OrderSize(k)
           \/ /\ Merged(block, k) = Merged(Merged(block, k), k + 1) + OrderSize(k)
              /\ buddy(k) = Merged(Merged(block, k), k + 1)
        /\ buddy(k) # Merged(block, k)
    BY <2>1, <2>3, Buddies
  <2> HIDE DEF buddy
  <2> QED BY <2>2, <2>4
<1>9. \A k \in start .. stop - 1 : <<buddy(k), k>> \in FreeSet(pool)
  BY <1>4, FreeSetFacts
<1> HIDE DEF buddy, T
<1>10. Tiling(P(stop))
  <2> DEFINE D == {d \in Nat : d <= stop - start => Tiling(P(start + d))}
  <2>1. 0 \in D
    <3>1. start + 0 = start /\ Eaten(start) = {}
      BY <1>2
    <3>2. P(start) = T
      BY <3>1, <1>1, <1>6
    <3> QED BY <3>1, <3>2, <1>1
  <2>2. ASSUME NEW d \in D PROVE d + 1 \in D
    <3> SUFFICES ASSUME d + 1 <= stop - start PROVE Tiling(P(start + (d + 1)))
      OBVIOUS
    <3> DEFINE n == start + d
               mine == <<Merged(block, n), n>>
               yours == <<buddy(n), n>>
               p == Merged(block, n + 1)
               parent == <<p, n + 1>>
    <3>1. n \in start .. stop - 1 /\ start + (d + 1) = n + 1 /\ n \in Nat
      BY <1>2, <1>5
    <3>2. Tiling(P(n))
      BY <1>2, <1>5
    <3> HIDE DEF n
    <3>3. n \in Orders /\ n + 1 \in Orders
      BY <1>4, <3>1
    <3>4. Aligned(p, n + 1) /\ {mine, yours} = {<<p, n>>, <<p + OrderSize(n), n>>} /\ yours # mine
      BY <1>8, <3>1
    <3>5. yours \in T /\ yours # e0 /\ yours \notin Eaten(n)
      <4>1. yours \in FreeSet(pool)
        BY <1>9, <3>1
      <4>2. yours \notin Eaten(n)
        BY <3>1
      <4> QED BY <4>1, <4>2, <1>1 DEF T
    <3>6. mine \notin T \ {e0}
      BY <1>7, <3>3
    <3>7. mine \in P(n) /\ yours \in P(n)
      BY <3>5
    <3>8. Eaten(n + 1) = Eaten(n) \union {yours}
      BY <3>1
    <3>9. P(n + 1) = (P(n) \ {mine, yours}) \union {parent}
      <4> HIDE DEF Eaten, e0, yours, parent
      <4>1. P(n + 1) = (T \ ({e0} \union Eaten(n + 1))) \union {parent}
        BY DEF parent
      <4>2. P(n) = (T \ ({e0} \union Eaten(n))) \union {mine}
        OBVIOUS
      <4> HIDE DEF P, mine
      <4> QED BY <3>5, <3>6, <3>8, <4>1, <4>2
    <3>10. Tiling((P(n) \ {mine, yours}) \union {parent})
      <4>1. <<p, n>> \in P(n) /\ <<p + OrderSize(n), n>> \in P(n)
        <5> HIDE DEF P, mine, yours
        <5> QED BY <3>4, <3>7
      <4> HIDE DEF P, p
      <4>2. Tiling((P(n) \ {<<p, n>>, <<p + OrderSize(n), n>>}) \union {<<p, n + 1>>})
        BY <3>2, <3>3, <3>4, <4>1, Join
      <4> HIDE DEF mine, yours
      <4> QED BY <4>2, <3>4
    <3> HIDE DEF P
    <3> QED BY <3>1, <3>9, <3>10
  <2>3. D \in SUBSET Nat
    OBVIOUS
  <2>4. D = Nat
    <3> HIDE DEF D
    <3> QED BY <2>1, <2>2, <2>3, Closed
  <2>5. stop - start \in Nat /\ start + (stop - start) = stop
    BY <1>2, <1>4
  <2> HIDE DEF P
  <2>6. stop - start \in D
    BY <2>4, <2>5
  <2> QED BY <2>5, <2>6
<1>11. /\ fs[stop] = pool[stop] \union {Merged(block, stop)}
       /\ \A k \in start .. stop - 1 : fs[k] = pool[k] \ {buddy(k)}
       /\ \A k \in Orders : k # stop /\ k \notin start .. stop - 1 => fs[k] = pool[k]
  <2>1. fs[stop] = pool[stop] \union {Merged(block, stop)}
    BY <1>3, <1>5
  <2>2. ASSUME NEW k \in start .. stop - 1 PROVE fs[k] = pool[k] \ {buddy(k)}
    <3>1. k \in Orders /\ k # stop
      BY <1>2, <1>4, <1>5
    <3> QED BY <3>1, <1>3
  <2>3. \A k \in Orders : k # stop /\ k \notin start .. stop - 1 => fs[k] = pool[k]
    BY <1>3
  <2> QED BY <2>1, <2>2, <2>3
<1>12. fs \in [Orders -> SUBSET HeapWords]
  <2>1. ASSUME NEW k \in Orders PROVE fs[k] \subseteq HeapWords
    <3>1. pool[k] \subseteq HeapWords
      BY <1>1
    <3>2. CASE k = stop
      BY <3>1, <3>2, <1>5, <1>6, <1>11
    <3>3. CASE k \in start .. stop - 1
      BY <3>1, <3>3, <1>11
    <3>4. CASE k # stop /\ k \notin start .. stop - 1
      BY <3>1, <3>4, <1>11
    <3> QED BY <3>2, <3>3, <3>4
  <2>2. DOMAIN fs = Orders /\ fs = [k \in DOMAIN fs |-> fs[k]]
    BY <1>3
  <2> QED BY <2>1, <2>2
<1> DEFINE new == <<Merged(block, stop), stop>>
<1>13. FreeSet(fs) = (FreeSet(pool) \ Eaten(stop)) \union {new}
  <2>1. ASSUME NEW b \in HeapWords, NEW k \in Orders
        PROVE  b \in fs[k] <=> (b \in pool[k] /\ ~ (k \in start .. stop - 1 /\ b = buddy(k)))
                               \/ (k = stop /\ b = Merged(block, stop))
    <3>1. CASE k = stop
      <4>1. k \notin start .. stop - 1
        BY <3>1, <1>2, <1>5
      <4> QED BY <3>1, <4>1, <1>11
    <3>2. CASE k \in start .. stop - 1
      <4>1. k # stop
        BY <3>2, <1>2, <1>5
      <4> QED BY <3>2, <4>1, <1>11
    <3>3. CASE k # stop /\ k \notin start .. stop - 1
      BY <3>3, <1>11
    <3> QED BY <3>1, <3>2, <3>3
  <2>2. ASSUME NEW e \in FreeSet(fs) PROVE e \in (FreeSet(pool) \ Eaten(stop)) \union {new}
    <3>1. e[1] \in HeapWords /\ e[2] \in Orders /\ e[1] \in fs[e[2]] /\ e = <<e[1], e[2]>>
      BY DEF FreeSet
    <3>2. \/ e[1] \in pool[e[2]] /\ ~ (e[2] \in start .. stop - 1 /\ e[1] = buddy(e[2]))
          \/ e[2] = stop /\ e[1] = Merged(block, stop)
      BY <2>1, <3>1
    <3>3. CASE e[1] \in pool[e[2]] /\ ~ (e[2] \in start .. stop - 1 /\ e[1] = buddy(e[2]))
      <4>1. e \in FreeSet(pool)
        BY <3>1, <3>3 DEF FreeSet
      <4>2. e \notin Eaten(stop)
        <5> SUFFICES ASSUME NEW k \in start .. stop - 1, e = <<buddy(k), k>> PROVE FALSE
          OBVIOUS
        <5>1. e[2] = k /\ e[1] = buddy(k)
          OBVIOUS
        <5> QED BY <5>1, <3>3
      <4> QED BY <4>1, <4>2
    <3>4. CASE e[2] = stop /\ e[1] = Merged(block, stop)
      BY <3>1, <3>4
    <3> QED BY <3>2, <3>3, <3>4
  <2>3. ASSUME NEW e \in FreeSet(pool) \ Eaten(stop) PROVE e \in FreeSet(fs)
    <3>1. e[1] \in HeapWords /\ e[2] \in Orders /\ e[1] \in pool[e[2]] /\ e = <<e[1], e[2]>>
      BY DEF FreeSet
    <3>2. ~ (e[2] \in start .. stop - 1 /\ e[1] = buddy(e[2]))
      BY <3>1
    <3>3. e[1] \in fs[e[2]]
      BY <2>1, <3>1, <3>2
    <3> QED BY <3>1, <3>3 DEF FreeSet
  <2>4. new \in FreeSet(fs)
    BY <2>1, <1>5, <1>6 DEF FreeSet
  <2> QED BY <2>2, <2>3, <2>4
<1>14. Eaten(stop) \intersect used = {}
  BY <1>1, <1>9
<1>15. new \notin used \ {e0}
  BY <1>5, <1>7 DEF T
<1>16. e0 \notin FreeSet(pool)
  BY <1>1
<1>17. FreeSet(fs) \intersect (used \ {e0}) = {}
  <2> HIDE DEF new, Eaten, e0
  <2> QED BY <1>1, <1>13, <1>15
<1>18. FreeSet(fs) \union (used \ {e0}) = P(stop)
  <2> HIDE DEF Eaten, e0
  <2> QED BY <1>13, <1>14, <1>16 DEF T
<1>19. ASSUME NEW k \in Orders, k # Top, NEW b \in fs[k] PROVE BuddyOf(k, b) \notin fs[k]
  <2>1. \A c \in pool[k] : BuddyOf(k, c) \notin pool[k]
    BY <1>19 DEF Tiled
  <2>2. CASE k # stop
    <3>1. fs[k] \subseteq pool[k]
      BY <2>2, <1>11
    <3> QED BY <2>1, <3>1, <1>19
  <2>3. CASE k = stop
    <3> DEFINE m == Merged(block, stop)
    <3>1. buddy(stop) = BuddyOf(stop, m) /\ BuddyOf(stop, m) \notin pool[stop]
      BY <2>3, <1>4, <1>19 DEF buddy
    <3>2. Aligned(m, stop)
      BY <1>5, <1>6
    <3>3. fs[stop] = pool[stop] \union {m}
      BY <1>11
    <3>4. stop # Top
      BY <2>3, <1>19
    <3> HIDE DEF m
    <3>5. BuddyOf(stop, m) # m
      BY <3>2, <3>4, <1>5, Buddies
    <3>6. CASE b = m
      BY <3>1, <3>3, <3>5, <3>6, <2>3
    <3>7. CASE b \in pool[stop]
      <4>1. Aligned(b, stop)
        BY <3>7, <1>5, FreeSetFacts
      <4>2. BuddyOf(stop, BuddyOf(stop, b)) = b
        BY <4>1, <3>4, <1>5, Buddies
      <4>3. BuddyOf(stop, b) # m
        BY <4>2, <3>1, <3>7
      <4> QED BY <4>3, <2>1, <2>3, <3>3, <3>7
    <3> QED BY <3>3, <3>6, <3>7, <2>3, <1>19
  <2> QED BY <2>2, <2>3
<1> HIDE DEF P
<1>20. Tiled(fs, used \ {e0})
  BY <1>10, <1>12, <1>17, <1>18, <1>19 DEF Tiled
<1> QED BY <1>20 DEF fs, start

(* initialize.                                                             *)
LEMMA WholeHeapTiles == Tiled(WholeHeapFree, {})
<1> DEFINE e0 == <<Base, Top>>
<1>1. /\ Top \in Orders /\ Base \in Nat \ {0} /\ HeapSize \in Nat \ {0} /\ OrderSize(Top) = HeapSize
  BY OrdersFacts
<1>2. Aligned(Base, Top)
  <2>1. Base = Base + 0 * OrderSize(Top) /\ 0 \in Nat
    BY <1>1
  <2> QED BY <1>1, <2>1 DEF Aligned
<1>3. e0 \in AllBlocks /\ Base \in HeapWords
  BY <1>1, <1>2, AlignedFacts
<1>4. /\ WholeHeapFree \in [Orders -> SUBSET HeapWords]
      /\ WholeHeapFree[Top] = {Base} /\ \A k \in Orders : k # Top => WholeHeapFree[k] = {}
  BY <1>1, <1>3 DEF WholeHeapFree
<1>5. FreeSet(WholeHeapFree) = {e0}
  <2>1. e0 \in FreeSet(WholeHeapFree)
    BY <1>1, <1>3, <1>4 DEF FreeSet
  <2>2. ASSUME NEW e \in FreeSet(WholeHeapFree) PROVE e = e0
    <3>1. e = <<e[1], e[2]>> /\ e[2] \in Orders /\ e[1] \in WholeHeapFree[e[2]]
      BY DEF FreeSet
    <3>2. e[2] = Top /\ e[1] = Base
      BY <1>4, <3>1
    <3> QED BY <3>1, <3>2
  <2> QED BY <2>1, <2>2
<1>6. \A w \in HeapWords : Holds(e0, w)
  BY <1>1 DEF Holds, HeapWords
<1>7. Tiling({e0} \union {})
  BY <1>3, <1>6 DEF Tiling
<1> QED BY <1>4, <1>5, <1>7 DEF Tiled

(* Merging is complete: an aligned block none of whose words is handed out *)
(* lies in a free block, of its own order or a higher one.                 *)
LEMMA FreeWordsAreJoined ==
  ASSUME NEW pool, NEW used, Tiled(pool, used), NEW k \in Orders, NEW b, Aligned(b, k),
         \A w \in HeapWords : Holds(<<b, k>>, w) => \A e \in used : ~ Holds(e, w)
  PROVE  \E e \in FreeSet(pool) : e[2] >= k
<1> DEFINE Unused(c, j) == \A w \in HeapWords : Holds(<<c, j>>, w) => \A e \in used : ~ Holds(e, w)
           Inside(c, j) == \E e \in FreeSet(pool) : e[2] >= j /\ Holds(e, c)
           D == {j \in Nat : j \in Orders => \A c : Aligned(c, j) /\ Unused(c, j) => Inside(c, j)}
<1>1. /\ Tiling(FreeSet(pool) \union used) /\ FreeSet(pool) \subseteq AllBlocks
      /\ \A j \in Orders : j # Top => \A c \in pool[j] : BuddyOf(j, c) \notin pool[j]
  BY DEF Tiled, Tiling
<1>2. 0 \in D
  <2> SUFFICES ASSUME 0 \in Orders, NEW c, Aligned(c, 0), Unused(c, 0) PROVE Inside(c, 0)
    OBVIOUS
  <2>1. c \in HeapWords /\ Holds(<<c, 0>>, c)
    <3>1. <<c, 0>> \in AllBlocks /\ c \in HeapWords
      BY AlignedFacts
    <3> QED BY <3>1, HoldsItself
  <2>2. PICK e \in FreeSet(pool) \union used : Holds(e, c)
    BY <1>1, <2>1 DEF Tiling
  <2>3. e \in FreeSet(pool)
    BY <2>1, <2>2
  <2>4. e[2] >= 0
    BY <1>1, <2>3, HoldsItself
  <2> QED BY <2>2, <2>3, <2>4
<1>3. ASSUME NEW j \in D PROVE j + 1 \in D
  <2> SUFFICES ASSUME j + 1 \in Orders, NEW c, Aligned(c, j + 1), Unused(c, j + 1)
               PROVE  Inside(c, j + 1)
    OBVIOUS
  <2> DEFINE u == c + OrderSize(j)
  <2>1. j \in Orders /\ j # Top
    BY BuddyAssumption DEF Orders, Top
  <2>2. /\ Aligned(c, j) /\ Aligned(u, j) /\ BuddyOf(j, c) = u
        /\ \A w \in HeapWords : Holds(<<c, j + 1>>, w) <=> Holds(<<c, j>>, w) \/ Holds(<<u, j>>, w)
    BY <2>1, Halves, HalvesHold
  <2>3. Unused(c, j) /\ Unused(u, j)
    BY <2>2
  <2>4. Inside(c, j) /\ Inside(u, j)
    BY <2>1, <2>2, <2>3
  <2>5. /\ c \in HeapWords /\ u \in HeapWords /\ Holds(<<c, j>>, c) /\ Holds(<<u, j>>, u)
        /\ Holds(<<c, j + 1>>, c)
    <3>1. <<c, j>> \in AllBlocks /\ <<u, j>> \in AllBlocks /\ <<c, j + 1>> \in AllBlocks
      BY <2>1, <2>2, AlignedFacts
    <3> HIDE DEF u
    <3>2. Holds(<<c, j>>, c) /\ c \in HeapWords
      BY <3>1, HoldsItself
    <3>3. Holds(<<u, j>>, u) /\ u \in HeapWords
      BY <3>1, HoldsItself
    <3>4. Holds(<<c, j + 1>>, c)
      BY <3>1, HoldsItself
    <3> QED BY <3>2, <3>3, <3>4
  <2> HIDE DEF u
  <2>6. PICK e \in FreeSet(pool) : e[2] >= j /\ Holds(e, c)
    BY <2>4
  <2>7. PICK f \in FreeSet(pool) : f[2] >= j /\ Holds(f, u)
    BY <2>4
  <2>8. /\ e[2] \in Orders /\ e[2] \in Nat /\ Aligned(e[1], e[2]) /\ e = <<e[1], e[2]>>
        /\ e[1] \in Nat /\ OrderSize(e[2]) \in Nat
        /\ f[2] \in Orders /\ f[2] \in Nat /\ Aligned(f[1], f[2]) /\ f = <<f[1], f[2]>>
        /\ f[1] \in Nat /\ OrderSize(f[2]) \in Nat
    <3>1. e \in AllBlocks /\ f \in AllBlocks
      BY <1>1
    <3> QED BY <3>1, HoldsItself
  <2>9. CASE e[2] # j
    BY <2>6, <2>8, <2>9
  <2>10. CASE f[2] # j
    <3>1. j + 1 <= f[2]
      BY <2>7, <2>8, <2>10
    <3>2. Holds(<<c, j + 1>>, u)
      BY <2>2, <2>5
    <3>3. u \in Int
      BY <2>5, OrdersFacts DEF HeapWords
    <3>4. f[1] <= c /\ c + OrderSize(j + 1) <= f[1] + OrderSize(f[2])
      BY <2>7, <2>8, <3>1, <3>2, <3>3, Nested
    <3>5. c \in Nat /\ OrderSize(j + 1) \in Nat \ {0}
      BY AlignedFacts
    <3>6. Holds(f, c)
      BY <2>8, <3>4, <3>5 DEF Holds
    <3> QED BY <2>8, <3>1, <3>6
  <2>11. CASE e[2] = j /\ f[2] = j
    <3>1. c \in Int /\ u \in Int
      BY <2>5, OrdersFacts DEF HeapWords
    <3>2. e[1] = c
      BY <2>1, <2>2, <2>5, <2>6, <2>8, <2>11, <3>1, SameOrder
    <3>3. f[1] = u
      BY <2>1, <2>2, <2>5, <2>7, <2>8, <2>11, <3>1, SameOrder
    <3>4. c \in pool[j] /\ u \in pool[j]
      BY <2>11, <3>2, <3>3 DEF FreeSet
    <3> QED BY <1>1, <2>1, <2>2, <3>4
  <2> QED BY <2>9, <2>10, <2>11
<1>4. D = Nat
  <2>1. D \in SUBSET Nat
    OBVIOUS
  <2> HIDE DEF D
  <2> QED BY <1>2, <1>3, <2>1, Closed
<1>5. k \in D
  <2> HIDE DEF D
  <2> QED BY <1>4, OrdersFacts
<1>6. Inside(b, k)
  BY <1>5
<1> QED BY <1>6

-----------------------------------------------------------------------------
(* The constants.                                                          *)

(* Of two powers of two the larger is at least twice the smaller.          *)
LEMMA PowersFacts ==
  /\ Powers \subseteq Nat \ {0}
  /\ \A c \in Powers, d \in Powers : c < d => 2 * c <= d
<1>1. \A i \in 0 .. Width - 1 : i \in Nat /\ Pow2[i] \in Nat \ {0} /\ Pow2[i + 1] = 2 * Pow2[i]
  BY Pow2Facts
<1>2. ASSUME NEW i \in 0 .. Width - 1, NEW j \in 0 .. Width - 1, Pow2[i] < Pow2[j]
      PROVE  2 * Pow2[i] <= Pow2[j]
  <2>1. ~ (j <= i)
    <3> SUFFICES ASSUME j <= i PROVE FALSE
      OBVIOUS
    <3>1. Pow2[j] <= Pow2[i]
      BY <1>1, Pow2Monotone
    <3> QED BY <3>1, <1>1, <1>2
  <2>2. i + 1 \in Nat /\ j \in Nat /\ i + 1 <= j
    BY <2>1
  <2>3. Pow2[i + 1] <= Pow2[j]
    BY <2>2, Pow2Monotone
  <2> QED BY <2>3, <1>1
<1>3. Powers \subseteq Nat \ {0}
  BY <1>1 DEF Powers
<1> QED BY <1>2, <1>3 DEF Powers

(* A page holds a header and a slot of the largest class.                  *)
LEMMA PageFacts ==
  /\ Page \in Nat \ {0} /\ Header \in Nat \ {0} /\ Base \in Nat \ {0}
  /\ Classes \subseteq Nat \ {0} /\ \A c \in Classes : Header + c < Page
  /\ Sizes \subseteq Nat \ {0} /\ MaxLive \in Nat
<1>1. Page \in Nat \ {0} /\ Page \in Powers /\ Header \in 1 .. Page \div 2 - 1
  BY PowersFacts, KallocAssumption
<1>2. Page \div 2 \in Nat /\ 2 * (Page \div 2) <= Page
  BY <1>1
<1>3. ASSUME NEW c \in Classes PROVE c \in Nat \ {0} /\ Header + c < Page
  <2>1. c \in Powers /\ c < Page /\ c \in Nat \ {0}
    BY PowersFacts DEF Classes
  <2>2. 2 * c <= Page
    BY <1>1, <2>1, PowersFacts
  <2> QED BY <1>1, <1>2, <2>1, <2>2
<1>4. Sizes \subseteq Nat \ {0}
  <2>1. Width - 1 \in Nat
    BY BuddyAssumption
  <2>2. Pow2[Width - 1] \in Nat
    BY <2>1, Pow2Facts
  <2> QED BY <2>2, KallocAssumption
<1> QED BY <1>1, <1>3, <1>4, BuddyAssumption, KallocAssumption

(* pow2ceil.                                                               *)
LEMMA CeilFacts ==
  ASSUME NEW sz \in Sizes
  PROVE  /\ Pow2Ceil(sz) \in Powers /\ Pow2Ceil(sz) \in Nat \ {0} /\ sz <= Pow2Ceil(sz)
         /\ \A c \in Powers : sz <= c => Pow2Ceil(sz) <= c
         /\ Pow2Ceil(sz) < Page => Pow2Ceil(sz) \in Classes
<1> DEFINE S == {c \in Powers : c >= sz}
<1>1. Pow2[Width - 1] \in S
  <2>1. Width - 1 \in 0 .. Width - 1
    BY BuddyAssumption
  <2>2. sz <= Pow2[Width - 1] /\ Pow2[Width - 1] \in Powers
    BY <2>1, KallocAssumption DEF Powers
  <2> QED BY <2>2, PowersFacts, PageFacts
<1>2. S \in SUBSET Nat
  BY PowersFacts
<1>3. Pow2Ceil(sz) = Min(S)
  BY DEF Pow2Ceil
<1> HIDE DEF S
<1>4. Min(S) \in S /\ \A c \in S : Min(S) <= c
  BY <1>1, <1>2, MinIsLeast
<1>5. Pow2Ceil(sz) \in Powers /\ Pow2Ceil(sz) >= sz /\ \A c \in Powers : c >= sz => Pow2Ceil(sz) <= c
  BY <1>3, <1>4 DEF S
<1> QED BY <1>5, PowersFacts, PageFacts DEF Classes

(* Every size of a block of the buddy allocator is a power.                *)
LEMMA OrderSizesArePowers == \A k \in Orders : OrderSize(k) \in Powers
<1>1. PICK m \in 0 .. Width - 1 : MinBlock = Pow2[m]
  BY BuddyAssumption DEF Powers
<1>2. PICK h \in 0 .. Width - 1 : HeapSize = Pow2[h]
  BY BuddyAssumption DEF Powers
<1>3. ASSUME NEW k \in Orders PROVE k \in Nat /\ m \in Nat /\ m + k \in Nat /\ OrderSize(k) = Pow2[m + k]
  <2>1. k \in Nat /\ m \in Nat
    BY OrdersFacts
  <2>2. Pow2[m + k] = Pow2[k] * Pow2[m] /\ Pow2[m] \in Nat /\ Pow2[k] \in Nat
    BY <2>1, Pow2Sum, Pow2Facts
  <2> QED BY <1>1, <2>1, <2>2 DEF OrderSize
<1>4. Top \in Nat /\ Top \in Orders
  BY OrdersFacts
<1>5. m + Top <= h
  <2> SUFFICES ASSUME h < m + Top PROVE FALSE
    BY <1>4
  <2>1. h \in Nat /\ h + 1 \in Nat /\ m + Top \in Nat /\ h + 1 <= m + Top
    BY <1>4
  <2>2. Pow2[h + 1] <= Pow2[m + Top] /\ Pow2[h + 1] = 2 * Pow2[h] /\ Pow2[h] \in Nat \ {0}
    BY <2>1, Pow2Monotone, Pow2Facts
  <2>3. Pow2[m + Top] = Pow2[h]
    <3>1. OrderSize(Top) = Pow2[m + Top]
      BY <1>3, <1>4
    <3> QED BY <1>2, <3>1 DEF HeapSize
  <2> QED BY <2>2, <2>3
<1>6. ASSUME NEW k \in Orders PROVE m + k \in 0 .. Width - 1
  <2>1. k \in Nat /\ k <= Top /\ Width \in Nat
    BY OrdersFacts, BuddyAssumption
  <2> QED BY <1>4, <1>5, <2>1
<1> QED BY <1>3, <1>6 DEF Powers

(* kalloc asks the buddy allocator for pow2ceil of the size, kfree gives   *)
(* the block back with the size itself: both are of the same order.        *)
LEMMA SameOrderAsked ==
  ASSUME NEW sz \in Sizes
  PROVE  /\ AllocationOrder(Pow2Ceil(sz)) = AllocationOrder(sz)
         /\ AllocationSize(Pow2Ceil(sz)) <=> AllocationSize(sz)
<1>1. ASSUME NEW k \in Orders PROVE sz <= OrderSize(k) <=> Pow2Ceil(sz) <= OrderSize(k)
  <2>1. OrderSize(k) \in Powers /\ OrderSize(k) \in Nat
    BY OrderSizesArePowers, PowersFacts
  <2>2. sz \in Nat /\ Pow2Ceil(sz) \in Nat /\ sz <= Pow2Ceil(sz)
    BY CeilFacts, PageFacts
  <2>3. sz <= OrderSize(k) => Pow2Ceil(sz) <= OrderSize(k)
    BY <2>1, CeilFacts
  <2> QED BY <2>1, <2>2, <2>3
<1>2. {k \in Orders : sz <= OrderSize(k)} = {k \in Orders : Pow2Ceil(sz) <= OrderSize(k)}
  BY <1>1
<1>3. AllocationOrder(Pow2Ceil(sz)) = AllocationOrder(sz)
  BY <1>2 DEF AllocationOrder
<1>4. AllocationSize(Pow2Ceil(sz)) <=> AllocationSize(sz)
  BY <1>1, OrdersFacts DEF AllocationSize
<1> QED BY <1>3, <1>4

(* The minimal block holds a page, so that a block of slots has order 0.   *)
LEMMA PageOrder ==
  /\ AllocationSize(Page) /\ AllocationOrder(Page) \in Orders
  /\ OrderSize(AllocationOrder(Page)) \in Nat /\ Page <= OrderSize(AllocationOrder(Page))
<1>1. Page \in Nat \ {0} /\ MinBlock \in Nat \ {0} /\ MinBlock % Page = 0
  BY PageFacts, BuddyAssumption, PowersFacts, KallocAssumption
<1>2. Page <= MinBlock
  BY <1>1
<1>3. MinBlock = OrderSize(0) /\ OrderSize(0) <= OrderSize(Top)
  <2>1. OrderSize(0) = MinBlock
    BY <1>1, Pow2Facts DEF OrderSize
  <2>2. Top \in Nat /\ 0 \in 0 .. Top
    BY OrdersFacts
  <2> QED BY <2>1, <2>2, OrderSizes
<1>4. AllocationSize(Page)
  <2>1. OrderSize(Top) \in Nat /\ HeapSize = OrderSize(Top)
    BY OrdersFacts
  <2> QED BY <1>1, <1>2, <1>3, <2>1 DEF AllocationSize
<1>5. AllocationOrder(Page) \in Orders /\ Page <= OrderSize(AllocationOrder(Page))
  BY <1>1, <1>4, AllocationOrderFacts
<1>6. OrderSize(AllocationOrder(Page)) \in Nat
  BY <1>5, OrdersFacts, OrderSizes
<1> QED BY <1>4, <1>5, <1>6

(* Blocks start on a page.                                                 *)
LEMMA PageAligned ==
  ASSUME NEW e \in AllBlocks
  PROVE  e[1] % Page = 0
<1>1. e[2] \in Nat /\ Aligned(e[1], e[2])
  BY HoldsItself
<1>2. PICK i \in Nat : e[1] = Base + i * OrderSize(e[2])
  BY <1>1 DEF Aligned
<1>3. /\ Page \in Nat \ {0} /\ Base \in Nat /\ MinBlock \in Nat /\ Pow2[e[2]] \in Nat
      /\ Base % Page = 0 /\ MinBlock % Page = 0
  BY <1>1, PageFacts, BuddyAssumption, PowersFacts, KallocAssumption, Pow2Facts
<1>4. /\ Base \div Page \in Nat /\ Base = (Base \div Page) * Page
      /\ MinBlock \div Page \in Nat /\ MinBlock = (MinBlock \div Page) * Page
  <2>1. Base \div Page \in Nat /\ Base = (Base \div Page) * Page + (Base % Page)
    BY <1>3, Division
  <2>2. MinBlock \div Page \in Nat /\ MinBlock = (MinBlock \div Page) * Page + (MinBlock % Page)
    BY <1>3, Division
  <2>3. \A q \in Nat : q * Page \in Nat
    BY <1>3
  <2> QED BY <1>3, <2>1, <2>2, <2>3
<1>5. PICK x \in Nat : Base = x * Page
  BY <1>4
<1>6. PICK y \in Nat : MinBlock = y * Page
  BY <1>4
<1> DEFINE q == x + i * y * Pow2[e[2]]
<1>7. q \in Nat /\ e[1] = q * Page + 0
  <2>1. e[1] = x * Page + i * ((y * Page) * Pow2[e[2]])
    BY <1>2, <1>5, <1>6 DEF OrderSize
  <2>2. Pow2[e[2]] \in Nat
    BY <1>3
  <2>3. \A z \in Nat : /\ i * y * z \in Nat
                       /\ x * Page + i * ((y * Page) * z) = (x + i * y * z) * Page + 0
    BY <1>3
  <2> QED BY <2>1, <2>2, <2>3
<1> HIDE DEF q
<1>8. 0 \in 0 .. Page - 1
  BY <1>3
<1>9. (q * Page + 0) % Page = 0
  BY <1>3, <1>7, <1>8, DivisionIsUnique
<1> QED BY <1>7, <1>9

-----------------------------------------------------------------------------
(* The slots of a block.                                                   *)

\* make_block links this many slots of class c, the first ones proper.
Linked(c) == (Page - Header + c - 1) \div c
Proper(c) == (Page - Header) \div c

Slot(b, c, i) == b + Header + (i - 1) * c
LinkedSlots(b, c) == {Slot(b, c, i) : i \in 1 .. Linked(c)}
ProperSlots(b, c) == {Slot(b, c, i) : i \in 1 .. Proper(c)}

(* At most the last slot that is linked crosses the end of the block.      *)
LEMMA SlotNumbers ==
  ASSUME NEW c \in Classes
  PROVE  /\ Proper(c) \in Nat \ {0} /\ Linked(c) \in Nat \ {0}
         /\ Proper(c) <= Linked(c) /\ Linked(c) <= Proper(c) + 1
         /\ \A i \in 1 .. Linked(c) : (i - 1) * c \in Nat /\ (i - 1) * c < Page - Header
         /\ \A i \in 1 .. Proper(c) : (i - 1) * c + c <= Page - Header
<1> DEFINE data == Page - Header
<1>1. c \in Nat \ {0} /\ data \in Nat /\ c < data
  BY PageFacts
<1> HIDE DEF data
<1>2. PICK p \in Nat : p = data \div c
  BY <1>1, Division
<1>3. PICK l \in Nat : l = (data + c - 1) \div c
  <2>1. data + c - 1 \in Nat
    BY <1>1
  <2> QED BY <1>1, <2>1, Division
<1>4. p * c \in Nat /\ p * c <= data /\ data < p * c + c
  <2>1. data % c \in 0 .. c - 1 /\ data = p * c + (data % c)
    BY <1>1, <1>2, Division
  <2>2. p * c \in Nat
    BY <1>1
  <2> QED BY <1>1, <2>1, <2>2
<1>5. l * c \in Nat /\ l * c <= data + c - 1 /\ data + c - 1 < l * c + c
  <2>1. data + c - 1 \in Nat
    BY <1>1
  <2>2. (data + c - 1) % c \in 0 .. c - 1 /\ data + c - 1 = l * c + ((data + c - 1) % c)
    BY <1>1, <1>3, <2>1, Division
  <2>3. l * c \in Nat
    BY <1>1
  <2> QED BY <1>1, <2>1, <2>2, <2>3
<1>6. p # 0
  BY <1>1, <1>4
<1>7. p * c < (l + 1) * c
  <2>1. (l + 1) * c = l * c + c
    BY <1>1
  <2> QED BY <2>1, <1>1, <1>4, <1>5
<1>8. l * c < (p + 2) * c
  <2>1. (p + 2) * c = p * c + c + c
    BY <1>1
  <2> QED BY <2>1, <1>1, <1>4, <1>5
<1>9. p <= l
  <2>1. p + 1 <= l + 1
    BY <1>1, <1>7, Apart
  <2> QED BY <2>1
<1>10. l <= p + 1
  <2>1. l + 1 <= p + 2
    BY <1>1, <1>8, Apart
  <2> QED BY <2>1
<1>11. ASSUME NEW i \in 1 .. l PROVE (i - 1) * c \in Nat /\ (i - 1) * c < data
  <2>1. (i - 1) * c \in Nat /\ (i - 1) * c + c <= l * c
    BY <1>1
  <2> QED BY <2>1, <1>1, <1>5
<1>12. ASSUME NEW i \in 1 .. p PROVE (i - 1) * c + c <= data
  <2>1. (i - 1) * c \in Nat /\ (i - 1) * c + c <= p * c
    BY <1>1
  <2> QED BY <2>1, <1>1, <1>4
<1>13. Proper(c) = p /\ Linked(c) = l
  BY <1>2, <1>3 DEF Proper, Linked, data
<1> HIDE <1>2, <1>3
<1> QED BY <1>6, <1>9, <1>10, <1>11, <1>12, <1>13 DEF data

(* A slot lies in the page of its block, and tells it by its address.      *)
LEMMA SlotFacts ==
  ASSUME NEW c \in Classes, NEW b \in Nat, b % Page = 0, NEW i \in 1 .. Linked(c)
  PROVE  LET s == Slot(b, c, i)
         IN  /\ s \in Nat /\ b + Header <= s /\ s < b + Page
             /\ s % Page # 0 /\ s - (s % Page) = b
             /\ i <= Proper(c) => s + c <= b + Page
<1> DEFINE o == (i - 1) * c
           s == Slot(b, c, i)
<1>1. o \in Nat /\ o < Page - Header /\ (i <= Proper(c) => o + c <= Page - Header)
  <2>1. Proper(c) \in Nat
    BY SlotNumbers
  <2> QED BY <2>1, SlotNumbers
<1>2. Page \in Nat \ {0} /\ Header \in Nat \ {0} /\ c \in Nat
  BY PageFacts
<1>3. s = b + Header + o
  BY DEF Slot
<1> HIDE DEF o, s
<1>4. s \in Nat /\ b + Header <= s /\ s < b + Page /\ (i <= Proper(c) => s + c <= b + Page)
  BY <1>1, <1>2, <1>3
<1>5. b \div Page \in Nat /\ b = (b \div Page) * Page + (b % Page)
  BY <1>2, Division
<1>6. PICK q \in Nat : b = q * Page
  <2>1. (b \div Page) * Page \in Nat
    BY <1>2, <1>5
  <2> QED BY <1>5, <2>1
<1>7. Header + o \in 0 .. Page - 1 /\ Header + o # 0
  BY <1>1, <1>2
<1>8. s = q * Page + (Header + o)
  BY <1>1, <1>2, <1>3, <1>6
<1>9. s % Page = Header + o
  <2>1. (q * Page + (Header + o)) % Page = Header + o
    BY <1>2, <1>7, DivisionIsUnique
  <2> QED BY <1>8, <2>1
<1>10. s - (s % Page) = b
  BY <1>1, <1>2, <1>3, <1>9
<1> QED BY <1>4, <1>7, <1>9, <1>10 DEF s

(* Slots of one block do not overlap.                                      *)
LEMMA SlotsApart ==
  ASSUME NEW c \in Classes, NEW b \in Nat, NEW i \in Nat \ {0}, NEW j \in Nat \ {0}
  PROVE  /\ i < j => Slot(b, c, i) + c <= Slot(b, c, j)
         /\ Slot(b, c, i) = Slot(b, c, j) => i = j
<1>1. c \in Nat \ {0} /\ Header \in Nat
  BY PageFacts
<1>2. ASSUME NEW x \in Nat \ {0}, NEW y \in Nat \ {0}, x < y
      PROVE  Slot(b, c, x) + c <= Slot(b, c, y) /\ Slot(b, c, x) \in Nat
  <2>1. (x - 1) * c \in Nat /\ (y - 1) * c \in Nat /\ (x - 1) * c + c <= (y - 1) * c
    BY <1>1, <1>2
  <2> QED BY <1>1, <2>1 DEF Slot
<1>3. i < j => Slot(b, c, i) + c <= Slot(b, c, j) /\ Slot(b, c, i) \in Nat
  BY <1>2
<1>4. j < i => Slot(b, c, j) + c <= Slot(b, c, i) /\ Slot(b, c, j) \in Nat
  BY <1>2
<1> QED BY <1>1, <1>3, <1>4

(* make_block.                                                             *)
LEMMA MakeBlockFacts ==
  ASSUME NEW c \in Classes, NEW b \in Nat
  PROVE  LET h == MakeBlock(b, c)
         IN  /\ h.class = c /\ h.alloc_slots = 0 /\ h.total_slots = Proper(c)
             /\ h.free_head = [i \in 1 .. Linked(c) |-> Slot(b, c, i)]
             /\ h = [class |-> c, free_head |-> h.free_head, alloc_slots |-> 0,
                     total_slots |-> Proper(c)]
             /\ Range(h.free_head) = LinkedSlots(b, c)
BY DEF MakeBlock, Linked, Proper, Slot, LinkedSlots, Range

(* As long as fewer slots are in use than are proper, a proper one is not. *)
LEMMA ProperLeft ==
  ASSUME NEW c \in Classes, NEW b \in Nat, NEW used, IsFiniteSet(used),
         Cardinality(used) < Proper(c)
  PROVE  \E i \in 1 .. Proper(c) : Slot(b, c, i) \notin used
<1> SUFFICES ASSUME \A i \in 1 .. Proper(c) : Slot(b, c, i) \in used PROVE FALSE
  OBVIOUS
<1> DEFINE f == [i \in 1 .. Proper(c) |-> Slot(b, c, i)]
<1>1. Proper(c) \in Nat \ {0}
  BY SlotNumbers
<1>2. f \in [1 .. Proper(c) -> used]
  OBVIOUS
<1>3. \A i, j \in 1 .. Proper(c) : f[i] = f[j] => i = j
  BY <1>1, SlotsApart
<1> HIDE DEF f
<1>4. f \in Injection(1 .. Proper(c), used)
  BY <1>2, <1>3 DEF Injection, IsInjective
<1>5. Cardinality(1 .. Proper(c)) <= Cardinality(used)
  BY <1>4, FS_Injection
<1>6. Cardinality(1 .. Proper(c)) = Proper(c)
  BY <1>1, FS_Interval
<1>7. Cardinality(used) \in Nat
  BY FS_CardinalityType
<1> QED BY <1>1, <1>5, <1>6, <1>7

-----------------------------------------------------------------------------
(* One block of slots: mine is the set of its slots that are handed out.   *)

\* The list ends in the slot that crosses the end of the block, if there is one
\* and it is free; every slot before the last of the list is proper.
BlockOK(b, h, mine) ==
    /\ h \in [class : Classes, free_head : Seq(Nat), alloc_slots : Nat, total_slots : Nat]
    /\ h.total_slots = Proper(h.class)
    /\ IsFiniteSet(mine) /\ h.alloc_slots = Cardinality(mine)
    /\ IsInjective(h.free_head)
    /\ Range(h.free_head) \intersect mine = {}
    /\ Range(h.free_head) \union mine = LinkedSlots(b, h.class)
    /\ mine \subseteq ProperSlots(b, h.class)
    /\ \A i \in 1 .. Len(h.free_head) - 1 : h.free_head[i] \in ProperSlots(b, h.class)

(* The proper slots of a block are linked by make_block; only the last     *)
(* linked slot may not be proper.                                          *)
LEMMA ProperAreLinked ==
  ASSUME NEW c \in Classes, NEW b \in Nat
  PROVE  /\ ProperSlots(b, c) \subseteq LinkedSlots(b, c)
         /\ LinkedSlots(b, c) \subseteq Nat
         /\ \A i \in 1 .. Linked(c) : i < Linked(c) => Slot(b, c, i) \in ProperSlots(b, c)
<1>1. /\ Proper(c) \in Nat /\ Linked(c) \in Nat /\ Proper(c) <= Linked(c)
      /\ Linked(c) <= Proper(c) + 1 /\ \A i \in 1 .. Linked(c) : (i - 1) * c \in Nat
  BY SlotNumbers
<1>2. Header \in Nat
  BY PageFacts
<1> QED BY <1>1, <1>2 DEF ProperSlots, LinkedSlots, Slot

(* A new block, with nothing handed out.                                   *)
LEMMA BlockNew ==
  ASSUME NEW c \in Classes, NEW b \in Nat
  PROVE  /\ BlockOK(b, MakeBlock(b, c), {})
         /\ MakeBlock(b, c).class = c
         /\ MakeBlock(b, c).alloc_slots < MakeBlock(b, c).total_slots
<1> DEFINE h == MakeBlock(b, c)
           l == [i \in 1 .. Linked(c) |-> Slot(b, c, i)]
<1>1. /\ h.class = c /\ h.alloc_slots = 0 /\ h.total_slots = Proper(c) /\ h.free_head = l
      /\ h = [class |-> c, free_head |-> l, alloc_slots |-> 0, total_slots |-> Proper(c)]
      /\ Range(l) = LinkedSlots(b, c)
  BY MakeBlockFacts
<1>2. Proper(c) \in Nat \ {0} /\ Linked(c) \in Nat \ {0}
  BY SlotNumbers
<1>3. \A i \in 1 .. Linked(c) : Slot(b, c, i) \in Nat
  BY ProperAreLinked DEF LinkedSlots
<1>4. l \in Seq(Nat) /\ Len(l) = Linked(c)
  BY <1>2, <1>3
<1>5. \A i \in 1 .. Linked(c) : l[i] = Slot(b, c, i)
  OBVIOUS
<1>6. DOMAIN l = 1 .. Linked(c)
  OBVIOUS
<1> HIDE DEF h, l
<1>7. IsInjective(l)
  <2>1. \A i \in 1 .. Linked(c), j \in 1 .. Linked(c) : Slot(b, c, i) = Slot(b, c, j) => i = j
    BY <1>2, SlotsApart
  <2> QED BY <2>1, <1>5, <1>6 DEF IsInjective
<1>8. \A i \in 1 .. Len(l) - 1 : l[i] \in ProperSlots(b, c)
  BY <1>2, <1>4, <1>5, ProperAreLinked
<1>9. IsFiniteSet({}) /\ Cardinality({}) = 0
  BY FS_EmptySet
<1>10. h \in [class : Classes, free_head : Seq(Nat), alloc_slots : Nat, total_slots : Nat]
  BY <1>1, <1>2, <1>4
<1>11. BlockOK(b, h, {})
  BY <1>1, <1>7, <1>8, <1>9, <1>10 DEF BlockOK
<1> QED BY <1>1, <1>2, <1>11 DEF h

(* Lists: an element put before the first, the first one taken.            *)
LEMMA PushFacts ==
  ASSUME NEW l \in Seq(Nat), IsInjective(l), NEW s \in Nat, s \notin Range(l)
  PROVE  LET m == <<s>> \o l
         IN  /\ m \in Seq(Nat) /\ IsInjective(m) /\ Range(m) = Range(l) \union {s}
             /\ Len(m) = Len(l) + 1 /\ m[1] = s /\ \A i \in 1 .. Len(l) : m[i + 1] = l[i]
<1> DEFINE m == <<s>> \o l
<1>1. /\ m \in Seq(Nat) /\ Len(m) = Len(l) + 1 /\ Len(l) \in Nat /\ m[1] = s
      /\ \A i \in 1 .. Len(l) : m[i + 1] = l[i]
      /\ \A j \in 2 .. Len(m) : m[j] = l[j - 1] /\ j - 1 \in 1 .. Len(l)
  OBVIOUS
<1>2. DOMAIN m = 1 .. Len(m) /\ DOMAIN l = 1 .. Len(l)
  BY <1>1
<1> HIDE DEF m
<1>3. Range(m) = Range(l) \union {s}
  <2>1. ASSUME NEW j \in 1 .. Len(m) PROVE m[j] \in Range(l) \union {s}
    <3>1. j = 1 \/ j \in 2 .. Len(m)
      BY <1>1
    <3> QED BY <3>1, <1>1, <1>2 DEF Range
  <2>2. s \in Range(m)
    BY <1>1, <1>2 DEF Range
  <2>3. ASSUME NEW i \in 1 .. Len(l) PROVE l[i] \in Range(m)
    <3>1. i + 1 \in 1 .. Len(m) /\ m[i + 1] = l[i]
      BY <1>1
    <3> QED BY <3>1, <1>2 DEF Range
  <2> QED BY <2>1, <2>2, <2>3, <1>2 DEF Range
<1>4. IsInjective(m)
  <2> SUFFICES ASSUME NEW i \in 1 .. Len(m), NEW j \in 1 .. Len(m), m[i] = m[j] PROVE i = j
    BY <1>2 DEF IsInjective
  <2>1. ASSUME NEW k \in 2 .. Len(m) PROVE m[k] # s
    <3>1. m[k] = l[k - 1] /\ k - 1 \in DOMAIN l
      BY <1>1, <1>2
    <3>2. l[k - 1] \in Range(l)
      BY <3>1 DEF Range
    <3> QED BY <3>1, <3>2
  <2>2. CASE i = 1 \/ j = 1
    BY <2>1, <2>2, <1>1
  <2>3. CASE i \in 2 .. Len(m) /\ j \in 2 .. Len(m)
    <3>1. l[i - 1] = l[j - 1] /\ i - 1 \in DOMAIN l /\ j - 1 \in DOMAIN l
      BY <1>1, <1>2, <2>3
    <3>2. i - 1 = j - 1
      BY <3>1 DEF IsInjective
    <3> QED BY <3>2
  <2> QED BY <2>2, <2>3, <1>1
<1> QED BY <1>1, <1>3, <1>4 DEF m

(* The first element taken from a list.                                    *)
LEMMA PopFacts ==
  ASSUME NEW l \in Seq(Nat), IsInjective(l), l # <<>>
  PROVE  LET m == Tail(l)
         IN  /\ m \in Seq(Nat) /\ IsInjective(m) /\ Head(l) = l[1] /\ Head(l) \in Range(l)
             /\ Range(m) = Range(l) \ {Head(l)}
             /\ Len(m) = Len(l) - 1 /\ \A i \in 1 .. Len(m) : m[i] = l[i + 1]
<1> DEFINE m == Tail(l)
           s == Head(l)
<1>1. /\ m \in Seq(Nat) /\ Len(m) = Len(l) - 1 /\ Len(l) \in Nat \ {0} /\ s = l[1]
      /\ \A i \in 1 .. Len(m) : m[i] = l[i + 1] /\ i + 1 \in 2 .. Len(l)
      /\ \A j \in 2 .. Len(l) : j - 1 \in 1 .. Len(m) /\ m[j - 1] = l[j]
  OBVIOUS
<1>2. DOMAIN m = 1 .. Len(m) /\ DOMAIN l = 1 .. Len(l)
  BY <1>1
<1> HIDE DEF m, s
<1>3. \A i \in 1 .. Len(l), j \in 1 .. Len(l) : l[i] = l[j] => i = j
  BY <1>2 DEF IsInjective
<1>4. Range(m) = Range(l) \ {s}
  <2>1. ASSUME NEW i \in 1 .. Len(m) PROVE m[i] \in Range(l) /\ m[i] # s
    <3>1. m[i] = l[i + 1] /\ i + 1 \in 1 .. Len(l) /\ 1 \in 1 .. Len(l) /\ i + 1 # 1
      BY <1>1
    <3> QED BY <3>1, <1>1, <1>2, <1>3 DEF Range
  <2>2. ASSUME NEW j \in 1 .. Len(l), l[j] # s PROVE l[j] \in Range(m)
    <3>1. j \in 2 .. Len(l)
      BY <2>2, <1>1
    <3> QED BY <3>1, <1>1, <1>2 DEF Range
  <2> QED BY <2>1, <2>2, <1>2 DEF Range
<1>5. IsInjective(m)
  <2> SUFFICES ASSUME NEW i \in 1 .. Len(m), NEW j \in 1 .. Len(m), m[i] = m[j] PROVE i = j
    BY <1>2 DEF IsInjective
  <2>1. i + 1 \in 1 .. Len(l) /\ j + 1 \in 1 .. Len(l) /\ l[i + 1] = l[j + 1]
    <3>1. m[i] = l[i + 1] /\ i + 1 \in 2 .. Len(l)
      BY <1>1
    <3>2. m[j] = l[j + 1] /\ j + 1 \in 2 .. Len(l)
      BY <1>1
    <3>3. \A k \in 2 .. Len(l) : k \in 1 .. Len(l)
      BY <1>1
    <3> QED BY <3>1, <3>2, <3>3
  <2>2. i + 1 = j + 1
    BY <2>1, <1>3
  <2> QED BY <2>2
<1>6. s \in Range(l)
  BY <1>1, <1>2 DEF Range
<1> QED BY <1>1, <1>4, <1>5, <1>6 DEF m, s

(* kfree of a slot.                                                        *)
LEMMA BlockPush ==
  ASSUME NEW b \in Nat, NEW h, NEW mine, BlockOK(b, h, mine), NEW s \in mine
  PROVE  /\ BlockOK(b, [class |-> h.class, free_head |-> <<s>> \o h.free_head,
                        alloc_slots |-> h.alloc_slots - 1, total_slots |-> h.total_slots],
                    mine \ {s})
         /\ h.alloc_slots \in Nat /\ h.total_slots \in Nat
<1> DEFINE l == h.free_head
           m == <<s>> \o l
           g == [class |-> h.class, free_head |-> m,
                 alloc_slots |-> h.alloc_slots - 1, total_slots |-> h.total_slots]
<1>1. /\ h.class \in Classes /\ l \in Seq(Nat) /\ h.alloc_slots \in Nat
      /\ h.total_slots \in Nat /\ h.total_slots = Proper(h.class)
      /\ IsFiniteSet(mine) /\ h.alloc_slots = Cardinality(mine)
      /\ IsInjective(l) /\ Range(l) \intersect mine = {}
      /\ Range(l) \union mine = LinkedSlots(b, h.class)
      /\ mine \subseteq ProperSlots(b, h.class)
      /\ \A i \in 1 .. Len(l) - 1 : l[i] \in ProperSlots(b, h.class)
  BY DEF BlockOK
<1>2. s \in Nat /\ s \notin Range(l) /\ s \in ProperSlots(b, h.class)
  BY <1>1, ProperAreLinked
<1> HIDE DEF l
<1>3. /\ m \in Seq(Nat) /\ IsInjective(m) /\ Range(m) = Range(l) \union {s}
      /\ Len(m) = Len(l) + 1 /\ m[1] = s /\ \A i \in 1 .. Len(l) : m[i + 1] = l[i]
  BY <1>1, <1>2, PushFacts
<1>4. /\ g.class = h.class /\ g.free_head = m /\ g.alloc_slots = h.alloc_slots - 1
      /\ g.total_slots = h.total_slots
  OBVIOUS
<1> HIDE DEF m
<1>5. /\ IsFiniteSet(mine \ {s}) /\ Cardinality(mine \ {s}) = h.alloc_slots - 1
      /\ h.alloc_slots - 1 \in Nat
  <2>1. IsFiniteSet(mine \ {s}) /\ Cardinality(mine \ {s}) = Cardinality(mine) - 1
    BY <1>1, FS_RemoveElement
  <2>2. Cardinality(mine \ {s}) \in Nat
    BY <2>1, FS_CardinalityType
  <2> QED BY <1>1, <2>1, <2>2
<1>6. g \in [class : Classes, free_head : Seq(Nat), alloc_slots : Nat, total_slots : Nat]
  BY <1>1, <1>3, <1>5
<1> HIDE DEF g
<1>7. \A i \in 1 .. Len(m) - 1 : m[i] \in ProperSlots(b, h.class)
  <2> TAKE i \in 1 .. Len(m) - 1
  <2>1. Len(l) \in Nat
    BY <1>1
  <2>2. CASE i = 1
    BY <2>2, <1>2, <1>3
  <2>3. CASE i # 1
    <3>1. i - 1 \in 1 .. Len(l) /\ i - 1 \in 1 .. Len(l) - 1 /\ (i - 1) + 1 = i
      BY <1>3, <2>1, <2>3
    <3>2. m[i] = l[i - 1]
      BY <1>3, <3>1
    <3> QED BY <1>1, <3>1, <3>2
  <2> QED BY <2>2, <2>3
<1>8. Range(m) \intersect (mine \ {s}) = {} /\ Range(m) \union (mine \ {s}) = LinkedSlots(b, h.class)
  BY <1>1, <1>3
<1>9. mine \ {s} \subseteq ProperSlots(b, h.class)
  BY <1>1
<1>10. BlockOK(b, g, mine \ {s})
  BY <1>1, <1>3, <1>4, <1>5, <1>6, <1>7, <1>8, <1>9 DEF BlockOK
<1> QED BY <1>1, <1>10 DEF g, m, l

(* alloc_into: the first slot of a block that is not full is a proper one. *)
LEMMA BlockPop ==
  ASSUME NEW b \in Nat, NEW h, NEW mine, BlockOK(b, h, mine), h.alloc_slots < h.total_slots
  PROVE  /\ h.free_head # <<>>
         /\ Head(h.free_head) \in ProperSlots(b, h.class) /\ Head(h.free_head) \notin mine
         /\ BlockOK(b, [class |-> h.class, free_head |-> Tail(h.free_head),
                        alloc_slots |-> h.alloc_slots + 1, total_slots |-> h.total_slots],
                    mine \union {Head(h.free_head)})
<1> DEFINE l == h.free_head
           m == Tail(l)
           s == Head(l)
           g == [class |-> h.class, free_head |-> m,
                 alloc_slots |-> h.alloc_slots + 1, total_slots |-> h.total_slots]
<1>1. /\ h.class \in Classes /\ l \in Seq(Nat) /\ h.alloc_slots \in Nat
      /\ h.total_slots \in Nat /\ h.total_slots = Proper(h.class)
      /\ IsFiniteSet(mine) /\ h.alloc_slots = Cardinality(mine)
      /\ IsInjective(l) /\ Range(l) \intersect mine = {}
      /\ Range(l) \union mine = LinkedSlots(b, h.class)
      /\ mine \subseteq ProperSlots(b, h.class)
      /\ \A i \in 1 .. Len(l) - 1 : l[i] \in ProperSlots(b, h.class)
  BY DEF BlockOK
<1> HIDE DEF l
<1>2. PICK p \in 1 .. Proper(h.class) : Slot(b, h.class, p) \notin mine
  BY <1>1, ProperLeft
<1>3. Slot(b, h.class, p) \in ProperSlots(b, h.class)
  BY DEF ProperSlots
<1>4. Slot(b, h.class, p) \in Range(l)
  BY <1>1, <1>2, <1>3, ProperAreLinked
<1>5. PICK i \in 1 .. Len(l) : l[i] = Slot(b, h.class, p)
  <2>1. DOMAIN l = 1 .. Len(l)
    BY <1>1
  <2> QED BY <1>4, <2>1 DEF Range
<1>6. l # <<>>
  <2>1. Len(l) # 0
    BY <1>5
  <2> QED BY <2>1
<1>7. /\ m \in Seq(Nat) /\ IsInjective(m) /\ s = l[1] /\ s \in Range(l)
      /\ Range(m) = Range(l) \ {s}
      /\ Len(m) = Len(l) - 1 /\ \A j \in 1 .. Len(m) : m[j] = l[j + 1]
  BY <1>1, <1>6, PopFacts
<1>8. s \in ProperSlots(b, h.class)
  <2>1. Len(l) \in Nat
    BY <1>1
  <2>2. CASE i = 1
    BY <2>2, <1>3, <1>5, <1>7
  <2>3. CASE i # 1
    <3>1. 1 \in 1 .. Len(l) - 1
      BY <2>1, <2>3
    <3> QED BY <3>1, <1>1, <1>7
  <2> QED BY <2>2, <2>3
<1>9. /\ g.class = h.class /\ g.free_head = m /\ g.alloc_slots = h.alloc_slots + 1
      /\ g.total_slots = h.total_slots
  OBVIOUS
<1>10. s \notin mine
  BY <1>1, <1>7
<1> HIDE DEF m, s
<1>11. IsFiniteSet(mine \union {s}) /\ Cardinality(mine \union {s}) = h.alloc_slots + 1
  BY <1>1, <1>10, FS_AddElement
<1>12. g \in [class : Classes, free_head : Seq(Nat), alloc_slots : Nat, total_slots : Nat]
  BY <1>1, <1>7
<1> HIDE DEF g
<1>13. \A j \in 1 .. Len(m) - 1 : m[j] \in ProperSlots(b, h.class)
  <2> TAKE j \in 1 .. Len(m) - 1
  <2>1. Len(l) \in Nat
    BY <1>1
  <2>2. j \in 1 .. Len(m) /\ j + 1 \in 1 .. Len(l) - 1
    BY <1>7, <2>1
  <2> QED BY <1>1, <1>7, <2>2
<1>14. /\ Range(m) \intersect (mine \union {s}) = {}
       /\ Range(m) \union (mine \union {s}) = LinkedSlots(b, h.class)
  BY <1>1, <1>7
<1>15. mine \union {s} \subseteq ProperSlots(b, h.class)
  BY <1>1, <1>8
<1>16. BlockOK(b, g, mine \union {s})
  BY <1>1, <1>7, <1>9, <1>11, <1>12, <1>13, <1>14, <1>15 DEF BlockOK
<1> QED BY <1>6, <1>8, <1>10, <1>16 DEF g, m, s, l

-----------------------------------------------------------------------------
(* The inductive invariant, as a predicate of the values of the variables. *)

LargeOf(li) == {a \in li : Pow2Ceil(a.size) >= Page}

\* The blocks that the buddy allocator has handed out.
LargeBlocks(li) == {<<a.addr, AllocationOrder(a.size)>> : a \in LargeOf(li)}
SlotBlocks(hd) == {<<b, AllocationOrder(Page)>> : b \in DOMAIN hd}
UsedBy(hd, li) == LargeBlocks(li) \union SlotBlocks(hd)

\* The slots of block b that are handed out.
MineOf(b, li) == {a.addr : a \in {x \in li : x.addr \in Words(b, Page)}}

\* A block on the partial list of its class is the only one there, and it is not
\* full.
PartialOK(hd, pa) ==
    /\ pa \in [Classes -> Seq(DOMAIN hd)]
    /\ \A c \in Classes : pa[c] # <<>> =>
        \E b \in DOMAIN hd :
            pa[c] = <<b>> /\ hd[b].class = c /\ hd[b].alloc_slots < hd[b].total_slots

\* An allocation is a block of its own, or a proper slot of its class.
LiveOK(hd, li) ==
    /\ li \subseteq [addr : HeapWords, size : Sizes]
    /\ \A a \in li, x \in li : a.addr = x.addr => a = x
    /\ \A a \in LargeOf(li) : a.addr \notin DOMAIN hd /\ AllocationSize(a.size)
    /\ \A a \in li : Pow2Ceil(a.size) < Page =>
        \E b \in DOMAIN hd :
            hd[b].class = Pow2Ceil(a.size) /\ a.addr \in ProperSlots(b, hd[b].class)

Heap(fr, hd, pa, fu, li) ==
    /\ Tiled(fr, UsedBy(hd, li))
    /\ \A b \in DOMAIN hd : BlockOK(b, hd[b], MineOf(b, li))
    /\ PartialOK(hd, pa)
    /\ fu \in [Classes -> SUBSET DOMAIN hd]
    /\ LiveOK(hd, li)

(* The words of a block are words of the heap.                             *)
LEMMA BlockInHeap ==
  ASSUME NEW e \in AllBlocks, NEW w \in Int, Holds(e, w)
  PROVE  w \in HeapWords
<1>1. /\ e[1] \in HeapWords /\ e[1] \in Nat /\ OrderSize(e[2]) \in Nat
      /\ e[1] + OrderSize(e[2]) <= Base + HeapSize
  BY HoldsItself DEF Aligned
<1>2. Base \in Nat /\ HeapSize \in Nat
  BY OrdersFacts
<1> QED BY <1>1, <1>2 DEF Holds, HeapWords

(* Two blocks handed out share no word, nor does one share a word with a   *)
(* free block.                                                             *)
LEMMA UsedApart ==
  ASSUME NEW fr, NEW used, Tiled(fr, used)
  PROVE  /\ used \subseteq AllBlocks /\ FreeSet(fr) \subseteq AllBlocks
         /\ \A e \in used, f \in used : \A w \in HeapWords : Holds(e, w) /\ Holds(f, w) => e = f
         /\ \A e \in used, f \in FreeSet(fr) : \A w \in HeapWords : ~ (Holds(e, w) /\ Holds(f, w))
BY DEF Tiled, Tiling

(* A block of slots starts on a page and contains it.                      *)
LEMMA SlotBlockFacts ==
  ASSUME NEW fr, NEW hd, NEW li, Tiled(fr, UsedBy(hd, li)), NEW b \in DOMAIN hd
  PROVE  LET e == <<b, AllocationOrder(Page)>>
         IN  /\ e \in UsedBy(hd, li) /\ e \in AllBlocks
             /\ b \in HeapWords /\ b \in Nat /\ b % Page = 0
             /\ \A w \in Words(b, Page) : w \in HeapWords /\ Holds(e, w)
<1> DEFINE e == <<b, AllocationOrder(Page)>>
<1>1. e \in UsedBy(hd, li)
  BY DEF UsedBy, SlotBlocks
<1>2. e \in AllBlocks
  BY <1>1, UsedApart
<1>3. b \in HeapWords /\ b \in Nat
  BY <1>2, HoldsItself
<1>4. b % Page = 0
  BY <1>2, PageAligned
<1>5. ASSUME NEW w \in Words(b, Page) PROVE w \in HeapWords /\ Holds(e, w)
  <2>1. w \in Int /\ b <= w /\ w < b + Page
    BY <1>3, PageFacts DEF Words
  <2>2. Holds(e, w)
    BY <2>1, <1>3, PageOrder, PageFacts DEF Holds
  <2> QED BY <2>1, <2>2, <1>2, BlockInHeap
<1> QED BY <1>1, <1>2, <1>3, <1>4, <1>5

(* A large allocation is a block that holds its extent.                    *)
LEMMA LargeFacts ==
  ASSUME NEW fr, NEW hd, NEW li, Tiled(fr, UsedBy(hd, li)), LiveOK(hd, li), NEW a \in LargeOf(li)
  PROVE  LET e == <<a.addr, AllocationOrder(a.size)>>
         IN  /\ e \in UsedBy(hd, li) /\ e \in AllBlocks
             /\ a.addr \in HeapWords /\ a.addr \in Nat /\ a.addr % Page = 0 /\ Holds(e, a.addr)
             /\ \A w \in Words(a.addr, Pow2Ceil(a.size)) : w \in HeapWords /\ Holds(e, w)
<1> DEFINE e == <<a.addr, AllocationOrder(a.size)>>
<1>1. e \in UsedBy(hd, li)
  BY DEF UsedBy, LargeBlocks
<1>2. e \in AllBlocks
  BY <1>1, UsedApart
<1>3. a.addr \in HeapWords /\ a.addr \in Nat /\ Holds(e, a.addr) /\ OrderSize(e[2]) \in Nat
  BY <1>2, HoldsItself
<1>4. a.addr % Page = 0
  BY <1>2, PageAligned
<1>5. a.size \in Sizes /\ a.size \in Nat /\ AllocationSize(a.size)
  BY PageFacts DEF LiveOK, LargeOf
<1>6. Pow2Ceil(a.size) <= OrderSize(e[2]) /\ Pow2Ceil(a.size) \in Nat
  <2>1. Pow2Ceil(a.size) \in Nat /\ AllocationSize(Pow2Ceil(a.size))
    BY <1>5, CeilFacts, SameOrderAsked
  <2>2. Pow2Ceil(a.size) <= OrderSize(AllocationOrder(Pow2Ceil(a.size)))
    BY <2>1, AllocationOrderFacts
  <2> QED BY <2>1, <2>2, <1>5, SameOrderAsked
<1>7. ASSUME NEW w \in Words(a.addr, Pow2Ceil(a.size)) PROVE w \in HeapWords /\ Holds(e, w)
  <2>1. w \in Int /\ a.addr <= w /\ w < a.addr + Pow2Ceil(a.size)
    BY <1>3, <1>6 DEF Words
  <2>2. Holds(e, w)
    BY <2>1, <1>3, <1>6 DEF Holds
  <2> QED BY <2>1, <2>2, <1>2, BlockInHeap
<1> QED BY <1>1, <1>2, <1>3, <1>4, <1>7

(* A proper slot lies in the page of its block, behind the header.         *)
LEMMA SmallFacts ==
  ASSUME NEW fr, NEW hd, NEW li, Tiled(fr, UsedBy(hd, li)),
         NEW b \in DOMAIN hd, hd[b].class \in Classes, NEW s \in ProperSlots(b, hd[b].class)
  PROVE  /\ s \in Nat /\ s % Page # 0 /\ s - (s % Page) = b
         /\ s \in Words(b, Page) /\ s \in HeapWords
         /\ \A w \in Words(s, hd[b].class) : w \in Words(b, Page) /\ b + Header <= w /\ w \in HeapWords
<1> DEFINE c == hd[b].class
<1>1. b \in Nat /\ b % Page = 0 /\ \A w \in Words(b, Page) : w \in HeapWords
  BY SlotBlockFacts
<1>2. PICK i \in 1 .. Proper(c) : s = Slot(b, c, i)
  BY DEF ProperSlots
<1>3. i \in 1 .. Linked(c) /\ i <= Proper(c)
  BY SlotNumbers
<1>4. /\ s \in Nat /\ b + Header <= s /\ s < b + Page /\ s % Page # 0
      /\ s - (s % Page) = b /\ s + c <= b + Page
  BY <1>1, <1>2, <1>3, SlotFacts
<1>5. Page \in Nat /\ Header \in Nat /\ c \in Nat
  BY PageFacts
<1> HIDE DEF c
<1>6. s \in Words(b, Page)
  BY <1>1, <1>4, <1>5 DEF Words
<1>7. \A w \in Words(s, c) : w \in Words(b, Page) /\ b + Header <= w
  BY <1>1, <1>4, <1>5 DEF Words
<1> QED BY <1>1, <1>4, <1>6, <1>7 DEF c

-----------------------------------------------------------------------------
(* The calls preserve the invariant.                                       *)

(* What a block that the buddy allocator hands out is apart from.          *)
LEMMA FreshBlock ==
  ASSUME NEW fr, NEW hd, NEW li, Tiled(fr, UsedBy(hd, li)), LiveOK(hd, li),
         \A b \in DOMAIN hd : hd[b].class \in Classes,
         NEW f2, NEW e, Tiled(f2, UsedBy(hd, li) \union {e}), e \notin UsedBy(hd, li),
         NEW w \in HeapWords, Holds(e, w)
  PROVE  /\ \A x \in li : x.addr # w
         /\ \A b \in DOMAIN hd : w \notin Words(b, Page)
<1>1. \A f \in UsedBy(hd, li) : ~ Holds(f, w)
  <2> DEFINE used == UsedBy(hd, li) \union {e}
  <2>1. \A f \in used, g \in used : \A v \in HeapWords : Holds(f, v) /\ Holds(g, v) => f = g
    BY UsedApart
  <2> QED BY <2>1
<1>2. \A b \in DOMAIN hd : w \notin Words(b, Page)
  BY <1>1, SlotBlockFacts
<1>3. ASSUME NEW x \in li PROVE x.addr # w
  <2>1. CASE x \in LargeOf(li)
    BY <2>1, <1>1, LargeFacts
  <2>2. CASE x \notin LargeOf(li)
    <3>1. Pow2Ceil(x.size) < Page
      <4>1. Pow2Ceil(x.size) \in Nat /\ Page \in Nat
        BY CeilFacts, PageFacts DEF LiveOK
      <4> QED BY <4>1, <2>2 DEF LargeOf
    <3>2. PICK b \in DOMAIN hd : x.addr \in ProperSlots(b, hd[b].class)
      BY <3>1 DEF LiveOK
    <3>3. x.addr \in Words(b, Page)
      BY <3>2, SmallFacts
    <3> QED BY <3>3, <1>2
  <2> QED BY <2>1, <2>2
<1> QED BY <1>2, <1>3

(* The blocks of slots are not changed by what happens outside of them.    *)
LEMMA MineElsewhere ==
  ASSUME NEW b, NEW li, NEW x, x.addr \notin Words(b, Page)
  PROVE  MineOf(b, li \union {x}) = MineOf(b, li) /\ MineOf(b, li \ {x}) = MineOf(b, li)
BY DEF MineOf

(* The class of every header is one that requests can have.                *)
LEMMA HeapClasses ==
  ASSUME NEW fr, NEW hd, NEW pa, NEW fu, NEW li, Heap(fr, hd, pa, fu, li)
  PROVE  \A b \in DOMAIN hd : hd[b].class \in Classes
BY DEF Heap, BlockOK

(* A request goes either to the buddy allocator or to a block of slots.    *)
LEMMA SizesSplit ==
  ASSUME NEW sz \in Sizes
  PROVE  Pow2Ceil(sz) < Page <=> ~ (Pow2Ceil(sz) >= Page)
BY CeilFacts, PageFacts

(* kalloc of a page or more.                                               *)
LEMMA HeapAllocLarge ==
  ASSUME NEW fr, NEW hd, NEW pa, NEW fu, NEW li, Heap(fr, hd, pa, fu, li),
         NEW sz \in Sizes, Pow2Ceil(sz) >= Page, NEW a \in Allocations(fr, Pow2Ceil(sz))
  PROVE  Heap(a.free, hd, pa, fu, li \union {[addr |-> a.block, size |-> sz]})
<1> DEFINE x == [addr |-> a.block, size |-> sz]
           l2 == li \union {x}
           e == <<a.block, AllocationOrder(sz)>>
           used == UsedBy(hd, li)
<1>1. /\ Tiled(fr, used) /\ PartialOK(hd, pa) /\ fu \in [Classes -> SUBSET DOMAIN hd] /\ LiveOK(hd, li)
      /\ \A b \in DOMAIN hd : BlockOK(b, hd[b], MineOf(b, li))
  BY DEF Heap
<1>2. /\ AllocationSize(sz) /\ Tiled(a.free, used \union {e}) /\ e \notin used /\ a.block \in HeapWords
  <2>1. Pow2Ceil(sz) \in Nat
    BY CeilFacts
  <2> HIDE DEF used
  <2>2. /\ AllocationSize(Pow2Ceil(sz)) /\ a.block \in HeapWords
        /\ Tiled(a.free, used \union {<<a.block, AllocationOrder(Pow2Ceil(sz))>>})
        /\ <<a.block, AllocationOrder(Pow2Ceil(sz))>> \notin used
    BY <1>1, <2>1, AllocTiles
  <2> QED BY <2>2, SameOrderAsked
<1>3. Holds(e, a.block)
  <2>1. e \in AllBlocks
    BY <1>2, UsedApart
  <2> QED BY <2>1, HoldsItself
<1>4. /\ \A y \in li : y.addr # a.block
      /\ \A b \in DOMAIN hd : a.block \notin Words(b, Page)
  <2> HIDE DEF e
  <2> QED BY <1>1, <1>2, <1>3, HeapClasses, FreshBlock
<1>5. x.addr = a.block /\ x.size = sz
  OBVIOUS
<1> HIDE DEF x
<1>6. LargeOf(l2) = LargeOf(li) \union {x}
  BY <1>5 DEF LargeOf
<1>7. UsedBy(hd, l2) = used \union {e}
  BY <1>5, <1>6 DEF UsedBy, LargeBlocks
<1>8. \A b \in DOMAIN hd : MineOf(b, l2) = MineOf(b, li)
  BY <1>4, <1>5, MineElsewhere
<1>9. a.block \notin DOMAIN hd
  <2> SUFFICES ASSUME a.block \in DOMAIN hd PROVE FALSE
    OBVIOUS
  <2>1. a.block \in Nat /\ Page \in Nat \ {0}
    BY SlotBlockFacts, <1>1, PageFacts
  <2>2. a.block \in Words(a.block, Page)
    BY <2>1 DEF Words
  <2> QED BY <2>2, <1>4
<1>10. LiveOK(hd, l2)
  <2>1. l2 \subseteq [addr : HeapWords, size : Sizes]
    BY <1>1, <1>2 DEF LiveOK, x
  <2>2. \A y \in l2, z \in l2 : y.addr = z.addr => y = z
    BY <1>1, <1>4, <1>5 DEF LiveOK
  <2>3. \A y \in LargeOf(l2) : y.addr \notin DOMAIN hd /\ AllocationSize(y.size)
    BY <1>1, <1>2, <1>5, <1>6, <1>9 DEF LiveOK
  <2>4. \A y \in l2 : Pow2Ceil(y.size) < Page =>
          \E b \in DOMAIN hd :
            hd[b].class = Pow2Ceil(y.size) /\ y.addr \in ProperSlots(b, hd[b].class)
    BY <1>1, <1>5, SizesSplit DEF LiveOK
  <2> QED BY <2>1, <2>2, <2>3, <2>4 DEF LiveOK
<1> HIDE DEF used, l2, e
<1>11. Heap(a.free, hd, pa, fu, l2)
  BY <1>1, <1>2, <1>7, <1>8, <1>10 DEF Heap
<1> QED BY <1>11 DEF l2, x

(* kfree of a page-aligned address.                                        *)
LEMMA HeapFreeLarge ==
  ASSUME NEW fr, NEW hd, NEW pa, NEW fu, NEW li, Heap(fr, hd, pa, fu, li),
         NEW a \in li, a.addr % Page = 0
  PROVE  Heap(Dealloc(fr, a.addr, a.size), hd, pa, fu, li \ {a})
<1> DEFINE l2 == li \ {a}
           e == <<a.addr, AllocationOrder(a.size)>>
           used == UsedBy(hd, li)
<1>1. /\ Tiled(fr, used) /\ PartialOK(hd, pa) /\ fu \in [Classes -> SUBSET DOMAIN hd] /\ LiveOK(hd, li)
      /\ \A b \in DOMAIN hd : BlockOK(b, hd[b], MineOf(b, li))
  BY DEF Heap
<1>2. a.size \in Sizes /\ a.addr \in HeapWords
  BY <1>1 DEF LiveOK
<1>3. a \in LargeOf(li)
  <2> SUFFICES ASSUME Pow2Ceil(a.size) < Page PROVE FALSE
    BY <1>2, SizesSplit DEF LargeOf
  <2>1. PICK b \in DOMAIN hd : a.addr \in ProperSlots(b, hd[b].class)
    BY <1>1 DEF LiveOK
  <2>2. a.addr % Page # 0
    BY <1>1, <2>1, HeapClasses, SmallFacts
  <2> QED BY <2>2
<1>4. e \in used /\ Holds(e, a.addr) /\ e \in AllBlocks
  BY <1>1, <1>3, LargeFacts
<1>5. Tiled(Dealloc(fr, a.addr, a.size), used \ {e})
  <2>1. a.size \in Nat /\ AllocationSize(a.size)
    BY <1>1, <1>2, <1>3, PageFacts DEF LiveOK
  <2> HIDE DEF used
  <2> QED BY <1>1, <1>4, <2>1, DeallocTiles
<1>6. e \notin SlotBlocks(hd)
  <2>1. a.addr \notin DOMAIN hd
    BY <1>1, <1>3 DEF LiveOK
  <2> QED BY <2>1 DEF SlotBlocks
<1>7. \A b \in DOMAIN hd : a.addr \notin Words(b, Page)
  <2> SUFFICES ASSUME NEW b \in DOMAIN hd, a.addr \in Words(b, Page) PROVE FALSE
    OBVIOUS
  <2> DEFINE f == <<b, AllocationOrder(Page)>>
  <2>1. f \in used /\ f \in SlotBlocks(hd) /\ Holds(f, a.addr)
    BY <1>1, SlotBlockFacts DEF SlotBlocks
  <2> HIDE DEF f, e, used
  <2>2. f = e
    BY <1>1, <1>2, <1>4, <2>1, UsedApart
  <2> QED BY <2>1, <2>2, <1>6
<1>8. UsedBy(hd, l2) = used \ {e}
  <2>1. LargeOf(l2) = LargeOf(li) \ {a}
    BY DEF LargeOf
  <2>2. \A x \in LargeOf(l2) : <<x.addr, AllocationOrder(x.size)>> # e
    <3>1. \A x \in LargeOf(l2) : x \in li /\ x # a
      BY <2>1 DEF LargeOf
    <3>2. \A x \in LargeOf(l2) : x.addr # a.addr
      BY <3>1, <1>1 DEF LiveOK
    <3> QED BY <3>2
  <2>3. LargeBlocks(l2) = LargeBlocks(li) \ {e}
    <3>1. LargeBlocks(l2) \subseteq LargeBlocks(li)
      BY <2>1 DEF LargeBlocks
    <3>2. e \notin LargeBlocks(l2)
      BY <2>2 DEF LargeBlocks
    <3>3. ASSUME NEW f \in LargeBlocks(li), f # e PROVE f \in LargeBlocks(l2)
      <4>1. PICK x \in LargeOf(li) : f = <<x.addr, AllocationOrder(x.size)>>
        BY DEF LargeBlocks
      <4>2. x # a
        BY <3>3, <4>1
      <4> QED BY <4>1, <4>2, <2>1 DEF LargeBlocks
    <3> QED BY <3>1, <3>2, <3>3
  <2> HIDE DEF e
  <2> QED BY <2>3, <1>6 DEF UsedBy
<1>9. \A b \in DOMAIN hd : MineOf(b, l2) = MineOf(b, li)
  BY <1>7, MineElsewhere
<1>10. LiveOK(hd, l2)
  BY <1>1 DEF LiveOK, LargeOf
<1> HIDE DEF used, l2, e
<1>11. Heap(Dealloc(fr, a.addr, a.size), hd, pa, fu, l2)
  BY <1>1, <1>5, <1>8, <1>9, <1>10 DEF Heap
<1> QED BY <1>11 DEF l2

(* An address lies in the page of one block only.                          *)
LEMMA PagesApart ==
  ASSUME NEW fr, NEW hd, NEW li, Tiled(fr, UsedBy(hd, li)),
         NEW b \in DOMAIN hd, NEW c \in DOMAIN hd, NEW w \in Words(b, Page), w \in Words(c, Page)
  PROVE  b = c
<1> DEFINE e == <<b, AllocationOrder(Page)>>
           f == <<c, AllocationOrder(Page)>>
<1>1. e \in UsedBy(hd, li) /\ w \in HeapWords /\ Holds(e, w)
  BY SlotBlockFacts
<1>2. f \in UsedBy(hd, li) /\ Holds(f, w)
  BY SlotBlockFacts
<1>3. e = f => b = c
  OBVIOUS
<1> HIDE DEF e, f
<1>4. e = f
  BY <1>1, <1>2, UsedApart
<1> QED BY <1>3, <1>4

(* A new block of slots becomes the partial block of its class.            *)
LEMMA HeapAddBlock ==
  ASSUME NEW fr, NEW hd, NEW pa, NEW fu, NEW li, Heap(fr, hd, pa, fu, li),
         NEW c \in Classes, NEW a \in Allocations(fr, Page)
  PROVE  Heap(a.free,
              [b \in DOMAIN hd \union {a.block} |-> IF b = a.block THEN MakeBlock(b, c) ELSE hd[b]],
              [pa EXCEPT ![c] = <<a.block>>], fu, li)
<1> DEFINE nb == a.block
           h2 == [b \in DOMAIN hd \union {nb} |-> IF b = nb THEN MakeBlock(b, c) ELSE hd[b]]
           p2 == [pa EXCEPT ![c] = <<nb>>]
           e == <<nb, AllocationOrder(Page)>>
           used == UsedBy(hd, li)
<1>1. /\ Tiled(fr, used) /\ PartialOK(hd, pa) /\ fu \in [Classes -> SUBSET DOMAIN hd] /\ LiveOK(hd, li)
      /\ \A b \in DOMAIN hd : BlockOK(b, hd[b], MineOf(b, li))
  BY DEF Heap
<1>2. Tiled(a.free, used \union {e}) /\ e \notin used /\ nb \in HeapWords
  <2>1. Page \in Nat
    BY PageFacts
  <2> HIDE DEF used
  <2> QED BY <1>1, <2>1, AllocTiles
<1>3. nb \notin DOMAIN hd
  BY <1>2 DEF UsedBy, SlotBlocks
<1>4. DOMAIN h2 = DOMAIN hd \union {nb}
  OBVIOUS
<1>5. h2[nb] = MakeBlock(nb, c)
  OBVIOUS
<1>6. \A b \in DOMAIN hd : h2[b] = hd[b]
  BY <1>3
<1> HIDE DEF h2
<1>7. UsedBy(h2, li) = used \union {e}
  <2>1. SlotBlocks(h2) = SlotBlocks(hd) \union {e}
    BY <1>4 DEF SlotBlocks
  <2> QED BY <2>1 DEF UsedBy
<1>8. nb \in Nat /\ \A w \in Words(nb, Page) : w \in HeapWords /\ Holds(e, w)
  <2>1. nb \in DOMAIN h2 /\ Tiled(a.free, UsedBy(h2, li))
    BY <1>2, <1>4, <1>7
  <2> HIDE DEF nb
  <2> QED BY <2>1, SlotBlockFacts
<1>9. \A x \in li : x.addr \notin Words(nb, Page)
  <2> SUFFICES ASSUME NEW x \in li, x.addr \in Words(nb, Page) PROVE FALSE
    OBVIOUS
  <2>1. x.addr \in HeapWords /\ Holds(e, x.addr)
    BY <1>8
  <2> HIDE DEF e
  <2> QED BY <2>1, <1>1, <1>2, HeapClasses, FreshBlock
<1>10. MineOf(nb, li) = {}
  BY <1>9 DEF MineOf
<1>11. \A b \in DOMAIN h2 : BlockOK(b, h2[b], MineOf(b, li))
  <2>1. BlockOK(nb, MakeBlock(nb, c), {})
    BY <1>8, BlockNew
  <2> HIDE DEF nb
  <2>2. ASSUME NEW b \in DOMAIN h2 PROVE BlockOK(b, h2[b], MineOf(b, li))
    <3>1. CASE b = nb
      BY <2>1, <3>1, <1>5, <1>10
    <3>2. CASE b # nb
      BY <3>2, <1>1, <1>4, <1>6
    <3> QED BY <3>1, <3>2
  <2> QED BY <2>2
<1>12. PartialOK(h2, p2)
  <2>1. pa \in [Classes -> Seq(DOMAIN hd)]
    BY <1>1 DEF PartialOK
  <2>2. p2 = [d \in Classes |-> IF d = c THEN <<nb>> ELSE pa[d]]
    BY <2>1
  <2>3. p2 \in [Classes -> Seq(DOMAIN h2)]
    <3>1. <<nb>> \in Seq(DOMAIN h2)
      BY <1>4
    <3>2. \A d \in Classes : pa[d] \in Seq(DOMAIN h2)
      BY <2>1, <1>4, SeqMonotonic
    <3> QED BY <2>2, <3>1, <3>2
  <2>4. ASSUME NEW d \in Classes, p2[d] # <<>>
        PROVE  \E b \in DOMAIN h2 :
                 p2[d] = <<b>> /\ h2[b].class = d /\ h2[b].alloc_slots < h2[b].total_slots
    <3>1. CASE d = c
      <4>1. h2[nb].class = c /\ h2[nb].alloc_slots < h2[nb].total_slots
        BY <1>5, <1>8, BlockNew
      <4> QED BY <2>2, <3>1, <4>1, <1>4
    <3>2. CASE d # c
      <4>1. p2[d] = pa[d]
        BY <2>2, <3>2
      <4>2. PICK b \in DOMAIN hd :
              pa[d] = <<b>> /\ hd[b].class = d /\ hd[b].alloc_slots < hd[b].total_slots
        BY <1>1, <2>4, <4>1 DEF PartialOK
      <4> QED BY <4>1, <4>2, <1>4, <1>6
    <3> QED BY <3>1, <3>2
  <2> HIDE DEF p2
  <2> QED BY <2>3, <2>4 DEF PartialOK
<1>13. LiveOK(h2, li)
  <2>1. ASSUME NEW x \in LargeOf(li) PROVE x.addr \notin DOMAIN h2 /\ AllocationSize(x.size)
    <3>1. x.addr \notin DOMAIN hd /\ AllocationSize(x.size) /\ x \in li
      BY <1>1 DEF LiveOK, LargeOf
    <3>2. nb \in Words(nb, Page)
      BY <1>8, PageFacts DEF Words
    <3>3. x.addr # nb
      BY <1>9, <3>1, <3>2
    <3> QED BY <3>1, <3>3, <1>4
  <2>2. ASSUME NEW x \in li, Pow2Ceil(x.size) < Page
        PROVE  \E b \in DOMAIN h2 :
                 h2[b].class = Pow2Ceil(x.size) /\ x.addr \in ProperSlots(b, h2[b].class)
    <3>1. PICK b \in DOMAIN hd :
            hd[b].class = Pow2Ceil(x.size) /\ x.addr \in ProperSlots(b, hd[b].class)
      BY <1>1, <2>2 DEF LiveOK
    <3> QED BY <3>1, <1>4, <1>6
  <2> QED BY <1>1, <2>1, <2>2 DEF LiveOK
<1>14. fu \in [Classes -> SUBSET DOMAIN h2]
  BY <1>1, <1>4
<1> HIDE DEF used, p2, e
<1>15. Heap(a.free, h2, p2, fu, li)
  BY <1>2, <1>7, <1>11, <1>12, <1>13, <1>14 DEF Heap
<1> QED BY <1>15 DEF h2, p2, nb

(* A block of slots and its header change together.                        *)
LEMMA HeaderChanged ==
  ASSUME NEW hd, NEW b \in DOMAIN hd, NEW h
  PROVE  LET h2 == [hd EXCEPT ![b] = h]
         IN  DOMAIN h2 = DOMAIN hd /\ h2[b] = h /\ \A d \in DOMAIN hd : d # b => h2[d] = hd[d]
OBVIOUS

(* alloc_into.                                                             *)
LEMMA HeapTakeSlot ==
  ASSUME NEW fr, NEW hd, NEW pa, NEW fu, NEW li, Heap(fr, hd, pa, fu, li),
         NEW sz \in Sizes, Pow2Ceil(sz) \in Classes, pa[Pow2Ceil(sz)] # <<>>
  PROVE  LET c == Pow2Ceil(sz)
             block == Head(pa[c])
             h == hd[block]
             isFull == h.alloc_slots + 1 >= h.total_slots
         IN  Heap(fr,
                  [hd EXCEPT ![block] = [class |-> h.class, free_head |-> Tail(h.free_head),
                                         alloc_slots |-> h.alloc_slots + 1,
                                         total_slots |-> h.total_slots]],
                  [pa EXCEPT ![c] = IF isFull THEN Tail(pa[c]) ELSE pa[c]],
                  [fu EXCEPT ![c] = IF isFull THEN @ \union {block} ELSE @],
                  li \union {[addr |-> Head(h.free_head), size |-> sz]})
<1> DEFINE c == Pow2Ceil(sz)
           block == Head(pa[c])
           h == hd[block]
           g == [class |-> h.class, free_head |-> Tail(h.free_head),
                 alloc_slots |-> h.alloc_slots + 1, total_slots |-> h.total_slots]
           isFull == h.alloc_slots + 1 >= h.total_slots
           s == Head(h.free_head)
           x == [addr |-> s, size |-> sz]
           h2 == [hd EXCEPT ![block] = g]
           p2 == [pa EXCEPT ![c] = IF isFull THEN Tail(pa[c]) ELSE pa[c]]
           f2 == [fu EXCEPT ![c] = IF isFull THEN @ \union {block} ELSE @]
           l2 == li \union {x}
<1>1. /\ Tiled(fr, UsedBy(hd, li)) /\ PartialOK(hd, pa) /\ fu \in [Classes -> SUBSET DOMAIN hd]
      /\ LiveOK(hd, li) /\ \A b \in DOMAIN hd : BlockOK(b, hd[b], MineOf(b, li))
  BY DEF Heap
<1>2. c \in Classes
  OBVIOUS
<1>3. /\ block \in DOMAIN hd /\ pa[c] = <<block>> /\ h.class = c /\ h.alloc_slots < h.total_slots
  <2>1. PICK b \in DOMAIN hd :
          pa[c] = <<b>> /\ hd[b].class = c /\ hd[b].alloc_slots < hd[b].total_slots
    BY <1>1 DEF PartialOK
  <2>2. block = b
    BY <2>1
  <2> QED BY <2>1, <2>2
<1> HIDE DEF block
<1>4. block \in Nat /\ BlockOK(block, h, MineOf(block, li))
  <2>1. block \in Nat
    BY <1>1, <1>3, SlotBlockFacts
  <2> QED BY <2>1, <1>1, <1>3
<1>5. /\ s \in ProperSlots(block, c) /\ s \notin MineOf(block, li)
      /\ BlockOK(block, g, MineOf(block, li) \union {s})
      /\ g.class = h.class /\ g.alloc_slots = h.alloc_slots + 1 /\ g.total_slots = h.total_slots
  <2> HIDE DEF h
  <2> QED BY <1>3, <1>4, BlockPop
<1>6. /\ s \in Nat /\ s \in Words(block, Page) /\ s \in HeapWords
  BY <1>1, <1>2, <1>3, <1>5, SmallFacts
<1>7. h.alloc_slots \in Nat /\ h.total_slots \in Nat
  BY <1>4 DEF BlockOK
<1> HIDE DEF h, g, s
<1>8. DOMAIN h2 = DOMAIN hd /\ h2[block] = g /\ \A b \in DOMAIN hd : b # block => h2[b] = hd[b]
  BY <1>3, HeaderChanged
<1> HIDE DEF h2
<1>9. x.addr = s /\ x.size = sz /\ x \in [addr : HeapWords, size : Sizes]
  BY <1>6
<1> HIDE DEF x
<1>10. LargeOf(l2) = LargeOf(li)
  <2>1. ~ (Pow2Ceil(sz) >= Page)
    BY <1>2, SizesSplit DEF Classes
  <2> QED BY <2>1, <1>9 DEF LargeOf
<1>11. UsedBy(h2, l2) = UsedBy(hd, li)
  BY <1>8, <1>10 DEF UsedBy, LargeBlocks, SlotBlocks
<1>12. MineOf(block, l2) = MineOf(block, li) \union {s}
  BY <1>6, <1>9 DEF MineOf
<1>13. \A b \in DOMAIN hd : b # block => MineOf(b, l2) = MineOf(b, li)
  <2> SUFFICES ASSUME NEW b \in DOMAIN hd, b # block PROVE MineOf(b, l2) = MineOf(b, li)
    OBVIOUS
  <2>1. s \notin Words(b, Page)
    BY <1>1, <1>3, <1>6, PagesApart
  <2> QED BY <2>1, <1>9, MineElsewhere
<1> HIDE DEF c
<1>14. \A b \in DOMAIN h2 : BlockOK(b, h2[b], MineOf(b, l2))
  <2> SUFFICES ASSUME NEW b \in DOMAIN hd PROVE BlockOK(b, h2[b], MineOf(b, l2))
    BY <1>8
  <2>1. CASE b = block
    BY <2>1, <1>5, <1>8, <1>12
  <2>2. CASE b # block
    BY <2>2, <1>1, <1>8, <1>13
  <2> QED BY <2>1, <2>2
<1>15. \A b \in DOMAIN hd : h2[b].class = hd[b].class
  BY <1>5, <1>8 DEF h
<1>16. PartialOK(h2, p2)
  <2>1. pa \in [Classes -> Seq(DOMAIN hd)]
    BY <1>1 DEF PartialOK
  <2>2. p2 = [d \in Classes |-> IF d = c THEN IF isFull THEN Tail(pa[c]) ELSE pa[c] ELSE pa[d]]
    BY <2>1
  <2>3. Tail(<<block>>) = <<>>
    OBVIOUS
  <2>4. /\ p2[c] = IF isFull THEN <<>> ELSE <<block>>
        /\ \A d \in Classes : d # c => p2[d] = pa[d]
    <3>1. p2[c] = IF isFull THEN Tail(pa[c]) ELSE pa[c]
      BY <2>2, <1>2
    <3>2. \A d \in Classes : d # c => p2[d] = pa[d]
      BY <2>2
    <3> HIDE DEF p2, isFull
    <3> QED BY <3>1, <3>2, <1>3, <2>3
  <2>5. p2 \in [Classes -> Seq(DOMAIN h2)]
    <3>1. <<>> \in Seq(DOMAIN hd) /\ <<block>> \in Seq(DOMAIN hd)
      BY <1>3
    <3>2. ASSUME NEW d \in Classes PROVE p2[d] \in Seq(DOMAIN hd)
      <4> HIDE DEF p2, isFull
      <4> QED BY <2>1, <2>4, <3>1
    <3>3. p2 = [d \in Classes |-> p2[d]]
      BY <2>2
    <3> HIDE DEF p2
    <3> QED BY <3>2, <3>3, <1>8
  <2>6. ASSUME NEW d \in Classes, p2[d] # <<>>
        PROVE  \E b \in DOMAIN h2 :
                 p2[d] = <<b>> /\ h2[b].class = d /\ h2[b].alloc_slots < h2[b].total_slots
    <3>1. CASE d = c
      <4>1. p2[d] = <<block>> /\ ~ isFull
        <5> HIDE DEF p2, isFull
        <5> QED BY <2>4, <2>6, <3>1
      <4>2. h2[block].class = c /\ h2[block].alloc_slots < h2[block].total_slots
        BY <4>1, <1>3, <1>5, <1>7, <1>8
      <4> QED BY <3>1, <4>1, <4>2, <1>3, <1>8
    <3>2. CASE d # c
      <4>1. p2[d] = pa[d]
        BY <2>4, <3>2
      <4>2. PICK b \in DOMAIN hd :
              pa[d] = <<b>> /\ hd[b].class = d /\ hd[b].alloc_slots < hd[b].total_slots
        BY <1>1, <2>6, <4>1 DEF PartialOK
      <4>3. b # block
        BY <4>2, <3>2, <1>3 DEF h
      <4> QED BY <4>1, <4>2, <4>3, <1>8
    <3> QED BY <3>1, <3>2
  <2> HIDE DEF p2
  <2> QED BY <2>5, <2>6 DEF PartialOK
<1>17. f2 \in [Classes -> SUBSET DOMAIN h2]
  BY <1>1, <1>3, <1>8
<1>18. LiveOK(h2, l2)
  <2>1. l2 \subseteq [addr : HeapWords, size : Sizes]
    BY <1>1, <1>9 DEF LiveOK
  <2>2. \A y \in li : y.addr # s
    BY <1>5, <1>6 DEF MineOf
  <2>3. \A y \in l2, z \in l2 : y.addr = z.addr => y = z
    BY <1>1, <1>9, <2>2 DEF LiveOK
  <2>4. \A y \in LargeOf(l2) : y.addr \notin DOMAIN h2 /\ AllocationSize(y.size)
    BY <1>1, <1>8, <1>10 DEF LiveOK
  <2>5. ASSUME NEW y \in l2, Pow2Ceil(y.size) < Page
        PROVE  \E b \in DOMAIN h2 :
                 h2[b].class = Pow2Ceil(y.size) /\ y.addr \in ProperSlots(b, h2[b].class)
    <3>1. CASE y = x
      <4>1. h2[block].class = c /\ Pow2Ceil(y.size) = c
        BY <3>1, <1>3, <1>9, <1>15 DEF c, h
      <4> QED BY <3>1, <4>1, <1>3, <1>5, <1>8, <1>9
    <3>2. CASE y \in li
      <4>1. PICK b \in DOMAIN hd :
              hd[b].class = Pow2Ceil(y.size) /\ y.addr \in ProperSlots(b, hd[b].class)
        BY <1>1, <2>5, <3>2 DEF LiveOK
      <4> QED BY <4>1, <1>8, <1>15
    <3> QED BY <3>1, <3>2
  <2> HIDE DEF l2
  <2> QED BY <2>1, <2>3, <2>4, <2>5 DEF LiveOK
<1> HIDE DEF l2, p2, f2
<1>19. Heap(fr, h2, p2, f2, l2)
  BY <1>1, <1>11, <1>14, <1>16, <1>17, <1>18 DEF Heap
<1> QED BY <1>19 DEF h2, p2, f2, l2, x, s, g, h, isFull, block, c

(* kfree of any other address.                                             *)
LEMMA HeapFreeSlot ==
  ASSUME NEW fr, NEW hd, NEW pa, NEW fu, NEW li, Heap(fr, hd, pa, fu, li),
         NEW a \in li, a.addr % Page # 0
  PROVE  LET block == a.addr - (a.addr % Page)
             h == hd[block]
         IN  Heap(fr,
                  [hd EXCEPT ![block] = [class |-> h.class, free_head |-> <<a.addr>> \o h.free_head,
                                         alloc_slots |-> h.alloc_slots - 1,
                                         total_slots |-> h.total_slots]],
                  pa, fu, li \ {a})
<1> DEFINE block == a.addr - (a.addr % Page)
           h == hd[block]
           g == [class |-> h.class, free_head |-> <<a.addr>> \o h.free_head,
                 alloc_slots |-> h.alloc_slots - 1, total_slots |-> h.total_slots]
           h2 == [hd EXCEPT ![block] = g]
           l2 == li \ {a}
<1>1. /\ Tiled(fr, UsedBy(hd, li)) /\ PartialOK(hd, pa) /\ fu \in [Classes -> SUBSET DOMAIN hd]
      /\ LiveOK(hd, li) /\ \A b \in DOMAIN hd : BlockOK(b, hd[b], MineOf(b, li))
  BY DEF Heap
<1>2. a.size \in Sizes /\ a.addr \in HeapWords
  BY <1>1 DEF LiveOK
<1>3. a \notin LargeOf(li)
  BY <1>1, LargeFacts
<1>4. Pow2Ceil(a.size) < Page
  BY <1>2, <1>3, SizesSplit DEF LargeOf
<1>5. PICK b \in DOMAIN hd : a.addr \in ProperSlots(b, hd[b].class)
  BY <1>1, <1>4 DEF LiveOK
<1>6. block \in DOMAIN hd /\ a.addr \in Words(block, Page) /\ block \in Nat
  <2>1. a.addr - (a.addr % Page) = b /\ a.addr \in Words(b, Page)
    BY <1>1, <1>5, HeapClasses, SmallFacts
  <2>2. b \in Nat
    BY <1>1, SlotBlockFacts
  <2> QED BY <2>1, <2>2, <1>5
<1> HIDE DEF block
<1>7. a.addr \in MineOf(block, li) /\ BlockOK(block, h, MineOf(block, li))
  BY <1>1, <1>6 DEF MineOf
<1>8. /\ BlockOK(block, g, MineOf(block, li) \ {a.addr})
      /\ g.class = h.class /\ g.alloc_slots = h.alloc_slots - 1 /\ g.total_slots = h.total_slots
      /\ h.alloc_slots \in Nat /\ h.total_slots \in Nat
  <2> HIDE DEF h
  <2> QED BY <1>6, <1>7, BlockPush
<1> HIDE DEF h, g
<1>9. DOMAIN h2 = DOMAIN hd /\ h2[block] = g /\ \A d \in DOMAIN hd : d # block => h2[d] = hd[d]
  BY <1>6, HeaderChanged
<1> HIDE DEF h2
<1>10. LargeOf(l2) = LargeOf(li)
  BY <1>3 DEF LargeOf
<1>11. UsedBy(h2, l2) = UsedBy(hd, li)
  BY <1>9, <1>10 DEF UsedBy, LargeBlocks, SlotBlocks
<1>12. MineOf(block, l2) = MineOf(block, li) \ {a.addr}
  <2>1. \A x \in l2 : x.addr # a.addr
    BY <1>1 DEF LiveOK
  <2> QED BY <2>1 DEF MineOf
<1>13. \A d \in DOMAIN hd : d # block => MineOf(d, l2) = MineOf(d, li)
  <2> SUFFICES ASSUME NEW d \in DOMAIN hd, d # block PROVE MineOf(d, l2) = MineOf(d, li)
    OBVIOUS
  <2>1. a.addr \notin Words(d, Page)
    BY <1>1, <1>6, PagesApart
  <2> QED BY <2>1, MineElsewhere
<1>14. \A d \in DOMAIN h2 : BlockOK(d, h2[d], MineOf(d, l2))
  <2> SUFFICES ASSUME NEW d \in DOMAIN hd PROVE BlockOK(d, h2[d], MineOf(d, l2))
    BY <1>9
  <2>1. CASE d = block
    BY <2>1, <1>8, <1>9, <1>12
  <2>2. CASE d # block
    BY <2>2, <1>1, <1>9, <1>13
  <2> QED BY <2>1, <2>2
<1>15. \A d \in DOMAIN hd : /\ h2[d].class = hd[d].class
                            /\ hd[d].alloc_slots < hd[d].total_slots
                                 => h2[d].alloc_slots < h2[d].total_slots
  BY <1>8, <1>9 DEF h
<1>16. PartialOK(h2, pa)
  BY <1>1, <1>9, <1>15 DEF PartialOK
<1>17. LiveOK(h2, l2)
  <2>1. \A y \in LargeOf(l2) : y.addr \notin DOMAIN h2 /\ AllocationSize(y.size)
    BY <1>1, <1>9, <1>10 DEF LiveOK
  <2>2. ASSUME NEW y \in l2, Pow2Ceil(y.size) < Page
        PROVE  \E d \in DOMAIN h2 :
                 h2[d].class = Pow2Ceil(y.size) /\ y.addr \in ProperSlots(d, h2[d].class)
    <3>1. PICK d \in DOMAIN hd :
            hd[d].class = Pow2Ceil(y.size) /\ y.addr \in ProperSlots(d, hd[d].class)
      BY <1>1, <2>2 DEF LiveOK
    <3> QED BY <3>1, <1>9, <1>15
  <2>3. l2 \subseteq [addr : HeapWords, size : Sizes] /\ \A y \in l2, z \in l2 : y.addr = z.addr => y = z
    BY <1>1 DEF LiveOK
  <2> HIDE DEF l2
  <2> QED BY <2>1, <2>2, <2>3 DEF LiveOK
<1> HIDE DEF l2
<1>18. Heap(fr, h2, pa, fu, l2)
  BY <1>1, <1>9, <1>11, <1>14, <1>16, <1>17 DEF Heap
<1> QED BY <1>18 DEF h2, l2, g, h, block

-----------------------------------------------------------------------------
(* The inductive invariant of the specification.                           *)

IInv == Heap(free, hdr, partial, full, live)

(* kallocinit: the heap is one free block.                                 *)
LEMMA InitIInv == Init => IInv
<1> SUFFICES ASSUME Init PROVE IInv
  OBVIOUS
<1>1. /\ free = WholeHeapFree /\ hdr = <<>> /\ partial = [c \in Classes |-> <<>>]
      /\ full = [c \in Classes |-> {}] /\ live = {}
  BY DEF Init
<1>2. DOMAIN hdr = {}
  BY <1>1
<1>3. LargeOf(live) = {}
  BY <1>1 DEF LargeOf
<1>4. UsedBy(hdr, live) = {}
  BY <1>2, <1>3 DEF UsedBy, LargeBlocks, SlotBlocks
<1>5. PartialOK(hdr, partial)
  <2>1. <<>> \in Seq(DOMAIN hdr)
    OBVIOUS
  <2> QED BY <1>1, <2>1 DEF PartialOK
<1>6. LiveOK(hdr, live)
  BY <1>1, <1>3 DEF LiveOK
<1>7. full \in [Classes -> SUBSET DOMAIN hdr]
  BY <1>1
<1> QED BY <1>1, <1>2, <1>4, <1>5, <1>6, <1>7, WholeHeapTiles DEF IInv, Heap

(* kalloc of a page or more.                                               *)
LEMMA AllocLargeIInv ==
  ASSUME IInv, NEW sz \in Sizes, AllocLarge(sz)
  PROVE  IInv'
<1>1. PICK a \in Allocations(free, Pow2Ceil(sz)) :
        free' = a.free /\ live' = live \union {[addr |-> a.block, size |-> sz]}
  BY DEF AllocLarge
<1>2. Pow2Ceil(sz) >= Page /\ hdr' = hdr /\ partial' = partial /\ full' = full
  BY DEF AllocLarge
<1>3. Heap(a.free, hdr, partial, full, live \union {[addr |-> a.block, size |-> sz]})
  BY <1>2, HeapAllocLarge DEF IInv
<1> QED BY <1>1, <1>2, <1>3 DEF IInv

(* alloc_into, for the headers and the partial blocks it is called with.   *)
LEMMA AllocIntoHeap ==
  ASSUME NEW sz \in Sizes, NEW fr, NEW hd, NEW pa, Heap(fr, hd, pa, full, live),
         Pow2Ceil(sz) \in Classes, pa[Pow2Ceil(sz)] # <<>>,
         NEW blocks, blocks = pa[Pow2Ceil(sz)],
         \A x : [pa EXCEPT ![Pow2Ceil(sz)] = x] = [partial EXCEPT ![Pow2Ceil(sz)] = x],
         AllocInto(hd, blocks, Pow2Ceil(sz), sz)
  PROVE  Heap(fr, hdr', partial', full', live')
<1> DEFINE c == Pow2Ceil(sz)
           block == Head(blocks)
           h == hd[block]
           isFull == h.alloc_slots + 1 >= h.total_slots
           g == [class |-> h.class, free_head |-> Tail(h.free_head),
                 alloc_slots |-> h.alloc_slots + 1, total_slots |-> h.total_slots]
<1>1. /\ hdr' = [hd EXCEPT ![block] = g]
      /\ partial' = [partial EXCEPT ![c] = IF isFull THEN Tail(blocks) ELSE blocks]
      /\ full' = [full EXCEPT ![c] = IF isFull THEN @ \union {block} ELSE @]
      /\ live' = live \union {[addr |-> Head(h.free_head), size |-> sz]}
  BY DEF AllocInto, WithSlots
<1>6. partial' = [pa EXCEPT ![c] = IF isFull THEN Tail(blocks) ELSE blocks]
  <2> HIDE DEF isFull, c
  <2> QED BY <1>1 DEF c
<1>7. Heap(fr, [hd EXCEPT ![block] = g],
           [pa EXCEPT ![c] = IF isFull THEN Tail(blocks) ELSE blocks],
           [full EXCEPT ![c] = IF isFull THEN @ \union {block} ELSE @],
           live \union {[addr |-> Head(h.free_head), size |-> sz]})
  BY HeapTakeSlot
<1> HIDE DEF c, block, h, isFull, g
<1> QED BY <1>1, <1>6, <1>7

(* kalloc of a slot in the partial block of its class.                     *)
LEMMA AllocSmallIInv ==
  ASSUME IInv, NEW sz \in Sizes, AllocSmall(sz)
  PROVE  IInv'
<1>1. /\ Pow2Ceil(sz) < Page /\ partial[Pow2Ceil(sz)] # <<>> /\ free' = free
      /\ AllocInto(hdr, partial[Pow2Ceil(sz)], Pow2Ceil(sz), sz)
  BY DEF AllocSmall
<1>2. Pow2Ceil(sz) \in Classes
  BY <1>1, CeilFacts
<1>3. Heap(free, hdr', partial', full', live')
  BY <1>1, <1>2, AllocIntoHeap DEF IInv
<1> QED BY <1>1, <1>3 DEF IInv

(* kalloc of a slot when the class has no partial block.                   *)
LEMMA AllocNewBlockIInv ==
  ASSUME IInv, NEW sz \in Sizes, AllocNewBlock(sz)
  PROVE  IInv'
<1> DEFINE c == Pow2Ceil(sz)
           hd(nb) == [b \in DOMAIN hdr \union {nb} |-> IF b = nb THEN MakeBlock(b, c) ELSE hdr[b]]
           pa(nb) == [partial EXCEPT ![c] = <<nb>>]
<1>1. PICK a \in Allocations(free, Page) :
        free' = a.free /\ AllocInto(hd(a.block), <<a.block>>, c, sz)
  BY DEF AllocNewBlock
<1>2. c \in Classes
  BY CeilFacts DEF AllocNewBlock
<1>3. Heap(a.free, hd(a.block), pa(a.block), full, live)
  BY <1>2, HeapAddBlock DEF IInv
<1>4. partial \in [Classes -> Seq(DOMAIN hdr)]
  BY DEF IInv, Heap, PartialOK
<1>5. pa(a.block)[c] = <<a.block>> /\ <<a.block>> # <<>>
  BY <1>2, <1>4
<1>6. \A x : [pa(a.block) EXCEPT ![c] = x] = [partial EXCEPT ![c] = x]
  <2> HIDE DEF c
  <2> QED BY <1>2, <1>4
<1>7. Heap(a.free, hdr', partial', full', live')
  <2> HIDE DEF hd, pa
  <2> QED BY <1>1, <1>2, <1>3, <1>5, <1>6, AllocIntoHeap
<1> QED BY <1>1, <1>7 DEF IInv

(* kfree, of a block or of a slot as the address says.                     *)
LEMMA KfreeIInv ==
  ASSUME IInv, NEW a \in live, Kfree(a)
  PROVE  IInv'
<1>1. live' = live \ {a}
  BY DEF Kfree
<1>2. CASE FreeLarge(a)
  <2>1. /\ a.addr % Page = 0 /\ free' = Dealloc(free, a.addr, a.size)
        /\ hdr' = hdr /\ partial' = partial /\ full' = full
    BY <1>2 DEF FreeLarge
  <2>2. Heap(Dealloc(free, a.addr, a.size), hdr, partial, full, live \ {a})
    BY <2>1, HeapFreeLarge DEF IInv
  <2> QED BY <1>1, <2>1, <2>2 DEF IInv
<1>3. CASE FreeSlot(a)
  <2> DEFINE block == a.addr - (a.addr % Page)
             h == hdr[block]
             g == [class |-> h.class, free_head |-> <<a.addr>> \o h.free_head,
                   alloc_slots |-> h.alloc_slots - 1, total_slots |-> h.total_slots]
  <2>1. /\ a.addr % Page # 0 /\ free' = free /\ partial' = partial /\ full' = full
        /\ hdr' = [hdr EXCEPT ![block] = g]
    BY <1>3 DEF FreeSlot, WithSlots
  <2>2. Heap(free, [hdr EXCEPT ![block] = g], partial, full, live \ {a})
    BY <2>1, HeapFreeSlot DEF IInv
  <2> HIDE DEF g, h, block
  <2> QED BY <1>1, <2>1, <2>2 DEF IInv
<1> QED BY <1>2, <1>3 DEF Kfree

(* Every call keeps the invariant.                                         *)
LEMMA NextIInv == IInv /\ [Next]_vars => IInv'
<1> SUFFICES ASSUME IInv, [Next]_vars PROVE IInv'
  OBVIOUS
<1>1. ASSUME NEW sz \in Sizes, Kalloc(sz) PROVE IInv'
  BY <1>1, AllocLargeIInv, AllocSmallIInv, AllocNewBlockIInv DEF Kalloc
<1>2. ASSUME NEW a \in live, Kfree(a) PROVE IInv'
  BY <1>2, KfreeIInv
<1>3. CASE UNCHANGED vars
  BY <1>3 DEF vars, IInv
<1> QED BY <1>1, <1>2, <1>3 DEF Next

(* So it holds in every reachable state.                                   *)
LEMMA SpecIInv == Spec => []IInv
BY InitIInv, NextIInv, PTL DEF Spec

-----------------------------------------------------------------------------
(* What the invariant says of every reachable state.                       *)

(* The invariant of the present state, by its parts.                       *)
LEMMA HeapHere ==
  ASSUME IInv
  PROVE  /\ Tiled(free, UsedBy(hdr, live)) /\ LiveOK(hdr, live) /\ PartialOK(hdr, partial)
         /\ full \in [Classes -> SUBSET DOMAIN hdr]
         /\ \A b \in DOMAIN hdr : BlockOK(b, hdr[b], MineOf(b, live)) /\ hdr[b].class \in Classes
         /\ Large = LargeOf(live)
BY DEF IInv, Heap, BlockOK, Large, LargeOf

(* The allocator's state has its types: the free lists, the headers, the   *)
(* lists of blocks and what is handed out.                                 *)
THEOREM TypeCorrect == Spec => []TypeOK
<1>1. ASSUME IInv PROVE TypeOK
  <2>1. free \in [Orders -> SUBSET HeapWords]
    BY <1>1, HeapHere DEF Tiled
  <2>2. DOMAIN hdr \subseteq HeapWords
    BY <1>1, HeapHere, SlotBlockFacts
  <2>3. ASSUME NEW b \in DOMAIN hdr
        PROVE  /\ hdr[b].class \in Classes /\ hdr[b].free_head \in Seq(HeapWords)
               /\ hdr[b].alloc_slots \in Nat /\ hdr[b].total_slots \in Nat
    <3> DEFINE l == hdr[b].free_head
               c == hdr[b].class
    <3>1. /\ c \in Classes /\ l \in Seq(Nat) /\ hdr[b].alloc_slots \in Nat
          /\ hdr[b].total_slots \in Nat /\ Range(l) \subseteq LinkedSlots(b, c)
      BY <1>1, HeapHere DEF BlockOK
    <3>2. b \in Nat /\ b % Page = 0 /\ \A w \in Words(b, Page) : w \in HeapWords
      BY <1>1, HeapHere, SlotBlockFacts
    <3> HIDE DEF c, l
    <3>3. LinkedSlots(b, c) \subseteq HeapWords
      <4> SUFFICES ASSUME NEW i \in 1 .. Linked(c) PROVE Slot(b, c, i) \in HeapWords
        BY DEF LinkedSlots
      <4>1. Slot(b, c, i) \in Nat /\ b + Header <= Slot(b, c, i) /\ Slot(b, c, i) < b + Page
        BY <3>1, <3>2, SlotFacts
      <4>2. Slot(b, c, i) \in Words(b, Page)
        BY <4>1, <3>2, PageFacts DEF Words
      <4> QED BY <4>2, <3>2
    <3>4. l \in Seq(HeapWords)
      <4>1. DOMAIN l = 1 .. Len(l) /\ Len(l) \in Nat /\ l = [i \in 1 .. Len(l) |-> l[i]]
        BY <3>1
      <4>2. \A i \in 1 .. Len(l) : l[i] \in HeapWords
        BY <3>1, <3>3, <4>1 DEF Range
      <4> QED BY <4>1, <4>2
    <3> QED BY <3>1, <3>4 DEF l, c
  <2>4. partial \in [Classes -> Seq(DOMAIN hdr)] /\ full \in [Classes -> SUBSET DOMAIN hdr]
    BY <1>1, HeapHere DEF PartialOK
  <2>5. \A a \in live : a.addr \in HeapWords /\ a.size \in Sizes
    BY <1>1, HeapHere DEF LiveOK
  <2> QED BY <2>1, <2>2, <2>3, <2>4, <2>5 DEF TypeOK
<1> QED BY <1>1, SpecIInv, PTL

(* alloc_slots is the number of slots in use, and every other slot is on   *)
(* the block's free list once.                                             *)
THEOREM SlotsStayCounted == Spec => []SlotsCounted
<1>1. ASSUME IInv PROVE SlotsCounted
  <2> SUFFICES ASSUME NEW b \in DOMAIN hdr
               PROVE  /\ hdr[b].alloc_slots = Cardinality(MineOf(b, live))
                      /\ IsInjective(hdr[b].free_head)
                      /\ Range(hdr[b].free_head) \intersect MineOf(b, live) = {}
                      /\ Range(hdr[b].free_head) \union MineOf(b, live)
                           = Range(MakeBlock(b, hdr[b].class).free_head)
    BY DEF SlotsCounted, MineOf
  <2>1. BlockOK(b, hdr[b], MineOf(b, live)) /\ b \in Nat /\ hdr[b].class \in Classes
    BY <1>1, HeapHere, SlotBlockFacts
  <2>2. Range(MakeBlock(b, hdr[b].class).free_head) = LinkedSlots(b, hdr[b].class)
    BY <2>1, MakeBlockFacts
  <2> QED BY <2>1, <2>2 DEF BlockOK
<1> QED BY <1>1, SpecIInv, PTL

(* The three kinds of pieces: free, large, and divided into slots.         *)
LEMMA PiecesAre ==
  ASSUME NEW p
  PROVE  p \in Pieces <=>
           \/ \E k \in Orders : \E b \in free[k] : p = <<"free", b, OrderSize(k)>>
           \/ \E a \in Large : p = <<"large", a.addr, OrderSize(AllocationOrder(a.size))>>
           \/ \E b \in DOMAIN hdr : p = <<"slots", b, OrderSize(AllocationOrder(Page))>>
<1> DEFINE F(k) == {<<"free", b, OrderSize(k)>> : b \in free[k]}
           L == {<<"large", a.addr, OrderSize(AllocationOrder(a.size))>> : a \in Large}
           S == {<<"slots", b, OrderSize(AllocationOrder(Page))>> : b \in DOMAIN hdr}
<1>1. \A k \in Orders : p \in F(k) <=> \E b \in free[k] : p = <<"free", b, OrderSize(k)>>
  OBVIOUS
<1>2. p \in L <=> \E a \in Large : p = <<"large", a.addr, OrderSize(AllocationOrder(a.size))>>
  OBVIOUS
<1>3. p \in S <=> \E b \in DOMAIN hdr : p = <<"slots", b, OrderSize(AllocationOrder(Page))>>
  OBVIOUS
<1>4. Pieces = (UNION {F(k) : k \in Orders}) \union L \union S
  BY DEF Pieces
<1> HIDE DEF F, L, S
<1>5. p \in UNION {F(k) : k \in Orders} <=> \E k \in Orders : p \in F(k)
  OBVIOUS
<1> QED BY <1>1, <1>2, <1>3, <1>4, <1>5

(* Pieces are the blocks of the tiling.                                    *)
LEMMA PieceCases ==
  ASSUME IInv, NEW p \in Pieces
  PROVE  \/ /\ p[1] = "free"
            /\ \E k \in Orders : p[3] = OrderSize(k) /\ <<p[2], k>> \in FreeSet(free)
         \/ /\ p[1] = "large"
            /\ \E a \in Large : p[2] = a.addr /\ p[3] = OrderSize(AllocationOrder(a.size))
         \/ /\ p[1] = "slots" /\ p[2] \in DOMAIN hdr /\ p[3] = OrderSize(AllocationOrder(Page))
<1>1. CASE \E k \in Orders : \E b \in free[k] : p = <<"free", b, OrderSize(k)>>
  BY <1>1, HeapHere, FreeSetFacts
<1>2. CASE \E a \in Large : p = <<"large", a.addr, OrderSize(AllocationOrder(a.size))>>
  BY <1>2
<1>3. CASE \E b \in DOMAIN hdr : p = <<"slots", b, OrderSize(AllocationOrder(Page))>>
  BY <1>3
<1> QED BY <1>1, <1>2, <1>3, PiecesAre

(* A piece is a block of the buddy allocator, free or in use as it says.   *)
LEMMA PieceIsBlock ==
  ASSUME IInv, NEW p \in Pieces
  PROVE  \E k \in Orders :
           /\ p[3] = OrderSize(k) /\ <<p[2], k>> \in AllBlocks
           /\ \A w \in HeapWords : w \in Words(p[2], p[3]) <=> Holds(<<p[2], k>>, w)
           /\ p[1] = "free" => <<p[2], k>> \in FreeSet(free)
           /\ p[1] # "free" => <<p[2], k>> \in UsedBy(hdr, live)
<1>1. \E k \in Orders :
        /\ p[3] = OrderSize(k) /\ <<p[2], k>> \in AllBlocks
        /\ p[1] = "free" => <<p[2], k>> \in FreeSet(free)
        /\ p[1] # "free" => <<p[2], k>> \in UsedBy(hdr, live)
  <2>1. CASE p[1] = "free" /\ \E k \in Orders : p[3] = OrderSize(k) /\ <<p[2], k>> \in FreeSet(free)
    BY <2>1, HeapHere, UsedApart
  <2>2. CASE p[1] = "large" /\ \E a \in Large : p[2] = a.addr /\ p[3] = OrderSize(AllocationOrder(a.size))
    <3>1. PICK a \in Large : p[2] = a.addr /\ p[3] = OrderSize(AllocationOrder(a.size))
      BY <2>2
    <3>2. <<a.addr, AllocationOrder(a.size)>> \in UsedBy(hdr, live)
          /\ <<a.addr, AllocationOrder(a.size)>> \in AllBlocks
      BY HeapHere, LargeFacts
    <3>3. AllocationOrder(a.size) \in Orders
      BY <3>2 DEF AllBlocks
    <3> QED BY <3>1, <3>2, <3>3, <2>2
  <2>3. CASE p[1] = "slots" /\ p[2] \in DOMAIN hdr /\ p[3] = OrderSize(AllocationOrder(Page))
    <3>1. <<p[2], AllocationOrder(Page)>> \in UsedBy(hdr, live)
          /\ <<p[2], AllocationOrder(Page)>> \in AllBlocks
      BY <2>3, HeapHere, SlotBlockFacts
    <3> QED BY <2>3, <3>1, PageOrder
  <2> QED BY <2>1, <2>2, <2>3, PieceCases
<1>2. PICK k \in Orders :
        /\ p[3] = OrderSize(k) /\ <<p[2], k>> \in AllBlocks
        /\ p[1] = "free" => <<p[2], k>> \in FreeSet(free)
        /\ p[1] # "free" => <<p[2], k>> \in UsedBy(hdr, live)
  BY <1>1
<1>3. p[2] \in Nat /\ OrderSize(k) \in Nat
  <2> DEFINE e == <<p[2], k>>
  <2>1. e[1] \in Nat /\ OrderSize(e[2]) \in Nat
    BY <1>2, HoldsItself
  <2> QED BY <2>1
<1>4. \A w \in HeapWords : w \in Words(p[2], p[3]) <=> Holds(<<p[2], k>>, w)
  <2>1. Base \in Nat /\ HeapWords \subseteq Int
    BY OrdersFacts DEF HeapWords
  <2> QED BY <1>2, <1>3, <2>1 DEF Words, Holds
<1> QED BY <1>2, <1>4

(* Conversely, every block that is free or in use is a piece.              *)
LEMMA BlockIsPiece ==
  ASSUME IInv, NEW e \in FreeSet(free) \union UsedBy(hdr, live)
  PROVE  \E p \in Pieces : /\ p[2] = e[1] /\ p[3] = OrderSize(e[2])
                           /\ e \in UsedBy(hdr, live) => p[1] # "free"
<1>1. FreeSet(free) \intersect UsedBy(hdr, live) = {}
  BY HeapHere DEF Tiled
<1>2. CASE e \in FreeSet(free)
  <2>1. e[2] \in Orders /\ e[1] \in free[e[2]]
    BY <1>2 DEF FreeSet
  <2>2. <<"free", e[1], OrderSize(e[2])>> \in Pieces
    BY <2>1, PiecesAre
  <2> QED BY <1>1, <1>2, <2>2
<1>3. CASE e \in LargeBlocks(live)
  <2>1. PICK a \in Large : e = <<a.addr, AllocationOrder(a.size)>>
    BY <1>3, HeapHere DEF LargeBlocks
  <2>2. <<"large", a.addr, OrderSize(AllocationOrder(a.size))>> \in Pieces
    BY PiecesAre
  <2> QED BY <2>1, <2>2
<1>4. CASE e \in SlotBlocks(hdr)
  <2>1. PICK b \in DOMAIN hdr : e = <<b, AllocationOrder(Page)>>
    BY <1>4 DEF SlotBlocks
  <2>2. <<"slots", b, OrderSize(AllocationOrder(Page))>> \in Pieces
    BY PiecesAre
  <2> QED BY <2>1, <2>2
<1> QED BY <1>2, <1>3, <1>4 DEF UsedBy

(* A tiling has one piece at each word.                                    *)
LEMMA OnePiece ==
  ASSUME IInv, NEW w \in HeapWords
  PROVE  \E p \in Pieces : {q \in Pieces : w \in Words(q[2], q[3])} = {p}
<1> DEFINE T == FreeSet(free) \union UsedBy(hdr, live)
<1>1. Tiling(T) /\ FreeSet(free) \intersect UsedBy(hdr, live) = {}
  BY HeapHere DEF Tiled
<1>2. PICK e \in T : Holds(e, w)
  BY <1>1 DEF Tiling
<1>3. e \in AllBlocks /\ e = <<e[1], e[2]>>
  <2>1. e \in AllBlocks
    BY <1>1 DEF Tiling
  <2> QED BY <2>1, HoldsItself
<1>4. PICK p \in Pieces : p[2] = e[1] /\ p[3] = OrderSize(e[2])
  BY <1>2, BlockIsPiece
<1>5. w \in Words(p[2], p[3])
  <2>1. e[1] \in Nat /\ OrderSize(e[2]) \in Nat /\ w \in Int
    BY <1>3, HoldsItself, OrdersFacts DEF HeapWords
  <2> QED BY <2>1, <1>2, <1>4 DEF Words, Holds
<1>6. ASSUME NEW q \in Pieces, w \in Words(q[2], q[3])
      PROVE  \E k \in Orders : e = <<q[2], k>> /\ q[3] = OrderSize(k)
                               /\ (q[1] = "free" <=> e \in FreeSet(free))
  <2>1. PICK k \in Orders :
          /\ q[3] = OrderSize(k) /\ <<q[2], k>> \in AllBlocks
          /\ \A v \in HeapWords : v \in Words(q[2], q[3]) <=> Holds(<<q[2], k>>, v)
          /\ q[1] = "free" => <<q[2], k>> \in FreeSet(free)
          /\ q[1] # "free" => <<q[2], k>> \in UsedBy(hdr, live)
    BY PieceIsBlock
  <2>2. Holds(<<q[2], k>>, w) /\ <<q[2], k>> \in T
    BY <1>6, <2>1
  <2>3. e = <<q[2], k>>
    <3> DEFINE f == <<q[2], k>>
    <3>1. Holds(f, w) /\ f \in T
      BY <2>2
    <3> HIDE DEF f, T
    <3>2. e = f
      BY <1>1, <1>2, <3>1 DEF Tiling
    <3> QED BY <3>2 DEF f
  <2> QED BY <1>1, <2>1, <2>3
<1>7. ASSUME NEW q \in Pieces, w \in Words(q[2], q[3]) PROVE q = p
  <2>1. /\ q[2] = p[2] /\ q[3] = p[3] /\ (q[1] = "free" <=> p[1] = "free")
    <3>1. q[2] = e[1] /\ q[3] = OrderSize(e[2]) /\ (q[1] = "free" <=> e \in FreeSet(free))
      BY <1>6, <1>7
    <3>2. p[1] = "free" <=> e \in FreeSet(free)
      BY <1>5, <1>6
    <3> QED BY <1>4, <3>1, <3>2
  <2>2. \A a \in Large : a.addr \notin DOMAIN hdr
    BY HeapHere DEF LiveOK
  <2>3. \/ p[1] = "free" /\ q[1] = "free"
        \/ p[1] = "large" /\ q[1] = "large"
        \/ p[1] = "slots" /\ q[1] = "slots"
    BY <2>1, <2>2, PieceCases
  <2>4. p = <<p[1], p[2], p[3]>> /\ q = <<q[1], q[2], q[3]>>
    BY PiecesAre
  <2> QED BY <2>1, <2>3, <2>4
<1> QED BY <1>5, <1>7

(* Splitting and merging neither lose a word of the heap nor give one to   *)
(* two owners.                                                             *)
THEOREM HeapStaysTiled == Spec => []HeapTiled
<1>1. ASSUME IInv PROVE HeapTiled
  <2> SUFFICES ASSUME NEW w \in HeapWords
               PROVE  Cardinality({p \in Pieces : w \in Words(p[2], p[3])}) = 1
    BY DEF HeapTiled
  <2>1. PICK p \in Pieces : {q \in Pieces : w \in Words(q[2], q[3])} = {p}
    BY <1>1, OnePiece
  <2>2. Cardinality({p}) = 1
    BY FS_Singleton
  <2> QED BY <2>1, <2>2
<1> QED BY <1>1, SpecIInv, PTL

(* What an allocation lies in: a block of its own, or a block of slots.    *)
LEMMA ExtentCases ==
  ASSUME IInv, NEW a \in live
  PROVE  \/ /\ a \in Large
            /\ LET e == <<a.addr, AllocationOrder(a.size)>>
               IN  /\ e \in UsedBy(hdr, live) /\ a.addr \notin DOMAIN hdr
                   /\ \A w \in Extent(a) : w \in HeapWords /\ Holds(e, w)
         \/ /\ a \notin Large
            /\ \E b \in DOMAIN hdr :
                 LET e == <<b, AllocationOrder(Page)>>
                 IN  /\ e \in UsedBy(hdr, live)
                     /\ hdr[b].class = Pow2Ceil(a.size) /\ a.addr \in ProperSlots(b, hdr[b].class)
                     /\ \A w \in Extent(a) : /\ w \in HeapWords /\ w \in Words(b, Page)
                                             /\ b + Header <= w /\ Holds(e, w)
<1>1. CASE a \in Large
  <2>1. a.addr \notin DOMAIN hdr
    BY <1>1, HeapHere DEF LiveOK
  <2> QED BY <1>1, <2>1, HeapHere, LargeFacts DEF Extent
<1>2. CASE a \notin Large
  <2>1. a.size \in Sizes
    BY HeapHere DEF LiveOK
  <2>2. Pow2Ceil(a.size) < Page
    BY <1>2, <2>1, SizesSplit DEF Large
  <2>3. PICK b \in DOMAIN hdr :
          hdr[b].class = Pow2Ceil(a.size) /\ a.addr \in ProperSlots(b, hdr[b].class)
    BY <2>2, HeapHere DEF LiveOK
  <2>4. /\ <<b, AllocationOrder(Page)>> \in UsedBy(hdr, live)
        /\ \A w \in Words(b, Page) : w \in HeapWords /\ Holds(<<b, AllocationOrder(Page)>>, w)
    BY HeapHere, SlotBlockFacts
  <2>5. \A w \in Words(a.addr, hdr[b].class) : w \in Words(b, Page) /\ b + Header <= w
    BY <2>3, HeapHere, SmallFacts
  <2> QED BY <1>2, <2>3, <2>4, <2>5 DEF Extent
<1> QED BY <1>1, <1>2

(* Two proper slots of a block that share a word are the same slot.        *)
LEMMA ProperApart ==
  ASSUME NEW c \in Classes, NEW b \in Nat, NEW s \in ProperSlots(b, c), NEW t \in ProperSlots(b, c),
         NEW w \in Words(s, c), w \in Words(t, c)
  PROVE  s = t
<1>1. PICK i \in 1 .. Proper(c) : s = Slot(b, c, i)
  BY DEF ProperSlots
<1>2. PICK j \in 1 .. Proper(c) : t = Slot(b, c, j)
  BY DEF ProperSlots
<1>3. Proper(c) \in Nat /\ c \in Nat \ {0} /\ i \in Nat \ {0} /\ j \in Nat \ {0}
  BY SlotNumbers, PageFacts
<1>4. (i < j => s + c <= t) /\ (j < i => t + c <= s)
  BY <1>1, <1>2, <1>3, SlotsApart
<1>5. s \in Nat /\ t \in Nat
  BY ProperAreLinked
<1>6. s <= w /\ w < s + c /\ t <= w /\ w < t + c /\ w \in Int
  BY <1>3, <1>5 DEF Words
<1>7. ~ (i < j) /\ ~ (j < i)
  BY <1>3, <1>4, <1>5, <1>6
<1>8. i = j
  BY <1>3, <1>7
<1> QED BY <1>1, <1>2, <1>8

(* What kalloc hands out is inside the heap and overlaps neither another   *)
(* allocation nor the allocator's headers and free blocks.                 *)
THEOREM AllocationsStayApart == Spec => []NoOverlap
<1>1. ASSUME IInv PROVE NoOverlap
  <2> SUFFICES ASSUME NEW a \in live
               PROVE  /\ Extent(a) \subseteq HeapWords
                      /\ \A b \in live \ {a} : Extent(a) \intersect Extent(b) = {}
                      /\ \A b \in DOMAIN hdr : Extent(a) \intersect Words(b, Header) = {}
                      /\ a \notin Large => \E b \in DOMAIN hdr : Extent(a) \subseteq Words(b, Page)
                      /\ \A p \in Pieces : p[1] = "free" => Extent(a) \intersect Words(p[2], p[3]) = {}
    BY DEF NoOverlap
  <2> DEFINE L(x) == <<x.addr, AllocationOrder(x.size)>>
             S(b) == <<b, AllocationOrder(Page)>>
             Own(x) == /\ x \in Large
                       /\ L(x) \in UsedBy(hdr, live) /\ x.addr \notin DOMAIN hdr
                       /\ \A w \in Extent(x) : w \in HeapWords /\ Holds(L(x), w)
             In(x, b) == /\ x \notin Large
                         /\ S(b) \in UsedBy(hdr, live) /\ hdr[b].class = Pow2Ceil(x.size)
                         /\ x.addr \in ProperSlots(b, hdr[b].class)
                         /\ \A w \in Extent(x) : /\ w \in HeapWords /\ w \in Words(b, Page)
                                                 /\ b + Header <= w /\ Holds(S(b), w)
  <2>1. \A x \in live : Own(x) \/ \E b \in DOMAIN hdr : In(x, b)
    BY <1>1, ExtentCases
  <2>2. Tiled(free, UsedBy(hdr, live)) /\ LiveOK(hdr, live)
    BY <1>1, HeapHere
  <2>3. /\ \A e \in UsedBy(hdr, live), f \in UsedBy(hdr, live) : \A w \in HeapWords :
             Holds(e, w) /\ Holds(f, w) => e = f
        /\ \A e \in UsedBy(hdr, live), f \in FreeSet(free) : \A w \in HeapWords :
             ~ (Holds(e, w) /\ Holds(f, w))
    BY <2>2, UsedApart
  <2>4. \A b \in DOMAIN hdr : /\ b \in Nat /\ S(b) \in UsedBy(hdr, live) /\ hdr[b].class \in Classes
                              /\ \A w \in Words(b, Page) : w \in HeapWords /\ Holds(S(b), w)
    BY <1>1, <2>2, HeapHere, SlotBlockFacts
  <2>5. /\ \A x, y : L(x) = L(y) => x.addr = y.addr
        /\ \A x, b : L(x) = S(b) => x.addr = b
        /\ \A b, c : S(b) = S(c) => b = c
    OBVIOUS
  <2> HIDE DEF L, S
  <2>6. Extent(a) \subseteq HeapWords
    BY <2>1
  <2>7. ASSUME NEW x \in live, x # a, NEW w \in Extent(a), w \in Extent(x) PROVE FALSE
    <3>1. a.addr # x.addr
      BY <2>2, <2>7 DEF LiveOK
    <3>2. CASE Own(a) /\ Own(x)
      BY <2>3, <2>5, <2>7, <3>1, <3>2
    <3>3. CASE Own(a) /\ \E b \in DOMAIN hdr : In(x, b)
      BY <2>3, <2>5, <2>7, <3>3
    <3>4. CASE (\E b \in DOMAIN hdr : In(a, b)) /\ Own(x)
      BY <2>3, <2>5, <2>7, <3>4
    <3>5. ASSUME NEW b \in DOMAIN hdr, In(a, b), NEW c \in DOMAIN hdr, In(x, c) PROVE FALSE
      <4>1. b = c
        BY <2>3, <2>5, <2>7, <3>5
      <4>2. /\ Extent(a) = Words(a.addr, hdr[b].class) /\ Extent(x) = Words(x.addr, hdr[b].class)
            /\ a.addr \in ProperSlots(b, hdr[b].class) /\ x.addr \in ProperSlots(b, hdr[b].class)
        BY <3>5, <4>1 DEF Extent
      <4>3. b \in Nat /\ hdr[b].class \in Classes
        BY <2>4
      <4>4. w \in Words(a.addr, hdr[b].class) /\ w \in Words(x.addr, hdr[b].class)
        BY <2>7, <4>2
      <4>5. a.addr = x.addr
        BY <4>2, <4>3, <4>4, ProperApart
      <4> QED BY <3>1, <4>5
    <3> HIDE DEF Own, In
    <3> QED BY <2>1, <2>7, <3>2, <3>3, <3>4, <3>5
  <2>8. ASSUME NEW b \in DOMAIN hdr, NEW w \in Extent(a), w \in Words(b, Header) PROVE FALSE
    <3>1. w \in Words(b, Page) /\ w < b + Header /\ b \in Nat /\ w \in Int
      <4>1. b \in Nat /\ Header \in Nat /\ Page \in Nat
        BY <2>4, PageFacts
      <4>2. Header < Page
        <5>1. hdr[b].class \in Classes
          BY <2>4
        <5>2. Header + hdr[b].class < Page /\ hdr[b].class \in Nat
          BY <5>1, PageFacts
        <5> QED BY <4>1, <5>2
      <4>3. w \in b .. b + Header - 1
        BY <2>8 DEF Words
      <4>4. w \in Int /\ b <= w /\ w < b + Header
        BY <4>1, <4>3
      <4>5. w \in b .. b + Page - 1
        BY <4>1, <4>2, <4>4
      <4> QED BY <4>1, <4>4, <4>5 DEF Words
    <3>2. Holds(S(b), w) /\ S(b) \in UsedBy(hdr, live)
      BY <2>4, <3>1
    <3>3. CASE Own(a)
      BY <2>3, <2>5, <2>8, <3>2, <3>3
    <3>4. ASSUME NEW c \in DOMAIN hdr, In(a, c) PROVE FALSE
      <4>1. c = b
        BY <2>3, <2>5, <2>8, <3>2, <3>4
      <4>2. b + Header <= w
        BY <3>4, <4>1, <2>8
      <4> QED BY <3>1, <4>2, PageFacts
    <3> HIDE DEF Own, In
    <3> QED BY <2>1, <3>3, <3>4
  <2>9. a \notin Large => \E b \in DOMAIN hdr : Extent(a) \subseteq Words(b, Page)
    BY <2>1
  <2>10. ASSUME NEW p \in Pieces, p[1] = "free", NEW w \in Extent(a), w \in Words(p[2], p[3])
         PROVE  FALSE
    <3>1. PICK k \in Orders : /\ <<p[2], k>> \in FreeSet(free)
                              /\ \A v \in HeapWords : v \in Words(p[2], p[3]) <=> Holds(<<p[2], k>>, v)
      BY <1>1, <2>10, PieceIsBlock
    <3>2. w \in HeapWords /\ \E e \in UsedBy(hdr, live) : Holds(e, w)
      BY <2>1, <2>10
    <3> QED BY <2>3, <2>10, <3>1, <3>2
  <2> HIDE DEF Own, In
  <2>11. \A b \in live \ {a} : Extent(a) \intersect Extent(b) = {}
    BY <2>7
  <2>12. \A b \in DOMAIN hdr : Extent(a) \intersect Words(b, Header) = {}
    BY <2>8
  <2>13. \A p \in Pieces : p[1] = "free" => Extent(a) \intersect Words(p[2], p[3]) = {}
    BY <2>10
  <2> QED BY <2>6, <2>9, <2>11, <2>12, <2>13
<1> QED BY <1>1, SpecIInv, PTL

(* Merging is complete: the buddy allocator refuses an order only when no  *)
(* aligned run of that size is free.                                       *)
THEOREM RefusesFragmentedOnly == Spec => []RefusesOnlyWhenFragmented
<1>1. ASSUME IInv PROVE RefusesOnlyWhenFragmented
  <2> SUFFICES ASSUME NEW k \in Orders, \A j \in k .. Top : free[j] = {},
                      NEW i \in 0 .. Pow2[Top - k] - 1,
                      \A w \in Words(Base + i * OrderSize(k), OrderSize(k)) :
                        \A p \in Pieces : ~ (p[1] # "free" /\ w \in Words(p[2], p[3]))
               PROVE  FALSE
    BY DEF RefusesOnlyWhenFragmented
  <2> DEFINE b == Base + i * OrderSize(k)
  <2>1. /\ k \in Nat /\ Top \in Nat /\ k \in 0 .. Top /\ k <= Top /\ Top - k \in Nat
        /\ OrderSize(k) \in Nat \ {0} /\ HeapSize = Pow2[Top - k] * OrderSize(k) /\ Base \in Nat
        /\ Pow2[Top - k] \in Nat
    <3>1. k \in Nat /\ Top \in Nat /\ k <= Top /\ Base \in Nat /\ HeapSize = OrderSize(Top)
      BY OrdersFacts
    <3>2. k \in 0 .. Top /\ Top - k \in Nat
      BY <3>1
    <3> QED BY <3>1, <3>2, OrderSizes, Pow2Facts
  <2>2. i \in Nat /\ i + 1 <= Pow2[Top - k]
    BY <2>1
  <2>3. Aligned(b, k)
    <3>1. \A m \in Nat, s \in Nat : i + 1 <= m => i * s + s <= m * s /\ i * s \in Nat /\ m * s \in Nat
      BY <2>2
    <3>2. i * OrderSize(k) + OrderSize(k) <= Pow2[Top - k] * OrderSize(k) /\ i * OrderSize(k) \in Nat
          /\ Pow2[Top - k] * OrderSize(k) \in Nat
      BY <2>1, <2>2, <3>1
    <3>3. b + OrderSize(k) <= Base + HeapSize
      BY <2>1, <3>2
    <3> QED BY <2>2, <3>3 DEF Aligned
  <2>4. b \in Nat
    BY <2>3, AlignedFacts
  <2> HIDE DEF b
  <2>5. Tiled(free, UsedBy(hdr, live)) /\ FreeSet(free) \subseteq AllBlocks
    BY <1>1, HeapHere, UsedApart
  <2>6. ASSUME NEW w \in HeapWords, Holds(<<b, k>>, w), NEW e \in UsedBy(hdr, live), Holds(e, w)
        PROVE  FALSE
    <3>1. w \in Int
      BY OrdersFacts DEF HeapWords
    <3>2. w \in Words(b, OrderSize(k))
      BY <2>1, <2>4, <2>6, <3>1 DEF Words, Holds
    <3>3. PICK p \in Pieces : p[2] = e[1] /\ p[3] = OrderSize(e[2]) /\ p[1] # "free"
      BY <1>1, <2>6, BlockIsPiece
    <3>4. e \in AllBlocks
      BY <2>5, UsedApart
    <3>5. e[1] \in Nat /\ OrderSize(e[2]) \in Nat
      BY <3>4, HoldsItself
    <3>6. w \in Words(p[2], p[3])
      BY <2>6, <3>1, <3>3, <3>5 DEF Words, Holds
    <3> QED BY <3>2, <3>3, <3>6 DEF b
  <2>7. PICK e \in FreeSet(free) : e[2] >= k
    BY <2>3, <2>5, <2>6, FreeWordsAreJoined
  <2>8. e[2] \in Orders /\ e[1] \in free[e[2]]
    BY DEF FreeSet
  <2>9. e[2] \in k .. Top
    <3>1. e[2] \in Nat /\ e[2] <= Top
      BY <2>8, OrdersFacts
    <3> QED BY <2>1, <2>7, <3>1
  <2> QED BY <2>8, <2>9
<1> QED BY <1>1, SpecIInv, PTL
=============================================================================
