---------------------------- MODULE Buddy_proofs ----------------------------
(***************************************************************************)
(* For any number and size of blocks, alloc_pages and __free_pages split   *)
(* and merge so that each page of the machine is in one block; a bit is    *)
(* set exactly when one of two buddies is free, so that a merge finds the  *)
(* buddy it removes; and the allocator implements the abstract one.        *)
(*                                                                         *)
(* An induction over orders is a smallest counterexample here (Least): so  *)
(* the sizes are shown to double, a split block to have the pages of its   *)
(* parts, and a merge those of the blocks it joins.                        *)
(***************************************************************************)
EXTENDS Buddy, SequenceTheorems, FiniteSetTheorems, WellFoundedInduction, TLAPS

\* The block of order o that starts at p has the page x.
In(x, p, o) == p <= x /\ x < p + Size(o)

\* The blocks in a list, those that somebody owns or is freeing, and all of them.
Free(pool, o) == Range(pg_list[pool][o])
Taken == { p \in Page : count[p] > 0 } \cup freeing
Exists(p, o) == (\E pool \in Pool : p \in Free(pool, o)) \/ (p \in Taken /\ private[p] = o)

\* The block lies within the pool.
Top == NrMax * Size(MAX_ORDER)
Within(p, o, pool) ==
  IF pool = "kernel" THEN p + Size(o) <= user_start_idx
  ELSE user_start_idx <= p /\ p + Size(o) <= Top

\* Each page is in one block;
Existing == { b \in Page \X Order : Exists(b[1], b[2]) }
Tiles(E) ==
  \A x \in Page :
    /\ \E b \in E : In(x, b[1], b[2])
    /\ \A b, c \in E : In(x, b[1], b[2]) /\ In(x, c[1], c[2]) => b = c
Tiled == Tiles(Existing)

\* blocks are aligned, lie within a pool, and are free or taken;
Placed ==
  /\ \A p \in Page, o \in Order : Exists(p, o) => p % Size(o) = 0
  /\ \A pool \in Pool, o \in Order : \A p \in Free(pool, o) : Within(p, o, pool) /\ p \notin Taken
  /\ \A p \in Taken : Within(p, private[p], PoolOf(p))
  /\ \A p \in freeing : count[p] = 0

\* no block is listed twice;
Listed ==
  \A pool \in Pool, o \in Order :
    IsInjective(pg_list[pool][o]) /\ nr_free[pool][o] = Len(pg_list[pool][o])

\* and the bits tell which lists have one of two buddies.
BitsTell ==
  \A pool \in Pool : \A o \in 0 .. MAX_ORDER - 1 :
    /\ bmap[pool][o] = { Bit(p, o) : p \in Free(pool, o) }
    /\ \A p \in Free(pool, o) : BuddyOf(p, o) \notin Free(pool, o)
TopBits == \A pool \in Pool : \A b \in bmap[pool][MAX_ORDER] : b < BitmapLen(pool, MAX_ORDER)

IInv == TypeOK /\ Tiled /\ Placed /\ Listed /\ BitsTell /\ TopBits

\* A set of natural numbers that has a member has a least one.
LEMMA Least == ASSUME NEW S \in SUBSET Nat, S # {} PROVE \E n \in S : \A m \in S : n <= m
<1>1. PICK n \in S : \A m \in S : << m, n >> \notin OpToRel(<, Nat)
  BY WFMin, NatLessThanWellFounded
<1>2. \A m \in S : n <= m
  <2> SUFFICES ASSUME NEW m \in S, m < n PROVE FALSE
    OBVIOUS
  <2>1. << m, n >> \in OpToRel(<, Nat)
    BY DEF OpToRel
  <2>2. QED
    BY <1>1, <2>1
<1>3. QED
  BY <1>2

\* The table of sizes begins with 1, and each entry is twice the one before.
LEMMA Doubling == Size(0) = 1 /\ \A o \in Order : Size(o + 1) = 2 * Size(o) /\ Size(o) \in Nat \ {0}
<1> DEFINE Good(f, n) == f[0] = 1 /\ \A i \in 1 .. n : f[i] = 2 * f[i - 1]
           Bad == { n \in Nat : ~ \E f \in [0 .. n -> Nat \ {0}] : Good(f, n) }
<1>1. MAX_ORDER \in Nat
  BY BuddyAssumption
<1>2. \A n \in Nat : \E f \in [0 .. n -> Nat \ {0}] : Good(f, n)
  <2> SUFFICES ASSUME Bad # {} PROVE FALSE
    OBVIOUS
  <2>1. PICK n \in Bad : \A m \in Bad : n <= m
    BY Least
  <2>2. n # 0
    <3> DEFINE f == [i \in 0 .. 0 |-> 1]
    <3>1. f \in [0 .. 0 -> Nat \ {0}] /\ Good(f, 0)
      OBVIOUS
    <3>2. QED
      BY <3>1
  <2>3. n \in Nat /\ n - 1 \in Nat /\ n - 1 \notin Bad
    <3>1. n \in Nat /\ n - 1 \in Nat
      BY <2>2
    <3> HIDE DEF Bad
    <3>2. QED
      BY <2>1, <3>1
  <2>4. PICK f \in [0 .. n - 1 -> Nat \ {0}] : Good(f, n - 1)
    BY <2>3
  <2> DEFINE g == [i \in 0 .. n |-> IF i = n THEN 2 * f[n - 1] ELSE f[i]]
  <2>5. g \in [0 .. n -> Nat \ {0}]
    BY <2>3, <2>4
  <2>6. Good(g, n)
    <3>1. g[0] = 1
      BY <2>2, <2>3, <2>4
    <3>2. ASSUME NEW i \in 1 .. n PROVE g[i] = 2 * g[i - 1]
      <4>1. CASE i = n
        BY <2>3, <4>1
      <4>2. CASE i # n
        <5>1. i \in 1 .. n - 1 /\ i \in 0 .. n /\ i - 1 \in 0 .. n /\ i - 1 # n
          BY <2>3, <4>2
        <5>2. QED
          BY <2>4, <4>2, <5>1
      <4>3. QED
        BY <4>1, <4>2
    <3>3. QED
      BY <3>1, <3>2
  <2>7. QED
    BY <2>5, <2>6
<1>3. PICK f \in [0 .. MAX_ORDER + 1 -> Nat \ {0}] : Good(f, MAX_ORDER + 1)
  <2>1. MAX_ORDER + 1 \in Nat
    BY <1>1
  <2> HIDE DEF Good
  <2>2. QED
    BY <1>2, <2>1
<1>4. f = [o \in 0 .. MAX_ORDER + 1 |-> IF o = 0 THEN 1 ELSE 2 * f[o - 1]]
  BY <1>1, <1>3
<1>5. PowerOf2 = [o \in 0 .. MAX_ORDER + 1 |-> IF o = 0 THEN 1 ELSE 2 * PowerOf2[o - 1]]
  BY <1>4 DEF PowerOf2
<1>6. /\ PowerOf2[0] = 1
      /\ \A o \in Order : o + 1 \in 1 .. MAX_ORDER + 1 /\ (o + 1) - 1 = o
      /\ \A o \in 1 .. MAX_ORDER + 1 : PowerOf2[o] = 2 * PowerOf2[o - 1]
  BY <1>1, <1>5 DEF Order
<1> DEFINE Odd == { o \in 0 .. MAX_ORDER + 1 : PowerOf2[o] \notin Nat \ {0} }
<1>7. Odd = {}
  <2> SUFFICES ASSUME Odd # {} PROVE FALSE
    OBVIOUS
  <2>1. PICK n \in Odd : \A m \in Odd : n <= m
    <3>1. Odd \in SUBSET Nat
      BY <1>1
    <3> HIDE DEF Odd
    <3>2. QED
      BY <3>1, Least
  <2>2. n # 0 /\ n \in 1 .. MAX_ORDER + 1
    BY <1>1, <1>6
  <2>3. n - 1 \in 0 .. MAX_ORDER + 1 /\ n - 1 \notin Odd
    BY <1>1, <2>1, <2>2
  <2>4. QED
    BY <1>6, <2>2, <2>3
<1>8. \A o \in 0 .. MAX_ORDER + 1 : PowerOf2[o] \in Nat \ {0}
  BY <1>7
<1>9. \A o \in Order : o \in 0 .. MAX_ORDER + 1 /\ o + 1 \in 1 .. MAX_ORDER + 1 /\ (o + 1) - 1 = o
  BY <1>1 DEF Order
<1>10. \A o \in Order : PowerOf2[o + 1] = 2 * PowerOf2[o]
  BY <1>6, <1>9
<1>11. QED
  BY <1>6, <1>8, <1>9, <1>10 DEF Size

\* No size is zero, nor that of twice the largest block.
LEMMA SizeType == \A o \in 0 .. MAX_ORDER + 1 : Size(o) \in Nat \ {0}
<1> SUFFICES ASSUME NEW o \in 0 .. MAX_ORDER + 1 PROVE Size(o) \in Nat \ {0}
  OBVIOUS
<1>1. MAX_ORDER \in Nat
  BY BuddyAssumption
<1>2. o \in Order \/ (o - 1 \in Order /\ o = (o - 1) + 1)
  BY <1>1 DEF Order
<1>3. QED
  BY <1>2, Doubling

\* A product grows with its factor.
LEMMA TimesGrows ==
  ASSUME NEW a \in Nat, NEW b \in Nat, a <= b, NEW c \in Nat
  PROVE  a * c \in Nat /\ b * c \in Nat /\ a * c <= b * c
<1>1. PICK n \in Nat : b = a + n
  <2>1. b - a \in Nat /\ b = a + (b - a)
    OBVIOUS
  <2>2. QED
    BY <2>1
<1>2. (a + n) * c = a * c + n * c /\ a * c \in Nat /\ n * c \in Nat
  OBVIOUS
<1>3. QED
  BY <1>1, <1>2

\* A number is divided in one way.
LEMMA Quotient ==
  ASSUME NEW d \in Nat \ {0}, NEW k \in Nat, NEW r \in 0 .. d - 1
  PROVE  (k * d + r) % d = r /\ (k * d + r) \div d = k
<1> DEFINE x == k * d + r
           q == x \div d
           t == x % d
<1>1. k * d \in Nat /\ x \in Nat
  OBVIOUS
<1>2. q \in Nat /\ t \in 0 .. d - 1 /\ x = q * d + t
  BY <1>1
<1>3. q * d + t = k * d + r
  BY <1>2
<1> HIDE DEF q, t, x
<1>4. ASSUME q < k PROVE FALSE
  <2>1. PICK n \in Nat : k = q + 1 + n
    BY <1>2, <1>4
  <2>2. k * d = q * d + d + n * d /\ n * d >= 0
    BY <1>2, <2>1
  <2>3. QED
    BY <1>2, <1>3, <2>2
<1>5. ASSUME q > k PROVE FALSE
  <2>1. PICK n \in Nat : q = k + 1 + n
    BY <1>2, <1>5
  <2>2. q * d = k * d + d + n * d /\ n * d >= 0
    BY <1>2, <2>1
  <2>3. QED
    BY <1>2, <1>3, <2>2
<1>6. q = k
  <2>1. q \in Nat
    BY <1>2
  <2>2. QED
    BY <1>4, <1>5, <2>1
<1>7. t = r
  <2>1. t \in 0 .. d - 1 /\ k * d \in Nat /\ k * d + t = k * d + r
    BY <1>1, <1>2, <1>3, <1>6
  <2>2. QED
    BY <2>1
<1>8. QED
  BY <1>6, <1>7 DEF q, t, x

\* Quotient and remainder.
LEMMA Division ==
  ASSUME NEW d \in Nat \ {0}, NEW x \in Nat
  PROVE  /\ x \div d \in Nat /\ x % d \in 0 .. d - 1
         /\ x = (x \div d) * d + (x % d)
OBVIOUS

\* Two blocks that are multiples of their size and halves of one of twice the size.
LEMMA Halves ==
  ASSUME NEW x \in Nat, NEW s \in Nat \ {0}
  PROVE  LET a == x - (x % s)
             b == x - (x % (2 * s))
         IN /\ a \in Nat /\ b \in Nat /\ a <= x /\ x < a + s /\ b <= x /\ x < b + 2 * s
            /\ a % s = 0 /\ b % s = 0 /\ (b + s) % s = 0 /\ b % (2 * s) = 0
            /\ a % (2 * s) = 0 => a = b
            /\ a % (2 * s) # 0 => a = b + s
            /\ x \div (2 * s) = b \div (2 * s) /\ (b + s) \div (2 * s) = b \div (2 * s)
            /\ b = (x \div (2 * s)) * (2 * s)
<1> DEFINE k == x \div (2 * s)
           r == x % (2 * s)
           t == r % s
<1>1. 2 * s \in Nat \ {0}
  OBVIOUS
<1>2. k \in Nat /\ r \in 0 .. (2 * s) - 1 /\ x = k * (2 * s) + r
  BY <1>1, Division
<1> HIDE DEF k, r
<1>3. k * (2 * s) = (2 * k) * s /\ (2 * k) * s + s = (2 * k + 1) * s
  BY <1>2
<1>4. (k * (2 * s)) % (2 * s) = 0 /\ (k * (2 * s)) \div (2 * s) = k
  <2>1. 0 \in 0 .. (2 * s) - 1 /\ k * (2 * s) + 0 = k * (2 * s) /\ k * (2 * s) \in Nat
    BY <1>1, <1>2
  <2>2. QED
    BY <1>1, <1>2, <2>1, Quotient
<1>5. (k * (2 * s) + s) % (2 * s) = s /\ (k * (2 * s) + s) \div (2 * s) = k
  <2>1. s \in 0 .. (2 * s) - 1
    OBVIOUS
  <2>2. QED
    BY <1>1, <1>2, <2>1, Quotient
<1>6. (k * (2 * s)) % s = 0 /\ (k * (2 * s) + s) % s = 0
  <2>1. 0 \in 0 .. s - 1 /\ 2 * k \in Nat /\ 2 * k + 1 \in Nat
        /\ (2 * k) * s + 0 = (2 * k) * s /\ (2 * k + 1) * s + 0 = (2 * k + 1) * s
    BY <1>2
  <2>2. ((2 * k) * s + 0) % s = 0
    BY <2>1, Quotient
  <2>3. ((2 * k + 1) * s + 0) % s = 0
    BY <2>1, Quotient
  <2>4. QED
    BY <1>3, <2>1, <2>2, <2>3
<1>7. CASE r < s
  <2>1. x % s = r
    <3>1. r \in 0 .. s - 1 /\ 2 * k \in Nat
      BY <1>2, <1>7
    <3>2. ((2 * k) * s + r) % s = r
      BY <3>1, Quotient
    <3>3. QED
      BY <1>2, <1>3, <3>2
  <2>2. k * (2 * s) \in Nat /\ x - r = k * (2 * s)
    BY <1>2
  <2>3. QED
    BY <1>2, <1>4, <1>5, <1>6, <1>7, <2>1, <2>2 DEF k, r
<1>8. CASE r >= s
  <2>1. x % s = r - s
    <3>1. r - s \in 0 .. s - 1 /\ 2 * k + 1 \in Nat
      BY <1>2, <1>8
    <3>2. ((2 * k + 1) * s + (r - s)) % s = r - s
      BY <3>1, Quotient
    <3>3. x = (2 * k + 1) * s + (r - s)
      BY <1>2, <1>3
    <3>4. QED
      BY <3>2, <3>3
  <2>2. k * (2 * s) \in Nat /\ x - r = k * (2 * s) /\ x - (r - s) = k * (2 * s) + s
    BY <1>2
  <2>3. QED
    BY <1>2, <1>4, <1>5, <1>6, <1>8, <2>1, <2>2 DEF k, r
<1>9. QED
  BY <1>2, <1>7, <1>8

\* A block and its buddy are the halves of the block of the next order, and share its bit.
LEMMA Geometry ==
  ASSUME NEW x \in Nat, NEW o \in Order
  PROVE  /\ Aligned(x, o) \in Nat /\ Aligned(x, o + 1) \in Nat /\ BuddyOf(x, o) \in Nat
         /\ Bit(x, o) \in Nat /\ In(x, Aligned(x, o), o) /\ In(x, Aligned(x, o + 1), o + 1)
         /\ Aligned(x, o) % Size(o) = 0 /\ BuddyOf(x, o) % Size(o) = 0
         /\ Aligned(x, o + 1) % Size(o + 1) = 0 /\ Aligned(x, o + 1) % Size(o) = 0
         /\ \/ Aligned(x, o) = Aligned(x, o + 1) /\ BuddyOf(x, o) = Aligned(x, o + 1) + Size(o)
            \/ BuddyOf(x, o) = Aligned(x, o + 1) /\ Aligned(x, o) = Aligned(x, o + 1) + Size(o)
         /\ Bit(Aligned(x, o), o) = Bit(x, o) /\ Bit(BuddyOf(x, o), o) = Bit(x, o)
         /\ Aligned(x, o + 1) = Bit(x, o) * Size(o + 1)
<1> DEFINE s == Size(o)
<1>1. s \in Nat \ {0} /\ Size(o + 1) = 2 * s
  BY Doubling
<1> HIDE DEF s
<1> DEFINE a == x - (x % s)
           b == x - (x % (2 * s))
<1>2. /\ a \in Nat /\ b \in Nat /\ a <= x /\ x < a + s /\ b <= x /\ x < b + 2 * s
      /\ a % s = 0 /\ b % s = 0 /\ (b + s) % s = 0 /\ b % (2 * s) = 0
      /\ a % (2 * s) = 0 => a = b
      /\ a % (2 * s) # 0 => a = b + s
      /\ x \div (2 * s) = b \div (2 * s) /\ (b + s) \div (2 * s) = b \div (2 * s)
      /\ b = (x \div (2 * s)) * (2 * s)
  BY <1>1, Halves
<1>3. x \div (2 * s) \in Nat
  <2>1. 2 * s \in Nat \ {0}
    BY <1>1
  <2>2. QED
    BY <2>1, Division
<1>4. Aligned(x, o) = a /\ Aligned(x, o + 1) = b /\ \A y : Bit(y, o) = y \div (2 * s)
  BY <1>1 DEF Aligned, Bit, s
<1> HIDE DEF a, b
<1>5. BuddyOf(x, o) = IF a % (2 * s) = 0 THEN a + s ELSE a - s
  BY <1>1, <1>4 DEF BuddyOf, s
<1>6. Size(o) = s
  BY DEF s
<1>7. \/ a = b /\ BuddyOf(x, o) = b + s
      \/ BuddyOf(x, o) = b /\ a = b + s
  BY <1>1, <1>2, <1>5
<1>8. \A y : Bit(y, o) = y \div (2 * s)
  BY <1>4
<1>9. Bit(b, o) = Bit(x, o) /\ Bit(b + s, o) = Bit(x, o)
  BY <1>2, <1>8
<1>10. BuddyOf(x, o) \in Nat /\ BuddyOf(x, o) % s = 0
  BY <1>1, <1>2, <1>7
<1>11. Bit(a, o) = Bit(x, o) /\ Bit(BuddyOf(x, o), o) = Bit(x, o)
  BY <1>7, <1>9
<1>12. Bit(x, o) \in Nat /\ b = Bit(x, o) * (2 * s)
  BY <1>2, <1>3, <1>8
<1>13. In(x, a, o) /\ In(x, b, o + 1)
  BY <1>1, <1>2, <1>6 DEF In
<1>14. QED
  BY <1>1, <1>2, <1>4, <1>6, <1>7, <1>10, <1>11, <1>12, <1>13

\* Where a block begins, it begins also when it is not moved down.
LEMMA AlignedAlready ==
  ASSUME NEW x \in Nat, NEW o \in Order, x % Size(o) = 0
  PROVE  Aligned(x, o) = x
BY DEF Aligned

\* Two blocks with the same bit are one block, or buddies.
LEMMA SameBit ==
  ASSUME NEW o \in Order, NEW p \in Nat, NEW q \in Nat, p % Size(o) = 0, q % Size(o) = 0,
         Bit(p, o) = Bit(q, o)
  PROVE  p = q \/ p = BuddyOf(q, o)
<1>1. Aligned(p, o) = p /\ Aligned(q, o) = q
  BY AlignedAlready
<1>2. Aligned(p, o + 1) = Aligned(q, o + 1)
  BY Geometry
<1>3. Size(o) \in Nat \ {0}
  BY Doubling
<1>4. /\ \/ p = Aligned(p, o + 1) \/ p = Aligned(p, o + 1) + Size(o)
      /\ \/ q = Aligned(q, o + 1) /\ BuddyOf(q, o) = Aligned(q, o + 1) + Size(o)
         \/ BuddyOf(q, o) = Aligned(q, o + 1) /\ q = Aligned(q, o + 1) + Size(o)
  BY <1>1, Geometry
<1>5. QED
  BY <1>2, <1>4

\* Who is the buddy's buddy.
LEMMA BuddyBack ==
  ASSUME NEW o \in Order, NEW p \in Nat, p % Size(o) = 0
  PROVE  BuddyOf(BuddyOf(p, o), o) = p /\ BuddyOf(p, o) # p
<1> DEFINE q == BuddyOf(p, o)
<1>1. q \in Nat /\ q % Size(o) = 0 /\ Bit(q, o) = Bit(p, o) /\ Aligned(p, o) = p
  BY Geometry, AlignedAlready
<1>2. q # p
  <2>1. Size(o) \in Nat \ {0}
    BY Doubling
  <2>2. \/ p = Aligned(p, o + 1) /\ q = Aligned(p, o + 1) + Size(o)
        \/ q = Aligned(p, o + 1) /\ p = Aligned(p, o + 1) + Size(o)
    BY <1>1, Geometry
  <2>3. QED
    BY <1>1, <2>1, <2>2
<1>3. p = q \/ p = BuddyOf(q, o)
  <2> HIDE DEF q
  <2>1. QED
    BY <1>1, SameBit
<1>4. QED
  BY <1>2, <1>3

\* A larger block is aligned to the smaller sizes, too.
LEMMA AlignedDown ==
  ASSUME NEW x \in Nat, NEW o \in Order, x % Size(o) = 0, NEW p \in 0 .. o
  PROVE  x % Size(p) = 0
<1> DEFINE Bad == { n \in 0 .. o : x % Size(o - n) # 0 }
<1>1. o \in Nat /\ \A n \in 0 .. o : n \in Order
  BY BuddyAssumption DEF Order
<1>2. Bad = {}
  <2> SUFFICES ASSUME Bad # {} PROVE FALSE
    OBVIOUS
  <2>1. PICK n \in Bad : \A i \in Bad : n <= i
    <3>1. Bad \in SUBSET Nat
      BY <1>1
    <3> HIDE DEF Bad
    <3>2. QED
      BY <3>1, Least
  <2>2. n \in 0 .. o /\ x % Size(o - n) # 0 /\ n # 0
    BY <1>1
  <2>3. n - 1 \in 0 .. o /\ n - 1 \notin Bad
    <3>1. n - 1 \in 0 .. o /\ n \in Nat
      BY <1>1, <2>2
    <3> HIDE DEF Bad
    <3>2. QED
      BY <2>1, <3>1
  <2>4. x % Size(o - (n - 1)) = 0
    BY <2>3
  <2> DEFINE r == o - n
  <2>5. r \in Order /\ o - (n - 1) = r + 1
    BY <1>1, <2>2
  <2>6. x % Size(r + 1) = 0 /\ x % Size(r) # 0
    BY <2>2, <2>4, <2>5
  <2> HIDE DEF r
  <2>7. Aligned(x, r + 1) = x
    BY <2>6 DEF Aligned
  <2>8. QED
    BY <2>5, <2>6, <2>7, Geometry
<1>3. o - p \in 0 .. o /\ o - (o - p) = p
  BY <1>1
<1>4. o - p \notin Bad
  BY <1>2
<1>5. x % Size(o - (o - p)) = 0
  BY <1>3, <1>4
<1>6. QED
  BY <1>3, <1>5

\* A larger order is a larger size.
LEMMA SizeGrows ==
  ASSUME NEW o \in 0 .. MAX_ORDER + 1, NEW p \in 0 .. o
  PROVE  Size(p) <= Size(o)
<1> DEFINE Bad == { n \in 0 .. o : n >= p /\ Size(p) > Size(n) }
<1>1. o \in Nat /\ p \in Nat /\ \A n \in 0 .. o : n \in 0 .. MAX_ORDER + 1
  BY BuddyAssumption
<1>2. Bad = {}
  <2> SUFFICES ASSUME Bad # {} PROVE FALSE
    OBVIOUS
  <2>1. PICK n \in Bad : \A i \in Bad : n <= i
    <3>1. Bad \in SUBSET Nat
      BY <1>1
    <3> HIDE DEF Bad
    <3>2. QED
      BY <3>1, Least
  <2>2. n \in 0 .. o /\ n >= p /\ Size(p) > Size(n) /\ Size(p) \in Nat
    BY <1>1, SizeType
  <2>3. n # p
    BY <1>1, <2>2
  <2>4. n - 1 \in 0 .. o /\ n - 1 >= p /\ n \in Nat
    BY <1>1, <2>2, <2>3
  <2>5. n - 1 \notin Bad
    <3> HIDE DEF Bad
    <3>1. QED
      BY <2>1, <2>4
  <2>6. Size(p) <= Size(n - 1)
    <3>1. Size(n - 1) \in Nat
      BY <1>1, <2>4, SizeType
    <3>2. QED
      BY <2>2, <2>4, <2>5, <3>1
  <2>7. Size(n) = 2 * Size(n - 1) /\ Size(n - 1) \in Nat
    <3>1. n - 1 \in Order /\ (n - 1) + 1 = n
      BY <1>1, <2>2, <2>4, BuddyAssumption DEF Order
    <3>2. Size((n - 1) + 1) = 2 * Size(n - 1) /\ Size(n - 1) \in Nat
      BY <3>1, Doubling
    <3>3. QED
      BY <3>1, <3>2
  <2>8. QED
    BY <2>2, <2>6, <2>7
<1>3. o \in 0 .. o /\ o >= p /\ o \notin Bad /\ Size(o) \in Nat /\ Size(p) \in Nat
  BY <1>1, <1>2, SizeType
<1>4. QED
  BY <1>3

\* alloc_pages cuts a block into one of the order asked for and one of each order between:
\* each page is in one of them.
LEMMA SplitPages ==
  ASSUME NEW idx \in Nat, NEW o \in Order, NEW order \in 0 .. o, NEW x \in Nat
  PROVE  /\ In(x, idx, o) <=> \/ In(x, idx, order)
                              \/ \E p \in order .. o - 1 : In(x, idx + Size(p), p)
         /\ \A p \in order .. o - 1 : ~ (In(x, idx, order) /\ In(x, idx + Size(p), p))
         /\ \A p, q \in order .. o - 1 : In(x, idx + Size(p), p) /\ In(x, idx + Size(q), q) => p = q
<1>1. o \in Nat /\ order \in Nat /\ \A n \in 0 .. o : n \in Order /\ n \in 0 .. MAX_ORDER + 1
  BY BuddyAssumption DEF Order
<1>2. \A n \in 0 .. o : Size(n) \in Nat \ {0} /\ Size(n + 1) = 2 * Size(n)
  BY <1>1, Doubling
<1>3. \A n \in order .. o - 1 : n \in 0 .. o /\ n + 1 \in 0 .. o /\ order \in 0 .. n /\ order \in 0 .. o
  BY <1>1
<1>4. \A n \in order .. o - 1 : Size(order) <= Size(n) /\ Size(n + 1) <= Size(o)
  <2> TAKE n \in order .. o - 1
  <2>1. n \in 0 .. MAX_ORDER + 1 /\ order \in 0 .. n /\ n + 1 \in 0 .. o /\ o \in 0 .. MAX_ORDER + 1
    BY <1>1, <1>3
  <2>2. QED
    BY <2>1, SizeGrows
<1>5. Size(order) <= Size(o) /\ Size(order) \in Nat /\ Size(o) \in Nat
  BY <1>1, <1>2, SizeGrows
<1>6. ASSUME In(x, idx, order) PROVE In(x, idx, o)
  BY <1>5, <1>6 DEF In
<1>7. ASSUME NEW p \in order .. o - 1, In(x, idx + Size(p), p)
      PROVE  In(x, idx, o) /\ ~ In(x, idx, order)
  <2>1. Size(p) \in Nat /\ Size(p + 1) = 2 * Size(p) /\ Size(p + 1) <= Size(o) /\ Size(order) <= Size(p)
    BY <1>2, <1>3, <1>4
  <2>2. QED
    BY <1>5, <1>7, <2>1 DEF In
<1>8. ASSUME In(x, idx, o), ~ In(x, idx, order)
      PROVE  \E p \in order .. o - 1 : In(x, idx + Size(p), p)
  <2> DEFINE S == { n \in order .. o : x < idx + Size(n) }
  <2>1. S \in SUBSET Nat /\ o \in S
    BY <1>1, <1>8 DEF In
  <2>2. PICK n \in S : \A i \in S : n <= i
    <3> HIDE DEF S
    <3>1. QED
      BY <2>1, Least
  <2>3. n \in order .. o /\ x < idx + Size(n) /\ n # order
    BY <1>5, <1>8 DEF In
  <2>4. n - 1 \in order .. o - 1 /\ n - 1 \in order .. o /\ n - 1 < n /\ (n - 1) + 1 = n
    BY <1>1, <2>3
  <2>5. n - 1 \notin S
    <3> HIDE DEF S
    <3>1. QED
      BY <1>1, <2>2, <2>3, <2>4
  <2>6. Size(n - 1) \in Nat /\ Size(n) = 2 * Size(n - 1)
    <3>1. Size(n - 1) \in Nat /\ Size((n - 1) + 1) = 2 * Size(n - 1)
      BY <1>2, <1>3, <2>4
    <3>2. QED
      BY <2>4, <3>1
  <2>7. x >= idx + Size(n - 1)
    BY <2>4, <2>5, <2>6
  <2>8. In(x, idx + Size(n - 1), n - 1)
    BY <2>3, <2>6, <2>7 DEF In
  <2>9. QED
    BY <2>4, <2>8
<1>9. ASSUME NEW p \in order .. o - 1, NEW q \in order .. o - 1, p < q,
             In(x, idx + Size(p), p), In(x, idx + Size(q), q)
      PROVE  FALSE
  <2>1. Size(p) \in Nat /\ Size(p + 1) = 2 * Size(p) /\ Size(q) \in Nat
    BY <1>2, <1>3
  <2>2. Size(p + 1) <= Size(q)
    <3>1. p + 1 \in 0 .. q /\ q \in 0 .. MAX_ORDER + 1
      BY <1>1, <1>3, <1>9
    <3>2. QED
      BY <3>1, SizeGrows
  <2>3. QED
    BY <1>9, <2>1, <2>2 DEF In
<1>10. \A p, q \in order .. o - 1 : In(x, idx + Size(p), p) /\ In(x, idx + Size(q), q) => p = q
  <2> SUFFICES ASSUME NEW p \in order .. o - 1, NEW q \in order .. o - 1,
                      In(x, idx + Size(p), p), In(x, idx + Size(q), q), p # q
               PROVE  FALSE
    OBVIOUS
  <2>1. p < q \/ q < p
    BY <1>1
  <2>2. QED
    BY <1>9, <2>1
<1>11. QED
  BY <1>6, <1>7, <1>8, <1>10

\* A merge joins a block and the buddies it meets: each page of the whole is in one of them.
LEMMA MergePages ==
  ASSUME NEW idx \in Nat, NEW k \in Order, idx % Size(k) = 0, NEW m \in k .. MAX_ORDER
  PROVE  \A x \in Nat : In(x, Aligned(idx, m), m) <=>
           \/ In(x, idx, k)
           \/ \E j \in k .. m - 1 : In(x, BuddyOf(idx, j), j)
<1> DEFINE Joined(n) == \A x \in Nat : In(x, Aligned(idx, n), n) <=>
             \/ In(x, idx, k)
             \/ \E j \in k .. n - 1 : In(x, BuddyOf(idx, j), j)
           Bad == { n \in k .. m : ~ Joined(n) }
<1>1. k \in Nat /\ m \in Nat /\ MAX_ORDER \in Nat /\ \A n \in k .. m : n \in Order
  BY BuddyAssumption DEF Order
<1>2. Joined(k)
  <2>1. Aligned(idx, k) = idx
    BY AlignedAlready
  <2>2. k .. k - 1 = {}
    BY <1>1
  <2>3. QED
    BY <2>1, <2>2
<1>3. ASSUME NEW n \in k .. m - 1, Joined(n) PROVE Joined(n + 1)
  <2>1. n \in Order /\ Size(n) \in Nat /\ Size(n + 1) = 2 * Size(n)
    BY <1>1, Doubling
  <2>2. /\ Aligned(idx, n) \in Nat /\ BuddyOf(idx, n) \in Nat /\ Aligned(idx, n + 1) \in Nat
        /\ \/ Aligned(idx, n) = Aligned(idx, n + 1) /\ BuddyOf(idx, n) = Aligned(idx, n + 1) + Size(n)
           \/ BuddyOf(idx, n) = Aligned(idx, n + 1) /\ Aligned(idx, n) = Aligned(idx, n + 1) + Size(n)
    BY <2>1, Geometry
  <2>3. \A x \in Nat : In(x, Aligned(idx, n + 1), n + 1) <=>
                         In(x, Aligned(idx, n), n) \/ In(x, BuddyOf(idx, n), n)
    BY <2>1, <2>2 DEF In
  <2>4. \A j : j \in k .. (n + 1) - 1 <=> j \in k .. n - 1 \/ j = n
    BY <1>1
  <2>5. QED
    BY <1>3, <2>3, <2>4
<1>4. Bad = {}
  <2> SUFFICES ASSUME Bad # {} PROVE FALSE
    OBVIOUS
  <2>1. PICK n \in Bad : \A i \in Bad : n <= i
    <3>1. Bad \in SUBSET Nat
      BY <1>1
    <3> HIDE DEF Bad
    <3>2. QED
      BY <3>1, Least
  <2> HIDE DEF Joined
  <2>2. n \in k .. m /\ ~ Joined(n) /\ n # k
    BY <1>2
  <2>3. n - 1 \in k .. m - 1 /\ n - 1 \in k .. m /\ n - 1 < n /\ (n - 1) + 1 = n
    BY <1>1, <2>2
  <2>4. n - 1 \notin Bad
    <3> HIDE DEF Bad
    <3>1. QED
      BY <1>1, <2>1, <2>2, <2>3
  <2>5. Joined(n - 1)
    BY <2>3, <2>4
  <2>6. Joined((n - 1) + 1)
    BY <1>3, <2>3, <2>5
  <2>7. QED
    BY <2>2, <2>3, <2>6
<1>5. m \in k .. m
  BY <1>1
<1>6. Joined(m)
  <2> HIDE DEF Joined
  <2>1. QED
    BY <1>4, <1>5
<1>7. QED
  BY <1>6

\* What the list operations do to the members of a list without duplicates.
LEMMA Popped ==
  ASSUME NEW S, NEW l \in Seq(S), l # << >>, IsInjective(l)
  PROVE  /\ Head(l) \in Range(l) /\ Head(l) \in S
         /\ Tail(l) \in Seq(S) /\ Len(Tail(l)) = Len(l) - 1
         /\ IsInjective(Tail(l)) /\ Range(Tail(l)) = Range(l) \ {Head(l)}
<1> DEFINE m == Tail(l)
<1>1. /\ Head(l) = l[1] /\ Head(l) \in S /\ m \in Seq(S) /\ Len(l) \in Nat \ {0} /\ Len(m) = Len(l) - 1
      /\ DOMAIN l = 1 .. Len(l) /\ DOMAIN m = 1 .. Len(l) - 1
      /\ \A i \in 1 .. Len(l) - 1 : m[i] = l[i + 1]
  BY HeadTailProperties, LenProperties, EmptySeq
<1> HIDE DEF m
<1>2. IsInjective(m)
  <2> SUFFICES ASSUME NEW a \in DOMAIN m, NEW b \in DOMAIN m, m[a] = m[b]
               PROVE  a = b
    BY DEF IsInjective
  <2>1. a \in 1 .. Len(l) - 1 /\ b \in 1 .. Len(l) - 1
    BY <1>1
  <2>2. a + 1 \in DOMAIN l /\ b + 1 \in DOMAIN l /\ l[a + 1] = l[b + 1]
    BY <1>1, <2>1
  <2>3. a + 1 = b + 1
    BY <2>2 DEF IsInjective
  <2>4. QED
    BY <2>1, <2>3
<1>3. 1 \in 1 .. Len(l) /\ \A i \in 1 .. Len(l) - 1 : i + 1 \in 1 .. Len(l) /\ i + 1 # 1
  BY <1>1
<1>4. \A j \in 1 .. Len(l) : j # 1 => j - 1 \in 1 .. Len(l) - 1 /\ m[j - 1] = l[j]
  BY <1>1
<1>5. Range(m) \subseteq Range(l) \ {l[1]}
  BY <1>1, <1>3 DEF IsInjective, Range
<1>6. Range(l) \ {l[1]} \subseteq Range(m)
  <2> SUFFICES ASSUME NEW j \in 1 .. Len(l), j # 1 PROVE l[j] \in Range(m)
    BY <1>1 DEF Range
  <2>1. j - 1 \in DOMAIN m /\ m[j - 1] = l[j]
    BY <1>1, <1>4
  <2>2. QED
    BY <2>1 DEF Range
<1>7. l[1] \in Range(l)
  BY <1>1, <1>3 DEF Range
<1>8. QED
  BY <1>1, <1>2, <1>5, <1>6, <1>7 DEF m

\* The same of appending a new one,
LEMMA PushedBack ==
  ASSUME NEW S, NEW l \in Seq(S), NEW e \in S, IsInjective(l), e \notin Range(l)
  PROVE  /\ Append(l, e) \in Seq(S) /\ Len(Append(l, e)) = Len(l) + 1
         /\ IsInjective(Append(l, e)) /\ Range(Append(l, e)) = Range(l) \cup {e}
<1> DEFINE m == Append(l, e)
<1>1. /\ m \in Seq(S) /\ Len(m) = Len(l) + 1 /\ Len(l) \in Nat
      /\ DOMAIN m = 1 .. Len(l) + 1 /\ DOMAIN l = 1 .. Len(l)
      /\ \A i \in 1 .. Len(l) + 1 : m[i] = IF i <= Len(l) THEN l[i] ELSE e
  BY AppendProperties, LenProperties
<1> HIDE DEF m
<1>2. Range(m) = Range(l) \cup {e}
  BY <1>1 DEF Range
<1>3. IsInjective(m)
  BY <1>1 DEF IsInjective, Range
<1>4. QED
  BY <1>1, <1>2, <1>3 DEF m

\* of putting one in front,
LEMMA PushedFront ==
  ASSUME NEW S, NEW l \in Seq(S), NEW e \in S, IsInjective(l), e \notin Range(l)
  PROVE  /\ << e >> \o l \in Seq(S) /\ Len(<< e >> \o l) = Len(l) + 1
         /\ IsInjective(<< e >> \o l) /\ Range(<< e >> \o l) = Range(l) \cup {e}
<1> DEFINE m == << e >> \o l
<1>1. /\ m \in Seq(S) /\ Len(m) = Len(l) + 1 /\ Len(l) \in Nat
      /\ DOMAIN m = 1 .. Len(l) + 1 /\ DOMAIN l = 1 .. Len(l)
      /\ m[1] = e /\ \A i \in 1 .. Len(l) : m[i + 1] = l[i]
  BY ConcatProperties, LenProperties
<1> HIDE DEF m
<1>2. /\ 1 \in 1 .. Len(l) + 1
      /\ \A i \in 1 .. Len(l) : i + 1 \in 1 .. Len(l) + 1
      /\ \A i \in 1 .. Len(l) + 1 : i # 1 => i - 1 \in 1 .. Len(l) /\ m[i] = l[i - 1]
  BY <1>1
<1>3. Range(m) \subseteq Range(l) \cup {e}
  <2> SUFFICES ASSUME NEW i \in DOMAIN m PROVE m[i] \in Range(l) \cup {e}
    BY DEF Range
  <2>1. CASE i = 1
    BY <1>1, <2>1
  <2>2. CASE i # 1
    <3>1. i - 1 \in DOMAIN l /\ m[i] = l[i - 1]
      BY <1>1, <1>2, <2>2
    <3>2. QED
      BY <3>1 DEF Range
  <2>3. QED
    BY <2>1, <2>2
<1>4. Range(l) \cup {e} \subseteq Range(m)
  <2>1. e \in Range(m)
    BY <1>1, <1>2 DEF Range
  <2>2. ASSUME NEW i \in DOMAIN l PROVE l[i] \in Range(m)
    <3>1. i + 1 \in DOMAIN m /\ m[i + 1] = l[i]
      BY <1>1, <1>2
    <3>2. QED
      BY <3>1 DEF Range
  <2>3. QED
    BY <2>1, <2>2 DEF Range
<1>5. IsInjective(m)
  <2> SUFFICES ASSUME NEW i \in 1 .. Len(l) + 1, NEW j \in 1 .. Len(l) + 1, m[i] = m[j] PROVE i = j
    BY <1>1 DEF IsInjective
  <2>1. \A n \in 1 .. Len(l) : l[n] # e
    BY <1>1 DEF Range
  <2>2. CASE i # 1 /\ j # 1
    <3>1. i - 1 \in DOMAIN l /\ j - 1 \in DOMAIN l /\ l[i - 1] = l[j - 1]
      BY <1>1, <1>2, <2>2
    <3>2. i - 1 = j - 1
      BY <3>1 DEF IsInjective
    <3>3. QED
      BY <1>1, <3>2
  <2>3. ASSUME NEW n \in 1 .. Len(l) + 1, n # 1 PROVE m[n] # e
    <3>1. n - 1 \in 1 .. Len(l) /\ m[n] = l[n - 1]
      BY <1>2, <2>3
    <3>2. QED
      BY <2>1, <3>1
  <2>4. CASE i = 1 \/ j = 1
    BY <1>1, <2>3, <2>4
  <2>5. QED
    BY <2>2, <2>4
<1>6. QED
  BY <1>1, <1>3, <1>4, <1>5 DEF m

\* and of list_delete(): the element that is asked for, and no other, is gone.
LEMMA Deleted ==
  ASSUME NEW S, NEW l \in Seq(S), NEW e \in Range(l), IsInjective(l)
  PROVE  /\ list_delete(l, e) \in Seq(S) /\ Len(list_delete(l, e)) = Len(l) - 1
         /\ IsInjective(list_delete(l, e)) /\ Range(list_delete(l, e)) = Range(l) \ {e}
<1> DEFINE k == CHOOSE i \in DOMAIN l : l[i] = e
           a == SubSeq(l, 1, k - 1)
           b == SubSeq(l, k + 1, Len(l))
           m == a \o b
<1>1. DOMAIN l = 1 .. Len(l) /\ Len(l) \in Nat /\ \A i \in 1 .. Len(l) : l[i] \in S
  BY LenProperties, ElementOfSeq
<1>2. k \in 1 .. Len(l) /\ l[k] = e
  BY <1>1 DEF Range
<1> HIDE DEF k
<1>3. a \in Seq(S) /\ Len(a) = k - 1 /\ \A i \in 1 .. k - 1 : a[i] = l[i]
  <2>1. 1 \in Int /\ k - 1 \in Int /\ \A i \in 1 .. k - 1 : l[i] \in S
    BY <1>1, <1>2
  <2>2. /\ a \in Seq(S) /\ Len(a) = IF 1 <= k - 1 THEN (k - 1) - 1 + 1 ELSE 0
        /\ \A i \in 1 .. (k - 1) - 1 + 1 : a[i] = l[1 + i - 1]
    BY <2>1, SubSeqProperties
  <2>3. QED
    BY <1>2, <2>2
<1>4. b \in Seq(S) /\ Len(b) = Len(l) - k /\ \A i \in 1 .. Len(l) - k : b[i] = l[i + k]
  <2>1. k + 1 \in Int /\ Len(l) \in Int /\ \A i \in k + 1 .. Len(l) : l[i] \in S
    BY <1>1, <1>2
  <2>2. /\ b \in Seq(S) /\ Len(b) = IF k + 1 <= Len(l) THEN Len(l) - (k + 1) + 1 ELSE 0
        /\ \A i \in 1 .. Len(l) - (k + 1) + 1 : b[i] = l[(k + 1) + i - 1]
    BY <2>1, SubSeqProperties
  <2>3. \A i \in 1 .. Len(l) - k : (k + 1) + i - 1 = i + k /\ i \in 1 .. Len(l) - (k + 1) + 1
    BY <1>1, <1>2
  <2>4. Len(b) = Len(l) - k
    <3>1. k \in Int /\ Len(l) \in Int /\ 1 <= k /\ k <= Len(l)
      BY <1>1, <1>2
    <3>2. Len(b) = IF k + 1 <= Len(l) THEN Len(l) - (k + 1) + 1 ELSE 0
      BY <2>2
    <3> HIDE DEF b
    <3>3. QED
      BY <3>1, <3>2
  <2>5. \A i \in 1 .. Len(l) - k : b[i] = l[i + k]
    BY <2>2, <2>3
  <2>6. QED
    BY <2>2, <2>4, <2>5
<1> HIDE DEF a, b
<1>5. /\ m \in Seq(S) /\ Len(m) = Len(l) - 1 /\ DOMAIN m = 1 .. Len(l) - 1
      /\ \A i \in 1 .. Len(l) - 1 : m[i] = IF i < k THEN l[i] ELSE l[i + 1]
  <2>1. /\ m \in Seq(S) /\ Len(m) = Len(a) + Len(b)
        /\ \A i \in 1 .. Len(a) + Len(b) : m[i] = IF i <= Len(a) THEN a[i] ELSE b[i - Len(a)]
    BY <1>3, <1>4, ConcatProperties
  <2>2. Len(a) + Len(b) = Len(l) - 1
    BY <1>1, <1>2, <1>3, <1>4
  <2>3. DOMAIN m = 1 .. Len(l) - 1
    BY <2>1, <2>2, LenProperties
  <2>4. ASSUME NEW i \in 1 .. Len(l) - 1 PROVE m[i] = IF i < k THEN l[i] ELSE l[i + 1]
    <3> USE <1>1, <1>2
    <3>1. CASE i < k
      <4>1. i \in 1 .. k - 1 /\ i <= Len(a)
        BY <1>1, <1>2, <1>3, <3>1
      <4>2. QED
        BY <1>3, <2>1, <2>2, <3>1, <4>1
    <3>2. CASE i >= k
      <4>1. i - Len(a) \in 1 .. Len(l) - k /\ ~ (i <= Len(a)) /\ (i - Len(a)) + k = i + 1 /\ ~ (i < k)
        BY <1>1, <1>2, <1>3, <3>2
      <4>2. QED
        BY <1>4, <2>1, <2>2, <4>1
    <3>3. i < k \/ i >= k
      OBVIOUS
    <3>4. QED
      BY <3>1, <3>2, <3>3
  <2>5. QED
    BY <2>1, <2>2, <2>3, <2>4
<1>6. list_delete(l, e) = m
  BY DEF list_delete, RemoveAt, k, a, b
<1> HIDE DEF m
<1>7. \A i \in 1 .. Len(l) - 1 : i \in 1 .. Len(l) /\ i + 1 \in 1 .. Len(l) /\ i \in Int
  BY <1>1
<1>8. IsInjective(m)
  <2> SUFFICES ASSUME NEW i \in 1 .. Len(l) - 1, NEW j \in 1 .. Len(l) - 1, m[i] = m[j] PROVE i = j
    BY <1>5 DEF IsInjective
  <2> DEFINE x == IF i < k THEN i ELSE i + 1
             y == IF j < k THEN j ELSE j + 1
  <2>1. x \in DOMAIN l /\ y \in DOMAIN l /\ l[x] = l[y]
    BY <1>1, <1>5, <1>7
  <2>2. x = y
    BY <2>1 DEF IsInjective
  <2>3. QED
    BY <1>1, <1>2, <1>7, <2>2
<1>9. Range(m) \subseteq Range(l) \ {e}
  <2> SUFFICES ASSUME NEW i \in 1 .. Len(l) - 1 PROVE m[i] \in Range(l) /\ m[i] # e
    BY <1>5 DEF Range
  <2> DEFINE x == IF i < k THEN i ELSE i + 1
  <2>1. x \in DOMAIN l /\ m[i] = l[x] /\ x # k
    BY <1>1, <1>2, <1>5, <1>7
  <2>2. QED
    BY <1>1, <1>2, <2>1 DEF Range, IsInjective
<1>10. Range(l) \ {e} \subseteq Range(m)
  <2> SUFFICES ASSUME NEW j \in 1 .. Len(l), l[j] # e PROVE l[j] \in Range(m)
    BY <1>1 DEF Range
  <2> DEFINE i == IF j < k THEN j ELSE j - 1
  <2>1. i \in 1 .. Len(l) - 1 /\ m[i] = l[j]
    <3>1. j # k
      BY <1>2
    <3>2. CASE j < k
      <4>1. j \in 1 .. Len(l) - 1
        BY <1>1, <1>2, <3>2
      <4>2. QED
        BY <1>5, <3>2, <4>1
    <3>3. CASE j > k
      <4>1. j - 1 \in 1 .. Len(l) - 1 /\ ~ (j - 1 < k) /\ (j - 1) + 1 = j /\ ~ (j < k)
        BY <1>1, <1>2, <3>3
      <4>2. QED
        BY <1>5, <4>1
    <3>4. QED
      BY <1>1, <1>2, <3>1, <3>2, <3>3
  <2> HIDE DEF i
  <2>2. QED
    BY <1>5, <2>1 DEF Range
<1>11. QED
  BY <1>5, <1>6, <1>8, <1>9, <1>10

-----------------------------------------------------------------------------
\* The constants, and what is in which set.
LEMMA Constants ==
  /\ MAX_ORDER \in Nat /\ NrMax \in Nat /\ NrMax >= 4 /\ kernel_nr \in Nat
  /\ kernel_nr >= 1 /\ 4 * kernel_nr <= NrMax /\ NrMax < 4 * kernel_nr + 4
  /\ MAX_ORDER \in Order /\ 0 \in Order /\ Size(MAX_ORDER) \in Nat \ {0}
  /\ user_start_idx \in Nat /\ Top \in Nat /\ user_start_idx <= Top
  /\ user_start_idx = kernel_nr * Size(MAX_ORDER)
  /\ Page = 0 .. Top - 1 /\ Page \subseteq Nat
<1>1. MAX_ORDER \in Nat /\ NrMax \in Nat /\ NrMax >= 4
  BY BuddyAssumption
<1>2. MAX_ORDER \in Order /\ 0 \in Order
  BY <1>1 DEF Order
<1>3. Size(MAX_ORDER) \in Nat \ {0}
  BY <1>2, Doubling
<1>4. /\ kernel_nr \in Nat /\ kernel_nr >= 1 /\ 4 * kernel_nr <= NrMax /\ NrMax < 4 * kernel_nr + 4
  BY <1>1 DEF kernel_nr
<1>5. user_start_idx \in Nat /\ Top \in Nat
  BY <1>1, <1>3, <1>4 DEF user_start_idx, Top
<1>6. user_start_idx <= Top
  <2>1. kernel_nr <= NrMax
    BY <1>1, <1>4
  <2>2. QED
    BY <1>1, <1>3, <1>4, <2>1, TimesGrows DEF user_start_idx, Top
<1>7. QED
  BY <1>1, <1>2, <1>3, <1>4, <1>5, <1>6 DEF Page, Top, user_start_idx

\* What an order and a page of the machine are.
LEMMA OrderIs == \A o \in Order : o \in Nat /\ o <= MAX_ORDER /\ Size(o) \in Nat \ {0}
BY Doubling, BuddyAssumption DEF Order

\* The bits that stand for a pool's blocks are within its bitmap, though they count from
\* the first page of the machine.
LEMMA BitInside ==
  ASSUME NEW pool \in Pool, NEW o \in Order, NEW p \in Page, Within(p, o, pool)
  PROVE  Bit(p, o) < BitmapLen(pool, o)
<1> DEFINE nr == IF pool = "kernel" THEN kernel_nr ELSE NrMax - kernel_nr
           s == Size(o)
           t == Size(MAX_ORDER - o)
<1>1. o \in Nat /\ MAX_ORDER - o \in Order /\ s \in Nat \ {0} /\ t \in Nat \ {0} /\ Size(o + 1) = 2 * s
  <2>1. o \in Nat /\ MAX_ORDER - o \in Order
    BY Constants, OrderIs DEF Order
  <2>2. QED
    BY <2>1, Doubling
<1>2. Size(MAX_ORDER) = s * t
  <2> DEFINE Bad == { n \in 0 .. MAX_ORDER - o : Size(o + n) # s * Size(n) }
  <2>1. Bad = {}
    <3> SUFFICES ASSUME Bad # {} PROVE FALSE
      OBVIOUS
    <3>1. PICK n \in Bad : \A i \in Bad : n <= i
      <4>1. Bad \in SUBSET Nat
        BY <1>1, Constants
      <4> HIDE DEF Bad
      <4>2. QED
        BY <4>1, Least
    <3>2. n \in 0 .. MAX_ORDER - o /\ Size(o + n) # s * Size(n)
      OBVIOUS
    <3>3. n # 0
      BY <1>1, <3>2, Doubling
    <3>4. n - 1 \in 0 .. MAX_ORDER - o /\ n \in Nat /\ (n - 1) + 1 = n /\ (o + (n - 1)) + 1 = o + n
          /\ n - 1 \in Order /\ o + (n - 1) \in Order
      BY <1>1, <3>2, <3>3, Constants DEF Order
    <3>5. Size(o + (n - 1)) = s * Size(n - 1)
      <4>1. n - 1 \notin Bad
        <5> HIDE DEF Bad
        <5>1. QED
          BY <3>1, <3>4
      <4>2. QED
        BY <3>4, <4>1
    <3>6. Size(n) = 2 * Size(n - 1) /\ Size(o + n) = 2 * Size(o + (n - 1)) /\ Size(n - 1) \in Nat
      <4>1. Size((n - 1) + 1) = 2 * Size(n - 1) /\ Size((o + (n - 1)) + 1) = 2 * Size(o + (n - 1))
            /\ Size(n - 1) \in Nat
        BY <3>4, Doubling
      <4>2. QED
        BY <3>4, <4>1
    <3>7. 2 * (s * Size(n - 1)) = s * (2 * Size(n - 1))
      BY <1>1, <3>6
    <3>8. QED
      BY <3>2, <3>5, <3>6, <3>7
  <2>2. MAX_ORDER - o \in 0 .. MAX_ORDER - o /\ o + (MAX_ORDER - o) = MAX_ORDER
    BY <1>1, Constants, OrderIs
  <2>3. QED
    BY <2>1, <2>2
<1> HIDE DEF s, t
<1>3. nr \in Nat /\ (NrMax <= 2 * nr \/ pool = "kernel")
  BY Constants
<1>4. nr \in Nat /\ p \in Nat /\ p < 2 * (nr * (s * t))
  <2>1. Size(MAX_ORDER) \in Nat \ {0} /\ s \in Nat \ {0} /\ Size(o) = s
    BY <1>1, Constants DEF s
  <2>2. CASE pool = "kernel"
    <3>1. nr = kernel_nr /\ p + s <= kernel_nr * Size(MAX_ORDER) /\ kernel_nr * Size(MAX_ORDER) \in Nat
      BY <2>1, <2>2, Constants DEF Within
    <3>2. QED
      BY <1>1, <1>2, <3>1, Constants
  <2>3. CASE pool # "kernel"
    <3>1. nr \in Nat /\ p \in Nat /\ p < NrMax * Size(MAX_ORDER)
      BY <2>3, Constants DEF Top
    <3>2. NrMax * (s * t) <= (2 * nr) * (s * t)
      <4>1. NrMax \in Nat /\ 2 * nr \in Nat /\ NrMax <= 2 * nr /\ s * t \in Nat
        BY <1>1, <1>3, <2>3, Constants
      <4> HIDE DEF nr
      <4>2. QED
        BY <4>1, TimesGrows
    <3>3. (2 * nr) * (s * t) = 2 * (nr * (s * t)) /\ nr * (s * t) \in Nat /\ NrMax * (s * t) \in Nat
      BY <1>1, <1>3, Constants
    <3> HIDE DEF nr
    <3>4. p < NrMax * (s * t)
      BY <1>2, <3>1
    <3>5. QED
      BY <3>1, <3>2, <3>3, <3>4
  <2>4. QED
    BY <2>2, <2>3
<1> HIDE DEF nr
<1> DEFINE q == p \div (2 * s)
           L == nr * t
<1>5. q \in Nat /\ q * (2 * s) <= p
  <2> DEFINE d == 2 * s
  <2>1. d \in Nat \ {0}
    BY <1>1
  <2> HIDE DEF d
  <2>2. p \div d \in Nat /\ p % d \in 0 .. d - 1 /\ p = (p \div d) * d + (p % d)
    BY <1>4, <2>1, Division
  <2>3. (p \div d) * d \in Nat
    BY <2>1, <2>2
  <2>4. p \div d \in Nat /\ (p \div d) * d <= p
    BY <1>4, <2>1, <2>2, <2>3
  <2>5. QED
    BY <2>4 DEF d
<1>6. L \in Nat /\ 2 * (nr * (s * t)) = L * (2 * s)
  BY <1>1, <1>4
<1> HIDE DEF q, L
<1>7. q < L
  <2> SUFFICES ASSUME q >= L PROVE FALSE
    BY <1>5, <1>6
  <2>1. L * (2 * s) <= q * (2 * s) /\ L * (2 * s) \in Nat /\ q * (2 * s) \in Nat
    <3>1. 2 * s \in Nat
      BY <1>1
    <3>2. QED
      BY <1>5, <1>6, <3>1, TimesGrows
  <2>2. p < L * (2 * s) /\ q * (2 * s) <= p
    BY <1>4, <1>5, <1>6
  <2>3. QED
    BY <1>4, <2>1, <2>2
<1>8. QED
  BY <1>1, <1>7 DEF q, L, Bit, BitmapLen, nr, t

-----------------------------------------------------------------------------
\* When blocks give way to others that have the same pages once, each page is in one block.
LEMMA Replaced ==
  ASSUME NEW E \in SUBSET (Page \X Order), NEW G \in SUBSET E, NEW H \in SUBSET (Page \X Order),
         Tiles(E),
         \A x \in Page : (\E g \in G : In(x, g[1], g[2])) <=> (\E h \in H : In(x, h[1], h[2])),
         \A x \in Page : \A g, h \in H : In(x, g[1], g[2]) /\ In(x, h[1], h[2]) => g = h
  PROVE  Tiles((E \ G) \cup H)
<1> SUFFICES ASSUME NEW x \in Page
             PROVE  /\ \E b \in (E \ G) \cup H : In(x, b[1], b[2])
                    /\ \A b, c \in (E \ G) \cup H :
                         In(x, b[1], b[2]) /\ In(x, c[1], c[2]) => b = c
  BY DEF Tiles
<1>1. PICK e \in E : In(x, e[1], e[2])
  BY DEF Tiles
<1>2. \A b \in E : In(x, b[1], b[2]) => b = e
  BY <1>1 DEF Tiles
<1>3. CASE e \in G
  BY <1>1, <1>2, <1>3
<1>4. CASE e \notin G
  BY <1>1, <1>2, <1>4
<1>5. QED
  BY <1>3, <1>4

\* Taking a block off a list clears its bit: its buddy is not in the list.
LEMMA ClearBit ==
  ASSUME NEW o \in Order, NEW F \in SUBSET Nat, NEW e \in F,
         \A p \in F : p % Size(o) = 0 /\ BuddyOf(p, o) \notin F
  PROVE  /\ reverse({ Bit(p, o) : p \in F }, Bit(e, o)) = { Bit(p, o) : p \in F \ {e} }
         /\ \A p \in F \ {e} : BuddyOf(p, o) \notin F \ {e}
<1>1. \A p \in F \ {e} : Bit(p, o) # Bit(e, o)
  <2> SUFFICES ASSUME NEW p \in F, p # e, Bit(p, o) = Bit(e, o) PROVE FALSE
    OBVIOUS
  <2>1. p \in Nat /\ e \in Nat /\ p % Size(o) = 0 /\ e % Size(o) = 0
    OBVIOUS
  <2>2. p = BuddyOf(e, o)
    BY <2>1, SameBit
  <2>3. QED
    BY <2>2
<1>2. reverse({ Bit(p, o) : p \in F }, Bit(e, o)) = { Bit(p, o) : p \in F } \ {Bit(e, o)}
  BY DEF reverse
<1>3. QED
  BY <1>1, <1>2

\* Putting a block on a list that does not have its buddy sets its bit.
LEMMA SetBit ==
  ASSUME NEW o \in Order, NEW F \in SUBSET Nat, NEW e \in Nat, e % Size(o) = 0,
         \A p \in F : p % Size(o) = 0 /\ BuddyOf(p, o) \notin F,
         Bit(e, o) \notin { Bit(p, o) : p \in F }
  PROVE  /\ reverse({ Bit(p, o) : p \in F }, Bit(e, o)) = { Bit(p, o) : p \in F \cup {e} }
         /\ \A p \in F \cup {e} : BuddyOf(p, o) \notin F \cup {e}
<1>1. reverse({ Bit(p, o) : p \in F }, Bit(e, o)) = { Bit(p, o) : p \in F \cup {e} }
  BY DEF reverse
<1>2. \A p \in F \cup {e} : p \in Nat /\ Bit(BuddyOf(p, o), o) = Bit(p, o) /\ BuddyOf(p, o) # p
  <2> SUFFICES ASSUME NEW p \in F \cup {e}
               PROVE  p \in Nat /\ Bit(BuddyOf(p, o), o) = Bit(p, o) /\ BuddyOf(p, o) # p
    OBVIOUS
  <2>1. p \in Nat /\ p % Size(o) = 0
    OBVIOUS
  <2>2. QED
    BY <2>1, Geometry, BuddyBack
<1>3. \A p \in F : BuddyOf(p, o) # e /\ BuddyOf(e, o) # p
  BY <1>2
<1>4. QED
  BY <1>1, <1>2, <1>3

\* The upper half of a block of the next order is the buddy of the lower one.
LEMMA UpperHalf ==
  ASSUME NEW o \in Order, NEW p \in Nat, p % Size(o + 1) = 0
  PROVE  /\ p % Size(o) = 0 /\ p + Size(o) \in Nat /\ (p + Size(o)) % Size(o) = 0
         /\ BuddyOf(p, o) = p + Size(o) /\ Bit(p + Size(o), o) = Bit(p, o)
<1>1. Size(o) \in Nat \ {0} /\ Aligned(p, o + 1) = p
  BY Doubling DEF Aligned
<1>2. BuddyOf(p, o) = p + Size(o) /\ Aligned(p, o) = p
  <2>1. Aligned(p, o) <= p
    BY Geometry DEF In
  <2>2. \/ Aligned(p, o) = p /\ BuddyOf(p, o) = p + Size(o)
        \/ Aligned(p, o) = p + Size(o)
    BY <1>1, Geometry
  <2>3. QED
    BY <1>1, <2>1, <2>2
<1>3. QED
  BY <1>1, <1>2, Geometry

-----------------------------------------------------------------------------
\* What the lists and the orders are, when the types are right.
LEMMA Typed ==
  ASSUME TypeOK
  PROVE  /\ \A pool \in Pool, o \in Order :
              /\ pg_list[pool][o] \in Seq(Page) /\ Free(pool, o) \subseteq Page
              /\ nr_free[pool][o] \in Nat /\ bmap[pool][o] \in SUBSET Nat
         /\ \A p \in Page : count[p] \in Nat /\ private[p] \in Order
         /\ Taken \subseteq Page
<1>1. ASSUME NEW pool \in Pool, NEW o \in Order
      PROVE  /\ pg_list[pool][o] \in Seq(Page) /\ Free(pool, o) \subseteq Page
             /\ nr_free[pool][o] \in Nat /\ bmap[pool][o] \in SUBSET Nat
  <2>1. pg_list[pool][o] \in Seq(Page) /\ nr_free[pool][o] \in Nat /\ bmap[pool][o] \in SUBSET Nat
    BY DEF TypeOK
  <2>2. Free(pool, o) \subseteq Page
    BY <2>1, RangeOfSeq DEF Free
  <2>3. QED
    BY <2>1, <2>2
<1>2. \A p \in Page : count[p] \in Nat /\ private[p] \in Order
  <2>1. \A p \in Page : count[p] \in 0 .. MaxRefs /\ private[p] \in Order
    BY DEF TypeOK
  <2>2. QED
    BY <2>1, BuddyAssumption
<1>3. Taken \subseteq Page
  BY DEF TypeOK, Taken
<1>4. QED
  BY <1>1, <1>2, <1>3

\* The blocks as pairs.
LEMMA Pairs ==
  ASSUME TypeOK
  PROVE  \A p, o : << p, o >> \in Existing <=> p \in Page /\ o \in Order /\ Exists(p, o)
BY DEF Existing

\* A block's pages are pages of its pool.
LEMMA Inside ==
  ASSUME NEW p \in Nat, NEW o \in Order, NEW pool \in Pool, Within(p, o, pool)
  PROVE  /\ p \in Page /\ PoolOf(p) = pool
         /\ \A x \in Nat : In(x, p, o) => x \in Page /\ PoolOf(x) = pool
<1>1. Size(o) \in Nat \ {0}
  BY OrderIs
<1>2. \A x \in Nat : In(x, p, o) => x \in Page /\ PoolOf(x) = pool
  <2>1. CASE pool = "kernel"
    BY <1>1, <2>1, Constants DEF Within, In, PoolOf
  <2>2. CASE pool = "user"
    BY <1>1, <2>2, Constants DEF Within, In, PoolOf
  <2>3. QED
    BY <2>1, <2>2 DEF Pool
<1>3. In(p, p, o)
  BY <1>1 DEF In
<1>4. QED
  BY <1>2, <1>3

\* The blocks that have a page are one block, in one place.
LEMMA OneBlock ==
  ASSUME IInv
  PROVE  /\ \A x \in Page : \A p, q \in Page : \A o, r \in Order :
              Exists(p, o) /\ Exists(q, r) /\ In(x, p, o) /\ In(x, q, r) => p = q /\ o = r
         /\ \A pool, other \in Pool : \A o, r \in Order : \A p :
              p \in Free(pool, o) /\ p \in Free(other, r) => pool = other /\ o = r
<1>1. ASSUME NEW x \in Page, NEW p \in Page, NEW q \in Page, NEW o \in Order, NEW r \in Order,
             Exists(p, o), Exists(q, r), In(x, p, o), In(x, q, r)
      PROVE  p = q /\ o = r
  <2>1. << p, o >> \in Existing /\ << q, r >> \in Existing
    BY <1>1, Pairs DEF IInv
  <2>2. << p, o >> = << q, r >>
    <3>1. \A b, c \in Existing : In(x, b[1], b[2]) /\ In(x, c[1], c[2]) => b = c
      BY <1>1 DEF IInv, Tiled, Tiles
    <3>2. QED
      BY <1>1, <2>1, <3>1
  <2>3. QED
    BY <2>2
<1>2. ASSUME NEW pool \in Pool, NEW other \in Pool, NEW o \in Order, NEW r \in Order, NEW p,
             p \in Free(pool, o), p \in Free(other, r)
      PROVE  pool = other /\ o = r
  <2>1. p \in Page /\ p \in Nat /\ Exists(p, o) /\ Exists(p, r)
    BY <1>2, Typed, Constants DEF IInv, Exists
  <2>2. In(p, p, o) /\ In(p, p, r)
    BY <2>1, OrderIs DEF In
  <2>3. o = r
    BY <1>1, <2>1, <2>2
  <2>4. Within(p, o, pool) /\ Within(p, r, other)
    BY <1>2 DEF IInv, Placed
  <2>5. PoolOf(p) = pool /\ PoolOf(p) = other
    BY <2>1, <2>4, Inside
  <2>6. QED
    BY <2>3, <2>5
<1>3. QED
  BY <1>1, <1>2

-----------------------------------------------------------------------------
\* A table by pool and order, entry by entry.
LEMMA Table ==
  ASSUME NEW f, NEW S, f = [pl \in Pool |-> f[pl]],
         \A pl \in Pool : f[pl] = [r \in Order |-> f[pl][r]],
         \A pl \in Pool, r \in Order : f[pl][r] \in S
  PROVE  f \in [Pool -> [Order -> S]]
<1>1. ASSUME NEW pl \in Pool PROVE f[pl] \in [Order -> S]
  <2>1. [r \in Order |-> f[pl][r]] \in [Order -> S]
    OBVIOUS
  <2>2. QED
    BY <2>1
<1>2. QED
  BY <1>1

\* What alloc_pages does to the lists: the block of order o at idx is taken off its list, and
\* each order it splits at, whose list is empty, gets its upper half.
LEMMA AllocLists ==
  ASSUME IInv, NEW pool \in Pool, NEW order \in Order, alloc_pages(pool, order)
  PROVE  \E o \in order .. MAX_ORDER : \E idx \in Free(pool, o) :
           /\ \A r \in order .. o - 1 : Free(pool, r) = {}
           /\ \A pl \in Pool, r \in Order :
                /\ pg_list'[pl][r] \in Seq(Page) /\ IsInjective(pg_list'[pl][r])
                /\ nr_free'[pl][r] = Len(pg_list'[pl][r])
                /\ Free(pl, r)' = IF pl # pool \/ r \notin order .. o THEN Free(pl, r)
                                  ELSE IF r = o THEN Free(pl, r) \ {idx} ELSE {idx + Size(r)}
                /\ bmap'[pl][r] = IF pl = pool /\ r \in order .. o
                                  THEN reverse(bmap[pl][r], Bit(idx, r)) ELSE bmap[pl][r]
           /\ pg_list' \in [Pool -> [Order -> Seq(Page)]] /\ nr_free' \in [Pool -> [Order -> Nat]]
           /\ bmap' \in [Pool -> [Order -> SUBSET Nat]]
           /\ count' = [count EXCEPT ![idx] = 1] /\ private' = [private EXCEPT ![idx] = order]
           /\ freeing' = freeing
<1> DEFINE Tl(o, l, n, b, idx) ==
             /\ \A p \in order .. o - 1 : nr_free[pool][p] = 0
             /\ l = [pg_list EXCEPT ![pool] = [p \in Order |->
                  IF p = o THEN Tail(@[p])
                  ELSE IF p \in order .. o - 1 THEN Append(@[p], idx + Size(p)) ELSE @[p]]]
             /\ n = [nr_free EXCEPT ![pool] = [p \in Order |->
                  IF p = o THEN @[p] - 1 ELSE IF p \in order .. o - 1 THEN @[p] + 1 ELSE @[p]]]
             /\ b = [bmap EXCEPT ![pool] = [p \in Order |->
                  IF p \in order .. o THEN reverse(@[p], Bit(idx, p)) ELSE @[p]]]
<1>1. PICK o \in order .. MAX_ORDER :
        /\ nr_free[pool][o] > 0
        /\ Tl(o, pg_list', nr_free', bmap', Head(pg_list[pool][o]))
        /\ count' = [count EXCEPT ![Head(pg_list[pool][o])] = 1]
        /\ private' = [private EXCEPT ![Head(pg_list[pool][o])] = order]
        /\ freeing' = freeing
  BY DEF alloc_pages
<1> DEFINE idx == Head(pg_list[pool][o])
<1>2. /\ MAX_ORDER \in Nat /\ order \in Nat /\ o \in Nat /\ o \in Order
      /\ \A r \in order .. o : r \in Order
  BY Constants, OrderIs DEF Order
<1>3. \A r \in order .. o - 1 : r \in Order /\ r \in order .. o /\ r # o
  BY <1>2
<1>4. \A r \in order .. o : r = o \/ r \in order .. o - 1
  BY <1>2
<1>5. \A pl \in Pool, r \in Order :
        /\ pg_list[pl][r] \in Seq(Page) /\ IsInjective(pg_list[pl][r])
        /\ nr_free[pl][r] = Len(pg_list[pl][r]) /\ nr_free[pl][r] \in Nat
        /\ bmap[pl][r] \in SUBSET Nat
  BY Typed DEF IInv, Listed
<1>6. \A r \in order .. o - 1 : pg_list[pool][r] = << >> /\ Free(pool, r) = {}
  <2> SUFFICES ASSUME NEW r \in order .. o - 1
               PROVE  pg_list[pool][r] = << >> /\ Free(pool, r) = {}
    OBVIOUS
  <2>1. pg_list[pool][r] \in Seq(Page) /\ Len(pg_list[pool][r]) = 0
    BY <1>1, <1>3, <1>5
  <2>2. pg_list[pool][r] = << >>
    BY <2>1, EmptySeq
  <2>3. QED
    BY <2>2 DEF Free, Range
<1>7. /\ idx \in Free(pool, o) /\ idx \in Page
      /\ Tail(pg_list[pool][o]) \in Seq(Page)
      /\ Len(Tail(pg_list[pool][o])) = Len(pg_list[pool][o]) - 1
      /\ IsInjective(Tail(pg_list[pool][o]))
      /\ Range(Tail(pg_list[pool][o])) = Free(pool, o) \ {idx}
  <2>1. pg_list[pool][o] \in Seq(Page) /\ pg_list[pool][o] # << >> /\ IsInjective(pg_list[pool][o])
    BY <1>1, <1>2, <1>5, EmptySeq
  <2>2. QED
    BY <2>1, Popped DEF Free
<1>8. Within(idx, o, pool) /\ idx \in Nat
  BY <1>2, <1>7, Constants DEF IInv, Placed
<1> HIDE DEF idx
<1>9. ASSUME NEW r \in order .. o - 1
      PROVE  /\ idx + Size(r) \in Page
             /\ Append(pg_list[pool][r], idx + Size(r)) \in Seq(Page)
             /\ Len(Append(pg_list[pool][r], idx + Size(r))) = Len(pg_list[pool][r]) + 1
             /\ IsInjective(Append(pg_list[pool][r], idx + Size(r)))
             /\ Range(Append(pg_list[pool][r], idx + Size(r))) = {idx + Size(r)}
  <2>1. idx + Size(r) \in Page
    <3>1. Size(r + 1) = 2 * Size(r) /\ Size(r) \in Nat \ {0} /\ Size(o) \in Nat
      BY <1>2, <1>3, Doubling
    <3>2. Size(r + 1) <= Size(o)
      <4>1. r + 1 \in 0 .. o /\ o \in 0 .. MAX_ORDER + 1
        BY <1>2, <1>3
      <4>2. QED
        BY <4>1, SizeGrows
    <3>3. In(idx + Size(r), idx, o)
      BY <1>8, <3>1, <3>2 DEF In
    <3>4. QED
      BY <1>2, <1>8, <3>1, <3>3, Inside
  <2>2. IsInjective(pg_list[pool][r]) /\ pg_list[pool][r] \in Seq(Page) /\ Range(pg_list[pool][r]) = {}
    BY <1>3, <1>5, <1>6 DEF Free
  <2>3. QED
    BY <2>1, <2>2, PushedBack
<1>10. /\ pg_list \in [Pool -> [Order -> Seq(Page)]] /\ nr_free \in [Pool -> [Order -> Nat]]
       /\ bmap \in [Pool -> [Order -> SUBSET Nat]]
  BY DEF IInv, TypeOK
<1>11. ASSUME NEW pl \in Pool, NEW r \in Order
       PROVE  /\ pg_list'[pl][r] \in Seq(Page) /\ IsInjective(pg_list'[pl][r])
              /\ nr_free'[pl][r] \in Nat /\ nr_free'[pl][r] = Len(pg_list'[pl][r])
              /\ Range(pg_list'[pl][r]) = IF pl # pool \/ r \notin order .. o THEN Free(pl, r)
                                ELSE IF r = o THEN Free(pl, r) \ {idx} ELSE {idx + Size(r)}
              /\ bmap'[pl][r] = IF pl = pool /\ r \in order .. o
                                THEN reverse(bmap[pl][r], Bit(idx, r)) ELSE bmap[pl][r]
              /\ bmap'[pl][r] \in SUBSET Nat
  <2>1. /\ pg_list'[pl][r] = IF pl # pool \/ r \notin order .. o THEN pg_list[pl][r]
                             ELSE IF r = o THEN Tail(pg_list[pl][r])
                             ELSE Append(pg_list[pl][r], idx + Size(r))
        /\ nr_free'[pl][r] = IF pl # pool \/ r \notin order .. o THEN nr_free[pl][r]
                             ELSE IF r = o THEN nr_free[pl][r] - 1 ELSE nr_free[pl][r] + 1
        /\ bmap'[pl][r] = IF pl = pool /\ r \in order .. o
                          THEN reverse(bmap[pl][r], Bit(idx, r)) ELSE bmap[pl][r]
    <3>1. Tl(o, pg_list', nr_free', bmap', idx)
      BY <1>1 DEF idx
    <3>2. o \in order .. o /\ \A n \in order .. o - 1 : n \in order .. o
      BY <1>1, <1>2, <1>3
    <3>3. QED
      BY <1>3, <1>4, <1>10, <3>1, <3>2
  <2>2. bmap'[pl][r] \in SUBSET Nat
    <3>1. Bit(idx, r) \in Nat
      BY <1>8, Geometry
    <3>2. QED
      BY <1>5, <2>1, <3>1 DEF reverse
  <2>3. CASE pl # pool \/ r \notin order .. o
    BY <1>5, <2>1, <2>2, <2>3 DEF Free
  <2>4. CASE pl = pool /\ r = o
    <3>1. r \in order .. o
      BY <1>1, <1>2, <2>4
    <3>2. Len(pg_list[pl][r]) - 1 \in Nat
      BY <1>1, <1>5, <2>4
    <3>3. QED
      BY <1>5, <1>7, <2>1, <2>2, <2>4, <3>1, <3>2
  <2>5. CASE pl = pool /\ r \in order .. o - 1
    <3>1. r \in order .. o /\ r # o /\ r \in Order /\ nr_free[pl][r] + 1 \in Nat
      BY <1>3, <1>5, <2>5
    <3>2. pg_list'[pl][r] = Append(pg_list[pool][r], idx + Size(r)) /\ nr_free'[pl][r] = nr_free[pl][r] + 1
      BY <2>1, <2>5, <3>1
    <3>3. nr_free[pl][r] = Len(pg_list[pool][r])
      BY <1>5, <2>5
    <3>4. QED
      BY <1>9, <2>1, <2>2, <2>5, <3>1, <3>2, <3>3
  <2>6. QED
    BY <1>4, <2>3, <2>4, <2>5
<1>12. /\ pg_list' \in [Pool -> [Order -> Seq(Page)]] /\ nr_free' \in [Pool -> [Order -> Nat]]
       /\ bmap' \in [Pool -> [Order -> SUBSET Nat]]
  <2>1. Tl(o, pg_list', nr_free', bmap', idx)
    BY <1>1 DEF idx
  <2>2. /\ DOMAIN pg_list' = Pool /\ pg_list' = [pl \in Pool |-> pg_list'[pl]]
        /\ \A pl \in Pool : pg_list'[pl] = [r \in Order |-> pg_list'[pl][r]]
    BY <1>10, <2>1
  <2>3. /\ DOMAIN nr_free' = Pool /\ nr_free' = [pl \in Pool |-> nr_free'[pl]]
        /\ \A pl \in Pool : nr_free'[pl] = [r \in Order |-> nr_free'[pl][r]]
    BY <1>10, <2>1
  <2>4. /\ DOMAIN bmap' = Pool /\ bmap' = [pl \in Pool |-> bmap'[pl]]
        /\ \A pl \in Pool : bmap'[pl] = [r \in Order |-> bmap'[pl][r]]
    BY <1>10, <2>1
  <2>5. pg_list' \in [Pool -> [Order -> Seq(Page)]]
    <3>1. \A pl \in Pool, r \in Order : pg_list'[pl][r] \in Seq(Page)
      BY <1>11
    <3>2. QED
      BY <2>2, <3>1, Table
  <2>6. nr_free' \in [Pool -> [Order -> Nat]]
    <3>1. \A pl \in Pool, r \in Order : nr_free'[pl][r] \in Nat
      BY <1>11
    <3>2. QED
      BY <2>3, <3>1, Table
  <2>7. bmap' \in [Pool -> [Order -> SUBSET Nat]]
    <3>1. \A pl \in Pool, r \in Order : bmap'[pl][r] \in SUBSET Nat
      BY <1>11
    <3>2. QED
      BY <2>4, <3>1, Table
  <2>8. QED
    BY <2>5, <2>6, <2>7
<1>13. \A pl \in Pool, r \in Order : Free(pl, r)' = Range(pg_list'[pl][r])
  BY DEF Free
<1>14. /\ count' = [count EXCEPT ![idx] = 1] /\ private' = [private EXCEPT ![idx] = order]
       /\ freeing' = freeing
  BY <1>1 DEF idx
<1>15. \A r \in order .. o - 1 : Free(pool, r) = {}
  BY <1>6
<1>16. idx \in Free(pool, o)
  BY <1>7
<1>17. \A pl \in Pool, r \in Order :
         /\ pg_list'[pl][r] \in Seq(Page) /\ IsInjective(pg_list'[pl][r])
         /\ nr_free'[pl][r] = Len(pg_list'[pl][r])
         /\ Free(pl, r)' = IF pl # pool \/ r \notin order .. o THEN Free(pl, r)
                           ELSE IF r = o THEN Free(pl, r) \ {idx} ELSE {idx + Size(r)}
         /\ bmap'[pl][r] = IF pl = pool /\ r \in order .. o
                           THEN reverse(bmap[pl][r], Bit(idx, r)) ELSE bmap[pl][r]
  <2> SUFFICES ASSUME NEW pl \in Pool, NEW r \in Order
               PROVE  /\ pg_list'[pl][r] \in Seq(Page) /\ IsInjective(pg_list'[pl][r])
                      /\ nr_free'[pl][r] = Len(pg_list'[pl][r])
                      /\ Free(pl, r)' = IF pl # pool \/ r \notin order .. o THEN Free(pl, r)
                                        ELSE IF r = o THEN Free(pl, r) \ {idx} ELSE {idx + Size(r)}
                      /\ bmap'[pl][r] = IF pl = pool /\ r \in order .. o
                                        THEN reverse(bmap[pl][r], Bit(idx, r)) ELSE bmap[pl][r]
    OBVIOUS
  <2>1. Free(pl, r)' = Range(pg_list'[pl][r])
    BY <1>13
  <2>2. Range(pg_list'[pl][r]) = IF pl # pool \/ r \notin order .. o THEN Free(pl, r)
                                 ELSE IF r = o THEN Free(pl, r) \ {idx} ELSE {idx + Size(r)}
    BY <1>11
  <2>3. /\ pg_list'[pl][r] \in Seq(Page) /\ IsInjective(pg_list'[pl][r])
        /\ nr_free'[pl][r] = Len(pg_list'[pl][r])
    BY <1>11
  <2>4. bmap'[pl][r] = IF pl = pool /\ r \in order .. o
                       THEN reverse(bmap[pl][r], Bit(idx, r)) ELSE bmap[pl][r]
    BY <1>11
  <2>5. QED
    BY <2>1, <2>2, <2>3, <2>4
<1> HIDE DEF Tl
<1>18. QED
  BY <1>12, <1>14, <1>15, <1>16, <1>17

-----------------------------------------------------------------------------
\* alloc_pages splits a free block: each page stays in one block, and the bits tell.
LEMMA AllocKeeps ==
  ASSUME IInv, NEW pool \in Pool, NEW order \in Order, alloc_pages(pool, order)
  PROVE  IInv'
<1>0. PICK o \in order .. MAX_ORDER : \E idx \in Free(pool, o) :
           /\ \A r \in order .. o - 1 : Free(pool, r) = {}
           /\ \A pl \in Pool, r \in Order :
                /\ pg_list'[pl][r] \in Seq(Page) /\ IsInjective(pg_list'[pl][r])
                /\ nr_free'[pl][r] = Len(pg_list'[pl][r])
                /\ Free(pl, r)' = IF pl # pool \/ r \notin order .. o THEN Free(pl, r)
                                  ELSE IF r = o THEN Free(pl, r) \ {idx} ELSE {idx + Size(r)}
                /\ bmap'[pl][r] = IF pl = pool /\ r \in order .. o
                                  THEN reverse(bmap[pl][r], Bit(idx, r)) ELSE bmap[pl][r]
           /\ pg_list' \in [Pool -> [Order -> Seq(Page)]] /\ nr_free' \in [Pool -> [Order -> Nat]]
           /\ bmap' \in [Pool -> [Order -> SUBSET Nat]]
           /\ count' = [count EXCEPT ![idx] = 1] /\ private' = [private EXCEPT ![idx] = order]
           /\ freeing' = freeing
  BY AllocLists
<1>1. PICK idx \in Free(pool, o) :
           /\ \A r \in order .. o - 1 : Free(pool, r) = {}
           /\ \A pl \in Pool, r \in Order :
                /\ pg_list'[pl][r] \in Seq(Page) /\ IsInjective(pg_list'[pl][r])
                /\ nr_free'[pl][r] = Len(pg_list'[pl][r])
                /\ Free(pl, r)' = IF pl # pool \/ r \notin order .. o THEN Free(pl, r)
                                  ELSE IF r = o THEN Free(pl, r) \ {idx} ELSE {idx + Size(r)}
                /\ bmap'[pl][r] = IF pl = pool /\ r \in order .. o
                                  THEN reverse(bmap[pl][r], Bit(idx, r)) ELSE bmap[pl][r]
           /\ pg_list' \in [Pool -> [Order -> Seq(Page)]] /\ nr_free' \in [Pool -> [Order -> Nat]]
           /\ bmap' \in [Pool -> [Order -> SUBSET Nat]]
           /\ count' = [count EXCEPT ![idx] = 1] /\ private' = [private EXCEPT ![idx] = order]
           /\ freeing' = freeing
  BY <1>0
<1>2. /\ MAX_ORDER \in Nat /\ order \in Nat /\ o \in Nat /\ o \in Order /\ order \in 0 .. o
      /\ order \in order .. o /\ o \in order .. o
      /\ \A r \in order .. o : r \in Order /\ (r = o \/ r \in order .. o - 1)
      /\ \A r \in order .. o - 1 : r \in Order /\ r \in order .. o /\ r # o
  BY Constants, OrderIs DEF Order
<1>3. TypeOK /\ Placed
  BY DEF IInv
<1>4. /\ idx \in Page /\ idx \in Nat /\ Within(idx, o, pool) /\ idx % Size(o) = 0
      /\ idx \notin Taken /\ Exists(idx, o) /\ PoolOf(idx) = pool
  <2>1. idx \in Page /\ idx \in Nat
    BY <1>2, <1>3, Typed, Constants
  <2>2. Within(idx, o, pool) /\ idx \notin Taken /\ Exists(idx, o)
    BY <1>2, <1>3 DEF Placed, Exists
  <2>3. QED
    BY <1>2, <1>3, <2>1, <2>2, Inside DEF Placed
<1>5. Within(idx, order, pool) /\ idx % Size(order) = 0
  <2>1. Size(order) <= Size(o) /\ Size(order) \in Nat \ {0} /\ Size(o) \in Nat \ {0}
    BY <1>2, SizeGrows, OrderIs
  <2>2. QED
    BY <1>2, <1>4, <2>1, AlignedDown, Constants DEF Within
<1>6. ASSUME NEW r \in order .. o - 1
      PROVE  /\ idx + Size(r) \in Page /\ (idx + Size(r)) % Size(r) = 0
             /\ Within(idx + Size(r), r, pool) /\ In(idx + Size(r), idx, o)
             /\ idx % Size(r) = 0 /\ BuddyOf(idx, r) = idx + Size(r)
             /\ Bit(idx + Size(r), r) = Bit(idx, r) /\ idx + Size(r) # idx
  <2>1. Size(r + 1) = 2 * Size(r) /\ Size(r) \in Nat \ {0} /\ Size(o) \in Nat
    BY <1>2, Doubling
  <2>2. r \in Order /\ r + 1 \in 0 .. o /\ o \in 0 .. MAX_ORDER + 1
    BY <1>2
  <2>3. Size(r + 1) <= Size(o)
    BY <2>2, SizeGrows
  <2>4. In(idx + Size(r), idx, o) /\ Within(idx + Size(r), r, pool)
    <3>1. In(idx + Size(r), idx, o)
      BY <1>4, <2>1, <2>3 DEF In
    <3>2. user_start_idx \in Nat /\ Top \in Nat
      BY Constants
    <3>3. Within(idx + Size(r), r, pool)
      BY <1>4, <2>1, <2>3, <3>2 DEF Within
    <3>4. QED
      BY <3>1, <3>3
  <2>5. idx + Size(r) \in Page
    BY <1>2, <1>4, <2>1, <2>4, Inside
  <2>6. idx % Size(r + 1) = 0
    BY <1>2, <1>4, <2>2, AlignedDown
  <2>7. QED
    BY <1>4, <2>1, <2>2, <2>4, <2>5, <2>6, UpperHalf
<1>7. /\ \A p \in Page : count'[p] = IF p = idx THEN 1 ELSE count[p]
      /\ \A p \in Page : private'[p] = IF p = idx THEN order ELSE private[p]
      /\ count' \in [Page -> 0 .. MaxRefs] /\ private' \in [Page -> Order]
  <2>1. count \in [Page -> 0 .. MaxRefs] /\ private \in [Page -> Order] /\ 1 \in 0 .. MaxRefs
    BY <1>3, BuddyAssumption DEF TypeOK
  <2>2. QED
    BY <1>1, <1>4, <2>1
<1>8. Taken' = Taken \cup {idx}
  BY <1>1, <1>4, <1>7 DEF Taken
<1>9. TypeOK'
  BY <1>1, <1>3, <1>7 DEF TypeOK
<1>10. ASSUME NEW p \in Page, NEW r \in Order
       PROVE  Exists(p, r)' <=> \/ Exists(p, r) /\ ~ (p = idx /\ r = o)
                                \/ p = idx /\ r = order
                                \/ r \in order .. o - 1 /\ p = idx + Size(r)
  <2>1. Exists(p, r)' <=> (\E pl \in Pool : p \in Free(pl, r)') \/ (p \in Taken' /\ private'[p] = r)
    BY DEF Exists
  <2>2. (p \in Taken' /\ private'[p] = r) <=>
          (p \in Taken /\ private[p] = r) \/ (p = idx /\ r = order)
    BY <1>4, <1>7, <1>8
  <2>3. p = idx => ~ (p \in Taken /\ private[p] = r)
    BY <1>4
  <2>4. (\E pl \in Pool : p \in Free(pl, r)') <=>
           \/ (\E pl \in Pool : p \in Free(pl, r)) /\ ~ (p = idx /\ r = o)
           \/ r \in order .. o - 1 /\ p = idx + Size(r)
    <3>1. ASSUME NEW pl \in Pool, p \in Free(pl, r)'
          PROVE  \/ p \in Free(pl, r) /\ ~ (p = idx /\ r = o)
                 \/ r \in order .. o - 1 /\ p = idx + Size(r)
      <4>1. p = idx /\ r = o /\ p \in Free(pl, r) => pl = pool
        BY <1>2, OneBlock
      <4>2. QED
        BY <1>1, <1>2, <3>1, <4>1
    <3>2. ASSUME NEW pl \in Pool, p \in Free(pl, r), ~ (p = idx /\ r = o)
          PROVE  p \in Free(pl, r)'
      BY <1>1, <1>2, <3>2
    <3>3. ASSUME r \in order .. o - 1, p = idx + Size(r)
          PROVE  p \in Free(pool, r)'
      BY <1>1, <1>2, <3>3
    <3>4. QED
      BY <3>1, <3>2, <3>3
  <2>5. QED
    BY <2>1, <2>2, <2>3, <2>4 DEF Exists
<1>11. Tiled'
  <2> DEFINE G == {<< idx, o >>}
             H == {<< idx, order >>} \cup { << idx + Size(r), r >> : r \in order .. o - 1 }
  <2>1. H \subseteq Page \X Order /\ G \subseteq Existing /\ Existing \subseteq Page \X Order
    BY <1>2, <1>4, <1>6, Pairs, <1>3 DEF Existing
  <2>2. \A p \in Page, r \in Order : << p, r >> \in H <=>
          \/ p = idx /\ r = order
          \/ r \in order .. o - 1 /\ p = idx + Size(r)
    OBVIOUS
  <2>3. \A p \in Page, r \in Order : << p, r >> \in G <=> p = idx /\ r = o
    OBVIOUS
  <2>4. \A p \in Page, r \in Order : << p, r >> \in Existing' <=> Exists(p, r)'
    BY DEF Existing
  <2>5. \A p \in Page, r \in Order : << p, r >> \in Existing <=> Exists(p, r)
    BY DEF Existing
  <2>6. Existing' \subseteq Page \X Order
    BY DEF Existing
  <2>7. \A x \in Page : (\E g \in G : In(x, g[1], g[2])) <=> (\E h \in H : In(x, h[1], h[2]))
    <3> SUFFICES ASSUME NEW x \in Page
                 PROVE  (\E g \in G : In(x, g[1], g[2])) <=> (\E h \in H : In(x, h[1], h[2]))
      OBVIOUS
    <3>1. x \in Nat
      BY Constants
    <3>2. In(x, idx, o) <=> \/ In(x, idx, order)
                            \/ \E p \in order .. o - 1 : In(x, idx + Size(p), p)
      BY <1>2, <1>4, <3>1, SplitPages
    <3>3. (\E h \in H : In(x, h[1], h[2])) <=> \/ In(x, idx, order)
                            \/ \E p \in order .. o - 1 : In(x, idx + Size(p), p)
      <4>1. ASSUME NEW h \in H, In(x, h[1], h[2])
            PROVE  \/ In(x, idx, order)
                   \/ \E p \in order .. o - 1 : In(x, idx + Size(p), p)
        BY <4>1
      <4>2. ASSUME In(x, idx, order) PROVE \E h \in H : In(x, h[1], h[2])
        <5>1. << idx, order >> \in H
          OBVIOUS
        <5> HIDE DEF H
        <5>2. QED
          BY <4>2, <5>1
      <4>3. ASSUME NEW p \in order .. o - 1, In(x, idx + Size(p), p)
            PROVE  \E h \in H : In(x, h[1], h[2])
        <5>1. << idx + Size(p), p >> \in H
          OBVIOUS
        <5> HIDE DEF H
        <5>2. QED
          BY <4>3, <5>1
      <4>4. QED
        BY <4>1, <4>2, <4>3
    <3>4. (\E g \in G : In(x, g[1], g[2])) <=> In(x, idx, o)
      OBVIOUS
    <3>5. QED
      BY <3>2, <3>3, <3>4
  <2>8. \A x \in Page : \A g, h \in H : In(x, g[1], g[2]) /\ In(x, h[1], h[2]) => g = h
    <3> SUFFICES ASSUME NEW x \in Page, NEW g \in H, NEW h \in H,
                        In(x, g[1], g[2]), In(x, h[1], h[2])
                 PROVE  g = h
      OBVIOUS
    <3>1. x \in Nat
      BY Constants
    <3>2. /\ \A p \in order .. o - 1 : ~ (In(x, idx, order) /\ In(x, idx + Size(p), p))
          /\ \A p, q \in order .. o - 1 : In(x, idx + Size(p), p) /\ In(x, idx + Size(q), q) => p = q
      BY <1>2, <1>4, <3>1, SplitPages
    <3>3. \/ g = << idx, order >>
          \/ \E p \in order .. o - 1 : g = << idx + Size(p), p >>
      OBVIOUS
    <3>4. \/ h = << idx, order >>
          \/ \E p \in order .. o - 1 : h = << idx + Size(p), p >>
      OBVIOUS
    <3> HIDE DEF H
    <3>5. QED
      BY <3>2, <3>3, <3>4
  <2> HIDE DEF G, H
  <2>9. Existing' = (Existing \ G) \cup H
    <3>1. \A p \in Page, r \in Order : << p, r >> \in Existing' <=>
            << p, r >> \in (Existing \ G) \cup H
      BY <1>10, <2>2, <2>3, <2>4, <2>5
    <3>2. QED
      BY <2>1, <2>6, <3>1
  <2>10. Tiles(Existing)
    BY DEF IInv, Tiled
  <2>11. Tiles((Existing \ G) \cup H)
    BY <2>1, <2>7, <2>8, <2>10, Replaced
  <2>12. QED
    BY <2>9, <2>11 DEF Tiled
<1>12. ASSUME NEW p \in Page, NEW r \in Order, Exists(p, r)' PROVE p % Size(r) = 0
  BY <1>3, <1>5, <1>6, <1>10, <1>12 DEF Placed
<1>13. ASSUME NEW pl \in Pool, NEW r \in Order, NEW p \in Free(pl, r)'
       PROVE  Within(p, r, pl) /\ p \notin Taken'
  <2>1. CASE pl # pool \/ r \notin order .. o
    <3>1. p \in Free(pl, r)
      BY <1>1, <2>1
    <3>2. Within(p, r, pl) /\ p \notin Taken
      BY <1>3, <3>1 DEF Placed
    <3>3. p # idx
      BY <1>2, <2>1, <3>1, OneBlock
    <3>4. QED
      BY <1>8, <3>2, <3>3
  <2>2. CASE pl = pool /\ r = o
    <3>1. p \in Free(pl, r) /\ p # idx
      BY <1>1, <1>2, <2>2
    <3>2. QED
      BY <1>3, <1>8, <3>1 DEF Placed
  <2>3. CASE pl = pool /\ r \in order .. o - 1
    <3>1. p = idx + Size(r)
      BY <1>1, <1>2, <2>3
    <3>2. p \notin Taken
      <4> SUFFICES ASSUME p \in Taken PROVE FALSE
        OBVIOUS
      <4>1. p \in Page /\ private[p] \in Order /\ Exists(p, private[p]) /\ p \in Nat
        BY <1>3, Typed, Constants DEF Exists
      <4>2. In(p, p, private[p])
        BY <4>1, OrderIs DEF In
      <4>3. QED
        BY <1>2, <1>4, <1>6, <2>3, <3>1, <4>1, <4>2, OneBlock
    <3>3. QED
      BY <1>6, <1>8, <2>3, <3>1, <3>2
  <2>4. QED
    BY <1>2, <2>1, <2>2, <2>3
<1>14. Placed'
  <2>1. \A p \in Taken' : Within(p, private'[p], PoolOf(p))
    BY <1>3, <1>4, <1>5, <1>7, <1>8, Typed DEF Placed
  <2>2. \A p \in freeing' : count'[p] = 0
    <3>1. \A p \in freeing : p # idx /\ p \in Page /\ count[p] = 0
      BY <1>3, <1>4 DEF Placed, Taken, TypeOK
    <3>2. QED
      BY <1>1, <1>7, <3>1
  <2>3. QED
    BY <1>12, <1>13, <2>1, <2>2 DEF Placed
<1>15. Listed'
  BY <1>1 DEF Listed
<1>16. BitsTell'
  <2> SUFFICES ASSUME NEW pl \in Pool, NEW r \in 0 .. MAX_ORDER - 1
               PROVE  /\ bmap'[pl][r] = { Bit(p, r) : p \in Free(pl, r)' }
                      /\ \A p \in Free(pl, r)' : BuddyOf(p, r) \notin Free(pl, r)'
    BY DEF BitsTell
  <2>1. r \in Order
    BY Constants DEF Order
  <2>2. /\ bmap[pl][r] = { Bit(p, r) : p \in Free(pl, r) }
        /\ \A p \in Free(pl, r) : BuddyOf(p, r) \notin Free(pl, r)
    BY DEF IInv, BitsTell
  <2>3. CASE pl # pool \/ r \notin order .. o
    BY <1>1, <2>1, <2>2, <2>3
  <2>4. CASE pl = pool /\ r = o
    <3>1. Free(pl, r)' = Free(pl, r) \ {idx} /\ bmap'[pl][r] = reverse(bmap[pl][r], Bit(idx, r))
      BY <1>1, <1>2, <2>1, <2>4
    <3>2. \A p \in Free(pl, r) : p \in Page /\ Exists(p, r)
      BY <1>3, <2>1, Typed DEF Exists
    <3>3. \A p \in Free(pl, r) : p \in Nat /\ p % Size(r) = 0
      BY <1>3, <2>1, <3>2, Constants DEF Placed
    <3>4. idx \in Free(pl, r)
      BY <2>4
    <3> DEFINE F == Free(pl, r)
    <3>5. F \in SUBSET Nat /\ idx \in F /\ (\A p \in F : p % Size(r) = 0 /\ BuddyOf(p, r) \notin F)
      BY <2>2, <3>3, <3>4
    <3> HIDE DEF F
    <3>6. /\ reverse({ Bit(p, r) : p \in F }, Bit(idx, r)) = { Bit(p, r) : p \in F \ {idx} }
          /\ \A p \in F \ {idx} : BuddyOf(p, r) \notin F \ {idx}
      BY <2>1, <3>5, ClearBit
    <3>7. QED
      BY <2>2, <3>1, <3>6 DEF F
  <2>5. CASE pl = pool /\ r \in order .. o - 1
    <3>1. /\ Free(pl, r)' = {idx + Size(r)} /\ bmap'[pl][r] = reverse(bmap[pl][r], Bit(idx, r))
          /\ Free(pl, r) = {}
      BY <1>1, <1>2, <2>1, <2>5
    <3>2. bmap'[pl][r] = {Bit(idx, r)}
      BY <2>2, <3>1 DEF reverse
    <3>3. /\ Bit(idx + Size(r), r) = Bit(idx, r)
          /\ BuddyOf(idx + Size(r), r) # idx + Size(r)
      <4>1. (idx + Size(r)) % Size(r) = 0 /\ idx + Size(r) \in Nat /\ Bit(idx + Size(r), r) = Bit(idx, r)
        BY <1>6, <2>5, Constants
      <4>2. QED
        BY <2>1, <4>1, BuddyBack
    <3>4. QED
      BY <3>1, <3>2, <3>3
  <2>6. QED
    BY <1>2, <2>3, <2>4, <2>5
<1>17. TopBits'
  <2> SUFFICES ASSUME NEW pl \in Pool, NEW b \in bmap'[pl][MAX_ORDER]
               PROVE  b < BitmapLen(pl, MAX_ORDER)
    BY DEF TopBits
  <2>1. b \in bmap[pl][MAX_ORDER] \/ (pl = pool /\ o = MAX_ORDER /\ b = Bit(idx, MAX_ORDER))
    <3>1. MAX_ORDER \in Order /\ (MAX_ORDER \in order .. o => o = MAX_ORDER)
      BY <1>1, <1>2, Constants
    <3>2. bmap'[pl][MAX_ORDER] = IF pl = pool /\ MAX_ORDER \in order .. o
            THEN reverse(bmap[pl][MAX_ORDER], Bit(idx, MAX_ORDER)) ELSE bmap[pl][MAX_ORDER]
      BY <1>1, <3>1
    <3>3. QED
      BY <3>1, <3>2 DEF reverse
  <2>2. QED
    BY <1>4, <2>1, BitInside, Constants DEF IInv, TopBits
<1>18. QED
  BY <1>9, <1>11, <1>14, <1>15, <1>16, <1>17 DEF IInv

-----------------------------------------------------------------------------
\* The order at which a merge stops is there: the bits are looked at from the order of the
\* block upwards, and MAX_ORDER stops it in any case.
LEMMA Stops ==
  ASSUME TypeOK, NEW idx \in Page
  PROVE  /\ PoolOf(idx) \in Pool
         /\ MergedOrder(idx) \in private[idx] .. MAX_ORDER
         /\ MergedOrder(idx) = MAX_ORDER
              \/ Bit(idx, MergedOrder(idx)) \notin bmap[PoolOf(idx)][MergedOrder(idx)]
         /\ \A j \in private[idx] .. MergedOrder(idx) - 1 : Bit(idx, j) \in bmap[PoolOf(idx)][j]
<1> DEFINE k == private[idx]
           bits == bmap[PoolOf(idx)]
           S == { n \in k .. MAX_ORDER : n = MAX_ORDER \/ Bit(idx, n) \notin bits[n] }
           Stop(n) == /\ n = MAX_ORDER \/ Bit(idx, n) \notin bits[n]
                      /\ \A j \in k .. n - 1 : Bit(idx, j) \in bits[j]
<1>1. k \in Nat /\ k <= MAX_ORDER /\ MAX_ORDER \in Nat
  BY Typed, OrderIs, Constants
<1> HIDE DEF k, bits
<1>2. S \in SUBSET Nat /\ MAX_ORDER \in S
  BY <1>1
<1>3. PICK n \in S : \A i \in S : n <= i
  <2> HIDE DEF S
  <2>1. QED
    BY <1>2, Least
<1>4. n \in k .. MAX_ORDER /\ (n = MAX_ORDER \/ Bit(idx, n) \notin bits[n])
  OBVIOUS
<1>5. ASSUME NEW j \in k .. n - 1 PROVE Bit(idx, j) \in bits[j]
  <2>1. j \in k .. MAX_ORDER /\ j < n /\ j # MAX_ORDER
    BY <1>1, <1>4
  <2>2. j \notin S
    <3> HIDE DEF S
    <3>1. QED
      BY <1>1, <1>3, <1>4, <2>1
  <2>3. QED
    BY <2>1, <2>2
<1>6. Stop(n)
  BY <1>4, <1>5
<1>7. MergedOrder(idx) = CHOOSE i \in k .. MAX_ORDER : Stop(i)
  BY DEF MergedOrder, k, bits
<1>8. MergedOrder(idx) \in k .. MAX_ORDER /\ Stop(MergedOrder(idx))
  <2> HIDE DEF Stop
  <2>1. QED
    BY <1>4, <1>6, <1>7
<1>9. PoolOf(idx) \in Pool
  BY DEF PoolOf, Pool
<1>10. QED
  BY <1>8, <1>9 DEF k, bits

\* What the merge does to the lists: the buddies it meets are taken off, and the whole block
\* is put in front of its list.
LEMMA MergeLists ==
  ASSUME IInv, NEW idx \in Page, Merge(idx), NEW pool, pool = PoolOf(idx),
         NEW k, k = private[idx], NEW m, m = MergedOrder(idx),
         Aligned(idx, m) \in Page, Aligned(idx, m) \notin Free(pool, m)
  PROVE  /\ \A pl \in Pool, r \in Order :
              /\ pg_list'[pl][r] \in Seq(Page) /\ IsInjective(pg_list'[pl][r])
              /\ nr_free'[pl][r] = Len(pg_list'[pl][r])
              /\ Free(pl, r)' = IF pl # pool \/ r \notin k .. m THEN Free(pl, r)
                                ELSE IF r = m THEN Free(pl, r) \cup {Aligned(idx, r)}
                                ELSE Free(pl, r) \ {BuddyOf(idx, r)}
              /\ bmap'[pl][r] = IF pl = pool /\ r \in k .. m /\ r < MAX_ORDER
                                THEN reverse(bmap[pl][r], Bit(idx, r)) ELSE bmap[pl][r]
         /\ pg_list' \in [Pool -> [Order -> Seq(Page)]] /\ nr_free' \in [Pool -> [Order -> Nat]]
         /\ bmap' \in [Pool -> [Order -> SUBSET Nat]]
<1> DEFINE Tl(l, n, b) ==
             /\ l = [pg_list EXCEPT ![pool] = [o \in Order |->
                  IF o = m THEN << Aligned(idx, m) >> \o @[o]
                  ELSE IF o \in k .. m - 1 THEN list_delete(@[o], BuddyOf(idx, o)) ELSE @[o]]]
             /\ n = [nr_free EXCEPT ![pool] = [o \in Order |->
                  IF o = m THEN @[o] + 1 ELSE IF o \in k .. m - 1 THEN @[o] - 1 ELSE @[o]]]
             /\ b = [bmap EXCEPT ![pool] = [o \in Order |->
                  IF o \in k .. m /\ o < MAX_ORDER THEN reverse(@[o], Bit(idx, o)) ELSE @[o]]]
<1>1. /\ Tl(pg_list', nr_free', bmap')
      /\ \A o \in k .. m - 1 : \E i \in DOMAIN pg_list[pool][o] : pg_list[pool][o][i] = BuddyOf(idx, o)
  BY DEF Merge
<1>2. /\ TypeOK /\ pool \in Pool /\ k \in Order /\ m \in k .. MAX_ORDER
  BY Stops, Typed DEF IInv
<1>3. /\ MAX_ORDER \in Nat /\ k \in Nat /\ m \in Nat /\ m \in Order /\ m \in k .. m
      /\ \A r \in k .. m : r \in Order /\ (r = m \/ r \in k .. m - 1)
      /\ \A r \in k .. m - 1 : r \in Order /\ r \in k .. m /\ r # m
  <2>1. MAX_ORDER \in Nat /\ k \in Nat
    BY <1>2, Constants, OrderIs
  <2>2. QED
    BY <1>2, <2>1 DEF Order
<1>4. \A pl \in Pool, r \in Order :
        /\ pg_list[pl][r] \in Seq(Page) /\ IsInjective(pg_list[pl][r])
        /\ nr_free[pl][r] = Len(pg_list[pl][r]) /\ nr_free[pl][r] \in Nat
        /\ bmap[pl][r] \in SUBSET Nat
  BY Typed DEF IInv, Listed
<1>5. /\ pg_list \in [Pool -> [Order -> Seq(Page)]] /\ nr_free \in [Pool -> [Order -> Nat]]
      /\ bmap \in [Pool -> [Order -> SUBSET Nat]]
  BY DEF IInv, TypeOK
<1>6. ASSUME NEW r \in k .. m - 1
      PROVE  /\ list_delete(pg_list[pool][r], BuddyOf(idx, r)) \in Seq(Page)
             /\ Len(list_delete(pg_list[pool][r], BuddyOf(idx, r))) = Len(pg_list[pool][r]) - 1
             /\ IsInjective(list_delete(pg_list[pool][r], BuddyOf(idx, r)))
             /\ Range(list_delete(pg_list[pool][r], BuddyOf(idx, r))) = Free(pool, r) \ {BuddyOf(idx, r)}
             /\ Len(pg_list[pool][r]) - 1 \in Nat
  <2>1. BuddyOf(idx, r) \in Range(pg_list[pool][r])
    BY <1>1 DEF Range
  <2>2. pg_list[pool][r] \in Seq(Page) /\ IsInjective(pg_list[pool][r])
    BY <1>2, <1>3, <1>4
  <2>3. pg_list[pool][r] # << >>
    BY <1>1, <2>2, LenProperties
  <2>4. Len(pg_list[pool][r]) - 1 \in Nat
    BY <2>2, <2>3, EmptySeq, LenProperties
  <2>5. QED
    BY <2>1, <2>2, <2>4, Deleted DEF Free
<1>7. /\ << Aligned(idx, m) >> \o pg_list[pool][m] \in Seq(Page)
      /\ Len(<< Aligned(idx, m) >> \o pg_list[pool][m]) = Len(pg_list[pool][m]) + 1
      /\ IsInjective(<< Aligned(idx, m) >> \o pg_list[pool][m])
      /\ Range(<< Aligned(idx, m) >> \o pg_list[pool][m]) = Free(pool, m) \cup {Aligned(idx, m)}
  <2>1. pg_list[pool][m] \in Seq(Page) /\ IsInjective(pg_list[pool][m])
    BY <1>2, <1>3, <1>4
  <2>2. QED
    BY <2>1, PushedFront DEF Free
<1>8. ASSUME NEW pl \in Pool, NEW r \in Order
      PROVE  /\ pg_list'[pl][r] \in Seq(Page) /\ IsInjective(pg_list'[pl][r])
             /\ nr_free'[pl][r] \in Nat /\ nr_free'[pl][r] = Len(pg_list'[pl][r])
             /\ Range(pg_list'[pl][r]) = IF pl # pool \/ r \notin k .. m THEN Free(pl, r)
                                ELSE IF r = m THEN Free(pl, r) \cup {Aligned(idx, r)}
                                ELSE Free(pl, r) \ {BuddyOf(idx, r)}
             /\ bmap'[pl][r] = IF pl = pool /\ r \in k .. m /\ r < MAX_ORDER
                                THEN reverse(bmap[pl][r], Bit(idx, r)) ELSE bmap[pl][r]
             /\ bmap'[pl][r] \in SUBSET Nat
  <2>1. /\ pg_list'[pl][r] = IF pl # pool \/ r \notin k .. m THEN pg_list[pl][r]
                             ELSE IF r = m THEN << Aligned(idx, m) >> \o pg_list[pl][r]
                             ELSE list_delete(pg_list[pl][r], BuddyOf(idx, r))
        /\ nr_free'[pl][r] = IF pl # pool \/ r \notin k .. m THEN nr_free[pl][r]
                             ELSE IF r = m THEN nr_free[pl][r] + 1 ELSE nr_free[pl][r] - 1
        /\ bmap'[pl][r] = IF pl = pool /\ r \in k .. m /\ r < MAX_ORDER
                          THEN reverse(bmap[pl][r], Bit(idx, r)) ELSE bmap[pl][r]
    BY <1>1, <1>3, <1>5
  <2>2. bmap'[pl][r] \in SUBSET Nat
    <3>1. Bit(idx, r) \in Nat
      BY Geometry, Constants
    <3>2. QED
      BY <1>4, <2>1, <3>1 DEF reverse
  <2>3. CASE pl # pool \/ r \notin k .. m
    BY <1>4, <2>1, <2>2, <2>3 DEF Free
  <2>4. CASE pl = pool /\ r = m
    <3>1. nr_free[pl][r] + 1 \in Nat
      BY <1>4
    <3>2. pg_list'[pl][r] = << Aligned(idx, m) >> \o pg_list[pool][m] /\ nr_free'[pl][r] = nr_free[pl][r] + 1
      BY <1>3, <2>1, <2>4
    <3>3. QED
      BY <1>3, <1>4, <1>7, <2>1, <2>2, <2>4, <3>1, <3>2
  <2>5. CASE pl = pool /\ r \in k .. m - 1
    <3>1. r \in k .. m /\ r # m
      BY <1>3, <2>5
    <3>2. pg_list'[pl][r] = list_delete(pg_list[pool][r], BuddyOf(idx, r)) /\ nr_free'[pl][r] = nr_free[pl][r] - 1
      BY <2>1, <2>5, <3>1
    <3>3. nr_free[pl][r] = Len(pg_list[pool][r])
      BY <1>4, <2>5
    <3>4. QED
      BY <1>6, <2>1, <2>2, <2>5, <3>1, <3>2, <3>3
  <2>6. QED
    BY <1>3, <2>3, <2>4, <2>5
<1>9. /\ pg_list' \in [Pool -> [Order -> Seq(Page)]] /\ nr_free' \in [Pool -> [Order -> Nat]]
      /\ bmap' \in [Pool -> [Order -> SUBSET Nat]]
  <2>1. /\ pg_list' = [pl \in Pool |-> pg_list'[pl]]
        /\ \A pl \in Pool : pg_list'[pl] = [r \in Order |-> pg_list'[pl][r]]
    BY <1>1, <1>5
  <2>2. /\ nr_free' = [pl \in Pool |-> nr_free'[pl]]
        /\ \A pl \in Pool : nr_free'[pl] = [r \in Order |-> nr_free'[pl][r]]
    BY <1>1, <1>5
  <2>3. /\ bmap' = [pl \in Pool |-> bmap'[pl]]
        /\ \A pl \in Pool : bmap'[pl] = [r \in Order |-> bmap'[pl][r]]
    BY <1>1, <1>5
  <2> HIDE DEF Tl
  <2>4. \A pl \in Pool, r \in Order :
          pg_list'[pl][r] \in Seq(Page) /\ nr_free'[pl][r] \in Nat /\ bmap'[pl][r] \in SUBSET Nat
    BY <1>8
  <2>5. pg_list' \in [Pool -> [Order -> Seq(Page)]]
    BY <2>1, <2>4, Table
  <2>6. nr_free' \in [Pool -> [Order -> Nat]]
    BY <2>2, <2>4, Table
  <2>7. bmap' \in [Pool -> [Order -> SUBSET Nat]]
    BY <2>3, <2>4, Table
  <2>8. QED
    BY <2>5, <2>6, <2>7
<1>10. \A pl \in Pool, r \in Order : Free(pl, r)' = Range(pg_list'[pl][r])
  BY DEF Free
<1>11. ASSUME NEW pl \in Pool, NEW r \in Order
       PROVE  /\ pg_list'[pl][r] \in Seq(Page) /\ IsInjective(pg_list'[pl][r])
              /\ nr_free'[pl][r] = Len(pg_list'[pl][r])
              /\ Free(pl, r)' = IF pl # pool \/ r \notin k .. m THEN Free(pl, r)
                                ELSE IF r = m THEN Free(pl, r) \cup {Aligned(idx, r)}
                                ELSE Free(pl, r) \ {BuddyOf(idx, r)}
              /\ bmap'[pl][r] = IF pl = pool /\ r \in k .. m /\ r < MAX_ORDER
                                THEN reverse(bmap[pl][r], Bit(idx, r)) ELSE bmap[pl][r]
  <2> HIDE DEF Tl
  <2>1. Free(pl, r)' = Range(pg_list'[pl][r])
    BY <1>10
  <2>2. QED
    BY <1>8, <2>1
<1> HIDE DEF Tl
<1>12. QED
  BY <1>9, <1>11

-----------------------------------------------------------------------------
\* A block that waits to be merged: its order is where its pages say, and it is not free.
LEMMA Waiting ==
  ASSUME IInv, NEW idx \in freeing
  PROVE  /\ idx \in Page /\ idx \in Nat /\ PoolOf(idx) \in Pool /\ private[idx] \in Order
         /\ idx \in Taken /\ count[idx] = 0 /\ Exists(idx, private[idx])
         /\ idx % Size(private[idx]) = 0 /\ Within(idx, private[idx], PoolOf(idx))
         /\ In(idx, idx, private[idx])
         /\ \A pl \in Pool, r \in Order : idx \notin Free(pl, r)
<1>1. idx \in Page /\ idx \in Nat /\ PoolOf(idx) \in Pool /\ private[idx] \in Order
  BY Typed, Constants DEF IInv, TypeOK, PoolOf, Pool
<1>2. idx \in Taken /\ Exists(idx, private[idx])
  BY <1>1 DEF Taken, Exists
<1>3. In(idx, idx, private[idx])
  BY <1>1, OrderIs DEF In
<1>4. QED
  BY <1>1, <1>2, <1>3 DEF IInv, Placed

\* The bit that tells a merge to go on is its buddy's: the buddy is free.
LEMMA BuddiesFree ==
  ASSUME IInv, NEW idx \in freeing, NEW j \in private[idx] .. MergedOrder(idx) - 1
  PROVE  BuddyOf(idx, j) \in Free(PoolOf(idx), j)
<1>1. PICK k : k = private[idx]
  OBVIOUS
<1>2. PICK m : m = MergedOrder(idx)
  OBVIOUS
<1>3. PICK pool : pool = PoolOf(idx)
  OBVIOUS
<1>4. /\ TypeOK /\ idx \in Page /\ idx \in Nat /\ pool \in Pool /\ k \in Order
      /\ Exists(idx, k) /\ In(idx, idx, k)
      /\ \A pl \in Pool, r \in Order : idx \notin Free(pl, r)
  BY <1>1, <1>3, Waiting DEF IInv
<1>5. m \in k .. MAX_ORDER /\ Bit(idx, j) \in bmap[pool][j] /\ j \in k .. m - 1
  BY <1>1, <1>2, <1>3, <1>4, Stops
<1>6. j \in 0 .. MAX_ORDER - 1 /\ j \in Order
  <2>1. k \in Nat /\ MAX_ORDER \in Nat
    BY <1>4, Constants DEF Order
  <2>2. m \in Int /\ m <= MAX_ORDER /\ j \in Int /\ k <= j /\ j <= m - 1
    BY <1>5, <2>1
  <2>3. QED
    BY <2>1, <2>2 DEF Order
<1>7. PICK p \in Free(pool, j) : Bit(idx, j) = Bit(p, j)
  BY <1>4, <1>5, <1>6 DEF IInv, BitsTell
<1>8. p \in Page /\ p \in Nat /\ Exists(p, j) /\ p % Size(j) = 0
  BY <1>4, <1>6, Typed, Constants DEF IInv, Placed, Exists
<1> DEFINE a == Aligned(idx, j)
<1>9. /\ a \in Nat /\ a % Size(j) = 0 /\ Bit(a, j) = Bit(idx, j) /\ In(idx, a, j)
  BY <1>4, <1>6, Geometry
<1>10. BuddyOf(a, j) = BuddyOf(idx, j)
  <2>1. Aligned(a, j) = a
    BY <1>6, <1>9, AlignedAlready
  <2>2. QED
    BY <2>1 DEF BuddyOf
<1> HIDE DEF a
<1>11. p # a
  <2> SUFFICES ASSUME p = a PROVE FALSE
    OBVIOUS
  <2>1. In(idx, p, j)
    BY <1>9
  <2>2. p = idx
    BY <1>4, <1>6, <1>8, <2>1, OneBlock
  <2>3. QED
    BY <1>4, <1>6, <1>7, <2>2
<1>12. p = BuddyOf(a, j)
  BY <1>6, <1>7, <1>8, <1>9, <1>11, SameBit
<1>13. QED
  BY <1>3, <1>7, <1>10, <1>12

\* The block that the merge makes is within the pool, and nobody else's.
LEMMA Whole ==
  ASSUME IInv, NEW idx \in freeing,
         NEW pool, pool = PoolOf(idx), NEW k, k = private[idx], NEW m, m = MergedOrder(idx)
  PROVE  LET a == Aligned(idx, m)
         IN  /\ a \in Page /\ a % Size(m) = 0 /\ Within(a, m, pool) /\ Bit(a, m) = Bit(idx, m)
             /\ a \notin Free(pool, m) /\ a \notin Taken \ {idx}
             /\ \A j \in k .. m - 1 : BuddyOf(idx, j) \in Page /\ BuddyOf(idx, j) # idx
             /\ \A x \in Page : In(x, a, m) <=>
                  In(x, idx, k) \/ \E j \in k .. m - 1 : In(x, BuddyOf(idx, j), j)
<1> DEFINE a == Aligned(idx, m)
<1>1. /\ TypeOK /\ idx \in Page /\ idx \in Nat /\ pool \in Pool /\ k \in Order
      /\ Exists(idx, k) /\ In(idx, idx, k) /\ idx % Size(k) = 0 /\ Within(idx, k, pool)
      /\ idx \in Taken
      /\ \A pl \in Pool, r \in Order : idx \notin Free(pl, r)
  BY Waiting DEF IInv
<1>2. m \in k .. MAX_ORDER
  BY <1>1, Stops
<1>3. /\ MAX_ORDER \in Nat /\ k \in Nat /\ m \in Nat /\ m \in Order
      /\ \A r \in k .. m - 1 : r \in Order /\ r # m
  <2>1. MAX_ORDER \in Nat /\ k \in Nat
    BY <1>1, Constants, OrderIs
  <2>2. QED
    BY <1>2, <2>1 DEF Order
<1>4. \A j \in k .. m - 1 :
        /\ BuddyOf(idx, j) \in Free(pool, j) /\ BuddyOf(idx, j) \in Page /\ BuddyOf(idx, j) \in Nat
        /\ Exists(BuddyOf(idx, j), j) /\ BuddyOf(idx, j) # idx
        /\ Within(BuddyOf(idx, j), j, pool) /\ BuddyOf(idx, j) \notin Taken
  <2> SUFFICES ASSUME NEW j \in k .. m - 1
               PROVE  /\ BuddyOf(idx, j) \in Free(pool, j) /\ BuddyOf(idx, j) \in Page
                      /\ BuddyOf(idx, j) \in Nat
                      /\ Exists(BuddyOf(idx, j), j) /\ BuddyOf(idx, j) # idx
                      /\ Within(BuddyOf(idx, j), j, pool) /\ BuddyOf(idx, j) \notin Taken
    OBVIOUS
  <2>1. BuddyOf(idx, j) \in Free(pool, j)
    BY BuddiesFree
  <2>2. BuddyOf(idx, j) \in Page /\ BuddyOf(idx, j) \in Nat
    BY <1>1, <1>3, <2>1, Typed, Constants
  <2>3. Exists(BuddyOf(idx, j), j) /\ BuddyOf(idx, j) # idx
    BY <1>1, <1>3, <2>1 DEF Exists
  <2>4. Within(BuddyOf(idx, j), j, pool) /\ BuddyOf(idx, j) \notin Taken
    BY <1>1, <1>3, <2>1 DEF IInv, Placed
  <2>5. QED
    BY <2>1, <2>2, <2>3, <2>4
<1>5. a \in Nat /\ a % Size(m) = 0 /\ Bit(a, m) = Bit(idx, m) /\ In(idx, a, m)
  BY <1>1, <1>3, Geometry
<1>6. \A x \in Nat : In(x, a, m) <=>
        In(x, idx, k) \/ \E j \in k .. m - 1 : In(x, BuddyOf(idx, j), j)
  BY <1>1, <1>2, MergePages
<1> HIDE DEF a
<1>7. \A x \in Nat : In(x, a, m) => x \in Page /\ PoolOf(x) = pool
  <2> SUFFICES ASSUME NEW x \in Nat, In(x, a, m) PROVE x \in Page /\ PoolOf(x) = pool
    OBVIOUS
  <2>1. CASE In(x, idx, k)
    BY <1>1, <2>1, Inside
  <2>2. CASE \E j \in k .. m - 1 : In(x, BuddyOf(idx, j), j)
    <3>1. PICK j \in k .. m - 1 : In(x, BuddyOf(idx, j), j)
      BY <2>2
    <3>2. BuddyOf(idx, j) \in Nat /\ j \in Order /\ Within(BuddyOf(idx, j), j, pool)
      BY <1>3, <1>4
    <3>3. QED
      BY <1>1, <3>1, <3>2, Inside
  <2>3. QED
    BY <1>6, <2>1, <2>2
<1>8. a \in Page /\ Within(a, m, pool)
  <2>1. Size(m) \in Nat \ {0}
    BY <1>3, OrderIs
  <2>2. In(a, a, m) /\ In(a + Size(m) - 1, a, m) /\ a + Size(m) - 1 \in Nat
    BY <1>5, <2>1 DEF In
  <2>3. a \in Page /\ PoolOf(a) = pool /\ a + Size(m) - 1 \in Page /\ PoolOf(a + Size(m) - 1) = pool
    BY <1>5, <1>7, <2>2
  <2>4. CASE pool = "kernel"
    BY <1>5, <2>1, <2>3, <2>4, Constants DEF Within, PoolOf
  <2>5. CASE pool # "kernel"
    BY <1>5, <2>1, <2>3, <2>5, Constants DEF Within, PoolOf
  <2>6. QED
    BY <2>3, <2>4, <2>5
<1>9. ASSUME NEW r \in Order, Exists(a, r)
      PROVE  (a = idx /\ r = k) \/ \E j \in k .. m - 1 : a = BuddyOf(idx, j) /\ r = j
  <2>1. In(a, a, m) /\ In(a, a, r)
    BY <1>3, <1>5, OrderIs DEF In
  <2>2. CASE In(a, idx, k)
    BY <1>1, <1>8, <1>9, <2>1, <2>2, OneBlock
  <2>3. CASE \E j \in k .. m - 1 : In(a, BuddyOf(idx, j), j)
    <3>1. PICK j \in k .. m - 1 : In(a, BuddyOf(idx, j), j)
      BY <2>3
    <3>2. a = BuddyOf(idx, j) /\ r = j
      BY <1>3, <1>4, <1>8, <1>9, <2>1, <3>1, OneBlock
    <3>3. QED
      BY <3>2
  <2>4. QED
    BY <1>5, <1>6, <2>1, <2>2, <2>3
<1>10. a \notin Free(pool, m)
  <2> SUFFICES ASSUME a \in Free(pool, m) PROVE FALSE
    OBVIOUS
  <2>1. Exists(a, m) /\ a # idx
    BY <1>1, <1>3 DEF Exists
  <2>2. QED
    BY <1>3, <1>9, <2>1
<1>11. a \notin Taken \ {idx}
  <2> SUFFICES ASSUME a \in Taken, a # idx PROVE FALSE
    OBVIOUS
  <2>1. private[a] \in Order /\ Exists(a, private[a])
    BY <1>1, <1>8, Typed DEF Exists
  <2>2. QED
    BY <1>4, <1>9, <2>1
<1>12. \A x \in Page : In(x, a, m) <=>
         In(x, idx, k) \/ \E j \in k .. m - 1 : In(x, BuddyOf(idx, j), j)
  BY <1>6, Constants
<1>13. QED
  BY <1>4, <1>5, <1>8, <1>10, <1>11, <1>12 DEF a

-----------------------------------------------------------------------------
\* A merge joins a block and the free buddies it meets: each page stays in one block, and the
\* bits tell.
LEMMA MergeKeeps ==
  ASSUME IInv, NEW idx \in Page, Merge(idx)
  PROVE  IInv'
<1>1. PICK k : k = private[idx]
  OBVIOUS
<1>2. PICK m : m = MergedOrder(idx)
  OBVIOUS
<1>3. PICK pool : pool = PoolOf(idx)
  OBVIOUS
<1>4. PICK a : a = Aligned(idx, m)
  OBVIOUS
<1>5. idx \in freeing /\ freeing' = freeing \ {idx} /\ count' = count /\ private' = private
  BY DEF Merge
<1>6. /\ TypeOK /\ Placed /\ idx \in Page /\ idx \in Nat /\ pool \in Pool /\ k \in Order
      /\ Exists(idx, k) /\ idx % Size(k) = 0 /\ idx \in Taken /\ count[idx] = 0
      /\ \A pl \in Pool, r \in Order : idx \notin Free(pl, r)
  BY <1>1, <1>3, <1>5, Waiting DEF IInv
<1>7. /\ m \in k .. MAX_ORDER /\ (m = MAX_ORDER \/ Bit(idx, m) \notin bmap[pool][m])
  BY <1>1, <1>2, <1>3, <1>6, Stops
<1>8. /\ MAX_ORDER \in Nat /\ k \in Nat /\ m \in Nat /\ m \in Order /\ m \in k .. m
      /\ \A r \in k .. m : r \in Order /\ (r = m \/ r \in k .. m - 1)
      /\ \A r \in k .. m - 1 : r \in Order /\ r \in k .. m /\ r # m /\ r < MAX_ORDER
      /\ \A r \in Order : r \in Nat /\ r <= MAX_ORDER
  <2>1. MAX_ORDER \in Nat /\ k \in Nat
    BY <1>6, Constants, OrderIs
  <2>2. QED
    BY <1>7, <2>1 DEF Order
<1>9. /\ a \in Page /\ a % Size(m) = 0 /\ Within(a, m, pool) /\ Bit(a, m) = Bit(idx, m)
      /\ a \notin Free(pool, m) /\ a \notin Taken \ {idx}
      /\ \A j \in k .. m - 1 : BuddyOf(idx, j) \in Page /\ BuddyOf(idx, j) # idx
      /\ \A x \in Page : In(x, a, m) <=>
           In(x, idx, k) \/ \E j \in k .. m - 1 : In(x, BuddyOf(idx, j), j)
  BY <1>1, <1>2, <1>3, <1>4, <1>5, Whole
<1>10. \A j \in k .. m - 1 : BuddyOf(idx, j) \in Free(pool, j)
  BY <1>1, <1>2, <1>3, <1>5, BuddiesFree
<1>11. /\ \A pl \in Pool, r \in Order :
            /\ pg_list'[pl][r] \in Seq(Page) /\ IsInjective(pg_list'[pl][r])
            /\ nr_free'[pl][r] = Len(pg_list'[pl][r])
            /\ Free(pl, r)' = IF pl # pool \/ r \notin k .. m THEN Free(pl, r)
                              ELSE IF r = m THEN Free(pl, r) \cup {Aligned(idx, r)}
                              ELSE Free(pl, r) \ {BuddyOf(idx, r)}
            /\ bmap'[pl][r] = IF pl = pool /\ r \in k .. m /\ r < MAX_ORDER
                              THEN reverse(bmap[pl][r], Bit(idx, r)) ELSE bmap[pl][r]
       /\ pg_list' \in [Pool -> [Order -> Seq(Page)]] /\ nr_free' \in [Pool -> [Order -> Nat]]
       /\ bmap' \in [Pool -> [Order -> SUBSET Nat]]
  <2>1. Aligned(idx, m) \in Page /\ Aligned(idx, m) \notin Free(pool, m)
    BY <1>4, <1>9
  <2>2. QED
    BY <1>1, <1>2, <1>3, <2>1, MergeLists
<1>12. Taken' = Taken \ {idx}
  BY <1>5, <1>6 DEF Taken
<1>13. TypeOK'
  <2>1. freeing' \subseteq Page /\ count' \in [Page -> 0 .. MaxRefs] /\ private' \in [Page -> Order]
    BY <1>5, <1>6 DEF TypeOK
  <2>2. QED
    BY <1>11, <2>1 DEF TypeOK
<1>14. ASSUME NEW p \in Page, NEW r \in Order
       PROVE  Exists(p, r)' <=>
                \/ Exists(p, r) /\ ~ (p = idx /\ r = k) /\ ~ (r \in k .. m - 1 /\ p = BuddyOf(idx, r))
                \/ p = a /\ r = m
  <2>1. Exists(p, r)' <=> (\E pl \in Pool : p \in Free(pl, r)') \/ (p \in Taken' /\ private'[p] = r)
    BY DEF Exists
  <2>2. (p \in Taken' /\ private'[p] = r) <=>
          (p \in Taken /\ private[p] = r) /\ ~ (p = idx /\ r = k)
    BY <1>1, <1>5, <1>12
  <2>3. ASSUME r \in k .. m - 1, p = BuddyOf(idx, r)
        PROVE  p \notin Taken
    BY <1>6, <1>8, <1>10, <2>3 DEF Placed
  <2>4. (\E pl \in Pool : p \in Free(pl, r)') <=>
           \/ (\E pl \in Pool : p \in Free(pl, r)) /\ ~ (p = idx /\ r = k)
                /\ ~ (r \in k .. m - 1 /\ p = BuddyOf(idx, r))
           \/ p = a /\ r = m
    <3>1. ASSUME NEW pl \in Pool, p \in Free(pl, r)', ~ (p = a /\ r = m)
          PROVE  p \in Free(pl, r) /\ ~ (p = idx /\ r = k) /\ ~ (r \in k .. m - 1 /\ p = BuddyOf(idx, r))
      <4>1. p \in Free(pl, r)
        BY <1>4, <1>11, <3>1
      <4>2. ASSUME r \in k .. m - 1, p = BuddyOf(idx, r) PROVE FALSE
        <5>1. pl = pool
          BY <1>6, <1>10, <4>1, <4>2, OneBlock
        <5>2. QED
          BY <1>8, <1>11, <3>1, <4>2, <5>1
      <4>3. QED
        BY <1>6, <4>1, <4>2
    <3>2. ASSUME NEW pl \in Pool, p \in Free(pl, r),
                 ~ (r \in k .. m - 1 /\ p = BuddyOf(idx, r))
          PROVE  p \in Free(pl, r)'
      BY <1>8, <1>11, <3>2
    <3>3. ASSUME p = a, r = m
          PROVE  p \in Free(pool, r)'
      BY <1>4, <1>6, <1>8, <1>11, <3>3
    <3>4. QED
      BY <1>6, <3>1, <3>2, <3>3
  <2>5. QED
    BY <2>1, <2>2, <2>3, <2>4 DEF Exists
<1>15. Tiled'
  <2> DEFINE G == {<< idx, k >>} \cup { << BuddyOf(idx, j), j >> : j \in k .. m - 1 }
             H == {<< a, m >>}
  <2>1. \A j \in k .. m - 1 : Exists(BuddyOf(idx, j), j)
    BY <1>6, <1>10 DEF Exists
  <2>2. G \subseteq Existing /\ H \subseteq Page \X Order /\ Existing \subseteq Page \X Order
        /\ Existing' \subseteq Page \X Order
    BY <1>6, <1>8, <1>9, <2>1 DEF Existing
  <2>3. \A p \in Page, r \in Order : << p, r >> \in G <=>
          \/ p = idx /\ r = k
          \/ r \in k .. m - 1 /\ p = BuddyOf(idx, r)
    OBVIOUS
  <2>4. \A p \in Page, r \in Order : << p, r >> \in H <=> p = a /\ r = m
    OBVIOUS
  <2>5. \A p \in Page, r \in Order : << p, r >> \in Existing' <=> Exists(p, r)'
    BY DEF Existing
  <2>6. \A p \in Page, r \in Order : << p, r >> \in Existing <=> Exists(p, r)
    BY DEF Existing
  <2>7. \A x \in Page : (\E g \in G : In(x, g[1], g[2])) <=> (\E h \in H : In(x, h[1], h[2]))
    <3> SUFFICES ASSUME NEW x \in Page
                 PROVE  (\E g \in G : In(x, g[1], g[2])) <=> In(x, a, m)
      OBVIOUS
    <3>1. ASSUME NEW g \in G, In(x, g[1], g[2])
          PROVE  In(x, idx, k) \/ \E j \in k .. m - 1 : In(x, BuddyOf(idx, j), j)
      BY <3>1
    <3>2. ASSUME In(x, idx, k) PROVE \E g \in G : In(x, g[1], g[2])
      <4>1. << idx, k >> \in G
        OBVIOUS
      <4> HIDE DEF G
      <4>2. QED
        BY <3>2, <4>1
    <3>3. ASSUME NEW j \in k .. m - 1, In(x, BuddyOf(idx, j), j)
          PROVE  \E g \in G : In(x, g[1], g[2])
      <4>1. << BuddyOf(idx, j), j >> \in G
        OBVIOUS
      <4> HIDE DEF G
      <4>2. QED
        BY <3>3, <4>1
    <3> HIDE DEF G
    <3>4. QED
      BY <1>9, <3>1, <3>2, <3>3
  <2>8. \A x \in Page : \A g, h \in H : In(x, g[1], g[2]) /\ In(x, h[1], h[2]) => g = h
    OBVIOUS
  <2> HIDE DEF G, H
  <2>9. Existing' = (Existing \ G) \cup H
    <3>1. \A p \in Page, r \in Order : << p, r >> \in Existing' <=>
            << p, r >> \in (Existing \ G) \cup H
      <4> SUFFICES ASSUME NEW p \in Page, NEW r \in Order
                   PROVE  << p, r >> \in Existing' <=> << p, r >> \in (Existing \ G) \cup H
        OBVIOUS
      <4>1. << p, r >> \in Existing' <=>
              \/ Exists(p, r) /\ ~ (p = idx /\ r = k) /\ ~ (r \in k .. m - 1 /\ p = BuddyOf(idx, r))
              \/ p = a /\ r = m
        BY <1>14, <2>5
      <4>2. << p, r >> \in G <=> (p = idx /\ r = k) \/ (r \in k .. m - 1 /\ p = BuddyOf(idx, r))
        BY <2>3
      <4>3. (<< p, r >> \in Existing <=> Exists(p, r)) /\ (<< p, r >> \in H <=> p = a /\ r = m)
        BY <2>4, <2>6
      <4>4. QED
        BY <4>1, <4>2, <4>3
    <3>2. QED
      BY <2>2, <3>1
  <2>10. Tiles(Existing)
    BY DEF IInv, Tiled
  <2>11. Tiles((Existing \ G) \cup H)
    BY <2>2, <2>7, <2>8, <2>10, Replaced
  <2>12. QED
    BY <2>9, <2>11 DEF Tiled
<1>16. ASSUME NEW p \in Page, NEW r \in Order, Exists(p, r)' PROVE p % Size(r) = 0
  BY <1>6, <1>9, <1>14, <1>16 DEF Placed
<1>17. ASSUME NEW pl \in Pool, NEW r \in Order, NEW p \in Free(pl, r)'
       PROVE  Within(p, r, pl) /\ p \notin Taken'
  <2>1. CASE p \in Free(pl, r)
    BY <1>6, <1>12, <2>1 DEF Placed
  <2>2. CASE p \notin Free(pl, r)
    <3>1. pl = pool /\ r = m /\ p = a
      <4>1. PICK now : now = Free(pl, r)'
        OBVIOUS
      <4>2. now = IF pl # pool \/ r \notin k .. m THEN Free(pl, r)
                  ELSE IF r = m THEN Free(pl, r) \cup {Aligned(idx, r)}
                  ELSE Free(pl, r) \ {BuddyOf(idx, r)}
        BY <1>11, <4>1
      <4>3. p \in now
        BY <4>1
      <4>4. QED
        BY <1>4, <2>2, <4>2, <4>3
    <3>2. QED
      BY <1>9, <1>12, <3>1
  <2>3. QED
    BY <2>1, <2>2
<1>18. Placed'
  <2>1. \A p \in Taken' : Within(p, private'[p], PoolOf(p))
    BY <1>5, <1>6, <1>12 DEF Placed
  <2>2. \A p \in freeing' : count'[p] = 0
    BY <1>5, <1>6 DEF Placed
  <2>3. QED
    BY <1>16, <1>17, <2>1, <2>2 DEF Placed
<1>19. Listed'
  BY <1>11 DEF Listed
<1>20. BitsTell'
  <2> SUFFICES ASSUME NEW pl \in Pool, NEW r \in 0 .. MAX_ORDER - 1
               PROVE  /\ bmap'[pl][r] = { Bit(p, r) : p \in Free(pl, r)' }
                      /\ \A p \in Free(pl, r)' : BuddyOf(p, r) \notin Free(pl, r)'
    BY DEF BitsTell
  <2>1. r \in Order /\ r < MAX_ORDER
    BY Constants DEF Order
  <2>2. /\ bmap[pl][r] = { Bit(p, r) : p \in Free(pl, r) }
        /\ \A p \in Free(pl, r) : BuddyOf(p, r) \notin Free(pl, r)
    BY DEF IInv, BitsTell
  <2>3. \A p \in Free(pl, r) : p \in Page /\ Exists(p, r)
    BY <1>6, <2>1, Typed DEF Exists
  <2>4. \A p \in Free(pl, r) : p \in Nat /\ p % Size(r) = 0
    BY <1>6, <2>1, <2>3, Constants DEF Placed
  <2>5. PICK F : F = Free(pl, r)
    OBVIOUS
  <2>6. /\ F \in SUBSET Nat /\ (\A p \in F : p % Size(r) = 0 /\ BuddyOf(p, r) \notin F)
        /\ bmap[pl][r] = { Bit(p, r) : p \in F }
    BY <2>2, <2>4, <2>5
  <2>7. CASE pl # pool \/ r \notin k .. m
    BY <1>11, <2>1, <2>2, <2>7
  <2>8. CASE pl = pool /\ r = m
    <3>1. Free(pl, r)' = F \cup {a} /\ bmap'[pl][r] = reverse(bmap[pl][r], Bit(idx, r))
      BY <1>4, <1>8, <1>11, <2>1, <2>5, <2>8
    <3>2. a \in Nat /\ a % Size(r) = 0 /\ Bit(a, r) = Bit(idx, r)
      BY <1>9, <2>8, Constants
    <3>3. Bit(a, r) \notin { Bit(p, r) : p \in F }
      BY <1>7, <2>1, <2>6, <2>8, <3>2
    <3>4. /\ reverse({ Bit(p, r) : p \in F }, Bit(a, r)) = { Bit(p, r) : p \in F \cup {a} }
          /\ \A p \in F \cup {a} : BuddyOf(p, r) \notin F \cup {a}
      BY <2>1, <2>6, <3>2, <3>3, SetBit
    <3>5. QED
      BY <2>6, <3>1, <3>2, <3>4
  <2>9. CASE pl = pool /\ r \in k .. m - 1
    <3>1. PICK e : e = BuddyOf(idx, r)
      OBVIOUS
    <3>2. Free(pl, r)' = F \ {e} /\ bmap'[pl][r] = reverse(bmap[pl][r], Bit(idx, r))
      BY <1>8, <1>11, <2>1, <2>5, <2>9, <3>1
    <3>3. e \in F
      BY <1>10, <2>5, <2>9, <3>1
    <3>4. Bit(e, r) = Bit(idx, r)
      BY <1>6, <2>1, <3>1, Geometry
    <3>5. /\ reverse({ Bit(p, r) : p \in F }, Bit(e, r)) = { Bit(p, r) : p \in F \ {e} }
          /\ \A p \in F \ {e} : BuddyOf(p, r) \notin F \ {e}
      BY <2>1, <2>6, <3>3, ClearBit
    <3>6. QED
      BY <2>6, <3>2, <3>4, <3>5
  <2>10. QED
    BY <1>8, <2>7, <2>8, <2>9
<1>21. TopBits'
  <2> SUFFICES ASSUME NEW pl \in Pool, NEW b \in bmap'[pl][MAX_ORDER]
               PROVE  b < BitmapLen(pl, MAX_ORDER)
    BY DEF TopBits
  <2>1. MAX_ORDER \in Order /\ ~ (MAX_ORDER < MAX_ORDER)
    BY Constants
  <2>2. bmap'[pl][MAX_ORDER] = bmap[pl][MAX_ORDER]
    BY <1>11, <2>1
  <2>3. QED
    BY <2>2 DEF IInv, TopBits
<1>22. QED
  BY <1>13, <1>15, <1>18, <1>19, <1>20, <1>21 DEF IInv

\* One more owner, or one less, of a block that stays taken.
LEMMA CountKeeps ==
  ASSUME IInv, NEW idx \in Page, share(idx) \/ __free_pages(idx)
  PROVE  IInv'
<1>1. /\ pg_list' = pg_list /\ nr_free' = nr_free /\ bmap' = bmap /\ private' = private
      /\ idx \in Page /\ count[idx] > 0
      /\ \E n \in Nat : /\ count' = [count EXCEPT ![idx] = n] /\ n \in 0 .. MaxRefs
                        /\ freeing' = IF n > 0 THEN freeing ELSE freeing \cup {idx}
  <2>1. count[idx] \in Nat /\ count[idx] \in 0 .. MaxRefs /\ MaxRefs \in Nat
    BY BuddyAssumption DEF IInv, TypeOK
  <2>2. CASE share(idx)
    <3>1. count[idx] > 0 /\ count[idx] < MaxRefs
      BY <2>2 DEF share, Held
    <3>2. count[idx] + 1 \in Nat /\ count[idx] + 1 \in 0 .. MaxRefs /\ count[idx] + 1 > 0
      BY <2>1, <3>1
    <3>3. count' = [count EXCEPT ![idx] = count[idx] + 1] /\ freeing' = freeing
      BY <2>2 DEF share
    <3>4. QED
      BY <2>2, <3>1, <3>2, <3>3 DEF share
  <2>3. CASE __free_pages(idx)
    <3>1. count[idx] > 0
      BY <2>3 DEF __free_pages, Held
    <3>2. count[idx] - 1 \in Nat /\ count[idx] - 1 \in 0 .. MaxRefs /\ (count[idx] - 1 > 0 <=> count[idx] > 1)
      BY <2>1, <3>1
    <3>3. /\ count' = [count EXCEPT ![idx] = count[idx] - 1]
          /\ freeing' = IF count[idx] > 1 THEN freeing ELSE freeing \cup {idx}
      BY <2>3 DEF __free_pages
    <3>4. freeing' = IF count[idx] - 1 > 0 THEN freeing ELSE freeing \cup {idx}
      BY <3>2, <3>3
    <3>5. QED
      BY <2>3, <3>1, <3>2, <3>3, <3>4 DEF __free_pages
  <2>4. QED
    BY <2>2, <2>3
<1>2. PICK n \in Nat : /\ count' = [count EXCEPT ![idx] = n] /\ n \in 0 .. MaxRefs
                       /\ freeing' = IF n > 0 THEN freeing ELSE freeing \cup {idx}
  BY <1>1
<1>3. TypeOK /\ Placed /\ count \in [Page -> 0 .. MaxRefs] /\ freeing \subseteq Page
  BY DEF IInv, TypeOK
<1>4. \A p \in Page : count'[p] = IF p = idx THEN n ELSE count[p]
  BY <1>2, <1>3
<1>5. idx \notin freeing /\ idx \in Taken
  <2>1. \A p \in freeing : count[p] = 0
    BY <1>3 DEF Placed
  <2>2. QED
    BY <1>1, <2>1 DEF Taken
<1>6. Taken' = Taken
  BY <1>1, <1>2, <1>3, <1>4, <1>5 DEF Taken
<1>7. TypeOK'
  BY <1>1, <1>2, <1>3 DEF TypeOK
<1>8. /\ \A pl, r : Free(pl, r)' = Free(pl, r)
      /\ \A p, r : Exists(p, r)' <=> Exists(p, r)
  <2>1. \A pl, r : Free(pl, r)' = Free(pl, r)
    BY <1>1 DEF Free
  <2>2. ASSUME NEW p, NEW r PROVE Exists(p, r)' <=> Exists(p, r)
    <3>1. Exists(p, r)' <=> (\E pool \in Pool : p \in Free(pool, r)') \/ (p \in Taken' /\ private'[p] = r)
      BY DEF Exists
    <3>2. QED
      BY <1>1, <1>6, <2>1, <3>1 DEF Exists
  <2>3. QED
    BY <2>1, <2>2
<1>9. Tiled'
  <2>1. Existing' = Existing
    BY <1>8 DEF Existing
  <2>2. QED
    BY <2>1 DEF IInv, Tiled
<1>10. Placed'
  <2>1. \A p \in Page, o \in Order : Exists(p, o)' => p % Size(o) = 0
    BY <1>3, <1>8 DEF Placed
  <2>2. \A pool \in Pool, o \in Order : \A p \in Free(pool, o)' : Within(p, o, pool) /\ p \notin Taken'
    BY <1>3, <1>6, <1>8 DEF Placed
  <2>3. \A p \in Taken' : Within(p, private'[p], PoolOf(p))
    BY <1>1, <1>3, <1>6 DEF Placed
  <2>4. \A p \in freeing' : count'[p] = 0
    <3>1. \A p \in freeing : count'[p] = 0
      BY <1>3, <1>4, <1>5 DEF Placed
    <3>2. n = 0 => count'[idx] = 0
      BY <1>1, <1>4
    <3>3. QED
      BY <1>2, <3>1, <3>2
  <2>5. QED
    BY <2>1, <2>2, <2>3, <2>4 DEF Placed
<1>11. Listed' /\ BitsTell' /\ TopBits'
  <2>1. Listed'
    BY <1>1 DEF IInv, Listed
  <2>2. BitsTell'
    BY <1>1, <1>8 DEF IInv, BitsTell
  <2>3. TopBits'
    BY <1>1 DEF IInv, TopBits
  <2>4. QED
    BY <2>1, <2>2, <2>3
<1>12. QED
  BY <1>7, <1>9, <1>10, <1>11 DEF IInv

-----------------------------------------------------------------------------
\* The first pages of the blocks from the m-th to the n-th, as a list.
LEMMA BlockList ==
  ASSUME NEW m \in Nat, NEW n \in Nat, m <= n, n <= NrMax
  PROVE  /\ Blocks(m, n) \in Seq(Page) /\ Len(Blocks(m, n)) = n - m
         /\ IsInjective(Blocks(m, n))
         /\ Range(Blocks(m, n)) = { i * Size(MAX_ORDER) : i \in m .. n - 1 }
<1>1. PICK s : s = Size(MAX_ORDER)
  OBVIOUS
<1>2. s \in Nat \ {0} /\ NrMax \in Nat /\ Top = NrMax * s /\ Page = 0 .. Top - 1
  BY <1>1, Constants DEF Top
<1>3. ASSUME NEW i \in m .. n - 1 PROVE i * s \in Page
  <2>1. i \in Nat /\ i + 1 <= NrMax
    BY <1>2
  <2>2. (i + 1) * s <= NrMax * s /\ (i + 1) * s = i * s + s /\ i * s \in Nat /\ NrMax * s \in Nat
    BY <1>2, <2>1, TimesGrows
  <2>3. QED
    BY <1>2, <2>2
<1> DEFINE l == Blocks(m, n)
<1>4. /\ n - m \in Nat /\ DOMAIN l = 1 .. n - m
      /\ \A i \in 1 .. n - m : l[i] = (m + i - 1) * s /\ m + i - 1 \in m .. n - 1
  BY <1>1 DEF Blocks
<1>5. l = [i \in 1 .. n - m |-> l[i]]
  BY DEF Blocks
<1>6. l \in Seq(Page) /\ Len(l) = n - m
  <2>1. l \in [1 .. n - m -> Page]
    BY <1>3, <1>4, <1>5
  <2> HIDE DEF l
  <2>2. QED
    BY <1>4, <2>1
<1> HIDE DEF l
<1>7. ASSUME NEW i \in 1 .. n - m, NEW j \in 1 .. n - m, l[i] = l[j], i < j PROVE FALSE
  <2>1. PICK x \in Nat : x = m + i - 1
    BY <1>4
  <2>2. PICK y \in Nat : y = m + j - 1
    BY <1>4
  <2>3. x + 1 <= y /\ l[i] = x * s /\ l[j] = y * s
    BY <1>4, <1>7, <2>1, <2>2
  <2>4. (x + 1) * s <= y * s /\ (x + 1) * s = x * s + s /\ x * s \in Nat
    BY <1>2, <2>3, TimesGrows
  <2>5. PICK u \in Nat : u = x * s
    BY <2>4
  <2>6. x * s + s <= y * s
    BY <2>4
  <2>7. u + s <= u
    BY <1>7, <2>3, <2>5, <2>6
  <2>8. QED
    BY <1>2, <2>7
<1>8. IsInjective(l)
  <2> SUFFICES ASSUME NEW i \in 1 .. n - m, NEW j \in 1 .. n - m, l[i] = l[j], i # j PROVE FALSE
    BY <1>4 DEF IsInjective
  <2>1. i < j \/ j < i
    OBVIOUS
  <2>2. QED
    BY <1>7, <2>1
<1>9. Range(l) = { i * s : i \in m .. n - 1 }
  <2>1. ASSUME NEW i \in m .. n - 1 PROVE i * s \in Range(l)
    <3>1. i - m + 1 \in 1 .. n - m /\ m + (i - m + 1) - 1 = i
      OBVIOUS
    <3>2. QED
      BY <1>4, <3>1 DEF Range
  <2>2. QED
    BY <1>4, <2>1 DEF Range
<1>10. QED
  BY <1>1, <1>6, <1>8, <1>9 DEF l

\* In the beginning there are the blocks of the largest order, the first few of them taken.
LEMMA InitIInv == ASSUME Init PROVE IInv
<1>1. PICK s : s = Size(MAX_ORDER)
  OBVIOUS
<1>2. /\ s \in Nat \ {0} /\ NrMax \in Nat /\ Top = NrMax * s /\ Page = 0 .. Top - 1 /\ Top \in Nat
      /\ MAX_ORDER \in Nat /\ MAX_ORDER \in Order /\ kernel_nr \in Nat /\ kernel_nr >= 1
      /\ kernel_nr <= NrMax /\ Reserved \in Nat /\ Reserved <= kernel_nr
      /\ user_start_idx = kernel_nr * s /\ user_start_idx \in Nat /\ user_start_idx <= Top
      /\ \A r \in Order : r \in Nat /\ r <= MAX_ORDER
  <2>1. Reserved \in Nat /\ Reserved <= kernel_nr
    BY Constants, BuddyAssumption DEF kernel_nr
  <2>2. QED
    BY <1>1, <2>1, Constants, OrderIs DEF Top
<1>3. \A i \in 0 .. NrMax - 1 : i * s \in Page /\ i * s + s <= Top
  <2> SUFFICES ASSUME NEW i \in 0 .. NrMax - 1 PROVE i * s \in Page /\ i * s + s <= Top
    OBVIOUS
  <2>1. i \in Nat /\ i + 1 \in Nat /\ i + 1 <= NrMax
    BY <1>2
  <2>2. (i + 1) * s <= NrMax * s /\ (i + 1) * s = i * s + s /\ i * s \in Nat /\ NrMax * s \in Nat
    BY <1>2, <2>1, TimesGrows
  <2>3. QED
    BY <1>2, <2>2
<1>4. \A i, j \in Nat : (i < j <=> i * s < j * s) /\ (i * s = j * s => i = j)
  <2>1. ASSUME NEW i \in Nat, NEW j \in Nat, i < j PROVE i * s < j * s
    <3>1. (i + 1) * s <= j * s /\ (i + 1) * s = i * s + s /\ i * s \in Nat /\ j * s \in Nat
      BY <1>2, <2>1, TimesGrows
    <3>2. QED
      BY <1>2, <3>1
  <2>2. \A i \in Nat : i * s \in Nat
    BY <1>2
  <2>3. \A i, j \in Nat : i < j \/ j < i \/ i = j
    OBVIOUS
  <2>4. QED
    BY <2>1, <2>2, <2>3
<1> DEFINE low == [kernel |-> Reserved, user |-> kernel_nr]
           high == [kernel |-> kernel_nr, user |-> NrMax]
<1>5. \A pl \in Pool : /\ low[pl] \in Nat /\ high[pl] \in Nat /\ low[pl] <= high[pl] /\ high[pl] <= NrMax
                       /\ (pl = "kernel" /\ low[pl] = Reserved /\ high[pl] = kernel_nr)
                            \/ (pl = "user" /\ low[pl] = kernel_nr /\ high[pl] = NrMax)
  BY <1>2 DEF Pool
<1>6. \A pl \in Pool, r \in Order :
        /\ pg_list[pl][r] = IF r < MAX_ORDER THEN << >> ELSE Blocks(low[pl], high[pl])
        /\ nr_free[pl][r] = IF r < MAX_ORDER THEN 0 ELSE high[pl] - low[pl]
        /\ bmap[pl][r] = IF pl = "kernel" /\ r = MAX_ORDER
                         THEN { b \in 0 .. kernel_nr : Reserved \div 2 = b /\ Reserved % 2 = 1 } ELSE {}
  BY DEF Init, Pool
<1>7. \A r \in Order : r < MAX_ORDER \/ r = MAX_ORDER
  BY <1>2
<1> HIDE DEF low, high
<1>8. ASSUME NEW pl \in Pool, NEW r \in Order
      PROVE  /\ pg_list[pl][r] \in Seq(Page) /\ IsInjective(pg_list[pl][r])
             /\ nr_free[pl][r] \in Nat /\ nr_free[pl][r] = Len(pg_list[pl][r])
             /\ Free(pl, r) = IF r < MAX_ORDER THEN {} ELSE { i * s : i \in low[pl] .. high[pl] - 1 }
             /\ bmap[pl][r] \in SUBSET Nat
  <2>1. bmap[pl][r] \in SUBSET Nat
    <3>1. { b \in 0 .. kernel_nr : Reserved \div 2 = b /\ Reserved % 2 = 1 } \in SUBSET Nat
      BY <1>2
    <3>2. bmap[pl][r] \in {{ b \in 0 .. kernel_nr : Reserved \div 2 = b /\ Reserved % 2 = 1 }, {}}
      BY <1>6
    <3>3. QED
      BY <3>1, <3>2
  <2>2. CASE r < MAX_ORDER
    <3>1. pg_list[pl][r] = << >> /\ nr_free[pl][r] = 0
      BY <1>6, <2>2
    <3>2. QED
      BY <2>1, <2>2, <3>1 DEF Free, Range, IsInjective
  <2>3. CASE ~ (r < MAX_ORDER)
    <3>1. pg_list[pl][r] = Blocks(low[pl], high[pl]) /\ nr_free[pl][r] = high[pl] - low[pl]
      BY <1>6, <2>3
    <3>2. /\ Blocks(low[pl], high[pl]) \in Seq(Page)
          /\ Len(Blocks(low[pl], high[pl])) = high[pl] - low[pl]
          /\ IsInjective(Blocks(low[pl], high[pl]))
          /\ Range(Blocks(low[pl], high[pl])) = { i * Size(MAX_ORDER) : i \in low[pl] .. high[pl] - 1 }
      BY <1>5, BlockList
    <3>3. high[pl] - low[pl] \in Nat
      BY <1>5
    <3>4. QED
      BY <1>1, <2>1, <2>3, <3>1, <3>2, <3>3 DEF Free
  <2>4. QED
    BY <2>2, <2>3
<1>9. /\ \A p \in Page : count[p] = IF p \in { i * s : i \in 0 .. Reserved - 1 } THEN 1 ELSE 0
      /\ \A p \in Page : private[p] = MAX_ORDER
      /\ freeing = {} /\ count \in [Page -> 0 .. MaxRefs] /\ private \in [Page -> Order]
  <2>1. 0 \in 0 .. MaxRefs /\ 1 \in 0 .. MaxRefs
    BY BuddyAssumption
  <2>2. QED
    BY <1>1, <1>2, <2>1 DEF Init
<1>10. TypeOK
  <2>1. /\ pg_list = [pl \in Pool |-> pg_list[pl]]
        /\ \A pl \in Pool : pg_list[pl] = [r \in Order |-> pg_list[pl][r]]
    BY DEF Init
  <2>2. /\ nr_free = [pl \in Pool |-> nr_free[pl]]
        /\ \A pl \in Pool : nr_free[pl] = [r \in Order |-> nr_free[pl][r]]
    BY DEF Init
  <2>3. /\ bmap = [pl \in Pool |-> bmap[pl]]
        /\ \A pl \in Pool : bmap[pl] = [r \in Order |-> bmap[pl][r]]
    BY DEF Init
  <2>4. \A pl \in Pool, r \in Order :
          pg_list[pl][r] \in Seq(Page) /\ nr_free[pl][r] \in Nat /\ bmap[pl][r] \in SUBSET Nat
    BY <1>8
  <2>5. pg_list \in [Pool -> [Order -> Seq(Page)]]
    BY <2>1, <2>4, Table
  <2>6. nr_free \in [Pool -> [Order -> Nat]]
    BY <2>2, <2>4, Table
  <2>7. bmap \in [Pool -> [Order -> SUBSET Nat]]
    BY <2>3, <2>4, Table
  <2>8. QED
    BY <1>9, <2>5, <2>6, <2>7 DEF TypeOK
<1>11. Taken = { i * s : i \in 0 .. Reserved - 1 }
  <2>1. ASSUME NEW i \in 0 .. Reserved - 1 PROVE i * s \in Taken
    <3>1. i \in 0 .. NrMax - 1
      BY <1>2
    <3>2. QED
      BY <1>3, <1>9, <3>1 DEF Taken
  <2>2. ASSUME NEW p \in Taken PROVE p \in { i * s : i \in 0 .. Reserved - 1 }
    BY <1>9 DEF Taken
  <2>3. QED
    BY <2>1, <2>2
<1>12. ASSUME NEW p \in Page, NEW r \in Order
       PROVE  Exists(p, r) <=> r = MAX_ORDER /\ \E i \in 0 .. NrMax - 1 : p = i * s
  <2>1. Exists(p, r) <=> (\E pl \in Pool : p \in Free(pl, r)) \/ (p \in Taken /\ r = MAX_ORDER)
    BY <1>9 DEF Exists
  <2>2. ASSUME NEW pl \in Pool, p \in Free(pl, r)
        PROVE  r = MAX_ORDER /\ \E i \in 0 .. NrMax - 1 : p = i * s
    <3>1. r = MAX_ORDER /\ p \in { i * s : i \in low[pl] .. high[pl] - 1 }
      BY <1>7, <1>8, <2>2
    <3>2. \A i \in low[pl] .. high[pl] - 1 : i \in 0 .. NrMax - 1
      BY <1>2, <1>5
    <3>3. QED
      BY <3>1, <3>2
  <2>3. ASSUME p \in Taken PROVE \E i \in 0 .. NrMax - 1 : p = i * s
    <3>1. \A i \in 0 .. Reserved - 1 : i \in 0 .. NrMax - 1
      BY <1>2
    <3>2. QED
      BY <1>11, <2>3, <3>1
  <2>4. ASSUME NEW i \in 0 .. NrMax - 1, p = i * s, r = MAX_ORDER PROVE Exists(p, r)
    <3>1. CASE i < Reserved
      <4>1. i \in 0 .. Reserved - 1
        BY <1>2, <3>1
      <4>2. QED
        BY <1>11, <2>1, <2>4, <4>1
    <3>2. CASE i >= Reserved /\ i < kernel_nr
      <4>1. "kernel" \in Pool
        BY DEF Pool
      <4>2. i \in low["kernel"] .. high["kernel"] - 1
        BY <1>2, <1>5, <3>2, <4>1
      <4>3. p \in Free("kernel", r)
        BY <1>2, <1>8, <2>4, <4>1, <4>2
      <4>4. QED
        BY <2>1, <4>1, <4>3
    <3>3. CASE i >= kernel_nr
      <4>1. "user" \in Pool
        BY DEF Pool
      <4>2. i \in low["user"] .. high["user"] - 1
        BY <1>2, <1>5, <3>3, <4>1
      <4>3. p \in Free("user", r)
        BY <1>2, <1>8, <2>4, <4>1, <4>2
      <4>4. QED
        BY <2>1, <4>1, <4>3
    <3>4. QED
      BY <1>2, <3>1, <3>2, <3>3
  <2>5. QED
    BY <2>1, <2>2, <2>3, <2>4
<1>13. Tiled
  <2> SUFFICES ASSUME NEW x \in Page
               PROVE  /\ \E b \in Existing : In(x, b[1], b[2])
                      /\ \A b, c \in Existing : In(x, b[1], b[2]) /\ In(x, c[1], c[2]) => b = c
    BY DEF Tiled, Tiles
  <2>1. PICK q : q = x \div s
    OBVIOUS
  <2>2. PICK t : t = x % s
    OBVIOUS
  <2>3. x \in Nat /\ x < Top /\ q \in Nat /\ t \in 0 .. s - 1 /\ x = q * s + t /\ q * s \in Nat
    <3>1. x \in Nat /\ x < Top
      BY <1>2
    <3>2. x \div s \in Nat /\ x % s \in 0 .. s - 1 /\ x = (x \div s) * s + (x % s)
      BY <1>2, <3>1, Division
    <3>3. q \in Nat /\ t \in 0 .. s - 1 /\ x = q * s + t
      BY <2>1, <2>2, <3>2
    <3>4. q * s \in Nat
      BY <1>2, <3>3
    <3>5. QED
      BY <3>1, <3>3, <3>4
  <2>4. q * s <= x /\ x < q * s + s
    BY <1>2, <2>3
  <2>5. q \in 0 .. NrMax - 1
    <3>1. q * s < NrMax * s
      BY <1>2, <2>3
    <3>2. QED
      BY <1>2, <1>4, <2>3, <3>1
  <2>6. << q * s, MAX_ORDER >> \in Existing /\ In(x, q * s, MAX_ORDER)
    BY <1>1, <1>2, <1>3, <1>12, <2>4, <2>5 DEF Existing, In
  <2>7. ASSUME NEW b \in Existing, In(x, b[1], b[2]) PROVE b = << q * s, MAX_ORDER >>
    <3>1. b \in Page \X Order /\ b[1] \in Page /\ b[2] \in Order /\ Exists(b[1], b[2])
      BY DEF Existing
    <3>2. b[2] = MAX_ORDER /\ \E i \in 0 .. NrMax - 1 : b[1] = i * s
      BY <1>12, <3>1
    <3>3. PICK i \in 0 .. NrMax - 1 : b[1] = i * s
      BY <3>2
    <3>4. i * s <= x /\ x < i * s + s /\ i \in Nat /\ i * s \in Nat
      <4>1. In(x, i * s, MAX_ORDER)
        BY <2>7, <3>2, <3>3
      <4>2. i \in Nat /\ i * s \in Nat
        BY <1>2
      <4>3. QED
        BY <1>1, <4>1, <4>2 DEF In
    <3>5. i = q
      <4>1. PICK u \in Nat : u = i * s
        BY <3>4
      <4>2. PICK v \in Nat : v = q * s
        BY <2>3
      <4>3. u <= x /\ x < u + s /\ v <= x /\ x < v + s /\ x \in Nat /\ s \in Nat
        BY <1>2, <2>3, <2>4, <3>4, <4>1, <4>2
      <4>4. i < q => i + 1 <= q /\ i + 1 \in Nat
        BY <2>3, <3>4
      <4>5. q < i => q + 1 <= i /\ q + 1 \in Nat
        BY <2>3, <3>4
      <4>6. (i + 1) * s = u + s /\ (q + 1) * s = v + s
        BY <1>2, <2>3, <3>4, <4>1, <4>2
      <4>7. i < q => u + s <= v
        BY <1>2, <2>3, <4>2, <4>4, <4>6, TimesGrows
      <4>8. q < i => v + s <= u
        BY <1>2, <3>4, <4>1, <4>5, <4>6, TimesGrows
      <4>9. ~ (i < q) /\ ~ (q < i)
        BY <4>3, <4>7, <4>8
      <4>10. QED
        BY <2>3, <3>4, <4>9
    <3>6. QED
      BY <3>1, <3>2, <3>3, <3>5
  <2>8. QED
    BY <2>6, <2>7
<1>14. Placed
  <2>1. ASSUME NEW p \in Page, NEW o \in Order, Exists(p, o) PROVE p % Size(o) = 0
    <3>1. PICK i \in 0 .. NrMax - 1 : p = i * s /\ o = MAX_ORDER
      BY <1>12, <2>1
    <3>2. i \in Nat /\ 0 \in 0 .. s - 1 /\ i * s + 0 = i * s
      BY <1>2
    <3>3. (i * s + 0) % s = 0
      BY <1>2, <3>2, Quotient
    <3>4. QED
      BY <1>1, <3>1, <3>2, <3>3
  <2>2. ASSUME NEW pool \in Pool, NEW o \in Order, NEW p \in Free(pool, o)
        PROVE  Within(p, o, pool) /\ p \notin Taken
    <3>1. o = MAX_ORDER /\ p \in { i * s : i \in low[pool] .. high[pool] - 1 }
      BY <1>7, <1>8
    <3>2. PICK i \in low[pool] .. high[pool] - 1 : p = i * s
      BY <3>1
    <3>3. i \in Nat /\ i + 1 <= high[pool] /\ i \in 0 .. NrMax - 1 /\ i >= low[pool] /\ i >= Reserved
      BY <1>2, <1>5
    <3>4. p \notin Taken
      <4>1. \A j \in 0 .. Reserved - 1 : j \in Nat /\ j # i
        BY <1>2, <3>3
      <4>2. QED
        BY <1>4, <1>11, <3>2, <3>3, <4>1
    <3>5. (i + 1) * s = i * s + s /\ (i + 1) * s <= high[pool] * s /\ i * s >= low[pool] * s
      <4>1. PICK l \in Nat : l = low[pool]
        BY <1>5
      <4>2. PICK h \in Nat : h = high[pool]
        BY <1>5
      <4>3. l <= i /\ i + 1 <= h /\ i + 1 \in Nat /\ i \in Nat /\ s \in Nat
        BY <1>2, <3>3, <4>1, <4>2
      <4>4. l * s <= i * s /\ (i + 1) * s <= h * s /\ l * s \in Nat /\ i * s \in Nat
        BY <4>3, TimesGrows
      <4>5. (i + 1) * s = i * s + s
        BY <4>3
      <4>6. QED
        BY <4>1, <4>2, <4>4, <4>5
    <3>6. Within(p, o, pool)
      <4>1. CASE pool = "kernel"
        BY <1>1, <1>2, <1>5, <3>1, <3>2, <3>5, <4>1 DEF Within
      <4>2. CASE pool = "user"
        BY <1>1, <1>2, <1>5, <3>1, <3>2, <3>5, <4>2 DEF Within
      <4>3. QED
        BY <1>5, <4>1, <4>2
    <3>7. QED
      BY <3>4, <3>6
  <2>3. ASSUME NEW p \in Taken PROVE Within(p, private[p], PoolOf(p))
    <3>1. PICK i \in 0 .. Reserved - 1 : p = i * s
      BY <1>11
    <3>2. i \in Nat /\ i + 1 <= kernel_nr /\ i \in 0 .. NrMax - 1
      BY <1>2
    <3>3. (i + 1) * s = i * s + s /\ (i + 1) * s <= kernel_nr * s /\ i * s \in Nat
      BY <1>2, <3>2, TimesGrows
    <3>4. p \in Page /\ private[p] = MAX_ORDER
      BY <1>3, <1>9, <3>1, <3>2
    <3>5. p + s <= user_start_idx /\ p < user_start_idx
      BY <1>2, <3>1, <3>3
    <3>6. PoolOf(p) = "kernel"
      BY <1>2, <3>1, <3>3, <3>5 DEF PoolOf
    <3>7. QED
      BY <1>1, <3>4, <3>5, <3>6 DEF Within
  <2>4. QED
    BY <1>9, <2>1, <2>2, <2>3 DEF Placed
<1>15. Listed
  BY <1>8 DEF Listed
<1>16. BitsTell
  <2> SUFFICES ASSUME NEW pl \in Pool, NEW r \in 0 .. MAX_ORDER - 1
               PROVE  bmap[pl][r] = {} /\ Free(pl, r) = {}
    BY DEF BitsTell
  <2>1. r \in Order /\ r < MAX_ORDER /\ r # MAX_ORDER
    BY <1>2 DEF Order
  <2>2. QED
    BY <1>6, <1>8, <2>1
<1>17. TopBits
  <2> SUFFICES ASSUME NEW pl \in Pool, NEW b \in bmap[pl][MAX_ORDER]
               PROVE  b < BitmapLen(pl, MAX_ORDER)
    BY DEF TopBits
  <2>1. pl = "kernel" /\ b \in 0 .. kernel_nr /\ Reserved \div 2 = b /\ Reserved % 2 = 1
    <3>1. bmap[pl][MAX_ORDER] = IF pl = "kernel"
            THEN { c \in 0 .. kernel_nr : Reserved \div 2 = c /\ Reserved % 2 = 1 } ELSE {}
      BY <1>2, <1>6
    <3>2. QED
      BY <3>1
  <2>2. b < kernel_nr
    BY <1>2, <2>1
  <2>3. BitmapLen(pl, MAX_ORDER) = kernel_nr
    <3>1. MAX_ORDER - MAX_ORDER = 0 /\ Size(0) = 1
      BY <1>2, Doubling
    <3>2. QED
      BY <1>2, <2>1, <3>1 DEF BitmapLen
  <2>4. QED
    BY <2>2, <2>3
<1>18. QED
  BY <1>10, <1>13, <1>14, <1>15, <1>16, <1>17 DEF IInv

-----------------------------------------------------------------------------
\* Each page of the machine is in one block, blocks lie where they should, and the bits tell,
\* in every state: whatever is split, shared, freed and merged.
THEOREM Invariant == Spec => []IInv
<1>1. Init => IInv
  BY InitIInv
<1>2. IInv /\ [Next]_vars => IInv'
  <2> SUFFICES ASSUME IInv, [Next]_vars PROVE IInv'
    OBVIOUS
  <2>1. ASSUME NEW pool \in Pool, NEW order \in Order, alloc_pages(pool, order) PROVE IInv'
    BY <2>1, AllocKeeps
  <2>2. ASSUME NEW idx \in Page, share(idx) PROVE IInv'
    BY <2>2, CountKeeps
  <2>3. ASSUME NEW idx \in Page, __free_pages(idx) PROVE IInv'
    BY <2>3, CountKeeps
  <2>4. ASSUME NEW idx \in Page, Merge(idx) PROVE IInv'
    BY <2>4, MergeKeeps
  <2>5. CASE UNCHANGED vars
    <3>1. /\ pg_list' = pg_list /\ nr_free' = nr_free /\ bmap' = bmap
          /\ count' = count /\ private' = private /\ freeing' = freeing
      BY <2>5 DEF vars
    <3>2. /\ \A pool, o : Free(pool, o)' = Free(pool, o)
          /\ Taken' = Taken
      BY <3>1 DEF Free, Taken
    <3>3. \A p, o : Exists(p, o)' <=> Exists(p, o)
      <4> SUFFICES ASSUME NEW p, NEW o PROVE Exists(p, o)' <=> Exists(p, o)
        OBVIOUS
      <4>1. Exists(p, o)' <=> (\E pool \in Pool : p \in Free(pool, o)') \/ (p \in Taken' /\ private'[p] = o)
        BY DEF Exists
      <4>2. QED
        BY <3>1, <3>2, <4>1 DEF Exists
    <3>4. Tiled'
      <4>1. Existing' = Existing
        BY <3>3 DEF Existing
      <4>2. QED
        BY <4>1 DEF IInv, Tiled
    <3>5. Placed'
      BY <3>1, <3>2, <3>3 DEF IInv, Placed
    <3>6. TypeOK' /\ Listed' /\ TopBits'
      BY <3>1 DEF IInv, TypeOK, Listed, TopBits
    <3>7. BitsTell'
      BY <3>1, <3>2 DEF IInv, BitsTell
    <3>8. QED
      BY <3>4, <3>5, <3>6, <3>7 DEF IInv
  <2>6. QED
    BY <2>1, <2>2, <2>3, <2>4, <2>5 DEF Next
<1>3. QED
  BY <1>1, <1>2, PTL DEF Spec

\* The blocks, and the free ones of an order, as the properties name them.
LEMMA BlocksAre ==
  ASSUME TypeOK
  PROVE  /\ AllBlocks = Existing
         /\ \A pool \in Pool, o \in Order :
              { b[1] : b \in { c \in FreeBlocks(pool) : c[2] = o } } = Free(pool, o)
<1>1. ASSUME NEW pool \in Pool
      PROVE  FreeBlocks(pool) = { b \in Page \X Order : b[1] \in Free(pool, b[2]) }
  <2>1. ASSUME NEW b \in FreeBlocks(pool)
        PROVE  b \in Page \X Order /\ b[1] \in Free(pool, b[2])
    <3>1. PICK o \in Order : b \in { << pg_list[pool][o][i], o >> : i \in DOMAIN pg_list[pool][o] }
      BY <2>1 DEF FreeBlocks
    <3>2. PICK i \in DOMAIN pg_list[pool][o] : b = << pg_list[pool][o][i], o >>
      BY <3>1
    <3>3. pg_list[pool][o][i] \in Free(pool, o) /\ Free(pool, o) \subseteq Page
      BY <3>2, Typed DEF Free, Range
    <3>4. QED
      BY <3>2, <3>3
  <2>2. ASSUME NEW p \in Page, NEW o \in Order, p \in Free(pool, o)
        PROVE  << p, o >> \in FreeBlocks(pool)
    <3>1. PICK i \in DOMAIN pg_list[pool][o] : p = pg_list[pool][o][i]
      BY <2>2 DEF Free, Range
    <3>2. << p, o >> \in { << pg_list[pool][o][n], o >> : n \in DOMAIN pg_list[pool][o] }
      BY <3>1
    <3>3. QED
      BY <3>2 DEF FreeBlocks
  <2>3. QED
    BY <2>1, <2>2
<1>2. UsedBlocks = { b \in Page \X Order : b[1] \in Taken /\ private[b[1]] = b[2] }
  <2>1. \A p \in Taken : p \in Page /\ private[p] \in Order
    BY Typed
  <2>2. UsedBlocks = { << p, private[p] >> : p \in Taken }
    BY DEF UsedBlocks, Taken
  <2>3. QED
    BY <2>1, <2>2
<1>3. AllBlocks = Existing
  <2>1. "kernel" \in Pool /\ "user" \in Pool /\ \A pool \in Pool : pool = "kernel" \/ pool = "user"
    BY DEF Pool
  <2>2. \A b \in Page \X Order : b \in AllBlocks <=>
          b[1] \in Free("kernel", b[2]) \/ b[1] \in Free("user", b[2])
            \/ (b[1] \in Taken /\ private[b[1]] = b[2])
    BY <1>1, <1>2, <2>1 DEF AllBlocks
  <2>3. \A b \in Page \X Order : b \in Existing <=>
          b[1] \in Free("kernel", b[2]) \/ b[1] \in Free("user", b[2])
            \/ (b[1] \in Taken /\ private[b[1]] = b[2])
    BY <2>1 DEF Existing, Exists
  <2>4. AllBlocks \subseteq Page \X Order /\ Existing \subseteq Page \X Order
    BY <1>1, <1>2, <2>1 DEF AllBlocks, Existing
  <2>5. QED
    BY <2>2, <2>3, <2>4
<1>4. ASSUME NEW pool \in Pool, NEW o \in Order
      PROVE  { b[1] : b \in { c \in FreeBlocks(pool) : c[2] = o } } = Free(pool, o)
  <2>1. Free(pool, o) \subseteq Page
    BY Typed
  <2>2. ASSUME NEW p \in Free(pool, o)
        PROVE  p \in { b[1] : b \in { c \in FreeBlocks(pool) : c[2] = o } }
    <3>1. << p, o >> \in { c \in FreeBlocks(pool) : c[2] = o } /\ << p, o >>[1] = p
      BY <1>1, <2>1
    <3>2. QED
      BY <3>1
  <2>3. ASSUME NEW b \in FreeBlocks(pool), b[2] = o PROVE b[1] \in Free(pool, o)
    BY <1>1, <2>3
  <2>4. QED
    BY <2>2, <2>3
<1>5. QED
  BY <1>3, <1>4

\* The pages of a block, as a set.
LEMMA PagesAre ==
  ASSUME NEW p \in Nat, NEW o \in Order, NEW x
  PROVE  x \in PagesOf(<< p, o >>) <=> x \in Nat /\ In(x, p, o)
BY OrderIs DEF PagesOf, In

\* No page is given out twice or lost.
THEOREM EachPageOnceAlways == Spec => []EachPageOnce
<1>1. IInv => EachPageOnce
  <2> SUFFICES ASSUME IInv PROVE EachPageOnce
    OBVIOUS
  <2>1. AllBlocks = Existing /\ Page \subseteq Nat
    BY BlocksAre, Constants DEF IInv
  <2>2. ASSUME NEW b \in Existing
        PROVE  /\ b[1] \in Page /\ b[1] \in Nat /\ b[2] \in Order /\ b = << b[1], b[2] >>
               /\ Exists(b[1], b[2])
               /\ \A x : x \in PagesOf(b) <=> x \in Page /\ In(x, b[1], b[2])
    <3>1. b \in Page \X Order /\ Exists(b[1], b[2])
      BY DEF Existing
    <3>2. b[1] \in Page /\ b[1] \in Nat /\ b[2] \in Order /\ b = << b[1], b[2] >>
      <4>1. PICK p \in Page, o \in Order : b = << p, o >>
        BY <3>1
      <4>2. p \in Nat
        BY <2>1
      <4>3. QED
        BY <4>1, <4>2
    <3>3. PICK pool \in Pool : Within(b[1], b[2], pool)
      <4>1. CASE \E pool \in Pool : b[1] \in Free(pool, b[2])
        BY <3>2, <4>1 DEF IInv, Placed
      <4>2. CASE b[1] \in Taken /\ private[b[1]] = b[2]
        <5>1. PoolOf(b[1]) \in Pool
          BY DEF PoolOf, Pool
        <5>2. QED
          BY <4>2, <5>1 DEF IInv, Placed
      <4>3. QED
        BY <3>1, <4>1, <4>2 DEF Exists
    <3>4. \A x \in Nat : In(x, b[1], b[2]) => x \in Page
      BY <3>2, <3>3, Inside
    <3>5. \A x : x \in PagesOf(b) <=> x \in Nat /\ In(x, b[1], b[2])
      BY <3>2, PagesAre
    <3>6. QED
      BY <2>1, <3>1, <3>2, <3>4, <3>5
  <2>3. ASSUME NEW x \in Page PROVE \E b \in Existing : x \in PagesOf(b)
    <3>1. PICK b \in Existing : In(x, b[1], b[2])
      BY DEF IInv, Tiled, Tiles
    <3>2. QED
      BY <2>2, <3>1
  <2>4. ASSUME NEW b \in Existing, NEW c \in Existing, b # c PROVE PagesOf(b) \cap PagesOf(c) = {}
    <3> SUFFICES ASSUME NEW x \in PagesOf(b), x \in PagesOf(c) PROVE FALSE
      OBVIOUS
    <3>1. x \in Page /\ In(x, b[1], b[2]) /\ In(x, c[1], c[2])
      BY <2>2
    <3>2. QED
      BY <2>4, <3>1 DEF IInv, Tiled, Tiles
  <2>5. QED
    BY <2>1, <2>3, <2>4 DEF EachPageOnce
<1>2. QED
  BY <1>1, Invariant, PTL

\* The bits tell where a buddy is free, and the counts which lists have a block.
THEOREM BitmapTellsAlways == Spec => []BitmapTells
<1>1. IInv => BitmapTells
  <2> SUFFICES ASSUME IInv PROVE BitmapTells
    OBVIOUS
  <2>1. NrFreeCounts
    BY DEF IInv, Listed, NrFreeCounts
  <2>2. BuddyListed
    <3> SUFFICES ASSUME NEW idx \in freeing, NEW o \in private[idx] .. MergedOrder(idx) - 1
                 PROVE  \E i \in DOMAIN pg_list[PoolOf(idx)][o] : pg_list[PoolOf(idx)][o][i] = BuddyOf(idx, o)
      BY DEF BuddyListed
    <3>1. QED
      BY BuddiesFree DEF Free, Range
  <2>3. ASSUME NEW pool \in Pool, NEW o \in 0 .. MAX_ORDER - 1
        PROVE  LET free == { b[1] : b \in { c \in FreeBlocks(pool) : c[2] = o } }
               IN  /\ bmap[pool][o] = { Bit(p, o) : p \in free }
                   /\ \A p \in free : BuddyOf(p, o) \notin free
    <3>1. o \in Order
      BY Constants DEF Order
    <3>2. { b[1] : b \in { c \in FreeBlocks(pool) : c[2] = o } } = Free(pool, o)
      BY <3>1, BlocksAre DEF IInv
    <3>3. /\ bmap[pool][o] = { Bit(p, o) : p \in Free(pool, o) }
          /\ \A p \in Free(pool, o) : BuddyOf(p, o) \notin Free(pool, o)
      BY DEF IInv, BitsTell
    <3>4. QED
      BY <3>2, <3>3
  <2>4. ASSUME NEW pool \in Pool, NEW o \in Order, NEW b \in bmap[pool][o]
        PROVE  b < BitmapLen(pool, o)
    <3>1. CASE o = MAX_ORDER
      BY <3>1 DEF IInv, TopBits
    <3>2. CASE o # MAX_ORDER
      <4>1. o \in 0 .. MAX_ORDER - 1
        <5>1. o \in Nat /\ o <= MAX_ORDER /\ MAX_ORDER \in Nat
          BY OrderIs, Constants
        <5>2. QED
          BY <3>2, <5>1
      <4>2. PICK p \in Free(pool, o) : b = Bit(p, o)
        BY <4>1 DEF IInv, BitsTell
      <4>3. p \in Page /\ Within(p, o, pool)
        BY Typed DEF IInv, Placed
      <4>4. QED
        BY <4>2, <4>3, BitInside
    <3>3. QED
      BY <3>1, <3>2
  <2>5. QED
    BY <2>1, <2>2, <2>3, <2>4 DEF BitmapTells
<1>2. QED
  BY <1>1, Invariant, PTL

-----------------------------------------------------------------------------
\* What somebody owns: the run of pages of the block at p.
RunOf(p) == [first |-> p, size |-> Size(private[p]), refs |-> count[p]]

\* Two blocks that are owned have no page in common.
LEMMA Apart ==
  ASSUME IInv, NEW p \in Page, NEW q \in Page, count[p] > 0, count[q] > 0, p # q
  PROVE  (p .. p + Size(private[p]) - 1) \cap (q .. q + Size(private[q]) - 1) = {}
<1> SUFFICES ASSUME NEW x, x \in p .. p + Size(private[p]) - 1, x \in q .. q + Size(private[q]) - 1
             PROVE  FALSE
  OBVIOUS
<1>1. /\ p \in Nat /\ q \in Nat /\ private[p] \in Order /\ private[q] \in Order
      /\ p \in Taken /\ q \in Taken
  BY Typed, Constants DEF IInv, Taken
<1>2. /\ Exists(p, private[p]) /\ Exists(q, private[q]) /\ Within(p, private[p], PoolOf(p))
      /\ PoolOf(p) \in Pool
  BY <1>1 DEF IInv, Placed, Exists, PoolOf, Pool
<1>3. x \in Nat /\ In(x, p, private[p]) /\ In(x, q, private[q])
  <2>1. Size(private[p]) \in Nat /\ Size(private[q]) \in Nat
    BY <1>1, OrderIs
  <2>2. QED
    BY <1>1, <2>1 DEF In
<1>4. x \in Page
  BY <1>1, <1>2, <1>3, Inside
<1>5. QED
  BY <1>1, <1>2, <1>3, <1>4, OneBlock

\* Another count of owners of an owned block.
LEMMA Recounted ==
  ASSUME TypeOK, NEW idx \in Page, count[idx] > 0, NEW n \in Nat,
         count' = [count EXCEPT ![idx] = n], private' = private
  PROVE  RunOf(idx) \in Owned /\ Allocator!Count(RunOf(idx), n)
<1> DEFINE Run(p, c) == [first |-> p, size |-> Size(private[p]), refs |-> c]
           H == { q \in Page : count[q] > 0 }
           N == { q \in Page : count'[q] > 0 }
<1>1. /\ DOMAIN count = Page /\ \A q \in Page : count'[q] = IF q = idx THEN n ELSE count[q]
      /\ count[idx] \in Nat
  <2>1. count \in [Page -> 0 .. MaxRefs]
    BY DEF TypeOK
  <2>2. QED
    BY <2>1, Typed
<1>2. RunOf(idx) \in Owned
  BY DEF Owned, RunOf
<1>3. \A r : r \in Owned <=> \E q \in H : r = Run(q, count[q])
  BY DEF Owned
<1>4. \A r : r \in Owned' <=> \E q \in N : r = Run(q, count'[q])
  BY DEF Owned
<1>5. N = (H \ {idx}) \cup (IF n = 0 THEN {} ELSE {idx})
  BY <1>1
<1>6. \A p, q, c, d : Run(p, c) = Run(q, d) <=> p = q /\ c = d
  <2> SUFFICES ASSUME NEW p, NEW q, NEW c, NEW d, Run(p, c) = Run(q, d) PROVE p = q /\ c = d
    OBVIOUS
  <2>1. Run(p, c).first = Run(q, d).first /\ Run(p, c).refs = Run(q, d).refs
    OBVIOUS
  <2>2. QED
    BY <2>1
<1>7. RunOf(idx) = Run(idx, count[idx]) /\ [RunOf(idx) EXCEPT !.refs = n] = Run(idx, n)
  BY DEF RunOf
<1> HIDE DEF Run, H, N
<1>8. idx \in H
  BY <1>1 DEF H
<1>9. \A r : r \in Owned' <=>
        r \in (Owned \ {Run(idx, count[idx])}) \cup (IF n = 0 THEN {} ELSE {Run(idx, n)})
  <2> SUFFICES ASSUME NEW r
               PROVE  r \in Owned' <=>
                        \/ r \in Owned /\ r # Run(idx, count[idx])
                        \/ n # 0 /\ r = Run(idx, n)
    OBVIOUS
  <2>1. ASSUME r \in Owned'
        PROVE  \/ r \in Owned /\ r # Run(idx, count[idx])
               \/ n # 0 /\ r = Run(idx, n)
    <3>1. PICK q \in N : r = Run(q, count'[q])
      BY <1>4, <2>1
    <3>2. CASE q = idx
      BY <1>1, <1>5, <3>1, <3>2
    <3>3. CASE q # idx
      <4>1. q \in H /\ count'[q] = count[q]
        BY <1>1, <1>5, <3>3 DEF H
      <4>2. QED
        BY <1>3, <1>6, <3>1, <3>3, <4>1
    <3>4. QED
      BY <3>2, <3>3
  <2>2. ASSUME r \in Owned, r # Run(idx, count[idx]) PROVE r \in Owned'
    <3>1. PICK q \in H : r = Run(q, count[q])
      BY <1>3, <2>2
    <3>2. q # idx /\ q \in N /\ count'[q] = count[q]
      BY <1>1, <1>5, <2>2, <3>1 DEF H
    <3>3. QED
      BY <1>4, <3>1, <3>2
  <2>3. ASSUME n # 0, r = Run(idx, n) PROVE r \in Owned'
    BY <1>1, <1>4, <1>5, <2>3
  <2>4. QED
    BY <2>1, <2>2, <2>3
<1>10. Owned' = (Owned \ {RunOf(idx)}) \cup (IF n = 0 THEN {} ELSE {[RunOf(idx) EXCEPT !.refs = n]})
  BY <1>7, <1>9
<1>11. QED
  BY <1>2, <1>10 DEF Allocator!Count

\* A block that alloc_pages hands out: a new run, of the size and in the pool asked for.
LEMMA AllocImplements ==
  ASSUME IInv, NEW pool \in Pool, NEW order \in Order, alloc_pages(pool, order)
  PROVE  Allocator!Alloc(pool, Size(order))
<1>1. PICK o \in order .. MAX_ORDER :
        /\ nr_free[pool][o] > 0
        /\ count' = [count EXCEPT ![Head(pg_list[pool][o])] = 1]
        /\ private' = [private EXCEPT ![Head(pg_list[pool][o])] = order]
  BY DEF alloc_pages
<1>2. PICK idx \in Free(pool, o) :
        count' = [count EXCEPT ![idx] = 1] /\ private' = [private EXCEPT ![idx] = order]
  <2>1. o \in Order
    BY Constants, OrderIs DEF Order
  <2>2. /\ pg_list[pool][o] \in Seq(Page) /\ IsInjective(pg_list[pool][o])
        /\ nr_free[pool][o] = Len(pg_list[pool][o])
    BY <2>1, Typed DEF IInv, Listed
  <2>3. pg_list[pool][o] # << >>
    BY <1>1, <2>2, EmptySeq
  <2>4. Head(pg_list[pool][o]) \in Free(pool, o)
    BY <2>2, <2>3, Popped DEF Free
  <2>5. QED
    BY <1>1, <2>4
<1>3. o \in Order
  BY Constants, OrderIs DEF Order
<1>4. /\ idx \in Page /\ idx \in Nat /\ idx \notin Taken /\ Within(idx, o, pool) /\ PoolOf(idx) = pool
      /\ count[idx] = 0 /\ Size(order) \in Nat \ {0}
  <2>1. idx \in Page /\ idx \in Nat /\ idx \notin Taken /\ Within(idx, o, pool)
    BY <1>3, Typed, Constants DEF IInv, Placed
  <2>2. count[idx] = 0
    <3>1. count[idx] \in Nat /\ ~ (count[idx] > 0)
      BY <2>1, Typed DEF IInv, Taken
    <3>2. QED
      BY <3>1
  <2>3. QED
    BY <1>3, <2>1, <2>2, Inside, OrderIs
<1>5. /\ \A p \in Page : count'[p] = IF p = idx THEN 1 ELSE count[p]
      /\ \A p \in Page : private'[p] = IF p = idx THEN order ELSE private[p]
  <2>1. count \in [Page -> 0 .. MaxRefs] /\ private \in [Page -> Order]
    BY DEF IInv, TypeOK
  <2>2. QED
    BY <1>2, <1>4, <2>1
<1>6. /\ order \in 0 .. o /\ o \in 0 .. MAX_ORDER + 1
      /\ Size(order) <= Size(o) /\ Size(o) \in Nat /\ Exists(idx, o) /\ idx % Size(o) = 0
  <2>1. order \in 0 .. o /\ o \in 0 .. MAX_ORDER + 1
    BY <1>3, Constants, OrderIs DEF Order
  <2>2. QED
    BY <1>3, <1>4, <2>1, SizeGrows, OrderIs DEF IInv, Placed, Exists
<1>7. Within(idx, order, pool) /\ idx % Size(order) = 0
  <2>1. idx % Size(order) = 0
    BY <1>3, <1>4, <1>6, AlignedDown
  <2>2. user_start_idx \in Nat /\ Top \in Nat
    BY Constants
  <2>3. QED
    BY <1>4, <1>6, <2>1, <2>2 DEF Within
<1>8. PICK r : r = [first |-> idx, size |-> Size(order), refs |-> 1]
  OBVIOUS
<1>9. r.first = idx /\ r.size = Size(order)
  BY <1>8
<1>10. \A x \in idx .. idx + Size(order) - 1 : x \in Page /\ PoolOf(x) = pool
  <2> SUFFICES ASSUME NEW x \in idx .. idx + Size(order) - 1 PROVE x \in Page /\ PoolOf(x) = pool
    OBVIOUS
  <2>1. x \in Nat /\ In(x, idx, order)
    BY <1>4 DEF In
  <2>2. QED
    BY <1>4, <1>7, <2>1, Inside
<1>11. \A x \in Page : PoolOf(x) = pool => x \in PoolPages[pool]
  <2>1. CASE pool = "kernel"
    <3>1. PoolPages[pool] = 0 .. user_start_idx - 1
      BY <2>1 DEF PoolPages
    <3>2. QED
      BY <2>1, <3>1, Constants DEF PoolOf
  <2>2. CASE pool = "user"
    <3>1. PoolPages[pool] = Page \ (0 .. user_start_idx - 1)
      BY <2>2 DEF PoolPages
    <3>2. QED
      BY <2>2, <3>1, Constants DEF PoolOf
  <2>3. QED
    BY <2>1, <2>2 DEF Pool
<1>12. idx \in PoolPages[pool] /\ idx .. idx + Size(order) - 1 \subseteq PoolPages[pool]
  <2>1. idx \in idx .. idx + Size(order) - 1
    BY <1>4
  <2>2. QED
    BY <1>10, <1>11, <2>1
<1>13. ASSUME NEW p \in Page, count[p] > 0
       PROVE  (idx .. idx + Size(order) - 1) \cap (p .. p + Size(private[p]) - 1) = {}
  <2> SUFFICES ASSUME NEW x \in idx .. idx + Size(order) - 1, x \in p .. p + Size(private[p]) - 1
               PROVE  FALSE
    OBVIOUS
  <2>1. p # idx /\ p \in Nat /\ private[p] \in Order /\ Exists(p, private[p])
    <3>1. p \in Taken /\ p \in Nat /\ private[p] \in Order
      BY <1>13, Typed, Constants DEF IInv, Taken
    <3>2. QED
      BY <1>4, <3>1 DEF Exists
  <2>2. x \in Page /\ x \in Nat
    BY <1>10, Constants
  <2>3. In(x, idx, o)
    BY <1>4, <1>6, <2>2 DEF In
  <2>4. In(x, p, private[p])
    <3>1. Size(private[p]) \in Nat
      BY <2>1, OrderIs
    <3>2. QED
      BY <2>1, <2>2, <3>1 DEF In
  <2>5. QED
    BY <1>3, <1>4, <1>6, <2>1, <2>2, <2>3, <2>4, OneBlock
<1>14. \A s \in Owned : Allocator!Run(r) \cap Allocator!Run(s) = {}
  <2> SUFFICES ASSUME NEW p \in Page, count[p] > 0
               PROVE  Allocator!Run(r) \cap Allocator!Run(RunOf(p)) = {}
    BY DEF Owned, RunOf
  <2>1. Allocator!Run(r) = idx .. idx + Size(order) - 1
    BY <1>9 DEF Allocator!Run
  <2>2. Allocator!Run(RunOf(p)) = p .. p + Size(private[p]) - 1
    BY DEF Allocator!Run, RunOf
  <2>3. QED
    BY <1>13, <2>1, <2>2
<1>15. Owned' = Owned \cup {r}
  <2>1. ASSUME NEW s \in Owned' PROVE s \in Owned \cup {r}
    <3>1. PICK q \in Page : count'[q] > 0 /\ s = [first |-> q, size |-> Size(private'[q]), refs |-> count'[q]]
      BY DEF Owned
    <3>2. CASE q = idx
      BY <1>5, <1>8, <3>1, <3>2
    <3>3. CASE q # idx
      <4>1. count[q] > 0 /\ s = [first |-> q, size |-> Size(private[q]), refs |-> count[q]]
        BY <1>5, <3>1, <3>3
      <4>2. QED
        BY <4>1 DEF Owned
    <3>4. QED
      BY <3>2, <3>3
  <2>2. ASSUME NEW s \in Owned PROVE s \in Owned'
    <3>1. PICK q \in Page : count[q] > 0 /\ s = [first |-> q, size |-> Size(private[q]), refs |-> count[q]]
      BY DEF Owned
    <3>2. q # idx
      BY <1>4, <3>1
    <3>3. count'[q] > 0 /\ s = [first |-> q, size |-> Size(private'[q]), refs |-> count'[q]]
      BY <1>5, <3>1, <3>2
    <3>4. QED
      BY <3>3 DEF Owned
  <2>3. r \in Owned'
    <3>1. count'[idx] > 0 /\ r = [first |-> idx, size |-> Size(private'[idx]), refs |-> count'[idx]]
      BY <1>4, <1>5, <1>8
    <3>2. QED
      BY <1>4, <3>1 DEF Owned
  <2>4. QED
    BY <2>1, <2>2, <2>3
<1>16. Allocator!Run(r) \subseteq PoolPages[pool]
  BY <1>9, <1>12 DEF Allocator!Run
<1>17. idx \in PoolPages[pool] /\ idx % Size(order) = 0
  BY <1>7, <1>12
<1>18. QED
  BY <1>8, <1>14, <1>15, <1>16, <1>17 DEF Allocator!Alloc

\* alloc_pages gives out pages that nobody has, of the size and the pool asked for, and a page
\* that is shared is its owners' until the last of them has freed it.
THEOREM Implements == Spec => ImplementsAllocator
<1>1. Init => Allocator!Init
  <2> SUFFICES ASSUME Init PROVE Allocator!Init
    OBVIOUS
  <2>1. IInv
    BY InitIInv
  <2>2. ASSUME NEW p \in Page, count[p] > 0 PROVE RunOf(p) \in Allocator!Runs
    <3>1. count[p] \in Nat /\ Size(private[p]) \in { Size(o) : o \in Order }
      BY <2>1, Typed DEF IInv
    <3>2. QED
      BY <3>1 DEF RunOf, Allocator!Runs
  <2>3. ASSUME NEW p \in Page, NEW q \in Page, count[p] > 0, count[q] > 0, RunOf(p) # RunOf(q)
        PROVE  Allocator!Run(RunOf(p)) \cap Allocator!Run(RunOf(q)) = {}
    <3>1. p # q
      BY <2>3
    <3>2. /\ Allocator!Run(RunOf(p)) = p .. p + Size(private[p]) - 1
          /\ Allocator!Run(RunOf(q)) = q .. q + Size(private[q]) - 1
      BY DEF Allocator!Run, RunOf
    <3>3. QED
      BY <2>1, <2>3, <3>1, <3>2, Apart
  <2>4. \A r \in Owned : \E p \in Page : count[p] > 0 /\ r = RunOf(p)
    BY DEF Owned, RunOf
  <2>5. QED
    BY <2>2, <2>3, <2>4 DEF Allocator!Init
<1>2. IInv /\ [Next]_vars => [Allocator!Next]_Owned
  <2> SUFFICES ASSUME IInv, [Next]_vars PROVE [Allocator!Next]_Owned
    OBVIOUS
  <2>1. ASSUME NEW pool \in Pool, NEW order \in Order, alloc_pages(pool, order) PROVE Allocator!Next
    <3>1. Allocator!Alloc(pool, Size(order))
      BY <2>1, AllocImplements
    <3>2. pool \in DOMAIN PoolPages /\ Size(order) \in { Size(o) : o \in Order }
      BY DEF PoolPages, Pool
    <3>3. QED
      BY <3>1, <3>2 DEF Allocator!Next
  <2>2. ASSUME NEW idx \in Page, share(idx) PROVE Allocator!Next
    <3>1. TypeOK /\ count[idx] > 0 /\ count[idx] + 1 \in Nat
      BY <2>2, Typed DEF IInv, share, Held
    <3>2. count' = [count EXCEPT ![idx] = count[idx] + 1] /\ private' = private
      BY <2>2 DEF share
    <3>3. RunOf(idx) \in Owned /\ Allocator!Count(RunOf(idx), count[idx] + 1)
      BY <3>1, <3>2, Recounted
    <3>4. RunOf(idx).refs = count[idx]
      BY DEF RunOf
    <3>5. QED
      BY <3>3, <3>4 DEF Allocator!Next
  <2>3. ASSUME NEW idx \in Page, __free_pages(idx) PROVE Allocator!Next
    <3>1. TypeOK /\ count[idx] > 0 /\ count[idx] - 1 \in Nat
      <4>1. count[idx] > 0 /\ count[idx] \in Nat
        BY <2>3, Typed DEF IInv, __free_pages, Held
      <4>2. QED
        BY <4>1 DEF IInv
    <3>2. count' = [count EXCEPT ![idx] = count[idx] - 1] /\ private' = private
      BY <2>3 DEF __free_pages
    <3>3. RunOf(idx) \in Owned /\ Allocator!Count(RunOf(idx), count[idx] - 1)
      BY <3>1, <3>2, Recounted
    <3>4. RunOf(idx).refs = count[idx]
      BY DEF RunOf
    <3>5. QED
      BY <3>3, <3>4 DEF Allocator!Next
  <2>4. ASSUME count' = count, private' = private PROVE Owned' = Owned
    BY <2>4 DEF Owned
  <2>5. ASSUME NEW idx \in Page, Merge(idx) PROVE Owned' = Owned
    BY <2>4, <2>5 DEF Merge
  <2>6. CASE UNCHANGED vars
    BY <2>4, <2>6 DEF vars
  <2>7. QED
    BY <2>1, <2>2, <2>3, <2>5, <2>6 DEF Next
<1>3. QED
  BY <1>1, <1>2, Invariant, PTL DEF Spec, ImplementsAllocator, Allocator!Spec

=============================================================================
